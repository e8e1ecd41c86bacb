------------------------------ MODULE MCCommands ------------------------------
(* Small instances of each part. *)
EXTENDS Commands

(* Two building blocks with up to three runs between them; numbers of seconds that are too *)
(* many, and that wrap to a negative and to a positive wait.                              *)
MCSources == 1..2
MCRetryAfter == {-3, 0, 2, 11, 13, 60}

(* An endpoint, one below it, and URLs under both, and under none. *)
MCSiteEndpoint == {[host |-> "a", path |-> <<>>], [host |-> "a", path |-> <<"x">>]}
MCTarget == {[host |-> "a", path |-> <<"x", "y">>], [host |-> "b", path |-> <<"x">>]}

(* Templates of one length that all match the path 1/2: versions of one operation, a *)
(* literal instead of a parameter, methods that share an action; and one above them. *)
MCType(k, v) == [kind |-> k, version |-> v]
MCTypes == {{}, {MCType("k", 4)}, {MCType("k", 3), Json}, {MCType("k", 2), MCType("l", 2), MCType("k", 4)}}
MCOperation ==
  [method : {"GET"}, template : {<<1, -1>>, <<1, -2>>, <<1, 2>>}, types : MCTypes]
    \cup [method : {"PUT", "PATCH"}, template : {<<1, 2>>}, types : MCTypes]
(* ... and a path with the literal of <<1, 2>> below the parameter. *)
MCAbove ==
  [method : {"GET"}, template : {<<1>>}, types : {{}, {MCType("k", 2)}}]
    \cup [method : {"GET"}, template : {<<1, -1, 2>>}, types : {{MCType("k", 6)}}]
MCDocuments == {<<o, p, q>> : o \in MCAbove, p, q \in MCOperation}
MCRequests ==
  [method : {"GET", "PUT"}, path : {<<1, 2>>}, accept : {NoType, MCType("k", 2)},
   contentType : {NoType}, flag : {0, 2}, body : {NoBody, Json, MCType("k", 2)}]
    \cup [method : {"GET", AnyMethod}, path : {NoPath}, accept : {NoType},
          contentType : {NoType}, flag : {0, 4}, body : {NoBody}]
MCRefs == SUBSET {"c1", "c2", "c3"}

(* Schemas that are, hold and list each other, one of another document, and an object in an *)
(* array in an object, with those in them; parameters of the same name in the operation, in *)
(* its path and in a component.                                                           *)
MCInner == ObjectOf(<<RefTo("c2")>>)
MCSchemas ==
  {Scalar, RefTo("c1"), RefTo("c2"), RefTo("c3"), RefTo(Elsewhere), ArrayOf(RefTo("c2")),
   ObjectOf(<<RefTo("c1"), ArrayOf(RefTo("c2"))>>), MCInner, ArrayOf(MCInner),
   ObjectOf(<<ArrayOf(MCInner), RefTo(Elsewhere), RefTo("c3")>>)}
MCParameter(name, of) == [ref |-> NoRef, name |-> name, of |-> of]
MCParameterRef(c) == [ref |-> c, name |-> NoRef, of |-> NoRef]
MCParameters == {MCParameter("p", "component"), MCParameterRef("c1"), MCParameterRef(Elsewhere)}
MCParameterLists ==
  {<<>>, <<MCParameter("p", "1")>>, <<MCParameter("q", "1")>>, <<MCParameterRef("c1")>>,
   <<MCParameterRef("c2")>>, <<MCParameter("p", "2"), MCParameter("q", "2")>>,
   <<MCParameterRef("c1"), MCParameter("q", "3")>>}

(* No profile, one, or two; the first may be the current one, and have a workspace. *)
MCInitially ==
  {k \in [names : {{}, {"n1"}, {"n1", "n2"}}, current : {Nobody, "n1"}, loggedIn : {{}},
          place : {[n1 |-> "a", n2 |-> NoPlace], [n1 |-> NoPlace, n2 |-> NoPlace]}] :
     k.names = {} => k.current = Nobody /\ k.place.n1 = NoPlace}
=============================================================================
