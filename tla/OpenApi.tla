-------------------------------- MODULE OpenApi --------------------------------
(***************************************************************************)
(* The OpenAPI document of meshStack: what kinds and actions its operations*)
(* have, which of them a path, a method and a version select, what a       *)
(* request is sent as, and the components that a selection is printed with.*)
(*                                                                         *)
(* A segment of a path is a number, in the order of the names, a parameter *)
(* a negative one.  A version is one too: 2 * n for vn, one less for its   *)
(* preview.                                                                *)
(***************************************************************************)
EXTENDS Integers, FiniteSets, Sequences, SequencesExt

CONSTANTS
  Documents,     \* documents: the operations in their order
  Requests,      \* what meshstack api is asked to send
  Component,     \* the components of a document
  Refs           \* what each of them may refer to

ASSUME ComponentAssumption == IsFiniteSet(Component)

Methods == {"GET", "PUT", "POST", "DELETE", "OPTIONS", "HEAD", "PATCH", "TRACE"}

(* What a document is: operations, each with the types that its request and response have. *)
ASSUME DocumentAssumption ==
  \A doc \in Documents :
    /\ doc \in Seq(ToSet(doc))
    /\ \A o \in ToSet(doc) : /\ o.method \in Methods /\ o.template \in Seq(Int)
                            /\ IsFiniteSet(o.types) /\ \A m \in o.types : m.version \in Nat

NoKind == "none"
NoVersion == 0
Json == [kind |-> NoKind, version |-> NoVersion]
NoType == [kind |-> "no type", version |-> NoVersion]
NoBody == [kind |-> "no body", version |-> NoVersion]
NoPath == <<>>
AnyMethod == "any"

VARIABLES
  spec,          \* the operations, with kind and action
  request,       \* what is asked
  requestPc,      \* what has become of it
  accept,        \* the Accept header
  contentType,   \* the Content-Type header
  body,          \* the kind and version in the body
  refersTo,      \* the components that each component refers to
  printedRefs,   \* those that the printed operations refer to themselves
  toFollow,      \* the components whose references are still to be followed
  referenced     \* those that are printed

headerVars == <<accept, contentType, body>>
refVars == <<refersTo, printedRefs, toFollow, referenced>>
openApiVars == <<spec, request, requestPc, headerVars, refVars>>

-----------------------------------------------------------------------------
(* Paths and versions.                                                     *)

IsParameter(s) == s < 0

TemplateMatches(t, path) ==
  /\ Len(t) = Len(path)
  /\ \A i \in 1..Len(t) : IsParameter(t[i]) \/ t[i] = path[i]

LiteralStart(t) ==
  LET n == Min({i \in 1..(Len(t) + 1) : i > Len(t) \/ IsParameter(t[i])})
  IN SubSeq(t, 1, n - 1)

Literals(t) == [i \in 1..Len(t) |-> IF IsParameter(t[i]) THEN 0 ELSE t[i]]

Below(s, u) ==
  \/ IsStrictPrefix(s, u)
  \/ \E i \in 1..Min({Len(s), Len(u)}) : s[i] < u[i] /\ \A j \in 1..(i - 1) : s[j] = u[j]

(* mostLiteral: a literal segment goes before a parameter, from the left.  *)
MostLiteral(ops) ==
  {o \in ops : \A p \in ops : ~Below(Literals(o.template), Literals(p.template))}

ApiVersions(o) == {m.version : m \in o.types} \ {NoVersion}
Offered(ops) == UNION {ApiVersions(o) : o \in ops}

-----------------------------------------------------------------------------
(* Parse: kinds and actions.                                               *)

KindsOf(o) == {m.kind : m \in o.types} \ {NoKind}
DocumentKinds(doc) == UNION {KindsOf(doc[i]) : i \in DOMAIN doc}

(* The literal start of the first of the shortest templates with the kind. *)
KindPath(doc, k) ==
  LET with == {i \in DOMAIN doc : k \in KindsOf(doc[i])}
      start == [i \in with |-> LiteralStart(doc[i].template)]
      shortest == {i \in with : \A j \in with : Len(start[i]) <= Len(start[j])}
  IN start[Min(shortest)]

(* A kind is dropped for another one below its path.  Of those on one path one is left: the *)
(* last in the order in which the map is walked.                                            *)
KindSets(doc) ==
  {ks \in SUBSET DocumentKinds(doc) :
     /\ \A k \in ks, l \in DocumentKinds(doc) :
          /\ ~IsStrictPrefix(KindPath(doc, k), KindPath(doc, l))
          /\ l \in ks \ {k} => KindPath(doc, k) # KindPath(doc, l)
     /\ \A l \in DocumentKinds(doc) :
          \E k \in ks : IsPrefix(KindPath(doc, l), KindPath(doc, k))}

Owner(doc, ks, t) ==
  LET owners == {k \in ks : IsPrefix(KindPath(doc, k), t)}
  IN IF owners = {} THEN NoKind
     ELSE CHOOSE k \in owners :
            \A l \in owners : Len(KindPath(doc, l)) <= Len(KindPath(doc, k))

(* The words for what a method does, as segments.                          *)
ListWord == 1001
ShowWord == 1002
MethodAction(method) ==
  CASE method = "GET" -> 1003 [] method = "POST" -> 1004
    [] method \in {"PUT", "PATCH"} -> 1005 [] method = "DELETE" -> 1006
    [] method = "HEAD" -> 1007 [] method = "OPTIONS" -> 1008 [] method = "TRACE" -> 1009

(* What is at these places of a sequence, in its order.                    *)
Picked(s, places) ==
  [n \in 1..Cardinality(places) |->
     s[CHOOSE i \in places : Cardinality({j \in places : j > i}) = Cardinality(places) - n]]

(* The literals below the path of the kind, or else what the method does.  *)
ActionOf(method, rest) ==
  LET literals == Picked(rest, {i \in DOMAIN rest : ~IsParameter(rest[i])})
  IN CASE literals # <<>> -> literals
       [] literals = <<>> /\ method = "GET" -> <<IF rest = <<>> THEN ListWord ELSE ShowWord>>
       [] OTHER -> <<MethodAction(method)>>

(* A GET keeps the action that it shares with another method.              *)
TellApart(method) == method # "GET"

WithKinds(doc, ks) ==
  LET owner == [i \in DOMAIN doc |-> Owner(doc, ks, doc[i].template)]
      action == [i \in DOMAIN doc |->
                   IF owner[i] = NoKind THEN <<>>
                   ELSE ActionOf(doc[i].method, SubSeq(doc[i].template,
                                   Len(KindPath(doc, owner[i])) + 1, Len(doc[i].template)))]
      shared(i) == /\ owner[i] # NoKind /\ TellApart(doc[i].method)
                   /\ \E j \in DOMAIN doc : /\ owner[j] = owner[i] /\ action[j] = action[i]
                                            /\ doc[j].method # doc[i].method
  IN {[method |-> doc[i].method, template |-> doc[i].template, types |-> doc[i].types,
       kind |-> owner[i],
       action |-> IF shared(i) THEN Append(action[i], MethodAction(doc[i].method))
                               ELSE action[i]] : i \in DOMAIN doc}

-----------------------------------------------------------------------------
(* Select.                                                                 *)

Matched(s) == {o \in spec : o.method = s.method /\ TemplateMatches(o.template, s.path)}

(* Mutation: the latest version is that of one of the templates.           *)
LatestOfOne(ops) ==
  IF Offered(ops) = {} THEN NoVersion
  ELSE LET o == CHOOSE o \in ops : ApiVersions(o) # {} IN Max(ApiVersions(o))

(* The templates that match one path are versions of one operation.        *)
Latest(ops) == IF Offered(ops) = {} THEN NoVersion ELSE Max(Offered(ops))

VersionFor(ops, v) == IF v = NoVersion THEN Latest(ops) ELSE v

(* withVersion: the types of no version stay.                              *)
Narrowed(o, v) ==
  IF v = NoVersion THEN o ELSE [o EXCEPT !.types = {m \in @ : m.version \in {NoVersion, v}}]

Refused(ops, v) == Offered(ops) # {} /\ VersionFor(ops, v) \notin Offered(ops)

Selected(ops, v) ==
  LET version == VersionFor(ops, v)
  IN {Narrowed(o, version) : o \in {p \in ops : \/ Offered(ops) = {}
                                               \/ version \in ApiVersions(p)}}

-----------------------------------------------------------------------------
(* What is sent.                                                           *)

(* The versions in the headers, the flag and the body.                     *)
Given == {request.accept.version, request.contentType.version, request.flag,
          request.body.version} \ {NoVersion}
AskedVersion == IF Given = {} THEN NoVersion ELSE CHOOSE v \in Given : TRUE

SendWith(how, a, c, b) ==
  /\ requestPc' = how /\ accept' = a /\ body' = b
  /\ contentType' = IF request.body # NoBody /\ c = NoType THEN Json ELSE c
  /\ UNCHANGED <<spec, request, refVars>>

(* As the docs say, or as it is asked without a look at them.              *)
SendAs(a, c, b) == SendWith("sent", a, c, b)
SendUnchanged(how) == SendWith(how, request.accept, request.contentType, request.body)

FailRequest == requestPc' = "failed" /\ UNCHANGED <<spec, request, headerVars, refVars>>

(* LatestMediaType, of the types of one version the first by its name.     *)
LatestTypes(ops) ==
  LET versioned == {m \in UNION {o.types : o \in ops} : m.version # NoVersion}
  IN IF versioned # {} THEN versioned ELSE UNION {o.types : o \in ops}

(* WithKindAndApiVersion: what the body lacks is added, what differs refused.            *)
Fits(b, m) == b.kind \in {NoKind, m.kind} /\ b.version \in {NoVersion, m.version}
Or(header, m) == IF header = NoType THEN m ELSE header

SendVersioned(m) ==
  IF request.body = NoBody
  THEN SendAs(Or(request.accept, m), request.contentType, NoBody)
  ELSE IF m.kind # NoKind /\ ~Fits(request.body, m) THEN FailRequest
  ELSE SendAs(Or(request.accept, m), Or(request.contentType, m),
              IF m.kind = NoKind THEN request.body ELSE m)

SendUnversioned(types) ==
  \E m \in IF types # {} THEN types ELSE {IF request.body = NoBody THEN NoType ELSE Json} :
    SendAs(Or(request.accept, m), request.contentType, request.body)

Negotiate ==
  /\ requestPc = "asked" /\ request.path # NoPath
  /\ LET ops == IF Matched(request) = {} THEN {} ELSE MostLiteral(Matched(request))
         types == LatestTypes(Selected(ops, AskedVersion))
     IN IF Cardinality(Given) > 1 THEN FailRequest
        ELSE IF Refused(ops, AskedVersion)
        THEN IF request.accept.version # NoVersion THEN SendUnchanged("sent") ELSE FailRequest
        ELSE IF \A m \in types : m.version = NoVersion THEN SendUnversioned(types)
        ELSE \E m \in types : SendVersioned(m)

(* The API docs may not be there.                                          *)
SendWithoutDocs ==
  /\ requestPc = "asked" /\ request.path # NoPath /\ Cardinality(Given) <= 1
  /\ SendUnchanged("sent unseen")

-----------------------------------------------------------------------------
(* meshstack api-docs without a path: the operations of a method and a version, by path.  *)

(* What Select takes for versions of one operation.                        *)
ActionKey(o) == <<o.kind, o.method, IF o.kind = NoKind THEN o.template ELSE o.action>>
SameAction(ops, o) == {p \in ops : ActionKey(p) = ActionKey(o)}

OfMethod == {o \in spec : request.method \in {AnyMethod, o.method}}

SelectedOf(ops) == IF Refused(ops, AskedVersion) THEN {} ELSE Selected(ops, AskedVersion)

Listed ==
  IF request.method = AnyMethod /\ AskedVersion = NoVersion THEN spec
  ELSE UNION {SelectedOf(MostLiteral(SameAction(OfMethod, o))) : o \in OfMethod}

PathsOf(ops) ==
  [t \in {o.template : o \in ops} |->
     LET at == {o \in ops : o.template = t}
     IN [methods |-> {o.method : o \in at}, versions |-> Offered(at)]]

(* No operation of the method, or none in the version.                     *)
NoOperation == Listed = {}

ListOperations ==
  /\ requestPc = "asked" /\ request.path = NoPath
  /\ IF Cardinality(Given) > 1 \/ NoOperation THEN FailRequest
     ELSE requestPc' = "listed" /\ UNCHANGED <<spec, request, headerVars, refVars>>

-----------------------------------------------------------------------------
(* The components of what is printed.                                      *)

ToFollow(c) == refersTo[c] \ (referenced \cup {c})

Follow(c) ==
  /\ requestPc = "printing" /\ c \in toFollow
  /\ referenced' = referenced \cup {c}
  /\ toFollow' = (toFollow \ {c}) \cup ToFollow(c)
  /\ UNCHANGED <<spec, request, requestPc, headerVars, refersTo, printedRefs>>

Printed ==
  /\ requestPc = "printing" /\ toFollow = {}
  /\ requestPc' = "printed"
  /\ UNCHANGED <<spec, request, headerVars, refVars>>

OpenApiInit ==
  /\ \/ /\ requestPc = "asked"
        /\ \E doc \in Documents : \E ks \in KindSets(doc) : spec = WithKinds(doc, ks)
        /\ request \in Requests
        /\ refersTo = [c \in Component |-> {}] /\ printedRefs = {}
     \/ /\ requestPc = "printing" /\ request = CHOOSE r \in Requests : TRUE
        /\ refersTo \in [Component -> Refs] /\ printedRefs \in Refs
        /\ spec = {}
  /\ accept = NoType /\ contentType = NoType /\ body = NoBody
  /\ toFollow = printedRefs /\ referenced = {}

OpenApiStep ==
  \/ Negotiate \/ SendWithoutDocs \/ ListOperations \/ Printed
  \/ \E c \in Component : Follow(c)

-----------------------------------------------------------------------------
SentOperations ==
  {o \in Matched(request) : \E p \in MostLiteral(Matched(request)) :
                              Literals(o.template) = Literals(p.template)}

(* A listing keeps to the method and the version that are asked for, and has every action *)
(* of the method, in one version where none is asked for.                                 *)
ListsWhatIsAsked ==
  requestPc = "listed" =>
    LET paths == PathsOf(Listed)
    IN /\ \A t \in DOMAIN paths :
            /\ request.method # AnyMethod => paths[t].methods = {request.method}
            /\ Given # {} => paths[t].versions \subseteq Given
       /\ Given = {} => \A o \in OfMethod :
            LET shown == {p \in SameAction(OfMethod, o) : p.template \in DOMAIN paths}
            IN /\ shown # {}
               /\ request.method # AnyMethod =>
                    Cardinality(Offered(SameAction(Listed, o))) <= 1

(* A request is sent as one version throughout: that which its headers, its body or the   *)
(* flag ask for, or else the newest that the docs offer for its method and path, whichever *)
(* of several templates offers it.  What a header or the body asks for is never dropped, and *)
(* what the flag asks for, or the newest, only where the request brings an Accept of its own, *)
(* where the docs are not there, and where they offer no version.                         *)
SentAsOneVersion ==
  requestPc \in {"sent", "sent unseen"} =>
    LET versions == {accept.version, contentType.version, body.version} \ {NoVersion}
    IN /\ Cardinality(versions) <= 1
       /\ versions # {} => versions = IF Given # {} THEN Given ELSE {Max(Offered(SentOperations))}
       /\ versions = {} => Given \subseteq {request.flag}
       /\ versions = {} /\ requestPc = "sent" /\ request.accept = NoType =>
            Offered(SentOperations) = {}

(* The actions of a kind tell its methods apart, but for PUT and PATCH, and where the path *)
(* of one has the word of the other's method itself.                                       *)
MethodsToldApart ==
  \A o, p \in spec :
    o.kind = p.kind /\ o.kind # NoKind /\ o.action = p.action =>
      \/ o.method = p.method \/ {o.method, p.method} = {"PUT", "PATCH"}
      \/ MethodAction(o.method) \in ToSet(p.template)
      \/ MethodAction(p.method) \in ToSet(o.template)

(* What is printed has the components that the printed operations refer to, those that    *)
(* these refer to in turn, and no other.                                                  *)
FollowsRefs(S) == printedRefs \subseteq S /\ \A c \in S : refersTo[c] \subseteq S

PrintsAll ==
  requestPc = "printed" =>
    /\ FollowsRefs(referenced)
    /\ \A S \in SUBSET Component : FollowsRefs(S) => referenced \subseteq S

(* A request, a listing and what is printed are what the docs say.                        *)
RequestsFollowDocs == SentAsOneVersion /\ MethodsToldApart /\ PrintsAll /\ ListsWhatIsAsked
=============================================================================
