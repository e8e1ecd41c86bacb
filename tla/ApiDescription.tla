----------------------------- MODULE ApiDescription -----------------------------
(***************************************************************************)
(* What meshstack api-docs says of an operation: the operations of a kind  *)
(* and an action, the parameters with those of the path, and the fields of *)
(* a body, whose schemas refer to components, to arrays of them, and back. *)
(*                                                                         *)
(* A path of a field is that of the places of its properties, an item of an*)
(* array is 0.  The bodies of an operation are described one by one.       *)
(***************************************************************************)
EXTENDS OpenApi

CONSTANTS
  Schemas,         \* what a component and the schema of a body may be
  Parameters,      \* what a component may be among parameters
  ParameterLists   \* the parameters of an operation, and of a path

NoRef == "no ref"
Elsewhere == "elsewhere"     \* no component of the document

RefTo(c) == [ref |-> c, items |-> <<>>, properties |-> <<>>]
Scalar == RefTo(NoRef)
ArrayOf(schema) == [Scalar EXCEPT !.items = <<schema>>]
ObjectOf(properties) == [Scalar EXCEPT !.properties = properties]

(* What is in a schema is one.  Beside its $ref nothing of it is read, and beside its item  *)
(* no property.                                                                             *)
ASSUME SchemaAssumption ==
  /\ NoRef \notin Component
  /\ \A s \in Schemas :
       /\ s.items \in Seq(Schemas) /\ s.properties \in Seq(Schemas) /\ Len(s.items) <= 1
       /\ s.ref # NoRef => s.items = <<>> /\ s.properties = <<>>
       /\ s.items # <<>> => s.properties = <<>>

ASSUME ParameterAssumption == \A list \in ParameterLists : list \in Seq(ToSet(list))

VARIABLES
  describePc,    \* where the description is
  components,    \* what each component is
  root,          \* the schema of the body
  work,          \* the schemas and properties still to be read, with the $refs around them
  fieldsRead,    \* the fields
  own,           \* the parameters of the operation
  shared,        \* those of its path
  parameters     \* those that it has

describedVars == <<components, root, own, shared>>
describeVars == <<describePc, describedVars, work, fieldsRead, parameters>>

DescribeTypeOK ==
  /\ describePc \in {"inlining", "inlined", "reading", "described", "failed"}
  /\ \A i \in DOMAIN work : /\ work[i].what \in {"schema", "property"}
                            /\ work[i].path \in Seq(Nat) /\ work[i].refs \in Seq(Component)

DescribeInit ==
  /\ \/ /\ describePc = "inlining"
        /\ components \in [Component -> Parameters] /\ root = Scalar
        /\ own \in ParameterLists /\ shared \in ParameterLists
     \/ /\ describePc = "reading"
        /\ components \in [Component -> Schemas] /\ root \in Schemas
        /\ own = <<>> /\ shared = <<>>
  /\ work = <<[what |-> "schema", path |-> <<>>, schema |-> root, refs |-> <<>>]>>
  /\ fieldsRead = <<>> /\ parameters = <<>>

(* What a $ref leads to from component to component, as far as there is one that is not yet *)
(* followed.                                                                                *)
Behind(value, chain) == IF chain = <<>> THEN value ELSE components[Last(chain)]

Chains(value, refs) ==
  {chain \in BoundedSeq(Component, Cardinality(Component)) :
     \A i \in DOMAIN chain : /\ chain[i] = Behind(value, SubSeq(chain, 1, i - 1)).ref
                              /\ chain[i] \notin ToSet(refs) \cup ToSet(SubSeq(chain, 1, i - 1))}

Followed(value, refs) ==
  LET chain == CHOOSE c \in Chains(value, refs) : \A d \in Chains(value, refs) : Len(d) <= Len(c)
  IN [value |-> Behind(value, chain), refs |-> refs \o chain]

-----------------------------------------------------------------------------
(* inlineOperation: the parameters.                                        *)

Inlined(value) == Followed(value, <<>>).value
RefersToItself(value) == Inlined(value).ref \in Component

InlineAll(list) == [i \in DOMAIN list |-> Inlined(list[i])]

(* Those of the operation win.                                             *)
OfPathOnly ==
  {i \in DOMAIN shared : \A q \in ToSet(InlineAll(own)) : InlineAll(shared)[i].name # q.name}

InlineOperation ==
  /\ describePc = "inlining"
  /\ ~\E value \in ToSet(own) \cup ToSet(shared) : RefersToItself(value)
  /\ parameters' = Picked(InlineAll(shared), OfPathOnly) \o InlineAll(own)
  /\ describePc' = "inlined"
  /\ UNCHANGED <<describedVars, work, fieldsRead>>

FailInline ==
  /\ describePc = "inlining"
  /\ \E value \in ToSet(own) \cup ToSet(shared) : RefersToItself(value)
  /\ describePc' = "failed"
  /\ UNCHANGED <<describedVars, work, fieldsRead, parameters>>

-----------------------------------------------------------------------------
(* fields: a field for each property, and those of its schema below it.    *)

Reading(what) == describePc = "reading" /\ work # <<>> /\ Head(work).what = what
Then(items) == work' = items \o Tail(work)

(* The component that a $ref was to be followed to, or that it could not be followed to.  *)
TypeName(schema, resolved) == IF resolved.ref # NoRef THEN resolved.ref ELSE schema.ref

TypeIn(schema, refs) == TypeName(schema, Followed(schema, refs).value)

ReadProperty ==
  /\ Reading("property")
  /\ LET p == Head(work)
         child == Followed(p.schema, p.refs).value
     IN /\ fieldsRead' = Append(fieldsRead,
             [path |-> p.path, within |-> p.refs, type |-> TypeName(p.schema, child),
              items |-> IF child.items = <<>> THEN NoRef ELSE TypeIn(child.items[1], p.refs)])
        /\ Then(<<[p EXCEPT !.what = "schema"]>>)
  /\ UNCHANGED <<describedVars, describePc, parameters>>

(* A $ref that it is inside of, or cannot follow, has no fields; nor has a scalar.        *)
ReadSchema ==
  /\ Reading("schema")
  /\ LET s == Head(work)
         found == Followed(s.schema, s.refs)
         of == found.value
         below(what, place, schema) ==
           [what |-> what, path |-> Append(s.path, place), schema |-> schema, refs |-> found.refs]
     IN Then(IF of.items # <<>> THEN <<below("schema", 0, of.items[1])>>
             ELSE [i \in DOMAIN of.properties |-> below("property", i, of.properties[i])])
  /\ UNCHANGED <<describedVars, describePc, fieldsRead, parameters>>

AllRead ==
  /\ describePc = "reading" /\ work = <<>>
  /\ describePc' = "described"
  /\ UNCHANGED <<describedVars, work, fieldsRead, parameters>>

(* A schema that is none.                                                  *)
FailRead ==
  /\ describePc = "reading" /\ work # <<>>
  /\ describePc' = "failed"
  /\ UNCHANGED <<describedVars, work, fieldsRead, parameters>>

DescribeStep ==
  \/ InlineOperation \/ FailInline
  \/ ReadProperty \/ ReadSchema \/ AllRead \/ FailRead

-----------------------------------------------------------------------------
(* --describe kind.action: the operations of one action are versions of one operation for *)
(* each method.  Of a literal segment and a parameter the literal is taken, though the    *)
(* templates of an action need not match one path.  Those without the version are left out. *)

OfAction(k, a) == {o \in spec : o.kind = k /\ o.action = a}
LikeIt(o) == {p \in OfAction(o.kind, o.action) : p.method = o.method}

VersionsOfOne(o) == MostLiteral(LikeIt(o))

SelectedOfAction(k, a) == UNION {Selected(VersionsOfOne(o), NoVersion) : o \in OfAction(k, a)}

-----------------------------------------------------------------------------
(* What is inside of a schema without a $ref between them, at any depth, and itself.      *)
Inside(s) == ToSet(s.items) \cup ToSet(s.properties)
ClosedInside == {X \in SUBSET Schemas : \A s \in X : Inside(s) \subseteq X}
InlineOf == [s \in Schemas |-> {t \in Schemas : \A X \in ClosedInside : s \in X => t \in X}]

SchemaRefs(s) == {t.ref : t \in InlineOf[s]} \cap Component

(* The components that the body leads to.                                                 *)
Reached ==
  {c \in Component : \A S \in SUBSET Component :
     SchemaRefs(root) \subseteq S /\ (\A d \in S : SchemaRefs(components[d]) \subseteq S) => c \in S}

(* Whatever refers to itself, the reading of a body comes to an end: it is inside of no   *)
(* component twice.                                                                       *)
InsideOfNoneTwice == describePc = "reading" => \A i \in DOMAIN work : IsInjective(work[i].refs)

NamedOnce(list) == \A i, j \in DOMAIN list : list[i].name = list[j].name => i = j

(* No field is said twice.                                                                *)
FieldsOnce ==
  describePc = "described" =>
    \A i, j \in DOMAIN fieldsRead : i # j => fieldsRead[i].path # fieldsRead[j].path

(* The innermost component that a field is in.                                           *)
Holder(refs) == IF refs = <<>> THEN NoRef ELSE Last(refs)

PropertiesTold(s, c) ==
  s.properties # <<>> =>
    \E f \in ToSet(fieldsRead) :
      /\ Holder(f.within) = c
      /\ \A i \in DOMAIN s.properties :
           \E g \in ToSet(fieldsRead) : g.path = Append(Front(f.path), i) /\ g.within = f.within

(* Every property is among the fields: of the body, of each component that it leads to, and *)
(* of what is inside of them, however deep.                                               *)
FieldsOfAll ==
  describePc = "described" =>
    /\ \A s \in InlineOf[root] : PropertiesTold(s, NoRef)
    /\ \A c \in Reached : \A s \in InlineOf[components[c]] : PropertiesTold(s, c)

(* An operation has each parameter of its own, and each of its path or its own for that,  *)
(* and none twice unless a list has it twice.                                             *)
ParametersOnce ==
  describePc = "inlined" =>
    /\ ToSet(InlineAll(own)) \subseteq ToSet(parameters)
    /\ \A p \in ToSet(InlineAll(shared)) : \E q \in ToSet(parameters) : q.name = p.name
    /\ NamedOnce(InlineAll(own)) /\ NamedOnce(InlineAll(shared)) => NamedOnce(parameters)

(* For each action of a kind every method that has it is described, and of all operations *)
(* with the action and the method none is of a newer version than what is described, but   *)
(* one whose template is no match for that of what is described: at the first segment in   *)
(* which they differ it has a parameter, an earlier literal or none.                       *)
NewestDescribed ==
  \A o \in spec : o.kind # NoKind =>
    LET described == {p \in SelectedOfAction(o.kind, o.action) : p.method = o.method}
    IN /\ described # {}
       /\ \A p \in described, q \in LikeIt(o) :
            \/ Below(Literals(q.template), Literals(p.template))
            \/ \A v \in ApiVersions(q) : \E w \in ApiVersions(p) : v <= w

DescribedInFull == InsideOfNoneTwice /\ FieldsOnce /\ FieldsOfAll /\ ParametersOnce /\ NewestDescribed

(* What meshstack api sends is what the API docs say, and what meshstack api-docs writes  *)
(* is all that they say.                                                                  *)
DocsAreFollowed == RequestsFollowDocs /\ DescribedInFull
=============================================================================
