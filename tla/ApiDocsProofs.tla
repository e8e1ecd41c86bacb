----------------------------- MODULE ApiDocsProofs -----------------------------
(***************************************************************************)
(* Proofs that the commands follow the API documents they read, for any    *)
(* document that the assumptions allow: what is sent, listed and printed   *)
(* is what the document says, and a body is described in full.             *)
(***************************************************************************)
EXTENDS CommandsProofs

-----------------------------------------------------------------------------
(* OpenApi: what is sent, listed, described and printed. *)

(* The image of a finite set is finite. *)
LEMMA FiniteImage ==
  ASSUME NEW f, f = [x \in DOMAIN f |-> f[x]], IsFiniteSet(DOMAIN f), NEW T, T = {f[x] : x \in DOMAIN f}
  PROVE  IsFiniteSet(T)
<1>1. f \in [DOMAIN f -> T]
  OBVIOUS
<1>2. f \in Surjection(DOMAIN f, T)
  BY <1>1 DEF Surjection
<1> QED BY <1>2, FS_Surjection

(* What the kinds and actions leave of the operations of a document. *)
SpecInv ==
  /\ IsFiniteSet(spec)
  /\ \A o \in spec :
       /\ o = [method |-> o.method, template |-> o.template, types |-> o.types, kind |-> o.kind, action |-> o.action]
       /\ o.template \in Seq(Int) /\ IsFiniteSet(o.types) /\ \A m \in o.types : m.version \in Nat

(* What a document is made of. *)
LEMMA DocumentIs ==
  ASSUME NEW doc \in Documents
  PROVE  /\ Len(doc) \in Nat /\ DOMAIN doc = 1..Len(doc) /\ IsFiniteSet(DOMAIN doc)
         /\ \A i \in DOMAIN doc : /\ doc[i].method \in Methods /\ doc[i].template \in Seq(Int)
                                 /\ IsFiniteSet(doc[i].types) /\ \A m \in doc[i].types : m.version \in Nat
<1>1. doc \in Seq(ToSet(doc))
  BY DocumentAssumption
<1>2. Len(doc) \in Nat /\ DOMAIN doc = 1..Len(doc)
  BY <1>1
<1>3. IsFiniteSet(1..Len(doc))
  BY <1>2, FS_Interval
<1>4. \A i \in DOMAIN doc : doc[i] \in ToSet(doc)
  BY DEF ToSet
<1>5. \A o \in ToSet(doc) : /\ o.method \in Methods /\ o.template \in Seq(Int)
                           /\ IsFiniteSet(o.types) /\ \A m \in o.types : m.version \in Nat
  BY DocumentAssumption
<1> QED BY <1>2, <1>3, <1>4, <1>5, Zenon

(* The operations of a document with their kinds. *)
LEMMA KindsLeave ==
  ASSUME NEW doc \in Documents, NEW ks, spec = WithKinds(doc, ks)
  PROVE  SpecInv
<1> DEFINE owner == [i \in DOMAIN doc |-> Owner(doc, ks, doc[i].template)]
           action == [i \in DOMAIN doc |->
                   IF owner[i] = NoKind THEN <<>>
                   ELSE ActionOf(doc[i].method, SubSeq(doc[i].template,
                                   Len(KindPath(doc, owner[i])) + 1, Len(doc[i].template)))]
           isShared(i) == /\ owner[i] # NoKind /\ TellApart(doc[i].method)
                         /\ \E j \in DOMAIN doc : /\ owner[j] = owner[i] /\ action[j] = action[i]
                                                  /\ doc[j].method # doc[i].method
           suffixed(i) == IF isShared(i) THEN Append(action[i], MethodAction(doc[i].method)) ELSE action[i]
           op == [i \in DOMAIN doc |->
                    [method |-> doc[i].method, template |-> doc[i].template, types |-> doc[i].types,
                     kind |-> owner[i], action |-> suffixed(i)]]
<1>1. spec = {op[i] : i \in DOMAIN doc}
  BY DEF WithKinds
<1> HIDE DEF suffixed, owner
<1>2. ASSUME NEW i \in DOMAIN doc
      PROVE  /\ op[i] = [method |-> op[i].method, template |-> op[i].template, types |-> op[i].types,
                         kind |-> op[i].kind, action |-> op[i].action]
             /\ op[i].template = doc[i].template /\ op[i].types = doc[i].types
  <2> DEFINE r == [method |-> doc[i].method, template |-> doc[i].template, types |-> doc[i].types,
                   kind |-> owner[i], action |-> suffixed(i)]
  <2>1. op[i] = r
    OBVIOUS
  <2>2. /\ r.method = doc[i].method /\ r.template = doc[i].template /\ r.types = doc[i].types
        /\ r.kind = owner[i] /\ r.action = suffixed(i)
    OBVIOUS
  <2>3. r = [method |-> r.method, template |-> r.template, types |-> r.types, kind |-> r.kind, action |-> r.action]
    BY <2>2
  <2> HIDE DEF r, op
  <2> QED BY <2>1, <2>2, <2>3
<1>3. DOMAIN op = DOMAIN doc
  OBVIOUS
<1>7. op = [i \in DOMAIN op |-> op[i]]
  OBVIOUS
<1> HIDE DEF op
<1>4. IsFiniteSet(DOMAIN doc)
  BY DocumentIs
<1>5. IsFiniteSet(spec)
  BY <1>1, <1>3, <1>4, <1>7, FiniteImage
<1>6. \A o \in spec : /\ o = [method |-> o.method, template |-> o.template, types |-> o.types, kind |-> o.kind, action |-> o.action]
                      /\ o.template \in Seq(Int) /\ IsFiniteSet(o.types) /\ \A m \in o.types : m.version \in Nat
  <2> SUFFICES ASSUME NEW i \in DOMAIN doc
               PROVE  /\ op[i] = [method |-> op[i].method, template |-> op[i].template, types |-> op[i].types,
                                  kind |-> op[i].kind, action |-> op[i].action]
                      /\ op[i].template \in Seq(Int) /\ IsFiniteSet(op[i].types) /\ \A m \in op[i].types : m.version \in Nat
    BY <1>1
  <2>1. op[i].template = doc[i].template /\ op[i].types = doc[i].types
    BY <1>2
  <2>2. op[i] = [method |-> op[i].method, template |-> op[i].template, types |-> op[i].types,
                 kind |-> op[i].kind, action |-> op[i].action]
    BY <1>2, Zenon
  <2>3. doc[i].template \in Seq(Int) /\ IsFiniteSet(doc[i].types) /\ \A m \in doc[i].types : m.version \in Nat
    BY DocumentIs
  <2> QED BY <2>1, <2>2, <2>3
<1> QED BY <1>5, <1>6 DEF SpecInv

(* A request names few versions. *)
LEMMA GivenFinite == IsFiniteSet(Given) /\ Cardinality(Given) \in Nat
<1>1. IsFiniteSet({request.accept.version, request.contentType.version, request.flag, request.body.version})
  <2>1. IsFiniteSet({request.accept.version})
    BY FS_Singleton
  <2>2. IsFiniteSet({request.accept.version} \cup {request.contentType.version})
    BY <2>1, FS_AddElement
  <2>3. IsFiniteSet(({request.accept.version} \cup {request.contentType.version}) \cup {request.flag})
    BY <2>2, FS_AddElement
  <2>4. IsFiniteSet((({request.accept.version} \cup {request.contentType.version}) \cup {request.flag})
                       \cup {request.body.version})
    BY <2>3, FS_AddElement
  <2>5. {request.accept.version, request.contentType.version, request.flag, request.body.version}
          = (({request.accept.version} \cup {request.contentType.version}) \cup {request.flag})
              \cup {request.body.version}
    OBVIOUS
  <2> QED BY <2>4, <2>5
<1>2. IsFiniteSet(Given)
  BY <1>1, FS_Subset DEF Given
<1> QED BY <1>2, FS_CardinalityType

(* What the versions that are asked for are. *)
LEMMA GivenOnce ==
  ASSUME Cardinality(Given) <= 1
  PROVE  /\ Given \subseteq {AskedVersion} /\ NoVersion \notin Given
         /\ Given = {} <=> AskedVersion = NoVersion
<1>2. IsFiniteSet(Given)
  BY GivenFinite
<1>3. NoVersion \notin Given
  BY DEF Given
<1>4. ASSUME NEW v \in Given PROVE Given = {v}
  <2>1. IsFiniteSet(Given \ {v}) /\ Cardinality(Given \ {v}) = Cardinality(Given) - 1
    BY <1>2, FS_RemoveElement
  <2>2. Cardinality(Given) \in Nat /\ Cardinality(Given \ {v}) \in Nat
    BY <1>2, <2>1, FS_CardinalityType
  <2>3. Given \ {v} = {}
    BY <2>1, <2>2, FS_EmptySet
  <2> QED BY <2>3
<1>5. CASE Given = {}
  BY <1>3, <1>5 DEF AskedVersion
<1>6. CASE Given # {}
  <2>1. AskedVersion \in Given
    BY <1>6 DEF AskedVersion
  <2> QED BY <1>3, <1>4, <1>6, <2>1
<1> QED BY <1>5, <1>6

(* The templates that match, and are not less literal, are those with the most literals.  *)
LEMMA SentAreMostLiteral == SentOperations = MostLiteral(Matched(request))
<1> DEFINE M == Matched(request)
<1>1. ASSUME NEW o \in M, NEW p \in MostLiteral(M), Literals(o.template) = Literals(p.template)
      PROVE  o \in MostLiteral(M)
  BY <1>1 DEF MostLiteral
<1>2. MostLiteral(M) \subseteq M
  BY DEF MostLiteral
<1> HIDE DEF M
<1> QED BY <1>1, <1>2 DEF SentOperations, M

(* The types of what is selected have one version. *)
LEMMA SelectedVersions ==
  ASSUME SpecInv, NEW ops \in SUBSET spec, NEW v, NEW m \in LatestTypes(Selected(ops, v)),
         m.version # NoVersion
  PROVE  m.version = VersionFor(ops, v)
<1>1. PICK o \in Selected(ops, v) : m \in o.types
  BY DEF LatestTypes
<1>2. PICK p \in ops : /\ o = Narrowed(p, VersionFor(ops, v))
                       /\ Offered(ops) = {} \/ VersionFor(ops, v) \in ApiVersions(p)
  BY <1>1 DEF Selected
<1>3. CASE VersionFor(ops, v) = NoVersion
  <2>1. o = p /\ NoVersion \notin ApiVersions(p)
    BY <1>2, <1>3 DEF Narrowed, ApiVersions
  <2>2. m.version \in ApiVersions(p)
    BY <1>1, <2>1 DEF ApiVersions
  <2> QED BY <1>2, <1>3, <2>1, <2>2 DEF Offered
<1>4. CASE VersionFor(ops, v) # NoVersion
  <2>1. o = [p EXCEPT !.types = {n \in @ : n.version \in {NoVersion, VersionFor(ops, v)}}]
    BY <1>2, <1>4 DEF Narrowed
  <2> DEFINE w == VersionFor(ops, v)
             narrowed == {n \in p.types : n.version \in {NoVersion, w}}
  <2>2. p = [method |-> p.method, template |-> p.template, types |-> p.types, kind |-> p.kind, action |-> p.action]
    BY DEF SpecInv
  <2>3. [p EXCEPT !.types = narrowed].types = narrowed
    BY <2>2
  <2>4. m \in narrowed
    BY <1>1, <2>1, <2>3
  <2> QED BY <2>4
<1> QED BY <1>3, <1>4

(* What is sent as one version, which is the given one or the newest. *)
LEMMA SendsOneVersion ==
  ASSUME NEW how, NEW a, NEW c, NEW b, SendWith(how, a, c, b), NEW v,
         a.version \in {NoVersion, v}, c.version \in {NoVersion, v}, b.version \in {NoVersion, v},
         Given \subseteq {v},
         {request.accept.version, request.contentType.version, request.body.version}
           \subseteq {NoVersion, a.version, c.version, b.version},
         Given = {} => v = NoVersion \/ v = Max(Offered(SentOperations)),
         how = "sent" /\ request.accept = NoType /\ a.version = NoVersion => Offered(SentOperations) = {}
  PROVE  SentAsOneVersion'
<1> DEFINE versions == {a.version, c.version, b.version} \ {NoVersion}
<1>1. accept' = a /\ body' = b /\ contentType'.version = c.version /\ requestPc' = how
  <2>1. NoType.version = Json.version
    BY DEF NoType, Json
  <2> QED BY <2>1 DEF SendWith
<1>2. Given' = Given /\ SentOperations' = SentOperations /\ request' = request
  BY DEF SendWith, Given, SentOperations, Matched
<1>3. versions \subseteq {v} /\ NoVersion \notin versions
  OBVIOUS
<1>4. Cardinality(versions) <= 1
  <2>1. versions = {} \/ versions = {v}
    BY <1>3
  <2> HIDE DEF versions
  <2>2. Cardinality({}) = 0 /\ Cardinality({v}) = 1
    <3>1. Cardinality({}) = 0
      BY FS_EmptySet, Zenon
    <3>2. Cardinality({v}) = 1
      BY FS_Singleton, Zenon
    <3> QED BY <3>1, <3>2
  <2>3. Cardinality(versions) = 0 \/ Cardinality(versions) = 1
    BY <2>1, <2>2
  <2> QED BY <2>3
<1>5. versions # {} => versions = IF Given # {} THEN Given ELSE {Max(Offered(SentOperations))}
  BY <1>3
<1>6. versions = {} => Given \subseteq {request.flag}
  BY DEF Given
<1>7. versions = {} /\ how = "sent" /\ request.accept = NoType => Offered(SentOperations) = {}
  OBVIOUS
<1>8. ({accept.version, contentType.version, body.version} \ {NoVersion})' = versions
  BY <1>1
<1> HIDE DEF versions
<1> QED BY <1>1, <1>2, <1>4, <1>5, <1>6, <1>7, <1>8 DEF SentAsOneVersion

(* The versions of a request are among the given ones. *)
LEMMA RequestVersions ==
  ASSUME Cardinality(Given) <= 1
  PROVE  /\ request.accept.version \in {NoVersion, AskedVersion}
         /\ request.contentType.version \in {NoVersion, AskedVersion}
         /\ request.body.version \in {NoVersion, AskedVersion}
  BY GivenOnce DEF Given

(* A request that goes as it is, or with types of no version. *)
LEMMA SendsAsGiven ==
  ASSUME Cardinality(Given) <= 1, NEW how, NEW a, NEW c, SendWith(how, a, c, request.body),
         a.version = request.accept.version, c.version = request.contentType.version,
         how = "sent" /\ a.version = NoVersion => Offered(SentOperations) = {}
  PROVE  SentAsOneVersion'
<1> DEFINE v == AskedVersion
<1>1. a.version \in {NoVersion, v} /\ c.version \in {NoVersion, v} /\ request.body.version \in {NoVersion, v}
  BY RequestVersions
<1>2. Given \subseteq {v}
  BY GivenOnce
<1>3. Given = {} => v = NoVersion
  BY GivenOnce
<1> HIDE DEF v
<1> QED BY <1>1, <1>2, <1>3, SendsOneVersion

(* What is narrowed keeps all but the types of other versions. *)
LEMMA NarrowedIs ==
  ASSUME SpecInv, NEW p \in spec, NEW v
  PROVE  /\ Narrowed(p, v).method = p.method /\ Narrowed(p, v).template = p.template
         /\ ActionKey(Narrowed(p, v)) = ActionKey(p)
         /\ ApiVersions(Narrowed(p, v)) = ApiVersions(p) \cap (IF v = NoVersion THEN ApiVersions(p) ELSE {v})
<1> DEFINE narrowed == {m \in p.types : m.version \in {NoVersion, v}}
           q == [p EXCEPT !.types = narrowed]
<1>1. p = [method |-> p.method, template |-> p.template, types |-> p.types, kind |-> p.kind, action |-> p.action]
  BY DEF SpecInv
<1>2. /\ q.method = p.method /\ q.template = p.template /\ q.kind = p.kind /\ q.action = p.action
      /\ q.types = narrowed
  BY <1>1
<1>3. Narrowed(p, v) = IF v = NoVersion THEN p ELSE q
  BY DEF Narrowed
<1> HIDE DEF q
<1>4. CASE v = NoVersion
  BY <1>3, <1>4
<1>5. CASE v # NoVersion
  <2>1. Narrowed(p, v) = q
    BY <1>3, <1>5
  <2>2. ActionKey(q) = ActionKey(p)
    BY <1>2 DEF ActionKey
  <2>3. ApiVersions(q) = ApiVersions(p) \cap {v}
    BY <1>2, <1>5 DEF ApiVersions
  <2> QED BY <1>2, <1>5, <2>1, <2>2, <2>3
<1> QED BY <1>4, <1>5

(* Types of no version alone are selected where none is on offer. *)
LEMMA NoneOffered ==
  ASSUME SpecInv, NEW ops \in SUBSET spec, NEW v, ~Refused(ops, v),
         \A m \in LatestTypes(Selected(ops, v)) : m.version = NoVersion
  PROVE  Offered(ops) = {}
<1> SUFFICES ASSUME Offered(ops) # {} PROVE FALSE
  OBVIOUS
<1> DEFINE w == VersionFor(ops, v)
           types == UNION {o.types : o \in Selected(ops, v)}
<1>1. w \in Offered(ops)
  BY DEF Refused
<1>2. PICK p \in ops : w \in ApiVersions(p)
  BY <1>1 DEF Offered
<1>3. w # NoVersion
  BY <1>2 DEF ApiVersions
<1>4. Narrowed(p, w) \in Selected(ops, v) /\ w \in ApiVersions(Narrowed(p, w))
  <2>1. Narrowed(p, w) \in Selected(ops, v)
    BY <1>2 DEF Selected
  <2> HIDE DEF w
  <2> QED BY <1>2, <1>3, <2>1, NarrowedIs DEF w
<1>5. PICK m \in types : m.version = w
  <2> HIDE DEF w
  <2> QED BY <1>4 DEF ApiVersions
<1>6. m \in LatestTypes(Selected(ops, v))
  <2> HIDE DEF w
  <2> QED BY <1>3, <1>5 DEF LatestTypes
<1> QED BY <1>3, <1>5, <1>6

(* One that goes with types of no version. *)
LEMMA SendsUnversioned ==
  ASSUME Cardinality(Given) <= 1, NEW types, \A m \in types : m.version = NoVersion, SendUnversioned(types),
         Offered(SentOperations) = {}
  PROVE  SentAsOneVersion'
<1>1. PICK m \in IF types # {} THEN types ELSE {IF request.body = NoBody THEN NoType ELSE Json} :
        SendAs(Or(request.accept, m), request.contentType, request.body)
  BY DEF SendUnversioned
<1>2. m.version = NoVersion
  <2>1. NoType.version = NoVersion /\ Json.version = NoVersion
    BY DEF NoType, Json
  <2>2. CASE types # {}
    BY <1>1, <2>2
  <2>3. CASE types = {}
    BY <1>1, <2>1, <2>3
  <2> QED BY <2>2, <2>3
<1>3. Or(request.accept, m).version = request.accept.version
  <2>1. NoType.version = NoVersion
    BY DEF NoType
  <2> QED BY <1>2, <2>1 DEF Or
<1> QED BY <1>1, <1>3, SendsAsGiven DEF SendAs

(* A request with a type of the version that is asked for, or else of the newest. *)
LEMMA SendsVersioned ==
  ASSUME SpecInv, Cardinality(Given) <= 1, NEW m \in LatestTypes(Selected(SentOperations, AskedVersion)),
         m.version # NoVersion, SendVersioned(m), requestPc' # "failed"
  PROVE  SentAsOneVersion'
<1>1. SentOperations \in SUBSET spec
  BY DEF SentOperations, Matched
<1>2. m.version = VersionFor(SentOperations, AskedVersion)
  BY <1>1, SelectedVersions
<1>3. Given \subseteq {m.version}
  BY <1>2, GivenOnce DEF VersionFor
<1>4. Given = {} => m.version = Max(Offered(SentOperations))
  BY <1>2, GivenOnce DEF VersionFor, Latest
<1>5. /\ request.accept.version \in {NoVersion, m.version}
      /\ request.contentType.version \in {NoVersion, m.version}
      /\ request.body.version \in {NoVersion, m.version}
  BY <1>3 DEF Given
<1> DEFINE a == Or(request.accept, m)
<1>6. /\ a.version \in {NoVersion, m.version}
      /\ request.accept.version # NoVersion => a.version = request.accept.version
      /\ request.accept = NoType => a.version # NoVersion
  BY <1>5 DEF Or, NoType
<1>7. CASE request.body = NoBody
  <2>1. SendWith("sent", a, request.contentType, NoBody)
    BY <1>7 DEF SendVersioned, SendAs
  <2>2. NoBody.version = NoVersion
    BY DEF NoBody
  <2> HIDE DEF a
  <2>3. {request.accept.version, request.contentType.version, request.body.version}
          \subseteq {NoVersion, a.version, request.contentType.version, NoBody.version}
    BY <1>6, <1>7
  <2> QED BY <1>3, <1>4, <1>5, <1>6, <2>1, <2>2, <2>3, SendsOneVersion
<1>8. CASE request.body # NoBody
  <2> DEFINE c == Or(request.contentType, m)
             b == IF m.kind = NoKind THEN request.body ELSE m
  <2>1. SendWith("sent", a, c, b)
    BY <1>8 DEF SendVersioned, FailRequest, SendAs
  <2>2. c.version \in {NoVersion, m.version}
        /\ (request.contentType.version # NoVersion => c.version = request.contentType.version)
    BY <1>5 DEF Or, NoType
  <2>3. b.version \in {NoVersion, m.version} /\ (request.body.version # NoVersion => b.version = request.body.version)
    BY <1>5
  <2> HIDE DEF a, b, c
  <2>4. {request.accept.version, request.contentType.version, request.body.version}
          \subseteq {NoVersion, a.version, c.version, b.version}
    BY <1>6, <2>2, <2>3
  <2> QED BY <1>3, <1>4, <1>6, <2>1, <2>2, <2>3, <2>4, SendsOneVersion
<1> QED BY <1>7, <1>8

(* What is sent is of one version, and what is listed asks for one at most. *)
RequestInv == SpecInv /\ SentAsOneVersion /\ (requestPc = "listed" => Cardinality(Given) <= 1)

(* A step of what is asked, or beside it, keeps to the version. *)
LEMMA RequestNext == RequestInv /\ (OpenApiStep \/ UNCHANGED openApiVars) => RequestInv'
<1> SUFFICES ASSUME RequestInv, OpenApiStep \/ UNCHANGED openApiVars PROVE RequestInv'
  OBVIOUS
<1> USE DEF headerVars, refVars
<1>1. spec' = spec /\ request' = request
  BY DEF OpenApiStep, Negotiate, SendUnversioned, SendVersioned, SendUnchanged, SendWithoutDocs, SendAs, SendWith,
         FailRequest, ListOperations, Printed, Follow, openApiVars
<1>2. SpecInv'
  BY <1>1 DEF RequestInv, SpecInv
<1>3. Given' = Given
  BY <1>1 DEF Given
<1>4. ASSUME requestPc' \notin {"sent", "sent unseen", "listed"} PROVE RequestInv'
  BY <1>2, <1>4 DEF RequestInv, SentAsOneVersion
<1>5. ASSUME SentAsOneVersion', requestPc' # "listed" PROVE RequestInv'
  BY <1>2, <1>5 DEF RequestInv
<1>6. ASSUME NEW a, NEW c, NEW b, SendAs(a, c, b) PROVE requestPc' = "sent"
  BY <1>6 DEF SendAs, SendWith
<1>7. CASE Negotiate
  <2> DEFINE ops == IF Matched(request) = {} THEN {} ELSE MostLiteral(Matched(request))
             types == LatestTypes(Selected(ops, AskedVersion))
  <2>1. ops = SentOperations
    <3>1. MostLiteral({}) = {}
      BY DEF MostLiteral
    <3> QED BY <3>1, SentAreMostLiteral
  <2>2. CASE FailRequest
    BY <1>4, <2>2 DEF FailRequest
  <2>3. \/ FailRequest
        \/ /\ ~(Cardinality(Given) > 1)
           /\ \/ request.accept.version # NoVersion /\ SendUnchanged("sent")
              \/ /\ ~Refused(ops, AskedVersion)
                 /\ (\A m \in types : m.version = NoVersion) /\ SendUnversioned(types)
              \/ ~(\A m \in types : m.version = NoVersion) /\ \E m \in types : SendVersioned(m)
    BY <1>7 DEF Negotiate
  <2> SUFFICES ASSUME ~FailRequest PROVE RequestInv'
    BY <2>2
  <2>4. Cardinality(Given) <= 1
    <3>1. ~(Cardinality(Given) > 1)
      BY <2>3
    <3> QED BY <3>1, GivenFinite
  <2> HIDE DEF ops
  <2>5. CASE request.accept.version # NoVersion /\ SendUnchanged("sent")
    <3>1. SentAsOneVersion'
      BY <2>4, <2>5, SendsAsGiven DEF SendUnchanged
    <3> QED BY <1>5, <2>5, <3>1 DEF SendUnchanged, SendWith
  <2>6. CASE /\ ~Refused(ops, AskedVersion)
             /\ (\A m \in types : m.version = NoVersion) /\ SendUnversioned(types)
    <3>1. SentAsOneVersion'
      <4>1. ops \in SUBSET spec
        BY <2>1 DEF SentOperations, Matched
      <4>2. Offered(ops) = {}
        BY <2>6, <4>1, NoneOffered DEF RequestInv
      <4> QED BY <2>1, <2>4, <2>6, <4>2, SendsUnversioned
    <3>2. requestPc' = "sent"
      BY <1>6, <2>6 DEF SendUnversioned
    <3> QED BY <1>5, <3>1, <3>2
  <2>7. CASE ~(\A m \in types : m.version = NoVersion) /\ \E m \in types : SendVersioned(m)
    <3>1. PICK m \in types : SendVersioned(m)
      BY <2>7
    <3>2. m.version # NoVersion
      BY <2>7, <3>1 DEF LatestTypes
    <3>3. m \in LatestTypes(Selected(SentOperations, AskedVersion))
      BY <2>1, <3>1
    <3>4. requestPc' = "sent" \/ FailRequest
      BY <1>6, <3>1 DEF SendVersioned
    <3>5. SentAsOneVersion'
      BY <2>4, <3>1, <3>2, <3>3, <3>4, SendsVersioned DEF RequestInv
    <3> QED BY <1>5, <3>4, <3>5
  <2> QED BY <2>3, <2>5, <2>6, <2>7
<1>8. CASE SendWithoutDocs
  <2>1. SentAsOneVersion'
    BY <1>8, SendsAsGiven DEF SendWithoutDocs, SendUnchanged
  <2> QED BY <1>5, <1>8, <2>1 DEF SendWithoutDocs, SendUnchanged, SendWith
<1>9. CASE ListOperations
  <2>1. CASE FailRequest
    BY <1>4, <2>1 DEF FailRequest
  <2>2. CASE ~(Cardinality(Given) > 1) /\ requestPc' = "listed"
    <3>1. Cardinality(Given) <= 1
      BY <2>2, GivenFinite
    <3>2. SentAsOneVersion'
      BY <2>2 DEF SentAsOneVersion
    <3> QED BY <1>2, <1>3, <3>1, <3>2 DEF RequestInv
  <2> QED BY <1>9, <2>1, <2>2 DEF ListOperations
<1>10. CASE Printed \/ \E c \in Component : Follow(c)
  BY <1>4, <1>10 DEF Printed, Follow
<1>11. CASE UNCHANGED openApiVars
  <2>1. SentAsOneVersion'
    <3>1. UNCHANGED <<spec, request, requestPc, accept, contentType, body>>
      BY <1>11 DEF openApiVars
    <3>2. SentOperations' = SentOperations
      BY <3>1 DEF SentOperations, Matched
    <3> QED BY <1>3, <3>1, <3>2 DEF RequestInv, SentAsOneVersion
  <2> QED BY <1>2, <1>3, <1>11, <2>1 DEF openApiVars, RequestInv
<1> QED BY <1>7, <1>8, <1>9, <1>10, <1>11 DEF OpenApiStep

(* Of two sequences one goes before the other where they first differ, or where it ends.  *)
BelowAt(s, u, i) ==
  /\ i \in 1..Len(u) /\ i - 1 <= Len(s) /\ \A j \in 1..(i - 1) : s[j] = u[j]
  /\ i <= Len(s) => s[i] < u[i]

(* A prefix ends where the other goes on. *)
LEMMA PrefixAt ==
  ASSUME NEW s \in Seq(Int), NEW u \in Seq(Int)
  PROVE  IsStrictPrefix(s, u) <=> Len(s) < Len(u) /\ \A j \in 1..Len(s) : s[j] = u[j]
<1>1. SubSeq(s, 1, Len(s)) = s
  BY SubSeqFull
<1>2. ASSUME Len(s) <= Len(u)
      PROVE  /\ SubSeq(u, 1, Len(s)) \in Seq(Int) /\ Len(SubSeq(u, 1, Len(s))) = Len(s)
             /\ \A j \in 1..Len(s) : SubSeq(u, 1, Len(s))[j] = u[j]
  BY <1>2
<1>3. ASSUME Len(s) = Len(u), \A j \in 1..Len(s) : s[j] = u[j] PROVE s = u
  BY <1>3
<1> DEFINE t == SubSeq(u, 1, Len(s))
<1>4. ASSUME Len(s) <= Len(u) PROVE s = t <=> \A j \in 1..Len(s) : s[j] = u[j]
  <2> HIDE DEF t
  <2>1. t \in Seq(Int) /\ Len(t) = Len(s) /\ \A j \in 1..Len(s) : t[j] = u[j]
    <3>1. t = SubSeq(u, 1, Len(s))
      BY DEF t
    <3> QED BY <1>2, <1>4, <3>1, Zenon
  <2>2. ASSUME \A j \in 1..Len(s) : s[j] = u[j] PROVE s = t
    BY <2>1, <2>2, SeqEqual
  <2> QED BY <2>1, <2>2
<1>5. Len(s) < Len(u) => s # u
  OBVIOUS
<1>6. IsStrictPrefix(s, u) <=> Len(s) <= Len(u) /\ s = t /\ s # u
  BY <1>1 DEF IsStrictPrefix, IsPrefix
<1>7. Len(s) \in Nat /\ Len(u) \in Nat
  OBVIOUS
<1> HIDE DEF t
<1>8. CASE Len(s) < Len(u)
  BY <1>4, <1>5, <1>6, <1>7, <1>8
<1>9. CASE ~(Len(s) < Len(u))
  BY <1>3, <1>4, <1>6, <1>7, <1>9
<1> QED BY <1>8, <1>9

(* The lesser of two numbers. *)
LEMMA LesserOf ==
  ASSUME NEW a \in Int, NEW b \in Int
  PROVE  Min({a, b}) = IF a <= b THEN a ELSE b
<1> DEFINE m == IF a <= b THEN a ELSE b
<1>1. m \in {a, b} /\ \A y \in {a, b} : m <= y
  OBVIOUS
<1>2. ASSUME NEW x \in {a, b}, \A y \in {a, b} : x <= y PROVE x = m
  BY <1>2
<1> QED BY <1>1, <1>2 DEF Min

(* So one is below the other where they first differ. *)
LEMMA BelowIs ==
  ASSUME NEW s \in Seq(Int), NEW u \in Seq(Int)
  PROVE  Below(s, u) <=> \E i \in Nat : BelowAt(s, u, i)
<1> DEFINE n == Min({Len(s), Len(u)})
<1>1. Len(s) \in Nat /\ Len(u) \in Nat
  OBVIOUS
<1>2. n = IF Len(s) <= Len(u) THEN Len(s) ELSE Len(u)
  <2>1. Len(s) \in Int /\ Len(u) \in Int
    BY <1>1
  <2> QED BY <2>1, LesserOf, Zenon
<1> HIDE DEF n
<1>3. ASSUME IsStrictPrefix(s, u) PROVE BelowAt(s, u, Len(s) + 1)
  BY <1>1, <1>3, PrefixAt DEF BelowAt
<1>4. ASSUME NEW i \in 1..n, s[i] < u[i], \A j \in 1..(i - 1) : s[j] = u[j] PROVE BelowAt(s, u, i)
  BY <1>1, <1>2, <1>4 DEF BelowAt
<1>5. Below(s, u) => \E i \in Nat : BelowAt(s, u, i)
  <2> SUFFICES ASSUME Below(s, u) PROVE \E i \in Nat : BelowAt(s, u, i)
    OBVIOUS
  <2>1. CASE IsStrictPrefix(s, u)
    BY <1>1, <1>3, <2>1
  <2>2. CASE \E i \in 1..n : s[i] < u[i] /\ \A j \in 1..(i - 1) : s[j] = u[j]
    <3>1. PICK i \in 1..n : s[i] < u[i] /\ \A j \in 1..(i - 1) : s[j] = u[j]
      BY <2>2
    <3>2. BelowAt(s, u, i)
      BY <1>4, <3>1
    <3>3. i \in Nat
      BY <1>1, <1>2
    <3> QED BY <3>2, <3>3
  <2> QED BY <2>1, <2>2 DEF Below, n
<1>6. ASSUME NEW i \in Nat, BelowAt(s, u, i) PROVE Below(s, u)
  <2>1. CASE i <= Len(s)
    <3>1. i \in 1..n /\ s[i] < u[i] /\ \A j \in 1..(i - 1) : s[j] = u[j]
      BY <1>1, <1>2, <1>6, <2>1 DEF BelowAt
    <3> QED BY <3>1 DEF Below, n
  <2>2. CASE ~(i <= Len(s))
    <3>1. i = Len(s) + 1 /\ Len(s) < Len(u)
      BY <1>1, <1>6, <2>2 DEF BelowAt
    <3>2. \A j \in 1..Len(s) : s[j] = u[j]
      BY <1>1, <1>6, <3>1 DEF BelowAt
    <3>3. IsStrictPrefix(s, u)
      BY <3>1, <3>2, PrefixAt
    <3> QED BY <3>3 DEF Below
  <2> QED BY <2>1, <2>2
<1> QED BY <1>5, <1>6

(* Which of two is below the other is an order. *)
LEMMA BelowOrders ==
  /\ \A s \in Seq(Int) : ~Below(s, s)
  /\ \A s, t, u \in Seq(Int) : Below(s, t) /\ Below(t, u) => Below(s, u)
<1>1. ASSUME NEW s \in Seq(Int), NEW i \in Nat, BelowAt(s, s, i) PROVE FALSE
  <2>1. i \in 1..Len(s) /\ s[i] \in Int
    BY <1>1 DEF BelowAt
  <2> QED BY <1>1, <2>1 DEF BelowAt
<1>2. ASSUME NEW s \in Seq(Int), NEW t \in Seq(Int), NEW u \in Seq(Int), NEW i \in Nat, NEW k \in Nat,
             BelowAt(s, t, i), BelowAt(t, u, k)
      PROVE  \E l \in Nat : BelowAt(s, u, l)
  <2> DEFINE S == Len(s)
             T == Len(t)
             U == Len(u)
  <2>1. S \in Nat /\ T \in Nat /\ U \in Nat
    OBVIOUS
  <2>2. /\ \A j \in 1..S : s[j] \in Int
        /\ \A j \in 1..T : t[j] \in Int
        /\ \A j \in 1..U : u[j] \in Int
    OBVIOUS
  <2>3. /\ i \in 1..T /\ i - 1 <= S /\ \A j \in 1..(i - 1) : s[j] = t[j]
        /\ i <= S => s[i] < t[i]
    BY <1>2 DEF BelowAt
  <2>4. /\ k \in 1..U /\ k - 1 <= T /\ \A j \in 1..(k - 1) : t[j] = u[j]
        /\ k <= T => t[k] < u[k]
    BY <1>2 DEF BelowAt
  <2> HIDE DEF S, T, U
  <2>5. CASE i <= k
    <3>1. i \in 1..U /\ i - 1 <= S /\ \A j \in 1..(i - 1) : s[j] = u[j]
      BY <2>1, <2>3, <2>4, <2>5
    <3>2. i <= S => s[i] < u[i]
      BY <2>1, <2>2, <2>3, <2>4, <2>5, <3>1
    <3> QED BY <3>1, <3>2 DEF BelowAt, S, U
  <2>6. CASE k < i
    <3>1. k \in 1..U /\ k - 1 <= S /\ \A j \in 1..(k - 1) : s[j] = u[j]
      BY <2>1, <2>3, <2>4, <2>6
    <3>2. k <= S => s[k] < u[k]
      BY <2>1, <2>2, <2>3, <2>4, <2>6, <3>1
    <3> QED BY <3>1, <3>2 DEF BelowAt, S, U
  <2> QED BY <2>5, <2>6
<1>3. ASSUME NEW s \in Seq(Int), Below(s, s) PROVE FALSE
  BY <1>1, <1>3, BelowIs
<1>4. ASSUME NEW s \in Seq(Int), NEW t \in Seq(Int), NEW u \in Seq(Int), Below(s, t), Below(t, u)
      PROVE  Below(s, u)
  <2>1. PICK i \in Nat : BelowAt(s, t, i)
    BY <1>4, BelowIs
  <2>2. PICK k \in Nat : BelowAt(t, u, k)
    BY <1>4, BelowIs
  <2> QED BY <1>2, <2>1, <2>2, BelowIs
<1> QED BY <1>3, <1>4

(* The least of numbers. *)
LEMMA LeastIs ==
  ASSUME NEW S \in SUBSET Int, IsFiniteSet(S), S # {}
  PROVE  Min(S) \in S /\ \A x \in S : Min(S) <= x
<1> DEFINE c == Cardinality(S)
<1>1. c \in Nat /\ c # 0
  BY FS_CardinalityType, FS_EmptySet
<1>2. c - 1 \in 0..(c - 1)
  BY <1>1
<1>3. PICK o \in S : Position(S, o) = c - 1
  BY <1>2, EachPosition
<1>4. ASSUME NEW x \in S PROVE o <= x
  <2>1. Position(S, x) \in 0..(c - 1) /\ (o > x => Position(S, o) < Position(S, x))
    BY Positions
  <2>2. o \in Int /\ x \in Int
    OBVIOUS
  <2> HIDE DEF c
  <2> QED BY <1>1, <1>3, <2>1, <2>2
<1> QED BY <1>4 DEF Min

(* Of two that differ one is below the other. *)
LEMMA BelowIsTotal ==
  ASSUME NEW s \in Seq(Int), NEW u \in Seq(Int)
  PROVE  s = u \/ Below(s, u) \/ Below(u, s)
<1> DEFINE D == {i \in Nat : i >= 1 /\ i <= Len(s) /\ i <= Len(u) /\ s[i] # u[i]}
<1>1. Len(s) \in Nat /\ Len(u) \in Nat
  OBVIOUS
<1>2. CASE D = {}
  <2>1. \A i \in Nat : i >= 1 /\ i <= Len(s) /\ i <= Len(u) => s[i] = u[i]
    BY <1>2
  <2>2. CASE Len(s) = Len(u)
    <3>1. \A i \in 1..Len(s) : s[i] = u[i]
      BY <1>1, <2>1, <2>2
    <3> QED BY <2>2, <3>1, SeqEqual
  <2>3. CASE Len(s) < Len(u)
    BY <1>1, <2>1, <2>3, PrefixAt DEF Below
  <2>4. CASE Len(u) < Len(s)
    BY <1>1, <2>1, <2>4, PrefixAt DEF Below
  <2> QED BY <1>1, <2>2, <2>3, <2>4
<1>3. CASE D # {}
  <2>1. PICK i \in D : \A j \in D : i <= j
    <3>1. D \in SUBSET Int /\ D \in SUBSET (1..Len(s))
      <4>1. \A i \in D : i \in Int /\ i \in 1..Len(s)
        BY <1>1
      <4> QED BY <4>1
    <3> HIDE DEF D
    <3>2. IsFiniteSet(1..Len(s))
      BY <1>1, FS_Interval
    <3>3. IsFiniteSet(D)
      BY <3>1, <3>2, FS_Subset
    <3>4. Min(D) \in D /\ \A j \in D : Min(D) <= j
      BY <1>3, <3>1, <3>3, LeastIs
    <3> QED BY <3>4
  <2>2. \A j \in 1..(i - 1) : s[j] = u[j]
    <3>1. ASSUME NEW j \in Nat, j >= 1, j <= Len(s), j <= Len(u), j < i PROVE s[j] = u[j]
      <4>1. CASE j \in D
        <5>1. i <= j /\ i \in Nat
          BY <2>1, <4>1
        <5> QED BY <3>1, <5>1
      <4>2. CASE j \notin D
        BY <3>1, <4>2
      <4> QED BY <4>1, <4>2
    <3>2. i \in Nat /\ i <= Len(s) /\ i <= Len(u)
      BY <2>1
    <3> HIDE DEF D
    <3>3. ASSUME NEW j \in 1..(i - 1) PROVE j \in Nat /\ j >= 1 /\ j <= Len(s) /\ j <= Len(u) /\ j < i
      BY <1>1, <3>2
    <3> QED BY <3>1, <3>3
  <2>3. i \in 1..Len(s) /\ i \in 1..Len(u) /\ s[i] \in Int /\ u[i] \in Int /\ s[i] # u[i] /\ i \in Nat
    BY <1>1, <2>1
  <2>4. s[i] < u[i] \/ u[i] < s[i]
    BY <2>3
  <2>5. BelowAt(s, u, i) \/ BelowAt(u, s, i)
    BY <1>1, <2>2, <2>3, <2>4 DEF BelowAt
  <2> QED BY <2>3, <2>5, BelowIs
<1> QED BY <1>2, <1>3

(* So there is one of several templates that no other is more literal than. *)
LEMMA MostLiteralIs ==
  ASSUME NEW ops, IsFiniteSet(ops), ops # {}, \A o \in ops : o.template \in Seq(Int)
  PROVE  MostLiteral(ops) # {}
<1> DEFINE lit(o) == Literals(o.template)
           under(o) == {p \in ops : Below(lit(p), lit(o))}
           f == [o \in ops |-> Cardinality(under(o))]
           S == {f[o] : o \in DOMAIN f}
<1>1. ASSUME NEW o \in ops PROVE lit(o) \in Seq(Int)
  BY DEF Literals
<1> HIDE DEF lit
<1>2. ASSUME NEW o \in ops PROVE IsFiniteSet(under(o)) /\ f[o] = Cardinality(under(o)) /\ f[o] \in Nat
  BY FS_Subset, FS_CardinalityType
<1>3. DOMAIN f = ops /\ f = [x \in DOMAIN f |-> f[x]]
  OBVIOUS
<1> HIDE DEF under, f
<1>4. IsFiniteSet(S)
  BY <1>3, FiniteImage
<1>5. S \in SUBSET Int /\ S # {}
  BY <1>2, <1>3
<1>6. PICK n \in S : \A m \in S : m <= n
  BY <1>4, <1>5, Greatest
<1>7. PICK o \in ops : n = f[o]
  BY <1>3
<1>8. ASSUME NEW q \in ops, Below(lit(o), lit(q)) PROVE FALSE
  <2>1. o \notin under(o) /\ o \in under(q)
    BY <1>1, <1>8, BelowOrders DEF under
  <2>2. under(o) \subseteq under(q)
    BY <1>1, <1>8, BelowOrders DEF under
  <2>3. Cardinality(under(q)) # Cardinality(under(o)) /\ Cardinality(under(o)) <= Cardinality(under(q))
    BY <1>2, <2>1, <2>2, FS_Subset
  <2>4. f[q] <= f[o]
    BY <1>3, <1>6, <1>7
  <2>5. f[q] \in Nat /\ f[o] \in Nat /\ f[q] = Cardinality(under(q)) /\ f[o] = Cardinality(under(o))
    BY <1>2
  <2> QED BY <2>3, <2>4, <2>5
<1> QED BY <1>8 DEF MostLiteral, lit

(* The versions that some operations offer, and the newest of them. *)
LEMMA OfferedFinite ==
  ASSUME SpecInv, NEW ops \in SUBSET spec
  PROVE  IsFiniteSet(Offered(ops)) /\ Offered(ops) \in SUBSET Nat /\ NoVersion \notin Offered(ops)
<1>1. ASSUME NEW o \in ops
      PROVE  IsFiniteSet(ApiVersions(o)) /\ ApiVersions(o) \in SUBSET Nat /\ NoVersion \notin ApiVersions(o)
  <2> DEFINE f == [m \in o.types |-> m.version]
             T == {f[m] : m \in DOMAIN f}
  <2>1. IsFiniteSet(DOMAIN f) /\ f = [m \in DOMAIN f |-> f[m]] /\ T = {m.version : m \in o.types}
    BY DEF SpecInv
  <2>2. IsFiniteSet(T)
    <3> HIDE DEF f
    <3> QED BY <2>1, FiniteImage
  <2>3. ApiVersions(o) \in SUBSET T /\ ApiVersions(o) \in SUBSET Nat
    BY <2>1 DEF ApiVersions, SpecInv
  <2> HIDE DEF T
  <2> QED BY <2>2, <2>3, FS_Subset DEF ApiVersions
<1> DEFINE g == [o \in ops |-> ApiVersions(o)]
           U == {g[o] : o \in DOMAIN g}
<1>2. DOMAIN g = ops /\ g = [o \in DOMAIN g |-> g[o]] /\ U = {ApiVersions(o) : o \in ops}
  OBVIOUS
<1>3. IsFiniteSet(ops)
  BY FS_Subset DEF SpecInv
<1>4. IsFiniteSet(U)
  <2> HIDE DEF g
  <2> QED BY <1>2, <1>3, FiniteImage
<1>5. \A T \in U : IsFiniteSet(T)
  BY <1>1, <1>2
<1>6. Offered(ops) = UNION U
  BY <1>2 DEF Offered
<1>7. Offered(ops) \in SUBSET Nat /\ NoVersion \notin Offered(ops)
  BY <1>1 DEF Offered
<1> HIDE DEF U
<1> QED BY <1>4, <1>5, <1>6, <1>7, FS_UNION

(* The latest is one of those on offer, and none is later. *)
LEMMA LatestIs ==
  ASSUME SpecInv, NEW ops \in SUBSET spec, Offered(ops) # {}
  PROVE  /\ Latest(ops) \in Offered(ops) /\ \A v \in Offered(ops) : v <= Latest(ops)
         /\ Latest(ops) # NoVersion
<1> DEFINE S == Offered(ops)
<1>1. IsFiniteSet(S) /\ S \in SUBSET Int /\ S \in SUBSET Nat /\ NoVersion \notin S
  BY OfferedFinite
<1> HIDE DEF S
<1>2. S # {}
  BY DEF S
<1>3. \E o \in S : \A p \in S : o >= p
  BY <1>1, <1>2, Greatest
<1>4. Max(S) \in S /\ \A p \in S : Max(S) >= p
  BY <1>3 DEF Max
<1>5. Latest(ops) = Max(S)
  BY DEF Latest, S
<1>6. \A v \in S : v <= Max(S)
  BY <1>1, <1>4
<1> QED BY <1>1, <1>4, <1>5, <1>6 DEF S

(* Of versions of one operation those with the latest, or with none, are selected. *)
LEMMA SelectedLatest ==
  ASSUME SpecInv, NEW ops \in SUBSET spec, ops # {}
  PROVE  /\ ~Refused(ops, NoVersion) /\ Selected(ops, NoVersion) # {}
         /\ \A l \in Selected(ops, NoVersion), v \in Offered(ops) :
              Offered(ops) # {} /\ ApiVersions(l) = {Latest(ops)}
<1>1. VersionFor(ops, NoVersion) = Latest(ops)
  BY DEF VersionFor
<1>2. ~Refused(ops, NoVersion)
  BY <1>1, LatestIs DEF Refused
<1>3. CASE Offered(ops) = {}
  <2>1. Selected(ops, NoVersion) # {}
    BY <1>3 DEF Selected
  <2> QED BY <1>2, <1>3, <2>1
<1>4. CASE Offered(ops) # {}
  <2>1. PICK p \in ops : Latest(ops) \in ApiVersions(p)
    BY <1>4, LatestIs DEF Offered
  <2>2. Selected(ops, NoVersion) = {Narrowed(o, Latest(ops)) : o \in {q \in ops : Latest(ops) \in ApiVersions(q)}}
    BY <1>1, <1>4 DEF Selected
  <2>3. Latest(ops) # NoVersion
    BY <1>4, LatestIs
  <2>4. ASSUME NEW l \in Selected(ops, NoVersion) PROVE ApiVersions(l) = {Latest(ops)}
    BY <2>2, <2>3, <2>4, NarrowedIs
  <2> QED BY <1>2, <1>4, <2>1, <2>2, <2>4
<1> QED BY <1>3, <1>4

(* The templates of one action and method, of which the most literal are taken. *)
LEMMA VersionsAre ==
  ASSUME SpecInv, NEW ops \in SUBSET spec, ops # {}
  PROVE  MostLiteral(ops) \in SUBSET ops /\ MostLiteral(ops) # {}
<1>1. IsFiniteSet(ops) /\ \A o \in ops : o.template \in Seq(Int)
  BY FS_Subset DEF SpecInv
<1> QED BY <1>1, MostLiteralIs DEF MostLiteral

(* One that is not taken has a parameter where what is taken has a literal. *)
LEMMA NotTaken ==
  ASSUME SpecInv, NEW ops \in SUBSET spec, NEW q \in ops, q \notin MostLiteral(ops), NEW p \in MostLiteral(ops)
  PROVE  Below(Literals(q.template), Literals(p.template))
<1>1. \A o \in ops : Literals(o.template) \in Seq(Int)
  <2>1. \A o \in ops : o.template \in Seq(Int)
    BY DEF SpecInv
  <2> QED BY <2>1 DEF Literals
<1>2. PICK r \in ops : Below(Literals(q.template), Literals(r.template))
  BY DEF MostLiteral
<1>3. p \in ops /\ ~Below(Literals(p.template), Literals(r.template))
  BY DEF MostLiteral
<1>4. Literals(p.template) = Literals(r.template) \/ Below(Literals(r.template), Literals(p.template))
  BY <1>1, <1>3, BelowIsTotal
<1> QED BY <1>1, <1>2, <1>3, <1>4, BelowOrders

(* So the newest version of every action of a kind is described, with each of its methods. *)
LEMMA NewestIsDescribed == SpecInv => NewestDescribed
<1> SUFFICES ASSUME SpecInv, NEW o \in spec PROVE
      LET described == {p \in SelectedOfAction(o.kind, o.action) : p.method = o.method}
      IN /\ described # {}
         /\ \A p \in described, q \in LikeIt(o) :
              \/ Below(Literals(q.template), Literals(p.template))
              \/ \A v \in ApiVersions(q) : \E w \in ApiVersions(p) : v <= w
  BY DEF NewestDescribed
<1> DEFINE V == VersionsOfOne(o)
           same == LikeIt(o)
           described == {p \in SelectedOfAction(o.kind, o.action) : p.method = o.method}
<1>1. V \in SUBSET spec /\ V # {} /\ V \in SUBSET same /\ same \in SUBSET spec /\ V = MostLiteral(same)
  <2>1. same \in SUBSET spec /\ o \in same
    BY DEF OfAction, LikeIt
  <2>2. V = MostLiteral(same)
    BY DEF VersionsOfOne
  <2> HIDE DEF V, same
  <2>3. V \in SUBSET same /\ V # {}
    BY <2>1, <2>2, VersionsAre
  <2> QED BY <2>1, <2>2, <2>3
<1>2. ASSUME NEW p \in OfAction(o.kind, o.action), NEW l \in Selected(VersionsOfOne(p), NoVersion)
      PROVE  l.method = p.method /\ \E q \in VersionsOfOne(p) : l.template = q.template
  <2>1. VersionsOfOne(p) \in SUBSET {q \in spec : q.method = p.method}
    BY DEF VersionsOfOne, MostLiteral, OfAction, LikeIt
  <2>2. PICK q \in VersionsOfOne(p) : l = Narrowed(q, VersionFor(VersionsOfOne(p), NoVersion))
    BY DEF Selected
  <2>3. q \in spec /\ q.method = p.method
    BY <2>1
  <2>4. l.method = q.method /\ l.template = q.template
    BY <2>2, <2>3, NarrowedIs
  <2> QED BY <2>3, <2>4
<1>3. ASSUME NEW p \in OfAction(o.kind, o.action), p.method = o.method PROVE VersionsOfOne(p) = V
  BY <1>3 DEF VersionsOfOne, OfAction, LikeIt
<1>4. o \in OfAction(o.kind, o.action)
  BY DEF OfAction
<1>5. described = Selected(V, NoVersion)
  <2>1. described \subseteq Selected(V, NoVersion)
    BY <1>2, <1>3 DEF SelectedOfAction
  <2>2. Selected(V, NoVersion) \subseteq described
    BY <1>2, <1>4 DEF SelectedOfAction
  <2> QED BY <2>1, <2>2
<1>6. \A p \in Selected(V, NoVersion) : \E r \in V : p.template = r.template
  BY <1>2, <1>4
<1> HIDE DEF V, described, same
<1>7. described # {}
  BY <1>1, <1>5, SelectedLatest
<1>8. ASSUME NEW p \in described, NEW q \in V, NEW v \in ApiVersions(q)
      PROVE  \E w \in ApiVersions(p) : v <= w
  <2>1. v \in Offered(V)
    BY DEF Offered
  <2>2. ApiVersions(p) = {Latest(V)} /\ v <= Latest(V)
    BY <1>1, <1>5, <2>1, SelectedLatest, LatestIs
  <2> QED BY <2>2
<1>9. ASSUME NEW p \in described, NEW q \in same, q \notin V
      PROVE  Below(Literals(q.template), Literals(p.template))
  <2>1. PICK r \in V : p.template = r.template
    BY <1>5, <1>6
  <2> QED BY <1>1, <1>9, <2>1, NotTaken
<1> QED BY <1>7, <1>8, <1>9 DEF described, same

(* What a listing has of the operations of one action: of the version that is asked for,  *)
(* or, where none is, of the latest.                                                      *)
LEMMA ListedAre ==
  ASSUME SpecInv, Cardinality(Given) <= 1, ~(request.method = AnyMethod /\ AskedVersion = NoVersion), NEW l \in Listed
  PROVE  \E o \in OfMethod : \E p \in SameAction(OfMethod, o) :
           /\ l \in SelectedOf(MostLiteral(SameAction(OfMethod, o)))
           /\ p \in spec
           /\ l.method = p.method /\ l.template = p.template /\ ActionKey(l) = ActionKey(p)
           /\ Given # {} => ApiVersions(l) \subseteq Given
<1>1. PICK o \in OfMethod : l \in SelectedOf(MostLiteral(SameAction(OfMethod, o)))
  BY DEF Listed
<1> DEFINE ops == MostLiteral(SameAction(OfMethod, o))
<1>2. l \in Selected(ops, AskedVersion)
  BY <1>1 DEF SelectedOf
<1>3. PICK p \in ops : l = Narrowed(p, VersionFor(ops, AskedVersion))
  BY <1>2 DEF Selected
<1>4. p \in SameAction(OfMethod, o) /\ p \in spec
  BY DEF MostLiteral, SameAction, OfMethod
<1>5. Given # {} => VersionFor(ops, AskedVersion) \in Given /\ VersionFor(ops, AskedVersion) # NoVersion
  BY GivenOnce DEF VersionFor
<1>6. /\ l.method = p.method /\ l.template = p.template /\ ActionKey(l) = ActionKey(p)
      /\ Given # {} => ApiVersions(l) \subseteq Given
  BY <1>3, <1>4, <1>5, NarrowedIs
<1> QED BY <1>1, <1>4, <1>6

(* So a listing keeps to what is asked. *)
LEMMA ListedIsAsked == SpecInv /\ (requestPc = "listed" => Cardinality(Given) <= 1) => ListsWhatIsAsked
<1> SUFFICES ASSUME SpecInv, requestPc = "listed", Cardinality(Given) <= 1 PROVE ListsWhatIsAsked
  BY DEF ListsWhatIsAsked
<1> DEFINE paths == PathsOf(Listed)
           all == request.method = AnyMethod /\ AskedVersion = NoVersion
<1>1. /\ DOMAIN paths = {l.template : l \in Listed}
      /\ \A t \in DOMAIN paths :
           /\ paths[t].methods = {l.method : l \in {k \in Listed : k.template = t}}
           /\ paths[t].versions = Offered({k \in Listed : k.template = t})
  BY DEF PathsOf
<1>2. all => Listed = spec /\ OfMethod = spec /\ Given = {}
  BY GivenOnce DEF Listed, OfMethod
<1>3. OfMethod \in SUBSET spec /\ (request.method # AnyMethod => \A o \in OfMethod : o.method = request.method)
  BY DEF OfMethod
<1>4. ASSUME NEW l \in Listed
      PROVE  /\ request.method # AnyMethod => l.method = request.method
             /\ Given # {} => ApiVersions(l) \subseteq Given
  <2>1. CASE all
    BY <1>2, <2>1
  <2>2. CASE ~all
    <3>1. PICK o \in OfMethod : \E p \in SameAction(OfMethod, o) :
            /\ l.method = p.method
            /\ Given # {} => ApiVersions(l) \subseteq Given
      BY <2>2, ListedAre
    <3>2. SameAction(OfMethod, o) \in SUBSET OfMethod
      BY DEF SameAction
    <3> QED BY <1>3, <3>1, <3>2
  <2> QED BY <2>1, <2>2
<1>5. ASSUME NEW t \in DOMAIN paths
      PROVE  /\ request.method # AnyMethod => paths[t].methods = {request.method}
             /\ Given # {} => paths[t].versions \subseteq Given
  <2>1. PICK l \in Listed : l.template = t
    BY <1>1
  <2>2. paths[t].methods = {k.method : k \in {k \in Listed : k.template = t}}
    BY <1>1
  <2>3. paths[t].versions = Offered({k \in Listed : k.template = t})
    BY <1>1
  <2> HIDE DEF paths
  <2>4. request.method # AnyMethod => paths[t].methods = {request.method}
    BY <1>4, <2>1, <2>2
  <2>5. Given # {} => paths[t].versions \subseteq Given
    BY <1>4, <2>3 DEF Offered
  <2> QED BY <2>4, <2>5
<1>6. ASSUME Given = {}, NEW o \in OfMethod
      PROVE  /\ {p \in SameAction(OfMethod, o) : p.template \in DOMAIN paths} # {}
             /\ request.method # AnyMethod => Cardinality(Offered(SameAction(Listed, o))) <= 1
  <2> DEFINE S == SameAction(OfMethod, o)
             M == MostLiteral(S)
  <2>1. AskedVersion = NoVersion
    BY <1>6, GivenOnce
  <2>2. o \in S /\ S \in SUBSET spec
    BY <1>3 DEF SameAction
  <2>3. CASE all
    <3>1. o.template \in DOMAIN paths
      BY <1>1, <1>2, <2>3
    <3>2. request.method = AnyMethod
      BY <2>3
    <3> QED BY <2>2, <3>1, <3>2
  <2>4. CASE ~all
    <3> HIDE DEF S
    <3>1. M \in SUBSET S /\ M # {} /\ M \in SUBSET spec
      BY <2>2, VersionsAre
    <3> HIDE DEF M
    <3>2. SelectedOf(M) = Selected(M, NoVersion) /\ Selected(M, NoVersion) # {}
      BY <2>1, <3>1, SelectedLatest DEF SelectedOf
    <3>3. Selected(M, NoVersion) \subseteq Listed
      BY <2>4, <3>2 DEF Listed, M, S
    <3>4. PICK l \in Selected(M, NoVersion) : TRUE
      BY <3>2
    <3>5. PICK p \in M : l = Narrowed(p, VersionFor(M, NoVersion))
      BY <3>4 DEF Selected
    <3>6. p \in S /\ l.template = p.template /\ l \in Listed
      BY <3>1, <3>3, <3>5, NarrowedIs
    <3>7. p.template \in DOMAIN paths
      BY <1>1, <3>6
    <3>8. ASSUME NEW k \in SameAction(Listed, o) PROVE k \in Selected(M, NoVersion)
      <4>1. PICK q \in OfMethod : \E r \in SameAction(OfMethod, q) :
              k \in SelectedOf(MostLiteral(SameAction(OfMethod, q))) /\ ActionKey(k) = ActionKey(r)
        BY <2>4, ListedAre DEF SameAction
      <4>2. ActionKey(q) = ActionKey(o)
        BY <4>1 DEF SameAction
      <4>3. SameAction(OfMethod, q) = S
        BY <4>2 DEF SameAction, S
      <4> QED BY <3>2, <4>1, <4>3 DEF M
    <3>9. Offered(SameAction(Listed, o)) \subseteq {Latest(M)}
      <4> SUFFICES ASSUME NEW k \in SameAction(Listed, o), NEW v \in ApiVersions(k) PROVE v = Latest(M)
        BY DEF Offered
      <4>1. k \in Selected(M, NoVersion)
        BY <3>8
      <4>2. PICK q \in M : k = Narrowed(q, VersionFor(M, NoVersion))
        BY <4>1 DEF Selected
      <4>3. v \in Offered(M)
        BY <3>1, <4>2, NarrowedIs DEF Offered
      <4> QED BY <3>1, <4>1, <4>3, SelectedLatest
    <3>10. Cardinality(Offered(SameAction(Listed, o))) <= 1
      <4> DEFINE T == Offered(SameAction(Listed, o))
      <4>1. T = {} \/ T = {Latest(M)}
        BY <3>9
      <4> HIDE DEF T
      <4>2. ASSUME T = {} PROVE Cardinality(T) <= 1
        BY <4>2, FS_EmptySet
      <4>3. ASSUME T = {Latest(M)} PROVE Cardinality(T) <= 1
        <5>1. Cardinality(T) = 1
          BY <4>3, FS_Singleton, Zenon
        <5> QED BY <5>1
      <4>4. Cardinality(T) <= 1
        BY <4>1, <4>2, <4>3
      <4> QED BY <4>4 DEF T
    <3> QED BY <3>6, <3>7, <3>10 DEF S
  <2> QED BY <2>3, <2>4
<1> HIDE DEF paths
<1> QED BY <1>5, <1>6 DEF ListsWhatIsAsked, paths

(* What is printed, or still to be followed, has what the operations and what is printed refer *)
(* to, and no more than that. *)
PrintInv ==
  /\ printedRefs \subseteq referenced \cup toFollow
  /\ \A c \in referenced : refersTo[c] \subseteq referenced \cup toFollow
  /\ \A S : FollowsRefs(S) => referenced \cup toFollow \subseteq S

(* A step of what is printed, or beside it. *)
LEMMA PrintNext == PrintInv /\ PrintsAll /\ (OpenApiStep \/ UNCHANGED openApiVars) => PrintInv' /\ PrintsAll'
<1> SUFFICES ASSUME PrintInv, PrintsAll, OpenApiStep \/ UNCHANGED openApiVars PROVE PrintInv' /\ PrintsAll'
  OBVIOUS
<1> USE DEF headerVars, refVars
<1>1. CASE UNCHANGED refVars /\ requestPc' # "printed"
  BY <1>1 DEF PrintInv, PrintsAll, FollowsRefs
<1>2. CASE UNCHANGED openApiVars
  BY <1>2 DEF openApiVars, PrintInv, PrintsAll, FollowsRefs
<1>3. CASE Printed
  BY <1>3 DEF Printed, PrintInv, PrintsAll, FollowsRefs
<1>4. ASSUME NEW c \in Component, Follow(c) PROVE PrintInv' /\ PrintsAll'
  <2>1. /\ referenced' = referenced \cup {c} /\ requestPc' = "printing" /\ c \in toFollow
        /\ refersTo' = refersTo /\ printedRefs' = printedRefs
        /\ toFollow' = (toFollow \ {c}) \cup (refersTo[c] \ (referenced \cup {c}))
    BY <1>4 DEF Follow, ToFollow
  <2>2. \A d \in referenced \cup {c} : refersTo[d] \subseteq (referenced \cup {c}) \cup toFollow'
    BY <2>1 DEF PrintInv
  <2>3. printedRefs \subseteq (referenced \cup {c}) \cup toFollow'
    BY <2>1 DEF PrintInv
  <2>4. ASSUME NEW S, FollowsRefs(S) PROVE (referenced \cup {c}) \cup toFollow' \subseteq S
    BY <2>1, <2>4 DEF PrintInv, FollowsRefs
  <2> QED BY <2>1, <2>2, <2>3, <2>4 DEF PrintInv, PrintsAll, FollowsRefs
<1>5. Negotiate \/ SendWithoutDocs \/ ListOperations => UNCHANGED refVars /\ requestPc' # "printed"
  BY DEF Negotiate, SendUnversioned, SendVersioned, SendUnchanged, SendWithoutDocs, SendAs, SendWith, FailRequest,
         ListOperations
<1> QED BY <1>1, <1>2, <1>3, <1>4, <1>5 DEF OpenApiStep

(* A command that reads the API docs begins with a document, or with none.                *)
LEMMA RequestBegins == Init => RequestInv
<1> SUFFICES ASSUME OpenApiInit PROVE RequestInv
  BY DEF Init, DocsInit
<1>1. requestPc \in {"asked", "printing"}
  BY DEF OpenApiInit
<1>2. SpecInv
  <2>1. CASE spec = {}
    BY <2>1, FS_EmptySet DEF SpecInv
  <2>2. CASE \E doc \in Documents : \E ks \in KindSets(doc) : spec = WithKinds(doc, ks)
    BY <2>2, KindsLeave
  <2> QED BY <2>1, <2>2 DEF OpenApiInit
<1> QED BY <1>1, <1>2 DEF RequestInv, SentAsOneVersion

(* What a request keeps to holds at any time. *)
LEMMA RequestAlways == Spec => []RequestInv
<1>1. RequestInv /\ [Next]_vars => RequestInv'
  BY PartSteps, RequestNext
<1> QED BY RequestBegins, <1>1, PTL DEF Spec

(* A request goes out with one version in its headers and its body: that which it asks for *)
(* in them or by the flag, or else the newest that the docs offer for its method and path; *)
(* with none only where the request brings an Accept of its own, the docs are not there, or *)
(* offer no version.                                                                      *)
THEOREM RequestsKeepTheirVersion == Spec => []SentAsOneVersion
<1>1. RequestInv => SentAsOneVersion
  BY DEF RequestInv
<1> QED BY <1>1, RequestAlways, PTL

(* A listing keeps to the method and the version that are asked for and misses no action  *)
(* of the method; where no version is asked for, each action is listed in one.            *)
THEOREM ListingsAreAsAsked == Spec => []ListsWhatIsAsked
<1>1. RequestInv => ListsWhatIsAsked
  BY ListedIsAsked DEF RequestInv
<1> QED BY <1>1, RequestAlways, PTL

(* Every action of a kind is described with each of its methods, and of all operations with *)
(* that action and method none is newer than what is described, unless its template has a  *)
(* parameter, an earlier literal or no segment where the described one has a literal.      *)
THEOREM NewestVersionsAreDescribed == Spec => []NewestDescribed
<1>1. RequestInv => NewestDescribed
  BY NewestIsDescribed DEF RequestInv
<1> QED BY <1>1, RequestAlways, PTL

(* What is printed of the API docs has every component that the printed operations refer   *)
(* to, in however many steps, and whichever refer back to each other, and no other.       *)
THEOREM PrintsAreWhole == Spec => []PrintsAll
<1>1. Init => PrintInv /\ PrintsAll
  <2>1. Init => OpenApiInit
    BY DEF Init, DocsInit
  <2> QED BY <2>1 DEF OpenApiInit, PrintInv, PrintsAll, FollowsRefs
<1>2. PrintInv /\ PrintsAll /\ [Next]_vars => PrintInv' /\ PrintsAll'
  BY PartSteps, PrintNext
<1> QED BY <1>1, <1>2, PTL DEF Spec
-----------------------------------------------------------------------------
(* The actions of a kind. *)

(* What is picked are the places, each once. *)
LEMMA PickedIs ==
  ASSUME NEW places \in SUBSET Int, IsFiniteSet(places), NEW s, NEW p, p = Picked(s, places)
  PROVE  /\ Cardinality(places) \in Nat /\ p = [n \in 1..Cardinality(places) |-> p[n]]
         /\ \A n \in 1..Cardinality(places) :
              \E i \in places : p[n] = s[i] /\ Position(places, i) = Cardinality(places) - n
         /\ \A i \in places : \E n \in 1..Cardinality(places) : p[n] = s[i]
<1> DEFINE c == Cardinality(places)
           at(n) == CHOOSE i \in places : Position(places, i) = c - n
<1>1. c \in Nat
  BY FS_CardinalityType
<1>2. p = [n \in 1..c |-> s[at(n)]]
  BY DEF Picked, Position
<1>3. ASSUME NEW n \in 1..c PROVE at(n) \in places /\ Position(places, at(n)) = c - n
  <2> DEFINE m == c - n
  <2>1. m \in 0..(c - 1)
    BY <1>1
  <2> HIDE DEF m
  <2>2. \E i \in places : Position(places, i) = m
    BY <2>1, EachPosition
  <2> QED BY <2>2 DEF m
<1>4. ASSUME NEW i \in places PROVE \E n \in 1..c : at(n) = i
  <2> DEFINE n == c - Position(places, i)
  <2>1. Position(places, i) \in 0..(c - 1)
    BY Positions
  <2>2. n \in 1..c /\ c - n = Position(places, i)
    BY <1>1, <2>1
  <2> HIDE DEF n
  <2> DEFINE k == at(n)
  <2>3. k \in places /\ Position(places, k) = Position(places, i)
    BY <1>3, <2>2
  <2> HIDE DEF k
  <2>4. k > i => Position(places, k) < Position(places, i)
    BY <2>3, Positions
  <2>5. i > k => Position(places, i) < Position(places, k)
    BY <2>3, Positions
  <2>6. k = i
    <3>1. i \in Int /\ k \in Int /\ c \in Int
      BY <1>1, <2>3
    <3> HIDE DEF c
    <3> QED BY <2>1, <2>3, <2>4, <2>5, <3>1
  <2> QED BY <2>2, <2>6 DEF k
<1> HIDE DEF at, c
<1>5. \A n \in 1..c : p[n] = s[at(n)]
  BY <1>2
<1>6. p = [n \in 1..c |-> p[n]]
  BY <1>2
<1>7. \A n \in 1..c : \E i \in places : p[n] = s[i] /\ Position(places, i) = c - n
  BY <1>3, <1>5
<1>8. \A i \in places : \E n \in 1..c : p[n] = s[i]
  BY <1>4, <1>5
<1> QED BY <1>1, <1>6, <1>7, <1>8 DEF c

(* So a sequence is picked that has what is there. *)
LEMMA PickedHas ==
  ASSUME NEW s, NEW places \in SUBSET Int, IsFiniteSet(places), NEW p, p = Picked(s, places)
  PROVE  p \in Seq(ToSet(p)) /\ ToSet(p) = {s[i] : i \in places} /\ Len(p) = Cardinality(places)
<1> DEFINE c == Cardinality(places)
<1>1. c \in Nat /\ p = [n \in 1..c |-> p[n]]
  BY PickedIs
<1>2. \A n \in 1..c : \E i \in places : p[n] = s[i]
  BY PickedIs
<1>3. \A i \in places : \E n \in 1..c : p[n] = s[i]
  BY PickedIs
<1> HIDE DEF c
<1>4. DOMAIN p = 1..c
  BY <1>1, Zenon
<1>5. ToSet(p) = {s[i] : i \in places}
  <2>1. ToSet(p) = {p[n] : n \in 1..c}
    BY <1>4, Zenon DEF ToSet
  <2>2. ASSUME NEW n \in 1..c PROVE p[n] \in {s[i] : i \in places}
    BY <1>2
  <2>3. ASSUME NEW i \in places PROVE s[i] \in {p[n] : n \in 1..c}
    BY <1>3
  <2> QED BY <2>1, <2>2, <2>3, Zenon
<1>6. \A n \in 1..c : p[n] \in ToSet(p)
  BY <1>4 DEF ToSet
<1>7. p \in [1..c -> ToSet(p)]
  BY <1>1, <1>4, <1>6
<1>8. p \in Seq(ToSet(p)) /\ Len(p) = c
  BY <1>1, <1>7
<1> QED BY <1>5, <1>8 DEF c

(* The rest of a template. *)
LEMMA RestIs ==
  ASSUME NEW t \in Seq(Int), NEW n \in 0..Len(t), NEW r, r = SubSeq(t, n + 1, Len(t))
  PROVE  r \in Seq(Int) /\ ToSet(r) \subseteq ToSet(t)
<1>1. /\ Len(t) \in Nat /\ n + 1 \in 1..(Len(t) + 1)
      /\ \A i \in (n + 1)..Len(t) : t[i] \in Int
  OBVIOUS
<1>2. r \in Seq(Int) /\ Len(r) = Len(t) - n /\ \A i \in 1..Len(r) : r[i] = t[n + i]
  BY <1>1
<1>3. DOMAIN r = 1..Len(r) /\ DOMAIN t = 1..Len(t)
  BY <1>2
<1>4. \A i \in 1..Len(r) : n + i \in 1..Len(t)
  BY <1>1, <1>2
<1>5. ASSUME NEW i \in DOMAIN r PROVE r[i] \in ToSet(t)
  <2>1. r[i] = t[n + i] /\ n + i \in DOMAIN t
    BY <1>2, <1>3, <1>4
  <2> QED BY <2>1 DEF ToSet
<1> QED BY <1>2, <1>5 DEF ToSet

(* The literal start is a path. *)
LEMMA LiteralStartIs ==
  ASSUME NEW t \in Seq(Int)
  PROVE  LiteralStart(t) \in Seq(Int)
<1> DEFINE S == {i \in 1..(Len(t) + 1) : i > Len(t) \/ IsParameter(t[i])}
<1>1. Len(t) \in Nat
  OBVIOUS
<1>2. S \in SUBSET Int /\ Len(t) + 1 \in S
  BY <1>1
<1>3. IsFiniteSet(S)
  <2>1. IsFiniteSet(1..(Len(t) + 1)) /\ S \in SUBSET (1..(Len(t) + 1))
    BY <1>1, FS_Interval
  <2> QED BY <2>1, FS_Subset
<1>4. Min(S) \in S
  BY <1>2, <1>3, LeastIs
<1>5. Min(S) \in 1..(Len(t) + 1) /\ LiteralStart(t) = SubSeq(t, 1, Min(S) - 1)
  BY <1>4 DEF LiteralStart
<1> DEFINE n == Min(S) - 1
<1>6. n \in 0..Len(t)
  BY <1>1, <1>5
<1> HIDE DEF n
<1>7. SubSeq(t, 1, n) \in Seq(Int)
  BY <1>1, <1>6
<1> QED BY <1>5, <1>7 DEF n

(* So is the path of a kind. *)
LEMMA KindPathIs ==
  ASSUME NEW doc \in Documents, NEW k \in DocumentKinds(doc)
  PROVE  KindPath(doc, k) \in Seq(Int)
<1> DEFINE having == {i \in DOMAIN doc : k \in KindsOf(doc[i])}
           start == [i \in having |-> LiteralStart(doc[i].template)]
           shortest == {i \in having : \A j \in having : Len(start[i]) <= Len(start[j])}
           L == {Len(start[i]) : i \in having}
<1>1. having # {} /\ having \in SUBSET DOMAIN doc
  BY DEF DocumentKinds
<1>2. DOMAIN doc \in SUBSET Int /\ IsFiniteSet(DOMAIN doc)
  <2>1. Len(doc) \in Nat /\ DOMAIN doc = 1..Len(doc) /\ IsFiniteSet(DOMAIN doc)
    BY DocumentIs
  <2> QED BY <2>1
<1>3. \A i \in having : start[i] \in Seq(Int)
  BY <1>1, DocumentIs, LiteralStartIs
<1>4. IsFiniteSet(having)
  BY <1>1, <1>2, FS_Subset
<1>5. KindPath(doc, k) = start[Min(shortest)]
  BY DEF KindPath
<1> HIDE DEF having, start
<1>6. \A i \in having : Len(start[i]) \in Nat
  BY <1>3
<1>7. L \in SUBSET Int /\ L # {}
  <2>1. PICK i \in having : TRUE
    BY <1>1
  <2>2. Len(start[i]) \in L
    OBVIOUS
  <2>3. \A x \in L : x \in Int
    BY <1>6
  <2> QED BY <2>2, <2>3
<1>8. IsFiniteSet(L)
  <2> DEFINE f == [i \in having |-> Len(start[i])]
  <2>1. f = [x \in DOMAIN f |-> f[x]] /\ DOMAIN f = having /\ L = {f[x] : x \in DOMAIN f}
    OBVIOUS
  <2> HIDE DEF f, L
  <2> QED BY <1>4, <2>1, FiniteImage
<1>9. Min(L) \in L /\ \A x \in L : Min(L) <= x
  BY <1>7, <1>8, LeastIs
<1>10. PICK i \in having : Len(start[i]) = Min(L)
  <2> DEFINE m == Min(L)
  <2>1. m \in L
    BY <1>9
  <2> HIDE DEF m
  <2>2. \E i \in having : Len(start[i]) = m
    BY <2>1
  <2> QED BY <2>2 DEF m
<1>11. \A j \in having : Len(start[j]) \in L
  OBVIOUS
<1>12. i \in shortest
  BY <1>9, <1>10, <1>11
<1>13. shortest \in SUBSET having
  OBVIOUS
<1> HIDE DEF shortest, L
<1>14. shortest \in SUBSET Int /\ IsFiniteSet(shortest) /\ shortest # {}
  BY <1>1, <1>2, <1>4, <1>12, <1>13, FS_Subset
<1>15. Min(shortest) \in shortest
  BY <1>14, LeastIs
<1> QED BY <1>3, <1>5, <1>13, <1>15

(* A kind owns what is below its path. *)
LEMMA OwnerIs ==
  ASSUME NEW doc \in Documents, NEW ks \in KindSets(doc), NEW t \in Seq(Int), Owner(doc, ks, t) # NoKind
  PROVE  Len(KindPath(doc, Owner(doc, ks, t))) \in 0..Len(t)
<1> DEFINE owners == {k \in ks : IsPrefix(KindPath(doc, k), t)}
           L == {Len(KindPath(doc, l)) : l \in owners}
           k == Owner(doc, ks, t)
<1>1. ks \in SUBSET DocumentKinds(doc)
  BY DEF KindSets
<1>2. \A l \in owners : KindPath(doc, l) \in Seq(Int) /\ Len(KindPath(doc, l)) <= Len(t)
  BY <1>1, KindPathIs DEF IsPrefix
<1>3. Len(t) \in Nat
  OBVIOUS
<1>4. \A l \in owners : Len(KindPath(doc, l)) \in 0..Len(t)
  BY <1>2, <1>3
<1> DEFINE longest == CHOOSE o \in owners : \A l \in owners : Len(KindPath(doc, l)) <= Len(KindPath(doc, o))
<1>11. k = IF owners = {} THEN NoKind ELSE longest
  BY DEF Owner
<1> HIDE DEF owners, longest
<1> HIDE DEF k
<1>12. k # NoKind
  BY DEF k
<1>5. owners # {} /\ k = longest
  BY <1>11, <1>12
<1>6. L \in SUBSET Int /\ L # {} /\ L \in SUBSET (0..Len(t))
  <2>1. PICK l \in owners : TRUE
    BY <1>5
  <2>2. Len(KindPath(doc, l)) \in L
    OBVIOUS
  <2>3. \A x \in L : x \in 0..Len(t)
    BY <1>4
  <2>4. \A x \in 0..Len(t) : x \in Int
    BY <1>3
  <2> QED BY <2>2, <2>3, <2>4
<1>7. IsFiniteSet(L)
  <2>1. IsFiniteSet(0..Len(t))
    BY <1>3, FS_Interval
  <2> HIDE DEF L
  <2> QED BY <1>6, <2>1, FS_Subset
<1>8. PICK n \in L : \A p \in L : p <= n
  BY <1>6, <1>7, Greatest
<1>9. \E o \in owners : \A l \in owners : Len(KindPath(doc, l)) <= Len(KindPath(doc, o))
  <2>1. PICK o \in owners : Len(KindPath(doc, o)) = n
    BY <1>8
  <2>2. \A l \in owners : Len(KindPath(doc, l)) \in L
    OBVIOUS
  <2> QED BY <1>8, <2>1, <2>2
<1>10. k \in owners
  BY <1>5, <1>9 DEF longest
<1> QED BY <1>4, <1>10 DEF k

(* The words tell methods apart, but for PUT and PATCH. *)
LEMMA WordsAre ==
  ASSUME NEW m \in Methods, NEW n \in Methods
  PROVE  /\ MethodAction(m) \in Int
         /\ MethodAction(m) = MethodAction(n) => m = n \/ {m, n} = {"PUT", "PATCH"}
<1>1. \A x \in Methods :
        /\ MethodAction(x) \in {1003, 1004, 1005, 1006, 1007, 1008, 1009}
        /\ MethodAction(x) = 1003 => x = "GET"
        /\ MethodAction(x) = 1004 => x = "POST"
        /\ MethodAction(x) = 1005 => x \in {"PUT", "PATCH"}
        /\ MethodAction(x) = 1006 => x = "DELETE"
        /\ MethodAction(x) = 1007 => x = "HEAD"
        /\ MethodAction(x) = 1008 => x = "OPTIONS"
        /\ MethodAction(x) = 1009 => x = "TRACE"
  BY DEF Methods, MethodAction
<1>2. MethodAction(m) \in Int
  BY <1>1
<1>3. ASSUME MethodAction(m) = MethodAction(n) PROVE m = n \/ {m, n} = {"PUT", "PATCH"}
  <2>1. CASE MethodAction(m) = 1005
    <3>1. m \in {"PUT", "PATCH"} /\ n \in {"PUT", "PATCH"}
      <4>1. MethodAction(n) = 1005
        BY <1>3, <2>1
      <4>2. \A x \in Methods : MethodAction(x) = 1005 => x \in {"PUT", "PATCH"}
        BY <1>1
      <4> QED BY <2>1, <4>1, <4>2
    <3>2. ASSUME m # n PROVE \A x : x \in {m, n} <=> x \in {"PUT", "PATCH"}
      BY <3>1, <3>2
    <3> QED BY <3>2
  <2>2. CASE MethodAction(m) # 1005
    <3>1. MethodAction(m) \in {1003, 1004, 1006, 1007, 1008, 1009}
      BY <1>1, <2>2
    <3>2. \A x, y \in Methods :
            MethodAction(x) = MethodAction(y) /\ MethodAction(x) \in {1003, 1004, 1006, 1007, 1008, 1009}
              => x = y
      BY <1>1
    <3> QED BY <1>3, <3>1, <3>2
  <2> QED BY <2>1, <2>2
<1> QED BY <1>2, <1>3

(* An action is a word, or literals of the path. *)
LEMMA ActionIs ==
  ASSUME NEW method \in Methods, NEW segments \in Seq(Int), NEW a, a = ActionOf(method, segments)
  PROVE  a \in Seq(Int) /\ Len(a) >= 1 /\ (Len(a) > 1 => ToSet(a) \subseteq ToSet(segments))
<1> DEFINE at == {i \in DOMAIN segments : ~IsParameter(segments[i])}
           literals == Picked(segments, at)
<1>1. at \in SUBSET Int /\ IsFiniteSet(at) /\ at \in SUBSET DOMAIN segments
  <2>1. DOMAIN segments = 1..Len(segments) /\ Len(segments) \in Nat
    OBVIOUS
  <2>2. IsFiniteSet(DOMAIN segments) /\ DOMAIN segments \in SUBSET Int
    BY <2>1, FS_Interval
  <2>3. at \in SUBSET DOMAIN segments
    OBVIOUS
  <2> HIDE DEF at
  <2> QED BY <2>2, <2>3, FS_Subset
<1> DEFINE list == IF segments = <<>> THEN ListWord ELSE ShowWord
<1>2. \/ literals # <<>> /\ a = literals
      \/ a = <<list>>
      \/ a = <<MethodAction(method)>>
  BY DEF ActionOf
<1> HIDE DEF at
<1>3. /\ literals \in Seq(ToSet(literals)) /\ ToSet(literals) = {segments[i] : i \in at}
  BY <1>1, PickedHas
<1> HIDE DEF literals
<1>4. \A x \in ToSet(literals) : x \in ToSet(segments) /\ x \in Int
  <2>1. \A i \in DOMAIN segments : segments[i] \in Int /\ segments[i] \in ToSet(segments)
    BY DEF ToSet
  <2> QED BY <1>1, <1>3, <2>1
<1>5. CASE literals # <<>> /\ a = literals
  <2>1. literals \in Seq(Int)
    BY <1>3, <1>4
  <2>2. Len(literals) >= 1
    BY <1>5, <2>1
  <2> QED BY <1>4, <1>5, <2>1, <2>2
<1>6. MethodAction(method) \in Int /\ list \in Int
  BY WordsAre DEF ListWord, ShowWord
<1> HIDE DEF list
<1>7. ASSUME NEW w \in Int, a = <<w>> PROVE a \in Seq(Int) /\ Len(a) = 1
  BY <1>7
<1>8. ASSUME NEW w \in Int, a = <<w>> PROVE Len(a) >= 1 /\ ~(Len(a) > 1)
  BY <1>8
<1>9. CASE a = <<list>>
  BY <1>6, <1>7, <1>8, <1>9
<1>10. CASE a = <<MethodAction(method)>>
  BY <1>6, <1>7, <1>8, <1>10
<1> QED BY <1>2, <1>5, <1>9, <1>10

(* Actions of a kind tell methods apart. *)
LEMMA ToldApart ==
  ASSUME NEW doc \in Documents, NEW ks \in KindSets(doc), spec = WithKinds(doc, ks)
  PROVE  MethodsToldApart
<1> DEFINE owner == [i \in DOMAIN doc |-> Owner(doc, ks, doc[i].template)]
           segments(i) == SubSeq(doc[i].template, Len(KindPath(doc, owner[i])) + 1, Len(doc[i].template))
           action == [i \in DOMAIN doc |->
                   IF owner[i] = NoKind THEN <<>>
                   ELSE ActionOf(doc[i].method, SubSeq(doc[i].template,
                                   Len(KindPath(doc, owner[i])) + 1, Len(doc[i].template)))]
           isShared(i) == /\ owner[i] # NoKind /\ TellApart(doc[i].method)
                         /\ \E j \in DOMAIN doc : /\ owner[j] = owner[i] /\ action[j] = action[i]
                                                  /\ doc[j].method # doc[i].method
           word(i) == MethodAction(doc[i].method)
           suffixed(i) == IF isShared(i) THEN Append(action[i], word(i)) ELSE action[i]
           op(i) == [method |-> doc[i].method, template |-> doc[i].template, types |-> doc[i].types,
                     kind |-> owner[i], action |-> suffixed(i)]
<1>1. spec = {op(i) : i \in DOMAIN doc}
  BY DEF WithKinds
<1>2. \A i \in DOMAIN doc : doc[i].method \in Methods /\ doc[i].template \in Seq(Int)
  BY DocumentIs
<1>3. ASSUME NEW i \in DOMAIN doc, owner[i] # NoKind
      PROVE  /\ action[i] \in Seq(Int) /\ Len(action[i]) >= 1
             /\ Len(action[i]) > 1 => ToSet(action[i]) \subseteq ToSet(doc[i].template)
  <2>1. owner[i] = Owner(doc, ks, doc[i].template)
    OBVIOUS
  <2>2. action[i] = ActionOf(doc[i].method, segments(i))
    BY <1>3
  <2> DEFINE t == doc[i].template
             n == Len(KindPath(doc, owner[i]))
             r == segments(i)
  <2>3. t \in Seq(Int) /\ doc[i].method \in Methods
    BY <1>2
  <2>4. n \in 0..Len(t)
    BY <1>3, <2>1, <2>3, OwnerIs
  <2>5. r = SubSeq(t, n + 1, Len(t))
    OBVIOUS
  <2> HIDE DEF n, t, r
  <2>6. r \in Seq(Int) /\ ToSet(r) \subseteq ToSet(t)
    BY <2>3, <2>4, <2>5, RestIs
  <2> HIDE DEF action, owner
  <2>7. action[i] \in Seq(Int) /\ Len(action[i]) >= 1
        /\ (Len(action[i]) > 1 => ToSet(action[i]) \subseteq ToSet(r))
    BY <2>2, <2>3, <2>6, ActionIs DEF r
  <2> QED BY <2>6, <2>7 DEF t
<1>4. ASSUME NEW i \in DOMAIN doc PROVE word(i) \in Int
  BY <1>2, WordsAre
<1>5. ASSUME NEW i \in DOMAIN doc, NEW j \in DOMAIN doc, word(i) = word(j)
      PROVE  doc[i].method = doc[j].method \/ {doc[i].method, doc[j].method} = {"PUT", "PATCH"}
  BY <1>2, <1>5, WordsAre
<1> HIDE DEF action, owner, segments, word
<1>6. ASSUME NEW i \in DOMAIN doc, NEW j \in DOMAIN doc, owner[i] = owner[j], owner[i] # NoKind,
             action[j] = Append(action[i], word(i))
      PROVE  word(i) \in ToSet(doc[j].template)
  <2>1. action[i] \in Seq(Int) /\ Len(action[i]) >= 1 /\ word(i) \in Int
    BY <1>3, <1>4, <1>6
  <2> DEFINE a == Append(action[i], word(i))
             n == Len(action[i]) + 1
  <2>2. a \in Seq(Int) /\ Len(a) = n /\ n > 1 /\ n \in 1..Len(a) /\ a[n] = word(i)
    BY <2>1
  <2>3. a = action[j]
    BY <1>6
  <2> HIDE DEF a, n
  <2>4. word(i) \in ToSet(a)
    <3>1. n \in DOMAIN a
      BY <2>2
    <3> QED BY <2>2, <3>1 DEF ToSet
  <2>5. Len(action[j]) > 1
    BY <2>2, <2>3
  <2>6. ToSet(action[j]) \subseteq ToSet(doc[j].template)
    BY <1>3, <1>6, <2>5
  <2> QED BY <2>3, <2>4, <2>6
<1>7. ASSUME NEW i \in DOMAIN doc, NEW j \in DOMAIN doc, owner[i] = owner[j], owner[i] # NoKind,
             suffixed(i) = suffixed(j)
      PROVE  \/ doc[i].method = doc[j].method
             \/ {doc[i].method, doc[j].method} = {"PUT", "PATCH"}
             \/ word(i) \in ToSet(doc[j].template)
             \/ word(j) \in ToSet(doc[i].template)
  <2>1. CASE isShared(i) /\ isShared(j)
    <3>1. Append(action[i], word(i)) = Append(action[j], word(j))
      BY <1>7, <2>1
    <3>2. /\ action[i] \in Seq(Int) /\ word(i) \in Int
          /\ action[j] \in Seq(Int) /\ word(j) \in Int
      BY <1>3, <1>4, <1>7
    <3>3. word(i) = word(j)
      <4> DEFINE a == Append(action[i], word(i))
                 b == Append(action[j], word(j))
      <4>1. Len(a) = Len(action[i]) + 1 /\ a[Len(a)] = word(i)
        BY <3>2
      <4>2. Len(b) = Len(action[j]) + 1 /\ b[Len(b)] = word(j)
        BY <3>2
      <4>3. a = b
        BY <3>1
      <4> HIDE DEF a, b
      <4> QED BY <4>1, <4>2, <4>3
    <3> QED BY <1>5, <3>3
  <2>2. CASE isShared(i) /\ ~isShared(j)
    <3>1. action[j] = Append(action[i], word(i))
      BY <1>7, <2>2
    <3> QED BY <1>6, <1>7, <3>1
  <2>3. CASE ~isShared(i) /\ isShared(j)
    <3>1. action[i] = Append(action[j], word(j))
      BY <1>7, <2>3
    <3> QED BY <1>6, <1>7, <3>1
  <2>4. CASE ~isShared(i) /\ ~isShared(j)
    <3>1. action[i] = action[j]
      BY <1>7, <2>4
    <3> QED BY <1>7, <2>4, <3>1 DEF TellApart
  <2> QED BY <2>1, <2>2, <2>3, <2>4
<1> HIDE DEF suffixed
<1>8. SUFFICES ASSUME NEW i \in DOMAIN doc, NEW j \in DOMAIN doc, op(i).kind = op(j).kind, op(i).kind # NoKind,
                      op(i).action = op(j).action
               PROVE  \/ op(i).method = op(j).method \/ {op(i).method, op(j).method} = {"PUT", "PATCH"}
                      \/ MethodAction(op(i).method) \in ToSet(op(j).template)
                      \/ MethodAction(op(j).method) \in ToSet(op(i).template)
  <2> HIDE DEF op
  <2> QED BY <1>1 DEF MethodsToldApart
<1>9. \A k \in DOMAIN doc : /\ op(k).kind = owner[k] /\ op(k).action = suffixed(k)
                           /\ op(k).method = doc[k].method /\ op(k).template = doc[k].template
  OBVIOUS
<1> HIDE DEF op
<1>10. owner[i] = owner[j] /\ owner[i] # NoKind /\ suffixed(i) = suffixed(j)
  BY <1>8, <1>9
<1>11. \/ doc[i].method = doc[j].method
       \/ {doc[i].method, doc[j].method} = {"PUT", "PATCH"}
       \/ word(i) \in ToSet(doc[j].template)
       \/ word(j) \in ToSet(doc[i].template)
  BY <1>7, <1>10
<1> QED BY <1>9, <1>11 DEF word

(* Operations of a kind that share an action have one method, whatever literals the paths *)
(* have, but for PUT and PATCH, and a path that has the word of the other's method.        *)
THEOREM ActionsTellMethods == Spec => []MethodsToldApart
<1>1. Init => MethodsToldApart
  <2>1. Init => OpenApiInit
    BY DEF Init, DocsInit
  <2>2. ASSUME spec = {} PROVE MethodsToldApart
    BY <2>2 DEF MethodsToldApart
  <2>3. ASSUME \E doc \in Documents : \E ks \in KindSets(doc) : spec = WithKinds(doc, ks) PROVE MethodsToldApart
    BY <2>3, ToldApart
  <2> QED BY <2>1, <2>2, <2>3 DEF OpenApiInit
<1>2. MethodsToldApart /\ [Next]_vars => MethodsToldApart'
  <2>1. OpenApiStep \/ UNCHANGED openApiVars => spec' = spec
    BY DEF OpenApiStep, Negotiate, SendUnversioned, SendVersioned, SendUnchanged, SendWithoutDocs, SendAs,
           SendWith, FailRequest, ListOperations, Printed, Follow, openApiVars
  <2>2. ASSUME spec' = spec, MethodsToldApart PROVE MethodsToldApart'
    BY <2>2 DEF MethodsToldApart
  <2> QED BY <2>1, <2>2, PartSteps
<1> QED BY <1>1, <1>2, PTL DEF Spec
-----------------------------------------------------------------------------
(* ApiDescription: the fields of a body, each once, and all of them. *)

(* One path is another, or leads to it.                                                   *)
Under(p, q) == Len(p) <= Len(q) /\ \A j \in 1..Len(p) : p[j] = q[j]

(* That is an order, and what leads to one path leads from one to the other. *)
LEMMA UnderOrders ==
  ASSUME NEW p \in Seq(Nat), NEW q \in Seq(Nat), NEW r \in Seq(Nat)
  PROVE  /\ Under(p, p)
         /\ Under(p, q) /\ Under(q, r) => Under(p, r)
         /\ Under(p, r) /\ Under(q, r) => Under(p, q) \/ Under(q, p)
<1> DEFINE P == Len(p)
           Q == Len(q)
           R == Len(r)
<1>1. P \in Nat /\ Q \in Nat /\ R \in Nat
  OBVIOUS
<1>2. Under(p, p)
  BY <1>1 DEF Under
<1>3. ASSUME Under(p, q), Under(q, r) PROVE Under(p, r)
  <2>1. P <= Q /\ Q <= R /\ (\A j \in 1..P : p[j] = q[j]) /\ (\A j \in 1..Q : q[j] = r[j])
    BY <1>3 DEF Under
  <2> HIDE DEF P, Q, R
  <2>2. P <= R /\ \A j \in 1..P : p[j] = r[j]
    BY <1>1, <2>1
  <2> QED BY <2>2 DEF Under, P, R
<1>4. ASSUME Under(p, r), Under(q, r) PROVE Under(p, q) \/ Under(q, p)
  <2>1. (\A j \in 1..P : p[j] = r[j]) /\ (\A j \in 1..Q : q[j] = r[j])
    BY <1>4 DEF Under
  <2> HIDE DEF P, Q, R
  <2>2. \/ P <= Q /\ \A j \in 1..P : p[j] = q[j]
        \/ Q <= P /\ \A j \in 1..Q : q[j] = p[j]
    <3>1. CASE P <= Q
      <4>1. \A j \in 1..P : j \in 1..Q
        BY <1>1, <3>1
      <4> QED BY <2>1, <3>1, <4>1
    <3>2. CASE Q <= P
      <4>1. \A j \in 1..Q : j \in 1..P
        BY <1>1, <3>2
      <4> QED BY <2>1, <3>2, <4>1
    <3> QED BY <1>1, <3>1, <3>2
  <2> QED BY <2>2 DEF Under, P, Q
<1> QED BY <1>2, <1>3, <1>4

(* A place below a path, and another one. *)
LEMMA UnderPlace ==
  ASSUME NEW p \in Seq(Nat), NEW m \in Nat, NEW n \in Nat
  PROVE  /\ Append(p, m) \in Seq(Nat) /\ Under(p, Append(p, m)) /\ ~Under(Append(p, m), p)
         /\ m # n => ~Under(Append(p, m), Append(p, n))
<1> DEFINE q == Append(p, m)
           r == Append(p, n)
<1>1. /\ q \in Seq(Nat) /\ Len(q) = Len(p) + 1 /\ Len(p) \in Nat /\ q[Len(p) + 1] = m
      /\ \A j \in 1..Len(p) : q[j] = p[j]
  OBVIOUS
<1>2. Len(r) = Len(p) + 1 /\ r[Len(p) + 1] = n
  OBVIOUS
<1> HIDE DEF q, r
<1>3. Under(p, q) /\ ~Under(q, p)
  BY <1>1 DEF Under
<1>4. ASSUME Under(q, r) PROVE m = n
  BY <1>1, <1>2, <1>4 DEF Under
<1> QED BY <1>1, <1>3, <1>4 DEF q, r

(* No two of them lead to one field.                                                      *)
PathsApart(items) == \A i, j \in 1..Len(items) : i # j => ~Under(items[i].path, items[j].path)

(* A field that is read is at no path that is still to be read.                           *)
Unread(item, path) == Under(item.path, path) => item.what = "schema" /\ path = item.path

FieldInv ==
  /\ \E S : fieldsRead \in Seq(S)
  /\ \A i \in 1..Len(fieldsRead) : fieldsRead[i].path \in Seq(Nat)
  /\ \A i, j \in 1..Len(fieldsRead) : i # j => fieldsRead[i].path # fieldsRead[j].path
  /\ describePc = "reading" =>
       /\ PathsApart(work)
       /\ \A i \in 1..Len(work), k \in 1..Len(fieldsRead) : Unread(work[i], fieldsRead[k].path)

(* What takes the place of the first item is below it, so nothing else leads there.       *)
LEMMA ThenApart ==
  ASSUME WorkInv, work # <<>>, PathsApart(work), NEW items \in Seq(Item), Then(items), PathsApart(items),
         \A i \in 1..Len(items) : Under(Head(work).path, items[i].path)
  PROVE  /\ PathsApart(work')
         /\ \A i \in 1..Len(work') : \/ \E k \in 1..Len(items) : work'[i] = items[k]
                                     \/ \E k \in 2..Len(work) : work'[i] = work[k]
<1> DEFINE n == Len(items)
           t == Tail(work)
<1>1. /\ t \in Seq(Item) /\ Len(t) \in Nat /\ \A i \in 1..Len(t) : t[i] = work[i + 1] /\ i + 1 \in 2..Len(work)
  BY DEF WorkInv
<1>2. work' = items \o t
  BY DEF Then
<1> HIDE DEF t
<1>3. n \in Nat /\ Len(work') = n + Len(t)
      /\ \A i \in 1..(n + Len(t)) : work'[i] = IF i <= n THEN items[i] ELSE t[i - n]
  BY <1>1, <1>2
<1> HIDE DEF n
<1>4. ASSUME NEW i \in 1..Len(work')
      PROVE  /\ i <= n => i \in 1..n /\ work'[i] = items[i]
             /\ ~(i <= n) => /\ i - n + 1 \in 2..Len(work) /\ work'[i] = work[i - n + 1]
  <2>1. CASE i <= n
    BY <1>3, <2>1
  <2>2. CASE ~(i <= n)
    <3>1. i - n \in 1..Len(t) /\ work'[i] = t[i - n]
      BY <1>1, <1>3, <2>2
    <3> QED BY <1>1, <2>2, <3>1
  <2> QED BY <2>1, <2>2
<1>5. /\ \A i \in 1..n : items[i].path \in Seq(Nat)
      /\ \A i \in 1..Len(work) : work[i].path \in Seq(Nat)
      /\ Head(work) = work[1] /\ 1 \in 1..Len(work) /\ Len(work) \in Nat
  <2>1. ASSUME NEW x \in Item PROVE x.path \in Seq(Nat)
    BY DEF Item
  <2>2. work \in Seq(Item)
    BY DEF WorkInv
  <2>3. (\A i \in 1..n : items[i] \in Item) /\ \A i \in 1..Len(work) : work[i] \in Item
    BY <2>2 DEF n
  <2>4. Head(work) = work[1] /\ 1 \in 1..Len(work) /\ Len(work) \in Nat
    BY <2>2
  <2> QED BY <2>1, <2>3, <2>4
<1>6. ASSUME NEW i \in 1..n, NEW k \in 2..Len(work)
      PROVE  ~Under(items[i].path, work[k].path) /\ ~Under(work[k].path, items[i].path)
  <2>1. k \in 1..Len(work) /\ k # 1
    BY <1>5
  <2>2. ~Under(work[1].path, work[k].path) /\ ~Under(work[k].path, work[1].path)
    BY <1>5, <2>1 DEF PathsApart
  <2>3. Under(work[1].path, items[i].path)
    BY <1>5 DEF n
  <2> QED BY <1>5, <2>1, <2>2, <2>3, UnderOrders
<1>7. ASSUME NEW i \in 1..Len(work'), NEW j \in 1..Len(work'), i # j
      PROVE  ~Under(work'[i].path, work'[j].path)
  <2>1. CASE i <= n /\ j <= n
    BY <1>4, <1>7, <2>1 DEF PathsApart, n
  <2>2. CASE i <= n /\ ~(j <= n)
    BY <1>4, <1>6, <2>2
  <2>3. CASE ~(i <= n) /\ j <= n
    BY <1>4, <1>6, <2>3
  <2>4. CASE ~(i <= n) /\ ~(j <= n)
    <3>1. i - n + 1 # j - n + 1
      BY <1>3, <1>7
    <3>2. i - n + 1 \in 1..Len(work) /\ j - n + 1 \in 1..Len(work)
      BY <1>4, <1>5, <2>4
    <3> QED BY <1>4, <2>4, <3>1, <3>2 DEF PathsApart
  <2> QED BY <2>1, <2>2, <2>3, <2>4
<1>8. PathsApart(work')
  BY <1>7 DEF PathsApart
<1>9. ASSUME NEW i \in 1..Len(work')
      PROVE  (\E k \in 1..n : work'[i] = items[k]) \/ (\E k \in 2..Len(work) : work'[i] = work[k])
  BY <1>4, <1>9
<1> QED BY <1>8, <1>9 DEF n

(* A description begins with nothing read.                                                *)
LEMMA FieldsBegin == Init => FieldInv
<1> SUFFICES ASSUME DescribeInit PROVE FieldInv
  BY DEF Init, DocsInit
<1>1. fieldsRead = <<>> /\ \E first : work = <<first>>
  BY DEF DescribeInit
<1>2. fieldsRead \in Seq({}) /\ Len(fieldsRead) = 0
  BY <1>1
<1>3. PICK first : work = <<first>>
  BY <1>1
<1>4. Len(work) = 1
  BY <1>3
<1>5. PathsApart(work)
  BY <1>4 DEF PathsApart
<1> QED BY <1>2, <1>5 DEF FieldInv

(* The fields are read once, whatever takes the place of the first item below it. *)
LEMMA FieldsStay ==
  ASSUME WorkInv, FieldInv, describePc = "reading", work # <<>>, NEW items, ReadsInto(items), PathsApart(items),
         \A i \in 1..Len(items) : Under(Head(work).path, items[i].path),
         UNCHANGED fieldsRead,
         \A i \in 1..Len(items), k \in 1..Len(fieldsRead) : Unread(items[i], fieldsRead[k].path)
  PROVE  FieldInv'
<1>1. /\ PathsApart(work')
      /\ \A i \in 1..Len(work') : \/ \E k \in 1..Len(items) : work'[i] = items[k]
                                  \/ \E k \in 2..Len(work) : work'[i] = work[k]
  BY ThenApart DEF FieldInv, ReadsInto
<1>2. \A k \in 2..Len(work) : k \in 1..Len(work)
  BY DEF WorkInv
<1>3. \A i \in 1..Len(work'), k \in 1..Len(fieldsRead) : Unread(work'[i], fieldsRead[k].path)
  BY <1>1, <1>2 DEF FieldInv
<1>4. PathsApart(work)'
  BY <1>1 DEF PathsApart
<1>5. (\A i \in 1..Len(work), k \in 1..Len(fieldsRead) : Unread(work[i], fieldsRead[k].path))'
  BY <1>3 DEF Unread, Under
<1> QED BY <1>4, <1>5 DEF FieldInv

(* They are at places below the path, each at one of its own. *)
LEMMA PlacesRead ==
  ASSUME NEW items, NEW s, NEW f, ReadAs(items, s, f)
  PROVE  \E d \in {0, 1} : \A i \in 1..Len(items) : items[i].path = Append(s.path, i - d)
<1>1. CASE Len(items) = 1 /\ items[1].path = Append(s.path, 0)
  <2>1. \A i \in 1..Len(items) : i = 1 /\ i - 1 = 0
    BY <1>1
  <2> QED BY <1>1, <2>1
<1>2. CASE \A i \in 1..Len(items) : items[i].path = Append(s.path, i)
  <2>1. \A i \in 1..Len(items) : i - 0 = i
    OBVIOUS
  <2> QED BY <1>2, <2>1
<1> QED BY <1>1, <1>2 DEF ReadAs

(* A schema has the fields below it still to be read. *)
LEMMA SchemaApart ==
  ASSUME WorkInv, FieldInv, ReadSchema
  PROVE  FieldInv'
<1>1. Reading("schema") /\ UNCHANGED fieldsRead
  BY DEF ReadSchema
<1>2. /\ describePc = "reading" /\ work # <<>> /\ Head(work) = work[1] /\ 1 \in 1..Len(work) /\ Head(work) \in Item
  BY <1>1, HeadReads
<1>3. PICK items : ReadsInto(items) /\ ReadAs(items, Head(work), Followed(Head(work).schema, Head(work).refs))
  BY SchemaReads
<1>4. PICK d \in {0, 1} : \A i \in 1..Len(items) : items[i].path = Append(Head(work).path, i - d)
  BY <1>3, PlacesRead
<1> DEFINE p == Head(work).path
<1>5. p \in Seq(Nat) /\ p = work[1].path
  BY <1>2 DEF Item
<1>6. items \in Seq(Item) /\ Len(items) \in Nat
  BY <1>3 DEF ReadsInto
<1>7. \A i \in 1..Len(items) : i - d \in Nat /\ items[i].path = Append(p, i - d)
  BY <1>4, <1>6
<1> HIDE DEF p
<1>8. ASSUME NEW i \in 1..Len(items), NEW j \in 1..Len(items), i # j PROVE ~Under(items[i].path, items[j].path)
  <2> DEFINE m == i - d
             n == j - d
  <2>1. m \in Nat /\ n \in Nat /\ m # n /\ items[i].path = Append(p, m) /\ items[j].path = Append(p, n)
    BY <1>6, <1>7, <1>8
  <2> HIDE DEF m, n
  <2>2. ~Under(Append(p, m), Append(p, n))
    BY <1>5, <2>1, UnderPlace
  <2> QED BY <2>1, <2>2
<1>9. ASSUME NEW i \in 1..Len(items)
      PROVE  items[i].path \in Seq(Nat) /\ Under(p, items[i].path) /\ ~Under(items[i].path, p)
  <2> DEFINE m == i - d
  <2>1. m \in Nat /\ items[i].path = Append(p, m)
    BY <1>7
  <2> HIDE DEF m
  <2>2. Append(p, m) \in Seq(Nat) /\ Under(p, Append(p, m)) /\ ~Under(Append(p, m), p)
    BY <1>5, <2>1, UnderPlace
  <2> QED BY <2>1, <2>2
<1>10. ASSUME NEW i \in 1..Len(items), NEW k \in 1..Len(fieldsRead) PROVE Unread(items[i], fieldsRead[k].path)
  <2> SUFFICES ASSUME Under(items[i].path, fieldsRead[k].path) PROVE FALSE
    BY DEF Unread
  <2>1. fieldsRead[k].path \in Seq(Nat) /\ items[i].path \in Seq(Nat) /\ ~Under(items[i].path, p)
        /\ Under(p, items[i].path)
    BY <1>9 DEF FieldInv
  <2>2. Under(p, fieldsRead[k].path)
    BY <1>5, <2>1, UnderOrders
  <2>3. Unread(work[1], fieldsRead[k].path)
    BY <1>2 DEF FieldInv
  <2>4. fieldsRead[k].path = p
    BY <1>5, <2>2, <2>3 DEF Unread
  <2> QED BY <2>1, <2>4
<1>11. PathsApart(items)
  BY <1>8 DEF PathsApart
<1> QED BY <1>1, <1>2, <1>3, <1>9, <1>10, <1>11, FieldsStay DEF p

(* A property is a field that none was before, and none that is still to be read will be. *)
LEMMA PropertyApart ==
  ASSUME WorkInv, FieldInv, ReadProperty
  PROVE  FieldInv'
<1>1. Reading("property") /\ Head(work).what = "property"
  BY DEF ReadProperty, Reading
<1>2. /\ describePc = "reading" /\ work # <<>> /\ Head(work) = work[1] /\ 1 \in 1..Len(work) /\ Head(work) \in Item
  BY <1>1, HeadReads
<1>3. PICK q : ReadsInto(<<q>>) /\ q.what = "schema" /\ q.path = Head(work).path
  BY PropertyReads
<1>4. PICK f : fieldsRead' = Append(fieldsRead, f) /\ f.path = Head(work).path
  <2> DEFINE followed == Followed(Head(work).schema, Head(work).refs).value
             g == [path |-> Head(work).path, within |-> Head(work).refs, type |-> TypeName(Head(work).schema, followed),
                   items |-> IF followed.items = <<>> THEN NoRef ELSE TypeIn(followed.items[1], Head(work).refs)]
  <2>1. fieldsRead' = Append(fieldsRead, g)
    BY DEF ReadProperty
  <2>2. g.path = Head(work).path
    OBVIOUS
  <2> QED BY <2>1, <2>2
<1> DEFINE p == Head(work).path
           n == Len(fieldsRead)
<1>5. p \in Seq(Nat) /\ p = work[1].path
  BY <1>2 DEF Item
<1>6. PICK S : fieldsRead \in Seq(S)
  BY DEF FieldInv
<1>7. /\ n \in Nat /\ Len(fieldsRead') = n + 1 /\ fieldsRead'[n + 1] = f /\ f.path = p
      /\ \A k \in 1..n : fieldsRead'[k] = fieldsRead[k]
  BY <1>4, <1>6
<1>8. fieldsRead' \in Seq(S \cup {f})
  BY <1>4, <1>6
<1> HIDE DEF p, n
<1>9. \A k \in 1..(n + 1) : k \in 1..n \/ k = n + 1
  BY <1>7
<1>10. ASSUME NEW k \in 1..n PROVE fieldsRead[k].path \in Seq(Nat) /\ ~Under(p, fieldsRead[k].path) /\ fieldsRead[k].path # p
  <2>1. fieldsRead[k].path \in Seq(Nat) /\ Unread(work[1], fieldsRead[k].path)
    BY <1>2 DEF FieldInv, n
  <2>2. ~Under(p, fieldsRead[k].path)
    BY <1>1, <1>2, <1>5, <2>1 DEF Unread
  <2> QED BY <1>5, <2>1, <2>2, UnderOrders
<1>11. \A i \in 1..Len(fieldsRead') : fieldsRead'[i].path \in Seq(Nat)
  BY <1>5, <1>7, <1>9, <1>10
<1>12. ASSUME NEW i \in 1..Len(fieldsRead'), NEW j \in 1..Len(fieldsRead'), i # j
       PROVE  fieldsRead'[i].path # fieldsRead'[j].path
  <2>1. CASE i \in 1..n /\ j \in 1..n
    BY <1>7, <1>12, <2>1 DEF FieldInv, n
  <2>2. CASE i \in 1..n /\ j = n + 1
    BY <1>7, <1>10, <2>2
  <2>3. CASE i = n + 1 /\ j \in 1..n
    BY <1>7, <1>10, <2>3
  <2> QED BY <1>7, <1>9, <1>12, <2>1, <2>2, <2>3
<1>13. Len(<<q>>) = 1 /\ <<q>>[1] = q /\ <<q>> \in Seq(Item)
  BY <1>3 DEF ReadsInto
<1>14. \A i \in 1..Len(<<q>>) : i = 1 /\ <<q>>[i] = q
  BY <1>13
<1>15. PathsApart(<<q>>) /\ \A i \in 1..Len(<<q>>) : Under(Head(work).path, <<q>>[i].path)
  <2>1. Under(Head(work).path, q.path)
    BY <1>3, <1>5, UnderOrders DEF p
  <2> HIDE DEF Under
  <2> QED BY <1>14, <2>1 DEF PathsApart
<1>16. /\ PathsApart(work')
       /\ \A i \in 1..Len(work') : \/ \E k \in 1..Len(<<q>>) : work'[i] = <<q>>[k]
                                   \/ \E k \in 2..Len(work) : work'[i] = work[k]
  BY <1>2, <1>3, <1>15, ThenApart DEF FieldInv, ReadsInto
<1>17. \A i \in 1..Len(work') : work'[i] = q \/ \E k \in 2..Len(work) : work'[i] = work[k]
  BY <1>14, <1>16
<1>18. ASSUME NEW k \in 1..Len(fieldsRead') PROVE Unread(q, fieldsRead'[k].path)
  <2>1. CASE k \in 1..n
    BY <1>3, <1>7, <1>10, <2>1 DEF Unread, p
  <2>2. CASE k = n + 1
    BY <1>3, <1>7, <2>2 DEF Unread, p
  <2> QED BY <1>7, <1>9, <2>1, <2>2
<1>19. ASSUME NEW i \in 2..Len(work), NEW k \in 1..Len(fieldsRead') PROVE Unread(work[i], fieldsRead'[k].path)
  <2>1. i \in 1..Len(work) /\ i # 1
    BY DEF WorkInv
  <2>2. CASE k \in 1..n
    <3>1. fieldsRead'[k] = fieldsRead[k]
      BY <1>7, <2>2
    <3> QED BY <1>2, <2>1, <2>2, <3>1 DEF FieldInv, n
  <2>3. CASE k = n + 1
    <3>1. ~Under(work[i].path, p)
      BY <1>2, <1>5, <2>1 DEF FieldInv, PathsApart
    <3> QED BY <1>7, <2>3, <3>1 DEF Unread
  <2> QED BY <1>7, <1>9, <2>2, <2>3
<1>20. \A i \in 1..Len(work'), k \in 1..Len(fieldsRead') : Unread(work'[i], fieldsRead'[k].path)
  BY <1>17, <1>18, <1>19
<1>21. PathsApart(work)'
  BY <1>16 DEF PathsApart
<1>22. (\A i \in 1..Len(work), k \in 1..Len(fieldsRead) : Unread(work[i], fieldsRead[k].path))'
  BY <1>20 DEF Unread, Under
<1>23. (\E T : fieldsRead \in Seq(T))'
  BY <1>8
<1> QED BY <1>11, <1>12, <1>21, <1>22, <1>23 DEF FieldInv

(* A step of a description, or beside it.                                                 *)
LEMMA FieldsNext == WorkInv /\ FieldInv /\ (DescribeStep \/ UNCHANGED describeVars) => FieldInv'
<1> SUFFICES ASSUME WorkInv, FieldInv, DescribeStep \/ UNCHANGED describeVars PROVE FieldInv'
  OBVIOUS
<1>1. CASE InlineOperation \/ FailInline \/ AllRead \/ FailRead
  <2>1. UNCHANGED fieldsRead /\ describePc' # "reading"
    BY <1>1 DEF InlineOperation, FailInline, AllRead, FailRead
  <2> QED BY <2>1 DEF FieldInv
<1>2. CASE UNCHANGED describeVars
  <2>1. UNCHANGED <<describePc, work, fieldsRead>>
    BY <1>2 DEF describeVars
  <2> QED BY <2>1 DEF FieldInv, PathsApart, Unread, Under
<1> QED BY <1>1, <1>2, SchemaApart, PropertyApart DEF DescribeStep

(* No field of a body is said twice, however its schemas refer to each other. *)
THEOREM FieldsAreSaidOnce == Spec => []FieldsOnce
<1>1. WorkInv /\ [Next]_vars => WorkInv'
  BY PartSteps, WorkNext
<1>2. WorkInv /\ FieldInv /\ [Next]_vars => FieldInv'
  BY PartSteps, FieldsNext
<1>3. FieldInv => FieldsOnce
  <2>1. ASSUME NEW S, fieldsRead \in Seq(S) PROVE DOMAIN fieldsRead = 1..Len(fieldsRead)
    BY <2>1
  <2> QED BY <2>1 DEF FieldInv, FieldsOnce
<1> QED BY WorkBegins, FieldsBegin, <1>1, <1>2, <1>3, PTL DEF Spec

(* A chain of $refs is followed to its end. *)
LEMMA ChainsLead ==
  ASSUME NEW value, NEW refs, NEW chain \in Chains(value, refs), NEW i \in 1..Len(chain)
  PROVE  /\ i = 1 => chain[i] = value.ref
         /\ i # 1 => i - 1 \in 1..Len(chain) /\ chain[i] = components[chain[i - 1]].ref
<1>1. chain \in Seq(Component) /\ DOMAIN chain = 1..Len(chain)
  BY ChainsAre DEF Chain
<1>2. chain[i] = Behind(value, SubSeq(chain, 1, i - 1)).ref
  BY <1>1 DEF Chains
<1>3. CASE i = 1
  <2>1. SubSeq(chain, 1, i - 1) = <<>>
    BY <1>3, SubSeqEmpty
  <2> QED BY <1>2, <1>3, <2>1 DEF Behind
<1>4. CASE i # 1
  <2> DEFINE t == SubSeq(chain, 1, i - 1)
  <2>1. \A k \in 1..(i - 1) : chain[k] \in Component
    BY <1>1
  <2>2. t \in Seq(Component) /\ Len(t) = i - 1 /\ \A k \in 1..(i - 1) : t[k] = chain[k]
    BY <1>1, <1>4, <2>1, SubSeqProperties
  <2>3. i - 1 \in 1..Len(chain)
    BY <1>1, <1>4
  <2> HIDE DEF t
  <2>4. Last(t) = chain[i - 1] /\ t # <<>>
    BY <2>2, <2>3 DEF Last
  <2> QED BY <1>2, <1>4, <2>3, <2>4 DEF Behind, t
<1> QED BY <1>3, <1>4

(* One that can be followed on is not the longest. *)
LEMMA ChainGoesOn ==
  ASSUME NEW value, NEW refs, NEW chain \in Chains(value, refs), NEW r \in Component,
         r = Behind(value, chain).ref, r \notin ToSet(refs), r \notin ToSet(chain)
  PROVE  \E d \in Chains(value, refs) : ~(Len(d) <= Len(chain))
<1> DEFINE n == Len(chain)
           ext == Append(chain, r)
<1>1. Chain(chain, refs) /\ chain \in Seq(Component) /\ n \in Nat /\ DOMAIN chain = 1..n
  BY ChainsAre DEF Chain
<1>2. /\ ext \in Seq(Component) /\ Len(ext) = n + 1 /\ ext[n + 1] = r
      /\ \A k \in 1..n : ext[k] = chain[k]
  BY <1>1
<1> HIDE DEF ext
<1>3. DOMAIN ext = 1..(n + 1) /\ ext \in [1..(n + 1) -> Component]
  <2>1. DOMAIN ext = 1..Len(ext) /\ ext \in [1..Len(ext) -> Component]
    BY <1>2
  <2> QED BY <1>2, <2>1
<1>4. n + 1 \in 0..Cardinality(Component)
  <2>1. chain \in [1..n -> ToSet(chain)] /\ chain \in Surjection(1..n, ToSet(chain))
    BY <1>1 DEF ToSet, Surjection
  <2>2. IsFiniteSet(1..n) /\ Cardinality(1..n) = n
    BY <1>1, FS_Interval
  <2>3. chain \in Injection(1..n, ToSet(chain))
    <3>1. IsInjective(chain)
      BY <1>1 DEF Chain
    <3> QED BY <2>1, <3>1 DEF Injection
  <2>4. IsFiniteSet(ToSet(chain)) /\ Cardinality(ToSet(chain)) = n
    BY <2>1, <2>2, <2>3, FS_Surjection
  <2>5. IsFiniteSet(ToSet(chain) \cup {r}) /\ Cardinality(ToSet(chain) \cup {r}) = n + 1
    BY <2>4, FS_AddElement
  <2>6. ToSet(chain) \cup {r} \in SUBSET Component
    BY <1>1 DEF ToSet
  <2>7. Cardinality(ToSet(chain) \cup {r}) <= Cardinality(Component) /\ Cardinality(Component) \in Nat
    BY <2>6, ComponentAssumption, FS_Subset, FS_CardinalityType
  <2> QED BY <1>1, <2>5, <2>7
<1>5. ext \in BoundedSeq(Component, Cardinality(Component))
  <2> DEFINE N == Cardinality(Component)
             m == n + 1
  <2>1. m \in 0..N /\ ext \in [1..m -> Component]
    BY <1>3, <1>4
  <2> HIDE DEF m
  <2> QED BY <2>1, Zenon DEF BoundedSeq, SeqOf
<1>6. ASSUME NEW i \in 1..(n + 1)
      PROVE  /\ ext[i] = Behind(value, SubSeq(ext, 1, i - 1)).ref
             /\ ext[i] \notin ToSet(refs) \cup ToSet(SubSeq(ext, 1, i - 1))
  <2>1. \A k \in 1..(i - 1) : chain[k] \in Component /\ ext[k] = chain[k] /\ ext[k] \in Component
    BY <1>1, <1>2
  <2>2. SubSeq(ext, 1, i - 1) = SubSeq(chain, 1, i - 1)
    <3> DEFINE t == SubSeq(ext, 1, i - 1)
               u == SubSeq(chain, 1, i - 1)
    <3>1. i - 1 \in Nat
      BY <1>1
    <3>2. t \in Seq(Component) /\ Len(t) = i - 1 /\ \A k \in 1..(i - 1) : t[k] = ext[k]
      BY <2>1, <3>1, SubSeqProperties
    <3>3. u \in Seq(Component) /\ Len(u) = i - 1 /\ \A k \in 1..(i - 1) : u[k] = chain[k]
      BY <2>1, <3>1, SubSeqProperties
    <3> HIDE DEF t, u
    <3>4. \A k \in 1..Len(t) : t[k] = u[k]
      BY <2>1, <3>2, <3>3
    <3>5. t = u
      BY <3>2, <3>3, <3>4, SeqEqual
    <3> QED BY <3>5 DEF t, u
  <2>3. CASE i \in 1..n
    <3>1. /\ chain[i] = Behind(value, SubSeq(chain, 1, i - 1)).ref
          /\ chain[i] \notin ToSet(refs) \cup ToSet(SubSeq(chain, 1, i - 1))
      BY <1>1, <2>3 DEF Chains
    <3> QED BY <1>2, <2>2, <2>3, <3>1
  <2>4. CASE i = n + 1
    <3>1. SubSeq(chain, 1, i - 1) = chain
      <4>1. i - 1 = n
        BY <1>1, <2>4
      <4> QED BY <1>1, <4>1, SubSeqFull
    <3> QED BY <1>2, <2>2, <2>4, <3>1
  <2> QED BY <1>1, <2>3, <2>4
<1>7. ext \in Chains(value, refs)
  BY <1>3, <1>5, <1>6 DEF Chains
<1> QED BY <1>1, <1>2, <1>7

(* So what a value is followed to is a component of the chain, or itself, and refers to    *)
(* none that was not followed.                                                             *)
FollowsTo(value, refs, f, chain) ==
  /\ chain \in Seq(Component) /\ f.refs = refs \o chain /\ f.value \in Schemas
  /\ f.value.ref \in Component => f.value.ref \in ToSet(refs) \cup ToSet(chain)
  /\ chain = <<>> => f.value = value
  /\ chain # <<>> => /\ value.ref = chain[1] /\ f.value = components[chain[Len(chain)]]
                     /\ \A i \in 1..Len(chain) : i # Len(chain) =>
                          i + 1 \in 1..Len(chain) /\ components[chain[i]].ref = chain[i + 1]

(* Such is what every value is followed to. *)
LEMMA FollowedLeads ==
  ASSUME components \in [Component -> Schemas], NEW value \in Schemas,
         NEW refs \in Seq(Component), IsInjective(refs)
  PROVE  \E chain : FollowsTo(value, refs, Followed(value, refs), chain)
<1> DEFINE C == Chains(value, refs)
           chain == CHOOSE c \in C : \A d \in C : Len(d) <= Len(c)
           f == Followed(value, refs)
<1>1. chain \in C /\ \A d \in C : Len(d) <= Len(chain)
  BY LongestChain
<1>2. chain \in Seq(Component)
  BY <1>1, ChainsAre DEF Chain
<1>3. f = [value |-> Behind(value, chain), refs |-> refs \o chain]
  BY DEF Followed
<1>4. f.value \in Schemas
  BY FollowedIs
<1> HIDE DEF chain, C, f
<1>5. f.value = Behind(value, chain) /\ f.refs = refs \o chain
  BY <1>3
<1>6. f.value.ref \in Component => f.value.ref \in ToSet(refs) \cup ToSet(chain)
  BY <1>1, <1>5, ChainGoesOn DEF C
<1>7. chain = <<>> => f.value = value
  BY <1>5 DEF Behind
<1>8. ASSUME chain # <<>>
      PROVE  /\ value.ref = chain[1] /\ f.value = components[chain[Len(chain)]]
             /\ \A i \in 1..Len(chain) : i # Len(chain) =>
                  i + 1 \in 1..Len(chain) /\ components[chain[i]].ref = chain[i + 1]
  <2>1. Len(chain) \in Nat /\ 1 \in 1..Len(chain)
    BY <1>2, <1>8
  <2>2. value.ref = chain[1]
    BY <1>1, <2>1, ChainsLead DEF C
  <2>3. f.value = components[chain[Len(chain)]]
    BY <1>5, <1>8 DEF Behind, Last
  <2>4. ASSUME NEW i \in 1..Len(chain), i # Len(chain)
        PROVE  i + 1 \in 1..Len(chain) /\ components[chain[i]].ref = chain[i + 1]
    <3>1. i + 1 \in 1..Len(chain) /\ i + 1 # 1 /\ (i + 1) - 1 = i
      BY <2>1, <2>4
    <3>2. chain[i + 1] = components[chain[(i + 1) - 1]].ref
      BY <1>1, <3>1, ChainsLead DEF C
    <3> QED BY <3>1, <3>2
  <2> QED BY <2>2, <2>3, <2>4
<1> QED BY <1>2, <1>4, <1>5, <1>6, <1>7, <1>8 DEF FollowsTo, f

(* What is still to be read, before and after the first of it is replaced. *)
LEMMA ThenHas ==
  ASSUME WorkInv, work # <<>>, NEW items \in Seq(Item), Then(items)
  PROVE  \E R : ToSet(work) = {Head(work)} \cup R /\ ToSet(work') = ToSet(items) \cup R /\ R \in SUBSET ToSet(work)
<1> DEFINE t == Tail(work)
           n == Len(items)
<1>1. /\ work \in Seq(Item) /\ t \in Seq(Item) /\ Len(t) \in Nat /\ Head(work) = work[1]
      /\ Len(work) = Len(t) + 1 /\ \A i \in 1..Len(t) : t[i] = work[i + 1]
  BY DEF WorkInv
<1>2. work' = items \o t
  BY DEF Then
<1> HIDE DEF t
<1>3. /\ n \in Nat /\ work' \in Seq(Item) /\ Len(work') = n + Len(t)
      /\ \A i \in 1..(n + Len(t)) : work'[i] = IF i <= n THEN items[i] ELSE t[i - n]
  BY <1>1, <1>2
<1>4. /\ DOMAIN work = 1..Len(work) /\ DOMAIN t = 1..Len(t) /\ DOMAIN work' = 1..Len(work')
      /\ DOMAIN items = 1..n
  BY <1>1, <1>3
<1> HIDE DEF n
<1> DEFINE R == ToSet(t)
<1>5. ToSet(work) = {Head(work)} \cup R
  <2>1. \A i \in 1..Len(work) : i = 1 \/ (i - 1 \in 1..Len(t) /\ work[i] = t[i - 1])
    BY <1>1
  <2>2. \A i \in 1..Len(t) : i + 1 \in 1..Len(work) /\ t[i] = work[i + 1]
    BY <1>1
  <2>3. 1 \in 1..Len(work)
    BY <1>1
  <2>4. ASSUME NEW x \in ToSet(work) PROVE x \in {Head(work)} \cup R
    <3>1. PICK i \in 1..Len(work) : x = work[i]
      BY <1>4, <2>4, Zenon DEF ToSet
    <3>2. CASE i = 1
      BY <1>1, <3>1, <3>2
    <3>3. CASE i - 1 \in 1..Len(t) /\ work[i] = t[i - 1]
      <4>1. t[i - 1] \in ToSet(t)
        BY <1>4, <3>3, Zenon DEF ToSet
      <4> QED BY <3>1, <3>3, <4>1
    <3> QED BY <2>1, <3>2, <3>3
  <2>5. ASSUME NEW x \in {Head(work)} \cup R PROVE x \in ToSet(work)
    BY <1>1, <1>4, <2>2, <2>3 DEF ToSet
  <2> QED BY <2>4, <2>5
<1>6. ToSet(work') = ToSet(items) \cup R
  <2>1. \A i \in 1..Len(work') : \/ i \in 1..n /\ work'[i] = items[i]
                                 \/ i - n \in 1..Len(t) /\ work'[i] = t[i - n]
    BY <1>1, <1>3
  <2>2. \A i \in 1..n : i \in 1..Len(work') /\ work'[i] = items[i]
    BY <1>1, <1>3
  <2>3. \A i \in 1..Len(t) : n + i \in 1..Len(work') /\ work'[n + i] = t[i]
    BY <1>1, <1>3
  <2>4. ASSUME NEW x \in ToSet(work') PROVE x \in ToSet(items) \cup R
    BY <1>4, <2>1, <2>4 DEF ToSet
  <2>5. ASSUME NEW x \in ToSet(items) \cup R PROVE x \in ToSet(work')
    BY <1>4, <2>2, <2>3, <2>5 DEF ToSet
  <2> QED BY <2>4, <2>5
<1> QED BY <1>5, <1>6

(* A sequence after another has what both have. *)
LEMMA BothHave ==
  ASSUME NEW S, NEW s \in Seq(S), NEW t \in Seq(S)
  PROVE  ToSet(s \o t) = ToSet(s) \cup ToSet(t)
<1> DEFINE u == s \o t
           n == Len(s)
<1>1. /\ u \in Seq(S) /\ Len(u) = n + Len(t) /\ n \in Nat /\ Len(t) \in Nat
      /\ \A i \in 1..(n + Len(t)) : u[i] = IF i <= n THEN s[i] ELSE t[i - n]
  OBVIOUS
<1> HIDE DEF u
<1>2. DOMAIN u = 1..Len(u) /\ DOMAIN s = 1..n /\ DOMAIN t = 1..Len(t)
  BY <1>1
<1> HIDE DEF n
<1>3. \A i \in 1..Len(u) : \/ i \in 1..n /\ u[i] = s[i]
                           \/ i - n \in 1..Len(t) /\ u[i] = t[i - n]
  BY <1>1
<1>4. \A i \in 1..n : i \in 1..Len(u) /\ u[i] = s[i]
  BY <1>1
<1>5. \A i \in 1..Len(t) : n + i \in 1..Len(u) /\ u[n + i] = t[i]
  BY <1>1
<1>6. ASSUME NEW x \in ToSet(u) PROVE x \in ToSet(s) \cup ToSet(t)
  <2>1. PICK i \in 1..Len(u) : x = u[i]
    BY <1>2, <1>6, Zenon DEF ToSet
  <2>2. CASE i \in 1..n /\ u[i] = s[i]
    BY <1>2, <2>1, <2>2 DEF ToSet
  <2>3. CASE i - n \in 1..Len(t) /\ u[i] = t[i - n]
    <3>1. t[i - n] \in ToSet(t)
      BY <1>2, <2>3, Zenon DEF ToSet
    <3> QED BY <2>1, <2>3, <3>1
  <2> QED BY <1>3, <2>2, <2>3
<1>7. ASSUME NEW x \in ToSet(s) \cup ToSet(t) PROVE x \in ToSet(u)
  BY <1>2, <1>4, <1>5, <1>7 DEF ToSet
<1>8. ToSet(u) = ToSet(s) \cup ToSet(t)
  BY <1>6, <1>7
<1> QED BY <1>8 DEF u

(* What is read is a schema, in the component that it belongs to or in none: a site.  Of those *)
(* that a body leads to, some were read, with their properties among the fields or still to *)
(* be read; what any of them leads to was read as well, or is still to be read.           *)
Of(c) == <<c, components[c]>>
LeadsTo(x) == IF x[2].ref \in Component THEN {Of(x[2].ref)} ELSE {<<x[1], s>> : s \in Inside(x[2])}
Pending == {<<Holder(w.refs), w.schema>> : w \in ToSet(work)}

FieldsTold(x, within, path) ==
  \A i \in 1..Len(x[2].properties) :
    \/ \E g \in ToSet(fieldsRead) : g.path = Append(path, i) /\ g.within = within
    \/ \E w \in ToSet(work) : w.what = "property" /\ w.path = Append(path, i) /\ w.refs = within

HasFields(x) ==
  x[2].properties # <<>> =>
    \E within \in Seq(Component), path \in Seq(Nat) : Holder(within) = x[1] /\ FieldsTold(x, within, path)

Covers(V) ==
  /\ \A w \in ToSet(work) : \A c \in ToSet(w.refs) : Of(c) \in V
  /\ <<NoRef, root>> \in V \cup Pending
  /\ \A x \in V : LeadsTo(x) \subseteq V \cup Pending
  /\ \A x \in V : HasFields(x)

CoverInv == (describePc = "reading" => root \in Schemas /\ \E V : Covers(V)) /\ FieldsOfAll

(* A schema has no more than its $ref where it has one. *)
LEMMA RefAlone ==
  ASSUME NEW s \in Schemas, s.ref \in Component
  PROVE  s.properties = <<>> /\ s.items = <<>> /\ Inside(s) = {}
<1>1. s.items = <<>> /\ s.properties = <<>>
  BY SchemaAssumption
<1>2. ToSet(<<>>) = {}
  BY DEF ToSet
<1> QED BY <1>1, <1>2 DEF Inside

(* All that is inside of a schema is still to be read after it. *)
LEMMA ItemsAre ==
  ASSUME NEW s, NEW f, f.value \in Schemas, NEW items \in Seq(Item), ReadAs(items, s, f),
         NEW u \in Inside(f.value)
  PROVE  \E w \in ToSet(items) : w.schema = u /\ w.refs = f.refs
<1> DEFINE v == f.value
<1>1. v.items \in Seq(Schemas) /\ v.properties \in Seq(Schemas) /\ Len(v.items) <= 1
      /\ (v.items # <<>> => v.properties = <<>>)
  BY SchemaAssumption
<1>2. \A i \in 1..Len(items) : items[i] \in ToSet(items) /\ items[i].refs = f.refs
  <2>1. DOMAIN items = 1..Len(items)
    OBVIOUS
  <2>2. \A i \in 1..Len(items) : items[i].refs = f.refs
    BY DEF ReadAs
  <2> QED BY <2>1, <2>2, Zenon DEF ToSet
<1>3. u \in ToSet(v.items) \/ u \in ToSet(v.properties)
  BY DEF Inside
<1> HIDE DEF v
<1>4. (\E i \in 1..Len(v.items) : u = v.items[i]) \/ \E i \in 1..Len(v.properties) : u = v.properties[i]
  <2>1. DOMAIN v.items = 1..Len(v.items) /\ DOMAIN v.properties = 1..Len(v.properties)
    BY <1>1
  <2> QED BY <1>3, <2>1 DEF ToSet
<1>5. CASE v.items # <<>>
  <2>1. Len(items) = 1 /\ items[1].schema = v.items[1] /\ 1 \in 1..Len(items)
    BY <1>5 DEF ReadAs, v
  <2>2. Len(v.properties) = 0
    BY <1>1, <1>5
  <2>3. PICK i \in 1..Len(v.items) : u = v.items[i]
    BY <1>4, <2>2
  <2>4. i = 1
    BY <1>1
  <2> QED BY <1>2, <2>1, <2>3, <2>4
<1>6. CASE v.items = <<>>
  <2>1. Len(items) = Len(v.properties) /\ \A i \in 1..Len(items) : items[i].schema = v.properties[i]
    BY <1>6 DEF ReadAs, v
  <2>2. Len(v.items) = 0
    BY <1>6
  <2>3. PICK i \in 1..Len(v.properties) : u = v.properties[i]
    BY <1>4, <2>2
  <2> QED BY <1>2, <2>1, <2>3
<1> QED BY <1>5, <1>6

(* A body is all that is still to be read at first. *)
LEMMA CoverBegins == Init => CoverInv
<1> SUFFICES ASSUME DescribeInit PROVE CoverInv
  BY DEF Init, DocsInit
<1> DEFINE first == [what |-> "schema", path |-> <<>>, schema |-> root, refs |-> <<>>]
<1>1. work = <<first>>
  BY DEF DescribeInit
<1>2. ToSet(work) = {first}
  BY <1>1 DEF ToSet
<1>3. first.schema = root /\ first.refs = <<>>
  OBVIOUS
<1>4. ToSet(<<>>) = {}
  BY DEF ToSet
<1> HIDE DEF first
<1>5. Pending = {<<NoRef, root>>}
  BY <1>2, <1>3 DEF Pending, Holder
<1>6. Covers({})
  BY <1>2, <1>3, <1>4, <1>5 DEF Covers
<1>7. FieldsOfAll
  BY DEF DescribeInit, FieldsOfAll
<1> QED BY <1>6, <1>7 DEF CoverInv, DescribeInit

(* The fields of a schema stay told while what is read of it becomes one. *)
LEMMA ToldStays ==
  ASSUME NEW x, HasFields(x),
         \A g \in ToSet(fieldsRead) : g \in ToSet(fieldsRead'),
         \A w \in ToSet(work) : w.what = "property" =>
           \/ w \in ToSet(work')
           \/ \E g \in ToSet(fieldsRead') : g.path = w.path /\ g.within = w.refs
  PROVE  HasFields(x)'
<1> SUFFICES ASSUME x[2].properties # <<>>
             PROVE  \E within \in Seq(Component), path \in Seq(Nat) :
                      Holder(within) = x[1] /\ FieldsTold(x, within, path)'
  BY DEF HasFields
<1>1. PICK within \in Seq(Component), path \in Seq(Nat) : Holder(within) = x[1] /\ FieldsTold(x, within, path)
  BY DEF HasFields
<1>2. ASSUME NEW i \in 1..Len(x[2].properties)
      PROVE  \/ \E g \in ToSet(fieldsRead') : g.path = Append(path, i) /\ g.within = within
             \/ \E w \in ToSet(work') : w.what = "property" /\ w.path = Append(path, i) /\ w.refs = within
  <2>1. CASE \E g \in ToSet(fieldsRead) : g.path = Append(path, i) /\ g.within = within
    BY <2>1
  <2>2. CASE \E w \in ToSet(work) : w.what = "property" /\ w.path = Append(path, i) /\ w.refs = within
    BY <2>2
  <2> QED BY <1>1, <2>1, <2>2 DEF FieldsTold
<1>3. FieldsTold(x, within, path)'
  BY <1>2 DEF FieldsTold, ToSet
<1> QED BY <1>1, <1>3

(* What is covered stays so, whatever takes the place of the first that is to be read.    *)
LEMMA CoverStays ==
  ASSUME NEW V, Covers(V), NEW W, V \subseteq W, root' = root, components' = components,
         \A w \in ToSet(work') : \A c \in ToSet(w.refs) : Of(c) \in W,
         Pending \subseteq W \cup Pending',
         \A x \in W \ V : LeadsTo(x) \subseteq W \cup Pending',
         \A x \in W : HasFields(x)'
  PROVE  Covers(W)'
<1>1. \A c : Of(c)' = Of(c)
  BY DEF Of
<1>2. \A x : LeadsTo(x)' = LeadsTo(x)
  BY <1>1 DEF LeadsTo
<1>3. (\A w \in ToSet(work) : \A c \in ToSet(w.refs) : Of(c) \in W)'
  BY <1>1 DEF ToSet
<1>4. <<NoRef, root'>> \in W \cup Pending'
  BY DEF Covers
<1>5. \A x \in W : LeadsTo(x) \subseteq W \cup Pending'
  BY DEF Covers
<1>6. (\A x \in W : LeadsTo(x) \subseteq W \cup Pending)'
  BY <1>2, <1>5
<1>7. (\A x \in W : HasFields(x))'
  OBVIOUS
<1> QED BY <1>3, <1>4, <1>6, <1>7 DEF Covers

(* Each schema that a $ref is followed through leads to the next of its chain, and has no *)
(* property of its own.                                                                   *)
LEMMA ChainSites ==
  ASSUME components \in [Component -> Schemas], NEW value \in Schemas, NEW refs \in Seq(Component),
         NEW f, NEW chain, FollowsTo(value, refs, f, chain),
         NEW x \in {<<Holder(refs), value>>} \cup {Of(c) : c \in ToSet(chain)}
  PROVE  \/ x = <<Holder(f.refs), f.value>>
         \/ LeadsTo(x) \subseteq {Of(c) : c \in ToSet(chain)} /\ x[2].properties = <<>>
<1>1. chain \in Seq(Component) /\ DOMAIN chain = 1..Len(chain) /\ Len(chain) \in Nat /\ f.refs = refs \o chain
  BY DEF FollowsTo
<1>2. \A i \in 1..Len(chain) : chain[i] \in ToSet(chain) /\ chain[i] \in Component
  BY <1>1 DEF ToSet
<1>3. ASSUME x[2] \in Schemas, NEW i \in 1..Len(chain), x[2].ref = chain[i]
      PROVE  LeadsTo(x) \subseteq {Of(c) : c \in ToSet(chain)} /\ x[2].properties = <<>>
  <2>1. x[2].ref \in Component /\ chain[i] \in ToSet(chain)
    BY <1>2, <1>3
  <2>2. LeadsTo(x) = {Of(chain[i])}
    BY <1>3, <2>1 DEF LeadsTo
  <2> QED BY <1>3, <2>1, <2>2, RefAlone
<1>4. CASE x = <<Holder(refs), value>>
  <2>1. CASE chain = <<>>
    <3>1. f.refs = refs /\ f.value = value
      BY <1>1, <2>1 DEF FollowsTo
    <3> QED BY <1>4, <3>1
  <2>2. CASE chain # <<>>
    <3>1. 1 \in 1..Len(chain)
      BY <1>1, <2>2
    <3>2. value.ref = chain[1] /\ x[2] = value
      BY <1>4, <2>2, <3>1 DEF FollowsTo
    <3> QED BY <1>3, <3>1, <3>2
  <2> QED BY <2>1, <2>2
<1>5. ASSUME NEW c \in ToSet(chain), x = Of(c)
      PROVE  \/ x = <<Holder(f.refs), f.value>>
             \/ LeadsTo(x) \subseteq {Of(d) : d \in ToSet(chain)} /\ x[2].properties = <<>>
  <2>1. PICK i \in 1..Len(chain) : c = chain[i]
    BY <1>1, <1>5, Zenon DEF ToSet
  <2>2. chain # <<>>
    BY <1>1, <2>1
  <2>3. CASE i = Len(chain)
    <3>1. f.value = components[c]
      BY <2>1, <2>2, <2>3 DEF FollowsTo
    <3>2. f.refs # <<>> /\ Last(f.refs) = c
      <4>1. /\ f.refs \in Seq(Component) /\ Len(f.refs) = Len(refs) + Len(chain) /\ Len(refs) \in Nat
            /\ Len(chain) \in Nat \ {0}
            /\ \A k \in 1..(Len(refs) + Len(chain)) :
                 f.refs[k] = IF k <= Len(refs) THEN refs[k] ELSE chain[k - Len(refs)]
        BY <1>1, <2>2
      <4>2. f.refs[Len(f.refs)] = chain[Len(chain)]
        BY <4>1
      <4> QED BY <2>1, <2>3, <4>1, <4>2 DEF Last
    <3> QED BY <1>5, <3>1, <3>2 DEF Of, Holder
  <2>4. CASE i # Len(chain)
    <3>1. i + 1 \in 1..Len(chain) /\ components[c].ref = chain[i + 1]
      BY <2>1, <2>2, <2>4 DEF FollowsTo
    <3>2. x[2] = components[c] /\ x[2] \in Schemas
      BY <1>2, <1>5, <2>1 DEF Of
    <3> QED BY <1>3, <3>1, <3>2
  <2> QED BY <2>3, <2>4
<1> QED BY <1>4, <1>5

(* A schema that is read covers the components of its chain. *)
LEMMA CoverSchema ==
  ASSUME WorkInv, CoverInv, ReadSchema
  PROVE  CoverInv'
<1>1. Reading("schema") /\ UNCHANGED <<describePc, components, root, fieldsRead>>
  BY DEF ReadSchema, describedVars
<1> DEFINE s == Head(work)
           f == Followed(s.schema, s.refs)
<1>2. /\ describePc = "reading" /\ work # <<>> /\ components \in [Component -> Schemas]
      /\ s \in Item /\ s.schema \in Schemas /\ IsInjective(s.refs) /\ s.what = "schema"
  BY <1>1, HeadReads DEF Reading
<1>3. s.refs \in Seq(Component) /\ s.path \in Seq(Nat)
  BY <1>2 DEF Item
<1>4. PICK items : ReadsInto(items) /\ ReadAs(items, s, f)
  BY SchemaReads
<1>5. PICK chain : FollowsTo(s.schema, s.refs, f, chain)
  BY <1>2, <1>3, FollowedLeads
<1> HIDE DEF f, s
<1>6. items \in Seq(Item) /\ Then(items) /\ \A i \in 1..Len(items) : items[i].schema \in Schemas
  BY <1>4 DEF ReadsInto
<1>7. PICK R : ToSet(work) = {s} \cup R /\ ToSet(work') = ToSet(items) \cup R /\ R \in SUBSET ToSet(work)
  BY <1>2, <1>6, ThenHas DEF s
<1>8. PICK V : Covers(V)
  BY <1>2 DEF CoverInv
<1>24. PICK first, links, end :
          first = <<Holder(s.refs), s.schema>> /\ links = {Of(c) : c \in ToSet(chain)} /\ end = <<Holder(f.refs), f.value>>
  OBVIOUS
<1> DEFINE W == V \cup {first} \cup links
<1>9. chain \in Seq(Component) /\ f.refs = s.refs \o chain /\ f.value \in Schemas
  BY <1>5 DEF FollowsTo
<1>10. ToSet(f.refs) = ToSet(s.refs) \cup ToSet(chain)
  BY <1>3, <1>9, BothHave
<1>11. \A c \in ToSet(s.refs) \cup ToSet(chain) : Of(c) \in W
  BY <1>7, <1>8, <1>24 DEF Covers
<1>12. \A w \in ToSet(items) : w.refs = f.refs
  <2>1. DOMAIN items = 1..Len(items)
    BY <1>6
  <2>2. \A i \in 1..Len(items) : items[i].refs = f.refs
    BY <1>4 DEF ReadAs
  <2> QED BY <2>1, <2>2 DEF ToSet
<1>13. \A w \in ToSet(work') : \A c \in ToSet(w.refs) : Of(c) \in W
  BY <1>7, <1>8, <1>10, <1>11, <1>12 DEF Covers
<1>14. Pending' = {<<Holder(w.refs), w.schema>> : w \in ToSet(work')}
  BY DEF Pending, ToSet
<1>15. Pending \subseteq W \cup Pending'
  <2>1. \A w \in ToSet(work) : w = s \/ w \in ToSet(work')
    BY <1>7
  <2> QED BY <1>14, <1>24, <2>1 DEF Pending
<1>16. LeadsTo(end) \subseteq W \cup Pending'
  <2>1. end[1] = Holder(f.refs) /\ end[2] = f.value
    BY <1>24
  <2> HIDE DEF W
  <2>2. CASE f.value.ref \in Component
    <3>1. LeadsTo(end) = {Of(f.value.ref)}
      BY <2>1, <2>2 DEF LeadsTo
    <3>2. f.value.ref \in ToSet(s.refs) \cup ToSet(chain)
      BY <1>5, <2>2 DEF FollowsTo
    <3> QED BY <1>11, <3>1, <3>2
  <2>3. CASE f.value.ref \notin Component
    <3>1. LeadsTo(end) = {<<Holder(f.refs), u>> : u \in Inside(f.value)}
      BY <2>1, <2>3 DEF LeadsTo
    <3>2. ASSUME NEW u \in Inside(f.value) PROVE <<Holder(f.refs), u>> \in Pending'
      <4>1. PICK w \in ToSet(items) : w.schema = u /\ w.refs = f.refs
        <5>1. ReadAs(items, s, f) /\ f.value \in Schemas /\ items \in Seq(Item) /\ u \in Inside(f.value)
          BY <1>4, <1>6, <1>9, <3>2
        <5> QED BY <5>1, ItemsAre, Zenon
      <4>2. w \in ToSet(work')
        BY <1>7
      <4> QED BY <1>14, <4>1, <4>2
    <3> QED BY <3>1, <3>2
  <2> QED BY <2>2, <2>3
<1>17. \A x \in {first} \cup links : x = end \/ (LeadsTo(x) \subseteq links /\ x[2].properties = <<>>)
  BY <1>2, <1>3, <1>5, <1>24, ChainSites
<1>18. \A x \in W \ V : LeadsTo(x) \subseteq W \cup Pending'
  <2>1. links \subseteq W /\ \A x \in W \ V : x \in {first} \cup links
    OBVIOUS
  <2> HIDE DEF W
  <2> QED BY <1>16, <1>17, <2>1
<1>19. ASSUME NEW x \in V PROVE HasFields(x)'
  <2>1. HasFields(x)
    BY <1>8 DEF Covers
  <2>2. \A w \in ToSet(work) : w.what = "property" => w \in ToSet(work')
    BY <1>2, <1>7
  <2>3. \A g \in ToSet(fieldsRead) : g \in ToSet(fieldsRead')
    BY <1>1 DEF ToSet
  <2> QED BY <2>1, <2>2, <2>3, ToldStays
<1>20. HasFields(end)'
  <2>1. end[1] = Holder(f.refs) /\ end[2] = f.value
    BY <1>24
  <2> HIDE DEF W
  <2> SUFFICES ASSUME f.value.properties # <<>>
               PROVE  \E within \in Seq(Component), path \in Seq(Nat) :
                        Holder(within) = end[1] /\ FieldsTold(end, within, path)'
    BY <2>1 DEF HasFields, Holder
  <2>2. f.refs \in Seq(Component)
    BY <1>3, <1>9
  <2>3. f.value.items = <<>>
    BY <1>9, SchemaAssumption
  <2>4. /\ Len(items) = Len(f.value.properties)
        /\ \A i \in 1..Len(items) : items[i].what = "property" /\ items[i].path = Append(s.path, i)
    BY <1>4, <2>3 DEF ReadAs
  <2>5. \A i \in 1..Len(items) : items[i] \in ToSet(items)
    <3>1. DOMAIN items = 1..Len(items)
      BY <1>6
    <3> QED BY <3>1, Zenon DEF ToSet
  <2>6. \A i \in 1..Len(f.value.properties) :
          \E w \in ToSet(work') : w.what = "property" /\ w.path = Append(s.path, i) /\ w.refs = f.refs
    <3> SUFFICES ASSUME NEW i \in 1..Len(items)
                 PROVE  \E w \in ToSet(work') : w.what = "property" /\ w.path = Append(s.path, i) /\ w.refs = f.refs
      BY <2>4
    <3>1. items[i] \in ToSet(work') /\ items[i].refs = f.refs
      BY <1>7, <1>12, <2>5
    <3> QED BY <2>4, <3>1
  <2>7. PICK r \in Seq(Component), q \in Seq(Nat) : r = f.refs /\ q = s.path
    BY <1>3, <2>2
  <2>8. \A i \in 1..Len(end[2].properties) :
          \E w \in ToSet(work') : w.what = "property" /\ w.path = Append(q, i) /\ w.refs = r
    BY <2>1, <2>6, <2>7
  <2>9. FieldsTold(end, r, q)'
    BY <2>8 DEF FieldsTold, ToSet
  <2> QED BY <2>1, <2>7, <2>9
<1>21. \A x \in W : HasFields(x)'
  <2>1. ASSUME NEW x \in {first} \cup links PROVE HasFields(x)'
    <3>1. CASE x = end
      BY <1>20, <3>1
    <3>2. CASE x[2].properties = <<>>
      BY <3>2 DEF HasFields
    <3> QED BY <1>17, <2>1, <3>1, <3>2
  <2> QED BY <1>19, <2>1
<1>22. Covers(W)'
  <2>1. V \subseteq W
    OBVIOUS
  <2> HIDE DEF W
  <2> QED BY <1>1, <1>8, <1>13, <1>15, <1>18, <1>21, <2>1, CoverStays
<1>23. FieldsOfAll'
  BY <1>1, <1>2 DEF FieldsOfAll
<1> QED BY <1>1, <1>2, <1>22, <1>23 DEF CoverInv

(* A property that is read covers no more than before. *)
LEMMA CoverProperty ==
  ASSUME WorkInv, FieldInv, CoverInv, ReadProperty
  PROVE  CoverInv'
<1>1. Reading("property") /\ UNCHANGED <<describePc, components, root>>
  BY DEF ReadProperty, describedVars
<1> DEFINE p == Head(work)
<1>2. describePc = "reading" /\ work # <<>> /\ p \in Item
  BY <1>1, HeadReads
<1>3. PICK q : /\ ReadsInto(<<q>>) /\ q.what = "schema" /\ q.path = p.path
               /\ q.schema = p.schema /\ q.refs = p.refs
  BY PropertyReads
<1>4. PICK g : fieldsRead' = Append(fieldsRead, g) /\ g.path = p.path /\ g.within = p.refs
  <2> DEFINE followed == Followed(p.schema, p.refs).value
             h == [path |-> p.path, within |-> p.refs, type |-> TypeName(p.schema, followed),
                   items |-> IF followed.items = <<>> THEN NoRef ELSE TypeIn(followed.items[1], p.refs)]
  <2>1. fieldsRead' = Append(fieldsRead, h)
    BY DEF ReadProperty
  <2>2. h.path = p.path /\ h.within = p.refs
    OBVIOUS
  <2> QED BY <2>1, <2>2
<1> HIDE DEF p
<1>5. PICK S : fieldsRead \in Seq(S)
  BY DEF FieldInv
<1>6. (\A h \in ToSet(fieldsRead) : h \in ToSet(fieldsRead')) /\ g \in ToSet(fieldsRead')
  <2> DEFINE n == Len(fieldsRead)
  <2>1. /\ n \in Nat /\ fieldsRead' \in Seq(S \cup {g}) /\ Len(fieldsRead') = n + 1 /\ fieldsRead'[n + 1] = g
        /\ \A i \in 1..n : fieldsRead'[i] = fieldsRead[i]
    BY <1>4, <1>5
  <2>2. DOMAIN fieldsRead = 1..n /\ DOMAIN fieldsRead' = 1..(n + 1)
    BY <1>5, <2>1
  <2> HIDE DEF n
  <2>3. (\A i \in 1..n : i \in 1..(n + 1)) /\ n + 1 \in 1..(n + 1)
    BY <2>1
  <2> QED BY <2>1, <2>2, <2>3 DEF ToSet
<1>7. <<q>> \in Seq(Item) /\ Then(<<q>>)
  BY <1>3 DEF ReadsInto
<1>8. ToSet(<<q>>) = {q}
  BY DEF ToSet
<1>9. PICK R : ToSet(work) = {p} \cup R /\ ToSet(work') = {q} \cup R /\ R \in SUBSET ToSet(work)
  BY <1>2, <1>7, <1>8, ThenHas DEF p
<1>10. PICK V : Covers(V)
  BY <1>2 DEF CoverInv
<1>11. \A w \in ToSet(work') : \A c \in ToSet(w.refs) : Of(c) \in V
  BY <1>3, <1>9, <1>10 DEF Covers
<1>12. Pending \subseteq V \cup Pending'
  <2>1. Pending' = {<<Holder(w.refs), w.schema>> : w \in ToSet(work')}
    BY DEF Pending, ToSet
  <2>2. \A w \in ToSet(work) : \E u \in ToSet(work') : u.refs = w.refs /\ u.schema = w.schema
    BY <1>3, <1>9
  <2> QED BY <2>1, <2>2 DEF Pending
<1>13. ASSUME NEW x \in V PROVE HasFields(x)'
  <2>1. HasFields(x)
    BY <1>10 DEF Covers
  <2>2. \A w \in ToSet(work) : w.what = "property" =>
          w \in ToSet(work') \/ \E h \in ToSet(fieldsRead') : h.path = w.path /\ h.within = w.refs
    BY <1>4, <1>6, <1>9
  <2> QED BY <1>6, <2>1, <2>2, ToldStays
<1>14. Covers(V)'
  BY <1>1, <1>10, <1>11, <1>12, <1>13, CoverStays
<1>15. FieldsOfAll'
  BY <1>1, <1>2 DEF FieldsOfAll
<1> QED BY <1>1, <1>2, <1>14, <1>15 DEF CoverInv

(* What leads on only to what is read as well was read with all that is inside of it. *)
LEMMA InlineCovered ==
  ASSUME NEW V, \A x \in V : LeadsTo(x) \subseteq V, NEW c, NEW s \in Schemas, <<c, s>> \in V,
         NEW t \in InlineOf[s]
  PROVE  t \in Schemas /\ <<c, t>> \in V
<1> DEFINE X == {u \in Schemas : <<c, u>> \in V}
<1>1. ASSUME NEW u \in X PROVE Inside(u) \subseteq X
  <2>1. u \in Schemas /\ <<c, u>> \in V
    BY <1>1
  <2>2. CASE u.ref \in Component
    BY <2>1, <2>2, RefAlone
  <2>3. CASE u.ref \notin Component
    <3> DEFINE x == <<c, u>>
    <3>1. x[1] = c /\ x[2] = u /\ x \in V
      BY <2>1
    <3> HIDE DEF x
    <3>2. LeadsTo(x) = {<<c, w>> : w \in Inside(u)} /\ LeadsTo(x) \subseteq V
      BY <2>3, <3>1 DEF LeadsTo
    <3>3. Inside(u) \subseteq Schemas
      BY <2>1, SchemaAssumption DEF Inside, ToSet
    <3> QED BY <3>2, <3>3
  <2> QED BY <2>2, <2>3
<1>2. X \in ClosedInside /\ s \in X
  BY <1>1 DEF ClosedInside
<1>3. t \in Schemas /\ t \in X
  BY <1>2 DEF InlineOf
<1> QED BY <1>3

(* With nothing left to read, the properties of what was read are among the fields. *)
LEMMA ToldAll ==
  ASSUME work = <<>>, NEW c, NEW s \in Schemas, HasFields(<<c, s>>)
  PROVE  PropertiesTold(s, c)
<1> SUFFICES ASSUME s.properties # <<>>
             PROVE  \E f \in ToSet(fieldsRead) :
                      /\ Holder(f.within) = c
                      /\ \A i \in DOMAIN s.properties :
                           \E g \in ToSet(fieldsRead) : g.path = Append(Front(f.path), i) /\ g.within = f.within
  BY DEF PropertiesTold
<1>1. ToSet(work) = {}
  BY DEF ToSet
<1>2. PICK within \in Seq(Component), path \in Seq(Nat) : Holder(within) = c /\ FieldsTold(<<c, s>>, within, path)
  BY DEF HasFields
<1>3. \A i \in 1..Len(s.properties) : \E g \in ToSet(fieldsRead) : g.path = Append(path, i) /\ g.within = within
  BY <1>1, <1>2 DEF FieldsTold
<1>4. s.properties \in Seq(Schemas)
  BY SchemaAssumption
<1>5. 1 \in 1..Len(s.properties) /\ DOMAIN s.properties = 1..Len(s.properties)
  BY <1>4
<1>6. PICK f \in ToSet(fieldsRead) : f.path = Append(path, 1) /\ f.within = within
  BY <1>3, <1>5
<1>7. Front(Append(path, 1)) = path
  <2> DEFINE a == Append(path, 1)
             b == SubSeq(a, 1, Len(a) - 1)
  <2>1. a \in Seq(Nat) /\ Len(a) = Len(path) + 1 /\ Len(path) \in Nat /\ \A i \in 1..Len(path) : a[i] = path[i]
    OBVIOUS
  <2> HIDE DEF a
  <2>2. Len(a) - 1 = Len(path) /\ \A i \in 1..Len(path) : a[i] \in Nat
    BY <2>1
  <2>3. b \in Seq(Nat) /\ Len(b) = Len(path) /\ \A i \in 1..Len(path) : b[i] = a[i]
    BY <2>1, <2>2, SubSeqProperties
  <2>4. Front(a) = b
    BY DEF Front
  <2> HIDE DEF b
  <2>5. b = path
    BY <2>1, <2>3, SeqEqual
  <2> QED BY <2>4, <2>5 DEF a
<1>8. Front(f.path) = path
  BY <1>6, <1>7
<1> QED BY <1>2, <1>3, <1>5, <1>6, <1>8

(* So what is covered is all that the body leads to. *)
LEMMA CoverEnds ==
  ASSUME WorkInv, CoverInv, AllRead
  PROVE  CoverInv'
<1>1. describePc = "reading" /\ work = <<>> /\ UNCHANGED <<components, root, fieldsRead>> /\ describePc' = "described"
  BY DEF AllRead, describedVars
<1>2. PICK V : Covers(V)
  BY <1>1 DEF CoverInv
<1>3. Pending = {}
  <2>1. ToSet(work) = {}
    BY <1>1 DEF ToSet
  <2> QED BY <2>1 DEF Pending
<1>4. /\ <<NoRef, root>> \in V /\ \A x \in V : LeadsTo(x) \subseteq V /\ HasFields(x)
      /\ root \in Schemas /\ components \in [Component -> Schemas]
  BY <1>1, <1>2, <1>3 DEF Covers, WorkInv, CoverInv
<1>5. ASSUME NEW c, NEW s \in Schemas, <<c, s>> \in V, NEW r \in SchemaRefs(s)
      PROVE  r \in Component /\ Of(r) \in V
  <2>1. PICK t \in InlineOf[s] : r = t.ref /\ r \in Component
    BY DEF SchemaRefs
  <2> DEFINE x == <<c, t>>
  <2>2. x \in V /\ x[2].ref = r
    BY <1>4, <1>5, <2>1, InlineCovered
  <2> HIDE DEF x
  <2>3. LeadsTo(x) = {Of(r)} /\ LeadsTo(x) \subseteq V
    BY <1>4, <2>1, <2>2 DEF LeadsTo
  <2> QED BY <2>1, <2>3
<1> DEFINE C == {c \in Component : Of(c) \in V}
<1>6. SchemaRefs(root) \subseteq C
  BY <1>4, <1>5
<1>7. \A c \in C : SchemaRefs(components[c]) \subseteq C
  BY <1>4, <1>5 DEF Of
<1>8. Reached \subseteq C
  <2>1. C \in SUBSET Component
    OBVIOUS
  <2> HIDE DEF C
  <2> QED BY <1>6, <1>7, <2>1 DEF Reached
<1>9. ASSUME NEW t \in InlineOf[root] PROVE PropertiesTold(t, NoRef)
  BY <1>1, <1>4, InlineCovered, ToldAll
<1>10. ASSUME NEW c \in Reached, NEW t \in InlineOf[components[c]] PROVE PropertiesTold(t, c)
  <2>1. <<c, components[c]>> \in V /\ components[c] \in Schemas
    BY <1>4, <1>8 DEF Of
  <2>2. t \in Schemas /\ <<c, t>> \in V
    BY <1>4, <2>1, InlineCovered
  <2> QED BY <1>1, <1>4, <2>2, ToldAll
<1>11. FieldsOfAll'
  <2>1. Reached' = Reached
    BY <1>1 DEF Reached
  <2>2. \A s, c : PropertiesTold(s, c)' <=> PropertiesTold(s, c)
    BY <1>1 DEF PropertiesTold, ToSet
  <2> QED BY <1>1, <1>9, <1>10, <2>1, <2>2 DEF FieldsOfAll
<1> QED BY <1>1, <1>11 DEF CoverInv

(* A step of a description, or beside it.                                                 *)
LEMMA CoverNext == WorkInv /\ FieldInv /\ CoverInv /\ (DescribeStep \/ UNCHANGED describeVars) => CoverInv'
<1> SUFFICES ASSUME WorkInv, FieldInv, CoverInv, DescribeStep \/ UNCHANGED describeVars PROVE CoverInv'
  OBVIOUS
<1>1. CASE InlineOperation \/ FailInline \/ FailRead
  <2>1. describePc' \in {"inlined", "failed"}
    BY <1>1 DEF InlineOperation, FailInline, FailRead
  <2> QED BY <2>1 DEF CoverInv, FieldsOfAll
<1>2. CASE UNCHANGED describeVars
  <2>1. UNCHANGED <<describePc, components, root, work, fieldsRead>>
    BY <1>2 DEF describeVars, describedVars
  <2>2. Reached' = Reached
    BY <2>1 DEF Reached
  <2>3. FieldsOfAll'
    <3>1. \A s, c : PropertiesTold(s, c)' <=> PropertiesTold(s, c)
      BY <2>1 DEF PropertiesTold, ToSet
    <3> QED BY <2>1, <2>2, <3>1 DEF CoverInv, FieldsOfAll
  <2>4. ASSUME describePc = "reading" PROVE (\E V : Covers(V))'
    <3>1. PICK V : Covers(V)
      BY <2>4 DEF CoverInv
    <3>2. Pending' = Pending
      BY <2>1 DEF Pending, ToSet
    <3>3. \A x : (HasFields(x)' <=> HasFields(x)) /\ LeadsTo(x)' = LeadsTo(x)
      BY <2>1 DEF HasFields, FieldsTold, LeadsTo, Of, ToSet
    <3>4. Covers(V)'
      BY <2>1, <3>1, <3>2, <3>3 DEF Covers, Of, ToSet
    <3> QED BY <3>4
  <2> QED BY <2>1, <2>3, <2>4 DEF CoverInv
<1> QED BY <1>1, <1>2, CoverSchema, CoverProperty, CoverEnds DEF DescribeStep

(* A body that is described has every property of every component that its schema leads   *)
(* to, directly, in arrays and objects at any depth, or by way of other components, however *)
(* they refer to each other, and of every object inside of them: where a $ref is not       *)
(* followed because the body is inside of its component, the fields of that component are  *)
(* told elsewhere.                                                                        *)
THEOREM BodiesAreDescribedInFull == Spec => []FieldsOfAll
<1>1. WorkInv /\ [Next]_vars => WorkInv'
  BY PartSteps, WorkNext
<1>2. WorkInv /\ FieldInv /\ [Next]_vars => FieldInv'
  BY PartSteps, FieldsNext
<1>3. WorkInv /\ FieldInv /\ CoverInv /\ [Next]_vars => CoverInv'
  BY PartSteps, CoverNext
<1>4. CoverInv => FieldsOfAll
  BY DEF CoverInv
<1> QED BY WorkBegins, FieldsBegin, CoverBegins, <1>1, <1>2, <1>3, <1>4, PTL DEF Spec

-----------------------------------------------------------------------------
(* ApiDescription: the parameters of an operation. *)

(* The parameters of an operation are its own after those of its path only. *)
ParameterInv ==
  /\ own \in Seq(ToSet(own)) /\ shared \in Seq(ToSet(shared))
  /\ describePc = "inlined" => parameters = Picked(InlineAll(shared), OfPathOnly) \o InlineAll(own)

(* A description begins with the parameters of a document, or with none. *)
LEMMA ParametersBegin == Init => ParameterInv
<1> SUFFICES ASSUME DescribeInit PROVE ParameterInv
  BY DEF Init, DocsInit
<1>1. describePc # "inlined"
  BY DEF DescribeInit
<1>2. CASE own \in ParameterLists /\ shared \in ParameterLists
  BY <1>1, <1>2, ParameterAssumption DEF ParameterInv
<1>3. CASE own = <<>> /\ shared = <<>>
  BY <1>1, <1>3 DEF ParameterInv
<1> QED BY <1>2, <1>3 DEF DescribeInit

(* A step of a description, or beside it. *)
LEMMA ParametersNext == ParameterInv /\ (DescribeStep \/ UNCHANGED describeVars) => ParameterInv'
<1> SUFFICES ASSUME ParameterInv, DescribeStep \/ UNCHANGED describeVars PROVE ParameterInv'
  OBVIOUS
<1>1. own' = own /\ shared' = shared /\ components' = components
  BY DEF DescribeStep, InlineOperation, FailInline, ReadProperty, ReadSchema, AllRead, FailRead, describeVars,
         describedVars
<1>2. /\ Picked(InlineAll(shared), OfPathOnly)' = Picked(InlineAll(shared), OfPathOnly)
      /\ InlineAll(own)' = InlineAll(own)
  BY <1>1 DEF Picked, InlineAll, OfPathOnly, Inlined, Followed, Chains, Behind
<1>3. CASE InlineOperation
  BY <1>1, <1>2, <1>3 DEF InlineOperation, ParameterInv
<1>4. CASE UNCHANGED describeVars
  BY <1>1, <1>2, <1>4 DEF describeVars, ParameterInv
<1>5. CASE ~InlineOperation /\ DescribeStep
  <2>1. describePc' # "inlined"
    BY <1>5 DEF DescribeStep, FailInline, ReadProperty, ReadSchema, AllRead, FailRead, Reading
  <2> QED BY <1>1, <2>1 DEF ParameterInv
<1> QED BY <1>3, <1>4, <1>5

(* They are each once, and of one name the operation's own. *)
LEMMA ParametersAre == ParameterInv => ParametersOnce
<1> SUFFICES ASSUME ParameterInv, describePc = "inlined"
             PROVE  /\ ToSet(InlineAll(own)) \subseteq ToSet(parameters)
                    /\ \A p \in ToSet(InlineAll(shared)) : \E q \in ToSet(parameters) : q.name = p.name
                    /\ NamedOnce(InlineAll(own)) /\ NamedOnce(InlineAll(shared)) => NamedOnce(parameters)
  BY DEF ParametersOnce
<1> DEFINE a == InlineAll(own)
           b == InlineAll(shared)
           ofPath == Picked(b, OfPathOnly)
           c == Cardinality(OfPathOnly)
           k == Len(own)
<1>1. k \in Nat /\ DOMAIN a = 1..k /\ a = [i \in 1..k |-> a[i]]
  BY DEF ParameterInv, InlineAll
<1>2. Len(shared) \in Nat /\ DOMAIN b = 1..Len(shared) /\ DOMAIN shared = 1..Len(shared)
  BY DEF ParameterInv, InlineAll
<1>3. OfPathOnly \in SUBSET Int /\ IsFiniteSet(OfPathOnly) /\ OfPathOnly \in SUBSET DOMAIN b
  <2>1. OfPathOnly \in SUBSET (1..Len(shared))
    BY <1>2 DEF OfPathOnly
  <2>2. IsFiniteSet(1..Len(shared))
    BY <1>2, FS_Interval
  <2>3. IsFiniteSet(OfPathOnly)
    BY <2>1, <2>2, FS_Subset
  <2> QED BY <1>2, <2>1, <2>3
<1>4. \A i \in DOMAIN b : i \in OfPathOnly <=> \A q \in ToSet(a) : b[i].name # q.name
  BY <1>2 DEF OfPathOnly
<1>5. parameters = ofPath \o a
  BY DEF ParameterInv
<1> HIDE DEF a, b, k
<1>6. /\ c \in Nat /\ ofPath = [n \in 1..c |-> ofPath[n]]
      /\ \A n \in 1..c : \E i \in OfPathOnly : ofPath[n] = b[i] /\ Position(OfPathOnly, i) = c - n
      /\ \A i \in OfPathOnly : \E n \in 1..c : ofPath[n] = b[i]
  <2> DEFINE S == OfPathOnly
  <2>1. S \in SUBSET Int /\ IsFiniteSet(S) /\ c = Cardinality(S) /\ ofPath = Picked(b, S) /\ S = OfPathOnly
    BY <1>3
  <2> HIDE DEF c, ofPath, S
  <2>2. Cardinality(S) \in Nat /\ ofPath = [n \in 1..Cardinality(S) |-> ofPath[n]]
    BY <2>1, PickedIs
  <2>3. \A n \in 1..Cardinality(S) : \E i \in S : ofPath[n] = b[i] /\ Position(S, i) = Cardinality(S) - n
    BY <2>1, PickedIs
  <2>4. \A i \in S : \E n \in 1..Cardinality(S) : ofPath[n] = b[i]
    BY <2>1, PickedIs
  <2> QED BY <2>1, <2>2, <2>3, <2>4, Zenon
<1> HIDE DEF ofPath, c
<1>7. /\ DOMAIN parameters = 1..(c + k)
      /\ \A n \in 1..c : parameters[n] = ofPath[n]
      /\ \A i \in 1..k : parameters[c + i] = a[i]
  <2> DEFINE X == {ofPath[n] : n \in 1..c} \cup {a[i] : i \in 1..k}
  <2>1. ofPath \in Seq(X) /\ Len(ofPath) = c
    <3>1. \A n \in 1..c : ofPath[n] \in X
      OBVIOUS
    <3> HIDE DEF X
    <3>2. ofPath \in [1..c -> X]
      BY <1>6, <3>1
    <3> QED BY <1>6, <3>2
  <2>2. a \in Seq(X) /\ Len(a) = k
    <3>1. \A i \in 1..k : a[i] \in X
      OBVIOUS
    <3> HIDE DEF X
    <3>2. a \in [1..k -> X]
      BY <1>1, <3>1
    <3> QED BY <1>1, <3>2
  <2> HIDE DEF X
  <2> QED BY <1>1, <1>5, <1>6, <2>1, <2>2
<1>8. ToSet(a) \subseteq ToSet(parameters)
  <2> SUFFICES ASSUME NEW i \in 1..k PROVE a[i] \in ToSet(parameters)
    BY <1>1 DEF ToSet
  <2>1. c + i \in DOMAIN parameters
    BY <1>1, <1>6, <1>7
  <2> QED BY <1>7, <2>1 DEF ToSet
<1>9. ASSUME NEW i \in DOMAIN b PROVE \E q \in ToSet(parameters) : q.name = b[i].name
  <2>1. CASE i \in OfPathOnly
    <3>1. PICK n \in 1..c : ofPath[n] = b[i]
      BY <1>6, <2>1
    <3>2. n \in DOMAIN parameters /\ parameters[n] = b[i]
      BY <1>1, <1>6, <1>7, <3>1
    <3> QED BY <3>2 DEF ToSet
  <2>2. CASE i \notin OfPathOnly
    BY <1>4, <1>8, <2>2
  <2> QED BY <2>1, <2>2
<1>10. ASSUME NamedOnce(a), NamedOnce(b), NEW m \in DOMAIN parameters, NEW n \in DOMAIN parameters,
              parameters[m].name = parameters[n].name
       PROVE  m = n
  <2>1. ASSUME NEW x \in 1..c, NEW y \in 1..c, ofPath[x].name = ofPath[y].name PROVE x = y
    <3>1. PICK i \in OfPathOnly : ofPath[x] = b[i] /\ Position(OfPathOnly, i) = c - x
      BY <1>6
    <3>2. PICK j \in OfPathOnly : ofPath[y] = b[j] /\ Position(OfPathOnly, j) = c - y
      BY <1>6
    <3>3. i = j
      BY <1>3, <1>10, <2>1, <3>1, <3>2 DEF NamedOnce
    <3>4. c - x = c - y
      BY <3>1, <3>2, <3>3
    <3> QED BY <1>6, <3>4
  <2>2. ASSUME NEW x \in 1..c, NEW y \in 1..k PROVE ofPath[x].name # a[y].name
    <3>1. PICK i \in OfPathOnly : ofPath[x] = b[i]
      BY <1>6
    <3>2. a[y] \in ToSet(a)
      BY <1>1 DEF ToSet
    <3> QED BY <1>3, <1>4, <3>1, <3>2
  <2>3. ASSUME NEW x \in 1..k, NEW y \in 1..k, a[x].name = a[y].name PROVE x = y
    BY <1>1, <1>10, <2>3 DEF NamedOnce
  <2>4. ASSUME NEW x \in DOMAIN parameters
        PROVE  \/ x \in 1..c /\ parameters[x] = ofPath[x]
               \/ x - c \in 1..k /\ parameters[x] = a[x - c]
    <3>1. x \in 1..(c + k)
      BY <1>7
    <3>2. CASE x <= c
      BY <1>1, <1>6, <1>7, <3>1, <3>2
    <3>3. CASE ~(x <= c)
      <4> DEFINE i == x - c
      <4>1. i \in 1..k /\ x = c + i
        BY <1>1, <1>6, <3>1, <3>3
      <4> HIDE DEF i
      <4>2. parameters[x] = a[i]
        BY <1>7, <4>1
      <4> QED BY <4>1, <4>2 DEF i
    <3> QED BY <3>2, <3>3
  <2>5. CASE m \in 1..c /\ parameters[m] = ofPath[m] /\ n \in 1..c /\ parameters[n] = ofPath[n]
    BY <1>10, <2>1, <2>5
  <2>6. CASE m \in 1..c /\ parameters[m] = ofPath[m] /\ n - c \in 1..k /\ parameters[n] = a[n - c]
    BY <1>10, <2>2, <2>6
  <2>7. CASE m - c \in 1..k /\ parameters[m] = a[m - c] /\ n \in 1..c /\ parameters[n] = ofPath[n]
    BY <1>10, <2>2, <2>7
  <2>8. CASE m - c \in 1..k /\ parameters[m] = a[m - c] /\ n - c \in 1..k /\ parameters[n] = a[n - c]
    <3>1. m - c = n - c
      BY <1>10, <2>3, <2>8
    <3>2. m \in Int /\ n \in Int
      BY <1>1, <1>6, <1>7
    <3> QED BY <1>6, <3>1, <3>2
  <2> QED BY <2>4, <2>5, <2>6, <2>7, <2>8
<1>11. \A p \in ToSet(b) : \E q \in ToSet(parameters) : q.name = p.name
  BY <1>9 DEF ToSet
<1>12. NamedOnce(a) /\ NamedOnce(b) => NamedOnce(parameters)
  BY <1>10 DEF NamedOnce
<1> QED BY <1>8, <1>11, <1>12 DEF a, b

(* Every parameter of an operation or its path is among those that are described, and of  *)
(* one name only one, that of the operation where both have it.                            *)
THEOREM ParametersAreToldOnce == Spec => []ParametersOnce
<1>1. ParameterInv /\ [Next]_vars => ParameterInv'
  BY PartSteps, ParametersNext
<1> QED BY <1>1, ParametersBegin, ParametersAre, PTL DEF Spec

-----------------------------------------------------------------------------
(* What meshstack api sends, lists and prints, and what meshstack api-docs describes, is   *)
(* what the API docs say, and all that they say.                                           *)
THEOREM DocsAreAlwaysFollowed == Spec => []DocsAreFollowed
<1>1. /\ SentAsOneVersion /\ MethodsToldApart /\ PrintsAll /\ ListsWhatIsAsked
      /\ InsideOfNoneTwice /\ FieldsOnce /\ FieldsOfAll /\ ParametersOnce /\ NewestDescribed
      => DocsAreFollowed
  BY DEF DocsAreFollowed, RequestsFollowDocs, DescribedInFull
<1> QED BY <1>1, RequestsKeepTheirVersion, ActionsTellMethods, PrintsAreWhole, ListingsAreAsAsked,
           BodiesAreReadToTheirEnd, FieldsAreSaidOnce, BodiesAreDescribedInFull, ParametersAreToldOnce,
           NewestVersionsAreDescribed, PTL
=============================================================================
