-------------------------------- MODULE Listing --------------------------------
(***************************************************************************)
(* The listing commands: the pages of one listing, or those of the runs of *)
(* every building block merged, while objects are created and deleted.     *)
(* A listing is that of one source; a run list without a building block has*)
(* one source for each building block.  Objects are the times at which     *)
(* they were created; the building blocks do not change.  An endpoint may  *)
(* ignore the until of the first page, or get one that is still to come    *)
(* (eventlog list --until); the versions of a building block definition    *)
(* come in an order of their endpoint's own, which sorts by version number.*)
(***************************************************************************)
EXTENDS Integers, FiniteSets, Sequences, SequencesExt

CONSTANTS
  Sources,            \* 1..n, in the order in which the building blocks are listed
  MaxTime,            \* a bound on the objects
  ServerPageSize,     \* the size of a page where none is asked for
  SizeOfEachBlock,    \* runsPageSizeOfEachBlock
  Limits              \* what --limit may be

(* --limit unlimited; any other that is no positive number is refused.     *)
Unlimited == 0

ASSUME ListingAssumption ==
  /\ IsFiniteSet(Sources) /\ Sources = 1..Cardinality(Sources)
  /\ MaxTime \in Nat \ {0} /\ Limits \subseteq Nat
  /\ ServerPageSize \in Nat \ {0} /\ SizeOfEachBlock \in Nat \ {0}

VARIABLES
  \* meshStack:
  objects,   \* what each source holds
  time,      \* the time of the last object
  takesUntil,  \* whether an object created after the first page is left out
  newestFirst, \* whether the last object comes first, as createdAt,desc has it
  \* the command:
  listPc,    \* where it is
  limit,     \* --limit
  merged,    \* whether it lists the runs of every building block
  until,     \* the time from which on objects are left out
  nextPage,  \* the page that comes next, of each source
  rest,      \* what is still to be listed of the page that was read
  more,      \* whether there is another page
  total,     \* the number of objects that the first page gave
  listed,    \* what was written
  array,     \* the JSON array on stdout
  outcome,   \* how it ended
  \* ghosts:
  atStart,   \* what a source held when the command first read it
  created,   \* an object was created after the first page of its source was read
  deleted    \* an object was deleted while the command read

serverVars == <<objects, time, takesUntil, newestFirst>>
listVars == <<serverVars, listPc, limit, merged, until, nextPage, rest, more, total,
              listed, array, outcome, atStart, created, deleted>>

Unknown == -1

ListTypeOK ==
  /\ objects \in [Sources -> SUBSET (1..MaxTime)] /\ time \in 0..MaxTime
  /\ listPc \in {"idle", "heads", "yield", "page", "done"}
  /\ limit \in Limits /\ merged \in BOOLEAN
  /\ until \in [Sources -> 0..MaxTime] /\ nextPage \in [Sources -> 0..MaxTime]
  /\ \A s \in Sources : rest[s] \in Seq(1..MaxTime)
  /\ more \in [Sources -> BOOLEAN]
  /\ total \in {Unknown} \cup 0..MaxTime
  /\ listed \in Seq(1..MaxTime)
  /\ array \in {"none", "open", "closed"}
  /\ outcome \in {"none", "complete", "cutShort", "error"}
  /\ atStart \in [Sources -> SUBSET (1..MaxTime)] /\ created \in BOOLEAN
  /\ deleted \in BOOLEAN /\ takesUntil \in BOOLEAN /\ newestFirst \in BOOLEAN

ListInit ==
  /\ \E t \in 0..MaxTime : /\ time = t
                           /\ objects \in [Sources -> SUBSET (1..t)]
  /\ \A s, u \in Sources : s # u => objects[s] \cap objects[u] = {}
  /\ listPc = "idle"
  /\ limit \in Limits /\ merged \in BOOLEAN /\ (1 \in Sources \/ merged)
  /\ takesUntil \in BOOLEAN /\ newestFirst \in BOOLEAN /\ (merged => newestFirst)
  /\ until = [s \in Sources |-> 0] /\ nextPage = [s \in Sources |-> 0]
  /\ rest = [s \in Sources |-> <<>>] /\ more = [s \in Sources |-> TRUE]
  /\ total = Unknown /\ listed = <<>> /\ array = "none" /\ outcome = "none"
  /\ atStart = [s \in Sources |-> {}] /\ created = FALSE /\ deleted = FALSE

Least(a, b) == IF a < b THEN a ELSE b
Read == IF merged THEN Sources ELSE {1}
Started(s) == nextPage[s] > 0

-----------------------------------------------------------------------------
(* meshStack.                                                              *)

Create(s) ==
  /\ listPc # "done" /\ time < MaxTime
  /\ time' = time + 1
  /\ objects' = [objects EXCEPT ![s] = @ \cup {time + 1}]
  /\ created' = (created \/ Started(s))
  /\ UNCHANGED <<takesUntil, newestFirst, listPc, limit, merged, until, nextPage, rest, more, total,
                 listed, array, outcome, atStart, deleted>>

Delete(s) ==
  /\ listPc \notin {"idle", "done"}
  /\ \E o \in objects[s] : objects' = [objects EXCEPT ![s] = @ \ {o}]
  /\ deleted' = TRUE
  /\ UNCHANGED <<time, takesUntil, newestFirst, listPc, limit, merged, until, nextPage, rest, more,
                 total, listed, array, outcome, atStart, created>>

NewestFirst(S) ==
  [i \in 1..Cardinality(S) |-> CHOOSE o \in S : Cardinality({p \in S : p > o}) = i - 1]

Size == IF merged /\ limit # Unlimited THEN Least(limit, SizeOfEachBlock) ELSE limit

(* No size is sent for an unlimited listing.                               *)
PageSize == IF Size # Unlimited THEN Size ELSE ServerPageSize

(* Mutation: no until is sent.                                             *)
MatchingAny(s, end) == objects[s]

(* What a query is answered from: what was there by the until of the first page.          *)
Matching(s, end) == {o \in objects[s] : takesUntil => o <= end}

(* The answer: createdAt,desc, or in the order of the endpoint.            *)
Ordered(S) == IF newestFirst THEN NewestFirst(S) ELSE Reverse(NewestFirst(S))

Pages(n) == (n + PageSize - 1) \div PageSize

-----------------------------------------------------------------------------
(* A page of a listing, and the end of it.                                 *)

IsLast(page, pages) == page >= pages - 1

ReadPage(s) ==
  LET end == IF Started(s) THEN until[s] ELSE time
      all == Ordered(Matching(s, end))
      n == nextPage[s]
  IN /\ until' = [until EXCEPT ![s] = end]
     /\ rest' = [rest EXCEPT ![s] = SubSeq(all, n * PageSize + 1, Least((n + 1) * PageSize, Len(all)))]
     /\ more' = [more EXCEPT ![s] = ~IsLast(n, Pages(Len(all)))]
     /\ nextPage' = [nextPage EXCEPT ![s] = n + 1]
     /\ total' = IF merged \/ total # Unknown THEN total ELSE Len(all)
     /\ atStart' = IF Started(s) THEN atStart ELSE [atStart EXCEPT ![s] = objects[s]]

(* Nothing more of the source, or its next object, which may be on the next page.        *)
Advanced(s) == rest[s] # <<>> \/ ~more[s]

EndList(how) == listPc' = "done" /\ outcome' = how

Start ==
  /\ listPc = "idle"
  /\ listPc' = "heads"
  /\ UNCHANGED <<serverVars, limit, merged, until, nextPage, rest, more, total, listed, array,
                 outcome, atStart, created, deleted>>

(* Before anything is listed every source is read as far as its first object.            *)
ReadHead ==
  /\ listPc \in {"heads", "page"}
  /\ \E s \in Read :
       /\ ~Advanced(s)
       /\ \A u \in Read : u < s => Advanced(u)
       /\ ReadPage(s)
  /\ UNCHANGED <<serverVars, listPc, limit, merged, listed, array, outcome, created, deleted>>

(* A page that cannot be read, also for an answer that has no list in it.  *)
FailPage ==
  /\ listPc \in {"heads", "page"}
  /\ \E s \in Read : ~Advanced(s)
  /\ EndList("error")
  /\ UNCHANGED <<serverVars, limit, merged, until, nextPage, rest, more, total, listed, array,
                 atStart, created, deleted>>

HeadsRead ==
  /\ listPc \in {"heads", "page"}
  /\ \A s \in Read : Advanced(s)
  /\ listPc' = "yield"
  /\ UNCHANGED <<serverVars, limit, merged, until, nextPage, rest, more, total, listed, array,
                 outcome, atStart, created, deleted>>

Heads == {s \in Read : rest[s] # <<>>}

Newest == CHOOSE s \in Heads : \A u \in Heads : rest[u][1] <= rest[s][1]

(* What the limit has cut short is said, unless meshStack's total says it is all.        *)
CutShort(n) == limit # Unlimited /\ n >= limit /\ (total = Unknown \/ total > limit)

(* First: no object beyond the limit is asked for, nor the page it would be on.           *)
First(n) == limit # Unlimited /\ n = limit

(* WriteList: each object, and the end of the array after the last one; no end after an   *)
(* error.                                                                                 *)
Complete(how) ==
  \/ EndList(how) /\ array' = "closed"
  \/ EndList("error") /\ array' = IF listed' = <<>> THEN "none" ELSE "open"

Yield ==
  /\ listPc = "yield" /\ Heads # {}
  /\ LET s == Newest IN
       /\ listed' = Append(listed, rest[s][1])
       /\ rest' = [rest EXCEPT ![s] = Tail(rest[s])]
  /\ IF First(Len(listed'))
     THEN Complete(IF CutShort(Len(listed')) THEN "cutShort" ELSE "complete")
     ELSE listPc' = "page" /\ array' = "open" /\ UNCHANGED outcome
  /\ UNCHANGED <<serverVars, limit, merged, until, nextPage, more, total, atStart, created, deleted>>

(* The output cannot be written.                                           *)
FailYield ==
  /\ listPc = "yield" /\ Heads # {}
  /\ EndList("error")
  /\ UNCHANGED <<serverVars, limit, merged, until, nextPage, rest, more, total, listed, array,
                 atStart, created, deleted>>

ListEnds ==
  /\ listPc = "yield" /\ Heads = {}
  /\ UNCHANGED listed /\ Complete("complete")
  /\ UNCHANGED <<serverVars, limit, merged, until, nextPage, rest, more, total, atStart, created, deleted>>

ListStep ==
  \/ \E s \in Sources : Create(s) \/ Delete(s)
  \/ Start \/ ReadHead \/ FailPage \/ HeadsRead \/ Yield \/ FailYield \/ ListEnds

-----------------------------------------------------------------------------
(* The pages of a source fit together: the last object comes first, and none that is      *)
(* created meanwhile pushes another one onto the next page.                               *)
Steady == newestFirst /\ (takesUntil \/ ~created)

(* A list that is steady is newest first, with no object twice, whatever is deleted, or   *)
(* created where until leaves it out, while its pages are read.  Where nothing is deleted, *)
(* it is the newest objects of those that were there at first, up to the limit, and all of *)
(* them where no note says that it is cut short.  No list that is complete leaves out an   *)
(* object that was there at first and is not deleted, also where until is ignored or the   *)
(* order is the endpoint's, so that one is listed twice or later than it belongs.  The     *)
(* output is a complete JSON array exactly where the list is complete.                    *)
ListsNewest ==
  /\ array = "closed" <=> outcome \in {"complete", "cutShort"}
  /\ Steady => \A i \in 1..Len(listed) - 1 : listed[i] > listed[i + 1]
  /\ Steady /\ outcome \in {"complete", "cutShort"} /\ ~deleted =>
       LET all == UNION {atStart[s] : s \in Read}
       IN /\ listed = SubSeq(NewestFirst(all), 1, Len(listed))
          /\ Len(listed) = IF limit # Unlimited THEN Least(limit, Cardinality(all)) ELSE Cardinality(all)
          /\ outcome = "complete" => Len(listed) = Cardinality(all)
  /\ outcome = "complete" /\ ~deleted => \A s \in Read : atStart[s] \subseteq ToSet(listed)
=============================================================================
