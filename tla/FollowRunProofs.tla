---------------------------- MODULE FollowRunProofs ----------------------------
(***************************************************************************)
(* Proofs about following the logs of a run, for any steps and messages,   *)
(* beside the other commands on its building block.                        *)
(***************************************************************************)
EXTENDS BlockCommandsProofs, FiniteSetTheorems, WellFoundedInduction

-----------------------------------------------------------------------------
(* The lines that two messages begin with.                                 *)

(* A set of numbers that is not empty has a least one. *)
LEMMA LeastOf ==
  ASSUME NEW T \in SUBSET Nat, T # {}
  PROVE  \E x \in T : \A y \in T : x <= y
<1>1. \E x \in T : \A y \in T : ~(<<y, x>> \in OpToRel(<, Nat))
  BY NatLessThanWellFounded, WFMin
<1>2. PICK x \in T : \A y \in T : ~(<<y, x>> \in OpToRel(<, Nat))
  BY <1>1
<1>3. ASSUME NEW y \in T PROVE x <= y
  <2>1. ~(<<y, x>> \in OpToRel(<, Nat))
    BY <1>2
  <2>2. x \in Nat /\ y \in Nat
    OBVIOUS
  <2>3. ~(y < x)
    BY <2>1, <2>2 DEF OpToRel
  <2> QED BY <2>2, <2>3
<1> QED BY <1>3

(* Messages are sequences of lines. *)
LEMMA MessageTypes ==
  ASSUME NEW m \in Message
  PROVE  m \in Seq(Line) /\ Len(m) \in Nat /\ DOMAIN m = 1..Len(m)
BY FollowAssumption, LenProperties

(* The first lines of two messages are the same if each of them is. *)
LEMMA SameBeginning ==
  ASSUME NEW s \in Message, NEW t \in Message, NEW k \in 0..Len(s), k <= Len(t)
  PROVE  SubSeq(s, 1, k) = SubSeq(t, 1, k) <=> \A i \in 1..k : s[i] = t[i]
<1>1. /\ s \in Seq(Line) /\ Len(s) \in Nat /\ DOMAIN s = 1..Len(s)
      /\ t \in Seq(Line) /\ Len(t) \in Nat /\ DOMAIN t = 1..Len(t)
  BY MessageTypes
<1>2. (\A i \in 1..k : s[i] \in Line) /\ (\A i \in 1..k : t[i] \in Line)
  <2>1. ASSUME NEW i \in 1..k PROVE s[i] \in Line /\ t[i] \in Line
    <3>1. i \in 1..Len(s) /\ i \in 1..Len(t)
      BY <1>1
    <3> QED BY <1>1, <3>1, ElementOfSeq
  <2> QED BY <2>1
<1>3. /\ SubSeq(s, 1, k) \in Seq(Line) /\ Len(SubSeq(s, 1, k)) = k /\ \A i \in 1..k : SubSeq(s, 1, k)[i] = s[i]
      /\ SubSeq(t, 1, k) \in Seq(Line) /\ Len(SubSeq(t, 1, k)) = k /\ \A i \in 1..k : SubSeq(t, 1, k)[i] = t[i]
  <2>1. k \in Int /\ 1 \in Int /\ (IF 1 <= k THEN k - 1 + 1 ELSE 0) = k /\ k - 1 + 1 = k /\ \A i \in 1..k : 1 + i - 1 = i
    OBVIOUS
  <2> QED BY <1>2, <2>1, SubSeqProperties
<1> QED BY <1>3, SeqEqual

(* What is left out of a message is what it begins with and was written before: the      *)
(* longest such beginning exists.                                                         *)
LEMMA KeptIsCommon ==
  ASSUME NEW old \in Message, NEW new \in Message
  PROVE  /\ Kept(old, new) \in 0..Len(old) /\ Kept(old, new) <= Len(new)
         /\ \A i \in 1..Kept(old, new) : old[i] = new[i]
         /\ Kept(old, new) < Len(old) /\ Kept(old, new) < Len(new) =>
              old[Kept(old, new) + 1] # new[Kept(old, new) + 1]
<1> DEFINE Differ == {k \in 0..Len(old) : k = Len(old) \/ k = Len(new) \/ old[k + 1] # new[k + 1]}
<1>1. Len(old) \in Nat /\ Len(new) \in Nat
  BY MessageTypes
<1>2. PICK x \in Differ : \A y \in Differ : x <= y
  <2>1. Len(old) \in Differ /\ Differ \subseteq Nat
    BY <1>1
  <2> QED BY <2>1, LeastOf
<1>3. x <= Len(new)
  BY <1>1, <1>2
<1>4. \A i \in 1..x : old[i] = new[i]
  <2>1. x \in 0..Len(old)
    OBVIOUS
  <2> TAKE i \in 1..x
  <2>2. i - 1 \in 0..Len(old) /\ ~(x <= i - 1) /\ (i - 1) + 1 = i
    BY <1>1, <2>1
  <2>3. i - 1 \notin Differ
    <3> HIDE DEF Differ
    <3> QED BY <1>2, <2>2
  <2> QED BY <2>2, <2>3
<1>5. SubSeq(old, 1, x) = SubSeq(new, 1, x)
  BY <1>3, <1>4, SameBeginning
<1>6. x < Len(old) /\ x < Len(new) => old[x + 1] # new[x + 1]
  BY <1>1, <1>2
<1> DEFINE P(k) == /\ k <= Len(new) /\ SubSeq(old, 1, k) = SubSeq(new, 1, k)
                   /\ k < Len(old) /\ k < Len(new) => old[k + 1] # new[k + 1]
<1>7. \E k \in 0..Len(old) : P(k)
  <2>1. x \in 0..Len(old)
    BY <1>2
  <2> QED BY <1>3, <1>5, <1>6, <2>1
<1>8. Kept(old, new) = CHOOSE k \in 0..Len(old) : P(k)
  BY DEF Kept
<1>9. Kept(old, new) \in 0..Len(old) /\ P(Kept(old, new))
  <2> HIDE DEF P
  <2> QED BY <1>7, <1>8
<1> QED BY <1>9, SameBeginning

(* A message that begins with another one. *)
Begins(s, t) == Len(s) <= Len(t) /\ \A k \in 1..Len(s) : s[k] = t[k]

(* IsPrefixOf says that a message begins with another. *)
LEMMA PrefixBegins ==
  ASSUME NEW s \in Message, NEW t \in Message, IsPrefixOf(s, t)
  PROVE  Begins(s, t)
<1>1. Len(s) \in Nat /\ Len(t) \in Nat /\ s \in Seq(Line) /\ Len(s) <= Len(t)
  BY MessageTypes DEF IsPrefixOf
<1>2. SubSeq(s, 1, Len(s)) = SubSeq(t, 1, Len(s))
  BY <1>1, SubSeqFull DEF IsPrefixOf
<1>3. \A k \in 1..Len(s) : s[k] = t[k]
  BY <1>1, <1>2, SameBeginning
<1> QED BY <1>1, <1>3 DEF Begins

(* What begins with a message begins with all that it begins with. *)
LEMMA BeginsOnward ==
  ASSUME NEW s \in Message, NEW t \in Message, NEW u \in Message, Begins(s, t), Begins(t, u)
  PROVE  Begins(s, u)
BY MessageTypes DEF Begins

(* Every message begins with nothing, and with itself. *)
LEMMA NothingBegins == \A m \in Message : Begins(<<>>, m) /\ Begins(m, m)
BY MessageTypes, EmptySeq DEF Begins

(* Of a message that grew the lines before are left out, no more and no less. *)
LEMMA KeptOfGrown ==
  ASSUME NEW old \in Message, NEW new \in Message, Begins(old, new)
  PROVE  Kept(old, new) = Len(old)
<1>1. Len(old) \in Nat /\ Len(new) \in Nat
  BY MessageTypes
<1>2. /\ Kept(old, new) \in 0..Len(old)
      /\ Kept(old, new) < Len(old) /\ Kept(old, new) < Len(new) =>
              old[Kept(old, new) + 1] # new[Kept(old, new) + 1]
  BY KeptIsCommon
<1> QED BY <1>1, <1>2 DEF Begins

-----------------------------------------------------------------------------
(* The steps of a run.                                                     *)

Distinct(s) == \A i, j \in 1..Len(s) : s[i].name = s[j].name => i = j

(* Steps that go on: more are put after them, and their messages grow. *)
Grown(s, t) ==
  /\ Len(s) <= Len(t)
  /\ \A i \in 1..Len(s) : /\ s[i].name = t[i].name
                          /\ Begins(s[i].user, t[i].user) /\ Begins(s[i].system, t[i].system)

FollowInv ==
  /\ FollowTypeOK
  /\ written \in Seq(Step)
  /\ Distinct(logs) /\ Distinct(fetched) /\ Distinct(written)
  /\ followPc = "idle" => followed = 0
  /\ followPc # "idle" => followed \in DOMAIN runs
  /\ followPc # "write" => fetched = <<>>
  /\ followPc # "done" => followEnd = "none" /\ failedInARow < MaxFailedPollsInARow

(* The sequences of steps that the command has. *)
LEMMA StepTypes ==
  ASSUME NEW s \in Seq(Step)
  PROVE  /\ Len(s) \in Nat /\ DOMAIN s = 1..Len(s)
         /\ \A i \in 1..Len(s) : s[i] \in Step
BY LenProperties, ElementOfSeq

(* The fields of a step. *)
LEMMA StepFields ==
  ASSUME NEW w \in Step
  PROVE  /\ w.name \in StepName /\ w.user \in Message /\ w.system \in Message
         /\ w.status \in {"IN_PROGRESS", "SUCCEEDED", "FAILED", "ABORTED"}
BY DEF Step

(* There are no more steps than names for them. *)
LEMMA StepsAreFew ==
  ASSUME NEW s \in Seq(Step), Distinct(s)
  PROVE  Len(s) <= Cardinality(StepName)
<1> DEFINE names == [i \in 1..Len(s) |-> s[i].name]
<1>1. Len(s) \in Nat /\ \A i \in 1..Len(s) : s[i] \in Step
  BY StepTypes
<1>2. names \in [1..Len(s) -> StepName]
  BY <1>1, StepFields
<1>3. \A i, j \in 1..Len(s) : names[i] = names[j] => i = j
  BY DEF Distinct
<1>4. names \in Injection(1..Len(s), StepName)
  <2> HIDE DEF names
  <2> QED BY <1>2, <1>3 DEF Injection, IsInjective
<1>5. Cardinality(1..Len(s)) = Len(s)
  <2>1. 1 \in Int /\ Len(s) \in Int /\ (IF 1 > Len(s) THEN 0 ELSE Len(s) - 1 + 1) = Len(s)
    BY <1>1
  <2> QED BY <2>1, FS_Interval
<1>6. Cardinality(1..Len(s)) <= Cardinality(StepName)
  <2> HIDE DEF names
  <2> QED BY <1>4, FS_Injection, FollowAssumption
<1> QED BY <1>5, <1>6

(* A step that is new is a step of its name, without a line. *)
LEMMA NewStepType == \A n \in StepName : NewStepOf(n) \in Step /\ NewStepOf(n).name = n
BY FollowAssumption DEF NewStepOf, Step

(* A step is put at its place. *)
WithStep(s, at, new) == SubSeq(s, 1, at) \o <<new>> \o SubSeq(s, at + 1, Len(s))

LEMMA StepPut ==
  ASSUME NEW s \in Seq(Step), NEW at \in 0..Len(s), NEW new \in Step
  PROVE  /\ WithStep(s, at, new) \in Seq(Step) /\ Len(WithStep(s, at, new)) = Len(s) + 1
         /\ \A i \in 1..Len(WithStep(s, at, new)) :
              WithStep(s, at, new)[i] = IF i <= at THEN s[i] ELSE IF i = at + 1 THEN new ELSE s[i - 1]
<1> DEFINE a == SubSeq(s, 1, at)
           b == SubSeq(s, at + 1, Len(s))
           c == a \o <<new>>
           t == c \o b
<1>1. Len(s) \in Nat /\ at \in Nat /\ at <= Len(s) /\ \A i \in 1..Len(s) : s[i] \in Step
  BY StepTypes
<1>2. a \in Seq(Step) /\ Len(a) = at /\ \A i \in 1..at : a[i] = s[i]
  <2>1. \A i \in 1..at : s[i] \in Step
    BY <1>1
  <2>2. 1 \in Int /\ at \in Int /\ at - 1 + 1 = at /\ (IF 1 <= at THEN at - 1 + 1 ELSE 0) = at
        /\ \A i \in 1..at : 1 + i - 1 = i
    BY <1>1
  <2> QED BY <2>1, <2>2, SubSeqProperties
<1>3. b \in Seq(Step) /\ Len(b) = Len(s) - at /\ \A i \in 1..(Len(s) - at) : b[i] = s[at + i]
  <2> HIDE DEF a, c, t
  <2>1. PICK m \in Int, n \in Int : m = at + 1 /\ n = Len(s)
    BY <1>1
  <2>2. \A i \in m..n : s[i] \in Step
    BY <1>1, <2>1
  <2>3. /\ SubSeq(s, m, n) \in Seq(Step) /\ Len(SubSeq(s, m, n)) = IF m <= n THEN n - m + 1 ELSE 0
        /\ \A i \in 1..n - m + 1 : SubSeq(s, m, n)[i] = s[m + i - 1]
    BY <2>2, SubSeqProperties
  <2>4. b = SubSeq(s, m, n)
    BY <2>1
  <2> HIDE DEF b
  <2> QED BY <1>1, <2>1, <2>3, <2>4
<1>4. <<new>> \in Seq(Step) /\ Len(<<new>>) = 1 /\ <<new>>[1] = new
  OBVIOUS
<1> HIDE DEF a, b
<1>5. /\ c \in Seq(Step) /\ Len(c) = at + 1
      /\ \A i \in 1..(at + 1) : c[i] = IF i <= at THEN s[i] ELSE new
  <2>1. /\ c \in Seq(Step) /\ Len(c) = at + 1
        /\ \A i \in 1..(at + 1) : c[i] = IF i <= at THEN a[i] ELSE <<new>>[i - at]
    BY <1>1, <1>2, <1>4, ConcatProperties
  <2> QED BY <1>1, <1>2, <2>1
<1> HIDE DEF c
<1>6. /\ t \in Seq(Step) /\ Len(t) = Len(s) + 1
      /\ \A i \in 1..(Len(s) + 1) : t[i] = IF i <= at + 1 THEN c[i] ELSE b[i - (at + 1)]
  <2>1. Len(c) + Len(b) = Len(s) + 1 /\ Len(c) = at + 1
    BY <1>1, <1>3, <1>5
  <2>2. /\ t \in Seq(Step) /\ Len(t) = Len(c) + Len(b)
        /\ \A i \in 1..(Len(c) + Len(b)) : t[i] = IF i <= Len(c) THEN c[i] ELSE b[i - Len(c)]
    BY <1>3, <1>5, ConcatProperties
  <2> HIDE DEF t
  <2> QED BY <2>1, <2>2
<1> HIDE DEF t
<1>7. \A i \in 1..(Len(s) + 1) : t[i] = IF i <= at THEN s[i] ELSE IF i = at + 1 THEN new ELSE s[i - 1]
  <2> TAKE i \in 1..(Len(s) + 1)
  <2>1. CASE i <= at
    BY <1>1, <1>5, <1>6, <2>1
  <2>2. CASE i = at + 1
    BY <1>1, <1>5, <1>6, <2>2
  <2>3. CASE i > at + 1
    <3>1. i - (at + 1) \in 1..(Len(s) - at) /\ at + (i - (at + 1)) = i - 1
      BY <1>1, <2>3
    <3>2. t[i] = b[i - (at + 1)]
      BY <1>1, <1>6, <2>3
    <3>3. b[i - (at + 1)] = s[i - 1]
      BY <1>3, <3>1
    <3>4. ~(i <= at) /\ i # at + 1
      BY <2>3
    <3> QED BY <3>2, <3>3, <3>4
  <2> QED BY <1>1, <2>1, <2>2, <2>3
<1>8. WithStep(s, at, new) = t
  BY DEF t, c, a, b, WithStep
<1> QED BY <1>6, <1>7, <1>8

-----------------------------------------------------------------------------
(* What the runner sends.                                                  *)

(* Steps that are as they were but for one, which keeps its name. *)
LEMMA StepChanged ==
  ASSUME NEW s \in Seq(Step), Distinct(s), NEW i \in 1..Len(s), NEW new \in Step, new.name = s[i].name
  PROVE  LET t == [s EXCEPT ![i] = new]
         IN  /\ t \in Seq(Step) /\ Len(t) = Len(s) /\ Distinct(t)
             /\ Begins(s[i].user, new.user) /\ Begins(s[i].system, new.system) => Grown(s, t)
<1> DEFINE t == [s EXCEPT ![i] = new]
<1>1. t \in Seq(Step) /\ Len(t) = Len(s) /\ \A j \in 1..Len(s) : t[j] = IF j = i THEN new ELSE s[j]
  BY ExceptSeq
<1> HIDE DEF t
<1>2. Len(s) \in Nat /\ \A j \in 1..Len(s) : s[j] \in Step
  BY StepTypes
<1>3. Distinct(t)
  BY <1>1 DEF Distinct
<1>4. Begins(s[i].user, new.user) /\ Begins(s[i].system, new.system) => Grown(s, t)
  <2> SUFFICES ASSUME Begins(s[i].user, new.user), Begins(s[i].system, new.system)
               PROVE  Grown(s, t)
    OBVIOUS
  <2>1. ASSUME NEW j \in 1..Len(s)
        PROVE  s[j].name = t[j].name /\ Begins(s[j].user, t[j].user) /\ Begins(s[j].system, t[j].system)
    <3>1. CASE j = i
      BY <1>1, <3>1
    <3>2. CASE j # i
      <4>1. t[j] = s[j] /\ s[j].user \in Message /\ s[j].system \in Message
        BY <1>1, <1>2, <3>2, StepFields
      <4> QED BY <4>1, NothingBegins
    <3> QED BY <3>1, <3>2
  <2> QED BY <1>1, <1>2, <2>1 DEF Grown
<1> QED BY <1>1, <1>3, <1>4 DEF t

(* What the runner sends is a run's steps, each with its name, and unless it says that    *)
(* something was rewritten they have only grown.                                          *)
LEMMA RunnerKeeps ==
  ASSUME FollowInv, RunnerStep
  PROVE  /\ logs' \in Seq(Step) /\ Distinct(logs')
         /\ updates' \in 0..MaxUpdates /\ rewritten' \in BOOLEAN
         /\ ~rewritten' => ~rewritten /\ Grown(logs, logs')
         /\ followPc # "done" /\ runs[followed].status = "IN_PROGRESS"
         /\ UNCHANGED <<blockVars, followPc, followed, status, fetched, readOnce, failedInARow,
                        written, followEnd, screen, repeated>>
<1>1. logs \in Seq(Step) /\ Distinct(logs) /\ Len(logs) \in Nat /\ DOMAIN logs = 1..Len(logs) /\ rewritten \in BOOLEAN
      /\ \A i \in 1..Len(logs) : logs[i] \in Step
  BY StepTypes DEF FollowInv, FollowTypeOK
<1>2. ASSUME NEW new, NEW anew \in BOOLEAN, RunnerSends(new, anew), new \in Seq(Step), Distinct(new),
             ~anew => Grown(logs, new)
      PROVE  /\ logs' \in Seq(Step) /\ Distinct(logs')
             /\ updates' \in 0..MaxUpdates /\ rewritten' \in BOOLEAN
             /\ ~rewritten' => ~rewritten /\ Grown(logs, logs')
             /\ followPc # "done" /\ runs[followed].status = "IN_PROGRESS"
             /\ UNCHANGED <<blockVars, followPc, followed, status, fetched, readOnce, failedInARow,
                            written, followEnd, screen, repeated>>
  <2>1. /\ logs' = new /\ updates < MaxUpdates /\ updates' = updates + 1 /\ rewritten' = (rewritten \/ anew)
        /\ followPc # "done" /\ runs[followed].status = "IN_PROGRESS"
        /\ UNCHANGED <<blockVars, followPc, followed, status, fetched, readOnce, failedInARow,
                       written, followEnd, screen, repeated>>
    BY <1>2 DEF RunnerSends
  <2>2. updates' \in 0..MaxUpdates
    BY <2>1, FollowAssumption DEF FollowInv, FollowTypeOK
  <2>3. rewritten' \in BOOLEAN /\ (~rewritten' => ~rewritten /\ ~anew)
    BY <1>1, <2>1
  <2> QED BY <1>2, <2>1, <2>2, <2>3
<1>3. CASE NewStep
  <2>1. PICK n \in StepName, at \in 0..Len(logs) :
          /\ \A i \in DOMAIN logs : logs[i].name # n
          /\ RunnerSends(SubSeq(logs, 1, at) \o <<NewStepOf(n)>> \o SubSeq(logs, at + 1, Len(logs)), at < Len(logs))
    BY <1>3 DEF NewStep
  <2> DEFINE new == NewStepOf(n)
             t == WithStep(logs, at, new)
  <2>2. new \in Step /\ new.name = n
    BY NewStepType
  <2> HIDE DEF new
  <2>3. /\ t \in Seq(Step) /\ Len(t) = Len(logs) + 1
        /\ \A i \in 1..Len(t) : t[i] = IF i <= at THEN logs[i] ELSE IF i = at + 1 THEN new ELSE logs[i - 1]
    <3>1. logs \in Seq(Step) /\ at \in 0..Len(logs) /\ new \in Step
      BY <1>1, <2>2
    <3> QED BY <3>1, StepPut
  <2>4. RunnerSends(t, at < Len(logs))
    BY <2>1 DEF new, WithStep
  <2> HIDE DEF t
  <2>5. Distinct(t)
    <3>1. ASSUME NEW i \in 1..Len(t), NEW j \in 1..Len(t), t[i].name = t[j].name
          PROVE  i = j
      <4>1. \A k \in 1..Len(t) : k # at + 1 => t[k].name # n
        <5> SUFFICES ASSUME NEW k \in 1..Len(t), k # at + 1 PROVE t[k].name # n
          OBVIOUS
        <5>1. PICK m \in 1..Len(logs) : t[k] = logs[m]
          <6>1. k <= at \/ k - 1 \in 1..Len(logs)
            BY <1>1, <2>3
          <6>2. k <= at => k \in 1..Len(logs)
            BY <1>1, <2>3
          <6> QED BY <2>3, <6>1, <6>2
        <5> QED BY <1>1, <2>1, <5>1
      <4>2. CASE i = at + 1 \/ j = at + 1
        <5>1. t[at + 1].name = n
          BY <1>1, <2>2, <2>3
        <5> QED BY <3>1, <4>1, <4>2, <5>1
      <4>3. CASE i # at + 1 /\ j # at + 1
        <5>1. /\ t[i] = logs[IF i <= at THEN i ELSE i - 1] /\ t[j] = logs[IF j <= at THEN j ELSE j - 1]
              /\ (IF i <= at THEN i ELSE i - 1) \in 1..Len(logs) /\ (IF j <= at THEN j ELSE j - 1) \in 1..Len(logs)
          BY <1>1, <2>3, <4>3
        <5>2. (IF i <= at THEN i ELSE i - 1) = (IF j <= at THEN j ELSE j - 1)
          BY <1>1, <3>1, <5>1 DEF Distinct
        <5> QED BY <1>1, <2>3, <4>3, <5>2
      <4> QED BY <4>2, <4>3
    <3> QED BY <3>1 DEF Distinct
  <2>6. ~(at < Len(logs)) => Grown(logs, t)
    <3> SUFFICES ASSUME ~(at < Len(logs)) PROVE Grown(logs, t)
      OBVIOUS
    <3>1. at = Len(logs) /\ \A i \in 1..Len(logs) : t[i] = logs[i]
      <4>1. at = Len(logs)
        <5>1. Len(logs) \in Nat /\ at \in 0..Len(logs)
          BY <1>1
        <5> QED BY <5>1
      <4>2. \A i \in 1..Len(logs) : i \in 1..Len(t) /\ i <= at
        BY <1>1, <2>3, <4>1
      <4> QED BY <2>3, <4>1, <4>2
    <3>2. \A i \in 1..Len(logs) : Begins(logs[i].user, t[i].user) /\ Begins(logs[i].system, t[i].system)
      <4> TAKE i \in 1..Len(logs)
      <4>1. t[i] = logs[i] /\ logs[i].user \in Message /\ logs[i].system \in Message
        BY <1>1, <3>1, StepFields
      <4> QED BY <4>1, NothingBegins
    <3> QED BY <1>1, <2>3, <3>1, <3>2 DEF Grown
  <2>7. (at < Len(logs)) \in BOOLEAN
    BY <1>1
  <2> QED BY <1>2, <2>3, <2>4, <2>5, <2>6, <2>7
<1>4. CASE StepEnds
  <2>1. PICK i \in DOMAIN logs, s \in {"SUCCEEDED", "FAILED", "ABORTED"} :
          RunnerSends([logs EXCEPT ![i].status = s], FALSE)
    BY <1>4 DEF StepEnds
  <2> DEFINE new == [logs[i] EXCEPT !.status = s]
  <2>2. i \in 1..Len(logs) /\ logs[i] \in Step
    BY <1>1
  <2>3. new \in Step /\ new.name = logs[i].name /\ new.user = logs[i].user /\ new.system = logs[i].system
    BY <2>2 DEF Step
  <2>4. [logs EXCEPT ![i].status = s] = [logs EXCEPT ![i] = new]
    OBVIOUS
  <2> HIDE DEF new
  <2>5. Begins(logs[i].user, new.user) /\ Begins(logs[i].system, new.system)
    BY <2>2, <2>3, StepFields, NothingBegins
  <2>6. /\ [logs EXCEPT ![i] = new] \in Seq(Step) /\ Distinct([logs EXCEPT ![i] = new])
        /\ Grown(logs, [logs EXCEPT ![i] = new])
    BY <1>1, <2>2, <2>3, <2>5, StepChanged
  <2> QED BY <1>2, <2>1, <2>4, <2>6
<1>5. CASE StepSays
  <2>1. PICK i \in DOMAIN logs, u \in Message, s \in Message :
          RunnerSends([logs EXCEPT ![i].user = u, ![i].system = s],
                      ~(IsPrefixOf(logs[i].user, u) /\ IsPrefixOf(logs[i].system, s)))
    BY <1>5 DEF StepSays
  <2> DEFINE said == [logs[i] EXCEPT !.user = u]
             new == [said EXCEPT !.system = s]
             anew == ~(IsPrefixOf(logs[i].user, u) /\ IsPrefixOf(logs[i].system, s))
  <2>2. i \in 1..Len(logs) /\ logs[i] \in Step
    BY <1>1
  <2>3. said \in Step /\ said.name = logs[i].name /\ said.user = u
    BY <2>2 DEF Step
  <2>4. [logs EXCEPT ![i].user = u, ![i].system = s] = [logs EXCEPT ![i] = new]
    OBVIOUS
  <2> HIDE DEF said
  <2>5. new \in Step /\ new.name = logs[i].name /\ new.user = u /\ new.system = s
    BY <2>3 DEF Step
  <2> HIDE DEF new
  <2>6. ~anew => Begins(logs[i].user, new.user) /\ Begins(logs[i].system, new.system)
    BY <2>2, <2>5, StepFields, PrefixBegins
  <2>7. anew \in BOOLEAN /\ RunnerSends([logs EXCEPT ![i] = new], anew)
    BY <2>1, <2>4
  <2> HIDE DEF anew
  <2>8. /\ [logs EXCEPT ![i] = new] \in Seq(Step) /\ Distinct([logs EXCEPT ![i] = new])
        /\ ~anew => Grown(logs, [logs EXCEPT ![i] = new])
    BY <1>1, <2>2, <2>5, <2>6, StepChanged
  <2> QED BY <1>2, <2>7, <2>8
<1> QED BY <1>3, <1>4, <1>5 DEF RunnerStep

-----------------------------------------------------------------------------
(* What the command writes.                                                *)

(* What was written of a step before: the step at its place, or nothing. *)
LEMMA PreviousIs ==
  ASSUME written \in Seq(Step), NEW step \in Step, NEW i \in Nat \ {0}
  PROVE  LET prev == Previous(i, step)
         IN  /\ prev.name = step.name /\ prev.user \in Message /\ prev.system \in Message
             /\ \/ i \in 1..Len(written) /\ prev = written[i] /\ prev \in Step
                \/ prev.user = <<>> /\ prev.system = <<>> /\ prev.status = "none"
                   /\ ~(i \in 1..Len(written) /\ written[i].name = step.name)
<1>1. Len(written) \in Nat /\ \A j \in 1..Len(written) : written[j] \in Step
  BY StepTypes
<1>2. CASE i <= Len(written) /\ written[i].name = step.name
  <2>1. Previous(i, step) = written[i] /\ i \in 1..Len(written)
    BY <1>1, <1>2 DEF Previous
  <2>2. written[i] \in Step
    BY <1>1, <2>1
  <2>3. written[i].user \in Message /\ written[i].system \in Message
    BY <2>2, StepFields
  <2> QED BY <1>2, <2>1, <2>2, <2>3
<1>3. CASE ~(i <= Len(written) /\ written[i].name = step.name)
  <2>1. Previous(i, step) = Unwritten(step)
    BY <1>3 DEF Previous
  <2>2. /\ Unwritten(step).name = step.name /\ Unwritten(step).status = "none"
        /\ Unwritten(step).user = <<>> /\ Unwritten(step).system = <<>>
    BY DEF Unwritten
  <2>3. ~(i \in 1..Len(written) /\ written[i].name = step.name)
    BY <1>1, <1>3
  <2> QED BY <2>1, <2>2, <2>3, FollowAssumption
<1> QED BY <1>2, <1>3

(* Each step that was read is written with its messages, but a message for the admin     *)
(* only where it says something else.                                                     *)
LEMMA WrittenIs ==
  ASSUME written \in Seq(Step), fetched \in Seq(Step), WriteNew
  PROVE  /\ written' \in Seq(Step) /\ Len(written') = Len(fetched)
         /\ \A i \in 1..Len(fetched) :
              /\ written'[i].name = fetched[i].name /\ written'[i].status = fetched[i].status
              /\ written'[i].user = fetched[i].user
              /\ written'[i].system = IF ShowsSystem(fetched[i]) THEN fetched[i].system
                                      ELSE Previous(i, fetched[i]).system
<1>1. Len(fetched) \in Nat /\ DOMAIN fetched = 1..Len(fetched) /\ \A i \in 1..Len(fetched) : fetched[i] \in Step
  BY StepTypes
<1>2. written' = [i \in 1..Len(fetched) |-> WrittenOf(i)]
  BY <1>1 DEF WriteNew
<1>3. ASSUME NEW i \in 1..Len(fetched)
      PROVE  /\ WrittenOf(i) \in Step
             /\ WrittenOf(i).name = fetched[i].name /\ WrittenOf(i).status = fetched[i].status
             /\ WrittenOf(i).user = fetched[i].user
             /\ WrittenOf(i).system = IF ShowsSystem(fetched[i]) THEN fetched[i].system
                                      ELSE Previous(i, fetched[i]).system
  <2> DEFINE system == IF ShowsSystem(fetched[i]) THEN fetched[i].system ELSE Previous(i, fetched[i]).system
  <2>1. fetched[i] \in Step /\ i \in Nat \ {0}
    BY <1>1
  <2>2. Previous(i, fetched[i]).system \in Message
    BY <2>1, PreviousIs
  <2>3. system \in Message
    BY <2>1, <2>2, StepFields
  <2>4. WrittenOf(i) = [name |-> fetched[i].name, status |-> fetched[i].status, user |-> fetched[i].user,
                        system |-> system]
    BY DEF WrittenOf
  <2> HIDE DEF system
  <2>5. /\ WrittenOf(i) \in Step
        /\ WrittenOf(i).name = fetched[i].name /\ WrittenOf(i).status = fetched[i].status
        /\ WrittenOf(i).user = fetched[i].user /\ WrittenOf(i).system = system
    BY <2>1, <2>3, <2>4 DEF Step
  <2> QED BY <2>5 DEF system
<1>4. written' \in [1..Len(fetched) -> Step] /\ \A i \in 1..Len(fetched) : written'[i] = WrittenOf(i)
  BY <1>2, <1>3
<1>5. written' \in Seq(Step) /\ Len(written') = Len(fetched)
  BY <1>1, <1>4, AsSequence
<1> QED BY <1>3, <1>4, <1>5

(* At first nothing was written. *)
LEMMA FollowStarts == Init => FollowInv
<1> SUFFICES ASSUME Init PROVE FollowInv
  OBVIOUS
<1>1. FollowInit
  BY DEF Init
<1>2. PICK n \in StepName : logs = <<NewStepOf(n)>>
  BY <1>1 DEF FollowInit
<1>3. logs \in Seq(Step) /\ Len(logs) = 1
  BY <1>2, NewStepType
<1>4. Distinct(logs)
  BY <1>3 DEF Distinct
<1>5. <<>> \in Seq(Step) /\ Len(<<>>) = 0
  BY EmptySeq
<1>6. Distinct(<<>>)
  BY <1>5 DEF Distinct
<1>7. 0 <= Cardinality(StepName)
  BY <1>5, <1>6, StepsAreFew
<1>8. 0 \in 0..MaxUpdates /\ 0 \in 0..MaxRuns
  BY FollowAssumption, BlockAssumption
<1>9. /\ written = <<>> /\ fetched = <<>> /\ followPc = "idle" /\ followed = 0 /\ followEnd = "none"
      /\ failedInARow = 0 /\ updates = 0 /\ rewritten = FALSE /\ status = "none" /\ readOnce = FALSE
      /\ repeated = FALSE
  BY <1>1 DEF FollowInit
<1>10. failedInARow < MaxFailedPollsInARow /\ failedInARow \in 0..MaxFailedPollsInARow
  BY <1>9 DEF MaxFailedPollsInARow
<1>11. Len(written) <= Cardinality(StepName) /\ fetched \in Seq(Step)
  BY <1>5, <1>7, <1>9
<1>12. FollowTypeOK
  BY <1>3, <1>8, <1>9, <1>10, <1>11 DEF FollowTypeOK
<1> QED BY <1>4, <1>5, <1>6, <1>9, <1>10, <1>12 DEF FollowInv

(* The reads of the command. *)
LEMMA FollowKeeps ==
  ASSUME BlockInv, FollowInv, FollowStep
  PROVE  FollowInv'
<1>1. /\ \A r \in DOMAIN runs : r \in 0..MaxRuns /\ runs[r].status \in {"PENDING", "IN_PROGRESS", "SUCCEEDED", "FAILED"}
      /\ <<>> \in Seq(Step) /\ Distinct(<<>>) /\ failedInARow \in Nat
  <2>1. \A r \in DOMAIN runs : r \in 0..MaxRuns /\ runs[r] \in Run
    BY RunTypes, BlockAssumption DEF BlockInv
  <2>2. Distinct(<<>>)
    BY EmptySeq DEF Distinct
  <2> QED BY <2>1, <2>2 DEF FollowInv, FollowTypeOK, Run, MaxFailedPollsInARow
<1>2. UNCHANGED runs
  BY DEF FollowStep, Follow, ReadStatus, ReadLogs, Write, StopFollowing, ReadFails, blockVars
<1>3. CASE Follow
  <2>1. PICK r \in DOMAIN runs : followed' = r
    BY <1>3 DEF Follow
  <2>2. followed' \in 0..MaxRuns /\ followed' \in DOMAIN runs'
    BY <1>1, <1>2, <2>1
  <2>3. /\ UNCHANGED <<logs, updates, rewritten, status, fetched, readOnce, failedInARow, written,
                       followEnd, screen, repeated>>
        /\ followPc = "idle" /\ followPc' = "status"
    BY <1>3 DEF Follow, runnerVars
  <2> QED BY <2>2, <2>3 DEF FollowInv, FollowTypeOK, Distinct
<1>4. CASE ReadStatus
  <2>1. status' \in {"PENDING", "IN_PROGRESS", "SUCCEEDED", "FAILED"}
    BY <1>1, <1>4 DEF ReadStatus, FollowInv
  <2> QED BY <1>4, <2>1 DEF ReadStatus, FollowInv, FollowTypeOK, blockVars, runnerVars, Distinct
<1>5. CASE ReadLogs
  BY <1>5 DEF ReadLogs, FollowInv, FollowTypeOK, blockVars, runnerVars, Distinct
<1>6. CASE StopFollowing
  BY <1>6 DEF StopFollowing, FollowEnd, FollowInv, FollowTypeOK, blockVars, runnerVars, Distinct
<1>7. CASE \E refused \in BOOLEAN : ReadFails(refused)
  <2>1. /\ UNCHANGED <<blockVars, runnerVars, followed, status, fetched, readOnce, written, screen, repeated>>
        /\ followPc \in {"status", "logs"}
        /\ \/ followPc' = "done" /\ followEnd' = "refused" /\ failedInARow' = failedInARow
           \/ followPc' = "done" /\ followEnd' = "gaveUp" /\ failedInARow' = failedInARow + 1
           \/ followPc' = "status" /\ followEnd' = followEnd /\ failedInARow' = failedInARow + 1
              /\ failedInARow' # MaxFailedPollsInARow
    BY <1>7 DEF ReadFails, FollowEnd
  <2>2. failedInARow < MaxFailedPollsInARow
    BY <2>1 DEF FollowInv
  <2>3. /\ failedInARow' \in 0..MaxFailedPollsInARow
        /\ followPc' # "done" => failedInARow' < MaxFailedPollsInARow
    BY <1>1, <2>1, <2>2 DEF MaxFailedPollsInARow
  <2> QED BY <2>1, <2>3 DEF FollowInv, FollowTypeOK, blockVars, runnerVars, Distinct
<1>8. CASE Write
  <2>1. /\ followPc = "write" /\ WriteNew /\ Judge(status) /\ fetched' = <<>> /\ readOnce' = TRUE
        /\ failedInARow' = 0 /\ UNCHANGED <<blockVars, runnerVars, followed, status>>
    BY <1>8 DEF Write, Read
  <2>2. /\ written' \in Seq(Step) /\ Len(written') = Len(fetched)
        /\ \A i \in 1..Len(fetched) : written'[i].name = fetched[i].name
    BY <2>1, WrittenIs DEF FollowInv, FollowTypeOK
  <2>3. Distinct(written')
    BY <2>2 DEF FollowInv, Distinct
  <2>4. Len(written') <= Cardinality(StepName)
    BY <2>2, <2>3, StepsAreFew
  <2>5. /\ followPc' \in {"status", "done"} /\ (followPc' = "status" => followEnd' = followEnd)
        /\ followEnd' \in {followEnd, "succeeded", "failed", "aborted", "unknownStatus"}
    <3>1. status \in {"IN_PROGRESS", "SUCCEEDED", "FAILED"} \/ status \notin {"IN_PROGRESS", "SUCCEEDED", "FAILED"}
      OBVIOUS
    <3>2. CASE status = "IN_PROGRESS"
      BY <2>1, <3>2 DEF Judge
    <3>3. CASE status = "SUCCEEDED"
      BY <2>1, <3>3 DEF Judge, FollowEnd
    <3>4. CASE status = "FAILED"
      BY <2>1, <3>4 DEF Judge, FollowEnd, Failure
    <3>5. CASE status \notin {"IN_PROGRESS", "SUCCEEDED", "FAILED"}
      BY <2>1, <3>5 DEF Judge, FollowEnd
    <3> QED BY <3>1, <3>2, <3>3, <3>4, <3>5
  <2>6. repeated' \in BOOLEAN
    BY <2>1 DEF WriteNew, FollowInv, FollowTypeOK
  <2>7. FollowTypeOK'
    BY <1>1, <2>1, <2>2, <2>4, <2>5, <2>6 DEF FollowInv, FollowTypeOK, runnerVars, MaxFailedPollsInARow
  <2> QED BY <1>1, <1>2, <2>1, <2>2, <2>3, <2>5, <2>7 DEF FollowInv, runnerVars, MaxFailedPollsInARow
<1> QED BY <1>3, <1>4, <1>5, <1>6, <1>7, <1>8 DEF FollowStep

(* Following keeps what it has written in step with what it has read. *)
LEMMA FollowNext == BlockInv /\ FollowInv /\ [Next]_vars => FollowInv'
<1> SUFFICES ASSUME BlockInv, FollowInv, [Next]_vars PROVE FollowInv'
  OBVIOUS
<1>1. followed \in DOMAIN runs => followed \in DOMAIN runs'
  BY BlockNext DEF RunsGoOn
<1>2. CASE UNCHANGED followVars
  BY <1>1, <1>2 DEF followVars, FollowInv, FollowTypeOK, Distinct
<1>3. CASE RunnerStep
  <2>1. /\ logs' \in Seq(Step) /\ Distinct(logs')
        /\ updates' \in 0..MaxUpdates /\ rewritten' \in BOOLEAN
        /\ UNCHANGED <<blockVars, followPc, followed, status, fetched, readOnce, failedInARow,
                       written, followEnd, screen, repeated>>
    BY <1>3, RunnerKeeps
  <2> QED BY <1>1, <2>1 DEF FollowInv, FollowTypeOK, Distinct
<1>4. FollowStep \/ RunnerStep \/ UNCHANGED followVars
  BY DEF Next, MeshStackActs, Wait, Act, FollowLogs, vars
<1> QED BY <1>2, <1>3, <1>4, FollowKeeps

(* Every state of the commands on a building block has the types that are declared. *)
THEOREM BlockTypes == Spec => []TypeOK
<1>1. BlockInv /\ WaitInv /\ ActInv /\ FollowInv => TypeOK
  BY DEF BlockInv, WaitInv, ActInv, FollowInv, TypeOK
<1>2. Spec => [](BlockInv /\ WaitInv /\ ActInv /\ FollowInv)
  BY StatusNamesRuns, WaitStarts, WaitNext, ActStarts, ActNext, FollowStarts, FollowNext, PTL DEF Spec
<1> QED BY <1>1, <1>2, PTL

-----------------------------------------------------------------------------
(* What is on the screen.                                                  *)

StepShown(w) ==
  /\ StatusLine(w) \in screen
  /\ \A k \in 1..Len(w.user) : <<w.name, "user", k, w.user[k]>> \in screen
  /\ \A k \in 1..Len(w.system) : <<w.name, "system", k, w.system[k]>> \in screen

Ends == {"succeeded", "failed", "aborted"}

(* What was written is on the screen, and what was read of a run after its end is all    *)
(* that there will ever be of it.                                                         *)
ShownInv ==
  /\ \A i \in 1..Len(written) : StepShown(written[i])
  /\ followPc \in {"logs", "write"} /\ status \in Finished => runs[followed].status \in Finished
  /\ followPc = "write" /\ status \in Finished => fetched = logs
  /\ followEnd \in Ends => /\ followPc = "done" /\ runs[followed].status \in Finished
                           /\ \A i \in 1..Len(logs) : Shows(logs[i])

(* With the lines that are new, every line of a message is on the screen. *)
LEMMA LinesShown ==
  ASSUME NEW step, NEW kind, NEW old \in Message, NEW new \in Message, NEW before1, NEW after1,
         \A k \in 1..Len(old) : <<step.name, kind, k, old[k]>> \in before1,
         before1 \subseteq after1, NewLines(step, kind, old, new) \subseteq after1
  PROVE  \A k \in 1..Len(new) : <<step.name, kind, k, new[k]>> \in after1
<1> DEFINE kept == Kept(old, new)
<1>1. kept \in 0..Len(old) /\ kept <= Len(new) /\ (\A i \in 1..kept : old[i] = new[i]) /\ Len(old) \in Nat /\ Len(new) \in Nat
  BY KeptIsCommon, MessageTypes
<1>2. NewLines(step, kind, old, new) = {<<step.name, kind, k, new[k]>> : k \in kept + 1..Len(new)}
  BY DEF NewLines
<1> HIDE DEF kept
<1> TAKE k \in 1..Len(new)
<1>3. CASE k <= kept
  BY <1>1, <1>3
<1>4. CASE k > kept
  <2>1. k \in kept + 1..Len(new)
    BY <1>1, <1>4
  <2> QED BY <1>2, <2>1
<1> QED BY <1>1, <1>3, <1>4

(* A write leaves nothing out: the lines that it does not write were written before. *)
LEMMA WriteShows ==
  ASSUME FollowInv, \A i \in 1..Len(written) : StepShown(written[i]), WriteNew
  PROVE  /\ \A i \in 1..Len(written') : StepShown(written[i])'
         /\ \A s \in Step : (\E i \in 1..Len(fetched) : s = fetched[i]) => Shows(s)'
<1>1. /\ written \in Seq(Step) /\ fetched \in Seq(Step)
      /\ Len(fetched) \in Nat /\ DOMAIN fetched = 1..Len(fetched) /\ \A i \in 1..Len(fetched) : fetched[i] \in Step
  BY StepTypes DEF FollowInv, FollowTypeOK
<1>2. /\ Len(written') = Len(fetched)
      /\ \A i \in 1..Len(fetched) :
           /\ written'[i].name = fetched[i].name /\ written'[i].status = fetched[i].status
           /\ written'[i].user = fetched[i].user
           /\ written'[i].system = IF ShowsSystem(fetched[i]) THEN fetched[i].system
                                   ELSE Previous(i, fetched[i]).system
  BY <1>1, WrittenIs
<1>3. /\ screen \subseteq screen'
      /\ \A i \in 1..Len(fetched) :
           /\ LinesOf(i) \subseteq screen'
           /\ Previous(i, fetched[i]).status # fetched[i].status => StatusLine(fetched[i]) \in screen'
  <2> DEFINE stati == {StatusLine(fetched[i]) : i \in {j \in DOMAIN fetched :
                                                   Previous(j, fetched[j]).status # fetched[j].status}}
             lines == UNION {LinesOf(i) : i \in DOMAIN fetched}
  <2>1. screen' = screen \cup lines \cup stati
    BY DEF WriteNew
  <2>2. \A i \in DOMAIN fetched : LinesOf(i) \subseteq lines
    OBVIOUS
  <2>3. \A i \in DOMAIN fetched :
          Previous(i, fetched[i]).status # fetched[i].status => StatusLine(fetched[i]) \in stati
    OBVIOUS
  <2> HIDE DEF lines, stati
  <2> QED BY <1>1, <2>1, <2>2, <2>3
<1>4. ASSUME NEW i \in 1..Len(fetched)
      PROVE  StepShown(written[i])' /\ \A s \in Step : s = fetched[i] => Shows(s)'
  <2> DEFINE step == fetched[i]
             prev == Previous(i, step)
  <2>1. /\ prev.name = step.name /\ prev.user \in Message /\ prev.system \in Message
        /\ \/ i \in 1..Len(written) /\ prev = written[i] /\ prev \in Step
           \/ prev.user = <<>> /\ prev.system = <<>> /\ prev.status = "none"
    BY <1>1, PreviousIs
  <2>2. step \in Step /\ step.user \in Message /\ step.system \in Message /\ step.status # "none"
    BY <1>1, StepFields
  <2>3. /\ NewLines(step, "user", prev.user, step.user) \subseteq LinesOf(i)
        /\ ShowsSystem(step) => NewLines(step, "system", prev.system, step.system) \subseteq LinesOf(i)
    <3>1. LinesOf(i) = NewLines(step, "user", prev.user, step.user)
                         \cup IF ShowsSystem(step) THEN NewLines(step, "system", prev.system, step.system) ELSE {}
      BY DEF LinesOf
    <3> HIDE DEF step, prev
    <3> QED BY <3>1
  <2>4. /\ written'[i].name = step.name /\ written'[i].status = step.status /\ written'[i].user = step.user
        /\ written'[i].system = IF ShowsSystem(step) THEN step.system ELSE prev.system
    BY <1>2
  <2>5. /\ LinesOf(i) \subseteq screen'
        /\ prev.status # step.status => StatusLine(step) \in screen'
    BY <1>3
  <2> HIDE DEF step, prev
  <2>6. /\ \A k \in 1..Len(prev.user) : <<step.name, "user", k, prev.user[k]>> \in screen
        /\ \A k \in 1..Len(prev.system) : <<step.name, "system", k, prev.system[k]>> \in screen
        /\ prev.status = step.status => StatusLine(step) \in screen
    <3>1. CASE i \in 1..Len(written) /\ prev = written[i]
      <4>1. StepShown(prev)
        BY <3>1
      <4> QED BY <2>1, <4>1 DEF StepShown, StatusLine
    <3>2. CASE prev.user = <<>> /\ prev.system = <<>> /\ prev.status = "none"
      BY <2>2, <3>2, EmptySeq
    <3> QED BY <2>1, <3>1, <3>2
  <2>7. StatusLine(step) \in screen'
    BY <1>3, <2>5, <2>6
  <2>8. \A k \in 1..Len(step.user) : <<step.name, "user", k, step.user[k]>> \in screen'
    <3>1. NewLines(step, "user", prev.user, step.user) \subseteq screen'
      BY <2>3, <2>5
    <3>2. \A k \in 1..Len(prev.user) : <<step.name, "user", k, prev.user[k]>> \in screen
      BY <2>6
    <3>3. screen \subseteq screen' /\ prev.user \in Message /\ step.user \in Message
      BY <1>3, <2>1, <2>2
    <3> QED BY <3>1, <3>2, <3>3, LinesShown
  <2>9. ShowsSystem(step) => \A k \in 1..Len(step.system) : <<step.name, "system", k, step.system[k]>> \in screen'
    <3> SUFFICES ASSUME ShowsSystem(step)
                 PROVE  \A k \in 1..Len(step.system) : <<step.name, "system", k, step.system[k]>> \in screen'
      OBVIOUS
    <3>1. NewLines(step, "system", prev.system, step.system) \subseteq screen'
      BY <2>3, <2>5
    <3>2. \A k \in 1..Len(prev.system) : <<step.name, "system", k, prev.system[k]>> \in screen
      BY <2>6
    <3>3. screen \subseteq screen' /\ prev.system \in Message /\ step.system \in Message
      BY <1>3, <2>1, <2>2
    <3> QED BY <3>1, <3>2, <3>3, LinesShown
  <2>10. StatusLine(written'[i]) \in screen'
    BY <2>4, <2>7 DEF StatusLine
  <2>11. \A k \in 1..Len(written'[i].user) : <<written'[i].name, "user", k, written'[i].user[k]>> \in screen'
    BY <2>4, <2>8
  <2>12. \A k \in 1..Len(written'[i].system) : <<written'[i].name, "system", k, written'[i].system[k]>> \in screen'
    <3>1. CASE ShowsSystem(step)
      BY <2>4, <2>9, <3>1
    <3>2. CASE ~ShowsSystem(step)
      BY <1>3, <2>4, <2>6, <3>2
    <3> QED BY <3>1, <3>2
  <2>13. StepShown(written[i])'
    BY <2>10, <2>11, <2>12 DEF StepShown, StatusLine
  <2>14. DOMAIN step.user = 1..Len(step.user) /\ DOMAIN step.system = 1..Len(step.system)
    BY <2>2, MessageTypes
  <2>15. step.system # step.user => \A k \in 1..Len(step.system) : <<step.name, "system", k, step.system[k]>> \in screen'
    <3>1. step.system = <<>> => Len(step.system) = 0
      BY EmptySeq
    <3> QED BY <2>9, <3>1 DEF ShowsSystem
  <2>16. \A s \in Step : s = step => Shows(s)'
    BY <2>7, <2>8, <2>14, <2>15 DEF Shows, StatusLine
  <2> QED BY <2>13, <2>16 DEF step
<1> QED BY <1>2, <1>4

(* At first there is no end to show. *)
LEMMA ShownStarts == Init => ShownInv
<1> SUFFICES ASSUME Init PROVE ShownInv
  OBVIOUS
<1>1. written = <<>> /\ followPc = "idle" /\ followEnd = "none"
  BY DEF Init, FollowInit
<1>2. Len(<<>>) = 0
  BY EmptySeq
<1> QED BY <1>1, <1>2 DEF ShownInv, Ends

(* A run that has ended stays that way, and its runner sends nothing more. *)
LEMMA EndStays ==
  ASSUME BlockInv, FollowInv, [Next]_vars, followed \in DOMAIN runs, runs[followed].status \in Finished
  PROVE  runs'[followed].status \in Finished
BY BlockNext DEF RunsGoOn

(* What the screen lacks of the logs is what a later read brings. *)
LEMMA ShownNext == BlockInv /\ FollowInv /\ ShownInv /\ [Next]_vars => ShownInv'
<1> SUFFICES ASSUME BlockInv, FollowInv, ShownInv, [Next]_vars PROVE ShownInv'
  OBVIOUS
<1>1. /\ followPc # "idle" => followed \in DOMAIN runs
      /\ followed \in DOMAIN runs /\ runs[followed].status \in Finished => runs'[followed].status \in Finished
  BY EndStays DEF FollowInv
<1>2. CASE UNCHANGED followVars
  <2>1. UNCHANGED <<logs, written, screen, followPc, status, fetched, followEnd, followed>>
    BY <1>2 DEF followVars
  <2>2. \A i \in 1..Len(written') : StepShown(written[i])'
    BY <2>1 DEF ShownInv, StepShown, StatusLine
  <2>3. (\A i \in 1..Len(logs) : Shows(logs[i])) => \A i \in 1..Len(logs') : Shows(logs[i])'
    BY <2>1 DEF Shows
  <2>4. followPc \in {"logs", "write"} \/ followPc = "done" => followPc # "idle"
    OBVIOUS
  <2> QED BY <1>1, <2>1, <2>2, <2>3, <2>4 DEF ShownInv
<1>3. CASE RunnerStep
  <2>1. /\ followPc # "done" /\ runs[followed].status = "IN_PROGRESS"
        /\ UNCHANGED <<runs, written, screen, followPc, status, fetched, followEnd, followed>>
    BY <1>3, RunnerKeeps DEF blockVars
  <2>2. \A i \in 1..Len(written') : StepShown(written[i])'
    BY <2>1 DEF ShownInv, StepShown, StatusLine
  <2>3. "IN_PROGRESS" \notin Finished
    BY DEF Finished
  <2> QED BY <2>1, <2>2, <2>3 DEF ShownInv
<1>4. CASE FollowStep
  <2>1. UNCHANGED <<runs, logs>>
    BY <1>4 DEF FollowStep, Follow, ReadStatus, ReadLogs, Write, StopFollowing, ReadFails, blockVars, runnerVars
  <2>2. followEnd = "none" \/ followPc = "done"
    BY DEF FollowInv
  <2>3. CASE Write
    <3>1. /\ followPc = "write" /\ WriteNew /\ Judge(status) /\ UNCHANGED <<logs, followed>>
      BY <2>3 DEF Write, Read, runnerVars
    <3>2. /\ \A i \in 1..Len(written') : StepShown(written[i])'
          /\ \A s \in Step : (\E i \in 1..Len(fetched) : s = fetched[i]) => Shows(s)'
      BY <3>1, WriteShows DEF ShownInv
    <3>3. followPc' \in {"status", "done"} /\ (followEnd' \in Ends => status \in Finished /\ followPc' = "done")
      <4>1. CASE status = "IN_PROGRESS"
        BY <2>2, <3>1, <4>1 DEF Judge, Ends
      <4>2. CASE status \in Finished
        BY <3>1, <4>2 DEF Judge, FollowEnd, Finished
      <4>3. CASE status \notin {"IN_PROGRESS", "SUCCEEDED", "FAILED"}
        BY <3>1, <4>3 DEF Judge, FollowEnd, Ends
      <4> QED BY <4>1, <4>2, <4>3 DEF Finished
    <3>4. status \in Finished => runs[followed].status \in Finished /\ fetched = logs
      BY <3>1 DEF ShownInv
    <3>5. followEnd' \in Ends => runs'[followed'].status \in Finished
      BY <2>1, <3>1, <3>3, <3>4
    <3>6. followEnd' \in Ends => \A i \in 1..Len(logs') : Shows(logs[i])'
      <4> SUFFICES ASSUME followEnd' \in Ends, NEW i \in 1..Len(logs') PROVE Shows(logs[i])'
        OBVIOUS
      <4>1. fetched = logs /\ i \in 1..Len(logs)
        BY <2>1, <3>3, <3>4
      <4>2. PICK s \in Step : s = logs[i]
        BY <4>1, StepTypes DEF FollowInv, FollowTypeOK
      <4>3. Shows(s)'
        BY <3>2, <4>1, <4>2
      <4> QED BY <2>1, <4>2, <4>3 DEF Shows
    <3> QED BY <3>2, <3>3, <3>5, <3>6 DEF ShownInv
  <2>4. CASE ~Write
    <3>1. UNCHANGED <<written, screen>>
      BY <1>4, <2>4 DEF FollowStep, Follow, ReadStatus, ReadLogs, StopFollowing, ReadFails
    <3>2. \A i \in 1..Len(written') : StepShown(written[i])'
      BY <3>1 DEF ShownInv, StepShown, StatusLine
    <3>3. followEnd' \notin Ends /\ followPc # "done"
      BY <1>4, <2>2, <2>4 DEF FollowStep, Follow, ReadStatus, ReadLogs, StopFollowing, ReadFails, FollowEnd, Ends
    <3>4. followPc' \in {"logs", "write"} /\ status' \in Finished => runs'[followed'].status \in Finished
      <4>1. CASE ReadStatus
        BY <2>1, <4>1 DEF ReadStatus
      <4>2. CASE ReadLogs
        BY <2>1, <4>2 DEF ReadLogs, ShownInv
      <4>3. CASE ~ReadStatus /\ ~ReadLogs
        BY <1>4, <2>4, <4>3 DEF FollowStep, Follow, StopFollowing, ReadFails, FollowEnd
      <4> QED BY <4>1, <4>2, <4>3
    <3>5. followPc' = "write" => fetched' = logs'
      BY <1>4, <2>1, <2>4 DEF FollowStep, Follow, ReadStatus, ReadLogs, StopFollowing, ReadFails, FollowEnd
    <3> QED BY <3>2, <3>3, <3>4, <3>5 DEF ShownInv
  <2> QED BY <2>3, <2>4
<1>5. FollowStep \/ RunnerStep \/ UNCHANGED followVars
  BY DEF Next, MeshStackActs, Wait, Act, FollowLogs, vars
<1> QED BY <1>2, <1>3, <1>4, <1>5

(* A follow that ends with the run has shown everything that the run ever said last. *)
THEOREM AllIsShown == Spec => []FinishedIsShown
<1>1. FollowInv /\ ShownInv => FinishedIsShown
  <2>1. FollowInv => DOMAIN logs = 1..Len(logs)
    BY StepTypes DEF FollowInv, FollowTypeOK
  <2> QED BY <2>1 DEF ShownInv, FinishedIsShown, Ends
<1>2. Spec => []FollowInv
  BY StatusNamesRuns, FollowStarts, FollowNext, PTL DEF Spec
<1>3. Spec => []ShownInv
  BY <1>2, StatusNamesRuns, ShownStarts, ShownNext, PTL DEF Spec
<1> QED BY <1>1, <1>2, <1>3, PTL

-----------------------------------------------------------------------------
(* While messages only grow.                                               *)

Said(step, kind) == IF kind = "user" THEN step.user ELSE step.system

(* The lines on the screen are of what was written last. *)
ScreenWritten ==
  \A l \in screen : l[2] # "status" =>
    /\ l[3] \in Nat
    /\ \E j \in 1..Len(written) : written[j].name = l[1] /\ l[3] <= Len(Said(written[j], l[2]))

(* What was written, what was read and what the runner has sent grow in this order. *)
GrowInv ==
  ~rewritten =>
    /\ ~repeated /\ Grown(written, logs) /\ ScreenWritten
    /\ followPc = "write" => Grown(written, fetched) /\ Grown(fetched, logs)

(* Steps that grow twice have grown. *)
LEMMA GrownOnward ==
  ASSUME NEW s \in Seq(Step), NEW t \in Seq(Step), NEW u \in Seq(Step), Grown(s, t), Grown(t, u)
  PROVE  Grown(s, u)
<1>1. /\ Len(s) \in Nat /\ Len(t) \in Nat /\ Len(u) \in Nat /\ Len(s) <= Len(t) /\ Len(t) <= Len(u)
      /\ \A i \in 1..Len(s) : s[i] \in Step
      /\ \A i \in 1..Len(t) : t[i] \in Step
      /\ \A i \in 1..Len(u) : u[i] \in Step
  BY StepTypes DEF Grown
<1>2. ASSUME NEW i \in 1..Len(s)
      PROVE  s[i].name = u[i].name /\ Begins(s[i].user, u[i].user) /\ Begins(s[i].system, u[i].system)
  <2>1. i \in 1..Len(t) /\ i \in 1..Len(u)
    BY <1>1
  <2>2. s[i] \in Step /\ t[i] \in Step /\ u[i] \in Step
    BY <1>1, <2>1
  <2>3. /\ s[i].name = t[i].name /\ Begins(s[i].user, t[i].user) /\ Begins(s[i].system, t[i].system)
        /\ t[i].name = u[i].name /\ Begins(t[i].user, u[i].user) /\ Begins(t[i].system, u[i].system)
    BY <2>1 DEF Grown
  <2>4. /\ s[i].user \in Message /\ s[i].system \in Message /\ t[i].user \in Message
        /\ t[i].system \in Message /\ u[i].user \in Message /\ u[i].system \in Message
    BY <2>2, StepFields
  <2> QED BY <2>3, <2>4, BeginsOnward
<1>3. Len(s) <= Len(u)
  BY <1>1
<1> QED BY <1>2, <1>3 DEF Grown

(* Steps grow from none, and from themselves. *)
LEMMA GrownSame == \A s \in Seq(Step) : Grown(<<>>, s) /\ Grown(s, s)
<1>1. ASSUME NEW s \in Seq(Step) PROVE Grown(s, s)
  <2>1. Len(s) \in Nat /\ \A i \in 1..Len(s) : s[i].user \in Message /\ s[i].system \in Message
    BY StepTypes, StepFields
  <2> QED BY <2>1, NothingBegins DEF Grown
<1>2. ASSUME NEW s \in Seq(Step) PROVE Grown(<<>>, s)
  BY StepTypes, EmptySeq DEF Grown
<1> QED BY <1>1, <1>2

(* The lines that a step has more than when it was written last. *)
LEMMA LinesAre ==
  ASSUME written \in Seq(Step), fetched \in Seq(Step), Grown(written, fetched),
         NEW i \in 1..Len(fetched), NEW l \in LinesOf(i)
  PROVE  /\ l[1] = fetched[i].name /\ l[2] \in {"user", "system"} /\ l[3] \in Nat
         /\ l[3] <= Len(Said(fetched[i], l[2]))
         /\ i \in 1..Len(written) => l[3] > Len(Said(written[i], l[2]))
         /\ l[2] = "system" => ShowsSystem(fetched[i])
<1> DEFINE step == fetched[i]
           prev == Previous(i, step)
<1>1. step \in Step /\ i \in Nat \ {0}
  BY StepTypes
<1>2. /\ prev.user \in Message /\ prev.system \in Message
      /\ \/ i \in 1..Len(written) /\ prev = written[i]
         \/ prev.user = <<>> /\ prev.system = <<>> /\ ~(i \in 1..Len(written) /\ written[i].name = step.name)
  BY <1>1, PreviousIs
<1>3. i \in 1..Len(written) => written[i].name = step.name /\ Begins(written[i].user, step.user)
                               /\ Begins(written[i].system, step.system)
  BY DEF Grown
<1>4. step.user \in Message /\ step.system \in Message
  BY <1>1, StepFields
<1>5. \/ l \in NewLines(step, "user", prev.user, step.user)
      \/ ShowsSystem(step) /\ l \in NewLines(step, "system", prev.system, step.system)
  <2>1. LinesOf(i) = NewLines(step, "user", prev.user, step.user)
                       \cup IF ShowsSystem(step) THEN NewLines(step, "system", prev.system, step.system) ELSE {}
    BY DEF LinesOf
  <2> HIDE DEF step, prev
  <2> QED BY <2>1
<1>6. i \in 1..Len(written) => prev = written[i]
  BY <1>2, <1>3
<1>7. Begins(prev.user, step.user) /\ Begins(prev.system, step.system)
  BY <1>2, <1>3, <1>4, NothingBegins
<1> HIDE DEF step, prev
<1>8. ASSUME NEW kind, NEW old \in Message, NEW new \in Message, Begins(old, new),
             l \in NewLines(step, kind, old, new)
      PROVE  l[1] = step.name /\ l[2] = kind /\ l[3] \in Nat /\ l[3] <= Len(new) /\ l[3] > Len(old)
  <2>1. Kept(old, new) = Len(old) /\ Len(old) \in Nat /\ Len(new) \in Nat
    BY <1>8, KeptOfGrown, MessageTypes
  <2>2. PICK k \in Len(old) + 1..Len(new) : l = <<step.name, kind, k, new[k]>>
    BY <1>8, <2>1 DEF NewLines
  <2> QED BY <2>1, <2>2
<1>9. CASE l \in NewLines(step, "user", prev.user, step.user)
  <2>1. l[1] = step.name /\ l[2] = "user" /\ l[3] \in Nat /\ l[3] <= Len(step.user) /\ l[3] > Len(prev.user)
    BY <1>2, <1>4, <1>7, <1>8, <1>9
  <2> QED BY <1>6, <2>1 DEF Said, step
<1>10. CASE ShowsSystem(step) /\ l \in NewLines(step, "system", prev.system, step.system)
  <2>1. l[1] = step.name /\ l[2] = "system" /\ l[3] \in Nat /\ l[3] <= Len(step.system) /\ l[3] > Len(prev.system)
    BY <1>2, <1>4, <1>7, <1>8, <1>10
  <2> QED BY <1>6, <1>10, <2>1 DEF Said, step
<1> QED BY <1>5, <1>9, <1>10

(* A write of what has grown writes new lines only, and keeps count of them. *)
LEMMA WriteGrows ==
  ASSUME FollowInv, rewritten = FALSE, GrowInv, followPc = "write", WriteNew
  PROVE  /\ ~repeated' /\ Grown(written', fetched) /\ ScreenWritten'
<1>1. /\ written \in Seq(Step) /\ fetched \in Seq(Step) /\ Distinct(fetched)
      /\ Grown(written, fetched) /\ ScreenWritten /\ ~repeated
  BY DEF FollowInv, FollowTypeOK, GrowInv
<1>2. /\ Len(written) \in Nat /\ Len(fetched) \in Nat /\ Len(written) <= Len(fetched)
      /\ DOMAIN fetched = 1..Len(fetched)
      /\ \A i \in 1..Len(fetched) : fetched[i].user \in Message /\ fetched[i].system \in Message
      /\ \A i \in 1..Len(written) : written[i].user \in Message /\ written[i].system \in Message
  BY <1>1, StepTypes, StepFields DEF Grown
<1>3. \A i \in 1..Len(written) :
        /\ i \in 1..Len(fetched) /\ written[i].name = fetched[i].name
        /\ Begins(written[i].user, fetched[i].user) /\ Begins(written[i].system, fetched[i].system)
  BY <1>1, <1>2 DEF Grown
<1>4. /\ Len(written') = Len(fetched)
      /\ \A i \in 1..Len(fetched) :
           /\ written'[i].name = fetched[i].name /\ written'[i].user = fetched[i].user
           /\ written'[i].system = IF ShowsSystem(fetched[i]) THEN fetched[i].system
                                   ELSE Previous(i, fetched[i]).system
  BY <1>1, WrittenIs
<1>5. ~repeated'
  <2>1. ASSUME NEW i \in 1..Len(fetched), NEW l \in LinesOf(i), l \in screen
        PROVE  FALSE
    <3>1. /\ l[1] = fetched[i].name /\ l[2] \in {"user", "system"} /\ l[3] \in Nat
          /\ i \in 1..Len(written) => l[3] > Len(Said(written[i], l[2]))
      BY <1>1, LinesAre
    <3>2. PICK j \in 1..Len(written) : written[j].name = l[1] /\ l[3] <= Len(Said(written[j], l[2]))
      BY <1>1, <2>1, <3>1 DEF ScreenWritten
    <3>3. j = i
      BY <1>1, <1>3, <3>1, <3>2 DEF Distinct
    <3>4. Len(Said(written[j], l[2])) \in Nat
      BY <1>2, MessageTypes DEF Said
    <3> QED BY <3>1, <3>2, <3>3, <3>4
  <2>2. \A i \in 1..Len(fetched) : LinesOf(i) \cap screen = {}
    BY <2>1
  <2> QED BY <1>1, <1>2, <2>2 DEF WriteNew
<1>6. \A i \in 1..Len(fetched) : Begins(written'[i].system, fetched[i].system)
  <2> TAKE i \in 1..Len(fetched)
  <2>1. fetched[i] \in Step /\ i \in Nat \ {0}
    BY <1>1, <1>2, StepTypes
  <2>2. Begins(Previous(i, fetched[i]).system, fetched[i].system)
    <3>1. \/ i \in 1..Len(written) /\ Previous(i, fetched[i]) = written[i]
          \/ Previous(i, fetched[i]).system = <<>>
      BY <1>1, <2>1, PreviousIs
    <3> QED BY <1>2, <1>3, <3>1, NothingBegins
  <2> QED BY <1>2, <1>4, <2>2, NothingBegins
<1>7. Grown(written', fetched)
  <2>1. \A i \in 1..Len(fetched) : Begins(fetched[i].user, fetched[i].user)
    BY <1>2, NothingBegins
  <2> QED BY <1>2, <1>4, <1>6, <2>1 DEF Grown
<1>8. ASSUME NEW l \in screen', l[2] # "status"
      PROVE  /\ l[3] \in Nat
             /\ \E j \in 1..Len(written') : written'[j].name = l[1] /\ l[3] <= Len(Said(written'[j], l[2]))
  <2> DEFINE stati == {StatusLine(fetched[i]) : i \in {j \in DOMAIN fetched :
                                                   Previous(j, fetched[j]).status # fetched[j].status}}
             lines == UNION {LinesOf(i) : i \in DOMAIN fetched}
  <2>1. l \in screen \/ l \in lines
    <3>1. screen' = screen \cup lines \cup stati
      BY DEF WriteNew
    <3>2. l \notin stati
      BY <1>8 DEF StatusLine
    <3> HIDE DEF lines, stati
    <3> QED BY <3>1, <3>2
  <2>2. CASE l \in screen
    <3>1. PICK j \in 1..Len(written) : written[j].name = l[1] /\ l[3] <= Len(Said(written[j], l[2]))
      BY <1>1, <1>8, <2>2 DEF ScreenWritten
    <3>2. written'[j].name = l[1] /\ j \in 1..Len(written')
      BY <1>3, <1>4, <3>1
    <3>3. Len(written[j].user) <= Len(written'[j].user)
      BY <1>3, <1>4 DEF Begins
    <3>4. Len(written[j].system) <= Len(written'[j].system)
      <4>1. CASE ShowsSystem(fetched[j])
        BY <1>3, <1>4, <4>1 DEF Begins
      <4>2. CASE ~ShowsSystem(fetched[j])
        <5>1. j <= Len(written) /\ written[j].name = fetched[j].name
          BY <1>2, <1>3
        <5>2. Previous(j, fetched[j]) = written[j]
          BY <5>1 DEF Previous
        <5> QED BY <1>2, <1>3, <1>4, <4>2, <5>2, MessageTypes
      <4> QED BY <4>1, <4>2
    <3>5. l[3] <= Len(Said(written'[j], l[2]))
      <4>1. /\ Len(written[j].user) \in Nat /\ Len(written[j].system) \in Nat
            /\ Len(written'[j].user) \in Nat /\ Len(written'[j].system) \in Nat
        <5>1. written'[j] \in Step
          BY <1>1, <1>3, <1>4, WrittenIs, StepTypes
        <5>2. written'[j].user \in Message /\ written'[j].system \in Message
          BY <5>1, StepFields
        <5> QED BY <1>2, <5>2, MessageTypes
      <4>2. l[3] \in Nat
        BY <1>1, <1>8, <2>2 DEF ScreenWritten
      <4>3. CASE l[2] = "user"
        <5>1. l[3] <= Len(written[j].user) /\ Said(written'[j], l[2]) = written'[j].user
          BY <3>1, <4>3 DEF Said
        <5>2. l[3] <= Len(written'[j].user)
          BY <3>3, <4>1, <4>2, <5>1
        <5> QED BY <5>1, <5>2
      <4>4. CASE l[2] # "user"
        <5>1. l[3] <= Len(written[j].system) /\ Said(written'[j], l[2]) = written'[j].system
          BY <3>1, <4>4 DEF Said
        <5>2. l[3] <= Len(written'[j].system)
          BY <3>4, <4>1, <4>2, <5>1
        <5> QED BY <5>1, <5>2
      <4> QED BY <4>3, <4>4
    <3>6. l[3] \in Nat
      BY <1>1, <1>8, <2>2 DEF ScreenWritten
    <3> QED BY <3>2, <3>5, <3>6
  <2>3. CASE l \in lines
    <3>1. PICK i \in 1..Len(fetched) : l \in LinesOf(i)
      <4>1. PICK i \in DOMAIN fetched : l \in LinesOf(i)
        BY <2>3
      <4> QED BY <1>2, <4>1
    <3>2. /\ l[1] = fetched[i].name /\ l[2] \in {"user", "system"}
          /\ l[3] \in Nat /\ l[3] <= Len(Said(fetched[i], l[2]))
          /\ l[2] = "system" => ShowsSystem(fetched[i])
      BY <1>1, <3>1, LinesAre
    <3>3. Said(written'[i], l[2]) = Said(fetched[i], l[2])
      BY <1>4, <3>2 DEF Said
    <3>4. i \in 1..Len(written') /\ written'[i].name = l[1]
      BY <1>4, <3>2
    <3> QED BY <3>2, <3>3, <3>4
  <2> QED BY <2>1, <2>2, <2>3
<1> QED BY <1>5, <1>7, <1>8 DEF ScreenWritten

(* The command has written nothing at first. *)
LEMMA GrowStarts == Init => FollowInv /\ GrowInv
<1> SUFFICES ASSUME Init PROVE FollowInv /\ GrowInv
  OBVIOUS
<1>1. FollowInv
  BY FollowStarts
<1>2. written = <<>> /\ screen = {} /\ ~repeated /\ followPc = "idle"
  BY DEF Init, FollowInit
<1>3. Grown(written, logs)
  BY <1>1, <1>2, GrownSame DEF FollowInv, FollowTypeOK
<1> QED BY <1>1, <1>2, <1>3 DEF GrowInv, ScreenWritten

(* Every step goes on from what was written, and a rewritten message is remembered. *)
LEMMA GrowNext == BlockInv /\ FollowInv /\ GrowInv /\ [Next]_vars => GrowInv'
<1> SUFFICES ASSUME BlockInv, FollowInv, GrowInv, [Next]_vars, ~rewritten'
             PROVE  /\ ~repeated' /\ Grown(written, logs)' /\ ScreenWritten'
                    /\ followPc' = "write" => Grown(written, fetched)' /\ Grown(fetched, logs)'
  BY DEF GrowInv
<1>1. written \in Seq(Step) /\ fetched \in Seq(Step) /\ logs \in Seq(Step) /\ rewritten \in BOOLEAN
  BY DEF FollowInv, FollowTypeOK
<1>2. /\ written' \in Seq(Step) /\ fetched' \in Seq(Step) /\ logs' \in Seq(Step)
  <2>1. FollowInv'
    BY FollowNext
  <2> QED BY <2>1 DEF FollowInv, FollowTypeOK
<1>3. CASE UNCHANGED followVars
  BY <1>3 DEF followVars, GrowInv, Grown, ScreenWritten, Said
<1>4. CASE RunnerStep
  <2>1. /\ ~rewritten /\ Grown(logs, logs')
        /\ UNCHANGED <<followPc, fetched, written, screen, repeated>>
    BY <1>4, RunnerKeeps
  <2>2. ~repeated /\ Grown(written, logs) /\ ScreenWritten
    BY <2>1 DEF GrowInv
  <2>3. Grown(written, logs')
    BY <1>1, <1>2, <2>1, <2>2, GrownOnward
  <2>4. followPc = "write" => Grown(written, fetched) /\ Grown(fetched, logs')
    <3>1. followPc = "write" => Grown(written, fetched) /\ Grown(fetched, logs)
      BY <2>1 DEF GrowInv
    <3> QED BY <1>1, <1>2, <2>1, <3>1, GrownOnward
  <2>5. ScreenWritten'
    BY <2>1, <2>2 DEF ScreenWritten, Said
  <2>6. Grown(written, logs)' /\ (followPc' = "write" => Grown(written, fetched)' /\ Grown(fetched, logs)')
    BY <2>1, <2>3, <2>4 DEF Grown
  <2> QED BY <2>1, <2>2, <2>5, <2>6
<1>5. CASE FollowStep
  <2>1. UNCHANGED <<logs, rewritten>>
    BY <1>5 DEF FollowStep, Follow, ReadStatus, ReadLogs, Write, StopFollowing, ReadFails, runnerVars
  <2>2. ~rewritten /\ ~repeated /\ Grown(written, logs) /\ ScreenWritten
    BY <2>1 DEF GrowInv
  <2>3. CASE Write
    <3>1. followPc = "write" /\ WriteNew /\ Judge(status)
      BY <2>3 DEF Write, Read
    <3>2. ~repeated' /\ Grown(written', fetched) /\ ScreenWritten'
      BY <1>1, <2>2, <3>1, WriteGrows
    <3>3. Grown(fetched, logs)
      BY <2>2, <3>1 DEF GrowInv
    <3>4. Grown(written', logs)
      BY <1>1, <1>2, <3>2, <3>3, GrownOnward
    <3>5. followPc' # "write"
      BY <3>1 DEF Judge, FollowEnd
    <3>6. Grown(written, logs)'
      BY <2>1, <3>4 DEF Grown
    <3> QED BY <3>2, <3>5, <3>6
  <2>4. CASE ~Write
    <3>1. UNCHANGED <<written, screen, repeated>>
      BY <1>5, <2>4 DEF FollowStep, Follow, ReadStatus, ReadLogs, StopFollowing, ReadFails
    <3>2. ScreenWritten' /\ Grown(written, logs)'
      BY <2>1, <2>2, <3>1 DEF ScreenWritten, Said, Grown
    <3>3. followPc' = "write" => fetched' = logs
      BY <1>5, <2>4 DEF FollowStep, Follow, ReadStatus, ReadLogs, StopFollowing, ReadFails, FollowEnd
    <3>4. followPc' = "write" => Grown(written, fetched)' /\ Grown(fetched, logs)'
      <4>1. Grown(logs, logs)
        BY <1>1, GrownSame
      <4> QED BY <2>1, <2>2, <3>1, <3>3, <4>1 DEF Grown
    <3> QED BY <2>2, <3>1, <3>2, <3>4
  <2> QED BY <2>3, <2>4
<1>6. FollowStep \/ RunnerStep \/ UNCHANGED followVars
  BY DEF Next, MeshStackActs, Wait, Act, FollowLogs, vars
<1> QED BY <1>3, <1>4, <1>5, <1>6

(* While the messages of a run only grow, no line is written to its place twice. *)
THEOREM NothingTwice == Spec => []NoLineTwice
<1>1. FollowInv /\ GrowInv => NoLineTwice
  BY DEF GrowInv, NoLineTwice
<1>2. Spec => []FollowInv
  BY StatusNamesRuns, FollowStarts, FollowNext, PTL DEF Spec
<1>3. Spec => []GrowInv
  BY <1>2, StatusNamesRuns, GrowStarts, GrowNext, PTL DEF Spec
<1> QED BY <1>1, <1>2, <1>3, PTL
=============================================================================
