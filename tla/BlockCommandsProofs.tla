-------------------------- MODULE BlockCommandsProofs --------------------------
(***************************************************************************)
(* Proofs about the commands on a building block, for any number of        *)
(* requests and runs.                                                      *)
(***************************************************************************)
EXTENDS BlockCommands, SequenceTheorems, TLAPS

-----------------------------------------------------------------------------
(* meshStack: the run that is unfinished, and the plan that is made beside it, are the   *)
(* ones that the status names, and what is at work answers the last request.             *)
RunsNamed ==
  /\ \A r \in Unfinished : runs[r].dry => r = block.latestDryRun /\ ~runs[r].waits
  /\ \A r \in Unfinished : ~runs[r].dry => r = block.latestRun
  /\ \A r \in Unfinished, d \in Active : runs[d].dry /\ ~runs[r].dry => r \in Waiting

RunsAnswer ==
  /\ \A r \in Active \cup Paused : runs[r].answers = reacted
  /\ Active = {} => \A r \in Waiting : runs[r].answers = reacted
  /\ \A r \in DOMAIN runs : runs[r].answers <= reacted

BlockInv ==
  /\ BlockTypeOK
  /\ block.latestRun \in 1..Len(runs) /\ block.latestDryRun \in 0..Len(runs)
  /\ block.startFailedOn <= reacted
  /\ block.startFailedOn # 0 => Unfinished = {}
  /\ Active # {} => IsRunning(block)
  /\ RunsNamed
  /\ RunsAnswer

(* What every step of meshStack, and of the commands, does with the runs: they are never *)
(* fewer, a run that has ended stays as it is, and an answer is never taken back.         *)
RunsGoOn ==
  /\ Len(runs) <= Len(runs')
  /\ \A r \in DOMAIN runs :
       /\ runs'[r].dry = runs[r].dry /\ runs'[r].answers >= runs[r].answers
       /\ runs[r].status \in Finished => runs'[r] = runs[r]

(* The runs are a sequence of runs, of at most MaxRuns. *)
LEMMA RunTypes ==
  ASSUME BlockTypeOK
  PROVE  /\ Len(runs) \in Nat /\ DOMAIN runs = 1..Len(runs) /\ Len(runs) <= MaxRuns
         /\ \A r \in 1..Len(runs) : runs[r] \in Run
         /\ runs \in [1..Len(runs) -> Run]
  BY LenProperties, ElementOfSeq DEF BlockTypeOK

(* The ways in which the runs change: one more, or some of them as they were not. *)
LEMMA OneMoreRun ==
  ASSUME BlockTypeOK, NEW new \in Run, Len(runs) < MaxRuns, runs' = Append(runs, new)
  PROVE  /\ runs' \in Seq(Run) /\ Len(runs') = Len(runs) + 1 /\ Len(runs') <= MaxRuns
         /\ DOMAIN runs' = 1..(Len(runs) + 1)
         /\ \A r \in DOMAIN runs : runs'[r] = runs[r]
         /\ runs'[Len(runs) + 1] = new
  BY RunTypes, AppendProperties, LenProperties, BlockAssumption DEF BlockTypeOK

(* A function on 1..n is a sequence of n. *)
LEMMA AsSequence ==
  ASSUME NEW S, NEW n \in Nat, NEW f \in [1..n -> S]
  PROVE  f \in Seq(S) /\ Len(f) = n
  OBVIOUS

(* Runs that are changed in their places stay a sequence of runs, as long as before. *)
LEMMA OtherRuns ==
  ASSUME BlockTypeOK, DOMAIN runs' = DOMAIN runs, runs' = [r \in DOMAIN runs |-> runs'[r]],
         \A r \in DOMAIN runs : runs'[r] \in Run
  PROVE  /\ runs' \in Seq(Run) /\ Len(runs') = Len(runs) /\ Len(runs') <= MaxRuns
         /\ DOMAIN runs' = DOMAIN runs
<1>1. runs' \in [1..Len(runs) -> Run]
  BY RunTypes
<1>2. runs' \in Seq(Run) /\ Len(runs') = Len(runs)
  BY <1>1, RunTypes, AsSequence
<1> QED BY <1>2, RunTypes

(* Every status is that of a run; more than one run is at work never. *)
LEMMA OneAtWork == BlockInv => \A r, s \in Active : r = s
  BY DEF BlockInv, RunsNamed, Active, Waiting

(* A run goes on: it stays in its place, and the status names the same runs. *)
LEMMA RunChanges ==
  ASSUME BlockInv, NEW r \in DOMAIN runs, NEW new \in Run, runs' = [runs EXCEPT ![r] = new]
  PROVE  /\ runs' \in Seq(Run) /\ Len(runs') = Len(runs) /\ Len(runs') <= MaxRuns
         /\ DOMAIN runs' = DOMAIN runs
         /\ \A i \in DOMAIN runs : runs'[i] = IF i = r THEN new ELSE runs[i]
<1>1. BlockTypeOK
  BY DEF BlockInv
<1>2. runs \in [1..Len(runs) -> Run] /\ DOMAIN runs = 1..Len(runs)
  BY <1>1, RunTypes
<1>3. \A i \in DOMAIN runs : runs'[i] = IF i = r THEN new ELSE runs[i]
  BY <1>2
<1>4. runs' = [i \in DOMAIN runs |-> runs'[i]] /\ DOMAIN runs' = DOMAIN runs
  BY <1>2
<1>5. \A i \in DOMAIN runs : runs'[i] \in Run
  BY <1>2, <1>3
<1> QED BY <1>1, <1>3, <1>4, <1>5, OtherRuns

(* A run that begins (Begin) is the one it was, at work. *)
LEMMA BeginKeeps ==
  ASSUME BlockInv, Begin
  PROVE  BlockInv' /\ RunsGoOn
<1>1. PICK r \in Active : runs[r].status = "PENDING" /\ runs' = [runs EXCEPT ![r].status = "IN_PROGRESS"]
  BY DEF Begin
<1> DEFINE new == [runs[r] EXCEPT !.status = "IN_PROGRESS"]
<1>2. r \in DOMAIN runs /\ runs[r] \in Run /\ r \in Unfinished /\ ~runs[r].waits
  BY RunTypes DEF BlockInv, Active, Unfinished
<1>3. /\ new \in Run /\ new.status = "IN_PROGRESS" /\ new.waits = runs[r].waits /\ new.dry = runs[r].dry
      /\ new.plan = runs[r].plan /\ new.answers = runs[r].answers
  BY <1>2 DEF Run
<1>4. runs' = [runs EXCEPT ![r] = new]
  BY <1>1
<1> HIDE DEF new
<1>5. /\ runs' \in Seq(Run) /\ Len(runs') = Len(runs) /\ Len(runs') <= MaxRuns
      /\ DOMAIN runs' = DOMAIN runs
      /\ \A i \in DOMAIN runs : runs'[i] = IF i = r THEN new ELSE runs[i]
  BY <1>2, <1>3, <1>4, RunChanges
<1>6. block' = [block EXCEPT !.action = "IN_PROGRESS"] /\ UNCHANGED <<asked, reacted>>
  BY DEF Begin
<1>7. /\ block'.action = "IN_PROGRESS" /\ block'.latestRun = block.latestRun /\ block' \in Status
      /\ block'.latestDryRun = block.latestDryRun /\ block'.startFailedOn = block.startFailedOn
  BY <1>6 DEF BlockInv, BlockTypeOK, Status, Action, Running
<1>8. Unfinished' = Unfinished /\ Active' = Active /\ Waiting' = Waiting /\ Paused' = Paused
  BY <1>2, <1>3, <1>5 DEF Unfinished, Active, Waiting, Paused, Finished
<1>9. BlockTypeOK'
  BY <1>5, <1>6, <1>7 DEF BlockInv, BlockTypeOK
<1>10. RunsNamed'
  BY <1>2, <1>3, <1>5, <1>7, <1>8 DEF BlockInv, RunsNamed, Active, Unfinished
<1>11. RunsAnswer'
  BY <1>3, <1>5, <1>6, <1>8 DEF BlockInv, RunsAnswer, Active, Unfinished, Waiting, Paused
<1>12. RunsGoOn
  <2>1. Len(runs) \in Nat /\ \A i \in DOMAIN runs : runs[i].answers \in Nat
    BY RunTypes DEF BlockInv, Run
  <2>2. runs[r].status \notin Finished
    BY <1>2 DEF Unfinished
  <2>3. \A i \in DOMAIN runs : runs'[i].dry = runs[i].dry /\ runs'[i].answers = runs[i].answers
    BY <1>3, <1>5
  <2>4. \A i \in DOMAIN runs : runs[i].status \in Finished => runs'[i] = runs[i]
    BY <1>5, <2>2
  <2> QED BY <1>5, <2>1, <2>3, <2>4 DEF RunsGoOn
<1> QED BY <1>5, <1>6, <1>7, <1>8, <1>9, <1>10, <1>11, <1>12 DEF BlockInv, IsRunning, Running

(* The steps that change no run. *)
LEMMA StatusKeeps ==
  ASSUME BlockInv, AskForRun \/ FailToStart \/ ClearFailure \/ Release \/ UNCHANGED blockVars
  PROVE  BlockInv' /\ RunsGoOn
<1>1. UNCHANGED runs /\ Unfinished' = Unfinished /\ Active' = Active /\ Waiting' = Waiting /\ Paused' = Paused
  BY DEF AskForRun, FailToStart, React, ClearFailure, Release, blockVars, Unfinished, Active, Waiting, Paused
<1>2. Len(runs) \in Nat /\ \A r \in DOMAIN runs : runs[r].answers \in 0..reacted
  BY RunTypes DEF BlockInv, RunsAnswer, Run, BlockTypeOK
<1>3. RunsGoOn
  BY <1>1, <1>2 DEF RunsGoOn
<1>4. CASE AskForRun
  <2>1. UNCHANGED <<block, reacted>> /\ asked' \in 0..MaxWrites /\ asked' > asked
    BY <1>4, BlockAssumption DEF AskForRun, BlockInv, BlockTypeOK
  <2>2. BlockTypeOK'
    BY <1>1, <2>1 DEF BlockInv, BlockTypeOK
  <2>3. RunsNamed' /\ RunsAnswer'
    BY <1>1, <2>1 DEF BlockInv, RunsNamed, RunsAnswer
  <2> QED BY <1>1, <1>3, <2>1, <2>2, <2>3 DEF BlockInv, IsRunning
<1>5. CASE FailToStart
  <2>1. Unfinished = {} /\ asked > reacted /\ reacted' = asked /\ UNCHANGED asked
    BY <1>5 DEF FailToStart, React, Active, Waiting, Paused, Unfinished
  <2>2. /\ block' \in Status /\ block'.latestRun = block.latestRun
        /\ block'.latestDryRun = block.latestDryRun /\ block'.startFailedOn = asked
    BY <1>5 DEF FailToStart, BlockInv, BlockTypeOK, Status, Action, Failed
  <2>3. BlockTypeOK'
    BY <1>1, <2>1, <2>2 DEF BlockInv, BlockTypeOK
  <2>4. RunsNamed' /\ Active' = {}
    BY <1>1, <2>1 DEF RunsNamed, Active
  <2>5. RunsAnswer'
    BY <1>1, <1>2, <2>1 DEF RunsAnswer, Active, Waiting, Paused, BlockInv, BlockTypeOK
  <2> QED BY <1>1, <1>3, <2>1, <2>2, <2>3, <2>4, <2>5 DEF BlockInv, BlockTypeOK
<1>6. CASE ClearFailure \/ Release
  <2>1. UNCHANGED <<asked, reacted>>
    BY <1>6 DEF ClearFailure, Release
  <2>2. /\ block' \in Status /\ block'.latestRun = block.latestRun
        /\ block'.latestDryRun = block.latestDryRun /\ block'.startFailedOn \in {0, block.startFailedOn}
    <3>1. block \in Status /\ 0 \in 0..MaxWrites /\ {"NO_ACTION", "UPGRADE_AVAILABLE"} \subseteq Action
      BY BlockAssumption DEF BlockInv, BlockTypeOK, Action
    <3>2. CASE ClearFailure
      BY <3>1, <3>2 DEF ClearFailure, Status
    <3>3. CASE Release
      BY <3>1, <3>3 DEF Release, Status
    <3> QED BY <1>6, <3>2, <3>3
  <2>3. Active = {}
    BY <1>6 DEF ClearFailure, Release, BlockInv, IsRunning, Running, Active
  <2>4. BlockTypeOK'
    BY <1>1, <2>1, <2>2 DEF BlockInv, BlockTypeOK
  <2>5. RunsNamed'
    BY <1>1, <2>2 DEF BlockInv, RunsNamed
  <2>6. RunsAnswer'
    BY <1>1, <2>1 DEF BlockInv, RunsAnswer
  <2> QED BY <1>1, <1>3, <2>1, <2>2, <2>3, <2>4, <2>5, <2>6 DEF BlockInv, BlockTypeOK
<1>7. CASE UNCHANGED blockVars
  BY <1>3, <1>7 DEF blockVars, BlockInv, BlockTypeOK, RunsNamed, RunsAnswer, Unfinished, Active, Waiting, Paused, IsRunning
<1> QED BY <1>3, <1>4, <1>5, <1>6, <1>7

(* A run that starts is the only one at work, and answers every request so far. *)
LEMMA StartKeeps ==
  ASSUME BlockInv, NEW dry \in BOOLEAN, StartRun(dry)
  PROVE  BlockInv' /\ RunsGoOn
<1> DEFINE n == Len(runs) + 1
           new == NewRun(dry, "PENDING", 0, asked)
<1>1. /\ asked > reacted /\ reacted' = asked /\ UNCHANGED asked /\ Active = {} /\ Paused = {}
      /\ Len(runs) < MaxRuns /\ runs' = Append(runs, new)
      /\ Waiting # {} => dry
  BY DEF StartRun, React
<1>2. new \in Run /\ new.dry = dry /\ new.status = "PENDING" /\ ~new.waits /\ new.plan = 0 /\ new.answers = asked
  <2>1. new = [dry |-> dry, status |-> "PENDING", waits |-> FALSE, plan |-> 0, answers |-> asked, abort |-> FALSE]
    BY DEF NewRun
  <2> HIDE DEF new
  <2>2. asked \in 0..MaxWrites /\ 0 \in 0..MaxRuns
    BY BlockAssumption DEF BlockInv, BlockTypeOK
  <2> QED BY <2>1, <2>2 DEF Run
<1> HIDE DEF new
<1>3. /\ Len(runs) \in Nat /\ DOMAIN runs = 1..Len(runs) /\ \A r \in 1..Len(runs) : runs[r] \in Run
      /\ runs' \in Seq(Run) /\ Len(runs') = n /\ Len(runs') <= MaxRuns /\ DOMAIN runs' = 1..n
      /\ \A r \in DOMAIN runs : runs'[r] = runs[r]
      /\ runs'[n] = new
  BY <1>1, <1>2, OneMoreRun, RunTypes DEF BlockInv
<1>4. /\ block' = [action |-> "PENDING", startFailedOn |-> 0,
                   latestRun |-> IF dry THEN block.latestRun ELSE n,
                   latestDryRun |-> IF dry THEN n ELSE 0]
  BY DEF StartRun
<1>5. /\ block'.action = "PENDING" /\ block'.startFailedOn = 0
      /\ block'.latestRun = (IF dry THEN block.latestRun ELSE n) /\ block'.latestRun \in 1..n
      /\ block'.latestDryRun = (IF dry THEN n ELSE 0) /\ block'.latestDryRun \in 0..n
  BY <1>3, <1>4 DEF BlockInv
<1>6. block' \in Status
  BY <1>3, <1>4, <1>5, BlockAssumption DEF Status, Action, Running
<1>7. /\ Unfinished' = Unfinished \cup {n} /\ Active' = {n} /\ Waiting' = Waiting /\ Paused' = {}
      /\ n \notin Unfinished /\ Unfinished = Waiting
  <2>1. Unfinished' = Unfinished \cup {n} /\ n \notin Unfinished
    BY <1>2, <1>3 DEF Unfinished, Finished
  <2>2. \A r \in Unfinished : r # n /\ runs'[r] = runs[r]
    BY <1>3 DEF Unfinished
  <2>3. \A r \in Unfinished : r \in Waiting
    BY <1>1 DEF Active, Waiting, Paused
  <2>4. Active' = {n}
    BY <1>1, <1>2, <1>3, <2>1, <2>2 DEF Active
  <2>5. Waiting' = Waiting
    BY <1>2, <1>3, <2>1, <2>2 DEF Waiting
  <2>6. Paused' = {}
    <3>1. \A r \in Unfinished : runs'[r].waits => runs'[r].plan # 0
      BY <1>1, <2>2 DEF Paused
    <3>2. ~runs'[n].waits
      BY <1>2, <1>3
    <3> QED BY <2>1, <3>1, <3>2 DEF Paused
  <2> QED BY <2>1, <2>3, <2>4, <2>5, <2>6 DEF Waiting
<1>8. BlockTypeOK'
  BY <1>1, <1>3, <1>6 DEF BlockInv, BlockTypeOK
<1>9. RunsNamed'
  BY <1>1, <1>2, <1>3, <1>5, <1>7 DEF BlockInv, RunsNamed, Unfinished, Waiting
<1>10. RunsAnswer'
  BY <1>1, <1>2, <1>3, <1>7 DEF BlockInv, BlockTypeOK, RunsAnswer, Run
<1>11. RunsGoOn
  BY <1>3 DEF RunsGoOn, Run
<1> QED BY <1>1, <1>3, <1>5, <1>7, <1>8, <1>9, <1>10, <1>11 DEF BlockInv, BlockTypeOK, IsRunning, Running

(* What becomes of a run that goes on or ends, while the others stay as they are. *)
LEMMA OneRunMoves ==
  ASSUME BlockInv, NEW r \in Unfinished, NEW new \in Run, runs' = [runs EXCEPT ![r] = new],
         new.dry = runs[r].dry, new.answers >= runs[r].answers
  PROVE  /\ runs' \in Seq(Run) /\ Len(runs') = Len(runs) /\ Len(runs') <= MaxRuns /\ DOMAIN runs' = DOMAIN runs
         /\ \A i \in DOMAIN runs : runs'[i] = IF i = r THEN new ELSE runs[i]
         /\ Unfinished' = {i \in Unfinished : i = r => new.status \notin Finished}
         /\ Active' = {i \in Unfinished' : IF i = r THEN ~new.waits ELSE i \in Active}
         /\ Waiting' = {i \in Unfinished' : IF i = r THEN new.waits /\ new.plan # 0 ELSE i \in Waiting}
         /\ Paused' = {i \in Unfinished' : IF i = r THEN new.waits /\ new.plan = 0 ELSE i \in Paused}
         /\ RunsGoOn
<1>1. r \in DOMAIN runs /\ runs[r].status \notin Finished
  BY DEF Unfinished
<1>2. /\ runs' \in Seq(Run) /\ Len(runs') = Len(runs) /\ Len(runs') <= MaxRuns /\ DOMAIN runs' = DOMAIN runs
      /\ \A i \in DOMAIN runs : runs'[i] = IF i = r THEN new ELSE runs[i]
  BY <1>1, RunChanges
<1>3. Unfinished' = {i \in Unfinished : i = r => new.status \notin Finished}
  BY <1>1, <1>2 DEF Unfinished
<1>4. \A i \in Unfinished' : i \in DOMAIN runs /\ i \in Unfinished
  BY <1>3 DEF Unfinished
<1>5. Active' = {i \in Unfinished' : IF i = r THEN ~new.waits ELSE i \in Active}
  BY <1>2, <1>4 DEF Active
<1>6. Waiting' = {i \in Unfinished' : IF i = r THEN new.waits /\ new.plan # 0 ELSE i \in Waiting}
  BY <1>2, <1>4 DEF Waiting
<1>7. Paused' = {i \in Unfinished' : IF i = r THEN new.waits /\ new.plan = 0 ELSE i \in Paused}
  BY <1>2, <1>4 DEF Paused
<1>8. RunsGoOn
  <2>1. \A i \in DOMAIN runs : runs[i].answers \in Nat
    BY RunTypes DEF BlockInv, Run
  <2> QED BY <1>1, <1>2, <2>1, RunTypes DEF RunsGoOn, BlockInv
<1> QED BY <1>2, <1>3, <1>5, <1>6, <1>7, <1>8

(* A run that waits has no plan beside it, unless that is at work. *)
LEMMA OneUnfinished ==
  ASSUME BlockInv, NEW r \in Unfinished, NEW s \in Unfinished, r # s
  PROVE  \/ r \in Active /\ runs[r].dry /\ s \in Waiting /\ ~runs[s].dry
         \/ s \in Active /\ runs[s].dry /\ r \in Waiting /\ ~runs[r].dry
  BY DEF BlockInv, RunsNamed, Active, Waiting

(* A run that goes on with its input (Resume) answers all that was asked for meanwhile. *)
LEMMA ResumeKeeps ==
  ASSUME BlockInv, Resume
  PROVE  BlockInv' /\ RunsGoOn
<1>1. asked > reacted /\ reacted' = asked /\ UNCHANGED asked /\ Active = {}
  BY DEF Resume, React
<1>2. PICK r \in Paused : runs' = [runs EXCEPT ![r].waits = FALSE, ![r].answers = asked]
  BY DEF Resume
<1>3. r \in Unfinished /\ r \in DOMAIN runs /\ runs[r].status \notin Finished /\ runs[r] \in Run /\ ~runs[r].dry
  BY RunTypes DEF BlockInv, RunsNamed, Paused, Unfinished
<1>4. Unfinished = {r}
  BY <1>1, <1>3, OneUnfinished
<1> DEFINE new == [runs[r] EXCEPT !.waits = FALSE, !.answers = asked]
<1>5. /\ new \in Run /\ new.dry = runs[r].dry /\ new.status = runs[r].status /\ ~new.waits /\ new.answers = asked
      /\ new.answers >= runs[r].answers
  <2>1. asked \in 0..MaxWrites /\ reacted \in Nat /\ runs[r].answers = reacted
    BY DEF BlockInv, BlockTypeOK, RunsAnswer
  <2> DEFINE resumed == [runs[r] EXCEPT !.waits = FALSE]
  <2>2. /\ resumed \in Run /\ resumed.dry = runs[r].dry /\ resumed.status = runs[r].status /\ ~resumed.waits
    BY <1>3 DEF Run
  <2>3. new = [resumed EXCEPT !.answers = asked]
    OBVIOUS
  <2> HIDE DEF new, resumed
  <2> QED BY <1>1, <2>1, <2>2, <2>3 DEF Run
<1>6. runs' = [runs EXCEPT ![r] = new]
  BY <1>2
<1> HIDE DEF new
<1>7. /\ runs' \in Seq(Run) /\ Len(runs') = Len(runs) /\ Len(runs') <= MaxRuns /\ DOMAIN runs' = DOMAIN runs
      /\ \A i \in DOMAIN runs : runs'[i] = IF i = r THEN new ELSE runs[i]
      /\ Unfinished' = {r} /\ Active' = {r} /\ Waiting' = {} /\ Paused' = {}
      /\ RunsGoOn
  <2>1. /\ runs' \in Seq(Run) /\ Len(runs') = Len(runs) /\ Len(runs') <= MaxRuns /\ DOMAIN runs' = DOMAIN runs
        /\ \A i \in DOMAIN runs : runs'[i] = IF i = r THEN new ELSE runs[i]
        /\ Unfinished' = {i \in Unfinished : i = r => new.status \notin Finished}
        /\ Active' = {i \in Unfinished' : IF i = r THEN ~new.waits ELSE i \in Active}
        /\ Waiting' = {i \in Unfinished' : IF i = r THEN new.waits /\ new.plan # 0 ELSE i \in Waiting}
        /\ Paused' = {i \in Unfinished' : IF i = r THEN new.waits /\ new.plan = 0 ELSE i \in Paused}
        /\ RunsGoOn
    BY <1>3, <1>5, <1>6, OneRunMoves
  <2>2. Unfinished' = {r}
    BY <1>3, <1>4, <1>5, <2>1
  <2>3. Active' = {r} /\ Waiting' = {} /\ Paused' = {}
    BY <1>5, <2>1, <2>2
  <2> QED BY <2>1, <2>2, <2>3
<1>8. /\ block'.action = "PENDING" /\ block'.latestRun = block.latestRun /\ block' \in Status
      /\ block'.latestDryRun = block.latestDryRun /\ block'.startFailedOn = block.startFailedOn
  BY DEF Resume, BlockInv, BlockTypeOK, Status, Action, Running
<1>9. BlockTypeOK'
  BY <1>1, <1>7, <1>8 DEF BlockInv, BlockTypeOK
<1>10. RunsNamed'
  BY <1>3, <1>5, <1>7, <1>8 DEF BlockInv, RunsNamed
<1>11. \A i \in DOMAIN runs : runs[i].answers \in Nat /\ runs[i].answers <= reacted
  BY RunTypes DEF BlockInv, RunsAnswer, Run
<1>12. RunsAnswer'
  <2>1. asked \in Nat /\ reacted \in Nat
    BY DEF BlockInv, BlockTypeOK
  <2>2. \A i \in DOMAIN runs : runs'[i].answers <= asked
    BY <1>1, <1>5, <1>7, <1>11, <2>1
  <2> QED BY <1>1, <1>3, <1>5, <1>7, <2>2 DEF RunsAnswer
<1> QED BY <1>1, <1>3, <1>7, <1>8, <1>9, <1>10, <1>12 DEF BlockInv, BlockTypeOK, IsRunning, Running

(* A run that stops for its input (NeedsInput) is the one that waits. *)
LEMMA NeedsInputKeeps ==
  ASSUME BlockInv, NeedsInput
  PROVE  BlockInv' /\ RunsGoOn
<1>1. PICK r \in Active : ~runs[r].dry /\ runs' = [runs EXCEPT ![r].waits = TRUE, ![r].plan = 0]
  BY DEF NeedsInput
<1>2. /\ r \in Unfinished /\ r \in DOMAIN runs /\ runs[r].status \notin Finished /\ runs[r] \in Run
      /\ runs[r].answers = reacted /\ r \notin Waiting
  BY RunTypes DEF BlockInv, RunsAnswer, Active, Unfinished, Waiting
<1>3. Unfinished = {r}
  BY <1>1, <1>2, OneUnfinished
<1> DEFINE new == [runs[r] EXCEPT !.waits = TRUE, !.plan = 0]
<1>4. /\ new \in Run /\ new.dry = runs[r].dry /\ new.status = runs[r].status /\ new.waits /\ new.plan = 0
      /\ new.answers = runs[r].answers /\ new.answers >= runs[r].answers
  <2>1. 0 \in 0..MaxRuns /\ runs[r].answers \in Nat
    BY <1>2, BlockAssumption DEF Run
  <2> DEFINE stopped == [runs[r] EXCEPT !.waits = TRUE]
  <2>2. /\ stopped \in Run /\ stopped.dry = runs[r].dry /\ stopped.status = runs[r].status /\ stopped.waits
        /\ stopped.answers = runs[r].answers
    BY <1>2 DEF Run
  <2>3. new = [stopped EXCEPT !.plan = 0]
    OBVIOUS
  <2> HIDE DEF new, stopped
  <2> QED BY <2>1, <2>2, <2>3 DEF Run
<1>5. runs' = [runs EXCEPT ![r] = new]
  BY <1>1
<1> HIDE DEF new
<1>6. /\ runs' \in Seq(Run) /\ Len(runs') = Len(runs) /\ Len(runs') <= MaxRuns /\ DOMAIN runs' = DOMAIN runs
      /\ \A i \in DOMAIN runs : runs'[i] = IF i = r THEN new ELSE runs[i]
      /\ Unfinished' = {r} /\ Active' = {} /\ Waiting' = {} /\ Paused' = {r}
      /\ RunsGoOn
  <2>1. /\ runs' \in Seq(Run) /\ Len(runs') = Len(runs) /\ Len(runs') <= MaxRuns /\ DOMAIN runs' = DOMAIN runs
        /\ \A i \in DOMAIN runs : runs'[i] = IF i = r THEN new ELSE runs[i]
        /\ Unfinished' = {i \in Unfinished : i = r => new.status \notin Finished}
        /\ Active' = {i \in Unfinished' : IF i = r THEN ~new.waits ELSE i \in Active}
        /\ Waiting' = {i \in Unfinished' : IF i = r THEN new.waits /\ new.plan # 0 ELSE i \in Waiting}
        /\ Paused' = {i \in Unfinished' : IF i = r THEN new.waits /\ new.plan = 0 ELSE i \in Paused}
        /\ RunsGoOn
    BY <1>2, <1>4, <1>5, OneRunMoves
  <2>2. Unfinished' = {r}
    BY <1>2, <1>3, <1>4, <2>1
  <2>3. Active' = {} /\ Waiting' = {} /\ Paused' = {r}
    BY <1>4, <2>1, <2>2
  <2> QED BY <2>1, <2>2, <2>3
<1>7. /\ UNCHANGED <<asked, reacted>> /\ block'.latestRun = block.latestRun /\ block' \in Status
      /\ block'.latestDryRun = block.latestDryRun /\ block'.startFailedOn = block.startFailedOn
  BY DEF NeedsInput, BlockInv, BlockTypeOK, Status, Action, WaitingForInput
<1>8. BlockTypeOK'
  BY <1>6, <1>7 DEF BlockInv, BlockTypeOK
<1>9. RunsNamed'
  BY <1>1, <1>2, <1>4, <1>6, <1>7 DEF BlockInv, RunsNamed
<1>10. RunsAnswer'
  BY <1>2, <1>4, <1>6, <1>7 DEF RunsAnswer, BlockInv, BlockTypeOK
<1> QED BY <1>2, <1>6, <1>7, <1>8, <1>9, <1>10 DEF BlockInv, BlockTypeOK

(* The run of the last request that succeeded. *)
Succeeded(answering) == \E r \in DOMAIN runs : runs[r].answers >= answering /\ runs[r].status = "SUCCEEDED" /\ ~runs[r].dry

(* Once nothing is unfinished the runs agree with every status that names the same ones. *)
LEMMA AllFinished ==
  ASSUME BlockInv, Unfinished' = {}, UNCHANGED <<asked, reacted>>, runs' \in Seq(Run), Len(runs') = Len(runs),
         Len(runs') <= MaxRuns, DOMAIN runs' = DOMAIN runs, RunsGoOn,
         \A i \in DOMAIN runs : runs'[i].answers = runs[i].answers,
         NEW a \in Action, block' = [block EXCEPT !.action = a]
  PROVE  BlockInv'
<1>1. /\ block' \in Status /\ block'.latestRun = block.latestRun /\ block'.latestDryRun = block.latestDryRun
      /\ block'.startFailedOn = block.startFailedOn
  BY DEF BlockInv, BlockTypeOK, Status
<1>2. Active' = {} /\ Waiting' = {} /\ Paused' = {}
  BY DEF Active, Waiting, Paused
<1>3. BlockTypeOK'
  BY <1>1 DEF BlockInv, BlockTypeOK
<1>4. RunsNamed'
  BY <1>2 DEF RunsNamed
<1>5. RunsAnswer'
  BY <1>2 DEF BlockInv, RunsAnswer
<1> QED BY <1>1, <1>2, <1>3, <1>4, <1>5 DEF BlockInv

(* A run that ends well leaves nothing to do, and answers what meshStack reacts to. *)
LEMMA RunSucceeds ==
  ASSUME BlockInv, NEW r \in Active, ~runs[r].dry, runs' = [runs EXCEPT ![r].status = "SUCCEEDED"],
         block' = [block EXCEPT !.action = "NO_ACTION"], UNCHANGED <<asked, reacted>>
  PROVE  BlockInv' /\ RunsGoOn /\ Succeeded(reacted)'
<1>1. /\ r \in Unfinished /\ r \in DOMAIN runs /\ runs[r] \in Run /\ runs[r].answers = reacted /\ r \notin Waiting
  BY RunTypes DEF BlockInv, RunsAnswer, Active, Unfinished, Waiting
<1>2. Unfinished = {r}
  BY <1>1, OneUnfinished
<1> DEFINE new == [runs[r] EXCEPT !.status = "SUCCEEDED"]
<1>3. /\ new \in Run /\ new.dry = runs[r].dry /\ new.status = "SUCCEEDED" /\ new.answers = runs[r].answers
      /\ new.answers >= runs[r].answers
  BY <1>1 DEF Run
<1>4. runs' = [runs EXCEPT ![r] = new]
  OBVIOUS
<1> HIDE DEF new
<1>5. /\ runs' \in Seq(Run) /\ Len(runs') = Len(runs) /\ Len(runs') <= MaxRuns /\ DOMAIN runs' = DOMAIN runs
      /\ \A i \in DOMAIN runs : runs'[i] = IF i = r THEN new ELSE runs[i]
      /\ Unfinished' = {} /\ RunsGoOn
  <2>1. /\ runs' \in Seq(Run) /\ Len(runs') = Len(runs) /\ Len(runs') <= MaxRuns /\ DOMAIN runs' = DOMAIN runs
        /\ \A i \in DOMAIN runs : runs'[i] = IF i = r THEN new ELSE runs[i]
        /\ Unfinished' = {i \in Unfinished : i = r => new.status \notin Finished}
        /\ RunsGoOn
    BY <1>1, <1>3, <1>4, OneRunMoves
  <2>2. Unfinished' = {}
    BY <1>2, <1>3, <2>1 DEF Finished
  <2> QED BY <2>1, <2>2
<1>6. BlockInv'
  BY <1>1, <1>3, <1>5, AllFinished DEF Action
<1>7. Succeeded(reacted)'
  BY <1>1, <1>3, <1>5 DEF Succeeded, BlockInv, BlockTypeOK
<1> QED BY <1>5, <1>6, <1>7

(* A run that fails, with the run that waits for its plan, leaves errors to look at. *)
LEMMA RunFails ==
  ASSUME BlockInv, NEW r \in Active,
         runs' = [i \in DOMAIN runs |-> IF i = r \/ (runs[r].dry /\ i \in Waiting)
                                        THEN [runs[i] EXCEPT !.status = "FAILED"] ELSE runs[i]],
         NEW a \in Failed, block' = [block EXCEPT !.action = a], UNCHANGED <<asked, reacted>>
  PROVE  BlockInv' /\ RunsGoOn
<1>1. r \in Unfinished /\ r \notin Waiting /\ \A i \in DOMAIN runs : runs[i] \in Run
  BY RunTypes DEF BlockInv, Active, Unfinished, Waiting
<1>2. \A i \in Unfinished : i = r \/ (runs[r].dry /\ i \in Waiting)
  BY <1>1, OneUnfinished
<1>3. \A i \in DOMAIN runs :
        /\ runs'[i] \in Run /\ runs'[i].dry = runs[i].dry /\ runs'[i].answers = runs[i].answers
        /\ i \in Unfinished => runs'[i].status = "FAILED"
        /\ i \notin Unfinished => runs'[i] = runs[i]
  BY <1>1, <1>2 DEF Run, Waiting
<1>4. DOMAIN runs' = DOMAIN runs /\ runs' = [i \in DOMAIN runs |-> runs'[i]]
  OBVIOUS
<1>5. runs' \in Seq(Run) /\ Len(runs') = Len(runs) /\ Len(runs') <= MaxRuns
  BY <1>3, <1>4, OtherRuns DEF BlockInv
<1>6. Unfinished' = {}
  BY <1>3, <1>4 DEF Unfinished, Finished
<1>7. RunsGoOn
  <2>1. \A i \in DOMAIN runs : runs[i].answers \in Nat /\ (runs[i].status \in Finished => i \notin Unfinished)
    BY <1>1 DEF Run, Unfinished
  <2>2. Len(runs) \in Nat
    BY RunTypes DEF BlockInv
  <2> QED BY <1>3, <1>5, <2>1, <2>2 DEF RunsGoOn
<1>8. BlockInv'
  BY <1>3, <1>4, <1>5, <1>6, <1>7, AllFinished DEF Action
<1> QED BY <1>7, <1>8

(* A plan that succeeded: the run that waits for an approval, which may be new, uses it. *)
LEMMA PlanKeeps ==
  ASSUME BlockInv, NEW r \in Active, runs[r].dry, Planned(r), UNCHANGED <<asked, reacted>>
  PROVE  BlockInv' /\ RunsGoOn /\ block'.action = "APPROVE_RUN"
<1>1. /\ r \in Unfinished /\ r \in DOMAIN runs /\ r \notin Waiting /\ runs[r].answers = reacted
      /\ r # 0 /\ r \in 0..MaxRuns
      /\ Len(runs) \in Nat /\ DOMAIN runs = 1..Len(runs) /\ \A i \in DOMAIN runs : runs[i] \in Run
  <2>1. r \in Unfinished /\ r \in DOMAIN runs /\ r \notin Waiting /\ runs[r].answers = reacted
    BY DEF BlockInv, RunsAnswer, Active, Unfinished, Waiting
  <2>2. /\ Len(runs) \in Nat /\ DOMAIN runs = 1..Len(runs) /\ Len(runs) <= MaxRuns
        /\ \A i \in DOMAIN runs : runs[i] \in Run
    BY RunTypes DEF BlockInv
  <2> QED BY <2>1, <2>2, BlockAssumption
<1>2. \A i \in Unfinished : i = r \/ (i \in Waiting /\ ~runs[i].dry)
  BY <1>1, OneUnfinished
<1>3. \A i \in DOMAIN runs : runs[i].answers \in Nat /\ runs[i].answers <= reacted
  BY <1>1 DEF BlockInv, RunsAnswer, Run
<1> DEFINE ended == [runs[r] EXCEPT !.status = "SUCCEEDED"]
<1>4. ended \in Run /\ ended.dry = runs[r].dry /\ ended.status = "SUCCEEDED" /\ ended.answers = reacted
  BY <1>1 DEF Run
<1> HIDE DEF ended
<1>5. CASE Waiting # {}
  <2>1. /\ runs' = [i \in DOMAIN runs |->
                     IF i = r THEN [runs[r] EXCEPT !.status = "SUCCEEDED"]
                     ELSE IF i \in Waiting
                     THEN [runs[i] EXCEPT !.plan = r, !.answers = runs[r].answers] ELSE runs[i]]
        /\ block' = [block EXCEPT !.action = "APPROVE_RUN"]
    BY <1>5 DEF Planned
  <2>2. PICK w \in Waiting : TRUE
    BY <1>5
  <2>3. /\ w \in Unfinished /\ w \in DOMAIN runs /\ runs[w] \in Run /\ w # r /\ runs[w].status \notin Finished
        /\ runs[w].waits
    BY <1>1, <2>2 DEF Waiting, Unfinished
  <2>4. Waiting = {w} /\ ~runs[w].dry
    BY <1>1, <1>2, <2>2, <2>3, OneUnfinished DEF Waiting
  <2> DEFINE planned == [runs[w] EXCEPT !.plan = r]
             new == [planned EXCEPT !.answers = reacted]
  <2>5. /\ planned \in Run /\ planned.dry = runs[w].dry /\ planned.status = runs[w].status
        /\ planned.waits = runs[w].waits /\ planned.plan = r
    BY <1>1, <2>3 DEF Run
  <2> HIDE DEF planned
  <2>6. /\ new \in Run /\ new.dry = runs[w].dry /\ new.status = runs[w].status
        /\ new.waits = runs[w].waits /\ new.plan = r /\ new.answers = reacted
    <3>1. reacted \in 0..MaxWrites
      BY BlockAssumption DEF BlockInv, BlockTypeOK
    <3> QED BY <2>5, <3>1 DEF Run
  <2> HIDE DEF new
  <2>7. \A i \in DOMAIN runs : runs'[i] = IF i = r THEN ended ELSE IF i = w THEN new ELSE runs[i]
    BY <1>1, <2>1, <2>4 DEF ended, new, planned
  <2>8. DOMAIN runs' = DOMAIN runs /\ runs' = [i \in DOMAIN runs |-> runs'[i]]
    BY <2>1
  <2>9. runs' \in Seq(Run) /\ Len(runs') = Len(runs) /\ Len(runs') <= MaxRuns
    <3>1. \A i \in DOMAIN runs : runs'[i] \in Run
      BY <1>1, <1>4, <2>6, <2>7
    <3> QED BY <2>8, <3>1, OtherRuns DEF BlockInv
  <2>10. Unfinished' = {w}
    BY <1>1, <1>2, <1>4, <2>3, <2>4, <2>6, <2>7, <2>8 DEF Unfinished, Finished
  <2>11. Active' = {} /\ Paused' = {} /\ Waiting' = {w}
    <3>1. runs'[w].waits /\ runs'[w].plan # 0
      BY <1>1, <2>3, <2>6, <2>7
    <3> QED BY <2>10, <3>1 DEF Active, Paused, Waiting
  <2>12. /\ block'.action = "APPROVE_RUN" /\ block'.latestRun = block.latestRun /\ block' \in Status
         /\ block'.latestDryRun = block.latestDryRun /\ block'.startFailedOn = block.startFailedOn
    BY <2>1 DEF BlockInv, BlockTypeOK, Status, Action, WaitingForInput
  <2>13. RunsNamed'
    BY <2>3, <2>4, <2>6, <2>7, <2>8, <2>10, <2>11, <2>12 DEF BlockInv, RunsNamed
  <2>14. RunsAnswer'
    <3>1. reacted \in Nat /\ \A i \in DOMAIN runs : runs'[i].answers <= reacted
      BY <1>3, <1>4, <2>6, <2>7 DEF BlockInv, BlockTypeOK
    <3>2. runs'[w].answers = reacted
      BY <2>3, <2>6, <2>7
    <3> QED BY <2>8, <2>11, <3>1, <3>2 DEF RunsAnswer
  <2>15. RunsGoOn
    <3>1. reacted \in Nat /\ runs[r].status \notin Finished
      BY <1>1 DEF BlockInv, BlockTypeOK, Unfinished
    <3>2. \A i \in DOMAIN runs : runs'[i].dry = runs[i].dry /\ runs'[i].answers >= runs[i].answers
      <4> TAKE i \in DOMAIN runs
      <4>1. CASE i = r
        <5>1. runs'[i] = ended /\ runs[i] = runs[r]
          BY <2>7, <4>1
        <5>2. runs'[i].dry = runs[i].dry
          BY <1>4, <5>1, Zenon
        <5> QED BY <1>1, <1>4, <3>1, <5>1, <5>2
      <4>2. CASE i = w
        BY <1>3, <2>3, <2>6, <2>7, <4>2
      <4>3. CASE i # r /\ i # w
        BY <1>3, <2>7, <4>3
      <4> QED BY <4>1, <4>2, <4>3
    <3>3. \A i \in DOMAIN runs : runs[i].status \in Finished => runs'[i] = runs[i]
      BY <1>1, <2>3, <2>7, <3>1
    <3> QED BY <1>1, <2>9, <3>2, <3>3 DEF RunsGoOn
  <2>16. BlockTypeOK'
    BY <2>9, <2>12 DEF BlockInv, BlockTypeOK
  <2> QED BY <1>1, <2>9, <2>11, <2>12, <2>13, <2>14, <2>15, <2>16 DEF BlockInv
<1>6. CASE Waiting = {}
  <2> DEFINE n == Len(runs) + 1
             after == [runs EXCEPT ![r].status = "SUCCEEDED"]
             new == NewRun(FALSE, "IN_PROGRESS", r, runs[r].answers)
  <2>1. /\ Len(runs) < MaxRuns /\ runs' = Append(after, new)
        /\ block' = [block EXCEPT !.action = "APPROVE_RUN", !.latestDryRun = 0, !.latestRun = n]
    BY <1>6 DEF Planned
  <2>2. new = [dry |-> FALSE, status |-> "IN_PROGRESS", waits |-> TRUE, plan |-> r, answers |-> reacted, abort |-> FALSE]
    BY <1>1 DEF NewRun
  <2> HIDE DEF new
  <2>3. /\ new \in Run /\ ~new.dry /\ new.status = "IN_PROGRESS" /\ new.waits /\ new.plan = r
        /\ new.answers = reacted
    <3>1. reacted \in 0..MaxWrites
      BY BlockAssumption DEF BlockInv, BlockTypeOK
    <3> QED BY <1>1, <2>2, <3>1 DEF Run
  <2>4. after \in Seq(Run) /\ Len(after) = Len(runs) /\ \A i \in DOMAIN runs : after[i] = IF i = r THEN ended ELSE runs[i]
    BY <1>1, <1>4, ExceptSeq DEF ended, BlockInv, BlockTypeOK
  <2> HIDE DEF after
  <2>5. /\ runs' \in Seq(Run) /\ Len(runs') = n /\ Len(runs') <= MaxRuns /\ DOMAIN runs' = 1..n
        /\ \A i \in DOMAIN runs : runs'[i] = IF i = r THEN ended ELSE runs[i]
        /\ runs'[n] = new
    <3>1. runs' \in Seq(Run) /\ Len(runs') = n /\ runs'[n] = new /\ \A i \in 1..Len(runs) : runs'[i] = after[i]
      BY <2>1, <2>3, <2>4, AppendProperties
    <3> QED BY <1>1, <2>1, <2>4, <3>1, LenProperties, BlockAssumption
  <2>6. Unfinished' = {n}
    BY <1>1, <1>2, <1>4, <1>6, <2>3, <2>5 DEF Unfinished, Finished
  <2>7. Active' = {} /\ Paused' = {} /\ Waiting' = {n}
    BY <1>1, <2>3, <2>5, <2>6 DEF Active, Paused, Waiting
  <2>8. /\ block'.action = "APPROVE_RUN" /\ block'.latestRun = n /\ block'.latestDryRun = 0
        /\ block'.startFailedOn = block.startFailedOn /\ block' \in Status
    <3>1. n \in 0..MaxRuns /\ 0 \in 0..MaxRuns /\ "APPROVE_RUN" \in Action /\ block \in Status
      BY <1>1, <2>1, BlockAssumption DEF BlockInv, BlockTypeOK, Action, WaitingForInput
    <3> HIDE DEF n
    <3>2. block' = [[[block EXCEPT !.action = "APPROVE_RUN"] EXCEPT !.latestDryRun = 0] EXCEPT !.latestRun = n]
      BY <2>1
    <3> QED BY <3>1, <3>2 DEF Status
  <2>9. RunsNamed'
    BY <2>3, <2>5, <2>6, <2>7, <2>8 DEF RunsNamed
  <2>10. RunsAnswer'
    <3>1. /\ reacted \in Nat /\ reacted' = reacted /\ runs'[n].answers = reacted
          /\ \A i \in DOMAIN runs : runs[i].answers <= reacted
      BY <1>1, <2>3, <2>5 DEF BlockInv, BlockTypeOK, RunsAnswer
    <3>2. \A i \in DOMAIN runs' : runs'[i].answers <= reacted
      BY <1>1, <1>3, <1>4, <2>5, <3>1
    <3> QED BY <2>7, <3>1, <3>2 DEF RunsAnswer
  <2>11. RunsGoOn
    <3>1. reacted \in Nat /\ runs[r].status \notin Finished
      BY <1>1 DEF BlockInv, BlockTypeOK, Unfinished
    <3>2. \A i \in DOMAIN runs : runs'[i].dry = runs[i].dry /\ runs'[i].answers >= runs[i].answers
      <4> TAKE i \in DOMAIN runs
      <4>1. CASE i = r
        <5>1. runs'[i] = ended /\ runs[i] = runs[r]
          BY <2>5, <4>1
        <5>2. runs'[i].dry = runs[i].dry
          BY <1>4, <5>1, Zenon
        <5> QED BY <1>1, <1>4, <3>1, <5>1, <5>2
      <4>2. CASE i # r
        BY <1>3, <2>5, <4>2
      <4> QED BY <4>1, <4>2
    <3>3. \A i \in DOMAIN runs : runs[i].status \in Finished => runs'[i] = runs[i]
      BY <1>1, <2>5, <3>1
    <3> QED BY <1>1, <2>5, <3>2, <3>3 DEF RunsGoOn
  <2>12. BlockTypeOK'
    BY <2>5, <2>8 DEF BlockInv, BlockTypeOK
  <2>13. block.startFailedOn = 0
    BY <1>1 DEF BlockInv
  <2> QED BY <1>1, <2>5, <2>7, <2>8, <2>9, <2>10, <2>11, <2>12, <2>13 DEF BlockInv, BlockTypeOK
<1> QED BY <1>5, <1>6
(* A run or a plan that ends keeps the status in step with the runs; only a run of the   *)
(* last request that succeeded leaves nothing to do.                                      *)
LEMMA FinishKeeps ==
  ASSUME BlockInv, Finish
  PROVE  /\ BlockInv' /\ RunsGoOn
         /\ block'.action \in WaitingForInput \cup Failed \/ Succeeded(reacted)'
<1>1. PICK r \in Active :
        \/ runs[r].dry /\ Planned(r)
        \/ /\ ~runs[r].dry /\ runs' = [runs EXCEPT ![r].status = "SUCCEEDED"]
           /\ block' = [block EXCEPT !.action = "NO_ACTION"]
        \/ /\ runs' = [i \in DOMAIN runs |-> IF i = r \/ (runs[r].dry /\ i \in Waiting)
                                             THEN [runs[i] EXCEPT !.status = "FAILED"] ELSE runs[i]]
           /\ block' = [block EXCEPT !.action = IF runs[r].abort THEN "REVIEW_ABORTED_RUN" ELSE "REVIEW_ERRORS"]
  BY DEF Finish
<1>2. UNCHANGED <<asked, reacted>>
  BY DEF Finish
<1>3. CASE runs[r].dry /\ Planned(r)
  BY <1>2, <1>3, PlanKeeps DEF WaitingForInput
<1>4. CASE /\ ~runs[r].dry /\ runs' = [runs EXCEPT ![r].status = "SUCCEEDED"]
           /\ block' = [block EXCEPT !.action = "NO_ACTION"]
  BY <1>2, <1>4, RunSucceeds
<1>5. CASE /\ runs' = [i \in DOMAIN runs |-> IF i = r \/ (runs[r].dry /\ i \in Waiting)
                                             THEN [runs[i] EXCEPT !.status = "FAILED"] ELSE runs[i]]
           /\ block' = [block EXCEPT !.action = IF runs[r].abort THEN "REVIEW_ABORTED_RUN" ELSE "REVIEW_ERRORS"]
  <2>1. PICK a \in Failed : block' = [block EXCEPT !.action = a]
    BY <1>5 DEF Failed
  <2>2. BlockInv' /\ RunsGoOn
    BY <1>2, <1>5, <2>1, RunFails
  <2>3. block'.action = a
    BY <2>1 DEF BlockInv, BlockTypeOK, Status
  <2> QED BY <2>2, <2>3
<1> QED BY <1>1, <1>3, <1>4, <1>5

(* Whatever meshStack does keeps its runs and its status in step. *)
LEMMA MeshStackKeeps == BlockInv /\ MeshStack => BlockInv' /\ RunsGoOn
BY StatusKeeps, StartKeeps, ResumeKeeps, BeginKeeps, NeedsInputKeeps, FinishKeeps DEF MeshStack

(* A building block starts with one run that has ended, and no request. *)
LEMMA BlockStarts == BlockInit => BlockInv
<1> SUFFICES ASSUME BlockInit PROVE BlockInv
  OBVIOUS
<1>1. PICK end \in {<<"SUCCEEDED", "NO_ACTION">>, <<"FAILED", "REVIEW_ERRORS">>} :
        /\ runs = <<NewRun(FALSE, end[1], 0, 0)>>
        /\ block = [action |-> end[2], latestRun |-> 1, latestDryRun |-> 0, startFailedOn |-> 0]
  BY DEF BlockInit
<1>2. asked = 0 /\ reacted = 0
  BY DEF BlockInit
<1>3. /\ 1 \in 0..MaxRuns /\ 0 \in 0..MaxRuns /\ 0 \in 0..MaxWrites /\ 1 <= MaxRuns
      /\ end[1] \in Finished /\ end[2] \in Action
  BY BlockAssumption DEF Finished, Action, Failed
<1>4. block \in Status /\ block.latestRun = 1 /\ block.latestDryRun = 0 /\ block.startFailedOn = 0
  BY <1>1, <1>3 DEF Status
<1> DEFINE first == [dry |-> FALSE, status |-> end[1], waits |-> FALSE, plan |-> 0, answers |-> 0, abort |-> FALSE]
<1>5. runs = <<first>>
  BY <1>1 DEF NewRun
<1>6. first \in Run /\ first.status \in Finished /\ first.answers = 0
  BY <1>3 DEF Run, Finished
<1> HIDE DEF first
<1>7. runs \in Seq(Run) /\ Len(runs) = 1 /\ DOMAIN runs = 1..1 /\ runs[1] = first
  BY <1>5, <1>6
<1>8. BlockTypeOK
  BY <1>2, <1>3, <1>4, <1>7 DEF BlockTypeOK
<1>9. Unfinished = {} /\ Active = {} /\ Waiting = {} /\ Paused = {}
  BY <1>6, <1>7 DEF Unfinished, Active, Waiting, Paused
<1>10. RunsNamed
  BY <1>9 DEF RunsNamed
<1>11. RunsAnswer
  BY <1>2, <1>6, <1>7, <1>9 DEF RunsAnswer
<1> QED BY <1>2, <1>4, <1>7, <1>8, <1>9, <1>10, <1>11 DEF BlockInv
-----------------------------------------------------------------------------
(* What an approval and an abort do to the runs.                           *)

(* An approved run is the only one at work, with the plan that was approved. *)
LEMMA ApprovedRun ==
  ASSUME BlockInv, CanApprove(latest), runs' = [runs EXCEPT ![latest].waits = FALSE],
         block' = [block EXCEPT !.action = "PENDING"], UNCHANGED <<asked, reacted>>
  PROVE  BlockInv' /\ RunsGoOn
<1>1. latest \in Waiting /\ Active = {}
  BY DEF CanApprove
<1>2. /\ latest \in Unfinished /\ latest \in DOMAIN runs /\ runs[latest] \in Run /\ ~runs[latest].dry
      /\ runs[latest].status \notin Finished /\ runs[latest].answers = reacted /\ latest = block.latestRun
  BY <1>1, RunTypes DEF BlockInv, RunsNamed, RunsAnswer, Waiting, Unfinished
<1>3. Unfinished = {latest}
  BY <1>1, <1>2, OneUnfinished
<1> DEFINE new == [runs[latest] EXCEPT !.waits = FALSE]
<1>4. /\ new \in Run /\ new.dry = runs[latest].dry /\ new.status = runs[latest].status /\ ~new.waits
      /\ new.answers = runs[latest].answers
  BY <1>2 DEF Run
<1>5. runs' = [runs EXCEPT ![latest] = new] /\ runs[latest].answers \in Nat
  BY <1>2 DEF Run
<1> HIDE DEF new
<1>6. /\ runs' \in Seq(Run) /\ Len(runs') = Len(runs) /\ Len(runs') <= MaxRuns /\ DOMAIN runs' = DOMAIN runs
      /\ \A i \in DOMAIN runs : runs'[i] = IF i = latest THEN new ELSE runs[i]
      /\ Unfinished' = {latest} /\ Active' = {latest} /\ Waiting' = {} /\ Paused' = {}
      /\ RunsGoOn
  <2>1. new.answers >= runs[latest].answers
    BY <1>4, <1>5
  <2>2. /\ runs' \in Seq(Run) /\ Len(runs') = Len(runs) /\ Len(runs') <= MaxRuns /\ DOMAIN runs' = DOMAIN runs
        /\ \A i \in DOMAIN runs : runs'[i] = IF i = latest THEN new ELSE runs[i]
        /\ RunsGoOn
    BY <1>2, <1>4, <1>5, <2>1, OneRunMoves
  <2>3. runs'[latest] = new /\ new.status \notin Finished
    BY <1>2, <1>4, <2>2
  <2>4. Unfinished' = {latest}
    BY <1>2, <1>3, <2>2, <2>3 DEF Unfinished
  <2> QED BY <1>4, <2>2, <2>3, <2>4 DEF Active, Waiting, Paused
<1>7. /\ block'.action = "PENDING" /\ block'.latestRun = block.latestRun /\ block' \in Status
      /\ block'.latestDryRun = block.latestDryRun /\ block'.startFailedOn = block.startFailedOn
  BY DEF BlockInv, BlockTypeOK, Status, Action, Running
<1>8. BlockTypeOK'
  BY <1>6, <1>7 DEF BlockInv, BlockTypeOK
<1>9. RunsNamed'
  BY <1>2, <1>4, <1>6, <1>7 DEF RunsNamed
<1>10. RunsAnswer'
  BY <1>2, <1>4, <1>6 DEF RunsAnswer, BlockInv, BlockTypeOK
<1> QED BY <1>2, <1>3, <1>6, <1>7, <1>8, <1>9, <1>10 DEF BlockInv, BlockTypeOK, IsRunning, Running

(* A run that is aborted while it waits has ended, and leaves a plan at work as it is. *)
LEMMA AbortedWhileWaiting ==
  ASSUME BlockInv, latest \in Unfinished, runs[latest].waits,
         runs' = [runs EXCEPT ![latest].status = "FAILED", ![latest].abort = TRUE],
         block' = IF Active = {} THEN [block EXCEPT !.action = "REVIEW_ABORTED_RUN"] ELSE block,
         UNCHANGED <<asked, reacted>>
  PROVE  BlockInv' /\ RunsGoOn
<1>1. latest \in DOMAIN runs /\ runs[latest] \in Run /\ runs[latest].status \notin Finished
  BY RunTypes DEF BlockInv, Unfinished
<1> DEFINE failed == [runs[latest] EXCEPT !.status = "FAILED"]
           new == [failed EXCEPT !.abort = TRUE]
<1>2. /\ failed \in Run /\ failed.dry = runs[latest].dry /\ failed.status = "FAILED"
      /\ failed.answers = runs[latest].answers
  BY <1>1 DEF Run
<1>3. runs' = [runs EXCEPT ![latest] = new]
  OBVIOUS
<1> HIDE DEF failed
<1>4. new \in Run /\ new.dry = runs[latest].dry /\ new.status = "FAILED" /\ new.answers = runs[latest].answers
  BY <1>2 DEF Run
<1> HIDE DEF new
<1>5. new.answers >= runs[latest].answers
  BY <1>1, <1>4 DEF Run
<1>6. /\ runs' \in Seq(Run) /\ Len(runs') = Len(runs) /\ Len(runs') <= MaxRuns /\ DOMAIN runs' = DOMAIN runs
      /\ \A i \in DOMAIN runs : runs'[i] = IF i = latest THEN new ELSE runs[i]
      /\ Unfinished' = {i \in Unfinished : i = latest => new.status \notin Finished}
      /\ Active' = {i \in Unfinished' : IF i = latest THEN ~new.waits ELSE i \in Active}
      /\ Waiting' = {i \in Unfinished' : IF i = latest THEN new.waits /\ new.plan # 0 ELSE i \in Waiting}
      /\ Paused' = {i \in Unfinished' : IF i = latest THEN new.waits /\ new.plan = 0 ELSE i \in Paused}
      /\ RunsGoOn
  BY <1>1, <1>3, <1>4, <1>5, OneRunMoves
<1>7. latest \notin Active
  BY DEF Active
<1>8. /\ Unfinished' = Unfinished \ {latest} /\ Active' = Active
      /\ Waiting' = Waiting \ {latest} /\ Paused' = Paused \ {latest}
  <2>1. Unfinished' = Unfinished \ {latest}
    BY <1>4, <1>6 DEF Finished
  <2>2. Active \subseteq Unfinished /\ Waiting \subseteq Unfinished /\ Paused \subseteq Unfinished
    BY DEF Active, Waiting, Paused
  <2>3. Active' = Active
    BY <1>6, <1>7, <2>1, <2>2
  <2>4. Waiting' = Waiting \ {latest}
    BY <1>6, <2>1, <2>2
  <2>5. Paused' = Paused \ {latest}
    BY <1>6, <2>1, <2>2
  <2> QED BY <2>1, <2>3, <2>4, <2>5
<1>9. /\ block'.latestRun = block.latestRun /\ block' \in Status /\ (Active # {} => block' = block)
      /\ block'.latestDryRun = block.latestDryRun /\ block'.startFailedOn = block.startFailedOn
  BY DEF BlockInv, BlockTypeOK, Status, Action, Failed
<1>10. BlockTypeOK'
  BY <1>6, <1>9 DEF BlockInv, BlockTypeOK
<1>11. \A i \in Unfinished' : i \in Unfinished /\ runs'[i] = runs[i]
  BY <1>6, <1>8 DEF Unfinished
<1>12. RunsNamed'
  <2>1. \A i \in Active' : i \in Unfinished'
    BY DEF Active
  <2> QED BY <1>8, <1>9, <1>11, <2>1 DEF BlockInv, RunsNamed
<1>13. RunsAnswer'
  <2>1. \A i \in Active' \cup Paused' \cup Waiting' : runs'[i] = runs[i]
    BY <1>11 DEF Active, Paused, Waiting
  <2>2. \A i \in DOMAIN runs : runs'[i].answers = runs[i].answers
    BY <1>4, <1>6
  <2>3. Active' = Active /\ Waiting' \subseteq Waiting /\ Paused' \subseteq Paused
    BY <1>8
  <2>4. /\ \A i \in Active \cup Paused : runs[i].answers = reacted
        /\ Active = {} => \A i \in Waiting : runs[i].answers = reacted
        /\ \A i \in DOMAIN runs : runs[i].answers <= reacted
    BY DEF BlockInv, RunsAnswer
  <2>5. \A i \in DOMAIN runs' : runs'[i].answers <= reacted'
    BY <1>6, <2>2, <2>4
  <2>6. \A i \in Active' \cup Paused' : runs'[i].answers = reacted'
    BY <2>1, <2>3, <2>4
  <2>7. Active' = {} => \A i \in Waiting' : runs'[i].answers = reacted'
    BY <2>1, <2>3, <2>4
  <2> QED BY <2>5, <2>6, <2>7 DEF RunsAnswer
<1> QED BY <1>6, <1>8, <1>9, <1>10, <1>12, <1>13 DEF BlockInv, IsRunning

(* A run that is aborted at work goes on until it ends. *)
LEMMA AbortedAtWork ==
  ASSUME BlockInv, latest \in Unfinished, ~runs[latest].waits, runs' = [runs EXCEPT ![latest].abort = TRUE],
         UNCHANGED <<block, asked, reacted>>
  PROVE  BlockInv' /\ RunsGoOn
<1>1. latest \in DOMAIN runs /\ runs[latest] \in Run /\ runs[latest].status \notin Finished
  BY RunTypes DEF BlockInv, Unfinished
<1> DEFINE new == [runs[latest] EXCEPT !.abort = TRUE]
<1>2. /\ new \in Run /\ new.dry = runs[latest].dry /\ new.status = runs[latest].status
      /\ new.waits = runs[latest].waits /\ new.plan = runs[latest].plan /\ new.answers = runs[latest].answers
  BY <1>1 DEF Run
<1>3. runs' = [runs EXCEPT ![latest] = new] /\ runs[latest].answers \in Nat
  BY <1>1 DEF Run
<1> HIDE DEF new
<1>4. /\ runs' \in Seq(Run) /\ Len(runs') = Len(runs) /\ Len(runs') <= MaxRuns /\ DOMAIN runs' = DOMAIN runs
      /\ \A i \in DOMAIN runs : runs'[i] = IF i = latest THEN new ELSE runs[i]
      /\ RunsGoOn
  <2>1. new.answers >= runs[latest].answers
    BY <1>2, <1>3
  <2> QED BY <1>1, <1>2, <1>3, <2>1, OneRunMoves
<1>5. Unfinished' = Unfinished /\ Active' = Active /\ Waiting' = Waiting /\ Paused' = Paused
  BY <1>1, <1>2, <1>4 DEF Unfinished, Active, Waiting, Paused
<1>6. BlockTypeOK'
  BY <1>4 DEF BlockInv, BlockTypeOK
<1>7. \A i \in DOMAIN runs : runs'[i].answers = runs[i].answers
  BY <1>2, <1>4
<1>8. RunsNamed'
  BY <1>2, <1>4, <1>5 DEF BlockInv, RunsNamed, Unfinished, Active
<1>9. RunsAnswer'
  BY <1>4, <1>5, <1>7 DEF BlockInv, RunsAnswer, Active, Paused, Waiting, Unfinished
<1> QED BY <1>4, <1>5, <1>6, <1>8, <1>9 DEF BlockInv, IsRunning

(* No step of an approval or an abort takes the status out of step with the runs, and    *)
(* none makes it that of a building block with nothing to do.                             *)
LEMMA ActKeeps ==
  ASSUME BlockInv, ActStep
  PROVE  /\ BlockInv' /\ RunsGoOn
         /\ UNCHANGED <<asked, reacted>> /\ block'.latestRun = block.latestRun
         /\ block'.latestDryRun = block.latestDryRun /\ block'.startFailedOn = block.startFailedOn
         /\ block' = block \/ block'.action \in Running \cup Failed
         /\ UNCHANGED blockVars \/ runs' # runs
<1>1. CASE UNCHANGED blockVars
  BY <1>1, StatusKeeps DEF blockVars
<1>2. CASE Approve /\ ~UNCHANGED blockVars
  <2>1. /\ CanApprove(latest) /\ runs' = [runs EXCEPT ![latest].waits = FALSE]
        /\ block' = [block EXCEPT !.action = "PENDING"] /\ UNCHANGED <<asked, reacted>>
    BY <1>2 DEF Approve
  <2>2. BlockInv' /\ RunsGoOn
    BY <2>1, ApprovedRun
  <2>3. /\ block'.latestRun = block.latestRun /\ block'.action = "PENDING"
        /\ block'.latestDryRun = block.latestDryRun /\ block'.startFailedOn = block.startFailedOn
    BY <2>1 DEF BlockInv, BlockTypeOK, Status
  <2>4. latest \in DOMAIN runs /\ runs[latest].waits /\ ~runs'[latest].waits
    BY <2>1, RunTypes DEF CanApprove, Waiting, Unfinished, BlockInv, Run
  <2> QED BY <2>1, <2>2, <2>3, <2>4 DEF Running
<1>3. CASE Abort /\ ~UNCHANGED blockVars
  <2>1. CanAbort(latest) /\ UNCHANGED <<asked, reacted>>
    BY <1>3 DEF Abort
  <2>2. latest \in Unfinished /\ latest \in DOMAIN runs /\ ~runs[latest].abort /\ runs[latest] \in Run
    BY <2>1, RunTypes DEF CanAbort, Unfinished, BlockInv
  <2>3. CASE runs[latest].waits
    <3>1. /\ runs' = [runs EXCEPT ![latest].status = "FAILED", ![latest].abort = TRUE]
          /\ block' = IF Active = {} THEN [block EXCEPT !.action = "REVIEW_ABORTED_RUN"] ELSE block
      BY <1>3, <2>1, <2>3 DEF Abort
    <3>2. BlockInv' /\ RunsGoOn
      BY <2>1, <2>2, <2>3, <3>1, AbortedWhileWaiting
    <3>3. /\ block'.latestRun = block.latestRun /\ (block' = block \/ block'.action = "REVIEW_ABORTED_RUN")
          /\ block'.latestDryRun = block.latestDryRun /\ block'.startFailedOn = block.startFailedOn
      BY <3>1 DEF BlockInv, BlockTypeOK, Status
    <3>4. runs'[latest].abort
      BY <2>2, <3>1, RunTypes DEF BlockInv, Run
    <3> QED BY <2>1, <2>2, <3>2, <3>3, <3>4 DEF Failed
  <2>4. CASE ~runs[latest].waits
    <3>1. runs' = [runs EXCEPT ![latest].abort = TRUE] /\ UNCHANGED block
      BY <1>3, <2>1, <2>4 DEF Abort
    <3>2. BlockInv' /\ RunsGoOn
      BY <2>1, <2>2, <2>4, <3>1, AbortedAtWork
    <3>3. runs'[latest].abort
      BY <2>2, <3>1, RunTypes DEF BlockInv, Run
    <3> QED BY <2>1, <2>2, <3>1, <3>2, <3>3
  <2> QED BY <2>3, <2>4
<1>4. CASE ActStep /\ ~Approve /\ ~Abort
  BY <1>1, <1>4 DEF ActStep, ReadBuildingBlock, ReadRun, ReadPlan, Decline, Report, ActFails
<1> QED BY <1>1, <1>2, <1>3, <1>4
-----------------------------------------------------------------------------
(* The status and the runs, whoever acts.                                  *)

LEMMA BlockNext == BlockInv /\ [Next]_vars => BlockInv' /\ RunsGoOn
<1> SUFFICES ASSUME BlockInv, [Next]_vars PROVE BlockInv' /\ RunsGoOn
  OBVIOUS
<1>1. CASE MeshStackActs
  BY <1>1, MeshStackKeeps DEF MeshStackActs
<1>2. CASE Wait
  <2>1. AskForRun \/ UNCHANGED blockVars
    BY <1>2 DEF Wait, WaitStep, TakeBefore, Ask, AwaitReaction, AwaitEnd, NoReaction, StopWaiting
  <2> QED BY <2>1, StatusKeeps
<1>3. CASE Act
  BY <1>3, ActKeeps DEF Act
<1>4. CASE FollowLogs
  <2>1. UNCHANGED blockVars
    BY <1>4 DEF FollowLogs, FollowStep, RunnerStep, Follow, ReadStatus, ReadLogs, Write, StopFollowing,
                ReadFails, NewStep, StepEnds, StepSays, RunnerSends
  <2> QED BY <2>1, StatusKeeps
<1>5. CASE UNCHANGED vars
  BY <1>5, StatusKeeps DEF vars
<1> QED BY <1>1, <1>2, <1>3, <1>4, <1>5 DEF Next

(* meshStack's status names the runs that are not finished, and what is at work answers  *)
(* the last request, whatever the commands do between.                                    *)
THEOREM StatusNamesRuns == Spec => []BlockInv
<1>1. Init => BlockInv
  BY BlockStarts DEF Init
<1> QED BY <1>1, BlockNext, PTL DEF Spec

-----------------------------------------------------------------------------
(* A run uses the plan that was shown.                                     *)

ActInv ==
  /\ ActTypeOK
  /\ actPc \in {"idle", "readRun", "readPlan", "confirm"} => \A r \in 1..MaxRuns : approvedPlan[r] = 0
  /\ \A r \in 1..MaxRuns : approvedPlan[r] \in {0, plan}

(* approve-run and abort-run show the plan they have read, and send no other. *)
LEMMA ActFollows ==
  ASSUME BlockInv, ActInv, ActStep
  PROVE  ActInv'
<1>1. block \in Status /\ runs \in [1..Len(runs) -> Run] /\ DOMAIN runs \subseteq 1..MaxRuns
  BY RunTypes, BlockAssumption DEF BlockInv, BlockTypeOK
<1>2. CASE ReadBuildingBlock
  <2>1. latest' \in 0..MaxRuns
    BY <1>1, <1>2 DEF ReadBuildingBlock, LatestLink, Status
  <2> QED BY <1>2, <2>1 DEF ReadBuildingBlock, ActEnd, ActInv, ActTypeOK
<1>3. CASE ReadRun
  <2>1. plan' \in 0..MaxRuns
    <3>1. CanApprove(latest) => runs[latest] \in Run
      BY <1>1 DEF CanApprove, Waiting, Unfinished
    <3> QED BY <1>3, <3>1 DEF ReadRun, ActInv, ActTypeOK, Run
  <2> QED BY <1>3, <2>1 DEF ReadRun, ActEnd, ActInv, ActTypeOK
<1>4. CASE Approve
  <2>1. CASE UNCHANGED approvedPlan
    BY <1>4, <2>1 DEF Approve, ActEnd, ActInv, ActTypeOK
  <2>2. CASE ~UNCHANGED approvedPlan
    <3>1. /\ CanApprove(latest) /\ plan = runs[latest].plan /\ actPc' = "report"
          /\ approvedPlan' = [approvedPlan EXCEPT ![latest] = runs[latest].plan]
          /\ UNCHANGED <<actOutcome, actKind, latest, plan>>
      BY <1>4, <2>2 DEF Approve, SentPlan
    <3>2. \A r \in 1..MaxRuns : approvedPlan'[r] \in {0, plan}
      BY <3>1 DEF ActInv, ActTypeOK
    <3>3. approvedPlan' \in [1..MaxRuns -> 0..MaxRuns]
      BY <3>1 DEF ActInv, ActTypeOK
    <3> QED BY <3>1, <3>2, <3>3 DEF ActInv, ActTypeOK
  <2> QED BY <2>1, <2>2
<1>5. CASE ReadPlan \/ Decline \/ Abort \/ Report \/ ActFails
  BY <1>5 DEF ReadPlan, Decline, Abort, Report, ActFails, ActEnd, ActInv, ActTypeOK
<1> QED BY <1>2, <1>3, <1>4, <1>5 DEF ActStep

(* At first no plan was sent. *)
LEMMA ActStarts == Init => ActInv
BY BlockAssumption DEF Init, ActInit, ActInv, ActTypeOK

(* Steps of others leave what approve-run and abort-run have read as it is. *)
LEMMA ActNext == BlockInv /\ ActInv /\ [Next]_vars => ActInv'
<1>1. ASSUME UNCHANGED actVars, ActInv PROVE ActInv'
  BY <1>1 DEF actVars, ActInv, ActTypeOK
<1> QED BY <1>1, ActFollows DEF Next, MeshStackActs, Wait, Act, FollowLogs, vars

(* approve-run sends the plan that it showed: whatever meshStack plans again while the   *)
(* question is open, the run goes to work with that plan or stays where it is.            *)
THEOREM OnlyTheShownPlan == Spec => []ApprovedAsShown
<1>1. BlockInv /\ ActInv => ApprovedAsShown
  BY RunTypes, BlockAssumption DEF BlockInv, BlockTypeOK, ActInv, ApprovedAsShown
<1> QED BY <1>1, ActStarts, ActNext, StatusNamesRuns, PTL DEF Spec
-----------------------------------------------------------------------------
(* Waiting: what the status tells of the requests.                         *)

(* The runs that a status names only get newer, and while they stay the same no other    *)
(* run takes on a request.                                                                *)
StatusGoesOn ==
  /\ asked' >= asked /\ reacted' >= reacted
  /\ \/ block'.latestRun > Len(runs)
     \/ block'.latestRun = block.latestRun /\ block'.latestDryRun > Len(runs)
     \/ /\ block'.latestRun = block.latestRun /\ block'.latestDryRun = block.latestDryRun
        /\ Len(runs') = Len(runs)
        /\ \A r \in DOMAIN runs : r = block.latestRun \/ runs'[r].answers = runs[r].answers

(* As many runs are as many names for them. *)
LEMMA SameRuns ==
  ASSUME BlockInv, BlockInv', DOMAIN runs' = DOMAIN runs
  PROVE  Len(runs') = Len(runs)
<1>1. Len(runs) \in Nat /\ DOMAIN runs = 1..Len(runs) /\ Len(runs') \in Nat /\ DOMAIN runs' = 1..Len(runs')
  BY LenProperties DEF BlockInv, BlockTypeOK
<1> QED BY <1>1

(* Whatever meshStack does, its status moves on and never back. *)
LEMMA StatusMoves ==
  ASSUME BlockInv, MeshStack
  PROVE  StatusGoesOn
<1>1. BlockInv' /\ RunsGoOn
  BY MeshStackKeeps
<1>2. asked \in Nat /\ reacted \in Nat /\ Len(runs) \in Nat /\ block \in Status
  BY RunTypes, BlockAssumption DEF BlockInv, BlockTypeOK
<1>3. CASE AskForRun \/ FailToStart \/ ClearFailure \/ Release
  <2>1. UNCHANGED runs /\ block'.latestRun = block.latestRun /\ block'.latestDryRun = block.latestDryRun
    BY <1>2, <1>3 DEF AskForRun, FailToStart, ClearFailure, Release, Status
  <2>2. asked' >= asked /\ reacted' >= reacted
    BY <1>2, <1>3 DEF AskForRun, FailToStart, React, ClearFailure, Release
  <2> QED BY <2>1, <2>2 DEF StatusGoesOn
<1>4. CASE \E dry \in BOOLEAN : StartRun(dry)
  <2>1. PICK dry \in BOOLEAN : StartRun(dry)
    BY <1>4
  <2>2. asked' >= asked /\ reacted' >= reacted
    BY <1>2, <2>1 DEF StartRun, React
  <2>3. IF dry THEN block'.latestRun = block.latestRun /\ block'.latestDryRun = Len(runs) + 1
        ELSE block'.latestRun = Len(runs) + 1
    BY <2>1 DEF StartRun
  <2> QED BY <1>2, <2>2, <2>3 DEF StatusGoesOn
<1>5. CASE Resume
  <2>1. asked' >= asked /\ reacted' >= reacted
    BY <1>2, <1>5 DEF Resume, React
  <2>2. PICK r \in Paused : runs' = [runs EXCEPT ![r].waits = FALSE, ![r].answers = asked]
    BY <1>5 DEF Resume
  <2>3. r = block.latestRun
    BY RunTypes DEF BlockInv, RunsNamed, Paused
  <2>4. DOMAIN runs' = DOMAIN runs /\ \A i \in DOMAIN runs : i # r => runs'[i] = runs[i]
    BY <2>2
  <2>5. block'.latestRun = block.latestRun /\ block'.latestDryRun = block.latestDryRun
    BY <1>2, <1>5 DEF Resume, Status
  <2>6. Len(runs') = Len(runs)
    BY <1>1, <2>4, SameRuns
  <2> QED BY <2>1, <2>3, <2>4, <2>5, <2>6 DEF StatusGoesOn
<1>6. CASE Begin \/ NeedsInput
  <2>1. PICK r \in Active : \/ runs' = [runs EXCEPT ![r].status = "IN_PROGRESS"]
                            \/ runs' = [runs EXCEPT ![r].waits = TRUE, ![r].plan = 0]
    BY <1>6 DEF Begin, NeedsInput
  <2>2. UNCHANGED <<asked, reacted>> /\ block'.latestRun = block.latestRun /\ block'.latestDryRun = block.latestDryRun
    BY <1>2, <1>6 DEF Begin, NeedsInput, Status
  <2>3. DOMAIN runs' = DOMAIN runs /\ \A i \in DOMAIN runs : runs'[i].answers = runs[i].answers
    <3>1. \A i \in DOMAIN runs : runs[i] \in Run
      BY RunTypes DEF BlockInv
    <3> QED BY <2>1, <3>1 DEF Run
  <2>4. Len(runs') = Len(runs)
    BY <1>1, <2>3, SameRuns
  <2> QED BY <1>2, <2>2, <2>3, <2>4 DEF StatusGoesOn
<1>7. CASE Finish
  <2>1. PICK r \in Active :
          \/ Planned(r)
          \/ /\ runs' = [runs EXCEPT ![r].status = "SUCCEEDED"]
             /\ block' = [block EXCEPT !.action = "NO_ACTION"]
          \/ /\ runs' = [i \in DOMAIN runs |-> IF i = r \/ (runs[r].dry /\ i \in Waiting)
                                               THEN [runs[i] EXCEPT !.status = "FAILED"] ELSE runs[i]]
             /\ block' = [block EXCEPT !.action = IF runs[r].abort THEN "REVIEW_ABORTED_RUN" ELSE "REVIEW_ERRORS"]
    BY <1>7 DEF Finish
  <2>2. UNCHANGED <<asked, reacted>>
    BY <1>7 DEF Finish
  <2>3. \A i \in DOMAIN runs : runs[i] \in Run
    BY RunTypes DEF BlockInv
  <2>4. CASE Waiting = {} /\ Planned(r)
    <3>1. block'.latestRun = Len(runs) + 1
      BY <1>2, <2>4 DEF Planned, Status
    <3> QED BY <1>2, <2>2, <3>1 DEF StatusGoesOn
  <2>5. CASE Waiting # {} /\ Planned(r)
    <3>1. /\ runs' = [i \in DOMAIN runs |->
                       IF i = r THEN [runs[r] EXCEPT !.status = "SUCCEEDED"]
                       ELSE IF i \in Waiting
                       THEN [runs[i] EXCEPT !.plan = r, !.answers = runs[r].answers] ELSE runs[i]]
          /\ block'.latestRun = block.latestRun /\ block'.latestDryRun = block.latestDryRun
      BY <1>2, <2>5 DEF Planned, Status
    <3>2. \A i \in Waiting : i = block.latestRun
      BY DEF BlockInv, RunsNamed, Waiting
    <3>3. \A i \in DOMAIN runs : i = block.latestRun \/ runs'[i].answers = runs[i].answers
      BY <2>3, <3>1, <3>2 DEF Run
    <3>4. Len(runs') = Len(runs)
      BY <1>1, <3>1, SameRuns
    <3>5. block'.latestRun = block.latestRun /\ block'.latestDryRun = block.latestDryRun
      BY <3>1
    <3> QED BY <1>2, <2>2, <3>3, <3>4, <3>5 DEF StatusGoesOn
  <2>6. CASE ~Planned(r)
    <3>1. block'.latestRun = block.latestRun /\ block'.latestDryRun = block.latestDryRun
      BY <1>2, <2>1, <2>6 DEF Status
    <3>2. DOMAIN runs' = DOMAIN runs /\ \A i \in DOMAIN runs : runs'[i].answers = runs[i].answers
      BY <2>1, <2>3, <2>6 DEF Run
    <3>3. Len(runs') = Len(runs)
      BY <1>1, <3>2, SameRuns
    <3> QED BY <1>2, <2>2, <3>1, <3>2, <3>3 DEF StatusGoesOn
  <2> QED BY <2>4, <2>5, <2>6
<1> QED BY <1>3, <1>4, <1>5, <1>6, <1>7 DEF MeshStack

-----------------------------------------------------------------------------
(* Waiting: what a command that waits may conclude.                        *)

(* The status says nothing that could be taken for a reaction: what ends is the run that *)
(* was at work when before was read, and has no plan to follow it.                        *)
NotChanged ==
  /\ block.latestRun = before.latestRun /\ block.latestDryRun = before.latestDryRun
  /\ block.startFailedOn \in {0, before.startFailedOn}
  /\ \/ IsRunning(before) /\ before.latestDryRun = 0
     \/ /\ Active = {} /\ ~IsRunning(before)
        /\ \/ ActionOfRun(block) = ActionOfRun(before)
           \/ before.startFailedOn # 0 /\ block.startFailedOn = 0

Ended == block.action \notin Running \cup WaitingForInput \cup Failed

(* What was seen last of the status is no newer than it.                                  *)
NoNewer ==
  \/ block.latestRun > before.latestRun
  \/ block.latestRun = before.latestRun /\ block.latestDryRun >= before.latestDryRun

(* Once another run has the request, the status names it.                                 *)
AnswerNamed ==
  \/ block.latestRun > before.latestRun
  \/ block.latestDryRun > before.latestDryRun
  \/ \A r \in DOMAIN runs : runs[r].answers >= mine => r = block.latestRun

WaitInv ==
  /\ WaitTypeOK
  /\ waitPc # "idle" => mine <= asked /\ before.startFailedOn <= mine /\ NoNewer
  /\ Waits => mine > before.startFailedOn /\ AnswerNamed
  /\ waitPc = "snapshot" /\ ~overlapped /\ asked = mine => reacted = asked /\ NotChanged
  /\ waitPc = "reacting" /\ ~overlapped /\ reacted < mine => NotChanged
  /\ waitPc = "ending" /\ ~overlapped => reacted >= mine
  /\ Waits /\ ~cleared /\ reacted >= mine /\ Ended => Succeeded(mine)
  /\ outcome = "ended" => waitPc = "done"
  /\ outcome = "ended" /\ ~overlapped /\ ~cleared => Succeeded(mine)

(* At first nobody waits. *)
LEMMA WaitStarts == Init => WaitInv
<1> SUFFICES ASSUME Init PROVE WaitInv
  OBVIOUS
<1>1. NoStatus \in Status
  BY BlockAssumption DEF NoStatus, Status, Action
<1>2. WaitTypeOK
  <2>1. 0 \in 0..MaxWrites
    BY BlockAssumption
  <2>2. WaitInit
    BY DEF Init
  <2> QED BY <1>1, <2>1, <2>2 DEF WaitInit, WaitTypeOK
<1> QED BY <1>2 DEF Init, WaitInit, WaitInv, Waits

(* A status that has not changed is not taken for a reaction. *)
LEMMA NotTakenForReaction == NotChanged => ~RunChangedSince(block, before)
BY DEF NotChanged, RunChangedSince, StartFailedSince

(* A reaction is seen. *)
LEMMA ReactionSeen ==
  ASSUME WaitInv, BlockInv, Waits, ReactionStands
  PROVE  RunChangedSince(block, before)
<1>1. mine > before.startFailedOn /\ AnswerNamed /\ NoNewer
  BY DEF WaitInv, Waits
<1>2. /\ block.latestRun \in Nat /\ before.latestRun \in Nat /\ block.latestDryRun \in Nat
      /\ before.latestDryRun \in Nat /\ before.startFailedOn \in Nat /\ mine \in Nat
  BY BlockAssumption DEF BlockInv, BlockTypeOK, WaitInv, WaitTypeOK, Status
<1>3. CASE block.startFailedOn >= mine
  <2>1. block.startFailedOn \in Nat
    BY DEF BlockInv, BlockTypeOK, Status
  <2> QED BY <1>1, <1>2, <1>3, <2>1 DEF RunChangedSince, StartFailedSince
<1>4. CASE \E r \in DOMAIN runs : runs[r].answers >= mine /\ r # before.latestRun
  BY <1>1, <1>2, <1>4 DEF RunChangedSince, AnswerNamed
<1> QED BY <1>3, <1>4 DEF ReactionStands

(* An answer stands, and a success. *)
LEMMA SuccessStays ==
  ASSUME BlockInv, RunsGoOn, NEW m \in Nat, Succeeded(m)
  PROVE  Succeeded(m)'
<1>1. PICK r \in DOMAIN runs : runs[r].answers >= m /\ runs[r].status = "SUCCEEDED" /\ ~runs[r].dry
  BY DEF Succeeded
<1>2. runs'[r] = runs[r]
  BY <1>1 DEF RunsGoOn, Finished
<1>3. r \in DOMAIN runs'
  BY <1>1 DEF RunsGoOn
<1> QED BY <1>1, <1>2, <1>3 DEF Succeeded

(* An approval and an abort add no run and take on no request. *)
LEMMA ActMoves ==
  ASSUME BlockInv, ActStep
  PROVE  StatusGoesOn
<1>1. /\ BlockInv' /\ UNCHANGED <<asked, reacted>> /\ block'.latestRun = block.latestRun
      /\ block'.latestDryRun = block.latestDryRun
  BY ActKeeps
<1>2. asked \in Nat /\ reacted \in Nat /\ \A i \in DOMAIN runs : runs[i] \in Run
  BY RunTypes, BlockAssumption DEF BlockInv, BlockTypeOK
<1>3. DOMAIN runs' = DOMAIN runs /\ \A i \in DOMAIN runs : runs'[i].answers = runs[i].answers
  <2>1. \/ UNCHANGED runs
        \/ runs' = [runs EXCEPT ![latest].waits = FALSE]
        \/ runs' = [runs EXCEPT ![latest].status = "FAILED", ![latest].abort = TRUE]
        \/ runs' = [runs EXCEPT ![latest].abort = TRUE]
    BY DEF ActStep, ReadBuildingBlock, ReadRun, ReadPlan, Decline, Approve, Abort, Report, ActFails, blockVars
  <2>2. CASE runs' = [runs EXCEPT ![latest].status = "FAILED", ![latest].abort = TRUE]
    BY <1>2, <2>2 DEF Run
  <2>3. CASE runs' = [runs EXCEPT ![latest].waits = FALSE] \/ runs' = [runs EXCEPT ![latest].abort = TRUE]
    BY <1>2, <2>3 DEF Run
  <2> QED BY <2>1, <2>2, <2>3
<1>4. Len(runs') = Len(runs)
  BY <1>1, <1>3, SameRuns
<1> QED BY <1>1, <1>2, <1>3, <1>4 DEF StatusGoesOn

(* The status stays no older than before, and names the answer. *)
LEMMA NamesStay ==
  ASSUME BlockInv, BlockInv', WaitInv, StatusGoesOn, waitPc # "idle", UNCHANGED <<before, mine>>
  PROVE  NoNewer' /\ (Waits => AnswerNamed') /\ mine <= asked'
<1>1. NoNewer /\ (Waits => AnswerNamed) /\ mine <= asked
  BY DEF WaitInv
<1>2. /\ block.latestRun \in 1..Len(runs) /\ block.latestDryRun \in 0..Len(runs) /\ Len(runs) \in Nat
      /\ before.latestRun \in Nat /\ before.latestDryRun \in Nat /\ mine \in Nat
  BY RunTypes, BlockAssumption DEF BlockInv, WaitInv, WaitTypeOK, Status
<1>3. block'.latestRun \in Nat /\ block'.latestDryRun \in Nat
  BY BlockAssumption DEF BlockInv, BlockTypeOK, Status
<1>4. mine <= asked'
  <2>1. asked \in Nat /\ asked' \in Nat
    BY BlockAssumption DEF BlockInv, BlockTypeOK
  <2> QED BY <1>1, <1>2, <2>1 DEF StatusGoesOn
<1>5. CASE block'.latestRun > Len(runs)
  <2>1. block'.latestRun > before.latestRun
    BY <1>1, <1>2, <1>3, <1>5 DEF NoNewer
  <2> QED BY <1>4, <2>1 DEF NoNewer, AnswerNamed
<1>6. CASE block'.latestRun = block.latestRun /\ block'.latestDryRun > Len(runs)
  <2>1. \/ block'.latestRun > before.latestRun
        \/ block'.latestRun = before.latestRun /\ block'.latestDryRun > before.latestDryRun
    BY <1>1, <1>2, <1>3, <1>6 DEF NoNewer
  <2> QED BY <1>2, <1>3, <1>4, <2>1 DEF NoNewer, AnswerNamed
<1>7. CASE /\ block'.latestRun = block.latestRun /\ block'.latestDryRun = block.latestDryRun
           /\ Len(runs') = Len(runs)
           /\ \A r \in DOMAIN runs : r = block.latestRun \/ runs'[r].answers = runs[r].answers
  <2>1. NoNewer'
    BY <1>1, <1>7 DEF NoNewer
  <2>2. DOMAIN runs' = DOMAIN runs
    BY <1>7, LenProperties DEF BlockInv, BlockTypeOK
  <2>3. Waits => AnswerNamed'
    BY <1>1, <1>7, <2>2 DEF AnswerNamed
  <2> QED BY <1>4, <2>1, <2>3
<1> QED BY <1>5, <1>6, <1>7 DEF StatusGoesOn

(* Only what was at work before ends while meshStack has not reacted. *)
LEMMA QuietSteps ==
  ASSUME BlockInv, MeshStack, NotChanged, UNCHANGED <<reacted, before>>
  PROVE  NotChanged'
<1>1. block \in Status /\ asked \in Nat /\ reacted \in Nat /\ \A r \in DOMAIN runs : runs[r] \in Run /\ r # 0
  BY RunTypes, BlockAssumption DEF BlockInv, BlockTypeOK
<1>2. CASE AskForRun
  BY <1>2 DEF AskForRun, NotChanged, Active, Unfinished
<1>3. CASE ClearFailure
  <2>1. /\ block'.latestRun = block.latestRun /\ block'.latestDryRun = block.latestDryRun
        /\ block.startFailedOn # 0 /\ block'.startFailedOn = 0 /\ Active' = Active
    BY <1>1, <1>3 DEF ClearFailure, Status, Active, Unfinished
  <2> QED BY <2>1 DEF NotChanged
<1>4. CASE Release
  <2>1. /\ block'.latestRun = block.latestRun /\ block'.latestDryRun = block.latestDryRun
        /\ block'.startFailedOn = block.startFailedOn /\ Active' = Active
        /\ ActionOfRun(block') = ActionOfRun(block)
    BY <1>1, <1>4 DEF Release, Status, Active, Unfinished, ActionOfRun
  <2> QED BY <2>1 DEF NotChanged
<1>5. CASE Begin \/ NeedsInput
  <2>1. /\ Active # {} /\ block'.latestRun = block.latestRun /\ block'.latestDryRun = block.latestDryRun
        /\ block'.startFailedOn = block.startFailedOn
    BY <1>1, <1>5 DEF Begin, NeedsInput, Status
  <2> QED BY <2>1 DEF NotChanged
<1>6. CASE Finish
  <2>1. Active # {}
    BY <1>6 DEF Finish
  <2>2. IsRunning(before) /\ before.latestDryRun = 0 /\ block.latestDryRun = 0
    BY <2>1 DEF NotChanged
  <2>3. \A r \in Active : ~runs[r].dry
    BY <1>1, <2>2 DEF BlockInv, RunsNamed, Active, Unfinished
  <2>4. /\ block'.latestRun = block.latestRun /\ block'.latestDryRun = block.latestDryRun
        /\ block'.startFailedOn = block.startFailedOn
    BY <1>1, <1>6, <2>3 DEF Finish, Status
  <2> QED BY <2>2, <2>4 DEF NotChanged
<1>7. ~React
  BY <1>1 DEF React
<1> QED BY <1>2, <1>3, <1>4, <1>5, <1>6, <1>7 DEF MeshStack, StartRun, Resume, FailToStart

(* A building block that has nothing more to do has done what was asked. *)
LEMMA EndedHasDone ==
  ASSUME BlockInv, MeshStack, WaitTypeOK, UNCHANGED mine, reacted' >= mine, Ended',
         block.startFailedOn # 0 => block'.startFailedOn # 0,
         reacted >= mine /\ Ended => Succeeded(mine)
  PROVE  Succeeded(mine)'
<1>1. RunsGoOn /\ block \in Status /\ block' \in Status /\ mine \in Nat /\ reacted \in Nat
  BY MeshStackKeeps, BlockAssumption DEF BlockInv, BlockTypeOK, WaitTypeOK
<1>2. PICK m \in Nat : m = mine
  BY <1>1
<1>3. CASE AskForRun \/ Release
  <2>1. reacted >= mine /\ Ended
    <3>1. CASE AskForRun
      BY <1>1, <3>1 DEF AskForRun, Ended
    <3>2. CASE Release
      <4>1. block.action \in {"NO_ACTION", "UPGRADE_AVAILABLE"} /\ reacted' = reacted
        BY <3>2 DEF Release
      <4> QED BY <4>1 DEF Ended, Running, WaitingForInput, Failed
    <3> QED BY <1>3, <3>1, <3>2
  <2>2. Succeeded(m)'
    BY <1>1, <1>2, <2>1, SuccessStays
  <2> QED BY <1>2, <2>2 DEF Succeeded
<1>4. CASE ClearFailure
  BY <1>1, <1>4 DEF ClearFailure, Status
<1>5. CASE (\E dry \in BOOLEAN : StartRun(dry)) \/ Resume \/ FailToStart \/ Begin \/ NeedsInput
  <2>1. block'.action \in Running \cup WaitingForInput \cup Failed
    <3>1. CASE \E dry \in BOOLEAN : StartRun(dry)
      <4>1. block'.action = "PENDING"
        BY <3>1 DEF StartRun
      <4> QED BY <4>1 DEF Running
    <3>2. CASE Resume \/ FailToStart \/ Begin \/ NeedsInput
      <4>1. block'.action \in {"PENDING", "REVIEW_ERRORS", "IN_PROGRESS", "PROVIDE_INPUT"}
        BY <1>1, <3>2 DEF Resume, FailToStart, Begin, NeedsInput, Status
      <4> QED BY <4>1 DEF Running, WaitingForInput, Failed
    <3> QED BY <1>5, <3>1, <3>2
  <2> QED BY <2>1 DEF Ended
<1>6. CASE Finish
  <2>1. Succeeded(reacted)' /\ BlockInv' /\ reacted' = reacted
    BY <1>6, FinishKeeps DEF Ended, Finish
  <2>2. PICK r \in DOMAIN runs' : runs'[r].answers >= reacted /\ runs'[r].status = "SUCCEEDED" /\ ~runs'[r].dry
    BY <2>1 DEF Succeeded
  <2>3. runs'[r].answers \in Nat
    <3>1. runs' \in Seq(Run) /\ DOMAIN runs' = 1..Len(runs')
      BY <2>1, LenProperties DEF BlockInv, BlockTypeOK
    <3>2. runs'[r] \in Run
      BY <2>2, <3>1, ElementOfSeq
    <3> QED BY <3>2 DEF Run
  <2>4. runs'[r].answers >= mine
    BY <1>1, <2>1, <2>2, <2>3
  <2> QED BY <2>2, <2>4 DEF Succeeded
<1> QED BY <1>3, <1>4, <1>5, <1>6 DEF MeshStack

(* Of what meshStack does the command concludes nothing that it may not. *)
LEMMA WaitBesideMeshStack ==
  ASSUME BlockInv, WaitInv, MeshStack, Meanwhile(FALSE)
  PROVE  WaitInv'
<1>1. BlockInv' /\ RunsGoOn /\ StatusGoesOn
  BY MeshStackKeeps, StatusMoves
<1>2. /\ UNCHANGED <<waitPc, waitKind, before, mine, outcome, printed>>
      /\ overlapped' = overlapped
      /\ cleared' = (cleared \/ (Waits /\ block.startFailedOn # 0 /\ block'.startFailedOn = 0))
      /\ Waits' = Waits
  BY DEF Meanwhile, Waits, WaitInv, WaitTypeOK
<1>3. WaitTypeOK'
  BY <1>2 DEF WaitInv, WaitTypeOK
<1>4. waitPc # "idle" => NoNewer' /\ (Waits => AnswerNamed') /\ mine <= asked'
  BY <1>1, <1>2, NamesStay
<1>5. /\ mine \in Nat /\ reacted \in 0..asked /\ reacted' \in 0..asked' /\ asked \in Nat /\ asked' \in Nat
      /\ asked' >= asked /\ reacted' >= reacted
  BY <1>1, BlockAssumption DEF BlockInv, BlockTypeOK, WaitInv, WaitTypeOK, StatusGoesOn
<1>6. reacted' = reacted \/ (reacted' = asked /\ asked > reacted)
  BY DEF MeshStack, AskForRun, StartRun, Resume, FailToStart, React, ClearFailure, Release, Begin, NeedsInput, Finish
<1>7. waitPc = "snapshot" /\ ~overlapped /\ asked' = mine => reacted' = asked' /\ NotChanged'
  <2> SUFFICES ASSUME waitPc = "snapshot", ~overlapped, asked' = mine PROVE reacted' = asked' /\ NotChanged'
    OBVIOUS
  <2>1. asked = mine
    BY <1>5 DEF WaitInv
  <2>2. reacted = asked /\ NotChanged
    BY <2>1 DEF WaitInv
  <2>3. reacted' = reacted /\ asked' = asked
    BY <1>5, <1>6, <2>1, <2>2
  <2> QED BY <1>2, <2>2, <2>3, QuietSteps
<1>8. waitPc = "reacting" /\ ~overlapped /\ reacted' < mine => NotChanged'
  <2> SUFFICES ASSUME waitPc = "reacting", ~overlapped, reacted' < mine PROVE NotChanged'
    OBVIOUS
  <2>1. mine <= asked
    BY DEF WaitInv
  <2>2. reacted' = reacted
    BY <1>5, <1>6, <2>1
  <2>3. NotChanged
    BY <2>2 DEF WaitInv
  <2> QED BY <1>2, <2>2, <2>3, QuietSteps
<1>9. waitPc = "ending" /\ ~overlapped => reacted' >= mine
  BY <1>5 DEF WaitInv
<1>10. Waits /\ ~cleared' /\ reacted' >= mine /\ Ended' => Succeeded(mine)'
  <2> SUFFICES ASSUME Waits, ~cleared', reacted' >= mine, Ended' PROVE Succeeded(mine)'
    OBVIOUS
  <2>1. ~cleared /\ (block.startFailedOn # 0 => block'.startFailedOn # 0)
    BY <1>2
  <2>2. reacted >= mine /\ Ended => Succeeded(mine)
    BY <2>1 DEF WaitInv
  <2>3. WaitTypeOK /\ mine' = mine
    BY <1>2 DEF WaitInv
  <2> QED BY <2>1, <2>2, <2>3, EndedHasDone
<1>11. outcome = "ended" /\ ~overlapped' /\ ~cleared' => Succeeded(mine)'
  <2> SUFFICES ASSUME outcome = "ended", ~overlapped', ~cleared' PROVE Succeeded(mine)'
    OBVIOUS
  <2>1. Succeeded(mine)
    BY <1>2 DEF WaitInv
  <2>2. PICK m \in Nat : m = mine
    BY <1>5
  <2>3. Succeeded(m)'
    BY <1>1, <2>1, <2>2, SuccessStays
  <2> QED BY <1>2, <2>2, <2>3 DEF Succeeded
<1> QED
  <2>1. waitPc' # "idle" => mine' <= asked' /\ before'.startFailedOn <= mine' /\ NoNewer'
    BY <1>2, <1>4 DEF WaitInv
  <2>2. Waits' => mine' > before'.startFailedOn /\ AnswerNamed'
    BY <1>2, <1>4 DEF WaitInv, Waits
  <2>3. waitPc' = "snapshot" /\ ~overlapped' /\ asked' = mine' => reacted' = asked' /\ NotChanged'
    BY <1>2, <1>7
  <2>4. waitPc' = "reacting" /\ ~overlapped' /\ reacted' < mine' => NotChanged'
    BY <1>2, <1>8
  <2>5. waitPc' = "ending" /\ ~overlapped' => reacted' >= mine'
    BY <1>2, <1>9
  <2>6. Waits' /\ ~cleared' /\ reacted' >= mine' /\ Ended' => Succeeded(mine)'
    BY <1>2, <1>10
  <2>7. outcome' = "ended" => waitPc' = "done"
    BY <1>2 DEF WaitInv
  <2>8. outcome' = "ended" /\ ~overlapped' /\ ~cleared' => Succeeded(mine)'
    BY <1>2, <1>11
  <2> QED BY <1>3, <2>1, <2>2, <2>3, <2>4, <2>5, <2>6, <2>7, <2>8 DEF WaitInv

(* Nor of an approval or an abort: before there is a reaction they count as overlapping.  *)
LEMMA WaitBesideAct ==
  ASSUME BlockInv, WaitInv, ActStep, Meanwhile(runs' # runs)
  PROVE  WaitInv'
<1>1. /\ BlockInv' /\ RunsGoOn /\ StatusGoesOn
      /\ UNCHANGED <<asked, reacted>> /\ block'.startFailedOn = block.startFailedOn
      /\ block' = block \/ block'.action \in Running \cup Failed
      /\ UNCHANGED blockVars \/ runs' # runs
  BY ActKeeps, ActMoves
<1>2. /\ UNCHANGED <<waitPc, waitKind, before, mine, outcome, printed>>
      /\ Waits' = Waits
  BY DEF Meanwhile, Waits
<1>3. overlapped' = (overlapped \/ (runs' # runs /\ waitPc \in {"snapshot", "reacting"}))
  BY DEF Meanwhile
<1>4. cleared' = cleared
  BY <1>1 DEF Meanwhile, WaitInv, WaitTypeOK
<1>5. WaitTypeOK'
  BY <1>2, <1>3, <1>4 DEF WaitInv, WaitTypeOK
<1>6. waitPc # "idle" => NoNewer' /\ (Waits => AnswerNamed') /\ mine <= asked'
  BY <1>1, <1>2, NamesStay
<1>7. waitPc \in {"snapshot", "reacting"} /\ ~overlapped' => ~overlapped /\ (NotChanged => NotChanged')
  BY <1>1, <1>2, <1>3 DEF NotChanged, blockVars, Active, Unfinished
<1>8. waitPc = "snapshot" /\ ~overlapped' /\ asked' = mine => reacted' = asked' /\ NotChanged'
  BY <1>1, <1>7 DEF WaitInv
<1>9. waitPc = "reacting" /\ ~overlapped' /\ reacted' < mine => NotChanged'
  BY <1>1, <1>7 DEF WaitInv
<1>10. ~overlapped' => ~overlapped
  BY <1>3
<1>11. PICK m \in Nat : m = mine
  BY BlockAssumption DEF WaitInv, WaitTypeOK
<1>12. Succeeded(mine) => Succeeded(mine)'
  <2>1. Succeeded(m) => Succeeded(m)'
    BY <1>1, SuccessStays
  <2> QED BY <1>2, <1>11, <2>1 DEF Succeeded
<1>13. Ended' => Ended
  BY <1>1 DEF Ended
<1>14. Waits /\ ~cleared' /\ reacted' >= mine /\ Ended' => Succeeded(mine)'
  BY <1>1, <1>4, <1>12, <1>13 DEF WaitInv
<1>15. outcome = "ended" /\ ~overlapped' /\ ~cleared' => Succeeded(mine)'
  BY <1>4, <1>10, <1>12 DEF WaitInv
<1> QED
  <2>1. waitPc' # "idle" => mine' <= asked' /\ before'.startFailedOn <= mine' /\ NoNewer'
    BY <1>2, <1>6 DEF WaitInv
  <2>2. Waits' => mine' > before'.startFailedOn /\ AnswerNamed'
    BY <1>2, <1>6 DEF WaitInv, Waits
  <2>3. waitPc' = "snapshot" /\ ~overlapped' /\ asked' = mine' => reacted' = asked' /\ NotChanged'
    BY <1>2, <1>8
  <2>4. waitPc' = "reacting" /\ ~overlapped' /\ reacted' < mine' => NotChanged'
    BY <1>2, <1>9
  <2>5. waitPc' = "ending" /\ ~overlapped' => reacted' >= mine'
    BY <1>2, <1>1, <1>10 DEF WaitInv
  <2>6. Waits' /\ ~cleared' /\ reacted' >= mine' /\ Ended' => Succeeded(mine)'
    BY <1>2, <1>14
  <2>7. outcome' = "ended" => waitPc' = "done"
    BY <1>2 DEF WaitInv
  <2>8. outcome' = "ended" /\ ~overlapped' /\ ~cleared' => Succeeded(mine)'
    BY <1>2, <1>15
  <2> QED BY <1>5, <2>1, <2>2, <2>3, <2>4, <2>5, <2>6, <2>7, <2>8 DEF WaitInv

(* A reaction that is seen is one to this request, or to a later one. *)
LEMMA ReactedToMine ==
  ASSUME BlockInv, WaitInv, AwaitReaction, waitPc' # "reacting", ~overlapped
  PROVE  reacted >= mine
<1>1. waitPc = "reacting" /\ RunChangedSince(block, before)
  BY DEF AwaitReaction
<1>2. ~(reacted < mine)
  BY <1>1, NotTakenForReaction DEF WaitInv
<1> QED BY <1>2, BlockAssumption DEF BlockInv, BlockTypeOK, WaitInv, WaitTypeOK

(* Before is read while nothing is on its way, or else the command is overlapped. *)
LEMMA BeforeIsStill ==
  ASSUME BlockInv, before' = block, UNCHANGED blockVars, asked = reacted, ~Unsettled(block)
  PROVE  NotChanged'
<1>1. Active' = Active /\ block' = block
  BY DEF blockVars, Active, Unfinished
<1>2. block.startFailedOn \in {0, block.startFailedOn}
  OBVIOUS
<1>3. \/ IsRunning(block) /\ block.latestDryRun = 0
      \/ Active = {} /\ ~IsRunning(block)
  BY DEF Unsettled, BlockInv
<1> QED BY <1>1, <1>2, <1>3 DEF NotChanged

(* The reads of the command itself, and its write. *)
LEMMA WaitFollows ==
  ASSUME BlockInv, WaitInv, WaitStep
  PROVE  WaitInv'
<1>1. /\ asked \in 0..MaxWrites /\ reacted \in 0..asked /\ mine \in 0..MaxWrites /\ MaxWrites \in Nat /\ block \in Status
      /\ before.startFailedOn \in Nat /\ block.startFailedOn \in Nat /\ block.startFailedOn <= reacted
      /\ Len(runs) \in Nat /\ \A r \in DOMAIN runs : runs[r].answers \in 0..reacted
  <2>1. \A r \in DOMAIN runs : runs[r].answers \in 0..reacted
    BY RunTypes DEF BlockInv, RunsAnswer, Run, BlockTypeOK
  <2> QED BY <2>1, RunTypes, BlockAssumption DEF BlockInv, BlockTypeOK, WaitInv, WaitTypeOK, Status
<1>2. CASE TakeBefore
  <2>1. /\ waitPc' = "snapshot" /\ before' = block /\ mine' = asked /\ UNCHANGED <<waitKind, outcome, printed, cleared>>
        /\ overlapped' = (asked # reacted \/ Unsettled(block)) /\ UNCHANGED blockVars
        /\ asked' = asked /\ reacted' = reacted /\ block' = block /\ waitPc = "idle"
    BY <1>2 DEF TakeBefore, blockVars
  <2>2. WaitTypeOK'
    BY <1>1, <2>1 DEF WaitInv, WaitTypeOK
  <2>3. mine' <= asked' /\ before'.startFailedOn <= mine' /\ NoNewer'
    <3>1. block.latestDryRun >= block.latestDryRun
      BY RunTypes DEF BlockInv
    <3> QED BY <1>1, <2>1, <3>1 DEF NoNewer
  <2>4. ~overlapped' => reacted' = asked' /\ NotChanged'
    BY <2>1, BeforeIsStill
  <2>5. outcome' # "ended"
    BY <2>1 DEF WaitInv
  <2> QED BY <2>1, <2>2, <2>3, <2>4, <2>5 DEF WaitInv, Waits
<1>3. CASE Ask
  <2>1. /\ waitPc' = "reacting" /\ before' = (IF waitPc = "snapshot" THEN before ELSE block) /\ mine' = asked + 1
        /\ UNCHANGED <<waitKind, outcome, printed, cleared>> /\ waitPc \in {"idle", "snapshot"}
        /\ asked' = asked + 1 /\ asked < MaxWrites /\ UNCHANGED <<block, runs, reacted>>
    BY <1>3 DEF Ask, AskForRun
  <2>2. overlapped' = (overlapped \/ IF waitPc = "snapshot" THEN asked # mine
                                     ELSE asked # reacted \/ Unsettled(block))
    BY <1>3 DEF Ask
  <2>3. WaitTypeOK'
    <3>1. before' \in Status /\ mine' \in 0..MaxWrites
      BY <1>1, <2>1 DEF WaitInv, WaitTypeOK
    <3>2. overlapped' \in BOOLEAN
      BY <2>2 DEF WaitInv, WaitTypeOK
    <3> QED BY <2>1, <3>1, <3>2 DEF WaitInv, WaitTypeOK
  <2>4. mine' <= asked' /\ before'.startFailedOn < mine'
    <3>1. CASE waitPc = "snapshot"
      BY <1>1, <2>1, <3>1 DEF WaitInv
    <3>2. CASE waitPc = "idle"
      BY <1>1, <2>1, <3>2
    <3> QED BY <2>1, <3>1, <3>2
  <2>5. NoNewer'
    <3>1. block.latestDryRun >= block.latestDryRun
      BY RunTypes DEF BlockInv
    <3>2. waitPc = "snapshot" => NoNewer
      BY DEF WaitInv
    <3> QED BY <2>1, <3>1, <3>2 DEF NoNewer
  <2>6. AnswerNamed'
    <3>1. \A r \in DOMAIN runs' : ~(runs'[r].answers >= mine')
      BY <1>1, <2>1
    <3> QED BY <3>1 DEF AnswerNamed
  <2>7. ~overlapped' => NotChanged'
    <3>1. CASE waitPc = "snapshot"
      <4>1. ~overlapped' => NotChanged
        BY <2>2, <3>1 DEF WaitInv
      <4> QED BY <2>1, <3>1, <4>1 DEF NotChanged, Active, Unfinished
    <3>2. CASE waitPc = "idle"
      <4> SUFFICES ASSUME ~overlapped' PROVE NotChanged'
        OBVIOUS
      <4>1. asked = reacted /\ ~Unsettled(block)
        BY <2>2, <3>2
      <4>2. Active' = Active /\ before' = block /\ block' = block
        BY <2>1, <3>2 DEF Active, Unfinished
      <4>3. \/ IsRunning(block) /\ block.latestDryRun = 0
            \/ Active = {} /\ ~IsRunning(block)
        BY <4>1 DEF Unsettled, BlockInv
      <4> QED BY <4>2, <4>3 DEF NotChanged
    <3> QED BY <2>1, <3>1, <3>2
  <2>8. ~(reacted' >= mine')
    BY <1>1, <2>1
  <2>9. outcome' # "ended"
    BY <2>1 DEF WaitInv
  <2>10. mine' > before'.startFailedOn /\ before'.startFailedOn <= mine'
    BY <1>1, <2>1, <2>4 DEF WaitInv, WaitTypeOK, Status
  <2> QED BY <2>1, <2>3, <2>4, <2>5, <2>6, <2>7, <2>8, <2>9, <2>10 DEF WaitInv, Waits
<1>4. CASE AwaitReaction \/ AwaitEnd \/ NoReaction \/ StopWaiting
  <2>1. /\ UNCHANGED blockVars /\ UNCHANGED <<waitKind, before, mine, overlapped, cleared>>
        /\ asked' = asked /\ reacted' = reacted /\ block' = block /\ runs' = runs
    BY <1>4 DEF AwaitReaction, AwaitEnd, NoReaction, StopWaiting, blockVars
  <2>2. /\ NoNewer' = NoNewer /\ AnswerNamed' = AnswerNamed /\ NotChanged' = NotChanged
        /\ Ended' = Ended /\ Succeeded(mine)' = Succeeded(mine)
    BY <2>1 DEF NoNewer, AnswerNamed, NotChanged, Ended, Succeeded, Active, Unfinished
  <2>3. Waits /\ (waitPc' \in {"reacting", "ending"} => outcome' = outcome)
    BY <1>4 DEF AwaitReaction, AwaitEnd, NoReaction, StopWaiting, Waits, End
  <2>4. /\ waitPc' \in {waitPc, "ending", "done"}
        /\ outcome' \in {outcome, "noReaction", "stopped", "failedRead", "started", "startFailed", "failed", "paused", "ended"}
        /\ printed' \in {printed, block}
    BY <1>4 DEF AwaitReaction, AwaitEnd, NoReaction, StopWaiting, End, Outcome
  <2>5. WaitTypeOK'
    BY <1>1, <2>1, <2>3, <2>4 DEF WaitInv, WaitTypeOK, Waits
  <2>6. waitPc' = "ending" /\ ~overlapped' => reacted >= mine
    <3>1. CASE waitPc = "ending"
      BY <2>1, <3>1 DEF WaitInv
    <3>2. CASE waitPc # "ending" /\ waitPc' = "ending"
      <4>1. AwaitReaction
        BY <1>4, <3>2 DEF AwaitEnd, NoReaction, StopWaiting, End
      <4> QED BY <2>1, <3>2, <4>1, ReactedToMine
    <3> QED BY <3>1, <3>2
  <2>7. waitPc' = "reacting" => waitPc = "reacting"
    BY <2>4
  <2>8. outcome' = "ended" => waitPc = "ending" /\ waitPc' = "done" /\ Ended /\ AwaitEnd
    <3>1. outcome # "ended"
      BY <2>3 DEF WaitInv, Waits
    <3>2. CASE AwaitEnd
      <4>1. SUFFICES ASSUME outcome' = "ended" PROVE waitPc' = "done" /\ Ended
        BY <3>2 DEF AwaitEnd
      <4>2. waitPc' = "done" /\ RunEnded(block) /\ Outcome(block) = "ended"
        BY <3>1, <3>2, <4>1 DEF AwaitEnd, End
      <4>3. ~RunFailed(block) /\ ~IsWaitingForInput(block)
        BY <4>2 DEF Outcome
      <4> QED BY <4>2, <4>3 DEF RunEnded, RunFailed, IsWaitingForInput, IsRunning, Ended
    <3>3. CASE AwaitReaction \/ NoReaction \/ StopWaiting
      BY <3>1, <3>3 DEF AwaitReaction, NoReaction, StopWaiting, End
    <3> QED BY <1>4, <3>2, <3>3 DEF AwaitEnd
  <2>9. outcome' = "ended" /\ ~overlapped' /\ ~cleared' => Succeeded(mine)'
    BY <2>1, <2>2, <2>3, <2>8 DEF WaitInv
  <2>10. waitPc' # "idle" /\ waitPc' # "snapshot" /\ waitPc # "idle"
    BY <2>3, <2>4 DEF Waits
  <2> QED
    <3>1. waitPc' # "idle" => mine' <= asked' /\ before'.startFailedOn <= mine' /\ NoNewer'
      BY <2>1, <2>2, <2>10 DEF WaitInv
    <3>2. Waits' => mine' > before'.startFailedOn /\ AnswerNamed'
      BY <2>1, <2>2, <2>3 DEF WaitInv
    <3>3. waitPc' = "reacting" /\ ~overlapped' /\ reacted' < mine' => NotChanged'
      BY <2>1, <2>2, <2>7 DEF WaitInv
    <3>4. waitPc' = "ending" /\ ~overlapped' => reacted' >= mine'
      BY <2>1, <2>6
    <3>5. Waits' /\ ~cleared' /\ reacted' >= mine' /\ Ended' => Succeeded(mine)'
      BY <2>1, <2>2, <2>3 DEF WaitInv
    <3> QED BY <2>5, <2>8, <2>9, <2>10, <3>1, <3>2, <3>3, <3>4, <3>5 DEF WaitInv
<1> QED BY <1>2, <1>3, <1>4 DEF WaitStep

(* What a command concludes from the status it has read holds after every step. *)
LEMMA WaitNext == BlockInv /\ WaitInv /\ [Next]_vars => WaitInv'
<1> SUFFICES ASSUME BlockInv, WaitInv, [Next]_vars PROVE WaitInv'
  OBVIOUS
<1>1. CASE UNCHANGED <<blockVars, waitVars>>
  BY <1>1 DEF blockVars, waitVars, WaitInv, WaitTypeOK, Waits, NoNewer, AnswerNamed, NotChanged, Ended, Succeeded,
              Active, Unfinished
<1>2. CASE FollowLogs
  <2>1. UNCHANGED blockVars
    BY <1>2 DEF FollowLogs, FollowStep, RunnerStep, Follow, ReadStatus, ReadLogs, Write, StopFollowing,
                ReadFails, NewStep, StepEnds, StepSays, RunnerSends
  <2> QED BY <1>1, <1>2, <2>1 DEF FollowLogs
<1> QED BY <1>1, <1>2, WaitBesideMeshStack, WaitBesideAct, WaitFollows
        DEF Next, MeshStackActs, Wait, Act, vars

(* A wait that ends without an error is the end of a run of this request, or a later one, *)
(* that succeeded.                                                                        *)
THEOREM EndIsSuccess == Spec => []EndedMeansSucceeded
<1>1. WaitInv => EndedMeansSucceeded
  BY DEF WaitInv, EndedMeansSucceeded, Succeeded
<1> QED BY <1>1, WaitStarts, WaitNext, StatusNamesRuns, PTL DEF Spec

(* A command goes on once meshStack has reacted to its request, and not before. *)
THEOREM ReactionIsMine == Spec => ReactsToMine
<1> DEFINE Seen == /\ Awaits /\ Reacted /\ ~overlapped => reacted >= mine
                   /\ AwaitReaction /\ ReactionStands => waitPc' # "reacting"
<1>1. BlockInv /\ WaitInv /\ [Next]_vars => [Seen]_vars
  <2> SUFFICES ASSUME BlockInv, WaitInv, Next PROVE Seen
    OBVIOUS
  <2>1. Awaits /\ Reacted /\ ~overlapped => reacted >= mine
    <3> SUFFICES ASSUME Awaits, Reacted, ~overlapped PROVE reacted >= mine
      OBVIOUS
    <3>1. waitPc = "reacting" /\ waitPc' # waitPc
      BY DEF Awaits
    <3>2. WaitStep
      BY <3>1 DEF Next, MeshStackActs, Wait, Act, FollowLogs, Meanwhile, waitVars
    <3>3. AwaitReaction
      BY <3>1, <3>2 DEF WaitStep, TakeBefore, Ask, AwaitEnd, NoReaction, StopWaiting, End, Reacted
    <3> QED BY <3>1, <3>3, ReactedToMine
  <2>2. AwaitReaction /\ ReactionStands => waitPc' # "reacting"
    <3> SUFFICES ASSUME AwaitReaction, ReactionStands PROVE waitPc' # "reacting"
      OBVIOUS
    <3>1. Waits
      BY DEF AwaitReaction, Waits
    <3>2. RunChangedSince(block, before)
      BY <3>1, ReactionSeen
    <3> QED BY <3>2 DEF AwaitReaction, End
  <2> QED BY <2>1, <2>2
<1>2. Spec => [][Seen]_vars
  BY <1>1, WaitStarts, WaitNext, StatusNamesRuns, PTL DEF Spec
<1> QED BY <1>2 DEF ReactsToMine
=============================================================================
