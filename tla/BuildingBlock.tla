---------------------------- MODULE BuildingBlock ----------------------------
(***************************************************************************)
(* A building block as meshStack reports it, what the CLI concludes from   *)
(* its status, and what meshStack itself does: it answers a write before   *)
(* it starts the run, so that right after a write the status is that of    *)
(* the run before.  The rules of the status are those of the client; the   *)
(* rest is what the client's comments and the commands expect of meshStack.*)
(***************************************************************************)
EXTENDS Naturals, Sequences

CONSTANTS MaxWrites, MaxRuns      \* bounds on requests for a run, and on runs

ASSUME BlockAssumption == MaxWrites \in Nat /\ MaxRuns \in Nat \ {0}

VARIABLES
  block,     \* the status of the building block
  runs,      \* the runs, the oldest first
  asked,     \* how many runs were asked for
  reacted    \* the last request that meshStack has reacted to

blockVars == <<block, runs, asked, reacted>>

Running == {"PENDING", "IN_PROGRESS"}
WaitingForInput == {"PROVIDE_INPUT", "WAITING_FOR_DEPENDENCY", "APPROVE_RUN"}
Failed == {"REVIEW_ERRORS", "REVIEW_ABORTED_RUN"}
Action == Running \cup WaitingForInput \cup Failed
            \cup {"REVIEW_DRIFT", "UPGRADE_AVAILABLE", "NO_ACTION"}

(* A run that does not exist is 0, as is the time of a failure that has not been. *)
Status == [action : Action, latestRun : 0..MaxRuns, latestDryRun : 0..MaxRuns,
           startFailedOn : 0..MaxWrites]

Run == [dry : BOOLEAN, status : {"PENDING", "IN_PROGRESS", "SUCCEEDED", "FAILED"},
        waits : BOOLEAN, plan : 0..MaxRuns, answers : 0..MaxWrites, abort : BOOLEAN]

BlockTypeOK ==
  /\ block \in Status
  /\ runs \in Seq(Run) /\ Len(runs) <= MaxRuns
  /\ asked \in 0..MaxWrites /\ reacted \in 0..asked

-----------------------------------------------------------------------------
(* What the client concludes.                                              *)

IsRunning(s) == s.action \in Running
IsWaitingForInput(s) == s.action \in WaitingForInput
RunFailed(s) == s.action \in Failed

(* A definition version that is released changes the action without a run. *)
ActionOfRun(s) == IF s.action = "UPGRADE_AVAILABLE" THEN "NO_ACTION" ELSE s.action

StartFailedSince(s, before) ==
  s.startFailedOn # 0 /\ s.startFailedOn # before.startFailedOn

(* Mutation: the end of the run before is taken for a reaction, and a cleared failure.   *)
RunChangedSinceRunning(s, before) ==
  \/ s.latestRun # before.latestRun
  \/ s.latestDryRun # before.latestDryRun
  \/ StartFailedSince(s, before)
  \/ ActionOfRun(s) # ActionOfRun(before)

RunChangedSince(s, before) ==
  \/ s.latestRun # before.latestRun
  \/ s.latestDryRun # before.latestDryRun
  \/ StartFailedSince(s, before)
  \/ /\ ~(before.startFailedOn # 0 /\ s.startFailedOn = 0)
     /\ ~IsRunning(before)
     /\ ActionOfRun(s) # ActionOfRun(before)

(* After the reaction, every status but a running one is the end.          *)
RunEnded(s) == ~IsRunning(s)

-----------------------------------------------------------------------------
(* meshStack.                                                              *)

Finished == {"SUCCEEDED", "FAILED"}
Unfinished == {r \in DOMAIN runs : runs[r].status \notin Finished}
Active == {r \in Unfinished : ~runs[r].waits}
Waiting == {r \in Unfinished : runs[r].waits /\ runs[r].plan # 0}       \* for its approval
Paused == {r \in Unfinished : runs[r].waits /\ runs[r].plan = 0}        \* for input

NewRun(dry, status, plan, answers) ==
  [dry |-> dry, status |-> status, waits |-> plan # 0, plan |-> plan, answers |-> answers, abort |-> FALSE]

BlockInit ==
  /\ \E end \in {<<"SUCCEEDED", "NO_ACTION">>, <<"FAILED", "REVIEW_ERRORS">>} :
       /\ runs = <<NewRun(FALSE, end[1], 0, 0)>>
       /\ block = [action |-> end[2], latestRun |-> 1, latestDryRun |-> 0, startFailedOn |-> 0]
  /\ asked = 0
  /\ reacted = 0

AskForRun ==
  /\ asked < MaxWrites
  /\ asked' = asked + 1
  /\ UNCHANGED <<block, runs, reacted>>

(* One run at a time, for all requests that came meanwhile.                *)
React == asked > reacted /\ Active = {} /\ reacted' = asked /\ UNCHANGED asked

(* A run, or where a definition wants an approval a preflight run that makes the plan.  *)
(* The plan may be made again while a run waits for its approval.                       *)
StartRun(dry) ==
  /\ React
  /\ Len(runs) < MaxRuns
  /\ Paused = {}
  /\ Waiting # {} => dry
  /\ runs' = Append(runs, NewRun(dry, "PENDING", 0, asked))
  /\ block' = [action |-> "PENDING", startFailedOn |-> 0,
               latestRun |-> IF dry THEN block.latestRun ELSE Len(runs) + 1,
               latestDryRun |-> IF dry THEN Len(runs) + 1 ELSE 0]

(* The input that a run waits for resumes it.                              *)
Resume ==
  /\ React
  /\ \E r \in Paused : runs' = [runs EXCEPT ![r].waits = FALSE, ![r].answers = asked]
  /\ block' = [block EXCEPT !.action = "PENDING"]

FailToStart ==
  /\ React
  /\ Paused = {} /\ Waiting = {}
  /\ block' = [block EXCEPT !.startFailedOn = asked, !.action = "REVIEW_ERRORS"]
  /\ UNCHANGED runs

(* A build that includes the block again.                                  *)
ClearFailure ==
  /\ block.startFailedOn # 0
  /\ block' = [block EXCEPT !.startFailedOn = 0, !.action = "NO_ACTION"]
  /\ UNCHANGED <<runs, asked, reacted>>

Release ==
  /\ \/ block.action = "NO_ACTION" /\ block' = [block EXCEPT !.action = "UPGRADE_AVAILABLE"]
     \/ block.action = "UPGRADE_AVAILABLE" /\ block' = [block EXCEPT !.action = "NO_ACTION"]
  /\ UNCHANGED <<runs, asked, reacted>>

Begin ==
  /\ \E r \in Active : /\ runs[r].status = "PENDING"
                       /\ runs' = [runs EXCEPT ![r].status = "IN_PROGRESS"]
  /\ block' = [block EXCEPT !.action = "IN_PROGRESS"]
  /\ UNCHANGED <<asked, reacted>>

NeedsInput ==
  /\ \E r \in Active : /\ runs[r].status = "IN_PROGRESS" /\ ~runs[r].dry /\ ~runs[r].abort
                       /\ runs' = [runs EXCEPT ![r].waits = TRUE, ![r].plan = 0]
  /\ block' = [block EXCEPT !.action = "PROVIDE_INPUT"]
  /\ UNCHANGED <<asked, reacted>>

(* A plan that succeeded becomes the predecessor of the run that waits for its approval, *)
(* and what was asked of it will be done by that run.                                    *)
Planned(r) ==
  IF Waiting # {}
  THEN /\ runs' = [i \in DOMAIN runs |->
                     IF i = r THEN [runs[r] EXCEPT !.status = "SUCCEEDED"]
                     ELSE IF i \in Waiting
                     THEN [runs[i] EXCEPT !.plan = r, !.answers = runs[r].answers] ELSE runs[i]]
       /\ block' = [block EXCEPT !.action = "APPROVE_RUN"]
  ELSE /\ Len(runs) < MaxRuns
       /\ runs' = Append([runs EXCEPT ![r].status = "SUCCEEDED"],
                         NewRun(FALSE, "IN_PROGRESS", r, runs[r].answers))
       /\ block' = [block EXCEPT !.action = "APPROVE_RUN", !.latestDryRun = 0,
                                 !.latestRun = Len(runs) + 1]

(* A plan that failed leaves nothing to approve.                            *)
Finish ==
  /\ \E r \in Active :
       /\ runs[r].status = "IN_PROGRESS"
       /\ \/ ~runs[r].abort /\ runs[r].dry /\ Planned(r)
          \/ /\ ~runs[r].abort /\ ~runs[r].dry
             /\ runs' = [runs EXCEPT ![r].status = "SUCCEEDED"]
             /\ block' = [block EXCEPT !.action = "NO_ACTION"]
          \/ /\ runs' = [i \in DOMAIN runs |->
                          IF i = r \/ (runs[r].dry /\ i \in Waiting)
                          THEN [runs[i] EXCEPT !.status = "FAILED"] ELSE runs[i]]
             /\ block' = [block EXCEPT !.action =
                            IF runs[r].abort THEN "REVIEW_ABORTED_RUN" ELSE "REVIEW_ERRORS"]
  /\ UNCHANGED <<asked, reacted>>

(* A preflight run that ends has another run follow it.                    *)
Unsettled(s) == IsRunning(s) /\ s.latestDryRun # 0

MeshStack ==
  \/ AskForRun
  \/ \E dry \in BOOLEAN : StartRun(dry)
  \/ Resume \/ FailToStart \/ ClearFailure \/ Release \/ Begin \/ NeedsInput \/ Finish

(* What meshStack has begun it ends.  Nobody has to ask for another run.   *)
MeshStackFairness == WF_blockVars(Begin) /\ WF_blockVars(Finish)
=============================================================================
