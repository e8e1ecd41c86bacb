---------------------------- MODULE BlockCommands ----------------------------
(***************************************************************************)
(* Commands of several people on one building block: one asks for a run    *)
(* and waits, one approves or aborts it, one follows the logs of a run,    *)
(* beside meshStack and whoever else asks for runs.                        *)
(***************************************************************************)
EXTENDS RunWait, RunAction, FollowRun

CONSTANTS Scenarios     \* the commands that take part, and bounds on the requests and runs they meet

VARIABLES commands, requests, runsMet

vars == <<blockVars, waitVars, actVars, followVars, commands, requests, runsMet>>
scenarioVars == <<commands, requests, runsMet>>

TypeOK == BlockTypeOK /\ WaitTypeOK /\ ActTypeOK /\ FollowTypeOK

Init ==
  /\ BlockInit /\ WaitInit /\ ActInit /\ FollowInit
  /\ \E s \in Scenarios : commands = s.commands /\ requests = s.requests /\ runsMet = s.runs
  /\ "wait" \in commands \/ (waitKind = "trigger" /\ runs[1].status = "SUCCEEDED")
  /\ "act" \in commands \/ actKind = "approve"

(* What happens after the last command has ended is of no interest.        *)
Watched ==
  \/ "wait" \in commands /\ waitPc # "done"
  \/ "act" \in commands /\ actPc # "done"
  \/ "follow" \in commands /\ followPc # "done"

(* What changes only the status matters to those who wait alone.                         *)
MeshStackActs ==
  /\ Watched
  /\ MeshStack
  /\ asked' <= requests /\ Len(runs') <= runsMet
  /\ "wait" \notin commands => <<runs, asked>>' # <<runs, asked>>
  /\ Meanwhile(FALSE)
  /\ UNCHANGED <<actVars, followVars, scenarioVars>>
Wait == "wait" \in commands /\ WaitStep /\ asked' <= requests /\ UNCHANGED <<actVars, followVars, scenarioVars>>
Act == "act" \in commands /\ ActStep /\ Meanwhile(runs' # runs) /\ UNCHANGED <<followVars, scenarioVars>>
FollowLogs == "follow" \in commands /\ (FollowStep \/ RunnerStep) /\ UNCHANGED <<waitVars, actVars, scenarioVars>>

Next == MeshStackActs \/ Wait \/ Act \/ FollowLogs

Fairness == MeshStackFairness /\ WaitFairness /\ FollowFairness

Spec == Init /\ [][Next]_vars /\ Fairness

-----------------------------------------------------------------------------
(* Waiting.                                                                *)

Awaits == waitPc = "reacting" /\ waitPc' \in {"ending", "done"} /\ UNCHANGED blockVars
Reacted == outcome' \in {"none", "started", "startFailed"}

(* A run or a failure to start that shows meshStack's reaction to this request or a     *)
(* later one.  A run that was there before and was resumed is none while it does not     *)
(* differ.                                                                               *)
ReactionStands ==
  \/ \E r \in DOMAIN runs : runs[r].answers >= mine /\ r # before.latestRun
  \/ block.startFailedOn >= mine

(* A command that asked for a run goes on to wait for its end, or names it, only once   *)
(* meshStack has reacted to its request: the run before that ends meanwhile, a version  *)
(* that is released and a failure that is cleared are no reaction (RunChangedSince); and *)
(* a read that meets a reaction ends the wait for it.  What meshStack does for a request *)
(* that was on its way when before was read, and for a preflight run that was at work,   *)
(* or an approval or abort meanwhile, is mistaken for it (overlapped): the status does   *)
(* not tell them apart.                                                                  *)
ReactsToMine ==
  [][/\ Awaits /\ Reacted /\ ~overlapped => reacted >= mine
     /\ AwaitReaction /\ ReactionStands => waitPc' # "reacting"]_vars

(* A wait that ends without an error is the end of a run that succeeded, of this request *)
(* or a later one, and not of the run before.  One case is not excluded: the failure to  *)
(* start that AwaitReaction saw was cleared before AwaitEnd read the block again.        *)
EndedMeansSucceeded ==
  outcome = "ended" /\ ~overlapped /\ ~cleared =>
    \E r \in DOMAIN runs : runs[r].answers >= mine /\ runs[r].status = "SUCCEEDED" /\ ~runs[r].dry

-----------------------------------------------------------------------------
(* Approving and aborting.                                                 *)

(* A run goes to work only with the plan that was on the screen when the question was    *)
(* answered, whatever was planned again since.                                           *)
ApprovedAsShown == \A r \in DOMAIN runs : approvedPlan[r] \in {0, plan}

-----------------------------------------------------------------------------
(* Following.                                                              *)

Shows(step) ==
  /\ <<step.name, "status", 0, step.status>> \in screen
  /\ \A k \in DOMAIN step.user : <<step.name, "user", k, step.user[k]>> \in screen
  /\ step.system # step.user =>
       \A k \in DOMAIN step.system : <<step.name, "system", k, step.system[k]>> \in screen

(* A follow that ends with the run has shown everything that the run ever said last:     *)
(* nothing is lost between the read that shows the end and the logs, nor where a message *)
(* is replaced or a step put before another.                                             *)
FinishedIsShown ==
  followEnd \in {"succeeded", "failed", "aborted"} =>
    /\ runs[followed].status \in Finished
    /\ \A i \in DOMAIN logs : Shows(logs[i])

(* While messages only grow, no line is written to its place twice, whatever fails.      *)
NoLineTwice == repeated => rewritten

(* Once the run has finished, the follow ends, whatever fails on the way.   *)
FollowEnds ==
  followPc = "status" /\ runs[followed].status \in Finished ~> followPc = "done"

(* "prints new log lines until the run has finished": with reads that work and no Ctrl-C, *)
(* the command stops only once the run has finished.                                     *)
FollowsUntilFinished ==
  followPc = "done" /\ followEnd \notin {"stopped", "refused", "gaveUp"} =>
    runs[followed].status \in Finished
=============================================================================
