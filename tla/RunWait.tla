------------------------------- MODULE RunWait -------------------------------
(***************************************************************************)
(* buildingblock trigger-run, with or without --wait, and buildingblock    *)
(* wait: ask for a run, read the building block until meshStack has        *)
(* reacted, and then until the run has ended.                              *)
(*                                                                         *)
(* A read and what is concluded from it is one step, since the conclusion  *)
(* depends on nothing else.  Time is not modelled: the minute for the      *)
(* reaction may be over between any two reads.                             *)
(***************************************************************************)
EXTENDS BuildingBlock

VARIABLES
  waitPc,        \* where the command is
  waitKind,      \* "trigger", "triggerWait" or "wait"
  before,        \* the status from before the write
  mine,          \* the request of this command
  outcome,       \* how the command ended
  printed,       \* the status that it printed
  \* ghosts:
  overlapped,    \* something else than the request changed the status since before was read
  cleared        \* a failure to start was cleared while the command waited

waitVars == <<waitPc, waitKind, before, mine, outcome, printed, overlapped, cleared>>

NoStatus == [action |-> "NO_ACTION", latestRun |-> 0, latestDryRun |-> 0, startFailedOn |-> 0]

WaitTypeOK ==
  /\ waitPc \in {"idle", "snapshot", "reacting", "ending", "done"}
  /\ waitKind \in {"trigger", "triggerWait", "wait"}
  /\ before \in Status /\ printed \in Status
  /\ mine \in 0..MaxWrites
  /\ outcome \in {"none", "failedRead", "noReaction", "stopped", "started",
                  "startFailed", "failed", "paused", "ended"}
  /\ overlapped \in BOOLEAN /\ cleared \in BOOLEAN

WaitInit ==
  /\ waitPc = "idle"
  /\ waitKind \in {"trigger", "triggerWait", "wait"}
  /\ before = NoStatus /\ printed = NoStatus
  /\ mine = 0
  /\ outcome = "none"
  /\ overlapped = FALSE /\ cleared = FALSE

Waits == waitPc \in {"reacting", "ending"}

(* For wait --before, a read from before the change does as well as the response to it. *)
TakeBefore ==
  /\ waitPc = "idle" /\ waitKind = "wait"
  /\ waitPc' = "snapshot"
  /\ before' = block
  /\ mine' = asked
  /\ overlapped' = (asked # reacted \/ Unsettled(block))
  /\ UNCHANGED <<blockVars, waitKind, outcome, printed, cleared>>

(* The write.  meshStack answers with the status as it is, before it reacts. *)
Ask ==
  /\ waitPc \in {"idle", "snapshot"}
  /\ AskForRun
  /\ waitPc' = "reacting"
  /\ before' = IF waitPc = "snapshot" THEN before ELSE block
  /\ mine' = asked + 1
  /\ overlapped' = (overlapped \/ IF waitPc = "snapshot" THEN asked # mine
                                  ELSE asked # reacted \/ Unsettled(block))
  /\ UNCHANGED <<waitKind, outcome, printed, cleared>>

End(how, last) ==
  /\ waitPc' = "done"
  /\ outcome' = how
  /\ printed' = last

(* What is reported of a run that ended, or could not start.               *)
Outcome(s) ==
  CASE s.startFailedOn # 0 -> "startFailed"
    [] s.startFailedOn = 0 /\ RunFailed(s) -> "failed"
    [] s.startFailedOn = 0 /\ IsWaitingForInput(s) -> "paused"
    [] OTHER -> "ended"

AwaitReaction ==
  /\ waitPc = "reacting"
  /\ IF ~RunChangedSince(block, before) THEN UNCHANGED <<waitPc, outcome, printed>>
     ELSE IF waitKind = "trigger"
     THEN End(IF block.startFailedOn # 0 THEN "startFailed" ELSE "started", block)
     ELSE waitPc' = "ending" /\ UNCHANGED <<outcome, printed>>
  /\ UNCHANGED <<blockVars, waitKind, before, mine, overlapped, cleared>>

(* Mutation: the end is waited for without a reaction.                     *)
AwaitEndOnly ==
  /\ Waits
  /\ IF RunEnded(block) THEN End(Outcome(block), block)
     ELSE UNCHANGED <<waitPc, outcome, printed>>
  /\ UNCHANGED <<blockVars, waitKind, before, mine, overlapped, cleared>>

(* The building block is read again, every ten seconds.                    *)
AwaitEnd ==
  /\ waitPc = "ending"
  /\ IF RunEnded(block) THEN End(Outcome(block), block)
     ELSE UNCHANGED <<waitPc, outcome, printed>>
  /\ UNCHANGED <<blockVars, waitKind, before, mine, overlapped, cleared>>

(* The minute is over, Ctrl-C, or a read that the HTTP client gave up.     *)
NoReaction ==
  /\ waitPc = "reacting"
  /\ End("noReaction", printed)
  /\ UNCHANGED <<blockVars, waitKind, before, mine, overlapped, cleared>>

StopWaiting ==
  /\ Waits
  /\ \E how \in {"stopped", "failedRead"} : End(how, printed)
  /\ UNCHANGED <<blockVars, waitKind, before, mine, overlapped, cleared>>

WaitStep == TakeBefore \/ Ask \/ AwaitReaction \/ AwaitEnd \/ NoReaction \/ StopWaiting

(* Reads go on until the command ends, and the minute for a reaction ends. *)
WaitFairness == WF_waitVars(AwaitReaction) /\ WF_waitVars(AwaitEnd) /\ WF_waitVars(NoReaction)

(* What another step leaves of the command, and what must be remembered: whether it was *)
(* the approval or the abort of a run.                                                  *)
Meanwhile(interferes) ==
  /\ cleared' = (cleared \/ (Waits /\ block.startFailedOn # 0 /\ block'.startFailedOn = 0))
  /\ overlapped' = (overlapped \/ (interferes /\ waitPc \in {"snapshot", "reacting"}))
  /\ UNCHANGED <<waitPc, waitKind, before, mine, outcome, printed>>
=============================================================================
