------------------------------ MODULE FollowRun ------------------------------
(***************************************************************************)
(* buildingblockrun logs --follow: read the status of a run and then its   *)
(* logs, write what is new, and stop when the run has finished, when five  *)
(* reads in a row have failed, or for a refusal.                           *)
(***************************************************************************)
EXTENDS BuildingBlock, FiniteSets

CONSTANTS
  StepName,     \* the steps of a run
  Message,      \* what a step may say: sequences of lines
  MaxUpdates    \* a bound on what the runner sends

Line == UNION {{m[k] : k \in DOMAIN m} : m \in Message}

ASSUME FollowAssumption ==
  IsFiniteSet(StepName) /\ MaxUpdates \in Nat /\ <<>> \in Message /\ Message \subseteq Seq(Line)

VARIABLES
  \* the runner:
  logs,         \* the steps of the run
  updates,      \* how often the runner has sent them
  rewritten,    \* a message was replaced, or a step put before another
  \* the command:
  followPc,     \* where it is
  followed,     \* the run
  status,       \* the status that it has read
  fetched,      \* the logs that it has read after it
  readOnce,     \* a read has succeeded
  failedInARow, \* reads that failed since
  written,      \* what it has written of each step
  followEnd,    \* how it ended
  \* ghosts:
  screen,       \* the lines on the screen, each with its place in the message
  repeated      \* a line was written to its place again

followVars == <<logs, updates, rewritten, followPc, followed, status, fetched, readOnce,
                failedInARow, written, followEnd, screen, repeated>>
runnerVars == <<logs, updates, rewritten>>

MaxFailedPollsInARow == 5

Step == [name : StepName, status : {"IN_PROGRESS", "SUCCEEDED", "FAILED", "ABORTED"},
         user : Message, system : Message]

FollowTypeOK ==
  /\ logs \in Seq(Step) /\ updates \in 0..MaxUpdates /\ rewritten \in BOOLEAN
  /\ followPc \in {"idle", "status", "logs", "write", "done"}
  /\ followed \in 0..MaxRuns
  /\ status \in {"none", "PENDING", "IN_PROGRESS", "SUCCEEDED", "FAILED"}
  /\ fetched \in Seq(Step) /\ readOnce \in BOOLEAN /\ failedInARow \in 0..MaxFailedPollsInARow
  /\ Len(written) <= Cardinality(StepName)
  /\ followEnd \in {"none", "succeeded", "failed", "aborted", "unknownStatus",
                    "stopped", "refused", "gaveUp"}
  /\ repeated \in BOOLEAN

NewStepOf(n) == [name |-> n, status |-> "IN_PROGRESS", user |-> <<>>, system |-> <<>>]

FollowInit ==
  /\ \E n \in StepName : logs = <<NewStepOf(n)>>
  /\ updates = 0 /\ rewritten = FALSE
  /\ followPc = "idle" /\ followed = 0 /\ status = "none" /\ fetched = <<>>
  /\ readOnce = FALSE /\ failedInARow = 0 /\ written = <<>> /\ followEnd = "none"
  /\ screen = {} /\ repeated = FALSE

IsPrefixOf(s, t) == Len(s) <= Len(t) /\ SubSeq(t, 1, Len(s)) = s

-----------------------------------------------------------------------------
(* The runner, while its run is at work.  It sends the whole message of a  *)
(* step each time; most messages grow, some are replaced.                  *)

RunnerSends(new, anew) ==
  /\ followed # 0 /\ followPc # "done" /\ runs[followed].status = "IN_PROGRESS"
  /\ updates < MaxUpdates
  /\ logs' = new
  /\ updates' = updates + 1
  /\ rewritten' = (rewritten \/ anew)
  /\ UNCHANGED <<blockVars, followPc, followed, status, fetched, readOnce, failedInARow,
                 written, followEnd, screen, repeated>>

NewStep ==
  \E n \in StepName, at \in 0..Len(logs) :
    /\ \A i \in DOMAIN logs : logs[i].name # n
    /\ RunnerSends(SubSeq(logs, 1, at) \o <<NewStepOf(n)>> \o SubSeq(logs, at + 1, Len(logs)),
                   at < Len(logs))

StepEnds ==
  \E i \in DOMAIN logs, s \in {"SUCCEEDED", "FAILED", "ABORTED"} :
    /\ logs[i].status = "IN_PROGRESS"
    /\ RunnerSends([logs EXCEPT ![i].status = s], FALSE)

(* A message is for the user, or the same for the user and an admin.        *)
StepSays ==
  \E i \in DOMAIN logs, u \in Message, s \in Message :
    /\ u # logs[i].user
    /\ s \in {u, logs[i].system}
    /\ RunnerSends([logs EXCEPT ![i].user = u, ![i].system = s],
                   ~(IsPrefixOf(logs[i].user, u) /\ IsPrefixOf(logs[i].system, s)))

-----------------------------------------------------------------------------
(* What is written of a read.                                              *)

Unwritten(step) == [name |-> step.name, status |-> "none", user |-> <<>>, system |-> <<>>]

(* A step has no id: it is the step at its place, if it has the same name.  *)
Previous(i, step) ==
  IF i <= Len(written) /\ written[i].name = step.name THEN written[i] ELSE Unwritten(step)

(* An admin reads both messages, which are often the same text.             *)
ShowsSystem(step) == step.system # <<>> /\ step.system # step.user

(* Mutation: no line is left out.                                           *)
KeptNone(old, new) == 0

(* The lines after the ones that both messages begin with.                  *)
Kept(old, new) ==
  CHOOSE k \in 0..Len(old) :
    /\ k <= Len(new) /\ SubSeq(old, 1, k) = SubSeq(new, 1, k)
    /\ k < Len(old) /\ k < Len(new) => old[k + 1] # new[k + 1]

NewLines(step, kind, old, new) ==
  {<<step.name, kind, k, new[k]>> : k \in Kept(old, new) + 1..Len(new)}

StatusLine(step) == <<step.name, "status", 0, step.status>>

LinesOf(i) ==
  LET step == fetched[i]
      prev == Previous(i, step)
  IN NewLines(step, "user", prev.user, step.user)
       \cup IF ShowsSystem(step) THEN NewLines(step, "system", prev.system, step.system) ELSE {}

WrittenOf(i) ==
  LET step == fetched[i] IN
  [name |-> step.name, status |-> step.status, user |-> step.user,
   system |-> IF ShowsSystem(step) THEN step.system ELSE Previous(i, step).system]

WriteNew ==
  /\ screen' = screen \cup (UNION {LinesOf(i) : i \in DOMAIN fetched})
                 \cup {StatusLine(fetched[i]) : i \in {j \in DOMAIN fetched :
                                                 Previous(j, fetched[j]).status # fetched[j].status}}
  /\ repeated' = (repeated \/ \E i \in DOMAIN fetched : LinesOf(i) \cap screen # {})
  /\ written' = [i \in DOMAIN fetched |-> WrittenOf(i)]

-----------------------------------------------------------------------------
(* The command.                                                            *)

Follow ==
  /\ followPc = "idle"
  /\ \E r \in DOMAIN runs : followed' = r
  /\ followPc' = "status"
  /\ UNCHANGED <<blockVars, runnerVars, status, fetched, readOnce, failedInARow, written, followEnd, screen,
                 repeated>>

(* Mutation: a status that was read ends the count of reads that failed.    *)
ReadStatusResets ==
  /\ followPc = "status"
  /\ status' = runs[followed].status
  /\ followPc' = "logs"
  /\ failedInARow' = 0
  /\ UNCHANGED <<blockVars, runnerVars, followed, fetched, readOnce, written, followEnd, screen, repeated>>

(* The status is read before the logs, so that those of a finished run are its last. *)
ReadStatus ==
  /\ followPc = "status"
  /\ status' = runs[followed].status
  /\ followPc' = "logs"
  /\ UNCHANGED <<blockVars, runnerVars, followed, fetched, readOnce, failedInARow, written, followEnd,
                 screen, repeated>>

FollowEnd(how) == followPc' = "done" /\ followEnd' = how

(* The first step that failed, or else the first that was aborted.          *)
Failure ==
  LET ends == {fetched[i].status : i \in DOMAIN fetched}
  IN IF "ABORTED" \in ends /\ "FAILED" \notin ends THEN "aborted" ELSE "failed"

Judge(s) ==
  CASE s = "IN_PROGRESS" -> followPc' = "status" /\ UNCHANGED followEnd
    [] s = "SUCCEEDED" -> FollowEnd("succeeded")
    [] s = "FAILED" -> FollowEnd(Failure)
    [] OTHER -> FollowEnd("unknownStatus")

ReadLogs ==
  /\ followPc = "logs"
  /\ fetched' = logs
  /\ followPc' = "write"
  /\ UNCHANGED <<blockVars, runnerVars, followed, status, readOnce, failedInARow, written, followEnd,
                 screen, repeated>>

(* The status that the end is judged by, and before it a mutation: read after the logs. *)
ReadAfterwards == runs[followed].status
Read == status

Write ==
  /\ followPc = "write"
  /\ WriteNew
  /\ Judge(Read)
  /\ fetched' = <<>>
  /\ readOnce' = TRUE
  /\ failedInARow' = 0
  /\ UNCHANGED <<blockVars, runnerVars, followed, status>>

(* Mutation: one read more.                                                *)
ReadFailsLate(refused) ==
  /\ followPc \in {"status", "logs"}
  /\ IF ~readOnce \/ refused
     THEN FollowEnd("refused") /\ UNCHANGED failedInARow
     ELSE /\ failedInARow' = failedInARow + 1
          /\ IF failedInARow' > MaxFailedPollsInARow THEN FollowEnd("gaveUp")
             ELSE followPc' = "status" /\ UNCHANGED followEnd
  /\ UNCHANGED <<blockVars, runnerVars, followed, status, fetched, readOnce, written, screen, repeated>>

ReadFails(refused) ==
  /\ followPc \in {"status", "logs"}
  /\ IF ~readOnce \/ refused
     THEN FollowEnd("refused") /\ UNCHANGED failedInARow
     ELSE /\ failedInARow' = failedInARow + 1
          /\ IF failedInARow' = MaxFailedPollsInARow THEN FollowEnd("gaveUp")
             ELSE followPc' = "status" /\ UNCHANGED followEnd
  /\ UNCHANGED <<blockVars, runnerVars, followed, status, fetched, readOnce, written, screen, repeated>>

StopFollowing ==
  /\ followPc \in {"status", "logs"}
  /\ FollowEnd("stopped")
  /\ UNCHANGED <<blockVars, runnerVars, followed, status, fetched, readOnce, failedInARow, written,
                 screen, repeated>>

RunnerStep == NewStep \/ StepEnds \/ StepSays

FollowStep ==
  \/ Follow \/ ReadStatus \/ ReadLogs \/ Write \/ StopFollowing
  \/ \E refused \in BOOLEAN : ReadFails(refused)

FollowFairness == WF_followVars(ReadStatus) /\ WF_followVars(ReadLogs) /\ WF_followVars(Write)
=============================================================================
