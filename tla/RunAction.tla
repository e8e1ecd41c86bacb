------------------------------ MODULE RunAction ------------------------------
(***************************************************************************)
(* buildingblock approve-run and abort-run: read the building block, follow*)
(* the links to its run and to the plan of that run, show them, ask, and   *)
(* post to the link that the run had.  meshStack sends the link of an      *)
(* action only while it may be taken, and may do anything between the      *)
(* requests and while the question is open.                                *)
(***************************************************************************)
EXTENDS BuildingBlock

VARIABLES
  actPc,        \* where the command is
  actKind,      \* "approve" or "abort"
  latest,       \* the run that the link of the building block leads to
  plan,         \* the run that made the plan
  actOutcome,   \* how the command ended
  \* a ghost:
  approvedPlan  \* for each run, the plan that meshStack let it use

actVars == <<actPc, actKind, latest, plan, actOutcome, approvedPlan>>

ActTypeOK ==
  /\ actPc \in {"idle", "readRun", "readPlan", "confirm", "report", "done"}
  /\ actKind \in {"approve", "abort"}
  /\ latest \in 0..MaxRuns /\ plan \in 0..MaxRuns
  /\ actOutcome \in {"none", "noRun", "notAllowed", "failedRead", "declined",
                     "planChanged", "tooLate", "accepted"}
  /\ approvedPlan \in [1..MaxRuns -> 0..MaxRuns]

ActInit ==
  /\ actPc = "idle"
  /\ actKind \in {"approve", "abort"}
  /\ latest = 0 /\ plan = 0
  /\ actOutcome = "none"
  /\ approvedPlan = [r \in 1..MaxRuns |-> 0]

ActEnd(how) == actPc' = "done" /\ actOutcome' = how

(* meshStack does not apply a plan while it makes another.                  *)
CanApprove(r) == r \in Waiting /\ Active = {}
CanAbort(r) == r \in Unfinished /\ ~runs[r].abort

(* An abort takes the preflight run where it is newer, an approval never.   *)
LatestLink ==
  IF actKind = "abort" /\ block.latestDryRun # 0 THEN block.latestDryRun ELSE block.latestRun

ReadBuildingBlock ==
  /\ actPc = "idle"
  /\ latest' = LatestLink
  /\ IF latest' = 0 THEN ActEnd("noRun") ELSE actPc' = "readRun" /\ UNCHANGED actOutcome
  /\ UNCHANGED <<blockVars, actKind, plan, approvedPlan>>

ReadRun ==
  /\ actPc = "readRun"
  /\ IF actKind = "approve"
     THEN IF CanApprove(latest)
          THEN actPc' = "readPlan" /\ plan' = runs[latest].plan /\ UNCHANGED actOutcome
          ELSE ActEnd("notAllowed") /\ UNCHANGED plan
     ELSE /\ IF CanAbort(latest) THEN actPc' = "confirm" /\ UNCHANGED actOutcome
                                 ELSE ActEnd("notAllowed")
          /\ UNCHANGED plan
  /\ UNCHANGED <<blockVars, actKind, latest, approvedPlan>>

(* The plan is the log of the run that the first read named.                *)
ReadPlan ==
  /\ actPc = "readPlan"
  /\ actPc' = "confirm"
  /\ UNCHANGED <<blockVars, actKind, latest, plan, actOutcome, approvedPlan>>

Decline ==
  /\ actPc = "confirm"
  /\ ActEnd("declined")
  /\ UNCHANGED <<blockVars, actKind, latest, plan, approvedPlan>>

(* Mutation: the run is read again for the request, after the question.     *)
SentPlanNow == runs[latest].plan

(* The plan that the request names, which meshStack compares with the one it has. *)
SentPlan == plan

Approve ==
  /\ actPc = "confirm" /\ actKind = "approve"
  /\ IF ~CanApprove(latest)
     THEN ActEnd("tooLate") /\ UNCHANGED <<blockVars, approvedPlan>>
     ELSE IF SentPlan # runs[latest].plan
     THEN ActEnd("planChanged") /\ UNCHANGED <<blockVars, approvedPlan>>
     ELSE /\ runs' = [runs EXCEPT ![latest].waits = FALSE]
          /\ block' = [block EXCEPT !.action = "PENDING"]
          /\ approvedPlan' = [approvedPlan EXCEPT ![latest] = runs[latest].plan]
          /\ actPc' = "report" /\ UNCHANGED <<actOutcome, asked, reacted>>
  /\ UNCHANGED <<actKind, latest, plan>>

(* meshStack ends a run that is not yet at work at once.                    *)
Abort ==
  /\ actPc = "confirm" /\ actKind = "abort"
  /\ IF ~CanAbort(latest)
     THEN ActEnd("tooLate") /\ UNCHANGED blockVars
     ELSE /\ IF runs[latest].waits
             THEN /\ runs' = [runs EXCEPT ![latest].status = "FAILED", ![latest].abort = TRUE]
                  /\ block' = IF Active = {} THEN [block EXCEPT !.action = "REVIEW_ABORTED_RUN"] ELSE block
             ELSE /\ runs' = [runs EXCEPT ![latest].abort = TRUE]
                  /\ UNCHANGED block
          /\ actPc' = "report" /\ UNCHANGED <<actOutcome, asked, reacted>>
  /\ UNCHANGED <<actKind, latest, plan, approvedPlan>>

(* The building block is read again, since a run does not show its action.  *)
Report ==
  /\ actPc = "report"
  /\ ActEnd("accepted")
  /\ UNCHANGED <<blockVars, actKind, latest, plan, approvedPlan>>

ActFails ==
  /\ actPc \in {"idle", "readRun", "readPlan", "confirm", "report"}
  /\ ActEnd("failedRead")
  /\ UNCHANGED <<blockVars, actKind, latest, plan, approvedPlan>>

ActStep == ReadBuildingBlock \/ ReadRun \/ ReadPlan \/ Decline \/ Approve \/ Abort \/ Report \/ ActFails
=============================================================================
