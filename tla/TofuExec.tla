-------------------------------- MODULE TofuExec --------------------------------
(***************************************************************************)
(* meshstack buildingblock tfstate exec around the command that it runs:   *)
(* the backend override, the server on a loopback port, the signals, and   *)
(* what exec ends with.  What the requests for the state do in meshStack is*)
(* TfState; here they are handled together, and end in one of the ways in  *)
(* which the Proxy answers.                                                *)
(*                                                                         *)
(* A Ctrl-C at a terminal reaches every process in the foreground, exec and*)
(* the command; a signal that is sent to exec reaches exec alone.          *)
(***************************************************************************)
EXTENDS Integers

CONSTANTS
  MaxServed,      \* a bound on the requests
  MaxSignals      \* a bound on the signals

ASSUME TofuExecAssumption == MaxServed \in Nat /\ MaxSignals \in Nat

(* "get" reads the state, or something else of meshStack. *)
ServedKind == {"get", "write", "lock", "unlock", "stray", "apiWrite"}
Problem == {"serve", "readOnly", "readOnlyApi", "refused"}

VARIABLES
  access,         \* --mode and --force
  overrides,      \* --override-backend
  stdinTerminal,  \* stdin is a terminal
  foreground,     \* exec and the command are in the foreground of one
  execPc,         \* where exec is
  override,       \* whose the file of the backend override is
  leftOver,       \* exec could not remove it, and has said so
  child,          \* the command
  childCode,      \* its exit code, -1 where a signal ended it
  toForward,      \* the channel of the signals to pass on, which holds one
  inHand,         \* the requests that are handled
  served,         \* how many there were
  lockTimer,      \* the warning that the lock is held long is due
  problems,       \* what exec reports at the end
  exitCode,       \* what exec ends with
  \* ghosts:
  found,          \* the file that was there before
  signals,        \* the signals so far
  interrupts,     \* those that were interrupts of the command or of exec
  childInterrupts, \* the interrupts that the command got
  refusals,       \* requests were refused
  changed         \* a request changed something in meshStack

execFlags == <<access, overrides, stdinTerminal, foreground, found>>
signalVars == <<toForward, signals, interrupts, childInterrupts>>
serveVars == <<inHand, served, lockTimer, refusals, changed>>
tofuVars == <<execFlags, execPc, override, leftOver, child, childCode, signalVars, serveVars,
              problems, exitCode>>

Writable == access # "read"

ExecTypeOK ==
  /\ access \in {"read", "readwrite", "force"}
  /\ overrides \in BOOLEAN /\ stdinTerminal \in BOOLEAN /\ foreground \in BOOLEAN
  /\ execPc \in {"opening", "checking", "overriding", "listening", "starting", "running",
                 "closing", "removing", "ended", "killed"}
  /\ {override, found} \subseteq {"none", "theirs", "ours"} /\ leftOver \in BOOLEAN
  /\ child \in {"none", "running", "ended", "notStarted"} /\ childCode \in {-1, 0, 2}
  /\ toForward \in {"none", "interrupt", "terminate"}
  /\ inHand \subseteq ServedKind /\ served \in 0..MaxServed
  /\ lockTimer \in BOOLEAN /\ refusals \in BOOLEAN /\ changed \in BOOLEAN
  /\ problems \subseteq Problem /\ exitCode \in -1..2
  /\ {signals, interrupts} \subseteq 0..MaxSignals /\ childInterrupts \in 0..(2 * MaxSignals)

ExecInit ==
  /\ access \in {"read", "readwrite", "force"} /\ overrides \in BOOLEAN
  /\ stdinTerminal \in BOOLEAN /\ foreground \in BOOLEAN
  /\ execPc = "opening"
  /\ found \in {"none", "theirs"} /\ override = found /\ leftOver = FALSE
  /\ child = "none" /\ childCode = 0
  /\ toForward = "none" /\ signals = 0 /\ interrupts = 0 /\ childInterrupts = 0
  /\ inHand = {} /\ served = 0 /\ lockTimer = FALSE /\ refusals = FALSE /\ changed = FALSE
  /\ problems = {} /\ exitCode = -1

-----------------------------------------------------------------------------
(* Before the command.                                                     *)

ExecEnds(code) == execPc' = "ended" /\ exitCode' = code

(* The session, the workspace of the state, the client.                    *)
OpenStore ==
  /\ execPc = "opening"
  /\ (execPc' = "checking" /\ UNCHANGED exitCode) \/ ExecEnds(1)
  /\ UNCHANGED <<execFlags, override, leftOver, child, childCode, signalVars, serveVars, problems>>

(* BeforeWrite: a run of the building block, or the request for it fails.  *)
CheckRuns ==
  /\ execPc = "checking"
  /\ \/ execPc' = "overriding" /\ UNCHANGED exitCode
     \/ access = "readwrite" /\ ExecEnds(1)
  /\ UNCHANGED <<execFlags, override, leftOver, child, childCode, signalVars, serveVars, problems>>

(* The file is created only where there is none.  One that cannot be written is removed,  *)
(* and both errors are reported.                                                          *)
WriteBackendOverride ==
  /\ execPc = "overriding"
  /\ \/ ~overrides /\ execPc' = "listening" /\ UNCHANGED <<override, leftOver, exitCode>>
     \/ /\ overrides /\ override = "none"
        /\ \/ override' = "ours" /\ execPc' = "listening" /\ UNCHANGED <<leftOver, exitCode>>
           \/ ExecEnds(1) /\ UNCHANGED <<override, leftOver>>
           \/ ExecEnds(1) /\ override' = "ours" /\ leftOver' = TRUE
     \/ overrides /\ override # "none" /\ ExecEnds(1) /\ UNCHANGED <<override, leftOver>>
  /\ UNCHANGED <<execFlags, child, childCode, signalVars, serveVars, problems>>

(* Serve.  Before the command starts its signals are caught.               *)
Listen ==
  /\ execPc = "listening"
  /\ \/ execPc' = "starting" /\ UNCHANGED problems
     \/ execPc' = "removing" /\ problems' = problems \cup {"serve"}
  /\ UNCHANGED <<execFlags, override, leftOver, child, childCode, signalVars, serveVars, exitCode>>

StartCommand ==
  /\ execPc = "starting"
  /\ \/ child' = "running" /\ execPc' = "running" /\ UNCHANGED toForward
     \/ child' = "notStarted" /\ execPc' = "closing" /\ toForward' = "none"
  /\ UNCHANGED <<execFlags, override, leftOver, childCode, signals, interrupts, childInterrupts,
                 serveVars, problems, exitCode>>

-----------------------------------------------------------------------------
(* Signals.                                                                *)

Catches == execPc \in {"starting", "running"}

(* forwardedSignals *)
ForwardsInterrupts == ~stdinTerminal

(* A full channel drops what comes next.                                   *)
Catch(s) ==
  toForward' = IF Catches /\ toForward = "none" /\ (s = "terminate" \/ ForwardsInterrupts) THEN s
               ELSE toForward

(* main catches every interrupt, so none ends exec.                        *)
SendInterrupt(atTerminal) ==
  /\ execPc \notin {"ended", "killed"} /\ signals < MaxSignals
  /\ atTerminal => foreground
  /\ signals' = signals + 1 /\ interrupts' = interrupts + 1
  /\ childInterrupts' = IF atTerminal /\ child = "running" THEN childInterrupts + 1
                        ELSE childInterrupts
  /\ Catch("interrupt")
  /\ UNCHANGED <<execFlags, execPc, override, leftOver, child, childCode, serveVars, problems,
                 exitCode>>

(* Without the command a SIGTERM ends exec at once.                        *)
SendTerminate ==
  /\ execPc \notin {"ended", "killed"} /\ signals < MaxSignals
  /\ signals' = signals + 1
  /\ Catch("terminate")
  /\ IF Catches THEN UNCHANGED <<execPc, inHand>> ELSE execPc' = "killed" /\ inHand' = {}
  /\ UNCHANGED <<execFlags, override, leftOver, child, childCode, interrupts, childInterrupts,
                 served, lockTimer, refusals, changed, problems, exitCode>>

ForwardSignal ==
  /\ execPc = "running" /\ toForward # "none"
  /\ toForward' = "none"
  /\ childInterrupts' = IF toForward = "interrupt" /\ child = "running" THEN childInterrupts + 1
                        ELSE childInterrupts
  /\ UNCHANGED <<execFlags, execPc, override, leftOver, child, childCode, signals, interrupts,
                 serveVars, problems, exitCode>>

(* tofu may end at any time, and another process of a wrapper go on.       *)
CommandEnds ==
  /\ child = "running" /\ execPc = "running"
  /\ child' = "ended" /\ childCode' \in {-1, 0, 2}
  /\ UNCHANGED <<execFlags, execPc, override, leftOver, signalVars, serveVars, problems, exitCode>>

-----------------------------------------------------------------------------
(* The requests of the command.                                            *)

Request ==
  /\ execPc = "running" /\ served < MaxServed
  /\ served' = served + 1
  /\ \E k \in ServedKind \ inHand : inHand' = inHand \cup {k}
  /\ UNCHANGED <<execFlags, execPc, override, leftOver, child, childCode, signalVars, lockTimer,
                 refusals, changed, problems, exitCode>>

(* What the Proxy refuses before it asks meshStack.                        *)
MustRefuse(k) == k = "stray" \/ (~Writable /\ k \in {"write", "apiWrite"})

(* A proxy that is not writable answers the lock calls itself.             *)
AsksMeshStack(k) == ~MustRefuse(k) /\ (Writable \/ k \notin {"lock", "unlock"})

(* A read-only proxy says so; the other reasons, with the answers of meshStack below 500 *)
(* among them, are TfState's.                                                            *)
Reason(k) ==
  CASE k = "write" /\ ~Writable -> "readOnly"
    [] k = "apiWrite" /\ ~Writable -> "readOnlyApi"
    [] OTHER -> "refused"

Replied(k) ==
  /\ k \in inHand /\ inHand' = inHand \ {k}
  /\ UNCHANGED <<execFlags, execPc, override, leftOver, child, childCode, signalVars, served,
                 exitCode>>

Succeed(k) ==
  /\ ~MustRefuse(k) /\ Replied(k)
  /\ lockTimer' = CASE k = "lock" -> Writable [] k = "unlock" -> FALSE
                    [] OTHER -> lockTimer
  /\ changed' = (changed \/ (AsksMeshStack(k) /\ k \in {"write", "lock", "unlock", "apiWrite"}))
  /\ UNCHANGED <<problems, refusals>>

(* fail with a 5xx, or the 423 of a lock that somebody else holds: a warning.             *)
FailOrPassLock(k) ==
  /\ AsksMeshStack(k) /\ Replied(k)
  /\ UNCHANGED <<problems, refusals, lockTimer, changed>>

(* OnProblem keeps each problem once.                                      *)
Refuse(k) ==
  /\ (MustRefuse(k) \/ AsksMeshStack(k)) /\ Replied(k)
  /\ problems' = problems \cup {Reason(k)}
  /\ refusals' = TRUE
  /\ UNCHANGED <<lockTimer, changed>>

-----------------------------------------------------------------------------
(* After the command.                                                      *)

(* run returns: the signals are as before, and the server takes no more requests.         *)
Shutdown ==
  /\ execPc = "running" /\ child = "ended"
  /\ execPc' = "closing" /\ toForward' = "none"
  /\ UNCHANGED <<execFlags, override, leftOver, child, childCode, signals, interrupts,
                 childInterrupts, serveVars, problems, exitCode>>

(* Mutation: the server is closed over the requests that it handles.       *)
ServeEndsAtOnce ==
  /\ execPc = "closing"
  /\ lockTimer' = FALSE /\ execPc' = "removing"
  /\ UNCHANGED <<problems, execFlags, override, leftOver, child, childCode, signalVars, inHand,
                 served, refusals, changed, exitCode>>

ServeEnds ==
  /\ execPc = "closing" /\ inHand = {}
  /\ lockTimer' = FALSE /\ execPc' = "removing"
  /\ problems' \in {problems, problems \cup {"serve"}}
  /\ UNCHANGED <<execFlags, override, leftOver, child, childCode, signalVars, inHand, served,
                 refusals, changed, exitCode>>

(* exitWith: the code of a command that failed, or 1 for a problem.        *)
ExitCode ==
  CASE childCode = -1 -> 1
    [] childCode > 0 -> childCode
    [] OTHER -> IF child = "notStarted" \/ problems # {} THEN 1 ELSE 0

RemoveOverride ==
  /\ execPc = "removing"
  /\ \/ override = "ours" /\ override' = "none" /\ UNCHANGED leftOver
     \/ override = "ours" /\ leftOver' = TRUE /\ UNCHANGED override
     \/ override # "ours" /\ UNCHANGED <<override, leftOver>>
  /\ ExecEnds(ExitCode)
  /\ UNCHANGED <<execFlags, child, childCode, signalVars, serveVars, problems>>

ExecStep ==
  \/ OpenStore \/ CheckRuns \/ WriteBackendOverride \/ Listen \/ StartCommand
  \/ \E atTerminal \in BOOLEAN : SendInterrupt(atTerminal)
  \/ SendTerminate \/ ForwardSignal \/ CommandEnds \/ Request
  \/ \E k \in inHand : Succeed(k) \/ FailOrPassLock(k) \/ Refuse(k)
  \/ Shutdown \/ ServeEnds \/ RemoveOverride

-----------------------------------------------------------------------------
(* Once exec has ended, nothing of it goes on: no request is handled, no warning of a     *)
(* held lock is due, and its backend override is gone, or it has said why not; a file     *)
(* that was there is as it was.  It reports success only for a command that succeeded     *)
(* and of which no request was refused, and for all of those unless the server failed.    *)
(* In its read mode nothing changes in meshStack.  tofu, which takes a second interrupt   *)
(* as one to stop without storing the state, gets one for each Ctrl-C; only where stdin   *)
(* is not the terminal, the terminal and exec both send it.                               *)
ExecSettles ==
  /\ execPc = "ended" =>
       /\ inHand = {} /\ ~lockTimer /\ child # "running"
       /\ override = found \/ (leftOver /\ override = "ours" /\ found = "none")
       /\ exitCode = 0 => child = "ended" /\ childCode = 0 /\ ~refusals
       /\ child = "ended" /\ childCode = 0 /\ ~refusals /\ problems = {} => exitCode = 0
       /\ child = "ended" /\ childCode > 0 => exitCode = childCode
  /\ changed => Writable
  /\ childInterrupts <= interrupts \/ (foreground /\ ~stdinTerminal)
=============================================================================
