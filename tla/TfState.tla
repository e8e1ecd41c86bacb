------------------------------- MODULE TfState -------------------------------
(***************************************************************************)
(* internal/tfstate and meshstack buildingblock tfstate: the OpenTofu      *)
(* state that meshStack keeps for one building block, and who writes it.   *)
(*                                                                         *)
(* A command is a tofu that one of the exec processes serves through its   *)
(* Proxy; a wrapper may run several of them at once.  The Proxy handles    *)
(* one request for the state at a time (mu).  A write is three requests to *)
(* meshStack: is there a run, read the stored state, store the new one; a  *)
(* request and what follows until the next one is a step.  Beside the      *)
(* commands, runs of the building block lock and write the same state, and *)
(* somebody runs force-unlock.                                             *)
(*                                                                         *)
(* A state is its version and the write it came with.  Locks have an ID    *)
(* each.  meshStack, tofu and the runner are external, and any request to  *)
(* meshStack may fail, also after it took effect.                          *)
(***************************************************************************)
EXTENDS Naturals

CONSTANTS Process,    \* the processes of meshstack buildingblock tfstate exec
          Command,    \* the tofu processes that they serve
          Setups,     \* who may serve which command, and with which flags
          Backup,     \* the processes with --backup-dir
          Version,    \* the lineages and serials of states
          NoLineage,  \* the lineage of what is no tofu state
          None,       \* no state, lock or command
          Runner,     \* the runner of the building block
          MaxWrites, MaxLocks, MaxRuns, MaxUnlocks  \* bounds

Modes == {"read", "readwrite", "force"}

ASSUME SetupsAssumption ==
  Setups \subseteq [proxyOf : [Command -> Process], mode : [Process -> Modes]]
ASSUME VersionAssumption == \A v \in Version : v.serial \in Nat
ASSUME BackupAssumption == Backup \subseteq Process
ASSUME RunnerAssumption == Runner \notin Process
ASSUME NoneAssumption == None \notin Command
ASSUME BoundsAssumption == {MaxWrites, MaxLocks, MaxRuns, MaxUnlocks} \subseteq Nat

State == [version : Version, id : 1..MaxWrites]
Lock == [id : 1..MaxLocks, run : 0..MaxRuns]

ASSUME NoStateAssumption == None \notin State \cup Lock

VARIABLES
  proxyOf,   \* the process that serves each command
  mode,      \* --mode and --force of each process
  pc,        \* where each command is, or the proxy with its write
  mu,        \* the command whose write each proxy handles
  body,      \* the state each command writes; None deletes it
  checked,   \* the stored state that each command's write was checked against
  failed,    \* the commands whose last write was answered with a 5xx
  lockId,    \* the ID of each command's lock, 0 where it has none
  seen,      \* the states a command has read or sent since it locked, 0 for none
  stored,    \* the state in meshStack
  writer,    \* the process or runner that wrote it
  lock,      \* the lock in meshStack
  backups,   \* the writes whose states were backed up
  run,       \* what the latest run does
  runLock,   \* the ID of its lock
  unlocker,  \* where force-unlock is
  shown,     \* the lock that it shows
  forced,    \* its --force
  opened,    \* the commands whose lock force-unlock released
  writes, locks, runs, unlocks  \* how many there were

commandVars == <<pc, mu, body, checked, failed, lockId, opened, seen>>
runVars == <<run, runLock, runs>>
unlockVars == <<unlocker, shown, forced, unlocks>>
options == <<proxyOf, mode>>
vars == <<options, commandVars, stored, writer, lock, backups, runVars, unlockVars, writes, locks>>

Writing == {"read", "store"}

TypeOK ==
  /\ proxyOf \in [Command -> Process]
  /\ mode \in [Process -> Modes]
  /\ pc \in [Command -> {"working"} \cup Writing]
  /\ mu \in [Process -> Command \cup {None}]
  /\ body \in [Command -> State \cup {None}]
  /\ checked \in [Command -> State \cup {None}]
  /\ failed \in SUBSET Command
  /\ lockId \in [Command -> 0..MaxLocks]
  /\ seen \in [Command -> SUBSET (0..MaxWrites)]
  /\ stored \in State \cup {None}
  /\ writer \in Process \cup {Runner}
  /\ lock \in Lock \cup {None}
  /\ backups \in SUBSET (1..MaxWrites)
  /\ run \in {"none", "approval", "pending", "locked", "written"}
  /\ runLock \in 0..MaxLocks
  /\ unlocker \in {"idle", "read", "asking"}
  /\ shown \in Lock \cup {None}
  /\ forced \in BOOLEAN
  /\ opened \in SUBSET Command
  /\ writes \in 0..MaxWrites /\ locks \in 0..MaxLocks /\ runs \in 0..MaxRuns
  /\ unlocks \in 0..MaxUnlocks

Init ==
  /\ \E s \in Setups : proxyOf = s.proxyOf /\ mode = s.mode
  /\ pc = [c \in Command |-> "working"]
  /\ mu = [p \in Process |-> None]
  /\ body = [c \in Command |-> None]
  /\ checked = [c \in Command |-> None]
  /\ failed = {}
  /\ lockId = [c \in Command |-> 0]
  /\ seen = [c \in Command |-> {}]
  /\ stored = None /\ writer = Runner /\ lock = None /\ backups = {}
  /\ run = "none" /\ runLock = 0 /\ runs = 0
  /\ unlocker = "idle" /\ shown = None /\ forced = FALSE /\ unlocks = 0 /\ opened = {}
  /\ writes = 0 /\ locks = 0

-----------------------------------------------------------------------------
Goto(c, step) == pc' = [pc EXCEPT ![c] = step]

Free(c) == mu[proxyOf[c]] = None
Writable(c) == mode[proxyOf[c]] # "read"
Forces(c) == mode[proxyOf[c]] = "force"

IdOf(state) == IF state = None THEN 0 ELSE state.id

(* meshStack refuses a write without the ID of the lock it holds. *)
Accepts(id) == lock # None => lock.id = id

(* meshStack takes a lock where there is none.  IDs are never used twice. *)
TakeLock(r) ==
  /\ lock = None
  /\ locks < MaxLocks
  /\ locks' = locks + 1
  /\ lock' = [id |-> locks + 1, run |-> r]

(* meshStack releases a lock by its ID. *)
WithoutLock(id) == IF lock # None /\ lock.id = id THEN None ELSE lock

-----------------------------------------------------------------------------
(* What tofu does between its writes.  A command that knows no state and has   *)
(* no lock is one that starts.                                                 *)

(* The command ends, with what it knew. *)
Leave(c) ==
  /\ Goto(c, "working")
  /\ lockId' = [lockId EXCEPT ![c] = 0]
  /\ seen' = [seen EXCEPT ![c] = {}]
  /\ body' = [body EXCEPT ![c] = None]
  /\ checked' = [checked EXCEPT ![c] = None]
  /\ failed' = failed \ {c}
  /\ opened' = opened \ {c}

(* A mutation of LockState: the proxy does not pass a 423 on. *)
LockStateAnyway(c) ==
  /\ pc[c] = "working"
  /\ lockId[c] = 0 /\ c \notin failed
  /\ Free(c) /\ Writable(c)
  /\ IF lock = None THEN TakeLock(0) ELSE locks < MaxLocks /\ locks' = locks + 1 /\ lock' = lock
  /\ lockId' = [lockId EXCEPT ![c] = locks + 1] /\ UNCHANGED opened
  /\ UNCHANGED <<options, pc, mu, body, checked, failed, seen, stored, writer, backups, runVars,
                 unlockVars, writes>>

(* Proxy.lock passes tofu's lock on.  Where the answer is lost, tofu's next   *)
(* try meets its own lock and fails.  A lock that is taken makes tofu try     *)
(* again, and -lock=false makes it not try at all.                            *)
LockState(c) ==
  /\ pc[c] = "working"
  /\ lockId[c] = 0 /\ c \notin failed
  /\ Free(c) /\ Writable(c)
  /\ TakeLock(0)
  /\ \/ /\ lockId' = [lockId EXCEPT ![c] = locks + 1]
        /\ UNCHANGED <<pc, body, checked, failed, opened, seen>>
     \/ Leave(c)
  /\ UNCHANGED <<options, mu, stored, writer, backups, runVars, unlockVars, writes>>

(* Proxy.get: tofu reads the state before it writes.  What a command without a *)
(* lock reads makes no difference here.                                        *)
Know(c, id) == seen' = IF lockId[c] = 0 THEN seen ELSE [seen EXCEPT ![c] = @ \cup {id}]

Read(c) ==
  /\ pc[c] = "working"
  /\ lockId[c] # 0
  /\ Free(c)
  /\ Know(c, IdOf(stored))
  /\ UNCHANGED <<options, pc, mu, body, checked, failed, lockId, opened, stored, writer, lock,
                 backups, runVars, unlockVars, writes, locks>>

(* Proxy.lock passes tofu's unlock on, which may not reach meshStack. *)
UnlockState(c) ==
  /\ pc[c] = "working"
  /\ lockId[c] # 0
  /\ Free(c)
  /\ lock' \in {lock, WithoutLock(lockId[c])}
  /\ Leave(c)
  /\ UNCHANGED <<options, mu, stored, writer, backups, runVars, unlockVars, writes, locks>>

(* A killed command leaves its lock in meshStack. *)
Kill(c) ==
  /\ Leave(c)
  /\ mu' = [p \in Process |-> IF mu[p] = c THEN None ELSE mu[p]]
  /\ UNCHANGED <<options, stored, writer, lock, backups, runVars, unlockVars, writes, locks>>

-----------------------------------------------------------------------------
(* Proxy.write. *)

(* NoRunOf: a run that is pending, in progress or waiting for approval. *)
NoRun == run = "none"

(* A mutation of Handle: the write does not keep others away. *)
HandleBeside(c) ==
  /\ Writable(c)
  /\ Forces(c) \/ NoRun
  /\ Goto(c, "read")
  /\ UNCHANGED mu

(* A write waits for its turn and begins with the check for a run, which      *)
(* --force leaves out.  Where that refuses the write, nothing has happened.    *)
Handle(c) ==
  /\ Free(c) /\ Writable(c)
  /\ Forces(c) \/ NoRun
  /\ Goto(c, "read")
  /\ mu' = [mu EXCEPT ![proxyOf[c]] = c]

(* tofu sends any state, as tofu state push does, or deletes the stored one. *)
Write(c) ==
  /\ pc[c] = "working"
  /\ lockId[c] # 0 => seen[c] # {}
  /\ Handle(c)
  /\ \/ /\ writes < MaxWrites
        /\ \E v \in Version : body' = [body EXCEPT ![c] = [version |-> v, id |-> writes + 1]]
        /\ writes' = writes + 1
        /\ Know(c, writes + 1)
     \/ /\ body' = [body EXCEPT ![c] = None]
        /\ Know(c, 0)
        /\ UNCHANGED writes
  /\ failed' = failed \ {c}
  /\ UNCHANGED <<options, checked, lockId, opened, stored, writer, lock, backups, runVars,
                 unlockVars, locks>>

(* tofu repeats a write that failed with a 5xx. *)
Retry(c) ==
  /\ pc[c] = "working"
  /\ c \in failed
  /\ Handle(c)
  /\ failed' = failed \ {c}
  /\ UNCHANGED <<options, body, checked, lockId, opened, seen, stored, writer, lock, backups,
                 runVars, unlockVars, writes, locks>>

(* The answers to a write: it was stored or refused, or failed with a 5xx, so  *)
(* that tofu may repeat it.                                                    *)
Respond(c) ==
  /\ Goto(c, "working")
  /\ mu' = [mu EXCEPT ![proxyOf[c]] = None]
  /\ checked' = [checked EXCEPT ![c] = None]

Done(c) == Respond(c) /\ body' = [body EXCEPT ![c] = None] /\ UNCHANGED failed
Fail(c) == Respond(c) /\ failed' = failed \cup {c} /\ UNCHANGED body

(* versionsOf and version.follows *)
Follows(next, previous) ==
  /\ next.version.lineage # NoLineage
  /\ previous # None => /\ next.version.lineage = previous.version.lineage
                        /\ next.version.serial > previous.version.serial

(* The stored state is read and, before a write that it does not refuse,      *)
(* backed up.  A backup that fails refuses the write.                          *)
Refuses(c) == body[c] # None /\ ~Forces(c) /\ ~Follows(body[c], stored)

(* A mutation of Saved: there may be no state to back up. *)
SavedThoughNone(c) == IF proxyOf[c] \in Backup THEN {IdOf(stored)} ELSE {}

Saved(c) == IF stored # None /\ proxyOf[c] \in Backup THEN {stored.id} ELSE {}

ReadStored(c) ==
  /\ pc[c] = "read"
  /\ \/ (Fail(c) \/ Done(c)) /\ UNCHANGED backups
     \/ /\ ~Refuses(c)
        /\ body[c] = None => stored # None
        /\ backups' = backups \cup Saved(c)
        /\ checked' = [checked EXCEPT ![c] = stored]
        /\ Goto(c, "store")
        /\ UNCHANGED <<mu, body, failed>>
  /\ UNCHANGED <<options, lockId, opened, seen, stored, writer, lock, runVars, unlockVars,
                 writes, locks>>

(* Store.Put and Store.Delete.  A 423 and every other refusal are passed on,  *)
(* as is a 5xx, which meshStack may answer although it has stored the state.   *)
StoreBody(c) ==
  /\ pc[c] = "store"
  /\ \/ /\ Accepts(lockId[c])
        /\ stored' = body[c]
        /\ writer' = proxyOf[c]
        /\ Done(c) \/ Fail(c)
     \/ (Done(c) \/ Fail(c)) /\ UNCHANGED <<stored, writer>>
  /\ UNCHANGED <<options, lockId, opened, seen, lock, backups, runVars, unlockVars, writes, locks>>

-----------------------------------------------------------------------------
(* Runs of the building block.  The runner locks the state of a run, writes   *)
(* and unlocks it, and may wait for an approval before.  A run that dies      *)
(* leaves its lock.                                                           *)
RunStep(from, to) == run = from /\ run' = to

CreateRun ==
  /\ runs < MaxRuns
  /\ RunStep("none", "approval") \/ RunStep("none", "pending")
  /\ runs' = runs + 1
  /\ UNCHANGED <<options, commandVars, stored, writer, lock, backups, runLock, unlockVars, writes, locks>>

ApproveRun ==
  /\ RunStep("approval", "pending")
  /\ UNCHANGED <<options, commandVars, stored, writer, lock, backups, runLock, runs, unlockVars,
                 writes, locks>>

RunLock ==
  /\ RunStep("pending", "locked")
  /\ TakeLock(runs)
  /\ runLock' = locks + 1
  /\ UNCHANGED <<options, commandVars, stored, writer, backups, runs, unlockVars, writes>>

RunWrite ==
  /\ RunStep("locked", "written")
  /\ Accepts(runLock)
  /\ writes < MaxWrites
  /\ writes' = writes + 1
  /\ \E v \in Version : stored' = [version |-> v, id |-> writes + 1]
  /\ writer' = Runner
  /\ UNCHANGED <<options, commandVars, lock, backups, runLock, runs, unlockVars, locks>>

RunUnlock ==
  /\ RunStep("written", "none")
  /\ lock' = WithoutLock(runLock)
  /\ runLock' = 0
  /\ UNCHANGED <<options, commandVars, stored, writer, backups, runs, unlockVars, writes, locks>>

FailRun ==
  /\ run # "none" /\ run' = "none"
  /\ runLock' = 0
  /\ UNCHANGED <<options, commandVars, stored, writer, lock, backups, runs, unlockVars, writes, locks>>

-----------------------------------------------------------------------------
(* meshstack buildingblock tfstate force-unlock. *)

(* The run is the latest one, and has neither ended nor waits for an approval. *)
Unfinished(r) == r # 0 /\ r = runs /\ run \notin {"none", "approval"}

ShowLock ==
  /\ unlocker = "idle" /\ unlocks < MaxUnlocks
  /\ unlocks' = unlocks + 1
  /\ lock # None
  /\ shown' = lock
  /\ forced' \in BOOLEAN
  /\ unlocker' = IF forced' THEN "asking" ELSE "read"
  /\ UNCHANGED <<options, commandVars, stored, writer, lock, backups, runVars, writes, locks>>

Forget == unlocker' = "idle" /\ shown' = None /\ forced' = FALSE /\ UNCHANGED unlocks

(* NoUnfinishedRun *)
CheckHolder ==
  /\ unlocker = "read"
  /\ \/ ~Unfinished(shown.run) /\ unlocker' = "asking" /\ UNCHANGED <<shown, forced, unlocks>>
     \/ Unfinished(shown.run) /\ Forget
  /\ UNCHANGED <<options, commandVars, stored, writer, lock, backups, runVars, writes, locks>>

(* A mutation of Release: whichever lock there is goes. *)
ReleaseAny ==
  /\ unlocker = "asking"
  /\ lock' = None
  /\ opened' = opened \cup {c \in Command : lock # None /\ lockId[c] = lock.id}
  /\ Forget
  /\ UNCHANGED <<options, pc, mu, body, checked, failed, lockId, seen, stored, writer, backups,
                 runVars, writes, locks>>

(* The answer may be any other than yes, and the request may fail. *)
Release ==
  /\ unlocker = "asking"
  /\ \/ lock' = WithoutLock(shown.id) /\ opened' = opened \cup {c \in Command : lockId[c] = shown.id}
     \/ UNCHANGED <<lock, opened>>
  /\ Forget
  /\ UNCHANGED <<options, pc, mu, body, checked, failed, lockId, seen, stored, writer, backups,
                 runVars, writes, locks>>

-----------------------------------------------------------------------------
Request(c) ==
  LockState(c) \/ Read(c) \/ UnlockState(c) \/ Write(c) \/ Retry(c)

Proxying(c) == ReadStored(c) \/ StoreBody(c)

Next ==
  \/ \E c \in Command : Request(c) \/ Proxying(c) \/ Kill(c)
  \/ CreateRun \/ ApproveRun \/ RunLock \/ RunWrite \/ RunUnlock \/ FailRun
  \/ ShowLock \/ CheckHolder \/ Release

Spec == Init /\ [][Next]_vars

-----------------------------------------------------------------------------
(* Properties. *)

(* The command stores its write in the place of a state. *)
Replaces(c) == pc[c] = "store" /\ stored' # stored

(* It was told that it has the lock, and nobody forced that lock open. *)
Locked(c) == lockId[c] # 0 /\ c \notin opened

(* Since the proxy read the stored state, another process or the runner wrote  *)
(* it: only a command without a lock can meet that.  A write that came before   *)
(* the check overtakes nobody, nor does one of the same process, which handles  *)
(* one write at a time.                                                         *)
Overtaken(c) == ~Locked(c) /\ stored # checked[c] /\ writer # proxyOf[c]

(* Without --force, no write goes back to an older serial or to a state of      *)
(* another lineage ("it misses a write", "they are different states"): what     *)
(* the proxy checked still holds when meshStack stores the write.               *)
WritesFollow ==
  [][\A c \in Command :
       (Replaces(c) /\ body[c] # None /\ ~Forces(c)) =>
         Follows(body[c], stored) \/ Overtaken(c)]_vars

(* With --backup-dir, whatever a write replaces or deletes was backed up. *)
ReplacedIsBackedUp ==
  [][\A c \in Command :
       (Replaces(c) /\ stored # None /\ proxyOf[c] \in Backup) =>
         stored.id \in backups \/ Overtaken(c)]_vars

(* A command that locks the state never overwrites a write that it has not      *)
(* read: the proxy hands it the lock only when meshStack does.                  *)
LockedWritesKnow ==
  [][\A c \in Command : (Replaces(c) /\ Locked(c)) => IdOf(stored) \in seen[c]]_vars

(* force-unlock without --force never takes the lock of a run that is under     *)
(* way, also if that run got it while the question was open.                    *)
RunKeepsLock ==
  [][(lock # None /\ Unfinished(lock.run) /\ lock' # lock) => forced \/ run' # run]_vars

(* "a meshStack that failed once must not fail a tofu run that succeeded": a    *)
(* write that meshStack has stored is not refused when tofu repeats it.         *)
StoredIsNotRefused ==
  \A c \in Command : (pc[c] = "read" /\ body[c] # None /\ body[c] = stored) => ~Refuses(c)
=============================================================================
