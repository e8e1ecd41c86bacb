------------------------------ MODULE FileLock ------------------------------
(***************************************************************************)
(* internal/lock: a Locker guards one file against the other goroutines of *)
(* its process with a sync.RWMutex and against other processes with an     *)
(* flock on <path>.lock.  Both are taken by spinning on a try-lock, the    *)
(* mutex first, and released in the opposite order.                        *)
(*                                                                         *)
(* A caller is one call of WithLock, WithRLock or Lock.  The mutex is a    *)
(* count, as in Go: it does not know who holds it.  The kernel's flock     *)
(* belongs to the file handle, and every call opens a handle of its own.   *)
(***************************************************************************)
EXTENDS Integers, FiniteSets

CONSTANTS Process,      \* the operating system processes
          Caller,       \* the calls, of any process
          ProcessOf,    \* the process each call is made in
          Directories   \* what the directory of the lock file may be like

DirectoryStates == {"present", "absent", "readonly", "denied"}

ASSUME CallerAssumption == IsFiniteSet(Caller)
ASSUME ProcessOfAssumption == ProcessOf \in [Caller -> Process]
ASSUME DirectoriesAssumption == Directories \subseteq DirectoryStates

VARIABLES
  pc,        \* where each caller is in lock(), or in the code the lock guards
  mode,      \* "read" for WithRLock, "write" for WithLock and Lock
  expired,   \* whether the caller's context is done
  mutex,     \* each process's RWMutex: -1 locked, n >= 0 the number of read locks
  handle,    \* each caller's flock handle: unopened, open, or ignored after ignoreErr
  flock,     \* what the kernel grants each caller's handle
  directory, \* the directory of the lock file
  stale      \* the caller still has an unlock function that has already run

vars == <<pc, mode, expired, mutex, handle, flock, directory, stale>>

Modes == {"read", "write"}
Waiting == {"memTop", "memTry", "memWait", "fileTop", "fileTry", "fileWait"}
HasMutex == {"fileTop", "fileTry", "fileWait", "backOut", "held", "memUnlock"}
Steps == {"idle"} \cup Waiting \cup HasMutex

Typed ==
  /\ pc \in [Caller -> Steps]
  /\ mode \in [Caller -> Modes]
  /\ expired \in [Caller -> BOOLEAN]
  /\ mutex \in [Process -> Int]
  /\ handle \in [Caller -> {"unopened", "open", "ignored"}]
  /\ flock \in [Caller -> {"none", "read", "write"}]
  /\ directory \in DirectoryStates
  /\ stale \in [Caller -> BOOLEAN]

(* The types of the state, and the count is one that a RWMutex can have: not  *)
(* even an unlock that is called again takes it below that of a locked one.   *)
TypeOK == Typed /\ \A p \in Process : mutex[p] >= -1

Init ==
  /\ pc = [c \in Caller |-> "idle"]
  /\ mode = [c \in Caller |-> "read"]
  /\ expired = [c \in Caller |-> FALSE]
  /\ mutex = [p \in Process |-> 0]
  /\ handle = [c \in Caller |-> "unopened"]
  /\ flock = [c \in Caller |-> "none"]
  /\ directory \in Directories
  /\ stale = [c \in Caller |-> FALSE]

-----------------------------------------------------------------------------
(* The two try-locks and their unlocks. *)

(* A mutation of MutexFree: TryLock overlooks the readers. *)
MutexFreeOfWriters(c) == mutex[ProcessOf[c]] >= 0

MutexFree(c) == IF mode[c] = "read" THEN mutex[ProcessOf[c]] >= 0
                                    ELSE mutex[ProcessOf[c]] = 0

LockMutex(c) ==
  mutex' = [mutex EXCEPT ![ProcessOf[c]] = IF mode[c] = "read" THEN @ + 1 ELSE -1]

UnlockMutex(c) ==
  mutex' = [mutex EXCEPT ![ProcessOf[c]] = IF mode[c] = "read" THEN @ - 1 ELSE 0]

(* A mutation of FlockFree: every handle asks for a shared lock. *)
FlockFreeOfWriters(c) == \A d \in Caller \ {c} : flock[d] \in {"none", "read"}

(* The kernel refuses a handle while another one holds the file incompatibly. *)
FlockFree(c) ==
  \A d \in Caller \ {c} : \/ flock[d] = "none"
                          \/ mode[c] = "read" /\ flock[d] = "read"

-----------------------------------------------------------------------------
(* A call starts; its context may be done already. *)
Call(c, m) ==
  /\ pc[c] = "idle"
  /\ pc' = [pc EXCEPT ![c] = "memTop"]
  /\ mode' = [mode EXCEPT ![c] = m]
  /\ \E e \in BOOLEAN : expired' = [expired EXCEPT ![c] = e]
  /\ handle' = [handle EXCEPT ![c] = "unopened"]
  /\ stale' = [stale EXCEPT ![c] = FALSE]
  /\ UNCHANGED <<mutex, flock, directory>>

(* The caller's deadline passes, or its command is cancelled. *)
Expire(c) ==
  /\ pc[c] \in Waiting
  /\ ~expired[c]
  /\ expired' = [expired EXCEPT ![c] = TRUE]
  /\ UNCHANGED <<pc, mode, mutex, handle, flock, directory, stale>>

(* SpinLock on the mutex: look at the context, try, else wait for either of  *)
(* the context and the retry delay.                                          *)
MemTop(c) ==
  /\ pc[c] = "memTop"
  /\ pc' = [pc EXCEPT ![c] = IF expired[c] THEN "idle" ELSE "memTry"]
  /\ UNCHANGED <<mode, expired, mutex, handle, flock, directory, stale>>

MemTry(c) ==
  /\ pc[c] = "memTry"
  /\ \/ /\ MutexFree(c)
        /\ LockMutex(c)
        /\ pc' = [pc EXCEPT ![c] = "fileTop"]
     \/ /\ ~MutexFree(c)
        /\ pc' = [pc EXCEPT ![c] = "memWait"]
        /\ UNCHANGED mutex
  /\ UNCHANGED <<mode, expired, handle, flock, directory, stale>>

MemWait(c) ==
  /\ pc[c] = "memWait"
  /\ \/ expired[c] /\ pc' = [pc EXCEPT ![c] = "idle"]
     \/ pc' = [pc EXCEPT ![c] = "memTop"]
  /\ UNCHANGED <<mode, expired, mutex, handle, flock, directory, stale>>

(* SpinLock on the lock file, with the mutex held.  A failure has to give    *)
(* the mutex back.                                                           *)
FileTop(c) ==
  /\ pc[c] = "fileTop"
  /\ pc' = [pc EXCEPT ![c] = IF expired[c] THEN "backOut" ELSE "fileTry"]
  /\ UNCHANGED <<mode, expired, mutex, handle, flock, directory, stale>>

(* The handle is opened on the first try, and it is opening that creates the *)
(* lock file and so depends on the directory.                                *)
CanFlock(c) == handle[c] = "open" \/ directory = "present"

IgnoresError(c) == handle[c] = "unopened" /\ directory \in {"absent", "readonly"}

FileTry(c) ==
  /\ pc[c] = "fileTry"
  /\ \/ /\ CanFlock(c)
        /\ FlockFree(c)
        /\ handle' = [handle EXCEPT ![c] = "open"]
        /\ flock' = [flock EXCEPT ![c] = mode[c]]
        /\ pc' = [pc EXCEPT ![c] = "held"]
     \/ /\ CanFlock(c)
        /\ ~FlockFree(c)
        /\ handle' = [handle EXCEPT ![c] = "open"]
        /\ pc' = [pc EXCEPT ![c] = "fileWait"]
        /\ UNCHANGED flock
     \/ /\ IgnoresError(c)
        /\ handle' = [handle EXCEPT ![c] = "ignored"]
        /\ pc' = [pc EXCEPT ![c] = "held"]
        /\ UNCHANGED flock
     \/ /\ ~CanFlock(c)
        /\ ~IgnoresError(c)
        /\ pc' = [pc EXCEPT ![c] = "backOut"]
        /\ UNCHANGED <<handle, flock>>
  /\ UNCHANGED <<mode, expired, mutex, directory, stale>>

(* A mutation of FileWait: the next try does not look at the context. *)
FileWaitBlindly(c) ==
  /\ pc[c] = "fileWait"
  /\ pc' = [pc EXCEPT ![c] = "fileTry"]
  /\ UNCHANGED <<mode, expired, mutex, handle, flock, directory, stale>>

FileWait(c) ==
  /\ pc[c] = "fileWait"
  /\ \/ expired[c] /\ pc' = [pc EXCEPT ![c] = "backOut"]
     \/ pc' = [pc EXCEPT ![c] = "fileTop"]
  /\ UNCHANGED <<mode, expired, mutex, handle, flock, directory, stale>>

(* A mutation of BackOut: a failed lock file leaves the mutex locked. *)
BackOutKeepingMutex(c) ==
  /\ pc[c] = "backOut"
  /\ pc' = [pc EXCEPT ![c] = "idle"]
  /\ UNCHANGED <<mode, expired, mutex, handle, flock, directory, stale>>

BackOut(c) ==
  /\ pc[c] = "backOut"
  /\ UnlockMutex(c)
  /\ pc' = [pc EXCEPT ![c] = "idle"]
  /\ UNCHANGED <<mode, expired, handle, flock, directory, stale>>

-----------------------------------------------------------------------------
(* The guarded code may create the directory it stores its file in. *)
MakeDirectory(c) ==
  /\ pc[c] = "held"
  /\ mode[c] = "write"
  /\ directory = "absent"
  /\ directory' = "present"
  /\ UNCHANGED <<pc, mode, expired, mutex, handle, flock, stale>>

(* The first call of unlock, made after the guarded code has returned, failed *)
(* or panicked: the file first, then the mutex.                               *)
UnlockFile(c) ==
  /\ pc[c] = "held"
  /\ flock' = [flock EXCEPT ![c] = "none"]
  /\ pc' = [pc EXCEPT ![c] = "memUnlock"]
  /\ UNCHANGED <<mode, expired, mutex, handle, directory, stale>>

MemUnlock(c) ==
  /\ pc[c] = "memUnlock"
  /\ UnlockMutex(c)
  /\ pc' = [pc EXCEPT ![c] = "idle"]
  /\ stale' = [stale EXCEPT ![c] = TRUE]
  /\ UNCHANGED <<mode, expired, handle, flock, directory>>

(* A mutation of UnlockAgain: without sync.OnceValue both are unlocked again. *)
UnlockAgainForReal(c) ==
  /\ pc[c] = "idle"
  /\ stale[c]
  /\ UnlockMutex(c)
  /\ stale' = [stale EXCEPT ![c] = FALSE]
  /\ UNCHANGED <<pc, mode, expired, handle, flock, directory>>

(* Another call of the same unlock: sync.OnceValue returns the first result. *)
UnlockAgain(c) ==
  /\ pc[c] = "idle"
  /\ stale[c]
  /\ stale' = [stale EXCEPT ![c] = FALSE]
  /\ UNCHANGED <<pc, mode, expired, mutex, handle, flock, directory>>

(* The process is killed: its mutex goes with it, and the kernel closes its *)
(* handles.  The process is started again by further calls.                 *)
Crash(p) ==
  LET dead == {c \in Caller : ProcessOf[c] = p}
  IN  /\ \E c \in dead : pc[c] # "idle"
      /\ pc' = [c \in Caller |-> IF c \in dead THEN "idle" ELSE pc[c]]
      /\ flock' = [c \in Caller |-> IF c \in dead THEN "none" ELSE flock[c]]
      /\ stale' = [c \in Caller |-> IF c \in dead THEN FALSE ELSE stale[c]]
      /\ mutex' = [mutex EXCEPT ![p] = 0]
      /\ UNCHANGED <<mode, expired, handle, directory>>

-----------------------------------------------------------------------------
(* What the scheduler runs of a call that has started. *)
Step(c) ==
  \/ MemTop(c) \/ MemTry(c) \/ MemWait(c)
  \/ FileTop(c) \/ FileTry(c) \/ FileWait(c) \/ BackOut(c)
  \/ UnlockFile(c) \/ MemUnlock(c)

Next ==
  \/ \E c \in Caller : \/ \E m \in Modes : Call(c, m)
                       \/ Expire(c) \/ Step(c)
                       \/ MakeDirectory(c) \/ UnlockAgain(c)
  \/ \E p \in Process : Crash(p)

Spec == Init /\ [][Next]_vars

(* Every goroutine that can run does, and every holder releases: "The token  *)
(* cache relies on every holder releasing quickly".                          *)
FairSpec == Spec /\ \A c \in Caller : WF_vars(Step(c))

-----------------------------------------------------------------------------
(* Properties. *)

SameProcess(c, d) == ProcessOf[c] = ProcessOf[d]

(* No caller writes the guarded file while another one reads or writes it,    *)
(* within a process always, and between processes unless one of them fell     *)
(* back to its mutex alone because its lock file could not be created.        *)
MutualExclusion ==
  \A c, d \in Caller :
     (c # d /\ pc[c] = "held" /\ pc[d] = "held") =>
        \/ mode[c] = "read" /\ mode[d] = "read"
        \/ ~SameProcess(c, d) /\ "ignored" \in {handle[c], handle[d]}

(* The mutex counts exactly the calls that will still give it back: a failed, *)
(* an expired or a twice unlocked call leaves no lock behind and never        *)
(* unlocks a mutex that is not locked, which is fatal in Go.                  *)
Readers(p) == {c \in Caller : ProcessOf[c] = p /\ pc[c] \in HasMutex /\ mode[c] = "read"}
Writers(p) == {c \in Caller : ProcessOf[c] = p /\ pc[c] \in HasMutex /\ mode[c] = "write"}

MutexAccounting ==
  \A p \in Process :
     IF Writers(p) = {} THEN mutex[p] = Cardinality(Readers(p))
                        ELSE /\ mutex[p] = -1
                             /\ Readers(p) = {}
                             /\ \E c \in Caller : Writers(p) = {c}

(* The kernel's lock is held for exactly as long as the guarded code runs, so *)
(* the mutex is never free while the file is still locked.                    *)
FlockWithinHold ==
  \A c \in Caller : flock[c] # "none" <=> pc[c] = "held" /\ handle[c] = "open"

(* The lock implements a readers-writer lock between all callers, or between  *)
(* those of one process where a lock file may be impossible to create.        *)
Rivals ==
  {cd \in Caller \X Caller :
     \/ SameProcess(cd[1], cd[2])
     \/ Directories \cap {"absent", "readonly"} = {}}

Hold == [c \in Caller |-> IF pc[c] = "held" THEN mode[c] ELSE "none"]

Abstract == INSTANCE RWLock WITH holding <- Hold

IsRWLock == Abstract!Spec

(* A caller that waits gives up or gets the lock once its context is done:    *)
(* "whoever waits for such a lock gives up after a short timeout".            *)
GivesUp ==
  \A c \in Caller : (pc[c] \in Waiting /\ expired[c]) ~> (pc[c] \in {"held", "idle"})

(* As long as a caller keeps waiting, someone gets the lock or gives up now    *)
(* and then: no call leaves it locked, and a mutex and a lock file never wait   *)
(* for each other.  Who gets it is not promised, since neither lock is fair.    *)
NeverStuck ==
  \A c \in Caller :
     pc[c] \in Waiting ~> \/ pc[c] \notin Waiting
                          \/ \E d \in Caller : pc[d] \in {"held", "backOut"}
=============================================================================
