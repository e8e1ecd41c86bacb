--------------------------- MODULE FileLockProofs ---------------------------
(***************************************************************************)
(* Proofs about FileLock for any number of processes and callers, and for  *)
(* any behaviour of the lock file's directory.                             *)
(***************************************************************************)
EXTENDS FileLock, FiniteSetTheorems, TLAPS

(* The kernel never grants two handles locks that exclude each other, and    *)
(* grants a handle the lock its call asked for.                              *)
FlockExclusion ==
  /\ \A c \in Caller : flock[c] # "none" => flock[c] = mode[c]
  /\ \A c, d \in Caller : (c # d /\ flock[c] = "write") => flock[d] = "none"

(* Who runs the guarded code holds the file lock or fell back. *)
HoldHasHandle ==
  \A c \in Caller : pc[c] = "held" => handle[c] \in {"open", "ignored"}

(* The inductive invariant. *)
IInv ==
  /\ Typed
  /\ MutexAccounting
  /\ FlockWithinHold
  /\ FlockExclusion
  /\ HoldHasHandle

-----------------------------------------------------------------------------
(* Every state has the types the declarations say. *)
LEMMA TypeInit == Init => Typed
  BY DirectoriesAssumption
     DEF Init, Typed, Steps, Waiting, HasMutex, Modes, DirectoryStates

(* Every step keeps the types. *)
LEMMA TypeNext == Typed /\ [Next]_vars => Typed'
<1> SUFFICES ASSUME Typed, [Next]_vars PROVE Typed'
  OBVIOUS
<1> USE ProcessOfAssumption DEF Typed, Steps, Waiting, HasMutex, Modes
<1>1. ASSUME NEW c \in Caller, NEW m \in Modes, Call(c, m) PROVE Typed'
  BY <1>1 DEF Call
<1>2. ASSUME NEW c \in Caller, Expire(c) PROVE Typed'
  BY <1>2 DEF Expire
<1>3. ASSUME NEW c \in Caller, MemTop(c) PROVE Typed'
  BY <1>3 DEF MemTop
<1>4. ASSUME NEW c \in Caller, MemTry(c) PROVE Typed'
  BY <1>4 DEF MemTry, LockMutex
<1>5. ASSUME NEW c \in Caller, MemWait(c) PROVE Typed'
  BY <1>5 DEF MemWait
<1>6. ASSUME NEW c \in Caller, FileTop(c) PROVE Typed'
  BY <1>6 DEF FileTop
<1>7. ASSUME NEW c \in Caller, FileTry(c) PROVE Typed'
  BY <1>7 DEF FileTry
<1>8. ASSUME NEW c \in Caller, FileWait(c) PROVE Typed'
  BY <1>8 DEF FileWait
<1>9. ASSUME NEW c \in Caller, BackOut(c) PROVE Typed'
  BY <1>9 DEF BackOut, UnlockMutex
<1>10. ASSUME NEW c \in Caller, MakeDirectory(c) PROVE Typed'
  BY <1>10 DEF MakeDirectory, DirectoryStates
<1>11. ASSUME NEW c \in Caller, UnlockFile(c) PROVE Typed'
  BY <1>11 DEF UnlockFile
<1>12. ASSUME NEW c \in Caller, MemUnlock(c) PROVE Typed'
  BY <1>12 DEF MemUnlock, UnlockMutex
<1>13. ASSUME NEW c \in Caller, UnlockAgain(c) PROVE Typed'
  BY <1>13 DEF UnlockAgain
<1>14. ASSUME NEW p \in Process, Crash(p) PROVE Typed'
  <2>1. pc' \in [Caller -> Steps] /\ flock' \in [Caller -> {"none", "read", "write"}]
    BY <1>14, Zenon DEF Crash
  <2>2. stale' \in [Caller -> BOOLEAN]
    BY <1>14, Zenon DEF Crash
  <2>3. mutex' \in [Process -> Int]
    BY <1>14 DEF Crash
  <2>4. QED
    BY <1>14, <2>1, <2>2, <2>3 DEF Crash
<1>15. CASE UNCHANGED vars
  BY <1>15 DEF vars
<1>16. QED
  BY <1>1, <1>2, <1>3, <1>4, <1>5, <1>6, <1>7, <1>8, <1>9, <1>10, <1>11,
     <1>12, <1>13, <1>14, <1>15 DEF Next, Step

-----------------------------------------------------------------------------
(* How the mutex keeps count of the calls that hold it. *)

(* The readers of a process can be counted. *)
LEMMA ReadersFinite ==
  ASSUME NEW p \in Process
  PROVE  IsFiniteSet(Readers(p)) /\ Cardinality(Readers(p)) \in Nat
  BY CallerAssumption, FS_Subset, FS_CardinalityType DEF Readers

(* A step that neither takes nor gives back a mutex keeps the count right. *)
LEMMA MutexFrame ==
  ASSUME MutexAccounting, UNCHANGED mutex,
         \A c \in Caller : pc'[c] \in HasMutex <=> pc[c] \in HasMutex,
         \A c \in Caller : pc[c] \in HasMutex => mode'[c] = mode[c]
  PROVE  MutexAccounting'
<1>1. \A p \in Process : Readers(p)' = Readers(p) /\ Writers(p)' = Writers(p)
  BY DEF Readers, Writers
<1>2. QED
  BY <1>1 DEF MutexAccounting

(* A successful try-lock keeps the count right. *)
LEMMA MutexAcquired ==
  ASSUME Typed, MutexAccounting, NEW c \in Caller, pc[c] \notin HasMutex,
         MutexFree(c), LockMutex(c), UNCHANGED mode,
         pc' = [pc EXCEPT ![c] = "fileTop"]
  PROVE  MutexAccounting'
<1> DEFINE p == ProcessOf[c]
<1>0. p \in Process
  BY ProcessOfAssumption
<1>1. \A d \in Caller : pc'[d] \in HasMutex <=> pc[d] \in HasMutex \/ d = c
  BY DEF Typed, HasMutex
<1>2. ASSUME NEW q \in Process, q # p
      PROVE  Readers(q)' = Readers(q) /\ Writers(q)' = Writers(q) /\ mutex'[q] = mutex[q]
  BY <1>1, <1>2 DEF Readers, Writers, LockMutex, Typed
<1>3. CASE mode[c] = "read"
  <2>1. Readers(p)' = Readers(p) \cup {c} /\ Writers(p)' = Writers(p)
    BY <1>1, <1>3 DEF Readers, Writers
  <2>2. c \notin Readers(p)
    BY DEF Readers
  <2>3. mutex[p] >= 0 /\ mutex'[p] = mutex[p] + 1
    BY <1>0, <1>3 DEF MutexFree, LockMutex, Typed
  <2>4. Writers(p) = {} /\ mutex[p] = Cardinality(Readers(p))
    BY <1>0, <2>3 DEF MutexAccounting
  <2>5. Cardinality(Readers(p)') = Cardinality(Readers(p)) + 1
    BY <1>0, <2>1, <2>2, ReadersFinite, FS_AddElement
  <2>6. Writers(p)' = {} /\ mutex'[p] = Cardinality(Readers(p)')
    BY <2>1, <2>3, <2>4, <2>5
  <2>7. QED
    BY <1>2, <2>6 DEF MutexAccounting
<1>4. CASE mode[c] # "read"
  <2>1. mode[c] = "write"
    BY <1>4 DEF Typed, Modes
  <2>2. mutex[p] = 0 /\ mutex'[p] = -1
    BY <1>0, <1>4 DEF MutexFree, LockMutex, Typed
  <2>3. Writers(p) = {} /\ Cardinality(Readers(p)) = 0
    BY <1>0, <2>2 DEF MutexAccounting
  <2>4. Readers(p) = {}
    BY <1>0, <2>3, ReadersFinite, FS_EmptySet
  <2>5. Readers(p)' = Readers(p) /\ Writers(p)' = Writers(p) \cup {c}
    BY <1>1, <2>1 DEF Readers, Writers
  <2>6. Readers(p)' = {} /\ Writers(p)' = {c} /\ mutex'[p] = -1
    BY <2>2, <2>3, <2>4, <2>5
  <2>7. QED
    BY <1>2, <2>6 DEF MutexAccounting
<1>5. QED
  BY <1>3, <1>4

(* Giving the mutex back keeps the count right. *)
LEMMA MutexReleased ==
  ASSUME Typed, MutexAccounting, NEW c \in Caller, pc[c] \in HasMutex,
         UnlockMutex(c), UNCHANGED mode,
         pc' = [pc EXCEPT ![c] = "idle"]
  PROVE  MutexAccounting'
<1> DEFINE p == ProcessOf[c]
<1>0. p \in Process
  BY ProcessOfAssumption
<1>1. \A d \in Caller : pc'[d] \in HasMutex <=> pc[d] \in HasMutex /\ d # c
  BY DEF Typed, HasMutex
<1>2. ASSUME NEW q \in Process, q # p
      PROVE  Readers(q)' = Readers(q) /\ Writers(q)' = Writers(q) /\ mutex'[q] = mutex[q]
  BY <1>1, <1>2 DEF Readers, Writers, UnlockMutex, Typed
<1>3. CASE mode[c] = "read"
  <2>1. Readers(p)' = Readers(p) \ {c} /\ Writers(p)' = Writers(p)
    BY <1>1, <1>3 DEF Readers, Writers
  <2>2. c \in Readers(p)
    BY <1>3 DEF Readers
  <2>3. mutex'[p] = mutex[p] - 1
    BY <1>0, <1>3 DEF UnlockMutex, Typed
  <2>4. Writers(p) = {} /\ mutex[p] = Cardinality(Readers(p))
    BY <1>0, <2>2 DEF MutexAccounting
  <2>5. Cardinality(Readers(p)') = Cardinality(Readers(p)) - 1
    BY <1>0, <2>1, <2>2, ReadersFinite, FS_RemoveElement
  <2>6. Writers(p)' = {} /\ mutex'[p] = Cardinality(Readers(p)')
    BY <2>1, <2>3, <2>4, <2>5
  <2>7. QED
    BY <1>2, <2>6 DEF MutexAccounting
<1>4. CASE mode[c] # "read"
  <2>1. c \in Writers(p)
    BY <1>4 DEF Typed, Modes, Writers
  <2>2. Writers(p) = {c} /\ Readers(p) = {}
    BY <1>0, <2>1 DEF MutexAccounting
  <2>3. mutex'[p] = 0
    BY <1>0, <1>4 DEF UnlockMutex, Typed
  <2>4. Writers(p)' = {} /\ Readers(p)' = {}
    BY <1>1, <2>2 DEF Readers, Writers
  <2>5. QED
    BY <1>2, <2>3, <2>4, FS_EmptySet DEF MutexAccounting
<1>5. QED
  BY <1>3, <1>4

(* No step leaves a mutex locked that no call will give back. *)
LEMMA MutexNext == Typed /\ MutexAccounting /\ [Next]_vars => MutexAccounting'
<1> SUFFICES ASSUME Typed, MutexAccounting, [Next]_vars PROVE MutexAccounting'
  OBVIOUS
<1>1. ASSUME NEW c \in Caller, NEW m \in Modes, Call(c, m) PROVE MutexAccounting'
  BY <1>1, MutexFrame DEF Call, HasMutex, Typed
<1>2. ASSUME NEW c \in Caller, Expire(c) PROVE MutexAccounting'
  BY <1>2, MutexFrame DEF Expire
<1>3. ASSUME NEW c \in Caller, MemTop(c) PROVE MutexAccounting'
  BY <1>3, MutexFrame DEF MemTop, HasMutex, Typed
<1>4. ASSUME NEW c \in Caller, MemTry(c) PROVE MutexAccounting'
  <2>1. CASE MutexFree(c) /\ LockMutex(c) /\ pc' = [pc EXCEPT ![c] = "fileTop"]
    BY <1>4, <2>1, MutexAcquired DEF MemTry, HasMutex
  <2>2. CASE pc' = [pc EXCEPT ![c] = "memWait"] /\ UNCHANGED mutex
    BY <1>4, <2>2, MutexFrame DEF MemTry, HasMutex, Typed
  <2>3. QED
    BY <1>4, <2>1, <2>2 DEF MemTry
<1>5. ASSUME NEW c \in Caller, MemWait(c) PROVE MutexAccounting'
  BY <1>5, MutexFrame DEF MemWait, HasMutex, Typed
<1>6. ASSUME NEW c \in Caller, FileTop(c) PROVE MutexAccounting'
  BY <1>6, MutexFrame DEF FileTop, HasMutex, Typed
<1>7. ASSUME NEW c \in Caller, FileTry(c) PROVE MutexAccounting'
  BY <1>7, MutexFrame DEF FileTry, HasMutex, Typed
<1>8. ASSUME NEW c \in Caller, FileWait(c) PROVE MutexAccounting'
  BY <1>8, MutexFrame DEF FileWait, HasMutex, Typed
<1>9. ASSUME NEW c \in Caller, BackOut(c) PROVE MutexAccounting'
  BY <1>9, MutexReleased DEF BackOut, HasMutex
<1>10. ASSUME NEW c \in Caller, MakeDirectory(c) PROVE MutexAccounting'
  BY <1>10, MutexFrame DEF MakeDirectory
<1>11. ASSUME NEW c \in Caller, UnlockFile(c) PROVE MutexAccounting'
  BY <1>11, MutexFrame DEF UnlockFile, HasMutex, Typed
<1>12. ASSUME NEW c \in Caller, MemUnlock(c) PROVE MutexAccounting'
  BY <1>12, MutexReleased DEF MemUnlock, HasMutex
<1>13. ASSUME NEW c \in Caller, UnlockAgain(c) PROVE MutexAccounting'
  BY <1>13, MutexFrame DEF UnlockAgain
<1>14. ASSUME NEW p \in Process, Crash(p) PROVE MutexAccounting'
  <2>1. \A c \in Caller : pc'[c] = IF ProcessOf[c] = p THEN "idle" ELSE pc[c]
    BY <1>14 DEF Crash
  <2>2. mode' = mode /\ mutex' = [mutex EXCEPT ![p] = 0]
    BY <1>14 DEF Crash
  <2>3. Readers(p)' = {} /\ Writers(p)' = {}
    BY <2>1 DEF Readers, Writers, HasMutex
  <2>4. mutex'[p] = Cardinality(Readers(p)')
    BY <2>2, <2>3, FS_EmptySet DEF Typed
  <2>5. ASSUME NEW q \in Process, q # p
        PROVE  Readers(q)' = Readers(q) /\ Writers(q)' = Writers(q) /\ mutex'[q] = mutex[q]
    BY <2>1, <2>2, <2>5 DEF Readers, Writers, Typed
  <2>6. QED
    BY <2>3, <2>4, <2>5 DEF MutexAccounting
<1>15. CASE UNCHANGED vars
  BY <1>15, MutexFrame DEF vars
<1>16. QED
  BY <1>1, <1>2, <1>3, <1>4, <1>5, <1>6, <1>7, <1>8, <1>9, <1>10, <1>11,
     <1>12, <1>13, <1>14, <1>15 DEF Next, Step

-----------------------------------------------------------------------------
(* How the kernel's lock follows the hold. *)

FlockInv == FlockWithinHold /\ FlockExclusion /\ HoldHasHandle

(* No step leaves the lock file locked beyond the guarded code, or locked twice. *)
LEMMA FlockNext == Typed /\ FlockInv /\ [Next]_vars => FlockInv'
<1> SUFFICES ASSUME Typed, FlockInv, [Next]_vars PROVE FlockInv'
  OBVIOUS
<1> USE DEF FlockInv, FlockWithinHold, FlockExclusion, HoldHasHandle, Typed
<1>1. ASSUME NEW c \in Caller, NEW m \in Modes, Call(c, m) PROVE FlockInv'
  BY <1>1 DEF Call
<1>2. ASSUME NEW c \in Caller, Expire(c) PROVE FlockInv'
  BY <1>2 DEF Expire
<1>3. ASSUME NEW c \in Caller, MemTop(c) PROVE FlockInv'
  BY <1>3 DEF MemTop
<1>4. ASSUME NEW c \in Caller, MemTry(c) PROVE FlockInv'
  BY <1>4 DEF MemTry
<1>5. ASSUME NEW c \in Caller, MemWait(c) PROVE FlockInv'
  BY <1>5 DEF MemWait
<1>6. ASSUME NEW c \in Caller, FileTop(c) PROVE FlockInv'
  BY <1>6 DEF FileTop
<1>7. ASSUME NEW c \in Caller, FileTry(c) PROVE FlockInv'
  <2>1. CASE /\ FlockFree(c)
             /\ handle' = [handle EXCEPT ![c] = "open"]
             /\ flock' = [flock EXCEPT ![c] = mode[c]]
             /\ pc' = [pc EXCEPT ![c] = "held"]
    <3>1. FlockWithinHold' /\ HoldHasHandle'
      BY <1>7, <2>1 DEF FileTry, Modes
    <3>2. FlockExclusion'
      BY <1>7, <2>1 DEF FileTry, FlockFree, Modes
    <3>3. QED
      BY <3>1, <3>2
  <2>2. CASE /\ handle' = [handle EXCEPT ![c] = "open"]
             /\ pc' = [pc EXCEPT ![c] = "fileWait"]
             /\ UNCHANGED flock
    BY <1>7, <2>2 DEF FileTry
  <2>3. CASE /\ IgnoresError(c)
             /\ handle' = [handle EXCEPT ![c] = "ignored"]
             /\ pc' = [pc EXCEPT ![c] = "held"]
             /\ UNCHANGED flock
    BY <1>7, <2>3 DEF FileTry
  <2>4. CASE pc' = [pc EXCEPT ![c] = "backOut"] /\ UNCHANGED <<handle, flock>>
    BY <1>7, <2>4 DEF FileTry
  <2>5. QED
    BY <1>7, <2>1, <2>2, <2>3, <2>4 DEF FileTry
<1>8. ASSUME NEW c \in Caller, FileWait(c) PROVE FlockInv'
  BY <1>8 DEF FileWait
<1>9. ASSUME NEW c \in Caller, BackOut(c) PROVE FlockInv'
  BY <1>9 DEF BackOut
<1>10. ASSUME NEW c \in Caller, MakeDirectory(c) PROVE FlockInv'
  BY <1>10 DEF MakeDirectory
<1>11. ASSUME NEW c \in Caller, UnlockFile(c) PROVE FlockInv'
  BY <1>11 DEF UnlockFile
<1>12. ASSUME NEW c \in Caller, MemUnlock(c) PROVE FlockInv'
  BY <1>12 DEF MemUnlock
<1>13. ASSUME NEW c \in Caller, UnlockAgain(c) PROVE FlockInv'
  BY <1>13 DEF UnlockAgain
<1>14. ASSUME NEW p \in Process, Crash(p) PROVE FlockInv'
  <2>1. \A c \in Caller : /\ pc'[c] = IF ProcessOf[c] = p THEN "idle" ELSE pc[c]
                          /\ flock'[c] = IF ProcessOf[c] = p THEN "none" ELSE flock[c]
    BY <1>14 DEF Crash
  <2>2. mode' = mode /\ handle' = handle
    BY <1>14 DEF Crash
  <2>3. QED
    BY <2>1, <2>2
<1>15. CASE UNCHANGED vars
  BY <1>15 DEF vars
<1>16. QED
  BY <1>1, <1>2, <1>3, <1>4, <1>5, <1>6, <1>7, <1>8, <1>9, <1>10, <1>11,
     <1>12, <1>13, <1>14, <1>15 DEF Next, Step

-----------------------------------------------------------------------------
(* The invariant, and what follows from it. *)

(* The inductive invariant holds at first. *)
LEMMA IInvInit == Init => IInv
<1> SUFFICES ASSUME Init PROVE IInv
  OBVIOUS
<1>1. Typed
  BY TypeInit
<1>2. MutexAccounting
  <2>1. \A p \in Process : Readers(p) = {} /\ Writers(p) = {} /\ mutex[p] = 0
    BY DEF Init, Readers, Writers, HasMutex
  <2>2. QED
    BY <2>1, FS_EmptySet DEF MutexAccounting
<1>3. FlockWithinHold /\ FlockExclusion /\ HoldHasHandle
  BY DEF Init, FlockWithinHold, FlockExclusion, HoldHasHandle
<1>4. QED
  BY <1>1, <1>2, <1>3 DEF IInv

(* Every step keeps the inductive invariant. *)
LEMMA IInvNext == IInv /\ [Next]_vars => IInv'
  BY TypeNext, MutexNext, FlockNext DEF IInv, FlockInv

(* Mutex, lock file and step agree for every call, in every state. *)
THEOREM InductiveInvariant == Spec => []IInv
  BY IInvInit, IInvNext, PTL DEF Spec

(* The state keeps its types, and no RWMutex gets below the count of a locked *)
(* one: it is not unlocked once too often, which is fatal in Go, not even by  *)
(* the unlock that a caller defers beside one it calls itself.                *)
THEOREM TypeCorrect == Spec => []TypeOK
<1>1. ASSUME IInv PROVE TypeOK
  <2>1. \A p \in Process : Cardinality(Readers(p)) >= 0
    BY ReadersFinite
  <2>2. ASSUME NEW p \in Process PROVE mutex[p] >= -1
    <3>1. CASE Writers(p) = {}
      BY <1>1, <2>1, <2>2, <3>1, ReadersFinite DEF IInv, MutexAccounting
    <3>2. CASE Writers(p) # {}
      BY <1>1, <2>2, <3>2 DEF IInv, MutexAccounting
    <3>3. QED
      BY <3>1, <3>2
  <2>3. QED
    BY <1>1, <2>2 DEF IInv, TypeOK
<1>2. QED
  BY <1>1, InductiveInvariant, PTL

(* The mutex counts the calls that will still give it back, however calls     *)
(* fail, expire, unlock twice or are killed: no lock leaks, none is released  *)
(* by someone who does not hold it.                                           *)
THEOREM MutexIsAccounted == Spec => []MutexAccounting
<1>1. IInv => MutexAccounting
  BY DEF IInv
<1>2. QED
  BY <1>1, InductiveInvariant, PTL

(* The lock file is locked exactly while guarded code runs that locked it. *)
THEOREM FileLockedWhileHeld == Spec => []FlockWithinHold
<1>1. IInv => FlockWithinHold
  BY DEF IInv
<1>2. QED
  BY <1>1, InductiveInvariant, PTL

(* Writing excludes every other hold in the process, and in every other       *)
(* process that could use the lock file.                                      *)
LEMMA Exclusion == IInv => MutualExclusion
<1> SUFFICES ASSUME IInv, NEW c \in Caller, NEW d \in Caller, c # d,
                    pc[c] = "held", pc[d] = "held",
                    ~(mode[c] = "read" /\ mode[d] = "read")
             PROVE  ~SameProcess(c, d) /\ "ignored" \in {handle[c], handle[d]}
  BY DEF MutualExclusion
<1>1. mode[c] = "write" \/ mode[d] = "write"
  BY DEF IInv, Typed, Modes
<1>2. ~SameProcess(c, d)
  <2> SUFFICES ASSUME SameProcess(c, d) PROVE FALSE
    OBVIOUS
  <2> DEFINE p == ProcessOf[c]
  <2>1. p \in Process /\ ProcessOf[d] = p
    BY ProcessOfAssumption DEF SameProcess
  <2>2. {c, d} \subseteq Readers(p) \cup Writers(p)
    BY <2>1 DEF IInv, Typed, Modes, HasMutex, Readers, Writers
  <2>3. Writers(p) # {}
    BY <1>1, <2>1 DEF Writers, HasMutex
  <2>4. Readers(p) = {} /\ \E e \in Caller : Writers(p) = {e}
    BY <2>1, <2>3 DEF IInv, MutexAccounting
  <2>5. QED
    BY <2>2, <2>4
<1>3. "ignored" \in {handle[c], handle[d]}
  <2> SUFFICES ASSUME handle[c] = "open", handle[d] = "open" PROVE FALSE
    BY DEF IInv, HoldHasHandle
  <2>1. flock[c] # "none" /\ flock[d] # "none"
    BY DEF IInv, FlockWithinHold
  <2>2. QED
    BY <1>1, <2>1 DEF IInv, FlockExclusion
<1>4. QED
  BY <1>2, <1>3

(* No caller writes the guarded file beside a reader or a writer of its own     *)
(* process, or of another process whose lock file could be created.             *)
THEOREM MutuallyExclusive == Spec => []MutualExclusion
  BY InductiveInvariant, Exclusion, PTL

-----------------------------------------------------------------------------
(* The lock implements RWLock. *)

FallbackDirectories == {"absent", "readonly"}

(* Nobody falls back where every lock file can be created or is refused. *)
NoFallback ==
  Directories \cap FallbackDirectories = {} =>
     /\ directory \notin FallbackDirectories
     /\ \A c \in Caller : handle[c] # "ignored"

(* No step falls back to the mutex where the lock file can be created. *)
LEMMA NoFallbackNext == Typed /\ NoFallback /\ [Next]_vars => NoFallback'
<1> SUFFICES ASSUME Typed, NoFallback, [Next]_vars,
                    Directories \cap FallbackDirectories = {}
             PROVE  NoFallback'
  BY DEF NoFallback
<1>1. directory \notin FallbackDirectories /\ \A c \in Caller : handle[c] # "ignored"
  BY DEF NoFallback
<1>2. directory' \notin FallbackDirectories
  BY <1>1 DEF Next, Step, vars, FallbackDirectories, Call, Expire, MemTop, MemTry, MemWait,
              FileTop, FileTry, FileWait, BackOut, MakeDirectory, UnlockFile, MemUnlock,
              UnlockAgain, Crash
<1>3. ASSUME NEW c \in Caller, FileTry(c) PROVE \A d \in Caller : handle'[d] # "ignored"
  BY <1>1, <1>3 DEF FileTry, IgnoresError, FallbackDirectories, Typed
<1>4. ASSUME NEW c \in Caller, NEW m \in Modes, Call(c, m)
      PROVE  \A d \in Caller : handle'[d] # "ignored"
  BY <1>1, <1>4 DEF Call, Typed
<1>5. ASSUME UNCHANGED handle PROVE \A d \in Caller : handle'[d] # "ignored"
  BY <1>1, <1>5
<1>6. \A d \in Caller : handle'[d] # "ignored"
  BY <1>3, <1>4, <1>5
     DEF Next, Step, vars, Expire, MemTop, MemTry, MemWait, FileTop, FileWait, BackOut,
         MakeDirectory, UnlockFile, MemUnlock, UnlockAgain, Crash
<1>7. QED
  BY <1>2, <1>6 DEF NoFallback

(* A call falls back to its mutex alone only where its directory may be missing or read-only. *)
THEOREM FallsBackOnlyThere == Spec => []NoFallback
<1>1. Init => NoFallback
  BY DEF Init, NoFallback, FallbackDirectories
<1>2. IInv => Typed
  BY DEF IInv
<1>3. QED
  BY <1>1, <1>2, NoFallbackNext, InductiveInvariant, PTL DEF Spec

(* Getting the file lock, or falling back, is the step that acquires. *)
LEMMA HeldIsAcquired ==
  ASSUME IInv, IInv', NoFallback', NEW c \in Caller, UNCHANGED mode,
         pc[c] = "fileTry", pc' = [pc EXCEPT ![c] = "held"]
  PROVE  Abstract!Acquire(c, mode[c])
<1>1. Hold[c] = "none" /\ Hold' = [Hold EXCEPT ![c] = mode[c]]
  BY DEF IInv, Typed, Hold
<1>2. ASSUME NEW d \in Caller \ {c}, <<c, d>> \in Rivals, Hold[d] # "none"
      PROVE  mode[c] = "read" /\ Hold[d] = "read"
  <2>1. pc'[c] = "held" /\ pc'[d] = "held" /\ Hold[d] = mode[d]
    BY <1>2 DEF IInv, Typed, Hold
  <2>2. MutualExclusion'
    BY Exclusion, PTL
  <2>3. SameProcess(c, d) \/ "ignored" \notin {handle'[c], handle'[d]}
    BY <1>2 DEF Rivals, NoFallback, FallbackDirectories
  <2>4. QED
    BY <2>1, <2>2, <2>3 DEF MutualExclusion, SameProcess
<1>3. Abstract!Compatible(c, mode[c])
  BY <1>2 DEF Abstract!Compatible
<1>4. QED
  BY <1>1, <1>3 DEF Abstract!Acquire

(* Every step acquires, releases or drops a lock, or leaves the holds alone. *)
LEMMA StepRefines ==
  ASSUME IInv, IInv', NoFallback', [Next]_vars
  PROVE  [Abstract!Next]_Hold
<1> USE DEF IInv, Typed
<1>1. ASSUME NEW c \in Caller, NEW m \in Modes, Call(c, m) PROVE UNCHANGED Hold
  BY <1>1 DEF Call, Hold
<1>2. ASSUME UNCHANGED <<pc, mode>> PROVE UNCHANGED Hold
  BY <1>2 DEF Hold
<1>3. ASSUME NEW c \in Caller,
             \/ MemTop(c) \/ MemTry(c) \/ MemWait(c) \/ FileTop(c) \/ FileWait(c)
             \/ BackOut(c) \/ MemUnlock(c)
      PROVE  UNCHANGED Hold
  BY <1>3 DEF MemTop, MemTry, MemWait, FileTop, FileWait, BackOut, MemUnlock, Hold
<1>4. ASSUME NEW c \in Caller, FileTry(c) PROVE [Abstract!Next]_Hold
  <2>1. CASE pc' = [pc EXCEPT ![c] = "held"]
    <3>1. Abstract!Acquire(c, mode[c])
      BY <1>4, <2>1, HeldIsAcquired DEF FileTry
    <3>2. QED
      BY <3>1 DEF Abstract!Next, Abstract!Modes, Modes
  <2>2. CASE pc' = [pc EXCEPT ![c] = "fileWait"] \/ pc' = [pc EXCEPT ![c] = "backOut"]
    BY <1>4, <2>2 DEF FileTry, Hold
  <2>3. QED
    BY <1>4, <2>1, <2>2 DEF FileTry
<1>5. ASSUME NEW c \in Caller, UnlockFile(c) PROVE [Abstract!Next]_Hold
  <2>1. Hold[c] # "none" /\ Hold' = [Hold EXCEPT ![c] = "none"]
    BY <1>5 DEF UnlockFile, Hold, Modes
  <2>2. QED
    BY <2>1 DEF Abstract!Next, Abstract!Release
<1>6. ASSUME NEW p \in Process, Crash(p) PROVE [Abstract!Next]_Hold
  <2> DEFINE dead == {c \in Caller : ProcessOf[c] = p}
  <2>1. /\ pc' = [c \in Caller |-> IF c \in dead THEN "idle" ELSE pc[c]]
        /\ mode' = mode
    BY <1>6 DEF Crash
  <2>2. Hold' = [c \in Caller |-> IF c \in dead THEN "none" ELSE Hold[c]]
    BY <2>1 DEF Hold
  <2>3. dead \in SUBSET Caller
    OBVIOUS
  <2>4. QED
    BY <2>2, <2>3 DEF Abstract!Next, Abstract!Drop
<1>7. QED
  BY <1>1, <1>2, <1>3, <1>4, <1>5, <1>6
     DEF Next, Step, vars, Expire, MakeDirectory, UnlockAgain

(* Between its rivals, a Locker behaves as a readers-writer lock. *)
THEOREM ImplementsRWLock == Spec => IsRWLock
<1>1. Init => Abstract!Init
  BY DEF Init, Abstract!Init, Hold
<1>2. IInv /\ IInv' /\ NoFallback' /\ [Next]_vars => [Abstract!Next]_Hold
  BY StepRefines
<1>3. QED
  BY <1>1, <1>2, InductiveInvariant, FallsBackOnlyThere, PTL
     DEF Spec, IsRWLock, Abstract!Spec
=============================================================================
