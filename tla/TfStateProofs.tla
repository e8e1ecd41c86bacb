---------------------------- MODULE TfStateProofs ----------------------------
(***************************************************************************)
(* Proofs about the state of a building block, for any processes and       *)
(* commands, beside any runs and anyone who forces a lock open.            *)
(***************************************************************************)
EXTENDS TfState, TLAPS

-----------------------------------------------------------------------------
(* Types.                                                                  *)

(* A command that ends has nothing any more. *)
LEMMA LeaveTypes ==
  ASSUME TypeOK, NEW c \in Command, Leave(c)
  PROVE  /\ pc' \in [Command -> {"working"} \cup Writing]
         /\ lockId' \in [Command -> 0..MaxLocks]
         /\ seen' \in [Command -> SUBSET (0..MaxWrites)]
         /\ body' \in [Command -> State \cup {None}]
         /\ checked' \in [Command -> State \cup {None}]
         /\ failed' \in SUBSET Command /\ opened' \in SUBSET Command
<1>1. MaxWrites \in Nat /\ MaxLocks \in Nat
  BY BoundsAssumption
<1>2. /\ pc' \in [Command -> {"working"} \cup Writing] /\ body' \in [Command -> State \cup {None}]
      /\ checked' \in [Command -> State \cup {None}]
  BY DEF TypeOK, Leave, Goto
<1>3. lockId' \in [Command -> 0..MaxLocks]
  BY <1>1 DEF TypeOK, Leave
<1>4. seen' \in [Command -> SUBSET (0..MaxWrites)]
  BY DEF TypeOK, Leave
<1>5. failed' \in SUBSET Command /\ opened' \in SUBSET Command
  BY DEF TypeOK, Leave
<1> QED BY <1>2, <1>3, <1>4, <1>5

(* A lock that meshStack takes has an ID that no lock had before. *)
LEMMA LockTypes ==
  ASSUME TypeOK, NEW r \in 0..MaxRuns, TakeLock(r)
  PROVE  /\ lock = None /\ locks + 1 \in 1..MaxLocks /\ locks' = locks + 1
         /\ lock' \in Lock /\ lock'.id = locks + 1 /\ lock'.run = r
<1>1. locks \in Nat /\ MaxLocks \in Nat /\ locks < MaxLocks
  BY BoundsAssumption DEF TypeOK, TakeLock
<1>2. locks + 1 \in 1..MaxLocks
  BY <1>1
<1>3. lock' = [id |-> locks + 1, run |-> r]
  BY DEF TakeLock
<1>4. lock' \in Lock /\ lock'.id = locks + 1 /\ lock'.run = r
  BY <1>2, <1>3 DEF Lock
<1> QED BY <1>2, <1>4 DEF TakeLock

(* What is known of the stored state is which write it came with. *)
LEMMA KnowTypes ==
  ASSUME TypeOK, NEW c \in Command, NEW id \in 0..MaxWrites, Know(c, id)
  PROVE  seen' \in [Command -> SUBSET (0..MaxWrites)]
<1>1. seen \in [Command -> SUBSET (0..MaxWrites)]
  BY DEF TypeOK
<1>2. CASE lockId[c] = 0
  BY <1>1, <1>2 DEF Know
<1>3. CASE lockId[c] # 0
  <2>1. seen' = [seen EXCEPT ![c] = seen[c] \cup {id}]
    BY <1>3 DEF Know
  <2> QED BY <1>1, <2>1
<1> QED BY <1>2, <1>3

(* A state is the write it came with, none is 0. *)
LEMMA StateIds == \A s \in State \cup {None} : IdOf(s) \in 0..MaxWrites
<1> SUFFICES ASSUME NEW s \in State \cup {None} PROVE IdOf(s) \in 0..MaxWrites
  OBVIOUS
<1>1. MaxWrites \in Nat
  BY BoundsAssumption
<1>2. CASE s = None
  BY <1>1, <1>2 DEF IdOf
<1>3. CASE s # None
  <2>1. s.id \in 1..MaxWrites
    BY <1>3 DEF State
  <2> QED BY <1>1, <1>3, <2>1 DEF IdOf
<1> QED BY <1>2, <1>3

(* A request of a command leaves every type as declared. *)
LEMMA RequestTypes ==
  ASSUME TypeOK, NEW c \in Command, Request(c)
  PROVE  TypeOK'
<1>1. /\ MaxWrites \in Nat /\ MaxLocks \in Nat /\ MaxRuns \in Nat /\ MaxUnlocks \in Nat
      /\ proxyOf[c] \in Process /\ stored \in State \cup {None}
  BY BoundsAssumption DEF TypeOK
<1>2. CASE LockState(c)
  <2>1. TakeLock(0) /\ 0 \in 0..MaxRuns
    BY <1>1, <1>2 DEF LockState
  <2>2. locks + 1 \in 1..MaxLocks /\ locks' = locks + 1 /\ lock' \in Lock
    BY <2>1, LockTypes
  <2>3. UNCHANGED <<options, mu, stored, writer, backups, runVars, unlockVars, writes>>
    BY <1>2 DEF LockState
  <2>4. locks' \in 0..MaxLocks /\ lock' \in Lock \cup {None}
    BY <1>1, <2>2
  <2>5. CASE Leave(c)
    BY <2>3, <2>4, <2>5, LeaveTypes DEF TypeOK, options, runVars, unlockVars
  <2>6. CASE lockId' = [lockId EXCEPT ![c] = locks + 1] /\ UNCHANGED <<pc, body, checked, failed, opened, seen>>
    <3>1. lockId' \in [Command -> 0..MaxLocks]
      <4>1. locks + 1 \in 0..MaxLocks
        BY <1>1, <2>2
      <4> QED BY <2>6, <4>1 DEF TypeOK
    <3> QED BY <2>3, <2>4, <2>6, <3>1 DEF TypeOK, options, runVars, unlockVars
  <2> QED BY <1>2, <2>5, <2>6 DEF LockState
<1>3. CASE Read(c)
  <2>1. seen' \in [Command -> SUBSET (0..MaxWrites)]
    BY <1>1, <1>3, StateIds, KnowTypes DEF Read
  <2> QED BY <1>3, <2>1 DEF Read, TypeOK, options, runVars, unlockVars
<1>4. CASE UnlockState(c)
  <2>1. Leave(c) /\ lock' \in {lock, WithoutLock(lockId[c])}
        /\ UNCHANGED <<options, mu, stored, writer, backups, runVars, unlockVars, writes, locks>>
    BY <1>4 DEF UnlockState
  <2>2. lock' \in Lock \cup {None}
    BY <2>1 DEF WithoutLock, TypeOK
  <2> QED BY <2>1, <2>2, LeaveTypes DEF TypeOK, options, runVars, unlockVars
<1>5. ASSUME Handle(c)
      PROVE  pc' \in [Command -> {"working"} \cup Writing] /\ mu' \in [Process -> Command \cup {None}]
  BY <1>1, <1>5 DEF Handle, Goto, TypeOK, Writing
<1>6. CASE Write(c)
  <2>1. /\ pc' \in [Command -> {"working"} \cup Writing] /\ mu' \in [Process -> Command \cup {None}]
        /\ failed' \in SUBSET Command
        /\ UNCHANGED <<options, checked, lockId, opened, stored, writer, lock, backups, runVars, unlockVars, locks>>
    BY <1>5, <1>6 DEF Write, TypeOK
  <2>2. /\ body' \in [Command -> State \cup {None}]
        /\ writes' \in 0..MaxWrites
        /\ seen' \in [Command -> SUBSET (0..MaxWrites)]
    <3>1. CASE /\ writes < MaxWrites
               /\ \E v \in Version : body' = [body EXCEPT ![c] = [version |-> v, id |-> writes + 1]]
               /\ writes' = writes + 1
               /\ Know(c, writes + 1)
      <4>1. writes + 1 \in 1..MaxWrites /\ writes + 1 \in 0..MaxWrites
        <5>1. writes \in Nat /\ MaxWrites \in Nat /\ writes < MaxWrites
          BY <1>1, <3>1 DEF TypeOK
        <5> QED BY <5>1
      <4>2. PICK v \in Version : body' = [body EXCEPT ![c] = [version |-> v, id |-> writes + 1]]
        BY <3>1
      <4>3. [version |-> v, id |-> writes + 1] \in State
        BY <4>1 DEF State
      <4>4. body' \in [Command -> State \cup {None}]
        BY <4>2, <4>3 DEF TypeOK
      <4>5. seen' \in [Command -> SUBSET (0..MaxWrites)]
        BY <3>1, <4>1, KnowTypes
      <4> QED BY <3>1, <4>1, <4>4, <4>5
    <3>2. CASE body' = [body EXCEPT ![c] = None] /\ Know(c, 0) /\ UNCHANGED writes
      <4>1. seen' \in [Command -> SUBSET (0..MaxWrites)]
        BY <1>1, <3>2, KnowTypes
      <4> QED BY <3>2, <4>1 DEF TypeOK
    <3> QED BY <1>6, <3>1, <3>2 DEF Write
  <2> QED BY <2>1, <2>2 DEF TypeOK, options, runVars, unlockVars
<1>7. CASE Retry(c)
  <2>1. /\ pc' \in [Command -> {"working"} \cup Writing] /\ mu' \in [Process -> Command \cup {None}]
        /\ failed' \in SUBSET Command
        /\ UNCHANGED <<options, body, checked, lockId, opened, seen, stored, writer, lock, backups, runVars,
                       unlockVars, writes, locks>>
    BY <1>5, <1>7 DEF Retry, TypeOK
  <2> QED BY <2>1 DEF TypeOK, options, runVars, unlockVars
<1> QED BY <1>2, <1>3, <1>4, <1>6, <1>7 DEF Request

(* What a proxy does with a write leaves every type as declared. *)
LEMMA ProxyTypes ==
  ASSUME TypeOK, NEW c \in Command, Proxying(c)
  PROVE  TypeOK'
<1>1. proxyOf[c] \in Process /\ stored \in State \cup {None} /\ body[c] \in State \cup {None}
  BY DEF TypeOK
<1>2. ASSUME Respond(c)
      PROVE  /\ pc' \in [Command -> {"working"} \cup Writing] /\ mu' \in [Process -> Command \cup {None}]
             /\ checked' \in [Command -> State \cup {None}]
  BY <1>1, <1>2 DEF Respond, Goto, TypeOK, Writing
<1>3. ASSUME Done(c) \/ Fail(c)
      PROVE  /\ pc' \in [Command -> {"working"} \cup Writing] /\ mu' \in [Process -> Command \cup {None}]
             /\ checked' \in [Command -> State \cup {None}]
             /\ body' \in [Command -> State \cup {None}] /\ failed' \in SUBSET Command
  BY <1>1, <1>2, <1>3 DEF Done, Fail, TypeOK
<1>4. CASE ReadStored(c)
  <2>1. UNCHANGED <<options, lockId, opened, seen, stored, writer, lock, runVars, unlockVars, writes, locks>>
    BY <1>4 DEF ReadStored
  <2>2. CASE (Fail(c) \/ Done(c)) /\ UNCHANGED backups
    BY <1>3, <2>1, <2>2 DEF TypeOK, options, runVars, unlockVars
  <2>3. CASE /\ backups' = backups \cup Saved(c) /\ checked' = [checked EXCEPT ![c] = stored]
             /\ Goto(c, "store") /\ UNCHANGED <<mu, body, failed>>
    <3>1. Saved(c) \subseteq 1..MaxWrites
      BY <1>1 DEF Saved, State
    <3>2. backups' \in SUBSET (1..MaxWrites)
      BY <2>3, <3>1 DEF TypeOK
    <3>3. pc' \in [Command -> {"working"} \cup Writing] /\ checked' \in [Command -> State \cup {None}]
      BY <1>1, <2>3 DEF TypeOK, Goto, Writing
    <3> QED BY <2>1, <2>3, <3>2, <3>3 DEF TypeOK, options, runVars, unlockVars
  <2> QED BY <1>4, <2>2, <2>3 DEF ReadStored
<1>5. CASE StoreBody(c)
  <2>1. UNCHANGED <<options, lockId, opened, seen, lock, backups, runVars, unlockVars, writes, locks>>
    BY <1>5 DEF StoreBody
  <2>2. (Done(c) \/ Fail(c)) /\ stored' \in State \cup {None} /\ writer' \in Process \cup {Runner}
    BY <1>1, <1>5 DEF StoreBody, TypeOK
  <2> QED BY <1>3, <2>1, <2>2 DEF TypeOK, options, runVars, unlockVars
<1> QED BY <1>4, <1>5 DEF Proxying

(* A killed command leaves every type as declared. *)
LEMMA KillTypes ==
  ASSUME TypeOK, NEW c \in Command, Kill(c)
  PROVE  TypeOK'
<1>1. mu' \in [Process -> Command \cup {None}]
  BY DEF Kill, TypeOK
<1> QED BY <1>1, LeaveTypes DEF Kill, TypeOK, options, runVars, unlockVars

RunnerActs == CreateRun \/ ApproveRun \/ RunLock \/ RunWrite \/ RunUnlock \/ FailRun

(* What a run does leaves every type as declared. *)
LEMMA RunTypes ==
  ASSUME TypeOK, RunnerActs
  PROVE  TypeOK'
<1>1. /\ MaxWrites \in Nat /\ MaxLocks \in Nat /\ MaxRuns \in Nat
      /\ runs \in Nat /\ writes \in Nat /\ locks \in Nat
  BY BoundsAssumption DEF TypeOK
<1>2. CASE CreateRun
  <2>1. runs' \in 0..MaxRuns
    BY <1>1, <1>2 DEF CreateRun
  <2> QED BY <1>2, <2>1 DEF CreateRun, RunStep, TypeOK, options, commandVars, unlockVars
<1>3. CASE ApproveRun
  BY <1>3 DEF ApproveRun, RunStep, TypeOK, options, commandVars, unlockVars
<1>4. CASE RunLock
  <2>1. TakeLock(runs) /\ runs \in 0..MaxRuns
    BY <1>4 DEF RunLock, TypeOK
  <2>2. locks + 1 \in 1..MaxLocks /\ locks' = locks + 1 /\ lock' \in Lock
    BY <2>1, LockTypes
  <2>3. runLock' \in 0..MaxLocks /\ locks' \in 0..MaxLocks
    BY <1>1, <1>4, <2>2 DEF RunLock
  <2> QED BY <1>4, <2>2, <2>3 DEF RunLock, RunStep, TypeOK, options, commandVars, unlockVars
<1>5. CASE RunWrite
  <2>1. writes' \in 0..MaxWrites /\ writes + 1 \in 1..MaxWrites
    BY <1>1, <1>5 DEF RunWrite
  <2>2. stored' \in State
    <3>1. PICK v \in Version : stored' = [version |-> v, id |-> writes + 1]
      BY <1>5 DEF RunWrite
    <3> QED BY <2>1, <3>1 DEF State
  <2> QED BY <1>5, <2>1, <2>2 DEF RunWrite, RunStep, TypeOK, options, commandVars, unlockVars
<1>6. CASE RunUnlock
  <2>1. lock' \in Lock \cup {None} /\ runLock' \in 0..MaxLocks
    BY <1>1, <1>6 DEF RunUnlock, WithoutLock, TypeOK
  <2> QED BY <1>6, <2>1 DEF RunUnlock, RunStep, TypeOK, options, commandVars, unlockVars
<1>7. CASE FailRun
  <2>1. runLock' \in 0..MaxLocks
    BY <1>1, <1>7 DEF FailRun
  <2> QED BY <1>7, <2>1 DEF FailRun, TypeOK, options, commandVars, unlockVars
<1> QED BY <1>2, <1>3, <1>4, <1>5, <1>6, <1>7 DEF RunnerActs

Unlocks == ShowLock \/ CheckHolder \/ Release

(* What force-unlock does leaves every type as declared. *)
LEMMA UnlockTypes ==
  ASSUME TypeOK, Unlocks
  PROVE  TypeOK'
<1>1. CASE ShowLock
  <2>1. unlocks' \in 0..MaxUnlocks
    <3>1. unlocks \in Nat /\ MaxUnlocks \in Nat /\ unlocks < MaxUnlocks /\ unlocks' = unlocks + 1
      BY <1>1, BoundsAssumption DEF TypeOK, ShowLock
    <3> QED BY <3>1
  <2>2. shown' \in Lock \cup {None} /\ forced' \in BOOLEAN /\ unlocker' \in {"idle", "read", "asking"}
    BY <1>1 DEF ShowLock, TypeOK
  <2> QED BY <1>1, <2>1, <2>2 DEF ShowLock, TypeOK, options, commandVars, runVars
<1>2. CASE CheckHolder
  <2>1. shown' \in Lock \cup {None} /\ forced' \in BOOLEAN /\ unlocker' \in {"idle", "read", "asking"}
        /\ unlocks' \in 0..MaxUnlocks
    <3>1. CASE unlocker' = "asking" /\ UNCHANGED <<shown, forced, unlocks>>
      BY <3>1 DEF TypeOK
    <3>2. CASE Forget
      BY <3>2 DEF TypeOK, Forget
    <3> QED BY <1>2, <3>1, <3>2 DEF CheckHolder
  <2> QED BY <1>2, <2>1 DEF CheckHolder, TypeOK, options, commandVars, runVars
<1>3. CASE Release
  <2>1. lock' \in Lock \cup {None} /\ opened' \in SUBSET Command
    BY <1>3 DEF Release, WithoutLock, TypeOK
  <2>2. shown' \in Lock \cup {None} /\ forced' \in BOOLEAN /\ unlocker' \in {"idle", "read", "asking"}
        /\ unlocks' \in 0..MaxUnlocks
    BY <1>3 DEF Release, Forget, TypeOK
  <2> QED BY <1>3, <2>1, <2>2 DEF Release, TypeOK, options, runVars
<1> QED BY <1>1, <1>2, <1>3 DEF Unlocks

(* A step is one of a command, of its proxy, of a run or of force-unlock. *)
LEMMA Steps ==
  ASSUME [Next]_vars
  PROVE  \/ \E c \in Command : Request(c) \/ Proxying(c) \/ Kill(c)
         \/ RunnerActs \/ Unlocks \/ UNCHANGED vars
BY DEF Next, RunnerActs, Unlocks

(* The types at first. *)
LEMMA TypeInit == Init => TypeOK
<1> SUFFICES ASSUME Init PROVE TypeOK
  OBVIOUS
<1>1. /\ MaxWrites \in Nat /\ MaxLocks \in Nat /\ MaxRuns \in Nat /\ MaxUnlocks \in Nat
      /\ 0 \in 0..MaxWrites /\ 0 \in 0..MaxLocks /\ 0 \in 0..MaxRuns /\ 0 \in 0..MaxUnlocks
  BY BoundsAssumption
<1>2. proxyOf \in [Command -> Process] /\ mode \in [Process -> Modes]
  BY SetupsAssumption DEF Init
<1> QED BY <1>1, <1>2 DEF Init, TypeOK

(* The types after any step. *)
LEMMA TypeNext == TypeOK /\ [Next]_vars => TypeOK'
<1> SUFFICES ASSUME TypeOK, [Next]_vars PROVE TypeOK'
  OBVIOUS
<1>1. CASE UNCHANGED vars
  BY <1>1 DEF TypeOK, vars, options, commandVars, runVars, unlockVars
<1> QED BY <1>1, Steps, RequestTypes, ProxyTypes, KillTypes, RunTypes, UnlockTypes

(* Every state of a building block's state and its commands has the types that are *)
(* declared.                                                                        *)
THEOREM StateTypes == Spec => []TypeOK
BY TypeInit, TypeNext, PTL DEF Spec

-----------------------------------------------------------------------------
(* Who has which lock.                                                     *)

(* No ID is used twice: not for two commands, nor for a run and a command.  A command    *)
(* that was told that it has the lock has it until somebody forces it open.               *)
LockInv ==
  /\ lock # None => lock.id <= locks
  /\ shown # None => shown.id <= locks
  /\ runLock <= locks
  /\ \A c \in Command : lockId[c] <= locks /\ (lockId[c] # 0 => lockId[c] # runLock)
  /\ \A c, d \in Command : lockId[c] # 0 /\ lockId[c] = lockId[d] => c = d
  /\ \A c \in Command : Locked(c) => lock # None /\ lock.id = lockId[c]

(* IDs and runs are numbers. *)
LEMMA Numbers ==
  ASSUME TypeOK
  PROVE  /\ locks \in Nat /\ runLock \in Nat /\ runs \in Nat
         /\ \A c \in Command : lockId[c] \in Nat
         /\ lock # None => lock.id \in Nat \ {0} /\ lock.run \in Nat
         /\ shown # None => shown.id \in Nat \ {0} /\ shown.run \in Nat
<1>1. MaxLocks \in Nat /\ MaxRuns \in Nat
  BY BoundsAssumption
<1>2. locks \in Nat /\ runLock \in Nat /\ runs \in Nat /\ \A c \in Command : lockId[c] \in Nat
  BY <1>1 DEF TypeOK
<1>3. \A l \in Lock : l.id \in Nat \ {0} /\ l.run \in Nat
  BY <1>1 DEF Lock
<1> QED BY <1>2, <1>3 DEF TypeOK

(* Nobody has a lock at first. *)
LEMMA LockStarts == Init => LockInv
<1> SUFFICES ASSUME Init PROVE LockInv
  OBVIOUS
<1>1. lock = None /\ shown = None /\ runLock = 0 /\ locks = 0 /\ \A c \in Command : lockId[c] = 0
  BY DEF Init
<1> QED BY <1>1 DEF LockInv, Locked

(* A request for a lock keeps who has which lock. *)
LEMMA LockKeeps ==
  ASSUME TypeOK, LockInv, NEW c \in Command, LockState(c)
  PROVE  LockInv'
<1>1. /\ TakeLock(0) /\ UNCHANGED <<shown, runLock>>
      /\ \/ lockId' = [lockId EXCEPT ![c] = locks + 1] /\ UNCHANGED opened
         \/ lockId' = [lockId EXCEPT ![c] = 0] /\ opened' = opened \ {c}
  BY DEF LockState, Leave, runVars, unlockVars
<1>2. 0 \in 0..MaxRuns
  BY BoundsAssumption
<1>3. lock = None /\ locks' = locks + 1 /\ lock' \in Lock /\ lock'.id = locks + 1
  BY <1>1, <1>2, LockTypes
<1>4. lock' # None
  BY <1>3, NoStateAssumption
<1>5. \A d \in Command : ~Locked(d)
  BY <1>3 DEF LockInv
<1>6. lockId \in [Command -> 0..MaxLocks]
  BY DEF TypeOK
<1>7. /\ locks \in Nat /\ runLock \in Nat /\ \A d \in Command : lockId[d] \in Nat
      /\ shown # None => shown.id \in Nat
  BY Numbers
<1>8. \A d \in Command : lockId'[d] = IF d # c THEN lockId[d] ELSE lockId'[c]
  BY <1>1, <1>6
<1>9. lockId'[c] = locks + 1 \/ lockId'[c] = 0
  BY <1>1, <1>6
<1>10. \A d \in Command : lockId[d] <= locks /\ (lockId[d] # 0 => lockId[d] # runLock)
  BY DEF LockInv
<1>11. runLock <= locks /\ (shown # None => shown.id <= locks)
  BY DEF LockInv
<1>12. runLock' <= locks' /\ (shown' # None => shown'.id <= locks') /\ (lock' # None => lock'.id <= locks')
  BY <1>1, <1>3, <1>7, <1>11
<1>13. \A d \in Command : lockId'[d] <= locks' /\ (lockId'[d] # 0 => lockId'[d] # runLock')
  BY <1>1, <1>3, <1>7, <1>8, <1>9, <1>10, <1>11
<1>14. \A d, e \in Command : lockId'[d] # 0 /\ lockId'[d] = lockId'[e] => d = e
  <2> SUFFICES ASSUME NEW d \in Command, NEW e \in Command, lockId'[d] # 0, lockId'[d] = lockId'[e]
               PROVE  d = e
    OBVIOUS
  <2>1. lockId[d] # locks + 1 /\ lockId[e] # locks + 1
    BY <1>7, <1>10
  <2> QED BY <1>8, <1>9, <2>1 DEF LockInv
<1>15. \A d \in Command : Locked(d)' => lock' # None /\ lock'.id = lockId'[d]
  <2> SUFFICES ASSUME NEW d \in Command, Locked(d)' PROVE lock'.id = lockId'[d]
    BY <1>4
  <2>1. lockId'[d] # 0 /\ d \notin opened'
    BY DEF Locked
  <2>2. CASE d = c
    BY <1>3, <1>9, <2>1, <2>2
  <2>3. CASE d # c
    <3>1. lockId[d] # 0 /\ d \notin opened
      BY <1>1, <1>8, <2>1, <2>3
    <3> QED BY <1>5, <3>1 DEF Locked
  <2> QED BY <2>2, <2>3
<1> QED BY <1>12, <1>13, <1>14, <1>15 DEF LockInv

(* A command that ends keeps who of the others has which lock, where meshStack releases  *)
(* no other lock.                                                                         *)
LEMMA LeaveKeeps ==
  ASSUME TypeOK, LockInv, NEW c \in Command, Leave(c), lock' \in {lock, WithoutLock(lockId[c])},
         UNCHANGED <<shown, runLock, locks>>
  PROVE  LockInv'
<1>1. lockId' = [lockId EXCEPT ![c] = 0] /\ opened' = opened \ {c} /\ lockId \in [Command -> 0..MaxLocks]
  BY DEF Leave, TypeOK
<1>2. \A d \in Command : lockId'[d] = IF d # c THEN lockId[d] ELSE 0
  BY <1>1
<1>3. locks \in Nat
  BY Numbers
<1>4. lock' # None => lock' = lock
  BY DEF WithoutLock
<1>5. \A d \in Command : Locked(d)' => lock' # None /\ lock'.id = lockId'[d]
  <2> SUFFICES ASSUME NEW d \in Command, Locked(d)' PROVE lock' # None /\ lock'.id = lockId'[d]
    OBVIOUS
  <2>1. d # c /\ Locked(d) /\ lockId'[d] = lockId[d]
    BY <1>1, <1>2 DEF Locked
  <2>2. lock # None /\ lock.id = lockId[d] /\ lockId[d] # lockId[c]
    BY <2>1 DEF LockInv, Locked
  <2>3. lock' = lock
    BY <2>2 DEF WithoutLock
  <2> QED BY <2>1, <2>2, <2>3
<1> QED BY <1>2, <1>3, <1>4, <1>5 DEF LockInv

(* Every step keeps who has which lock. *)
LEMMA LockNext == TypeOK /\ LockInv /\ [Next]_vars => LockInv'
<1> SUFFICES ASSUME TypeOK, LockInv, [Next]_vars PROVE LockInv'
  OBVIOUS
<1>1. ASSUME UNCHANGED <<lock, shown, runLock, locks, lockId, opened>> PROVE LockInv'
  BY <1>1 DEF LockInv, Locked
<1>2. ASSUME NEW c \in Command, Request(c) PROVE LockInv'
  <2>1. CASE LockState(c)
    BY <2>1, LockKeeps
  <2>2. CASE UnlockState(c)
    <3>1. Leave(c) /\ lock' \in {lock, WithoutLock(lockId[c])} /\ UNCHANGED <<shown, runLock, locks>>
      BY <2>2 DEF UnlockState, runVars, unlockVars
    <3> QED BY <3>1, LeaveKeeps
  <2>3. CASE Read(c) \/ Write(c) \/ Retry(c)
    <3>1. UNCHANGED <<lock, shown, runLock, locks, lockId, opened>>
      BY <2>3 DEF Read, Write, Retry, runVars, unlockVars
    <3> QED BY <1>1, <3>1
  <2> QED BY <1>2, <2>1, <2>2, <2>3 DEF Request
<1>3. ASSUME NEW c \in Command, Proxying(c) PROVE LockInv'
  <2>1. UNCHANGED <<lock, shown, runLock, locks, lockId, opened>>
    BY <1>3 DEF Proxying, ReadStored, StoreBody, runVars, unlockVars
  <2> QED BY <1>1, <2>1
<1>4. ASSUME NEW c \in Command, Kill(c) PROVE LockInv'
  <2>1. Leave(c) /\ lock' = lock /\ UNCHANGED <<shown, runLock, locks>>
    BY <1>4 DEF Kill, runVars, unlockVars
  <2> QED BY <2>1, LeaveKeeps
<1>5. locks \in Nat /\ runLock \in Nat /\ \A c \in Command : lockId[c] \in Nat
  BY Numbers
<1>6. CASE RunnerActs
  <2>1. UNCHANGED <<shown, lockId, opened>>
    BY <1>6 DEF RunnerActs, CreateRun, ApproveRun, RunLock, RunWrite, RunUnlock, FailRun, commandVars, unlockVars
  <2>2. CASE CreateRun \/ ApproveRun \/ RunWrite
    <3>1. UNCHANGED <<lock, runLock, locks>>
      BY <2>2 DEF CreateRun, ApproveRun, RunWrite
    <3> QED BY <1>1, <2>1, <3>1
  <2>3. CASE RunLock
    <3>1. TakeLock(runs) /\ runs \in 0..MaxRuns /\ runLock' = locks + 1
      BY <2>3 DEF RunLock, TypeOK
    <3>2. lock = None /\ locks' = locks + 1 /\ lock' \in Lock /\ lock'.id = locks + 1
      BY <3>1, LockTypes
    <3>3. \A c \in Command : ~Locked(c)
      BY <3>2 DEF LockInv
    <3>4. \A c \in Command : ~Locked(c)'
      BY <2>1, <3>3 DEF Locked
    <3>5. (lock' # None => lock'.id <= locks') /\ runLock' <= locks'
      BY <1>5, <3>1, <3>2
    <3>6. shown' # None => shown'.id <= locks'
      <4>1. shown # None => shown.id \in Nat /\ shown.id <= locks
        BY Numbers DEF LockInv
      <4> QED BY <1>5, <2>1, <3>2, <4>1
    <3>7. \A c \in Command : lockId'[c] <= locks' /\ (lockId'[c] # 0 => lockId'[c] # runLock')
      <4>1. \A c \in Command : lockId[c] <= locks
        BY DEF LockInv
      <4> QED BY <1>5, <2>1, <3>1, <3>2, <4>1
    <3>8. \A c, d \in Command : lockId'[c] # 0 /\ lockId'[c] = lockId'[d] => c = d
      BY <2>1 DEF LockInv
    <3> QED BY <3>4, <3>5, <3>6, <3>7, <3>8 DEF LockInv
  <2>4. CASE RunUnlock \/ FailRun
    <3>1. lock' \in {lock, WithoutLock(runLock)} /\ runLock' = 0 /\ locks' = locks
      BY <2>4 DEF RunUnlock, FailRun
    <3>2. lock' # None => lock' = lock
      BY <3>1 DEF WithoutLock
    <3>3. \A c \in Command : Locked(c)' => lock' # None /\ lock'.id = lockId'[c]
      <4> SUFFICES ASSUME NEW c \in Command, Locked(c)' PROVE lock' # None /\ lock'.id = lockId'[c]
        OBVIOUS
      <4>1. Locked(c) /\ lockId'[c] = lockId[c]
        BY <2>1 DEF Locked
      <4>2. lock # None /\ lock.id = lockId[c] /\ lockId[c] # runLock
        BY <4>1 DEF LockInv, Locked
      <4>3. lock' = lock
        BY <3>1, <4>2 DEF WithoutLock
      <4> QED BY <4>1, <4>2, <4>3
    <3> QED BY <1>5, <2>1, <3>1, <3>2, <3>3 DEF LockInv
  <2> QED BY <1>6, <2>2, <2>3, <2>4 DEF RunnerActs
<1>7. CASE Unlocks
  <2>1. UNCHANGED <<runLock, locks, lockId>> /\ shown' \in {shown, lock, None}
    BY <1>7 DEF Unlocks, ShowLock, CheckHolder, Release, Forget, commandVars, runVars
  <2>2. /\ lock' # None => lock' = lock
        /\ \A c \in Command : Locked(c)' => lock' = lock /\ Locked(c)
    <3>1. CASE ShowLock \/ CheckHolder
      <4>1. UNCHANGED <<lock, opened>>
        BY <3>1 DEF ShowLock, CheckHolder, commandVars
      <4> QED BY <2>1, <4>1 DEF Locked
    <3>2. CASE Release
      <4>1. CASE UNCHANGED <<lock, opened>>
        BY <2>1, <4>1 DEF Locked
      <4>2. CASE lock' = WithoutLock(shown.id) /\ opened' = opened \cup {c \in Command : lockId[c] = shown.id}
        <5>1. ASSUME NEW c \in Command, Locked(c)' PROVE lock' = lock /\ Locked(c)
          <6>1. Locked(c) /\ lockId[c] # shown.id
            BY <2>1, <4>2, <5>1 DEF Locked
          <6>2. lock # None /\ lock.id # shown.id
            BY <6>1 DEF LockInv
          <6> QED BY <4>2, <6>1, <6>2 DEF WithoutLock
        <5> QED BY <4>2, <5>1 DEF WithoutLock
      <4> QED BY <3>2, <4>1, <4>2 DEF Release
    <3> QED BY <1>7, <3>1, <3>2 DEF Unlocks
  <2>3. \A c \in Command : Locked(c)' => lock' # None /\ lock'.id = lockId'[c]
    BY <2>1, <2>2 DEF LockInv
  <2> QED BY <2>1, <2>2, <2>3 DEF LockInv
<1>8. CASE UNCHANGED vars
  BY <1>1, <1>8 DEF vars, commandVars, runVars, unlockVars
<1> QED BY <1>2, <1>3, <1>4, <1>6, <1>7, <1>8, Steps

-----------------------------------------------------------------------------
(* Whose turn it is.                                                       *)

(* A proxy has one write at a time, and that one was not answered yet. *)
TurnInv == \A c \in Command : pc[c] \in Writing => mu[proxyOf[c]] = c /\ c \notin failed

(* Nothing is written at first. *)
LEMMA TurnStarts == Init => TurnInv
BY DEF Init, TurnInv, Writing

(* A write waits until its proxy has none. *)
LEMMA HandleKeeps ==
  ASSUME TypeOK, TurnInv, NEW c \in Command, Handle(c), failed' = failed \ {c}, UNCHANGED proxyOf
  PROVE  TurnInv'
<1>1. /\ mu[proxyOf[c]] = None /\ pc' = [pc EXCEPT ![c] = "read"] /\ mu' = [mu EXCEPT ![proxyOf[c]] = c]
      /\ pc \in [Command -> {"working"} \cup Writing] /\ mu \in [Process -> Command \cup {None}]
      /\ \A d \in Command : proxyOf[d] \in Process
  BY DEF Handle, Free, Goto, TypeOK
<1>2. ASSUME NEW d \in Command, pc'[d] \in Writing PROVE mu'[proxyOf[d]] = d /\ d \notin failed'
  <2>1. CASE d = c
    BY <1>1, <2>1
  <2>2. CASE d # c
    <3>1. mu[proxyOf[d]] = d /\ d \notin failed
      BY <1>1, <1>2, <2>2 DEF TurnInv
    <3>2. proxyOf[d] # proxyOf[c]
      BY <1>1, <3>1, NoneAssumption
    <3> QED BY <1>1, <3>1, <3>2
  <2> QED BY <2>1, <2>2
<1> QED BY <1>2 DEF TurnInv

(* A command that ends leaves the others their turns. *)
LEMMA LeaveTurns ==
  ASSUME TypeOK, TurnInv, NEW c \in Command, Leave(c), UNCHANGED proxyOf,
         \A p \in Process : mu'[p] = mu[p] \/ mu[p] = c
  PROVE  TurnInv'
<1>1. /\ pc' = [pc EXCEPT ![c] = "working"] /\ failed' = failed \ {c}
      /\ pc \in [Command -> {"working"} \cup Writing] /\ \A d \in Command : proxyOf[d] \in Process
  BY DEF Leave, Goto, TypeOK
<1>2. ASSUME NEW d \in Command, pc'[d] \in Writing PROVE mu'[proxyOf[d]] = d /\ d \notin failed'
  <2>1. d # c /\ pc[d] \in Writing
    BY <1>1, <1>2 DEF Writing
  <2>2. mu[proxyOf[d]] = d /\ d \notin failed
    BY <2>1 DEF TurnInv
  <2> QED BY <1>1, <2>1, <2>2
<1> QED BY <1>2 DEF TurnInv

(* Every step keeps the turns. *)
LEMMA TurnNext == TypeOK /\ TurnInv /\ [Next]_vars => TurnInv'
<1> SUFFICES ASSUME TypeOK, TurnInv, [Next]_vars PROVE TurnInv'
  OBVIOUS
<1>1. ASSUME UNCHANGED <<pc, mu, proxyOf, failed>> PROVE TurnInv'
  BY <1>1 DEF TurnInv
<1>2. ASSUME NEW c \in Command, Request(c) PROVE TurnInv'
  <2>1. CASE LockState(c)
    <3>1. UNCHANGED <<proxyOf, mu>> /\ (Leave(c) \/ UNCHANGED <<pc, failed>>)
      BY <2>1 DEF LockState, options
    <3> QED BY <1>1, <3>1, LeaveTurns
  <2>2. CASE UnlockState(c)
    <3>1. UNCHANGED <<proxyOf, mu>> /\ Leave(c)
      BY <2>2 DEF UnlockState, options
    <3> QED BY <3>1, LeaveTurns
  <2>3. CASE Read(c)
    BY <1>1, <2>3 DEF Read, options
  <2>4. CASE Write(c) \/ Retry(c)
    <3>1. Handle(c) /\ failed' = failed \ {c} /\ UNCHANGED proxyOf
      BY <2>4 DEF Write, Retry, options
    <3> QED BY <3>1, HandleKeeps
  <2> QED BY <1>2, <2>1, <2>2, <2>3, <2>4 DEF Request
<1>3. ASSUME NEW c \in Command, Proxying(c) PROVE TurnInv'
  <2>1. /\ pc[c] \in Writing /\ mu[proxyOf[c]] = c /\ c \notin failed /\ UNCHANGED proxyOf
        /\ pc \in [Command -> {"working"} \cup Writing] /\ mu \in [Process -> Command \cup {None}]
        /\ \A d \in Command : proxyOf[d] \in Process
    BY <1>3 DEF Proxying, ReadStored, StoreBody, Writing, TurnInv, options, TypeOK
  <2>2. CASE Goto(c, "store") /\ UNCHANGED <<mu, failed>>
    <3>1. pc' = [pc EXCEPT ![c] = "store"]
      BY <2>2 DEF Goto
    <3> QED BY <2>1, <2>2, <3>1 DEF TurnInv
  <2>3. CASE Done(c) \/ Fail(c)
    <3>1. /\ pc' = [pc EXCEPT ![c] = "working"] /\ mu' = [mu EXCEPT ![proxyOf[c]] = None]
          /\ failed' \subseteq failed \cup {c}
      BY <2>3 DEF Done, Fail, Respond, Goto
    <3>2. ASSUME NEW d \in Command, pc'[d] \in Writing PROVE mu'[proxyOf[d]] = d /\ d \notin failed'
      <4>1. d # c /\ pc[d] \in Writing
        BY <2>1, <3>1, <3>2 DEF Writing
      <4>2. mu[proxyOf[d]] = d /\ d \notin failed
        BY <4>1 DEF TurnInv
      <4>3. proxyOf[d] # proxyOf[c]
        BY <2>1, <4>1, <4>2
      <4> QED BY <2>1, <3>1, <4>1, <4>2, <4>3
    <3> QED BY <2>1, <3>2 DEF TurnInv
  <2> QED BY <1>3, <2>2, <2>3 DEF Proxying, ReadStored, StoreBody
<1>4. ASSUME NEW c \in Command, Kill(c) PROVE TurnInv'
  <2>1. Leave(c) /\ UNCHANGED proxyOf /\ \A p \in Process : mu'[p] = mu[p] \/ mu[p] = c
    BY <1>4 DEF Kill, options
  <2> QED BY <2>1, LeaveTurns
<1>5. CASE RunnerActs
  BY <1>1, <1>5 DEF RunnerActs, CreateRun, ApproveRun, RunLock, RunWrite, RunUnlock, FailRun, commandVars, options
<1>6. CASE Unlocks
  BY <1>1, <1>6 DEF Unlocks, ShowLock, CheckHolder, Release, commandVars, options
<1>7. CASE UNCHANGED vars
  BY <1>1, <1>7 DEF vars, commandVars, options
<1> QED BY <1>2, <1>3, <1>4, <1>5, <1>6, <1>7, Steps

Own(c) == Request(c) \/ Proxying(c) \/ Kill(c)

(* What others do beside a command: they change nothing that it has, and the stored      *)
(* state only where it has no lock and, during its write, from another process.          *)
LEMMA Beside ==
  ASSUME TypeOK, LockInv, TurnInv, [Next]_vars, NEW c \in Command, ~Own(c)
  PROVE  /\ body'[c] = body[c] /\ lockId'[c] = lockId[c] /\ pc'[c] = pc[c] /\ seen'[c] = seen[c]
         /\ checked'[c] = checked[c]
         /\ c \in failed' <=> c \in failed
         /\ c \in opened => c \in opened'
         /\ backups \subseteq backups' /\ UNCHANGED options
         /\ \/ UNCHANGED <<stored, writer>>
            \/ ~Locked(c) /\ (pc[c] \in Writing => writer' # proxyOf[c])
<1>1. /\ body \in [Command -> State \cup {None}] /\ checked \in [Command -> State \cup {None}]
      /\ lockId \in [Command -> 0..MaxLocks]
      /\ pc \in [Command -> {"working"} \cup Writing] /\ seen \in [Command -> SUBSET (0..MaxWrites)]
      /\ proxyOf[c] \in Process
  BY DEF TypeOK
<1> DEFINE Kept == /\ body'[c] = body[c] /\ lockId'[c] = lockId[c] /\ pc'[c] = pc[c] /\ seen'[c] = seen[c]
                   /\ checked'[c] = checked[c]
                   /\ c \in failed' <=> c \in failed
                   /\ c \in opened => c \in opened'
                   /\ backups \subseteq backups' /\ UNCHANGED options
<1>2. ASSUME NEW d \in Command, d # c, Leave(d)
      PROVE  /\ body'[c] = body[c] /\ lockId'[c] = lockId[c] /\ pc'[c] = pc[c] /\ seen'[c] = seen[c]
             /\ checked'[c] = checked[c]
             /\ c \in failed' <=> c \in failed
             /\ c \in opened => c \in opened'
  BY <1>1, <1>2 DEF Leave, Goto
<1>3. ASSUME NEW d \in Command, d # c, Request(d) PROVE Kept /\ UNCHANGED <<stored, writer>>
  <2>1. CASE LockState(d)
    <3>1. UNCHANGED <<options, backups, stored, writer>>
      BY <2>1 DEF LockState
    <3>2. CASE Leave(d)
      BY <1>2, <1>3, <3>1, <3>2
    <3>3. CASE lockId' = [lockId EXCEPT ![d] = locks + 1] /\ UNCHANGED <<pc, body, checked, failed, opened, seen>>
      BY <1>1, <1>3, <3>1, <3>3
    <3> QED BY <2>1, <3>2, <3>3 DEF LockState
  <2>2. CASE UnlockState(d)
    <3>1. UNCHANGED <<options, backups, stored, writer>> /\ Leave(d)
      BY <2>2 DEF UnlockState
    <3> QED BY <1>2, <1>3, <3>1
  <2>3. ASSUME NEW id, Know(d, id) PROVE seen'[c] = seen[c]
    BY <1>1, <1>3, <2>3 DEF Know
  <2>4. CASE Read(d)
    <3>1. UNCHANGED <<options, backups, stored, writer, body, checked, lockId, pc, failed, opened>> /\ seen'[c] = seen[c]
      BY <2>3, <2>4 DEF Read
    <3> QED BY <3>1
  <2>5. CASE Write(d) \/ Retry(d)
    <3>1. UNCHANGED <<options, backups, stored, writer, checked, lockId, opened>> /\ failed' = failed \ {d}
      BY <2>5 DEF Write, Retry
    <3>2. body'[c] = body[c]
      BY <1>1, <1>3, <2>5 DEF Write, Retry
    <3>3. seen'[c] = seen[c]
      BY <2>3, <2>5 DEF Write, Retry
    <3>4. pc'[c] = pc[c]
      BY <1>1, <1>3, <2>5 DEF Write, Retry, Handle, Goto
    <3> QED BY <1>3, <3>1, <3>2, <3>3, <3>4
  <2> QED BY <1>3, <2>1, <2>2, <2>4, <2>5 DEF Request
<1>4. ASSUME NEW d \in Command, d # c, Proxying(d)
      PROVE  /\ Kept
             /\ \/ UNCHANGED <<stored, writer>>
                \/ pc[d] = "store" /\ Accepts(lockId[d]) /\ writer' = proxyOf[d]
  <2>1. UNCHANGED <<options, lockId, opened, seen>> /\ backups \subseteq backups'
    BY <1>4 DEF Proxying, ReadStored, StoreBody
  <2>2. /\ body'[c] = body[c] /\ pc'[c] = pc[c] /\ (c \in failed' <=> c \in failed)
        /\ checked'[c] = checked[c]
    BY <1>1, <1>4 DEF Proxying, ReadStored, StoreBody, Done, Fail, Respond, Goto
  <2>3. \/ UNCHANGED <<stored, writer>>
        \/ pc[d] = "store" /\ Accepts(lockId[d]) /\ writer' = proxyOf[d]
    BY <1>4 DEF Proxying, ReadStored, StoreBody
  <2> QED BY <2>1, <2>2, <2>3
<1>5. ASSUME NEW d \in Command, d # c, Kill(d) PROVE Kept /\ UNCHANGED <<stored, writer>>
  <2>1. UNCHANGED <<options, backups, stored, writer>> /\ Leave(d)
    BY <1>5 DEF Kill
  <2> QED BY <1>2, <1>5, <2>1
<1>6. CASE RunnerActs
  <2>1. Kept
    <3>1. UNCHANGED <<options, commandVars, backups>>
      BY <1>6 DEF RunnerActs, CreateRun, ApproveRun, RunLock, RunWrite, RunUnlock, FailRun
    <3> QED BY <3>1 DEF commandVars
  <2>2. UNCHANGED <<stored, writer>> \/ (Accepts(runLock) /\ writer' = Runner)
    BY <1>6 DEF RunnerActs, CreateRun, ApproveRun, RunLock, RunWrite, RunUnlock, FailRun
  <2>3. Accepts(runLock) => ~Locked(c)
    BY DEF Accepts, LockInv, Locked
  <2> QED BY <1>1, <2>1, <2>2, <2>3, RunnerAssumption
<1>7. CASE Unlocks
  <2>1. UNCHANGED <<options, pc, body, checked, failed, lockId, seen, backups, stored, writer>> /\ opened \subseteq opened'
    BY <1>7 DEF Unlocks, ShowLock, CheckHolder, Release, commandVars
  <2> QED BY <2>1
<1>8. CASE UNCHANGED vars
  BY <1>8 DEF vars, commandVars
<1>9. ASSUME NEW d \in Command, d # c, pc[d] = "store", Accepts(lockId[d]), writer' = proxyOf[d]
      PROVE  ~Locked(c) /\ (pc[c] \in Writing => writer' # proxyOf[c])
  <2>1. ~Locked(c)
    BY <1>9 DEF Accepts, LockInv, Locked
  <2>2. pc[c] \in Writing => proxyOf[d] # proxyOf[c]
    BY <1>9 DEF TurnInv, Writing
  <2> QED BY <1>9, <2>1, <2>2
<1>10. (\E d \in Command : d # c /\ (Request(d) \/ Proxying(d) \/ Kill(d))) \/ RunnerActs \/ Unlocks \/ UNCHANGED vars
  BY Steps DEF Own
<1> HIDE DEF Kept
<1>11. Kept /\ (UNCHANGED <<stored, writer>> \/ (~Locked(c) /\ (pc[c] \in Writing => writer' # proxyOf[c])))
  BY <1>3, <1>4, <1>5, <1>6, <1>7, <1>8, <1>9, <1>10 DEF Kept
<1> QED BY <1>11 DEF Kept

-----------------------------------------------------------------------------
(* What a write was checked against.                                       *)

(* The write follows the state that the proxy read, which was backed up; and that is the *)
(* one that is stored, or somebody overtook a command without a lock.                     *)
Checked(c) ==
  /\ body[c] # None /\ ~Forces(c) => Follows(body[c], checked[c])
  /\ checked[c] # None /\ proxyOf[c] \in Backup => checked[c].id \in backups
  /\ stored = checked[c] \/ Overtaken(c)

CheckedInv == \A c \in Command : pc[c] = "store" => Checked(c)

(* What others do leaves the stored state as it was checked, or overtakes it. *)
LEMMA CheckedBeside ==
  ASSUME TypeOK, LockInv, TurnInv, [Next]_vars, NEW c \in Command, ~Own(c), pc[c] = "store", Checked(c)
  PROVE  Checked(c)'
<1>1. /\ body'[c] = body[c] /\ lockId'[c] = lockId[c] /\ proxyOf' = proxyOf /\ mode' = mode
      /\ checked'[c] = checked[c]
      /\ c \in opened => c \in opened'
      /\ backups \subseteq backups'
      /\ \/ UNCHANGED <<stored, writer>>
         \/ ~Locked(c) /\ writer' # proxyOf[c]
  BY Beside DEF Writing, options
<1>2. ~Locked(c) => ~Locked(c)'
  BY <1>1 DEF Locked
<1>3. stored' = checked'[c] \/ Overtaken(c)'
  <2>1. CASE ~Locked(c) /\ writer' # proxyOf[c]
    BY <1>1, <1>2, <2>1 DEF Overtaken
  <2>2. CASE UNCHANGED <<stored, writer>>
    BY <1>1, <1>2, <2>2 DEF Overtaken, Checked
  <2> QED BY <1>1, <2>1, <2>2
<1>4. (Forces(c)' <=> Forces(c)) /\ (Follows(body[c], checked[c]) => Follows(body[c], checked[c])')
  BY <1>1 DEF Forces, Follows
<1>5. body'[c] # None /\ ~Forces(c)' => Follows(body[c], checked[c])'
  BY <1>1, <1>4 DEF Checked
<1>6. checked'[c] # None /\ proxyOf'[c] \in Backup => checked'[c].id \in backups'
  BY <1>1 DEF Checked
<1> QED BY <1>3, <1>5, <1>6 DEF Checked

(* Nothing is written at first. *)
LEMMA CheckedStarts == Init => CheckedInv
BY DEF Init, CheckedInv

(* The read of the stored state is the check. *)
LEMMA CheckedNext == TypeOK /\ LockInv /\ TurnInv /\ CheckedInv /\ [Next]_vars => CheckedInv'
<1> SUFFICES ASSUME TypeOK, LockInv, TurnInv, CheckedInv, [Next]_vars,
                    NEW c \in Command, pc'[c] = "store"
             PROVE  Checked(c)'
  BY DEF CheckedInv
<1>1. pc \in [Command -> {"working"} \cup Writing]
  BY DEF TypeOK
<1>2. CASE ~Own(c)
  <2>1. pc[c] = "store"
    BY <1>2, Beside
  <2> QED BY <1>2, <2>1, CheckedBeside DEF CheckedInv
<1>3. CASE Own(c)
  <2>1. ~Leave(c) /\ ~Handle(c) /\ ~Done(c) /\ ~Fail(c)
    BY <1>1 DEF Leave, Handle, Done, Fail, Respond, Goto
  <2>2. ~Kill(c) /\ ~StoreBody(c)
    BY <2>1 DEF Kill, StoreBody
  <2>3. ~Request(c)
    BY <2>1 DEF Request, LockState, Read, UnlockState, Write, Retry
  <2>4. ReadStored(c)
    BY <1>3, <2>2, <2>3 DEF Own, Proxying
  <2>5. /\ ~Refuses(c) /\ backups' = backups \cup Saved(c)
        /\ checked' = [checked EXCEPT ![c] = stored]
        /\ UNCHANGED <<body, stored, proxyOf, mode>>
    BY <2>1, <2>4 DEF ReadStored, options
  <2>6. checked'[c] = stored'
    BY <2>5 DEF TypeOK
  <2>7. body[c] # None /\ ~Forces(c) => Follows(body[c], stored)
    BY <2>5 DEF Refuses
  <2>8. (Forces(c)' <=> Forces(c)) /\ (Follows(body[c], stored) => Follows(body[c], checked[c])')
    BY <2>5, <2>6 DEF Forces, Follows
  <2>9. checked'[c] # None /\ proxyOf'[c] \in Backup => checked'[c].id \in backups'
    BY <2>5, <2>6 DEF Saved
  <2> QED BY <2>5, <2>6, <2>7, <2>8, <2>9 DEF Checked
<1> QED BY <1>2, <1>3

-----------------------------------------------------------------------------
(* What a command knows.                                                   *)

(* A command with a lock has read or sent what it stores, and what is stored. *)
Knows(c) ==
  /\ lockId[c] = 0 => seen[c] = {}
  /\ lockId[c] # 0 /\ (pc[c] \in Writing \/ c \in failed) => IdOf(body[c]) \in seen[c]
  /\ Locked(c) /\ seen[c] # {} => IdOf(stored) \in seen[c]

KnowInv == \A c \in Command : Knows(c)

(* Nothing is known at first. *)
LEMMA KnowStarts == Init => KnowInv
BY DEF Init, KnowInv, Knows, Locked

(* What others do leaves what is known, and does not touch what a command has locked. *)
LEMMA KnowsBeside ==
  ASSUME TypeOK, LockInv, TurnInv, [Next]_vars, NEW c \in Command, ~Own(c), Knows(c)
  PROVE  Knows(c)'
<1>1. /\ body'[c] = body[c] /\ lockId'[c] = lockId[c] /\ pc'[c] = pc[c] /\ seen'[c] = seen[c]
      /\ c \in failed' <=> c \in failed
      /\ c \in opened => c \in opened'
      /\ stored' = stored \/ ~Locked(c)
  BY Beside
<1>2. Locked(c)' => Locked(c) /\ stored' = stored
  BY <1>1 DEF Locked
<1>3. IdOf(body[c])' = IdOf(body[c]) /\ (stored' = stored => IdOf(stored)' = IdOf(stored))
  BY <1>1 DEF IdOf
<1>4. lockId'[c] = 0 => seen'[c] = {}
  BY <1>1 DEF Knows
<1>5. lockId'[c] # 0 /\ (pc'[c] \in Writing \/ c \in failed') => IdOf(body[c])' \in seen'[c]
  BY <1>1, <1>3 DEF Knows
<1>6. Locked(c)' /\ seen'[c] # {} => IdOf(stored)' \in seen'[c]
  BY <1>1, <1>2, <1>3 DEF Knows
<1> QED BY <1>4, <1>5, <1>6 DEF Knows

(* A command learns what it reads and what it sends. *)
LEMMA KnowsOwn ==
  ASSUME TypeOK, LockInv, TurnInv, NEW c \in Command, Own(c), Knows(c)
  PROVE  Knows(c)'
<1>1. /\ body \in [Command -> State \cup {None}] /\ lockId \in [Command -> 0..MaxLocks]
      /\ pc \in [Command -> {"working"} \cup Writing] /\ seen \in [Command -> SUBSET (0..MaxWrites)]
  BY DEF TypeOK
<1>2. ASSUME Leave(c) PROVE Knows(c)'
  <2>1. lockId'[c] = 0 /\ seen'[c] = {}
    BY <1>1, <1>2 DEF Leave
  <2> QED BY <2>1 DEF Knows
<1>3. CASE LockState(c)
  <2>1. CASE lockId' = [lockId EXCEPT ![c] = locks + 1] /\ UNCHANGED <<pc, body, checked, failed, opened, seen>>
    <3>1. seen'[c] = {} /\ pc'[c] \notin Writing /\ c \notin failed'
      BY <1>3, <2>1 DEF LockState, Knows, Writing
    <3>2. lockId'[c] # 0 /\ (pc'[c] \in Writing \/ c \in failed') => IdOf(body[c])' \in seen'[c]
      BY <3>1
    <3> QED BY <3>1, <3>2 DEF Knows
  <2> QED BY <1>2, <1>3, <2>1 DEF LockState
<1>4. CASE UnlockState(c)
  BY <1>2, <1>4 DEF UnlockState
<1>5. CASE Kill(c)
  BY <1>2, <1>5 DEF Kill
<1>6. CASE Read(c)
  <2>1. seen'[c] = seen[c] \cup {IdOf(stored)} /\ lockId[c] # 0
        /\ UNCHANGED <<pc, body, failed, lockId, stored>>
    BY <1>1, <1>6 DEF Read, Know
  <2>2. IdOf(body[c])' = IdOf(body[c]) /\ IdOf(stored)' = IdOf(stored)
    BY <2>1 DEF IdOf
  <2>3. lockId'[c] # 0 /\ (pc'[c] \in Writing \/ c \in failed') => IdOf(body[c])' \in seen'[c]
    BY <2>1, <2>2 DEF Knows
  <2> QED BY <2>1, <2>2, <2>3 DEF Knows
<1>7. CASE Write(c)
  <2>1. UNCHANGED <<lockId, opened, stored>> /\ (lockId[c] # 0 => seen[c] # {})
    BY <1>7 DEF Write
  <2>2. PICK s \in State \cup {None} : body' = [body EXCEPT ![c] = s] /\ Know(c, IdOf(s))
    <3>1. CASE \E v \in Version : /\ body' = [body EXCEPT ![c] = [version |-> v, id |-> writes + 1]]
                                  /\ writes < MaxWrites /\ Know(c, writes + 1)
      <4>1. PICK v \in Version : /\ body' = [body EXCEPT ![c] = [version |-> v, id |-> writes + 1]]
                                 /\ writes < MaxWrites /\ Know(c, writes + 1)
        BY <3>1
      <4>2. writes + 1 \in 1..MaxWrites
        <5>1. writes \in Nat /\ MaxWrites \in Nat /\ writes < MaxWrites
          BY <4>1, BoundsAssumption DEF TypeOK
        <5> QED BY <5>1
      <4>3. [version |-> v, id |-> writes + 1] \in State
        BY <4>2 DEF State
      <4>4. IdOf([version |-> v, id |-> writes + 1]) = writes + 1
        BY <4>3, NoStateAssumption DEF IdOf
      <4> QED BY <4>1, <4>3, <4>4
    <3>2. CASE body' = [body EXCEPT ![c] = None] /\ Know(c, 0)
      BY <3>2 DEF IdOf
    <3> QED BY <1>7, <3>1, <3>2 DEF Write
  <2>3. body'[c] = s /\ (IF lockId[c] = 0 THEN seen'[c] = seen[c] ELSE seen'[c] = seen[c] \cup {IdOf(s)})
    BY <1>1, <2>2 DEF Know
  <2>4. IdOf(body[c])' = IdOf(s) /\ IdOf(stored)' = IdOf(stored)
    BY <2>1, <2>3 DEF IdOf
  <2>5. lockId'[c] = 0 => seen'[c] = {}
    BY <2>1, <2>3 DEF Knows
  <2>6. lockId'[c] # 0 => IdOf(body[c])' \in seen'[c]
    BY <2>1, <2>3, <2>4
  <2>7. Locked(c)' => Locked(c) /\ lockId[c] # 0
    BY <2>1 DEF Locked
  <2>8. Locked(c)' /\ seen'[c] # {} => IdOf(stored)' \in seen'[c]
    BY <2>1, <2>3, <2>4, <2>7 DEF Knows
  <2> QED BY <2>5, <2>6, <2>8 DEF Knows
<1>8. CASE Retry(c)
  <2>1. UNCHANGED <<body, lockId, opened, seen, stored>> /\ c \in failed
    BY <1>8 DEF Retry
  <2>2. IdOf(body[c])' = IdOf(body[c]) /\ IdOf(stored)' = IdOf(stored) /\ (Locked(c)' <=> Locked(c))
    BY <2>1 DEF IdOf, Locked
  <2>3. lockId'[c] # 0 => IdOf(body[c])' \in seen'[c]
    BY <2>1, <2>2 DEF Knows
  <2> QED BY <2>1, <2>2, <2>3 DEF Knows
<1>9. CASE Proxying(c)
  <2>1. /\ UNCHANGED <<lockId, opened, seen>> /\ pc[c] \in Writing
        /\ stored' = stored \/ stored' = body[c]
    BY <1>9 DEF Proxying, ReadStored, StoreBody, Writing
  <2>2. c \notin failed
    BY <2>1 DEF TurnInv
  <2>3. body'[c] = body[c] \/ (pc'[c] = "working" /\ c \notin failed')
    BY <1>1, <1>9, <2>2 DEF Proxying, ReadStored, StoreBody, Done, Fail, Respond, Goto
  <2>4. /\ body'[c] = body[c] => IdOf(body[c])' = IdOf(body[c])
        /\ stored' = stored => IdOf(stored)' = IdOf(stored)
        /\ stored' = body[c] => IdOf(stored)' = IdOf(body[c])
        /\ Locked(c)' <=> Locked(c)
    BY <2>1 DEF IdOf, Locked
  <2>5. lockId[c] # 0 => IdOf(body[c]) \in seen[c]
    BY <2>1 DEF Knows
  <2>6. lockId'[c] # 0 /\ (pc'[c] \in Writing \/ c \in failed') => IdOf(body[c])' \in seen'[c]
    BY <2>1, <2>3, <2>4, <2>5 DEF Writing
  <2>7. Locked(c)' /\ seen'[c] # {} => IdOf(stored)' \in seen'[c]
    <3>1. Locked(c) => lockId[c] # 0
      BY DEF Locked
    <3> QED BY <2>1, <2>4, <2>5, <3>1 DEF Knows
  <2> QED BY <2>1, <2>6, <2>7 DEF Knows
<1> QED BY <1>3, <1>4, <1>5, <1>6, <1>7, <1>8, <1>9 DEF Own, Request

(* Every step keeps what is known. *)
LEMMA KnowNext == TypeOK /\ LockInv /\ TurnInv /\ KnowInv /\ [Next]_vars => KnowInv'
BY KnowsBeside, KnowsOwn DEF KnowInv

-----------------------------------------------------------------------------
(* Which run has a lock.                                                   *)

(* A lock is of a run there was; the latest one has none before it is at work. *)
Since(l) ==
  l.run # 0 => /\ l.run <= runs
               /\ run \in {"approval", "pending"} => l.run < runs

(* A command's lock is of no run, a lock that is shown is the one it was, and what      *)
(* force-unlock may release without --force is of no run that is under way.              *)
RunInv ==
  /\ lock # None => Since(lock) /\ \A c \in Command : lockId[c] = lock.id => lock.run = 0
  /\ shown # None => Since(shown)
  /\ shown # None /\ lock # None /\ shown.id = lock.id => shown = lock
  /\ unlocker # "idle" => shown # None
  /\ unlocker = "asking" /\ ~forced /\ shown.run # 0 => shown.run < runs \/ run = "none"

(* There is no lock at first. *)
LEMMA RunStarts == Init => RunInv
BY DEF Init, RunInv

(* A new lock is none that was shown before. *)
LEMMA TakenKeeps ==
  ASSUME TypeOK, LockInv, RunInv, NEW r \in 0..MaxRuns, TakeLock(r), Since(lock)', UNCHANGED shown,
         shown # None => Since(shown)',
         \A c \in Command : lockId'[c] = locks + 1 => r = 0,
         UNCHANGED <<unlocker, forced>>,
         unlocker = "asking" /\ ~forced /\ shown.run # 0 => shown.run < runs' \/ run' = "none"
  PROVE  RunInv'
<1>1. lock' \in Lock /\ lock'.id = locks + 1 /\ lock'.run = r
  BY LockTypes
<1>2. shown # None => shown.id <= locks /\ shown.id \in Nat
  BY Numbers DEF LockInv
<1>3. shown # None => shown.id # lock'.id
  BY <1>1, <1>2, Numbers
<1>4. \A c \in Command : lockId'[c] = lock'.id => lock'.run = 0
  BY <1>1
<1> QED BY <1>3, <1>4 DEF RunInv

(* A step that takes no lock, and changes neither the run nor what force-unlock does. *)
LEMMA RunSame ==
  ASSUME RunInv, lock' = lock \/ lock' = None, UNCHANGED <<run, runs, shown, unlocker, forced>>,
         lock # None => \A c \in Command : lockId'[c] = lock.id => lock.run = 0
  PROVE  RunInv'
<1>1. (lock' # None => Since(lock)') /\ (shown' # None => Since(shown)')
  <2>1. lock' # None => lock' = lock
    OBVIOUS
  <2>2. (lock # None => Since(lock)) /\ (shown # None => Since(shown))
    BY DEF RunInv
  <2>3. lock' # None => Since(lock)'
    BY <2>1, <2>2 DEF Since
  <2>4. shown' # None => Since(shown)'
    BY <2>2 DEF Since
  <2> QED BY <2>3, <2>4
<1>2. lock' # None => \A c \in Command : lockId'[c] = lock'.id => lock'.run = 0
  OBVIOUS
<1> QED BY <1>1, <1>2 DEF RunInv

(* What a command and its proxy do takes no lock from a run. *)
LEMMA RunOwn ==
  ASSUME TypeOK, LockInv, RunInv, NEW c \in Command, Own(c)
  PROVE  RunInv'
<1>1. /\ UNCHANGED <<run, runs, shown, unlocker, forced>>
      /\ lockId \in [Command -> 0..MaxLocks] /\ 0 \in 0..MaxRuns
  BY BoundsAssumption DEF Own, Request, LockState, Read, UnlockState, Write, Retry, Proxying, ReadStored, StoreBody,
                          Kill, runVars, unlockVars, TypeOK
<1>2. lock # None => lock.id # 0 /\ \A d \in Command : lockId[d] = lock.id => lock.run = 0
  BY Numbers DEF RunInv
<1>3. CASE LockState(c)
  <2>1. TakeLock(0)
    BY <1>3 DEF LockState
  <2>2. Since(lock)'
    BY <1>1, <2>1, LockTypes DEF Since
  <2>3. shown # None => Since(shown)'
    BY <1>1 DEF Since, RunInv
  <2>4. unlocker = "asking" /\ ~forced /\ shown.run # 0 => shown.run < runs' \/ run' = "none"
    BY <1>1 DEF RunInv
  <2> QED BY <1>1, <2>1, <2>2, <2>3, <2>4, TakenKeeps
<1>4. CASE ~LockState(c)
  <2>1. lock' = lock \/ lock' = None
    BY <1>4 DEF Own, Request, Read, UnlockState, Write, Retry, Proxying, ReadStored, StoreBody, Kill, WithoutLock
  <2>2. lockId' = lockId \/ lockId' = [lockId EXCEPT ![c] = 0]
    BY <1>4 DEF Own, Request, Read, UnlockState, Write, Retry, Proxying, ReadStored, StoreBody, Kill, Leave
  <2>3. lock # None => \A d \in Command : lockId'[d] = lock.id => lock.run = 0
    BY <1>1, <1>2, <2>2
  <2> QED BY <1>1, <2>1, <2>3, RunSame
<1> QED BY <1>3, <1>4

(* A run takes its lock when it goes to work. *)
LEMMA RunActs ==
  ASSUME TypeOK, LockInv, RunInv, RunnerActs
  PROVE  RunInv'
<1>1. /\ UNCHANGED <<lockId, shown, unlocker, forced>> /\ runs \in Nat /\ runs \in 0..MaxRuns
      /\ lock # None => lock.run \in Nat
      /\ shown # None => shown.run \in Nat
  BY Numbers DEF RunnerActs, CreateRun, ApproveRun, RunLock, RunWrite, RunUnlock, FailRun, commandVars, unlockVars,
                 TypeOK
<1>2. /\ lock # None => Since(lock)
      /\ lock # None => \A c \in Command : lockId[c] = lock.id => lock.run = 0
      /\ shown # None => Since(shown)
      /\ unlocker # "idle" => shown # None
  BY DEF RunInv
<1>3. CASE CreateRun
  <2>1. runs' = runs + 1 /\ lock' = lock
    BY <1>3 DEF CreateRun
  <2>2. /\ lock # None /\ lock.run # 0 => lock.run < runs'
        /\ shown # None /\ shown.run # 0 => shown.run < runs'
    BY <1>1, <1>2, <2>1 DEF Since
  <2>3. runs' \in Nat
    BY <1>1, <2>1
  <2>4. (lock' # None => Since(lock)') /\ (shown' # None => Since(shown)')
    BY <1>1, <2>1, <2>2, <2>3 DEF Since
  <2>5. unlocker' = "asking" /\ ~forced' /\ shown'.run # 0 => shown'.run < runs'
    BY <1>1, <1>2, <2>2
  <2> QED BY <1>1, <2>1, <2>4, <2>5 DEF RunInv
<1>4. CASE ApproveRun \/ RunWrite \/ FailRun \/ RunUnlock
  <2>1. /\ runs' = runs /\ lock' \in {lock, WithoutLock(runLock)}
        /\ run' \in {"approval", "pending"} => run \in {"approval", "pending"}
        /\ run # "none"
    BY <1>4 DEF ApproveRun, RunWrite, FailRun, RunUnlock, RunStep
  <2>2. lock' = lock \/ lock' = None
    BY <2>1 DEF WithoutLock
  <2>3. (lock' # None => Since(lock)') /\ (shown' # None => Since(shown)')
    <3>1. lock' # None => Since(lock)'
      BY <1>2, <2>1, <2>2 DEF Since
    <3>2. shown' # None => Since(shown)'
      BY <1>1, <1>2, <2>1 DEF Since
    <3> QED BY <3>1, <3>2
  <2>4. unlocker' = "asking" /\ ~forced' /\ shown'.run # 0 => shown'.run < runs'
    BY <1>1, <2>1 DEF RunInv
  <2> QED BY <1>1, <2>2, <2>3, <2>4 DEF RunInv
<1>5. CASE RunLock
  <2>1. TakeLock(runs) /\ runs' = runs /\ run = "pending" /\ run' = "locked"
    BY <1>5 DEF RunLock, RunStep
  <2>2. lock' \in Lock /\ lock'.run = runs
    BY <1>1, <2>1, LockTypes
  <2>3. Since(lock)'
    BY <1>1, <2>1, <2>2 DEF Since
  <2>4. shown # None => Since(shown)'
    BY <1>1, <1>2, <2>1 DEF Since
  <2>5. \A c \in Command : lockId'[c] # locks + 1
    BY <1>1, Numbers DEF LockInv
  <2>6. unlocker = "asking" /\ ~forced /\ shown.run # 0 => shown.run < runs'
    BY <2>1 DEF RunInv
  <2> QED BY <1>1, <2>1, <2>3, <2>4, <2>5, <2>6, TakenKeeps
<1> QED BY <1>3, <1>4, <1>5 DEF RunnerActs

(* force-unlock shows the lock there is and checks the run of the one that it showed. *)
LEMMA RunUnlocks ==
  ASSUME TypeOK, LockInv, RunInv, Unlocks
  PROVE  RunInv'
<1>1. /\ UNCHANGED <<lockId, run, runs>>
      /\ \A l : Since(l)' <=> Since(l)
  BY DEF Unlocks, ShowLock, CheckHolder, Release, commandVars, runVars, Since
<1>2. (lock # None => Since(lock)) /\ (shown # None => Since(shown))
  BY DEF RunInv
<1>3. CASE ShowLock
  <2>1. lock' = lock /\ shown' = lock /\ lock # None /\ (unlocker' = "asking" => forced')
    BY <1>3 DEF ShowLock
  <2>2. Since(lock)' /\ Since(shown)'
    BY <1>1, <1>2, <2>1 DEF Since
  <2> QED BY <1>1, <2>1, <2>2 DEF RunInv
<1>4. CASE CheckHolder
  <2>1. lock' = lock
    BY <1>4 DEF CheckHolder
  <2>2. CASE Forget
    <3>1. shown' = None /\ unlocker' = "idle"
      BY <2>2 DEF Forget
    <3>2. lock' # None => Since(lock)'
      BY <1>1, <1>2, <2>1 DEF Since
    <3> QED BY <1>1, <2>1, <3>1, <3>2 DEF RunInv
  <2>3. CASE ~Unfinished(shown.run) /\ unlocker' = "asking" /\ UNCHANGED <<shown, forced, unlocks>>
    <3>1. shown # None
      BY <1>4 DEF CheckHolder, RunInv
    <3>2. shown.run # 0 => shown.run < runs \/ run = "none"
      <4> SUFFICES ASSUME shown.run # 0, run # "none" PROVE shown.run < runs
        OBVIOUS
      <4>1. shown.run <= runs /\ (run \in {"approval", "pending"} => shown.run < runs)
        BY <1>2, <3>1 DEF Since
      <4>2. shown.run \in Nat /\ runs \in Nat
        BY <3>1, Numbers
      <4> QED BY <2>3, <4>1, <4>2 DEF Unfinished
    <3>3. (lock' # None => Since(lock)') /\ (shown' # None => Since(shown)')
      BY <1>1, <1>2, <2>1, <2>3 DEF Since
    <3> QED BY <1>1, <2>1, <2>3, <3>1, <3>2, <3>3 DEF RunInv
  <2> QED BY <1>4, <2>2, <2>3 DEF CheckHolder
<1>5. CASE Release
  <2>1. /\ lock' = lock \/ lock' = None
        /\ shown' = None /\ unlocker' = "idle"
    BY <1>5 DEF Release, WithoutLock, Forget
  <2>2. lock' # None => Since(lock)'
    BY <1>1, <1>2, <2>1 DEF Since
  <2> QED BY <1>1, <2>1, <2>2 DEF RunInv
<1> QED BY <1>3, <1>4, <1>5 DEF Unlocks

(* Every step keeps which run has a lock. *)
LEMMA RunNext == TypeOK /\ LockInv /\ RunInv /\ [Next]_vars => RunInv'
<1> SUFFICES ASSUME TypeOK, LockInv, RunInv, [Next]_vars PROVE RunInv'
  OBVIOUS
<1>1. CASE UNCHANGED vars
  BY <1>1 DEF RunInv, Since, vars, commandVars, runVars, unlockVars
<1> QED BY <1>1, Steps, RunOwn, RunActs, RunUnlocks DEF Own

-----------------------------------------------------------------------------
(* The theorems.                                                           *)

StateInv == TypeOK /\ LockInv /\ TurnInv /\ CheckedInv /\ KnowInv /\ RunInv

(* The inductive invariant holds of every behaviour. *)
LEMMA StateInvariant == Spec => []StateInv
<1>1. Init => StateInv
  BY TypeInit, LockStarts, TurnStarts, CheckedStarts, KnowStarts, RunStarts DEF StateInv
<1>2. StateInv /\ [Next]_vars => StateInv'
  BY TypeNext, LockNext, TurnNext, CheckedNext, KnowNext, RunNext DEF StateInv
<1> QED BY <1>1, <1>2, PTL DEF Spec

(* Without --force, no write goes back to an older serial or to a state of another       *)
(* lineage, but for a command without a lock over whose check another process or the      *)
(* runner wrote.                                                                           *)
THEOREM NoWriteGoesBack == Spec => WritesFollow
<1>1. StateInv /\ [Next]_vars =>
        [\A c \in Command : (Replaces(c) /\ body[c] # None /\ ~Forces(c)) =>
           Follows(body[c], stored) \/ Overtaken(c)]_vars
  BY DEF StateInv, CheckedInv, Checked, Replaces
<1> QED BY <1>1, StateInvariant, PTL DEF Spec, WritesFollow

(* With --backup-dir, whatever a write replaces or deletes was backed up, but for what     *)
(* another process or the runner wrote after the check of a command without a lock.         *)
THEOREM BackedUpBefore == Spec => ReplacedIsBackedUp
<1>1. StateInv /\ [Next]_vars =>
        [\A c \in Command : (Replaces(c) /\ stored # None /\ proxyOf[c] \in Backup) =>
           stored.id \in backups \/ Overtaken(c)]_vars
  BY DEF StateInv, CheckedInv, Checked, Replaces
<1> QED BY <1>1, StateInvariant, PTL DEF Spec, ReplacedIsBackedUp

(* A command that locks the state never overwrites a write that it has not read. *)
THEOREM LockHolderKnows == Spec => LockedWritesKnow
<1>1. StateInv /\ [Next]_vars =>
        [\A c \in Command : (Replaces(c) /\ Locked(c)) => IdOf(stored) \in seen[c]]_vars
  <2> SUFFICES ASSUME StateInv, NEW c \in Command, Replaces(c), Locked(c) PROVE IdOf(stored) \in seen[c]
    OBVIOUS
  <2>1. lockId[c] # 0 /\ pc[c] \in Writing
    BY DEF Locked, Replaces, Writing
  <2>2. Knows(c)
    BY DEF StateInv, KnowInv
  <2>3. IdOf(body[c]) \in seen[c]
    BY <2>1, <2>2 DEF Knows
  <2> QED BY <2>2, <2>3 DEF Knows
<1> QED BY <1>1, StateInvariant, PTL DEF Spec, LockedWritesKnow

(* force-unlock without --force never takes the lock of a run that is under way. *)
THEOREM UnderWayKeepsLock == Spec => RunKeepsLock
<1>1. StateInv /\ [Next]_vars =>
        [(lock # None /\ Unfinished(lock.run) /\ lock' # lock) => forced \/ run' # run]_vars
  <2> SUFFICES ASSUME StateInv, Next, lock # None, Unfinished(lock.run), lock' # lock
               PROVE  forced \/ run' # run
    BY DEF vars
  <2>1. TypeOK /\ LockInv /\ RunInv
    BY DEF StateInv
  <2>2. lock.run # 0 /\ lock.run = runs /\ run # "none" /\ runs \in Nat
    BY <2>1, Numbers DEF Unfinished
  <2>3. ASSUME NEW c \in Command, Own(c) PROVE FALSE
    <3>1. lockId[c] # lock.id
      BY <2>1, <2>2 DEF RunInv
    <3>2. lock' = lock
      BY <2>3, <3>1 DEF Own, Request, LockState, TakeLock, Read, UnlockState, Write, Retry, Proxying, ReadStored,
                        StoreBody, Kill, WithoutLock
    <3> QED BY <3>2
  <2>4. CASE RunnerActs
    <3>1. CASE RunUnlock
      BY <3>1 DEF RunUnlock, RunStep
    <3>2. CASE ~RunUnlock
      BY <2>4, <3>2 DEF RunnerActs, CreateRun, ApproveRun, RunLock, RunWrite, FailRun, TakeLock
    <3> QED BY <3>1, <3>2
  <2>5. CASE Unlocks
    <3>1. Release /\ unlocker = "asking" /\ lock' = WithoutLock(shown.id)
      BY <2>5 DEF Unlocks, ShowLock, CheckHolder, Release
    <3>2. shown.id = lock.id /\ shown # None
      BY <2>1, <3>1 DEF WithoutLock, RunInv
    <3>3. shown = lock
      BY <2>1, <3>2 DEF RunInv
    <3>4. ~forced => lock.run < runs \/ run = "none"
      BY <2>1, <2>2, <3>1, <3>3 DEF RunInv
    <3> QED BY <2>2, <3>4
  <2> QED BY <2>3, <2>4, <2>5, Steps DEF Own, vars
<1> QED BY <1>1, StateInvariant, PTL DEF Spec, RunKeepsLock
=============================================================================
