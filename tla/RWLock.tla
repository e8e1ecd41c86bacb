------------------------------- MODULE RWLock -------------------------------
(***************************************************************************)
(* What lock.Locker promises to the code that uses it: a readers-writer    *)
(* lock.  A caller holds it for reading or for writing, and a caller is    *)
(* only ever kept apart from its rivals.  Rivals is every pair of callers  *)
(* where the lock file can be used, and the pairs of one process where the *)
(* lock falls back to the in-memory mutex alone.                           *)
(***************************************************************************)
CONSTANTS Caller,   \* everyone who calls WithLock, WithRLock or Lock
          Rivals    \* the pairs of callers the lock keeps apart

VARIABLE holding    \* how each caller holds the lock

Modes == {"read", "write"}

(* Two holds are compatible where both only read. *)
Compatible(c, m) ==
  \A d \in Caller \ {c} :
     <<c, d>> \in Rivals => \/ holding[d] = "none"
                            \/ m = "read" /\ holding[d] = "read"

Init == holding = [c \in Caller |-> "none"]

Acquire(c, m) ==
  /\ holding[c] = "none"
  /\ Compatible(c, m)
  /\ holding' = [holding EXCEPT ![c] = m]

Release(c) ==
  /\ holding[c] # "none"
  /\ holding' = [holding EXCEPT ![c] = "none"]

(* A process that dies drops whatever its callers hold. *)
Drop(S) == holding' = [c \in Caller |-> IF c \in S THEN "none" ELSE holding[c]]

Next ==
  \/ \E c \in Caller, m \in Modes : Acquire(c, m)
  \/ \E c \in Caller : Release(c)
  \/ \E S \in SUBSET Caller : Drop(S)

Spec == Init /\ [][Next]_holding
=============================================================================
