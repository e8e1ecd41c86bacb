---------------------------- MODULE MCTokenCache ----------------------------
(* Small instances of TokenCache: two goroutines of one process beside one of *)
(* another, or two processes with one goroutine each.  The goroutines of one  *)
(* process are interchangeable.                                               *)
EXTENDS TokenCache, TLC

CONSTANTS p1, p2, c1, c2, c3, none, own, foreign

MCProcess == {p1, p2}
ThreeCallers == {c1, c2, c3}
TwoCallers == {c1, c3}
ThreeProcessOf == [c \in ThreeCallers |-> IF c = c3 THEN p2 ELSE p1]
TwoProcessOf == [c \in TwoCallers |-> IF c = c3 THEN p2 ELSE p1]
Goroutines == Permutations({c1, c2})

MCWorkspace == {none, own, foreign}
ScopedWorkspace == {none, own}
MCGranted == {own}
=============================================================================
