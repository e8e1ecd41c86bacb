----------------------------- MODULE MCFileLock -----------------------------
(* Two calls of one process beside one of another process. *)
EXTENDS FileLock

CONSTANTS p1, p2, c1, c2, c3

MCProcess == {p1, p2}
MCCaller == {c1, c2, c3}
MCProcessOf == [c \in MCCaller |-> IF c = c3 THEN p2 ELSE p1]

AnyDirectory == DirectoryStates
WritableDirectory == {"present", "denied"}
=============================================================================
