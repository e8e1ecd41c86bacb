--------------------------- MODULE MCProfileLogin ---------------------------
(* The profiles of a directory, changed and used by a few processes at once. *)
EXTENDS ProfileLogin, TLC

CONSTANTS p1, p2, n1, n2, full, readOnly

AllKinds == Commands
LoginAndRename == {"login", "rename"}

(* Processes, names and levels are interchangeable. *)
Interchangeable == Permutations({p1, p2}) \cup Permutations({n1, n2}) \cup Permutations({full, readOnly})
=============================================================================
