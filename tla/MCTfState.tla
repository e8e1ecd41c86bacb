----------------------------- MODULE MCTfState -----------------------------
(* Two commands of one process or of two, beside a run and force-unlock.  The *)
(* versions are two of one lineage, and something that is no tofu state.      *)
EXTENDS TfState, TLC

CONSTANTS p1, p2, c1, c2, ours

MCVersion == {[lineage |-> ours, serial |-> 1], [lineage |-> ours, serial |-> 2],
              [lineage |-> NoLineage, serial |-> 2]}

(* Two processes that write, or one that serves both commands or only reads    *)
(* beside the other.  --force only removes checks, so it meets both commands    *)
(* of one process.  A process that serves nothing only reads.                   *)
AnySetup ==
  {s \in [proxyOf : [{c1, c2} -> {p1, p2}], mode : [{p1, p2} -> Modes]] :
     /\ \E p \in {p1, p2} : s.mode[p] # "read"
     /\ \A p \in {p1, p2} : s.mode[p] = "read" \/ \E c \in {c1, c2} : s.proxyOf[c] = p
     /\ \A p \in {p1, p2} : s.mode[p] = "force" => \A c \in {c1, c2} : s.proxyOf[c] = p}

OneCommand == [proxyOf : [{c1} -> {p1}], mode : [{p1} -> {"readwrite"}]]

Interchangeable == Permutations({p1, p2}) \cup Permutations({c1, c2})
=============================================================================
