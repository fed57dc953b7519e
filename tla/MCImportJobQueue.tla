-------------------------- MODULE MCImportJobQueue --------------------------
(* Instances of ImportJobQueue for TLC. *)
EXTENDS ImportJobQueue, TLC

Symmetry == Permutations(Workers) \cup Permutations(Leases)

(* A bound: a worker is killed in a run or in its recovery only if an        *)
(* earlier one that was killed has left nothing behind.                      *)
KilledApart ==
  \A w \in Workers :
    pc[w] \in Running \cup {"recover", "sweep"} /\ pc'[w] = "down"
      => orphans = {} /\ \A d \in dirs : Supervised(d[2])
=============================================================================
