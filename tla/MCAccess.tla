------------------------------- MODULE MCAccess -------------------------------
(* Instances of Access for TLC.                                              *)
EXTENDS Access, TLC

Symmetry == Permutations(Subject) \cup Permutations(Session)
              \cup Permutations(Challenge) \cup Permutations(Slot)
=============================================================================
