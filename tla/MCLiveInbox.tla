----------------------------- MODULE MCLiveInbox -----------------------------
(* Instances of LiveInbox for TLC. *)
EXTENDS LiveInbox, TLC

Symmetry == Permutations(Workers) \cup Permutations(Claims)
=============================================================================
