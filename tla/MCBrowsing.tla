---------------------------- MODULE MCBrowsing ----------------------------
(* Browsing for TLC: five rows in pages of two, two search texts that find   *)
(* overlapping rows, and a timeline window of three messages.                *)
EXTENDS Browsing, TLC

Slots == Permutations(Slot)

MCMatches == ("x" :> {1, 2, 4, 5}) @@ ("y" :> {2, 3})
=============================================================================
