------------------------------ MODULE MCPairing ------------------------------
(* Pairing on a small instance: the requests are interchangeable.           *)
EXTENDS Pairing, TLC

Symmetry == Permutations(Request)
=============================================================================
