-------------------------- MODULE MCMaterialization --------------------------
(***************************************************************************)
(* Instances of Materialization for TLC.                                   *)
(***************************************************************************)
EXTENDS Materialization, TLC

(* A backup (1) and a live source (2) that share a message; the live source *)
(* also saw the other one revoked.                                          *)
TwoSources == << <<"body", "body">>, <<"body", "tombstone">> >>

(* A second backup (3), in which one message has no content: with the same   *)
(* decisions, "crash" and "silence" the properties hold of 0.8 million states *)
(* too, which takes longer than a run should.                                *)
ThreeSources == << <<"body", "nothing">>, <<"blank", "tombstone">>, <<"body", "body">> >>

(* Excluding the backup, taking that back, excluding the live source.       *)
Decisions ==
  [ hide |-> [job |-> 1, action |-> "exclude"],
    back |-> [job |-> 1, action |-> "re-enable"],
    drop |-> [job |-> 2, action |-> "exclude"] ]

Symmetry == Permutations(Callers)
=============================================================================
