------------------------------ MODULE MCCuration ------------------------------
(* Instances of Curation for TLC.                                            *)
EXTENDS Curation, TLC

SeparateMixes == {{"merge", "unmerge"}, {"delete", "restore", "policy"},
                  {"merge", "unmerge", "import", "alone"}}
OwnerAlone    == {{"merge", "policy", "alone"}}
Symmetry == Permutations(Conversation) \cup Permutations(Request)
              \cup Permutations(GroupKey) \cup Permutations(DeleteKey)
=============================================================================
