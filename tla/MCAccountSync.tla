---------------------------- MODULE MCAccountSync ----------------------------
(* Instances of AccountSync for TLC.                                         *)
EXTENDS AccountSync, TLC

Symmetry == Permutations(Emails) \cup Permutations(Ids) \cup
            Permutations(Requests)

=============================================================================
