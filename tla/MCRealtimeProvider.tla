------------------------- MODULE MCRealtimeProvider -------------------------
EXTENDS RealtimeProvider, TLC

Symmetry == Permutations(Users) \cup Permutations(Tables)
                \cup Permutations(Calls)

=============================================================================
