--------------------------- MODULE MCTokenService ---------------------------
(* Instances of TokenService for TLC.                                       *)
EXTENDS TokenService, TLC

Symmetry == Permutations(Users) \cup Permutations(Requests)

\* What happens at Supabase reads the other variables and none reads it back.
WithoutSupabase == <<row, tokens, req, db, session>>

=============================================================================
