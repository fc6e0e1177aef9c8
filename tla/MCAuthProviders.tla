--------------------------- MODULE MCAuthProviders ---------------------------
(* Instances of AuthProviders for TLC.                                       *)
EXTENDS AuthProviders, TLC

Symmetry == Permutations(Emails) \cup Permutations(Ids) \cup Permutations(Calls)

\* What is left out is read by no action and no property: of a call that has its
\* AuthUser, all but whom its tokens will name and whether that is the owner.
Owned(q) == q.account # None => q.user.email = q.email \/ Renamed(q.user.id)
Seen(q) ==
    CASE q.pc = "tokens"  -> <<"tokens", q.user, Owned(q)>>
      [] q.pc = "handler" -> <<"handler", q.user # None, Owned(q)>>
      [] OTHER            -> q
View == <<provider, data, [c \in Calls |-> Seen(call[c])]>>

==============================================================================
