--------------------------- MODULE MCClientSession ---------------------------
(* Instances of ClientSession for TLC.                                       *)
EXTENDS ClientSession, TLC

Symmetry == Permutations(Users) \cup Permutations(Calls)

\* What is left out is read by no action and no property: who and what was typed
\* once the answer is there, all but the validity of a login's form, a header that
\* the server refuses or does not ask for, and whom an answer was about when
\* neither the store nor a complete logout will name them.
Seen(c) ==
    LET q == call[c] IN
    [q EXCEPT !.who = IF Valid(q) THEN @ ELSE None,
              !.typed = IF q.ask = "login" THEN Valid(q) ELSE @,
              !.bearer = IF Live(@) /\ q.ask \in {"logout", "profile", "refresh"}
                           THEN @ ELSE None,
              !.reply = IF q.pc = "leave" \/ (q.op = "logout" /\ c \notin quiet)
                          THEN None ELSE @]
View == <<access, refresh, persisted, user, isLoading, [c \in Calls |-> Seen(c)],
          session, renewable, history>>

==============================================================================
