--------------------------- MODULE SessionContract ---------------------------
(***************************************************************************)
(* What the backend promises of a user's session, whatever the requests,   *)
(* races and failures behind it: a session is opened by a sign-in (or by a *)
(* signed refresh token while the database cannot be asked), and only an   *)
(* open one can be renewed by the hash kept in users.refresh_token.        *)
(*                                                                         *)
(* TokenService implements it; ClientSession uses it as its server.        *)
(***************************************************************************)
CONSTANT Users

VARIABLES
    session,    \* session[u]: "never", "open" or "closed"
    renewable   \* the users whose stored hash still renews their tokens

vars == <<session, renewable>>

TypeOK == /\ session \in [Users -> {"never", "open", "closed"}]
          /\ renewable \subseteq Users

Init == /\ session = [u \in Users |-> "never"]
        /\ renewable = {}

\* The hash may or may not be stored with it: a failed update is ignored.
Open(u) ==
    /\ session' = [session EXCEPT ![u] = "open"]
    /\ renewable' \in {renewable, renewable \cup {u}}

\* A hash is stored, by the end of a sign-in or by a refresh.
Renew(u) ==
    /\ session[u] = "open"
    /\ renewable' = renewable \cup {u}
    /\ UNCHANGED session

\* The hash goes: a logout that a refresh overtook, or the row was deleted.
Forget(u) ==
    /\ renewable' = renewable \ {u}
    /\ UNCHANGED session

\* A logout that no request past its check can undo.
Close(u) ==
    /\ session[u] # "never"
    /\ session' = [session EXCEPT ![u] = "closed"]
    /\ renewable' = renewable \ {u}

Next == \E u \in Users : Open(u) \/ Renew(u) \/ Forget(u) \/ Close(u)

Spec == Init /\ [][Next]_vars

\* Only an open session can be renewed: never one that was closed, or one that
\* nobody signed in to (TokenService.refreshToken, AuthenticationService.logout).
OnlyOpenRenews == \A u \in renewable : session[u] = "open"

==============================================================================
