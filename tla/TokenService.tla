---------------------------- MODULE TokenService ----------------------------
(***************************************************************************)
(* Sessions of the todo-master backend: TokenService.generateTokens and    *)
(* refreshToken, AuthenticationService.register, login and logout, and the *)
(* part of UnifiedAuthGuard that admits a refresh or a logout.             *)
(*                                                                         *)
(* A request is a record that advances by one action per await of its      *)
(* handler, so requests interleave exactly where Node.js may interleave    *)
(* them.  Only the column users.refresh_token, the Supabase sessions and   *)
(* the session kept by the one shared Supabase client outlive a request.   *)
(*                                                                         *)
(* A token is abstracted to its subject and whether it is still unexpired. *)
(* Access and refresh tokens carry the same claims and are told apart by   *)
(* their `exp' only, so both are members of one set.  `tokens' holds the   *)
(* classes of tokens clients have been given: no counter is needed.        *)
(***************************************************************************)
EXTENDS Naturals, FiniteSets

CONSTANTS
    Users,      \* values of users.id
    Requests,   \* request slots, each reused once its answer was taken
    Faults,     \* the faults this instance may meet, a subset of FaultKinds
    NoHash,     \* users.refresh_token is null
    NoRow,      \* the user has no row yet
    Gone,       \* the row was deleted
    Nobody,     \* no user
    Garbage     \* a string that is not a token of this server

FaultKinds == {"outage", "dbError", "restart", "delete"}

ASSUME ConstantsAssumption ==
    /\ Faults \subseteq FaultKinds
    /\ {NoHash, NoRow, Gone, Nobody} \cap Users = {}
    /\ NoHash \notin {NoRow, Gone}
    /\ NoRow # Gone

VARIABLES
    row,        \* row[u]: NoRow, Gone, NoHash, or the subject of the token hashed
    tokens,     \* the tokens in the hands of clients
    req,        \* the request in each slot
    db,         \* whether the database server can be reached
    clientSession, \* whose session the shared Supabase client holds
    supaOpen,   \* the users with a live session at Supabase
    session     \* history: what sign-ins and logouts say of u's session

vars == <<row, tokens, req, db, clientSession, supaOpen, session>>

Token == [sub : Users, exp : {"ahead", "past"}]

Row == Users \cup {NoHash, NoRow, Gone}
Working == {"create", "signIn", "sync", "find", "compare", "jwt", "store", "reply",
            "clear", "signOut"}
Answers == {"tokens", "ok", "refused", "error", "moved", "lost"}
Request ==
    [op   : {"none", "register", "login", "refresh", "logout"},
     pc   : {"idle"} \cup Working \cup Answers,
     user : Users \cup {Nobody},     \* who the guard or the sign-in names
     tok  : Token \cup {Garbage},    \* the refreshToken of the body
     snap : Users \cup {NoHash},     \* the hash findUnique returned
     sub  : Users \cup {Nobody}]     \* the userId given to generateTokens

Idle == [op |-> "none", pc |-> "idle", user |-> Nobody, tok |-> Garbage,
         snap |-> NoHash, sub |-> Nobody]

TypeOK ==
    /\ row \in [Users -> Row]
    /\ tokens \subseteq Token
    /\ req \in [Requests -> Request]
    /\ db \in {"up", "down"}
    /\ clientSession \in Users \cup {Nobody}
    /\ supaOpen \subseteq Users
    /\ session \in [Users -> {"never", "open", "closed"}]

Init ==
    /\ row = [u \in Users |-> NoRow]
    /\ tokens = {}
    /\ req = [r \in Requests |-> Idle]
    /\ db = "up"
    /\ clientSession = Nobody
    /\ supaOpen = {}
    /\ session = [u \in Users |-> "never"]

-----------------------------------------------------------------------------
(* Helpers *)

\* bcrypt reads 72 bytes of its input.  They end inside the "sub" claim of an
\* HS256 token, so the hash of a token says whose it is and nothing else.
HashOf(t) == t.sub

bcryptCompare(t, h) == t # Garbage /\ HashOf(t) = h

\* jwtService.verify: signature and expiry.
Verifies(t) == t # Garbage /\ t \in tokens /\ t.exp = "ahead"

\* What generateTokens signs for u.
Minted(u) == [sub |-> u, exp |-> "ahead"]

Reachable == db = "up"
HasRow(u) == row[u] \in Users \cup {NoHash}
StatementFails == db = "down" \/ "dbError" \in Faults

Goto(r, label) == req' = [req EXCEPT ![r].pc = label]

\* The handler returns or throws: its locals are gone.
Answer(r, a) == req' = [req EXCEPT ![r] = [Idle EXCEPT !.pc = a]]

\* Requests that passed their check for u and have yet to store u's hash.
Granted(r, u) ==
    \/ req[r].pc = "sync"    /\ req[r].user = u
    \/ req[r].pc = "compare" /\ req[r].user = u
    \/ req[r].pc = "store"   /\ req[r].sub = u

-----------------------------------------------------------------------------
(* Arrival of a request, guard included *)

StartLogin(r, u) ==
    /\ req[r].pc = "idle"
    /\ row[u] # Gone
    /\ req' = [req EXCEPT ![r] =
                 [Idle EXCEPT !.op = "login", !.pc = "signIn", !.user = u]]
    /\ UNCHANGED <<row, tokens, db, clientSession, supaOpen, session>>

\* register looks for the email first, and goes on when it cannot.
StartRegister(r, u) ==
    /\ req[r].pc = "idle"
    /\ row[u] # Gone
    /\ \/ /\ (Reachable /\ ~HasRow(u)) \/ StatementFails
          /\ req' = [req EXCEPT ![r] =
                       [Idle EXCEPT !.op = "register", !.pc = "create", !.user = u]]
       \/ Reachable /\ HasRow(u) /\ Answer(r, "refused")
    /\ UNCHANGED <<row, tokens, db, clientSession, supaOpen, session>>

\* The guard takes the user from the bearer token alone.
Admit(r, op, first, bearer, body) ==
    /\ req[r].pc = "idle"
    /\ req' = [req EXCEPT ![r] =
                 IF Verifies(bearer)
                   THEN [Idle EXCEPT !.op = op, !.pc = first,
                                     !.user = bearer.sub, !.tok = body]
                   ELSE [Idle EXCEPT !.pc = "refused"]]
    /\ UNCHANGED <<row, tokens, db, clientSession, supaOpen, session>>

StartRefresh(r, bearer, body) == Admit(r, "refresh", "find", bearer, body)
StartLogout(r, bearer) == Admit(r, "logout", "clear", bearer, Garbage)

-----------------------------------------------------------------------------
(* register and login *)

\* createUser of the admin client: an account, and no session at Supabase.  It
\* fails for one thing when the address has an account already.
CreateAccount(r) ==
    /\ req[r].pc = "create"
    /\ \/ /\ session' = [session EXCEPT ![req[r].user] = "open"]
          /\ Goto(r, "sync")
       \/ Answer(r, "refused") /\ UNCHANGED session
    /\ UNCHANGED <<row, tokens, db, clientSession, supaOpen>>

\* Mutant: a failed signInWithPassword is not noticed.
SignInErrorIgnored(r) ==
    LET u == req[r].user IN
    /\ req[r].pc = "signIn"
    /\ \/ /\ clientSession' = u
          /\ supaOpen' = supaOpen \cup {u}
          /\ session' = [session EXCEPT ![u] = "open"]
       \/ UNCHANGED <<clientSession, supaOpen, session>>
    /\ Goto(r, "sync")
    /\ UNCHANGED <<row, tokens, db>>

SignIn(r) ==
    LET u == req[r].user IN
    /\ req[r].pc = "signIn"
    /\ \/ /\ clientSession' = u
          /\ supaOpen' = supaOpen \cup {u}
          /\ session' = [session EXCEPT ![u] = "open"]
          /\ Goto(r, "sync")
       \/ /\ Answer(r, "refused")
          /\ UNCHANGED <<clientSession, supaOpen, session>>
    /\ UNCHANGED <<row, tokens, db>>

\* syncSupabaseUser finds the row or creates it.  In login every failure becomes
\* an UnauthorizedException; register goes on with the id of the account.  That
\* id, and the new one a deleted row is created again with, are other users
\* than u: the rest of such a request is not followed, which "moved" records.
Sync(r) ==
    LET u == req[r].user IN
    /\ req[r].pc = "sync"
    /\ \/ /\ Reachable /\ row[u] # Gone
          /\ row' = IF HasRow(u) THEN row ELSE [row EXCEPT ![u] = NoHash]
          /\ req' = [req EXCEPT ![r].sub = u, ![r].pc = "store"]
       \/ /\ Reachable /\ row[u] = Gone
          /\ Answer(r, "moved") \/ Answer(r, "refused")
          /\ UNCHANGED row
       \/ /\ StatementFails
          /\ Answer(r, IF req[r].op = "register" THEN "moved" ELSE "refused")
          /\ UNCHANGED row
    /\ UNCHANGED <<tokens, db, clientSession, supaOpen, session>>

-----------------------------------------------------------------------------
(* TokenService.refreshToken *)

\* Mutant: the hash found is used without asking whether there is one.
FindUserUnchecked(r) ==
    /\ req[r].pc = "find"
    /\ IF Reachable
         THEN req' = [req EXCEPT ![r].snap = row[req[r].user], ![r].pc = "compare"]
         ELSE Goto(r, "jwt")
    /\ UNCHANGED <<row, tokens, db, clientSession, supaOpen, session>>

\* Mutant: the query waits until the database answers.
FindUserWaits(r) ==
    LET u == req[r].user IN
    /\ req[r].pc = "find" /\ Reachable
    /\ IF row[u] \in Users
         THEN req' = [req EXCEPT ![r].snap = row[u], ![r].pc = "compare"]
         ELSE Answer(r, "refused")
    /\ UNCHANGED <<row, tokens, db, clientSession, supaOpen, session>>

\* "Can't reach database server" selects the JWT-only path; any other failure
\* of the query is rethrown.
FindUser(r) ==
    LET u == req[r].user IN
    /\ req[r].pc = "find"
    /\ \/ /\ Reachable /\ row[u] \in Users
          /\ req' = [req EXCEPT ![r].snap = row[u], ![r].pc = "compare"]
       \/ Reachable /\ row[u] \notin Users /\ Answer(r, "refused")
       \/ ~Reachable /\ Goto(r, "jwt")
       \/ "dbError" \in Faults /\ Answer(r, "error")
    /\ UNCHANGED <<row, tokens, db, clientSession, supaOpen, session>>

\* Mutant: the signature is checked instead of the stored hash.
CompareSignature(r) ==
    /\ req[r].pc = "compare"
    /\ IF Verifies(req[r].tok)
         THEN req' = [req EXCEPT ![r].sub = req[r].user, ![r].snap = NoHash,
                                 ![r].pc = "store"]
         ELSE Answer(r, "refused")
    /\ UNCHANGED <<row, tokens, db, clientSession, supaOpen, session>>

Compare(r) ==
    /\ req[r].pc = "compare"
    /\ IF bcryptCompare(req[r].tok, req[r].snap)
         THEN req' = [req EXCEPT ![r].sub = req[r].user, ![r].snap = NoHash,
                                 ![r].pc = "store"]
         ELSE Answer(r, "refused")
    /\ UNCHANGED <<row, tokens, db, clientSession, supaOpen, session>>

JwtVerify(r) ==
    LET t == req[r].tok IN
    /\ req[r].pc = "jwt"
    /\ IF Verifies(t)
         THEN /\ req' = [req EXCEPT ![r].sub = t.sub, ![r].pc = "store"]
              /\ session' = [session EXCEPT ![t.sub] = "open"]
         ELSE Answer(r, "refused") /\ UNCHANGED session
    /\ UNCHANGED <<row, tokens, db, clientSession, supaOpen>>

-----------------------------------------------------------------------------
(* TokenService.generateTokens *)

\* A failed update is logged and ignored.
Store(r) ==
    LET u == req[r].sub
        refreshToken == Minted(u)
    IN
    /\ req[r].pc = "store"
    /\ \/ /\ Reachable /\ HasRow(u)
          /\ row' = [row EXCEPT ![u] = HashOf(refreshToken)]
       \/ (StatementFails \/ ~HasRow(u)) /\ UNCHANGED row
    /\ Goto(r, "reply")
    /\ UNCHANGED <<tokens, db, clientSession, supaOpen, session>>

Reply(r) ==
    /\ req[r].pc = "reply"
    /\ tokens' = tokens \cup {Minted(req[r].sub)}
    /\ Answer(r, "tokens")
    /\ UNCHANGED <<row, db, clientSession, supaOpen, session>>

-----------------------------------------------------------------------------
(* AuthenticationService.logout *)

\* Mutant: a failed update is ignored, as SupabaseAuthProvider.logout does.
ClearHashErrorIgnored(r) ==
    LET u == req[r].user
        quiet == \A q \in Requests : ~Granted(q, u)
    IN
    /\ req[r].pc = "clear"
    /\ \/ Reachable /\ HasRow(u) /\ row' = [row EXCEPT ![u] = NoHash]
       \/ StatementFails /\ UNCHANGED row
    /\ session' = IF quiet THEN [session EXCEPT ![u] = "closed"] ELSE session
    /\ Goto(r, "signOut")
    /\ UNCHANGED <<tokens, db, clientSession, supaOpen>>

\* The session counts as closed when no request is past its check for u.
ClearHash(r) ==
    LET u == req[r].user
        quiet == \A q \in Requests : ~Granted(q, u)
    IN
    /\ req[r].pc = "clear"
    /\ \/ /\ Reachable /\ HasRow(u)
          /\ row' = [row EXCEPT ![u] = NoHash]
          /\ session' = IF quiet THEN [session EXCEPT ![u] = "closed"]
                                 ELSE session
          /\ \/ Goto(r, "signOut")
             \/ "dbError" \in Faults /\ Answer(r, "error")  \* applied, reply lost
       \/ /\ StatementFails \/ ~HasRow(u)
          /\ Answer(r, "error")
          /\ UNCHANGED <<row, session>>
    /\ UNCHANGED <<tokens, db, clientSession, supaOpen>>

\* auth.signOut() ends the session the shared client holds, whoever it is of;
\* its failure is ignored.
SignOut(r) ==
    /\ req[r].pc = "signOut"
    /\ \/ /\ supaOpen' = supaOpen \ {clientSession}
          /\ clientSession' = Nobody
       \/ UNCHANGED <<supaOpen, clientSession>>
    /\ Answer(r, "ok")
    /\ UNCHANGED <<row, tokens, db, session>>

-----------------------------------------------------------------------------
(* The environment *)

Take(r) ==
    /\ req[r].pc \in Answers
    /\ req' = [req EXCEPT ![r] = Idle]
    /\ UNCHANGED <<row, tokens, db, clientSession, supaOpen, session>>

\* Some or all live tokens of a user pass their `exp' (15m or 7d).
Expire(t) ==
    LET dead == [t EXCEPT !.exp = "past"] IN
    /\ t \in tokens /\ t.exp = "ahead"
    /\ \/ tokens' = tokens \cup {dead}
       \/ tokens' = (tokens \ {t}) \cup {dead}
    /\ UNCHANGED <<row, req, db, clientSession, supaOpen, session>>

DbDown ==
    /\ "outage" \in Faults /\ db = "up"
    /\ db' = "down"
    /\ UNCHANGED <<row, tokens, req, clientSession, supaOpen, session>>

DbUp ==
    /\ db = "down"
    /\ db' = "up"
    /\ UNCHANGED <<row, tokens, req, clientSession, supaOpen, session>>

\* The process dies: its requests and the client's session go with it.
Restart ==
    /\ "restart" \in Faults
    /\ \E r \in Requests : req[r].pc \in Working
    /\ req' = [r \in Requests |->
                 IF req[r].pc \in Working THEN [Idle EXCEPT !.pc = "lost"]
                                          ELSE req[r]]
    /\ clientSession' = Nobody
    /\ UNCHANGED <<row, tokens, db, supaOpen, session>>

\* DELETE /users/:id removes the row.
DeleteUser(u) ==
    /\ "delete" \in Faults /\ Reachable /\ HasRow(u)
    /\ row' = [row EXCEPT ![u] = Gone]
    /\ UNCHANGED <<tokens, req, db, clientSession, supaOpen, session>>

-----------------------------------------------------------------------------

Step(r) ==
    \/ CreateAccount(r) \/ SignIn(r) \/ Sync(r)
    \/ FindUser(r) \/ Compare(r) \/ JwtVerify(r)
    \/ Store(r) \/ Reply(r)
    \/ ClearHash(r) \/ SignOut(r)

Next ==
    \/ \E r \in Requests :
         \/ Step(r)
         \/ Take(r)
         \/ \E u \in Users : StartLogin(r, u) \/ StartRegister(r, u)
         \/ \E bearer \in tokens \cup {Garbage} :
              \/ StartLogout(r, bearer)
              \/ \E body \in tokens \cup {Garbage} : StartRefresh(r, bearer, body)
    \/ \E t \in tokens : Expire(t)
    \/ \E u \in Users : DeleteUser(u)
    \/ DbDown \/ DbUp \/ Restart

Spec == Init /\ [][Next]_vars

\* Node.js runs every continuation whose promise has settled, and the calls
\* awaited here settle: with a result, an error or a timeout.
Fairness == \A r \in Requests : WF_vars(Step(r))

LiveSpec == Spec /\ Fairness

-----------------------------------------------------------------------------
(* Properties *)

\* A refresh yields tokens for the subject of the refresh token presented: by
\* comparison with the stored hash, and by its signature in an outage, even
\* when the bearer token that passed the guard is another user's.
RefreshKeepsIdentity ==
    \A r \in Requests :
        req[r].op = "refresh" /\ req[r].pc \in {"store", "reply"} =>
            /\ req[r].tok # Garbage
            /\ req[r].sub = req[r].tok.sub

\* A logout that overtakes no request already past its check closes the
\* session: until the next sign-in, or a refresh granted during an outage, no
\* hash of the user is stored and no request is about to store one.
LogoutCloses ==
    \A u \in Users : session[u] = "closed" =>
        /\ row[u] \notin Users
        /\ \A r \in Requests : ~Granted(r, u)

\* Every token and every stored hash descends from a login or a registration of
\* its user: no chain of refreshes, across users, outages and restarts, starts
\* without one.
SignInFirst ==
    \A u \in Users : session[u] = "never" =>
        /\ row[u] \notin Users
        /\ \A t \in tokens : t.sub # u
        /\ \A r \in Requests : req[r].sub # u

\* Sessions behave as SessionContract says, whatever requests, outages, restarts
\* and removals interleave: only a user with an open session gets a hash stored,
\* and nothing but a sign-in or a signed token opens one (generateTokens,
\* refreshToken, login, logout).
Contract == INSTANCE SessionContract
              WITH renewable <- {u \in Users : row[u] \in Users}

ImplementsContract == Contract!Spec

\* The inductive invariant behind the properties above.  A row holds hashes of
\* its own user's tokens, since generateTokens alone stores one.
HashOwner == \A u \in Users : row[u] \in Users => row[u] = u

\* What a request's locals say at each of its steps.
Locals ==
    \A r \in Requests :
        /\ req[r].pc \in Working => req[r].user \in Users
        /\ req[r].pc = "create" => req[r].op = "register"
        /\ req[r].pc = "signIn" => req[r].op = "login"
        /\ req[r].pc = "sync" => req[r].op \in {"register", "login"}
        /\ req[r].pc \in {"find", "compare", "jwt"} => req[r].op = "refresh"
        /\ req[r].pc = "compare" => req[r].snap = req[r].user
        /\ req[r].pc \in {"store", "reply"} => req[r].sub \in Users

OnlySigningIn ==
    \A u \in Users : session[u] = "never" =>
        \A r \in Requests : req[r].user = u => req[r].pc \in {"create", "signIn"}

IInv == /\ TypeOK /\ Locals /\ HashOwner /\ RefreshKeepsIdentity
        /\ LogoutCloses /\ SignInFirst /\ OnlySigningIn

\* Each request is answered, by an error at worst, or lost in a restart.
EveryRequestAnswered ==
    \A r \in Requests : req[r].pc \in Working ~> req[r].pc \in Answers

\* "After a logout the refresh token must be invalid" (auth.e2e-spec.ts:243):
\* once the hash is cleared, only a sign-in stores a hash again.
OnlySignInReopens ==
    [][\A u \in Users :
          row[u] = NoHash /\ row'[u] \in Users =>
             \E r \in Requests : /\ req[r].op \in {"login", "register"}
                                /\ req[r].pc = "store" /\ req[r].sub = u]_vars

=============================================================================
