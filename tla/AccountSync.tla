----------------------------- MODULE AccountSync -----------------------------
(***************************************************************************)
(* Two records of one person: the account at Supabase and the row of the   *)
(* table users.  AuthenticationService.register and login, the Supabase    *)
(* branch of UnifiedAuthGuard, and the creation and removal of users by    *)
(* UsersService all read one and write the other in steps between which    *)
(* other requests run.                                                     *)
(*                                                                         *)
(* Ids are UUIDs.  Supabase and PostgreSQL both draw fresh ones; the client*)
(* of UsersService.create sends any it likes, one of an account or of a row*)
(* that was removed among them.                                            *)
(***************************************************************************)
EXTENDS Naturals, FiniteSets

CONSTANTS
    Emails, Ids, Requests,
    Operations,  \* the operations clients call
    Faults,      \* subset of FaultKinds
    MaxRows,     \* bound: how many rows there may ever be
    None         \* no id, no record

Endpoints == {"register", "login", "guard", "createUser", "removeUser"}
FaultKinds == {"dbError", "accountDeleted"}

ASSUME ConstantsAssumption ==
    /\ Operations \subseteq Endpoints
    /\ Faults \subseteq FaultKinds
    /\ MaxRows \in Nat
    /\ None \notin Ids \cup Emails

VARIABLES
    accounts,    \* Supabase: the accounts, records [id, email]
    rows,        \* table users: records [id, email, supabaseId]
    req,         \* the request in each slot
    minted,      \* payloads of the tokens signed, with the operation that did
    accountIds,  \* history: <<id, email>> of every account there ever was
    rowIds       \* history: <<id, email>> of every row there ever was

vars == <<accounts, rows, req, minted, accountIds, rowIds>>

Account == [id : Ids, email : Emails]
Row == [id : Ids, email : Emails, supabaseId : Ids \cup {None}]

Sync == {"find", "link", "update", "create"}
Working == Sync \cup {"check", "createAccount", "signIn", "verify", "mint",
                      "handler", "insert", "findId", "delete"}
Request ==
    [op    : {"none"} \cup Endpoints,
     pc    : {"idle"} \cup Working,
     email : Emails \cup {None},     \* of the client, and of its account
     id    : Ids \cup {None},        \* the id a client names or sends
     user  : Ids \cup {None},        \* the account Supabase returned
     found : Ids \cup {None},        \* the row findFirst returned
     sub   : Ids \cup {None},        \* localUser.id
     subEmail : Emails \cup {None}]  \* localUser.email
Idle == [op |-> "none", pc |-> "idle", email |-> None, id |-> None,
         user |-> None, found |-> None, sub |-> None, subEmail |-> None]

TypeOK ==
    /\ accounts \subseteq Account
    /\ rows \subseteq Row
    /\ req \in [Requests -> Request]
    /\ minted \subseteq [sub : Ids, email : Emails, by : {"register", "login"}]
    /\ accountIds \subseteq Ids \X Emails
    /\ rowIds \subseteq Ids \X Emails

Init ==
    /\ accounts = {} /\ rows = {} /\ minted = {}
    /\ accountIds = {} /\ rowIds = {}
    /\ req = [r \in Requests |-> Idle]

-----------------------------------------------------------------------------
(* Helpers *)

\* gen_random_uuid(), and Supabase's own: never an id seen before.
Fresh == {i \in Ids : /\ \A e \in Emails : <<i, e>> \notin accountIds \cup rowIds
                      /\ \A r \in Requests : req[r].id # i}

\* Mutant: users.email is not @unique.
InsertableTwice(row) ==
    \A other \in rows :
        /\ other.id # row.id
        /\ other.supabaseId = row.supabaseId => row.supabaseId = None

\* The constraints of schema.prisma: primary key and two @unique columns.
Insertable(row) ==
    \A other \in rows :
        /\ other.id # row.id
        /\ other.email # row.email
        /\ other.supabaseId = row.supabaseId => row.supabaseId = None

InsertRow(row) ==
    /\ rows' = rows \cup {row}
    /\ rowIds' = rowIds \cup {<<row.id, row.email>>}
    /\ Cardinality(rowIds') <= MaxRows

Goto(r, label) == req' = [req EXCEPT ![r].pc = label]

\* The answer to the client; its text is left out.
Answer(r) == req' = [req EXCEPT ![r] = Idle]

Start(r, q) ==
    /\ q.op \in Operations
    /\ req[r].pc = "idle"
    /\ req' = [req EXCEPT ![r] = q]

DbError == "dbError" \in Faults

-----------------------------------------------------------------------------
(* syncSupabaseUser, run by register, by login and by the guard *)

\* localUser, from here on.
LocalUser(r, i, e, label) ==
    req' = [req EXCEPT ![r].sub = i, ![r].subEmail = e, ![r].pc = label]

\* Supabase has returned an account: syncSupabaseUser starts.
Identified(r, i) == req' = [req EXCEPT ![r].user = i, ![r].pc = "find"]

\* Mutant: the guard signs tokens as well.
AfterSyncMints(r, row) == LocalUser(r, row.id, row.email, "mint")

\* Where a synchronised request goes on.  The guard leaves the local id in
\* request.user and the Supabase user in request.supabaseUser.
AfterSync(r, row) ==
    LocalUser(r, row.id, row.email,
              IF req[r].op = "guard" THEN "handler" ELSE "mint")

\* Mutant: login falls back to the Supabase user, too.
SyncFailsNever(r) ==
    IF req[r].op # "guard"
      THEN LocalUser(r, req[r].user, req[r].email, "mint")
      ELSE Answer(r)

\* Its failure: register goes on with the id of the Supabase user, login and
\* the guard answer 401.
SyncFails(r) ==
    IF req[r].op = "register"
      THEN LocalUser(r, req[r].user, req[r].email, "mint")
      ELSE Answer(r)

\* Mutant: { email: undefined } is passed on, a condition every row meets.
MatchesAny(row, q) == row \in rows

\* findFirst({ OR: [supabaseId, email] })
Matches(row, q) == row.supabaseId = q.user \/ row.email = q.email

Found(r, i, label) == req' = [req EXCEPT ![r].found = i, ![r].pc = label]

SyncFind(r) ==
    LET matching == {row \in rows : Matches(row, req[r])} IN
    /\ req[r].pc = "find"
    /\ \/ \E row \in matching :
            Found(r, row.id, IF row.supabaseId = None THEN "link" ELSE "update")
       \/ matching = {} /\ Goto(r, "create")
       \/ DbError /\ SyncFails(r)
    /\ UNCHANGED <<accounts, rows, minted, accountIds, rowIds>>

Linked(row, user) == [id |-> row.id, email |-> row.email, supabaseId |-> user]

\* update where id: fails for a row that is gone, and when another row has the
\* supabaseId.
SyncLink(r) ==
    LET target == {row \in rows : row.id = req[r].found}
        taken == \E row \in rows \ target : row.supabaseId = req[r].user
    IN
    /\ req[r].pc = "link"
    /\ \/ \E row \in target :
            /\ ~taken
            /\ rows' = (rows \ {row}) \cup {Linked(row, req[r].user)}
            /\ AfterSync(r, row)
       \/ /\ target = {} \/ taken \/ DbError
          /\ SyncFails(r)
          /\ UNCHANGED rows
    /\ UNCHANGED <<accounts, minted, accountIds, rowIds>>

\* Refreshes the profile columns, which are not modelled.
SyncUpdate(r) ==
    LET target == {row \in rows : row.id = req[r].found} IN
    /\ req[r].pc = "update"
    /\ \/ \E row \in target : AfterSync(r, row)
       \/ (target = {} \/ DbError) /\ SyncFails(r)
    /\ UNCHANGED <<accounts, rows, minted, accountIds, rowIds>>

SyncCreate(r) ==
    LET new(i) == [id |-> i, email |-> req[r].email, supabaseId |-> req[r].user] IN
    /\ req[r].pc = "create"
    /\ \/ \E i \in Fresh :
            /\ Insertable(new(i))
            /\ InsertRow(new(i))
            /\ AfterSync(r, new(i))
       \/ /\ DbError \/ \E i \in Ids : ~Insertable(new(i)) /\ i \in Fresh
          /\ SyncFails(r)
          /\ UNCHANGED <<rows, rowIds>>
    /\ UNCHANGED <<accounts, minted, accountIds>>

\* generateTokens
Mint(r) ==
    /\ req[r].pc = "mint"
    /\ minted' = minted \cup {[sub |-> req[r].sub, email |-> req[r].subEmail,
                               by |-> req[r].op]}
    /\ Answer(r)
    /\ UNCHANGED <<accounts, rows, accountIds, rowIds>>

-----------------------------------------------------------------------------
(* register *)

StartRegister(r, e) ==
    /\ Start(r, [Idle EXCEPT !.op = "register", !.pc = "check", !.email = e])
    /\ UNCHANGED <<accounts, rows, minted, accountIds, rowIds>>

\* A failed query is logged and the check skipped.
RegisterCheck(r) ==
    /\ req[r].pc = "check" /\ req[r].op = "register"
    /\ \/ /\ \E row \in rows : row.email = req[r].email
          /\ Answer(r)
       \/ /\ DbError \/ \A row \in rows : row.email # req[r].email
          /\ Goto(r, "createAccount")
    /\ UNCHANGED <<accounts, rows, minted, accountIds, rowIds>>

CreateAccount(r) ==
    LET e == req[r].email IN
    /\ req[r].pc = "createAccount"
    /\ \/ /\ \E a \in accounts : a.email = e
          /\ Answer(r)
          /\ UNCHANGED <<accounts, accountIds>>
       \/ /\ \A a \in accounts : a.email # e
          /\ \E i \in Fresh :
               /\ accounts' = accounts \cup {[id |-> i, email |-> e]}
               /\ accountIds' = accountIds \cup {<<i, e>>}
               /\ Identified(r, i)
       \/ /\ Answer(r)    \* any other error of Supabase
          /\ UNCHANGED <<accounts, accountIds>>
    /\ UNCHANGED <<rows, minted, rowIds>>

-----------------------------------------------------------------------------
(* login and the guard *)

StartLogin(r, e) ==
    /\ Start(r, [Idle EXCEPT !.op = "login", !.pc = "signIn", !.email = e])
    /\ UNCHANGED <<accounts, rows, minted, accountIds, rowIds>>

\* A request that carries a Supabase access token.
StartGuarded(r, e) ==
    /\ Start(r, [Idle EXCEPT !.op = "guard", !.pc = "verify", !.email = e])
    /\ UNCHANGED <<accounts, rows, minted, accountIds, rowIds>>

\* signInWithPassword and auth.getUser return the account or an error.
AskSupabase(r) ==
    /\ req[r].pc \in {"signIn", "verify"}
    /\ \/ \E a \in accounts :
            /\ a.email = req[r].email
            /\ Identified(r, a.id)
       \/ Answer(r)
    /\ UNCHANGED <<accounts, rows, minted, accountIds, rowIds>>

\* Whatever the handler does, it does after the guard.
Handle(r) ==
    /\ req[r].pc = "handler"
    /\ Answer(r)
    /\ UNCHANGED <<accounts, rows, minted, accountIds, rowIds>>

-----------------------------------------------------------------------------
(* UsersService.create and remove *)

\* The client sends the id: any UUID passes CreateUserDto.
StartCreateUser(r, e, i) ==
    /\ Start(r, [Idle EXCEPT !.op = "createUser", !.pc = "check", !.email = e,
                             !.id = i])
    /\ UNCHANGED <<accounts, rows, minted, accountIds, rowIds>>

CreateUserCheck(r) ==
    /\ req[r].pc = "check" /\ req[r].op = "createUser"
    /\ \/ /\ \E row \in rows : row.email = req[r].email
          /\ Answer(r)
       \/ /\ \A row \in rows : row.email # req[r].email
          /\ Goto(r, "insert")
       \/ DbError /\ Answer(r)
    /\ UNCHANGED <<accounts, rows, minted, accountIds, rowIds>>

CreateUserInsert(r) ==
    LET new == [id |-> req[r].id, email |-> req[r].email, supabaseId |-> None] IN
    /\ req[r].pc = "insert"
    /\ \/ Insertable(new) /\ InsertRow(new) /\ Answer(r)
       \/ /\ ~Insertable(new) \/ DbError
          /\ Answer(r)
          /\ UNCHANGED <<rows, rowIds>>
    /\ UNCHANGED <<accounts, minted, accountIds>>

StartRemoveUser(r, i) ==
    /\ Start(r, [Idle EXCEPT !.op = "removeUser", !.pc = "findId", !.id = i])
    /\ UNCHANGED <<accounts, rows, minted, accountIds, rowIds>>

RemoveUserFind(r) ==
    /\ req[r].pc = "findId"
    /\ \/ /\ \E row \in rows : row.id = req[r].id
          /\ Goto(r, "delete")
       \/ /\ \A row \in rows : row.id # req[r].id
          /\ Answer(r)
       \/ DbError /\ Answer(r)
    /\ UNCHANGED <<accounts, rows, minted, accountIds, rowIds>>

\* The account at Supabase stays.
RemoveUserDelete(r) ==
    LET target == {row \in rows : row.id = req[r].id} IN
    /\ req[r].pc = "delete"
    /\ \/ target # {} /\ rows' = rows \ target /\ Answer(r)
       \/ (target = {} \/ DbError) /\ Answer(r) /\ UNCHANGED rows
    /\ UNCHANGED <<accounts, minted, accountIds, rowIds>>

-----------------------------------------------------------------------------

\* Somebody deletes an account at Supabase itself.
AccountDeleted(a) ==
    /\ "accountDeleted" \in Faults
    /\ accounts' = accounts \ {a}
    /\ UNCHANGED <<rows, req, minted, accountIds, rowIds>>

SyncStep(r) == SyncFind(r) \/ SyncLink(r) \/ SyncUpdate(r) \/ SyncCreate(r)
AuthStep(r) == \/ RegisterCheck(r) \/ CreateAccount(r) \/ AskSupabase(r)
               \/ Mint(r) \/ Handle(r)
UsersStep(r) == \/ CreateUserCheck(r) \/ CreateUserInsert(r)
                \/ RemoveUserFind(r) \/ RemoveUserDelete(r)

Next ==
    \/ \E r \in Requests :
         \/ SyncStep(r) \/ AuthStep(r) \/ UsersStep(r)
         \/ \E e \in Emails :
              \/ StartRegister(r, e) \/ StartLogin(r, e) \/ StartGuarded(r, e)
              \/ \E i \in Ids : StartCreateUser(r, e, i)
         \/ \E i \in Ids : StartRemoveUser(r, i)
    \/ \E a \in accounts : AccountDeleted(a)

Spec == Init /\ [][Next]_vars

-----------------------------------------------------------------------------
(* Properties *)

\* The row of this id was removed, and a client created it anew for another
\* email.
Reused(i) ==
    \E e, f \in Emails : e # f /\ <<i, e>> \in rowIds /\ <<i, f>> \in rowIds

\* A row is linked to an account of its own email, whatever searches, links,
\* registrations and creations interleave and whichever ids clients send to
\* UsersService.create.  The one way to another person's account is a row whose
\* id was used again between the search and the update by id
\* (syncSupabaseUser).
LinkSound ==
    \A row \in rows : row.supabaseId # None =>
        \/ <<row.supabaseId, row.email>> \in accountIds
        \/ Reused(row.id)

\* The subject and the email in a token belong, or belonged, together: a row had
\* both, or, after a registration whose synchronisation failed, an account.
\* A login never signs a token without a row.
TokensNameOwner ==
    \A m \in minted :
        \/ <<m.sub, m.email>> \in rowIds
        \/ m.by = "register" /\ <<m.sub, m.email>> \in accountIds

\* While no user is removed, the tokens of all logins with one email name one
\* user, however the logins, registrations and creations of users race
\* (the first of them to insert the row decides).
SignInsAgree ==
    \A m, n \in minted :
        m.by = "login" /\ n.by = "login" /\ m.email = n.email => m.sub = n.sub

-----------------------------------------------------------------------------
(* The inductive invariant *)

\* The histories hold what is there.
HistoryComplete ==
    /\ \A a \in accounts : <<a.id, a.email>> \in accountIds
    /\ \A row \in rows : <<row.id, row.email>> \in rowIds

\* What a request carries at each of its steps.
Carried(q) ==
    /\ q.op \in {"register", "login", "guard", "createUser"} => q.email \in Emails
    /\ q.op = "createUser" => q.id \in Ids
    /\ q.pc = "createAccount" => q.op = "register"
    /\ q.pc \in {"signIn", "verify"} => q.op \in {"login", "guard"}
    /\ q.pc = "insert" => q.op = "createUser"
    /\ q.pc \in Sync => /\ q.op \in {"register", "login", "guard"}
                       /\ <<q.user, q.email>> \in accountIds
    /\ q.pc = "link" => <<q.found, q.email>> \in rowIds
    /\ q.pc = "mint" =>
         /\ q.op \in {"register", "login"}
         /\ \/ <<q.sub, q.subEmail>> \in rowIds
            \/ q.op = "register" /\ <<q.sub, q.subEmail>> \in accountIds

IInv ==
    /\ TypeOK
    /\ HistoryComplete
    /\ \A r \in Requests : Carried(req[r])
    /\ LinkSound
    /\ TokensNameOwner

=============================================================================
