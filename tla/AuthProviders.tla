---------------------------- MODULE AuthProviders ----------------------------
(***************************************************************************)
(* The authentication strategies of the todo-master backend: the provider  *)
(* that auth.module.ts chooses (JwtAuthProvider or SupabaseAuthProvider)   *)
(* behind StrategicAuthGuard, up to the AuthUser the guard attaches to the *)
(* request.  UsersService.create inserts rows beside them, under an id its *)
(* client chooses.                                                         *)
(*                                                                         *)
(* A call is a record that advances by one action per await; it arrives    *)
(* with the first one, before which it reads nothing, and one that is      *)
(* refused there leaves no trace.  Passwords are right or wrong; names,    *)
(* pictures and dates are left out; the hash of a refresh token is         *)
(* TokenService's subject.                                                 *)
(***************************************************************************)
EXTENDS Naturals, FiniteSets

CONSTANTS
    Emails, Ids,    \* values of email; ids of rows and of Supabase accounts
    Calls,
    Faults,         \* a subset of FaultKinds
    MaxRows,        \* bound: how many ids and emails rows may ever pair
    MaxAccounts,    \* bound: how many accounts there may ever be
    MaxTokens,      \* bound: how many different tokens are handed out
    None            \* no id, no email, no row

FaultKinds == {"dbError", "accountDeleted"}

ASSUME ConstantsAssumption ==
    /\ Faults \subseteq FaultKinds
    /\ MaxRows \in Nat /\ MaxAccounts \in Nat /\ MaxTokens \in Nat
    /\ None \notin Emails \cup Ids

VARIABLES
    provider,   \* providerType of AUTH_PROVIDER
    rows,       \* table users
    accounts,   \* the users of Supabase
    minted,     \* payloads of the tokens handed out
    call,       \* the call in each slot
    accountIds, \* history: <<id, email>> of every account there ever was
    rowIds      \* history: <<id, email>> of every row there ever was

vars == <<provider, rows, accounts, minted, call, accountIds, rowIds>>
data == <<rows, accounts, minted, accountIds, rowIds>>

Row == [id : Ids, email : Emails, supabaseId : Ids \cup {None}, pw : BOOLEAN]
Account == [id : Ids, email : Emails]
AuthUser == [id : Ids, email : Emails]
Payload == [sub : Ids, email : Emails]

ASSUME NoUserAssumption == None \notin AuthUser

Steps == {"idle", "insert", "createAccount", "syncFind", "link", "touch", "create",
          "tokens", "findAgain", "createInsert", "handler"}
Call == [op : {"none", "register", "login", "verify", "refresh", "delete",
               "create"},
         pc : Steps,
         email : Emails \cup {None},    \* of the form, or the account's
         id : Ids \cup {None},          \* of the row to read or write
         account : Ids \cup {None},     \* the user Supabase returned
         user : AuthUser \cup {None}]   \* what the tokens, the handler are for

Idle == [op |-> "none", pc |-> "idle", email |-> None, id |-> None,
         account |-> None, user |-> None]

TypeOK ==
    /\ provider \in {"jwt", "supabase"}
    /\ rows \subseteq Row /\ accounts \subseteq Account
    /\ minted \subseteq Payload
    /\ call \in [Calls -> Call]
    /\ \A c \in Calls : call[c].pc \in {"tokens", "handler"} => call[c].user # None
    /\ accountIds \subseteq Ids \X Emails /\ rowIds \subseteq Ids \X Emails

\* The factory of AUTH_PROVIDER: by NODE_ENV.
Init ==
    /\ provider \in {"jwt", "supabase"}
    /\ rows = {} /\ accounts = {} /\ minted = {}
    /\ call = [c \in Calls |-> Idle]
    /\ accountIds = {} /\ rowIds = {}

-----------------------------------------------------------------------------
(* Helpers *)

DbError == "dbError" \in Faults

\* gen_random_uuid(), and Supabase's own: never an id seen before.
Fresh == {i \in Ids : /\ \A e \in Emails : <<i, e>> \notin accountIds \cup rowIds
                      /\ \A c \in Calls : call[c].id # i}

\* The constraints of schema.prisma: primary key and two @unique columns.
Insertable(row) ==
    \A other \in rows :
        /\ other.id # row.id /\ other.email # row.email
        /\ other.supabaseId = row.supabaseId => row.supabaseId = None

\* A row has this email, as of now or from now on.
Named(row) ==
    /\ rowIds' = rowIds \cup {<<row.id, row.email>>}
    /\ Cardinality(rowIds') <= MaxRows

InsertRow(row) == Insertable(row) /\ rows' = rows \cup {row} /\ Named(row)

\* An update of the row, as it is by now; none if it is gone or would collide.
Replace(row, new) ==
    /\ row \in rows
    /\ \A other \in rows \ {row} :
         /\ other.email # new.email
         /\ other.supabaseId = new.supabaseId => new.supabaseId = None
    /\ rows' = (rows \ {row}) \cup {new}

Goto(c, q) == call' = [call EXCEPT ![c] = q]
Begin(c, q) == call[c].pc = "idle" /\ Goto(c, q)

\* The answer, a refusal too; its text is left out.
End(c) == Goto(c, Idle)

User(i, e) == [id |-> i, email |-> e]

\* generateTokens signs what it is given.
Tokens(c, u) == Goto(c, [call[c] EXCEPT !.pc = "tokens", !.user = u])

-----------------------------------------------------------------------------
(* Arrivals *)

\* A taken email is refused.  When the query fails, the JWT provider refuses as
\* well; the other one goes on without a check.
Register(c, e) ==
    /\ \/ \A row \in rows : row.email # e
       \/ DbError /\ provider = "supabase"
    /\ Begin(c, [Idle EXCEPT !.op = "register", !.email = e,
                   !.pc = IF provider = "jwt" THEN "insert" ELSE "createAccount"])
    /\ UNCHANGED <<provider, data>>

\* The password is right; a row without one admits nobody.
LoginJwt(c, e) ==
    /\ provider = "jwt"
    /\ \E row \in rows :
         /\ row.email = e /\ row.pw
         /\ Begin(c, [Idle EXCEPT !.op = "login", !.pc = "tokens", !.email = e,
                                  !.user = User(row.id, row.email)])
    /\ UNCHANGED <<provider, data>>

\* signInWithPassword returns the account.
LoginSupabase(c, e) ==
    /\ provider = "supabase"
    /\ \E a \in accounts :
         /\ a.email = e
         /\ Begin(c, [Idle EXCEPT !.op = "login", !.pc = "syncFind", !.email = e,
                                  !.account = a.id])
    /\ UNCHANGED <<provider, data>>

\* Mutant: a token whose user is gone is still good.
VerifyJwtUnchecked(c, t) ==
    /\ provider = "jwt"
    /\ Begin(c, [Idle EXCEPT !.op = "verify", !.pc = "handler"])
    /\ UNCHANGED <<provider, data>>

\* StrategicAuthGuard asks its provider: a token of this server names a row.
VerifyJwt(c, t) ==
    /\ provider = "jwt"
    /\ \E row \in rows :
         /\ row.id = t.sub
         /\ Begin(c, [Idle EXCEPT !.op = "verify", !.pc = "handler",
                                  !.user = User(row.id, row.email)])
    /\ UNCHANGED <<provider, data>>

\* One of Supabase names an account, whose record Supabase returns.
VerifySupabase(c, a) ==
    /\ provider = "supabase"
    /\ Begin(c, [Idle EXCEPT !.op = "verify", !.pc = "syncFind", !.email = a.email,
                             !.account = a.id])
    /\ UNCHANGED <<provider, data>>

\* refreshToken('', ...) finds nobody: only a database that cannot be reached
\* leads to the claims of the token, which a client may keep for days.
RefreshToken(c, t) ==
    /\ DbError
    /\ Begin(c, [Idle EXCEPT !.op = "refresh", !.pc = "tokens",
                             !.user = User(t.sub, t.email)])
    /\ UNCHANGED <<provider, data>>

-----------------------------------------------------------------------------
(* register and login *)

\* Whoever registered the email meanwhile makes the insert fail.
InsertUser(c) ==
    /\ call[c].pc = "insert"
    /\ \/ \E i \in Fresh :
            LET row == [id |-> i, email |-> call[c].email, supabaseId |-> None,
                        pw |-> TRUE]
            IN InsertRow(row) /\ Tokens(c, User(i, row.email))
       \/ /\ DbError \/ \E row \in rows : row.email = call[c].email
          /\ End(c) /\ UNCHANGED <<rows, rowIds>>
    /\ UNCHANGED <<provider, accounts, minted, accountIds>>

CreateAccount(c) ==
    LET e == call[c].email IN
    /\ call[c].pc = "createAccount"
    /\ \/ \E i \in Fresh :
            /\ \A a \in accounts : a.email # e
            /\ accounts' = accounts \cup {[id |-> i, email |-> e]}
            /\ accountIds' = accountIds \cup {<<i, e>>}
            /\ Cardinality(accountIds') <= MaxAccounts
            /\ Goto(c, [call[c] EXCEPT !.pc = "syncFind", !.account = i])
       \/ End(c) /\ UNCHANGED <<accounts, accountIds>>
    /\ UNCHANGED <<provider, rows, minted, rowIds>>

IssueTokens(c) ==
    LET q == call[c] IN
    /\ q.pc = "tokens"
    /\ minted' = minted \cup {[sub |-> q.user.id, email |-> q.user.email]}
    /\ Cardinality(minted') <= MaxTokens
    /\ End(c)
    /\ UNCHANGED <<provider, rows, accounts, accountIds, rowIds>>

-----------------------------------------------------------------------------
(* SupabaseAuthProvider.syncSupabaseUser, for register, login and verifyToken *)

\* Mutant: the AuthUser is the account's, with the email of the row.
SyncedAsAccount(c, u) ==
    Goto(c, [call[c] EXCEPT !.user = User(call[c].account, u.email),
               !.pc = IF call[c].op = "verify" THEN "handler" ELSE "tokens"])

\* Who goes on with the AuthUser.
Synced(c, u) ==
    Goto(c, [call[c] EXCEPT !.user = u,
               !.pc = IF call[c].op = "verify" THEN "handler" ELSE "tokens"])

\* register goes on with the account's own data, which has no row.
SyncFails(c) ==
    LET q == call[c] IN
    IF q.op = "register"
      THEN Synced(c, User(q.account, q.email))
      ELSE End(c)

\* Mutant: the OR of the query has lost what ties it to the account.
SyncFindAny(c) ==
    /\ call[c].pc = "syncFind"
    /\ \/ \E row \in rows :
            Goto(c, [call[c] EXCEPT !.id = row.id,
                       !.pc = IF row.supabaseId = None THEN "link" ELSE "touch"])
       \/ rows = {} /\ Goto(c, [call[c] EXCEPT !.pc = "create"])
    /\ UNCHANGED <<provider, data>>

\* findFirst with OR: either row when the id and the email meet two.
SyncFind(c) ==
    LET q == call[c]
        found == {row \in rows : row.supabaseId = q.account \/ row.email = q.email}
    IN
    /\ q.pc = "syncFind"
    /\ \/ \E row \in found :
            Goto(c, [q EXCEPT !.id = row.id,
                       !.pc = IF row.supabaseId = None THEN "link" ELSE "touch"])
       \/ found = {} /\ Goto(c, [q EXCEPT !.pc = "create"])
       \/ DbError /\ SyncFails(c)
    /\ UNCHANGED <<provider, data>>

\* The row is linked whatever happened to it since it was read.
SyncLink(c) ==
    LET q == call[c] IN
    /\ q.pc = "link"
    /\ \/ \E row \in rows :
            LET new == [row EXCEPT !.supabaseId = q.account] IN
            /\ row.id = q.id /\ Replace(row, new)
            /\ Synced(c, User(row.id, row.email))
       \/ /\ \/ DbError
             \/ ~\E row \in rows : row.id = q.id
             \/ \E row \in rows : row.supabaseId = q.account
          /\ SyncFails(c) /\ UNCHANGED rows
    /\ UNCHANGED <<provider, accounts, minted, accountIds, rowIds>>

\* Names and pictures only.
SyncTouch(c) ==
    LET q == call[c] IN
    /\ q.pc = "touch"
    /\ \/ \E row \in rows : row.id = q.id
                            /\ Synced(c, User(row.id, row.email))
       \/ /\ DbError \/ ~\E row \in rows : row.id = q.id
          /\ SyncFails(c)
    /\ UNCHANGED <<provider, data>>

SyncCreate(c) ==
    LET q == call[c] IN
    /\ q.pc = "create"
    /\ \/ \E i \in Fresh :
            LET row == [id |-> i, email |-> q.email, supabaseId |-> q.account,
                        pw |-> FALSE]
            IN InsertRow(row) /\ Synced(c, User(i, q.email))
       \/ /\ \/ DbError
             \/ \E row \in rows : row.email = q.email \/ row.supabaseId = q.account
          /\ SyncFails(c) /\ UNCHANGED <<rows, rowIds>>
    /\ UNCHANGED <<provider, accounts, minted, accountIds>>

-----------------------------------------------------------------------------
(* updateUser, deleteUser *)

\* updateUser is one statement.  The email may change too; the account at
\* Supabase keeps its own.
UpdateUser(i, e) ==
    /\ \E row \in rows :
         LET new == [row EXCEPT !.email = e] IN
         row.id = i /\ Replace(row, new) /\ Named(new)
    /\ UNCHANGED <<provider, accounts, minted, call, accountIds>>

\* The row goes; the Supabase provider then reads it again.
DeleteUser(c, i) ==
    /\ \E row \in rows : row.id = i /\ rows' = rows \ {row}
    /\ Begin(c, IF provider = "jwt"
                  THEN Idle
                  ELSE [Idle EXCEPT !.op = "delete", !.pc = "findAgain", !.id = i])
    /\ UNCHANGED <<provider, accounts, minted, accountIds, rowIds>>

\* What admin.deleteUser takes away for a row.
DeletedWith(row) == {a \in accounts : a.id = row.supabaseId}

\* Nobody is found by the id of the row just deleted, so no account is removed.
FindAgain(c) ==
    /\ call[c].pc = "findAgain"
    /\ accounts' = accounts \ UNION {DeletedWith(row) : row \in {x \in rows : x.id = call[c].id}}
    /\ End(c)
    /\ UNCHANGED <<provider, rows, minted, accountIds, rowIds>>

-----------------------------------------------------------------------------
(* UsersService.create *)

\* The client sends the id: any UUID passes CreateUserDto.  The email is looked
\* up first; one that is taken, or a failing query, ends the call.
CreateUser(c, e, i) ==
    /\ \A row \in rows : row.email # e
    /\ Begin(c, [Idle EXCEPT !.op = "create", !.pc = "createInsert", !.email = e,
                             !.id = i])
    /\ UNCHANGED <<provider, data>>

\* A row without account and password.
CreateInsert(c) ==
    LET q == call[c]
        row == [id |-> q.id, email |-> q.email, supabaseId |-> None, pw |-> FALSE]
    IN
    /\ q.pc = "createInsert"
    /\ \/ InsertRow(row)
       \/ (DbError \/ ~Insertable(row)) /\ UNCHANGED <<rows, rowIds>>
    /\ End(c)
    /\ UNCHANGED <<provider, accounts, minted, accountIds>>

-----------------------------------------------------------------------------

\* The guard has attached the AuthUser to the request.
Return(c) ==
    /\ call[c].pc = "handler" /\ End(c)
    /\ UNCHANGED <<provider, data>>

-----------------------------------------------------------------------------
(* The environment *)

\* Somebody deletes an account at Supabase itself.
RemoveAccount(a) ==
    /\ "accountDeleted" \in Faults /\ accounts' = accounts \ {a}
    /\ UNCHANGED <<provider, rows, minted, call, accountIds, rowIds>>

-----------------------------------------------------------------------------

Step(c) ==
    \/ InsertUser(c) \/ CreateAccount(c) \/ IssueTokens(c)
    \/ SyncFind(c) \/ SyncLink(c) \/ SyncTouch(c) \/ SyncCreate(c)
    \/ FindAgain(c) \/ CreateInsert(c)
    \/ Return(c)

Next ==
    \/ \E c \in Calls :
         \/ Step(c)
         \/ \E e \in Emails :
              \/ Register(c, e) \/ LoginJwt(c, e) \/ LoginSupabase(c, e)
              \/ \E i \in Ids : CreateUser(c, e, i)
         \/ \E t \in minted : VerifyJwt(c, t) \/ RefreshToken(c, t)
         \/ \E a \in accounts : VerifySupabase(c, a)
         \/ \E row \in rows : DeleteUser(c, row.id)
    \/ \E row \in rows, e \in Emails : UpdateUser(row.id, e)
    \/ \E a \in accounts : RemoveAccount(a)

Spec == Init /\ [][Next]_vars

-----------------------------------------------------------------------------
(* Properties *)

\* A token names an id together with an email that id really had, whatever was
\* renamed, removed or registered again while it was being made, and also when it
\* is made from the claims of an older one (generateTokens as the providers call
\* it, refreshToken).
TokensNameOwner == \A t \in minted : <<t.sub, t.email>> \in rowIds \cup accountIds

\* The row of this id had two emails: updateUser changed it, or the row was
\* removed and a client created the id anew.
Renamed(i) ==
    \E e, f \in Emails : e # f /\ <<i, e>> \in rowIds /\ <<i, f>> \in rowIds

\* Whoever signs in to an account, or shows its token, becomes the user of a row
\* with the email of that account, whatever is registered, created, removed and
\* synchronised meanwhile; another email comes only from a row whose own email
\* was changed or whose id was used again (syncSupabaseUser, which reads a row by
\* account or email and then writes it by id).
SignedInAsOwner ==
    \A c \in Calls :
        call[c].account # None /\ call[c].pc \in {"tokens", "handler"} =>
            call[c].user.email = call[c].email \/ Renamed(call[c].user.id)

==============================================================================
