------------------------- MODULE AuthProviders_proofs -------------------------
(***************************************************************************)
(* Proofs about AuthProviders for any emails, ids, calls, faults and bounds*)
(*                                                                         *)
(* Both providers stand on one fact: an account keeps its email (OneEmail),*)
(* while a row's id may have had several (Twice).  The rest of the         *)
(* invariant says which pairs rows, accounts, tokens and the locals of     *)
(* calls are bound to, so that a row read before an await may be renamed,  *)
(* removed, created anew or linked before it is used.                      *)
(***************************************************************************)
EXTENDS AuthProviders, TLAPS

OneEmail == \A i \in Ids, e, f \in Emails :
    <<i, e>> \in accountIds /\ <<i, f>> \in accountIds => e = f

\* Renamed(i), when r are the pairs rows have had.
Twice(i, r) == \E e, f \in Emails : e # f /\ <<i, e>> \in r /\ <<i, f>> \in r

\* A linked row shares its email with the account, unless its id had another.
LinkedRow(row, a, r) ==
    row.supabaseId # None => <<row.supabaseId, row.email>> \in a \/ Twice(row.id, r)

DataInv ==
    /\ \A row \in rows : /\ <<row.id, row.email>> \in rowIds
                         /\ LinkedRow(row, accountIds, rowIds)
    /\ \A a \in accounts : <<a.id, a.email>> \in accountIds
    /\ TokensNameOwner
    /\ OneEmail

Syncing == {"syncFind", "link", "touch", "create"}

\* What the locals of a call say, when a and r are the pairs of accounts and rows.
Good(q, a, r) ==
    /\ q.account # None => q.pc \in Syncing \cup {"tokens", "handler"}
    /\ q.pc \in {"insert", "createAccount", "createInsert"} => q.email \in Emails
    /\ q.pc = "createInsert" => q.id \in Ids
    /\ q.pc \in Syncing => /\ q.account \in Ids /\ q.email \in Emails
                           /\ <<q.account, q.email>> \in a
    /\ q.pc = "link" => <<q.id, q.email>> \in r
    /\ q.pc = "touch" => <<q.id, q.email>> \in r \/ Twice(q.id, r)
    /\ q.pc \in {"tokens", "handler"} =>
         /\ q.user \in AuthUser
         /\ <<q.user.id, q.user.email>> \in r \cup a
         /\ q.account # None => q.user.email = q.email \/ Twice(q.user.id, r)

IInv == /\ TypeOK
        /\ DataInv
        /\ \A c \in Calls : Good(call[c], accountIds, rowIds)

-----------------------------------------------------------------------------
(* Lemmas *)

LEMMA IdleGood == Idle \in Call /\ Idle.pc = "idle" /\ \A a, r : Good(Idle, a, r)
BY DEF Idle, Call, Steps, Good, Syncing

LEMMA UserFacts ==
    ASSUME NEW i \in Ids, NEW e \in Emails
    PROVE  /\ User(i, e) \in AuthUser /\ User(i, e) # None
           /\ User(i, e).id = i /\ User(i, e).email = e
BY NoUserAssumption DEF User, AuthUser

\* The pairs only become more.
LEMMA TwiceStays ==
    ASSUME NEW r, NEW r2, r \subseteq r2
    PROVE  \A i : Twice(i, r) => Twice(i, r2)
BY DEF Twice

LEMMA GoodStays ==
    ASSUME NEW q, NEW a, NEW r, NEW a2, NEW r2,
           Good(q, a, r), a \subseteq a2, r \subseteq r2
    PROVE  Good(q, a2, r2)
BY TwiceStays DEF Good

\* A step that changes one call: what there is to show of it.
LEMMA OneCall ==
    ASSUME IInv, NEW c \in Calls, NEW q \in Call,
           call' = [call EXCEPT ![c] = q],
           q.pc \in {"tokens", "handler"} => q.user # None,
           Good(q, accountIds', rowIds'),
           accountIds \subseteq accountIds', rowIds \subseteq rowIds',
           UNCHANGED provider,
           rows' \subseteq Row, accounts' \subseteq Account, minted' \subseteq Payload,
           accountIds' \subseteq Ids \X Emails, rowIds' \subseteq Ids \X Emails,
           DataInv'
    PROVE  IInv'
<1>1. TypeOK'
    BY DEF IInv, TypeOK
<1>2. \A d \in Calls : Good(call'[d], accountIds', rowIds')
    BY GoodStays DEF IInv, TypeOK
<1> QED BY <1>1, <1>2 DEF IInv

LEMMA SameData ==
    ASSUME IInv, UNCHANGED data
    PROVE  DataInv'
BY DEF IInv, DataInv, data, TokensNameOwner, OneEmail, LinkedRow, Twice

\* The same when nothing else changes.
LEMMA QuietCall ==
    ASSUME IInv, NEW c \in Calls, NEW q \in Call,
           call' = [call EXCEPT ![c] = q],
           q.pc \in {"tokens", "handler"} => q.user # None,
           Good(q, accountIds, rowIds),
           UNCHANGED <<provider, data>>
    PROVE  IInv'
BY SameData, OneCall DEF IInv, TypeOK, data

\* Calls that are over, or refused.
LEMMA EndIInv ==
    ASSUME IInv, NEW c \in Calls, End(c), UNCHANGED <<provider, data>>
    PROVE  IInv'
BY IdleGood, QuietCall DEF End, Goto

\* A row of a typed pair that is linked soundly, or not at all.
LEMMA NewRow ==
    ASSUME IInv, NEW row \in Row, InsertRow(row),
           row.supabaseId # None => <<row.supabaseId, row.email>> \in accountIds,
           UNCHANGED <<accounts, minted, accountIds>>
    PROVE  /\ DataInv' /\ rows' \subseteq Row /\ rowIds' \subseteq Ids \X Emails
           /\ rowIds \subseteq rowIds' /\ <<row.id, row.email>> \in rowIds'
<1>1. rows' = rows \cup {row} /\ rowIds' = rowIds \cup {<<row.id, row.email>>}
    BY DEF InsertRow, Named
<1>2. row.id \in Ids /\ row.email \in Emails
    BY DEF Row
<1>3. \A i : Twice(i, rowIds) => Twice(i, rowIds')
    BY <1>1, TwiceStays
<1>4. rows' \subseteq Row /\ rowIds' \subseteq Ids \X Emails
    BY <1>1, <1>2 DEF IInv, TypeOK
<1>5. TokensNameOwner' /\ OneEmail'
    BY <1>1 DEF IInv, DataInv, TokensNameOwner, OneEmail
<1>6. DataInv'
    BY <1>1, <1>3, <1>5 DEF IInv, DataInv, LinkedRow
<1> QED BY <1>1, <1>4, <1>6

-----------------------------------------------------------------------------

LEMMA InitIInv == Init => IInv
BY IdleGood DEF Init, IInv, TypeOK, DataInv, TokensNameOwner, OneEmail

\* Arrivals of calls that have read no user yet.
LEMMA ArrivalIInv ==
    ASSUME IInv, NEW c \in Calls,
           \/ \E e \in Emails : Register(c, e) \/ LoginSupabase(c, e)
           \/ \E a \in accounts : VerifySupabase(c, a)
           \/ \E e \in Emails, i \in Ids : CreateUser(c, e, i)
    PROVE  IInv'
<1> USE DEF Begin, Goto
<1>1. ASSUME NEW e \in Emails, Register(c, e) PROVE IInv'
    <2> DEFINE q == [Idle EXCEPT !.op = "register", !.email = e,
                       !.pc = IF provider = "jwt" THEN "insert" ELSE "createAccount"]
    <2>1. /\ q \in Call /\ q.pc \in {"insert", "createAccount"} /\ q.email = e
          /\ q.account = None
        BY DEF Idle, Call, Steps
    <2>2. call' = [call EXCEPT ![c] = q] /\ UNCHANGED <<provider, data>>
        BY <1>1 DEF Register
    <2> HIDE DEF q
    <2>3. Good(q, accountIds, rowIds)
        BY <2>1 DEF Good, Syncing
    <2> QED BY <2>1, <2>2, <2>3, QuietCall
<1>2. ASSUME NEW a \in accounts, NEW op \in {"login", "verify"},
             call' = [call EXCEPT ![c] = [Idle EXCEPT !.op = op, !.pc = "syncFind",
                                            !.email = a.email, !.account = a.id]],
             UNCHANGED <<provider, data>>
      PROVE  IInv'
    <2> DEFINE q == [Idle EXCEPT !.op = op, !.pc = "syncFind",
                       !.email = a.email, !.account = a.id]
    <2>1. a.id \in Ids /\ a.email \in Emails /\ <<a.id, a.email>> \in accountIds
        BY DEF IInv, TypeOK, Account, DataInv
    <2>2. /\ q \in Call /\ q.pc = "syncFind" /\ q.account = a.id
          /\ q.email = a.email
        BY <2>1 DEF Idle, Call, Steps
    <2>3. call' = [call EXCEPT ![c] = q]
        BY <1>2
    <2> HIDE DEF q
    <2>4. Good(q, accountIds, rowIds)
        BY <2>1, <2>2 DEF Good, Syncing
    <2> QED BY <1>2, <2>2, <2>3, <2>4, QuietCall
<1>3. ASSUME NEW e \in Emails, NEW i \in Ids, CreateUser(c, e, i) PROVE IInv'
    <2> DEFINE q == [Idle EXCEPT !.op = "create", !.pc = "createInsert",
                       !.email = e, !.id = i]
    <2>1. /\ q \in Call /\ q.pc = "createInsert" /\ q.email = e /\ q.id = i
          /\ q.account = None
        BY DEF Idle, Call, Steps
    <2>2. call' = [call EXCEPT ![c] = q] /\ UNCHANGED <<provider, data>>
        BY <1>3 DEF CreateUser
    <2> HIDE DEF q
    <2>3. Good(q, accountIds, rowIds)
        BY <2>1 DEF Good, Syncing
    <2> QED BY <2>1, <2>2, <2>3, QuietCall
<1> QED BY <1>1, <1>2, <1>3 DEF LoginSupabase, VerifySupabase

\* Arrivals of calls that know their user at once: of a row, or of a token.
LEMMA KnownIInv ==
    ASSUME IInv, NEW c \in Calls,
           \/ \E e \in Emails : LoginJwt(c, e)
           \/ \E t \in minted : VerifyJwt(c, t) \/ RefreshToken(c, t)
    PROVE  IInv'
<1>1. ASSUME NEW i \in Ids, NEW e \in Emails, <<i, e>> \in rowIds \cup accountIds,
             NEW q \in Call, q.pc \in {"tokens", "handler"}, q.account = None,
             q.user = User(i, e),
             call' = [call EXCEPT ![c] = q], UNCHANGED <<provider, data>>
      PROVE  IInv'
    <2>1. Good(q, accountIds, rowIds)
        BY <1>1, UserFacts DEF Good, Syncing
    <2> QED BY <1>1, <2>1, UserFacts, QuietCall
<1>2. \A row \in rows : /\ row.id \in Ids /\ row.email \in Emails
                        /\ <<row.id, row.email>> \in rowIds
    BY DEF IInv, TypeOK, Row, DataInv
<1>3. ASSUME NEW e \in Emails, LoginJwt(c, e) PROVE IInv'
    <2>1. PICK row \in rows :
            call' = [call EXCEPT ![c] =
                       [Idle EXCEPT !.op = "login", !.pc = "tokens", !.email = e,
                                    !.user = User(row.id, row.email)]]
        BY <1>3 DEF LoginJwt, Begin, Goto
    <2> DEFINE u == User(row.id, row.email)
               q == [Idle EXCEPT !.op = "login", !.pc = "tokens", !.email = e,
                                 !.user = u]
    <2>2. u \in AuthUser
        BY <1>2, UserFacts
    <2>3. UNCHANGED <<provider, data>>
        BY <1>3 DEF LoginJwt
    <2> HIDE DEF u
    <2>4. /\ q \in Call /\ q.pc = "tokens" /\ q.account = None /\ q.user = u
        BY <2>2 DEF Idle, Call, Steps
    <2>5. call' = [call EXCEPT ![c] = q]
        BY <2>1 DEF u
    <2> HIDE DEF q
    <2> QED BY <1>1, <1>2, <2>3, <2>4, <2>5 DEF u
<1>4. ASSUME NEW t \in minted, VerifyJwt(c, t) PROVE IInv'
    <2>1. PICK row \in rows :
            call' = [call EXCEPT ![c] =
                       [Idle EXCEPT !.op = "verify", !.pc = "handler",
                                    !.user = User(row.id, row.email)]]
        BY <1>4 DEF VerifyJwt, Begin, Goto
    <2> DEFINE u == User(row.id, row.email)
               q == [Idle EXCEPT !.op = "verify", !.pc = "handler", !.user = u]
    <2>2. u \in AuthUser
        BY <1>2, UserFacts
    <2>3. UNCHANGED <<provider, data>>
        BY <1>4 DEF VerifyJwt
    <2> HIDE DEF u
    <2>4. /\ q \in Call /\ q.pc = "handler" /\ q.account = None /\ q.user = u
        BY <2>2 DEF Idle, Call, Steps
    <2>5. call' = [call EXCEPT ![c] = q]
        BY <2>1 DEF u
    <2> HIDE DEF q
    <2> QED BY <1>1, <1>2, <2>3, <2>4, <2>5 DEF u
<1>5. ASSUME NEW t \in minted, RefreshToken(c, t) PROVE IInv'
    <2> DEFINE u == User(t.sub, t.email)
               q == [Idle EXCEPT !.op = "refresh", !.pc = "tokens", !.user = u]
    <2>1. t.sub \in Ids /\ t.email \in Emails /\ <<t.sub, t.email>> \in rowIds \cup accountIds
        BY DEF IInv, TypeOK, Payload, DataInv, TokensNameOwner
    <2>2. u \in AuthUser
        BY <2>1, UserFacts
    <2>3. call' = [call EXCEPT ![c] = q] /\ UNCHANGED <<provider, data>>
        BY <1>5 DEF RefreshToken, Begin, Goto
    <2> HIDE DEF u
    <2>4. /\ q \in Call /\ q.pc = "tokens" /\ q.account = None /\ q.user = u
        BY <2>2 DEF Idle, Call, Steps
    <2> HIDE DEF q
    <2> QED BY <1>1, <2>1, <2>3, <2>4 DEF u
<1> QED BY <1>3, <1>4, <1>5

-----------------------------------------------------------------------------
(* register and login *)

LEMMA InsertUserIInv ==
    ASSUME IInv, NEW c \in Calls, InsertUser(c)
    PROVE  IInv'
<1>1. UNCHANGED <<provider, accounts, minted, accountIds>> /\ call[c].pc = "insert"
    BY DEF InsertUser
<1>2. CASE End(c) /\ UNCHANGED <<rows, rowIds>>
    BY <1>1, <1>2, EndIInv DEF data
<1>3. ASSUME NEW i \in Fresh, NEW row,
             row = [id |-> i, email |-> call[c].email, supabaseId |-> None, pw |-> TRUE],
             InsertRow(row), Tokens(c, User(i, row.email))
      PROVE  IInv'
    <2>1. call[c].email \in Emails /\ call[c].account = None /\ i \in Ids
        BY <1>1 DEF IInv, Good, Syncing, Fresh
    <2>2. /\ row \in Row /\ row.id = i /\ row.email = call[c].email
          /\ row.supabaseId = None
        BY <1>3, <2>1 DEF Row
    <2>3. /\ DataInv' /\ rows' \subseteq Row /\ rowIds' \subseteq Ids \X Emails
          /\ rowIds \subseteq rowIds' /\ <<row.id, row.email>> \in rowIds'
        BY <1>1, <1>3, <2>2, NewRow
    <2> DEFINE u == User(i, row.email)
               q == [call[c] EXCEPT !.pc = "tokens", !.user = u]
    <2>4. u \in AuthUser /\ u # None /\ u.id = i /\ u.email = row.email
        BY <2>1, <2>2, UserFacts
    <2>5. call' = [call EXCEPT ![c] = q]
        BY <1>3 DEF Tokens, Goto
    <2> HIDE DEF u
    <2>6. q \in Call /\ q.pc = "tokens" /\ q.user = u /\ q.account = None
      <3>1. call[c] \in Call
          BY DEF IInv, TypeOK
      <3>2. \A p \in Call : p.account = None =>
              LET n == [p EXCEPT !.pc = "tokens", !.user = u] IN
              n \in Call /\ n.pc = "tokens" /\ n.user = u /\ n.account = None
          BY <2>4 DEF Call, Steps
      <3> QED BY <2>1, <3>1, <3>2
    <2> HIDE DEF q
    <2>7. Good(q, accountIds', rowIds')
        BY <2>2, <2>3, <2>4, <2>6 DEF Good, Syncing
    <2> QED BY <1>1, <2>3, <2>4, <2>5, <2>6, <2>7, OneCall DEF IInv, TypeOK
<1> QED BY <1>2, <1>3 DEF InsertUser

LEMMA CreateAccountIInv ==
    ASSUME IInv, NEW c \in Calls, CreateAccount(c)
    PROVE  IInv'
<1>1. UNCHANGED <<provider, rows, minted, rowIds>> /\ call[c].pc = "createAccount"
    BY DEF CreateAccount
<1>2. CASE End(c) /\ UNCHANGED <<accounts, accountIds>>
    BY <1>1, <1>2, EndIInv DEF data
<1>3. ASSUME NEW i \in Fresh,
             accounts' = accounts \cup {[id |-> i, email |-> call[c].email]},
             accountIds' = accountIds \cup {<<i, call[c].email>>},
             Goto(c, [call[c] EXCEPT !.pc = "syncFind", !.account = i])
      PROVE  IInv'
    <2>1. call[c].email \in Emails
        BY <1>1 DEF IInv, Good
    <2>2. i \in Ids /\ \A f \in Emails : <<i, f>> \notin accountIds
        BY DEF Fresh
    <2>3. accountIds \subseteq accountIds' /\ accountIds' \subseteq Ids \X Emails
        BY <1>3, <2>1, <2>2 DEF IInv, TypeOK
    <2>4. OneEmail'
      <3> SUFFICES ASSUME NEW j \in Ids, NEW f \in Emails, NEW g \in Emails,
                          <<j, f>> \in accountIds', <<j, g>> \in accountIds'
                   PROVE  f = g
          BY DEF OneEmail
      <3>1. CASE j = i
          BY <1>3, <2>2, <3>1
      <3>2. CASE j # i
          BY <1>3, <3>2 DEF IInv, DataInv, OneEmail
      <3> QED BY <3>1, <3>2
    <2>5. accounts' \subseteq Account
        BY <1>3, <2>1, <2>2 DEF Account, IInv, TypeOK
    <2>6. DataInv'
      <3>1. \A row \in rows' : /\ <<row.id, row.email>> \in rowIds'
                               /\ LinkedRow(row, accountIds', rowIds')
          BY <1>1, <2>3 DEF IInv, DataInv, LinkedRow
      <3>2. \A a \in accounts' : <<a.id, a.email>> \in accountIds'
        <4> SUFFICES ASSUME NEW a \in accounts' PROVE <<a.id, a.email>> \in accountIds'
            OBVIOUS
        <4>1. CASE a \in accounts
            BY <1>3, <4>1 DEF IInv, DataInv
        <4>2. CASE a = [id |-> i, email |-> call[c].email]
            BY <1>3, <4>2
        <4> QED BY <1>3, <4>1, <4>2
      <3>3. TokensNameOwner'
          BY <1>1, <2>3 DEF IInv, DataInv, TokensNameOwner
      <3> QED BY <2>4, <3>1, <3>2, <3>3 DEF DataInv
    <2> DEFINE q == [call[c] EXCEPT !.pc = "syncFind", !.account = i]
    <2>7. /\ q \in Call /\ q.pc = "syncFind" /\ q.account = i
          /\ q.email = call[c].email
        BY <2>2 DEF IInv, TypeOK, Call, Steps
    <2>8. call' = [call EXCEPT ![c] = q]
        BY <1>3 DEF Goto
    <2> HIDE DEF q
    <2>9. Good(q, accountIds', rowIds')
        BY <1>3, <2>1, <2>2, <2>7 DEF Good, Syncing
    <2> QED BY <1>1, <2>3, <2>5, <2>6, <2>7, <2>8, <2>9, OneCall DEF IInv, TypeOK
<1> QED BY <1>2, <1>3 DEF CreateAccount

LEMMA IssueTokensIInv ==
    ASSUME IInv, NEW c \in Calls, IssueTokens(c)
    PROVE  IInv'
<1>1. /\ minted' = minted \cup {[sub |-> call[c].user.id, email |-> call[c].user.email]}
      /\ call' = [call EXCEPT ![c] = Idle]
      /\ UNCHANGED <<provider, rows, accounts, accountIds, rowIds>>
      /\ call[c].pc = "tokens"
    BY DEF IssueTokens, End, Goto
<1>2. /\ call[c].user \in AuthUser
      /\ <<call[c].user.id, call[c].user.email>> \in rowIds \cup accountIds
    BY <1>1 DEF IInv, Good
<1>3. minted' \subseteq Payload
    BY <1>1, <1>2 DEF IInv, TypeOK, AuthUser, Payload
<1>4. DataInv'
    BY <1>1, <1>2 DEF IInv, DataInv, LinkedRow, Twice, TokensNameOwner, OneEmail
<1> QED BY <1>1, <1>3, <1>4, IdleGood, OneCall DEF IInv, TypeOK

-----------------------------------------------------------------------------
(* syncSupabaseUser *)

\* The account a call synchronises.
LEMMA SyncAccount ==
    ASSUME IInv, NEW c \in Calls, call[c].pc \in Syncing
    PROVE  /\ call[c].account \in Ids /\ call[c].email \in Emails
           /\ <<call[c].account, call[c].email>> \in accountIds
BY DEF IInv, Good

\* The call goes on as the user with id i and email e.
LEMMA SyncedIInv ==
    ASSUME IInv, NEW c \in Calls, NEW i \in Ids, NEW e \in Emails,
           Synced(c, User(i, e)),
           <<i, e>> \in rowIds' \cup accountIds,
           e = call[c].email \/ Twice(i, rowIds'),
           DataInv', rows' \subseteq Row,
           rowIds \subseteq rowIds', rowIds' \subseteq Ids \X Emails,
           UNCHANGED <<provider, accounts, minted, accountIds>>
    PROVE  IInv'
<1> DEFINE p == IF call[c].op = "verify" THEN "handler" ELSE "tokens"
           u == User(i, e)
           q == [call[c] EXCEPT !.user = u, !.pc = p]
<1>1. p \in {"handler", "tokens"} /\ p \in Steps
    BY DEF Steps
<1>2. call' = [call EXCEPT ![c] = q]
    BY DEF Synced, Goto
<1>3. u \in AuthUser /\ u # None /\ u.id = i /\ u.email = e
    BY UserFacts
<1> HIDE DEF p, u
<1>4. /\ q \in Call /\ q.pc = p /\ q.user = u /\ q.email = call[c].email
    BY <1>1, <1>3 DEF IInv, TypeOK, Call
<1> HIDE DEF q
<1>5. Good(q, accountIds', rowIds')
    BY <1>1, <1>3, <1>4 DEF Good, Syncing
<1> QED BY <1>2, <1>3, <1>4, <1>5, OneCall DEF IInv, TypeOK

LEMMA SyncFailsIInv ==
    ASSUME IInv, NEW c \in Calls, call[c].pc \in Syncing, SyncFails(c),
           UNCHANGED <<provider, data>>
    PROVE  IInv'
<1>1. CASE End(c)
    BY <1>1, EndIInv
<1>2. CASE Synced(c, User(call[c].account, call[c].email))
    BY <1>2, SyncAccount, SameData, SyncedIInv DEF data, IInv, TypeOK
<1> QED BY <1>1, <1>2 DEF SyncFails

LEMMA SyncFindIInv ==
    ASSUME IInv, NEW c \in Calls, SyncFind(c)
    PROVE  IInv'
<1>1. UNCHANGED <<provider, data>> /\ call[c].pc = "syncFind" /\ call[c].pc \in Syncing
    BY DEF SyncFind, Syncing
<1>2. /\ call[c].account \in Ids /\ call[c].email \in Emails
      /\ <<call[c].account, call[c].email>> \in accountIds
    BY <1>1, SyncAccount
<1>3. ASSUME NEW row \in rows,
             row.supabaseId = call[c].account \/ row.email = call[c].email,
             Goto(c, [call[c] EXCEPT !.id = row.id,
                        !.pc = IF row.supabaseId = None THEN "link" ELSE "touch"])
      PROVE  IInv'
    <2> DEFINE p == IF row.supabaseId = None THEN "link" ELSE "touch"
               q == [call[c] EXCEPT !.id = row.id, !.pc = p]
    <2>1. row \in Row /\ row.id \in Ids /\ row.email \in Emails /\ <<row.id, row.email>> \in rowIds
        BY DEF IInv, TypeOK, DataInv, Row
    <2>2. /\ q \in Call /\ q.pc = p /\ q.id = row.id /\ q.email = call[c].email
          /\ q.account = call[c].account /\ p \in {"link", "touch"}
        BY <2>1 DEF IInv, TypeOK, Call, Steps
    <2>3. p = "link" => <<row.id, call[c].email>> \in rowIds
        BY <1>2, <1>3, <2>1, ConstantsAssumption
    <2>4. <<row.id, call[c].email>> \in rowIds \/ Twice(row.id, rowIds)
      <3>1. CASE row.email = call[c].email
          BY <2>1, <3>1
      <3>2. CASE row.supabaseId = call[c].account
        <4>1. <<call[c].account, row.email>> \in accountIds \/ Twice(row.id, rowIds)
            BY <1>2, <3>2, ConstantsAssumption DEF IInv, DataInv, LinkedRow
        <4> QED BY <1>2, <2>1, <4>1 DEF IInv, DataInv, OneEmail
      <3> QED BY <1>3, <3>1, <3>2
    <2>5. call' = [call EXCEPT ![c] = q]
        BY <1>3 DEF Goto
    <2> HIDE DEF p, q
    <2>6. Good(q, accountIds, rowIds)
        BY <1>2, <2>1, <2>2, <2>3, <2>4 DEF Good, Syncing
    <2> QED BY <1>1, <2>2, <2>5, <2>6, QuietCall
<1>4. ASSUME Goto(c, [call[c] EXCEPT !.pc = "create"]) PROVE IInv'
    <2> DEFINE q == [call[c] EXCEPT !.pc = "create"]
    <2>1. /\ q \in Call /\ q.pc = "create" /\ q.email = call[c].email
          /\ q.account = call[c].account
        BY DEF IInv, TypeOK, Call, Steps
    <2>2. call' = [call EXCEPT ![c] = q]
        BY <1>4 DEF Goto
    <2> HIDE DEF q
    <2>3. Good(q, accountIds, rowIds)
        BY <1>2, <2>1 DEF Good, Syncing
    <2> QED BY <1>1, <2>1, <2>2, <2>3, QuietCall
<1> QED BY <1>1, <1>3, <1>4, SyncFailsIInv DEF SyncFind

\* The row of now under the id that SyncFind read: of the same email, or its id
\* had two.
LEMMA Namesake ==
    ASSUME IInv, NEW c \in Calls, call[c].pc \in {"link", "touch"},
           NEW row \in rows, row.id = call[c].id
    PROVE  /\ row \in Row /\ row.id \in Ids /\ row.email \in Emails
           /\ <<row.id, row.email>> \in rowIds
           /\ row.email = call[c].email \/ Twice(row.id, rowIds)
<1>1. /\ row \in Row /\ row.id \in Ids /\ row.email \in Emails
      /\ <<row.id, row.email>> \in rowIds
    BY DEF IInv, TypeOK, DataInv, Row
<1>2. <<row.id, call[c].email>> \in rowIds \/ Twice(row.id, rowIds)
    BY DEF IInv, Good
<1>3. call[c].email \in Emails
    BY SyncAccount DEF Syncing
<1> QED BY <1>1, <1>2, <1>3 DEF Twice

LEMMA SyncLinkIInv ==
    ASSUME IInv, NEW c \in Calls, SyncLink(c)
    PROVE  IInv'
<1>1. /\ UNCHANGED <<provider, accounts, minted, accountIds, rowIds>>
      /\ call[c].pc = "link" /\ call[c].pc \in Syncing
    BY DEF SyncLink, Syncing
<1>2. CASE SyncFails(c) /\ UNCHANGED rows
    BY <1>1, <1>2, SyncFailsIInv DEF data
<1>3. ASSUME NEW row \in rows, row.id = call[c].id, NEW new,
             new = [row EXCEPT !.supabaseId = call[c].account],
             Replace(row, new), Synced(c, User(row.id, row.email))
      PROVE  IInv'
    <2>1. /\ row \in Row /\ row.id \in Ids /\ row.email \in Emails
          /\ <<row.id, row.email>> \in rowIds
          /\ row.email = call[c].email \/ Twice(row.id, rowIds)
        BY <1>1, <1>3, Namesake
    <2>2. /\ new \in Row /\ new.id = row.id /\ new.email = row.email
          /\ new.supabaseId = call[c].account
        BY <1>1, <1>3, <2>1, SyncAccount DEF Row
    <2>3. LinkedRow(new, accountIds, rowIds)
        BY <1>1, <2>1, <2>2, SyncAccount DEF LinkedRow
    <2>4. rows' = (rows \ {row}) \cup {new}
        BY <1>3 DEF Replace
    <2>5. rows' \subseteq Row
        BY <2>2, <2>4 DEF IInv, TypeOK
    <2>6. \A other \in rows' : /\ <<other.id, other.email>> \in rowIds
                               /\ LinkedRow(other, accountIds, rowIds)
        BY <2>1, <2>2, <2>3, <2>4 DEF IInv, DataInv
    <2>7. TokensNameOwner' /\ OneEmail' /\ \A a \in accounts' : <<a.id, a.email>> \in accountIds'
        BY <1>1 DEF IInv, DataInv, TokensNameOwner, OneEmail
    <2>8. DataInv'
        BY <1>1, <2>6, <2>7 DEF DataInv, LinkedRow, Twice
    <2> QED BY <1>1, <1>3, <2>1, <2>5, <2>8, SyncedIInv DEF IInv, TypeOK
<1> QED BY <1>2, <1>3 DEF SyncLink

LEMMA SyncTouchIInv ==
    ASSUME IInv, NEW c \in Calls, SyncTouch(c)
    PROVE  IInv'
<1>1. UNCHANGED <<provider, data>> /\ call[c].pc = "touch" /\ call[c].pc \in Syncing
    BY DEF SyncTouch, Syncing
<1>2. ASSUME NEW row \in rows, row.id = call[c].id, Synced(c, User(row.id, row.email))
      PROVE  IInv'
    <2>1. /\ row.id \in Ids /\ row.email \in Emails /\ <<row.id, row.email>> \in rowIds
          /\ row.email = call[c].email \/ Twice(row.id, rowIds)
        BY <1>1, <1>2, Namesake
    <2> QED BY <1>1, <1>2, <2>1, SameData, SyncedIInv DEF data, IInv, TypeOK
<1> QED BY <1>1, <1>2, SyncFailsIInv DEF SyncTouch

LEMMA SyncCreateIInv ==
    ASSUME IInv, NEW c \in Calls, SyncCreate(c)
    PROVE  IInv'
<1>1. /\ UNCHANGED <<provider, accounts, minted, accountIds>>
      /\ call[c].pc = "create" /\ call[c].pc \in Syncing
    BY DEF SyncCreate, Syncing
<1>2. CASE SyncFails(c) /\ UNCHANGED <<rows, rowIds>>
    BY <1>1, <1>2, SyncFailsIInv DEF data
<1>3. ASSUME NEW i \in Fresh, NEW row,
             row = [id |-> i, email |-> call[c].email, supabaseId |-> call[c].account,
                    pw |-> FALSE],
             InsertRow(row), Synced(c, User(i, call[c].email))
      PROVE  IInv'
    <2>1. /\ row \in Row /\ row.id = i /\ row.email = call[c].email
          /\ row.supabaseId = call[c].account /\ i \in Ids
        BY <1>1, <1>3, SyncAccount DEF Row, Fresh
    <2>2. /\ call[c].email \in Emails
          /\ <<row.supabaseId, row.email>> \in accountIds
        BY <1>1, <2>1, SyncAccount
    <2>3. /\ DataInv' /\ rows' \subseteq Row /\ rowIds' \subseteq Ids \X Emails
          /\ rowIds \subseteq rowIds' /\ <<row.id, row.email>> \in rowIds'
        BY <1>1, <1>3, <2>1, <2>2, NewRow
    <2> QED BY <1>1, <1>3, <2>1, <2>2, <2>3, SyncedIInv
<1> QED BY <1>2, <1>3 DEF SyncCreate

-----------------------------------------------------------------------------
(* updateUser, deleteUser, UsersService.create and the environment *)

LEMMA UpdateUserIInv ==
    ASSUME IInv, NEW row \in rows, NEW e \in Emails, UpdateUser(row.id, e)
    PROVE  IInv'
<1>1. UNCHANGED <<provider, accounts, minted, call, accountIds>>
    BY DEF UpdateUser
<1>2. PICK old \in rows : /\ old.id = row.id
                          /\ Replace(old, [old EXCEPT !.email = e])
                          /\ Named([old EXCEPT !.email = e])
    BY DEF UpdateUser
<1> DEFINE new == [old EXCEPT !.email = e]
<1>3. /\ old \in Row /\ old.id \in Ids /\ old.email \in Emails
      /\ <<old.id, old.email>> \in rowIds
      /\ LinkedRow(old, accountIds, rowIds)
    BY DEF IInv, TypeOK, DataInv, Row
<1>4. /\ new \in Row /\ new.id = old.id /\ new.email = e
      /\ new.supabaseId = old.supabaseId
    BY <1>2, <1>3 DEF Row
<1>5. rows' = (rows \ {old}) \cup {new} /\ rowIds' = rowIds \cup {<<old.id, e>>}
    BY <1>2, <1>4 DEF Replace, Named
<1> HIDE DEF new
<1>6. \A i : Twice(i, rowIds) => Twice(i, rowIds')
    BY <1>5, TwiceStays
<1>7. rowIds' \subseteq Ids \X Emails /\ rows' \subseteq Row
    BY <1>3, <1>4, <1>5 DEF IInv, TypeOK
<1>8. old.email = e \/ Twice(old.id, rowIds')
    BY <1>3, <1>5 DEF Twice
<1>9. LinkedRow(new, accountIds, rowIds')
    BY <1>3, <1>4, <1>6, <1>8 DEF LinkedRow
<1>10. \A other \in rows' : /\ <<other.id, other.email>> \in rowIds'
                            /\ LinkedRow(other, accountIds, rowIds')
    BY <1>4, <1>5, <1>6, <1>9 DEF IInv, DataInv, LinkedRow
<1>11. TokensNameOwner' /\ OneEmail' /\ \A a \in accounts' : <<a.id, a.email>> \in accountIds'
    BY <1>1, <1>5 DEF IInv, DataInv, TokensNameOwner, OneEmail
<1>12. DataInv'
    BY <1>1, <1>10, <1>11 DEF DataInv, LinkedRow
<1>13. \A c \in Calls : Good(call'[c], accountIds', rowIds')
    BY <1>1, <1>5, GoodStays DEF IInv
<1> QED BY <1>1, <1>7, <1>12, <1>13 DEF IInv, TypeOK

LEMMA DeleteUserIInv ==
    ASSUME IInv, NEW c \in Calls, NEW row \in rows, DeleteUser(c, row.id)
    PROVE  IInv'
<1>1. UNCHANGED <<provider, accounts, minted, accountIds, rowIds>> /\ rows' \subseteq rows
    BY DEF DeleteUser
<1>2. PICK q \in Call : /\ call' = [call EXCEPT ![c] = q] /\ q.account = None
                        /\ q.pc \in {"idle", "findAgain"}
  <2> DEFINE r == [Idle EXCEPT !.op = "delete", !.pc = "findAgain", !.id = row.id]
  <2>1. r \in Call /\ r.account = None /\ r.pc = "findAgain"
      BY DEF Idle, Call, Steps, IInv, TypeOK, Row
  <2>2. Idle \in Call /\ Idle.account = None /\ Idle.pc = "idle"
      BY IdleGood DEF Idle
  <2>3. call' = [call EXCEPT ![c] = IF provider = "jwt" THEN Idle ELSE r]
      BY DEF DeleteUser, Begin, Goto
  <2> HIDE DEF r
  <2> QED BY <2>1, <2>2, <2>3
<1>3. Good(q, accountIds', rowIds')
    BY <1>2 DEF Good, Syncing
<1>4. DataInv'
    BY <1>1 DEF IInv, DataInv, LinkedRow, Twice, TokensNameOwner, OneEmail
<1> QED BY <1>1, <1>2, <1>3, <1>4, OneCall DEF IInv, TypeOK

LEMMA FindAgainIInv ==
    ASSUME IInv, NEW c \in Calls, FindAgain(c)
    PROVE  IInv'
<1>1. /\ UNCHANGED <<provider, rows, minted, accountIds, rowIds>>
      /\ accounts' \subseteq accounts /\ call' = [call EXCEPT ![c] = Idle]
    BY DEF FindAgain, End, Goto
<1>2. DataInv'
    BY <1>1 DEF IInv, DataInv, LinkedRow, Twice, TokensNameOwner, OneEmail
<1> QED BY <1>1, <1>2, IdleGood, OneCall DEF IInv, TypeOK

\* Whichever id the client sent, the new row is not linked.
LEMMA CreateInsertIInv ==
    ASSUME IInv, NEW c \in Calls, CreateInsert(c)
    PROVE  IInv'
<1>1. /\ UNCHANGED <<provider, accounts, minted, accountIds>>
      /\ call[c].pc = "createInsert" /\ End(c)
    BY DEF CreateInsert
<1>2. CASE UNCHANGED <<rows, rowIds>>
    BY <1>1, <1>2, EndIInv DEF data
<1>3. ASSUME NEW row, InsertRow(row),
             row = [id |-> call[c].id, email |-> call[c].email, supabaseId |-> None,
                    pw |-> FALSE]
      PROVE  IInv'
    <2>1. call[c].id \in Ids /\ call[c].email \in Emails
        BY <1>1 DEF IInv, Good
    <2>2. row \in Row /\ row.supabaseId = None
        BY <1>3, <2>1 DEF Row
    <2>3. /\ DataInv' /\ rows' \subseteq Row /\ rowIds' \subseteq Ids \X Emails
          /\ rowIds \subseteq rowIds'
        BY <1>1, <1>3, <2>2, NewRow
    <2> QED BY <1>1, <2>3, IdleGood, OneCall DEF IInv, TypeOK, End, Goto
<1> QED BY <1>2, <1>3 DEF CreateInsert

LEMMA RestIInv ==
    ASSUME IInv, UNCHANGED vars \/ \E a \in accounts : RemoveAccount(a)
    PROVE  IInv'
<1>1. /\ UNCHANGED <<provider, rows, minted, call, accountIds, rowIds>>
      /\ accounts' \subseteq accounts
    BY DEF vars, RemoveAccount
<1>2. DataInv'
    BY <1>1 DEF IInv, DataInv, LinkedRow, Twice, TokensNameOwner, OneEmail
<1> QED BY <1>1, <1>2 DEF IInv, TypeOK

LEMMA ReturnIInv ==
    ASSUME IInv, NEW c \in Calls, Return(c)
    PROVE  IInv'
BY EndIInv DEF Return

LEMMA StepIInv ==
    ASSUME IInv, NEW c \in Calls, Step(c)
    PROVE  IInv'
BY InsertUserIInv, CreateAccountIInv, IssueTokensIInv, SyncFindIInv, SyncLinkIInv,
   SyncTouchIInv, SyncCreateIInv, FindAgainIInv, CreateInsertIInv, ReturnIInv DEF Step

LEMMA Invariance == Spec => []IInv
<1>1. IInv /\ [Next]_vars => IInv'
    BY ArrivalIInv, KnownIInv, StepIInv, DeleteUserIInv, UpdateUserIInv, RestIInv DEF Next
<1> QED BY <1>1, InitIInv, PTL DEF Spec

-----------------------------------------------------------------------------

\* In particular, tokens and handlers are never reached without a user.
THEOREM TypeCorrect == Spec => []TypeOK
<1>1. IInv => TypeOK
    BY DEF IInv
<1> QED BY <1>1, Invariance, PTL

\* No token pairs an id with an email that neither a row nor an account of that id
\* ever had.
THEOREM TokensNameOwners == Spec => []TokensNameOwner
<1>1. IInv => TokensNameOwner
    BY DEF IInv, DataInv
<1> QED BY <1>1, Invariance, PTL

\* An account becomes a user with its own email, or one of a row whose own email
\* was changed or whose id a client used again, whatever id clients send to
\* UsersService.create and whatever is removed meanwhile.
THEOREM AccountsSignInAsOwners == Spec => []SignedInAsOwner
<1>1. IInv => SignedInAsOwner
    BY DEF IInv, Good, SignedInAsOwner, Renamed, Twice
<1> QED BY <1>1, Invariance, PTL

==============================================================================
