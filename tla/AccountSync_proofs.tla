------------------------- MODULE AccountSync_proofs -------------------------
(***************************************************************************)
(* Proofs about AccountSync for every set of emails, ids and requests, and *)
(* every choice of operations and faults.  The row a search returned may   *)
(* be gone, or another row may have its place, when it is linked: LinkSound*)
(* needs to know whose row the search returned (Carried), so that a row of *)
(* another email under its id shows that the id was used again.            *)
(*                                                                         *)
(* The first lemmas say what the ways of advancing a request change, the   *)
(* next ones when the parts of IInv about requests survive it.             *)
(***************************************************************************)
EXTENDS AccountSync, TLAPS

\* Only the request r advances.
OnlyReq(r) ==
    /\ req' \in [Requests -> Request]
    /\ \A s \in Requests : s # r => req'[s] = req[s]

\* It stays the same client's request.
SameCall(r) ==
    /\ req'[r].op = req[r].op
    /\ req'[r].email = req[r].email
    /\ req'[r].id = req[r].id

LEMMA AnswerFacts ==
    ASSUME req \in [Requests -> Request], NEW r \in Requests, Answer(r)
    PROVE  /\ OnlyReq(r)
           /\ req'[r].op = "none" /\ req'[r].pc = "idle"
<1>1. Idle \in Request
  BY DEF Idle, Request
<1>2. Idle.op = "none" /\ Idle.pc = "idle"
  BY DEF Idle
<1> QED BY <1>1, <1>2 DEF Answer, OnlyReq

LEMMA GotoFacts ==
    ASSUME req \in [Requests -> Request], NEW r \in Requests,
           NEW label \in Working, Goto(r, label)
    PROVE  /\ OnlyReq(r) /\ SameCall(r)
           /\ req'[r].pc = label /\ req'[r].user = req[r].user
BY DEF Goto, OnlyReq, SameCall, Request

LEMMA LocalUserFacts ==
    ASSUME req \in [Requests -> Request], NEW r \in Requests,
           NEW i \in Ids, NEW e \in Emails, NEW label \in Working,
           LocalUser(r, i, e, label)
    PROVE  /\ OnlyReq(r) /\ SameCall(r) /\ req'[r].pc = label
           /\ req'[r].sub = i /\ req'[r].subEmail = e
<1> DEFINE q == [[[req[r] EXCEPT !.sub = i] EXCEPT !.subEmail = e] EXCEPT !.pc = label]
<1>1. req' = [req EXCEPT ![r] = q]
  BY DEF LocalUser
<1>2. [req[r] EXCEPT !.sub = i] \in Request
  BY DEF Request
<1>3. \A p \in Request : [p EXCEPT !.subEmail = e] \in Request
  BY DEF Request
<1>4. \A p \in Request : [p EXCEPT !.pc = label] \in Request
  BY DEF Request
<1>5. q \in Request
  BY <1>2, <1>3, <1>4
<1>6. /\ q.op = req[r].op /\ q.email = req[r].email /\ q.id = req[r].id
      /\ q.pc = label /\ q.sub = i /\ q.subEmail = e
  BY DEF Request
<1> HIDE DEF q
<1>7. req'[r] = q /\ \A s \in Requests : s # r => req'[s] = req[s]
  BY <1>1
<1>8. req' \in [Requests -> Request]
  BY <1>1, <1>5
<1>9. OnlyReq(r)
  BY <1>7, <1>8 DEF OnlyReq
<1>10. SameCall(r)
  BY <1>6, <1>7 DEF SameCall
<1> QED BY <1>6, <1>7, <1>9, <1>10

LEMMA AfterSyncFacts ==
    ASSUME req \in [Requests -> Request], NEW r \in Requests,
           NEW row \in Row, AfterSync(r, row)
    PROVE  /\ OnlyReq(r) /\ SameCall(r)
           /\ req'[r].sub = row.id /\ req'[r].subEmail = row.email
           /\ \/ req'[r].pc = "handler"
              \/ req'[r].pc = "mint" /\ req[r].op # "guard"
<1> DEFINE label == IF req[r].op = "guard" THEN "handler" ELSE "mint"
<1>1. label \in Working
  BY DEF Working
<1>2. row.id \in Ids /\ row.email \in Emails
  BY DEF Row
<1>3. LocalUser(r, row.id, row.email, label)
  BY DEF AfterSync
<1>4. label = "handler" \/ (label = "mint" /\ req[r].op # "guard")
  BY Zenon
<1> HIDE DEF label
<1>5. /\ OnlyReq(r) /\ SameCall(r) /\ req'[r].pc = label
      /\ req'[r].sub = row.id /\ req'[r].subEmail = row.email
  BY <1>1, <1>2, <1>3, LocalUserFacts
<1> QED BY <1>4, <1>5

LEMMA FallbackFacts ==
    ASSUME req \in [Requests -> Request], NEW r \in Requests,
           req[r].user \in Ids, req[r].email \in Emails,
           SyncFails(r), req[r].op = "register"
    PROVE  /\ OnlyReq(r) /\ SameCall(r) /\ req'[r].pc = "mint"
           /\ req'[r].sub = req[r].user /\ req'[r].subEmail = req[r].email
<1>1. "mint" \in Working
  BY DEF Working
<1>2. LocalUser(r, req[r].user, req[r].email, "mint")
  BY DEF SyncFails
<1> QED BY <1>1, <1>2, LocalUserFacts

LEMMA FoundFacts ==
    ASSUME req \in [Requests -> Request], NEW r \in Requests,
           NEW i \in Ids, NEW label \in Working,
           Found(r, i, label)
    PROVE  /\ OnlyReq(r) /\ SameCall(r) /\ req'[r].user = req[r].user
           /\ req'[r].found = i /\ req'[r].pc = label
BY DEF Found, OnlyReq, SameCall, Request

LEMMA IdentifiedFacts ==
    ASSUME req \in [Requests -> Request], NEW r \in Requests, NEW i \in Ids,
           Identified(r, i)
    PROVE  /\ OnlyReq(r) /\ SameCall(r)
           /\ req'[r].user = i /\ req'[r].pc = "find"
<1>1. "find" \in Working
  BY DEF Working, Sync
<1> QED BY <1>1 DEF Identified, OnlyReq, SameCall, Request

LEMMA StartFacts ==
    ASSUME req \in [Requests -> Request], NEW r \in Requests,
           NEW q \in Request, Start(r, q)
    PROVE  OnlyReq(r) /\ req'[r] = q
BY DEF Start, OnlyReq

-----------------------------------------------------------------------------

\* What the other requests carry stays true while the histories grow.
LEMMA CarriedPreserved ==
    ASSUME NEW r \in Requests, OnlyReq(r),
           accountIds \subseteq accountIds', rowIds \subseteq rowIds',
           \A s \in Requests : Carried(req[s]),
           Carried(req[r])'
    PROVE  (\A s \in Requests : Carried(req[s]))'
<1> SUFFICES ASSUME NEW s \in Requests PROVE Carried(req[s])'
  OBVIOUS
<1>1. CASE s = r
  BY <1>1
<1>2. CASE s # r
  <2>1. req'[s] = req[s]
    BY <1>2 DEF OnlyReq
  <2> QED BY <2>1 DEF Carried
<1> QED BY <1>1, <1>2

\* A step that changes nothing but the request r.
LEMMA QuietStep ==
    ASSUME IInv, NEW r \in Requests, OnlyReq(r), Carried(req[r])',
           UNCHANGED <<accounts, rows, minted, accountIds, rowIds>>
    PROVE  IInv'
<1>1. TypeOK'
  BY DEF IInv, TypeOK, OnlyReq
<1>2. (\A s \in Requests : Carried(req[s]))'
  BY CarriedPreserved DEF IInv
<1>3. (HistoryComplete /\ LinkSound /\ TokensNameOwner)'
  BY DEF IInv, HistoryComplete, LinkSound, Reused, TokensNameOwner
<1> QED BY <1>1, <1>2, <1>3 DEF IInv

LEMMA AnswerCarries ==
    ASSUME IInv, NEW r \in Requests, Answer(r)
    PROVE  OnlyReq(r) /\ Carried(req[r])'
<1>1. OnlyReq(r) /\ req'[r].op = "none" /\ req'[r].pc = "idle"
  BY AnswerFacts DEF IInv, TypeOK
<1> QED BY <1>1 DEF Carried, Sync

\* The request of a step that synchronises goes on in a state it may be in.
LEMMA SyncFailsCarries ==
    ASSUME IInv, NEW r \in Requests, req[r].pc \in Sync, SyncFails(r),
           UNCHANGED <<accountIds, rowIds>>
    PROVE  OnlyReq(r) /\ Carried(req[r])'
<1>1. CASE req[r].op # "register"
  BY <1>1, AnswerCarries DEF SyncFails
<1>2. CASE req[r].op = "register"
  <2>1. <<req[r].user, req[r].email>> \in accountIds
    BY DEF IInv, Carried
  <2>2. req[r].user \in Ids /\ req[r].email \in Emails
    BY <2>1 DEF IInv, TypeOK
  <2>3. /\ OnlyReq(r) /\ SameCall(r) /\ req'[r].pc = "mint"
        /\ req'[r].sub = req[r].user /\ req'[r].subEmail = req[r].email
    BY <1>2, <2>2, FallbackFacts DEF IInv, TypeOK
  <2> QED BY <1>2, <2>1, <2>2, <2>3 DEF Carried, SameCall, Sync
<1> QED BY <1>1, <1>2

LEMMA AfterSyncCarries ==
    ASSUME IInv, NEW r \in Requests, req[r].pc \in Sync,
           NEW row \in Row, AfterSync(r, row), <<row.id, row.email>> \in rowIds'
    PROVE  OnlyReq(r) /\ SameCall(r) /\ Carried(req[r])'
<1>1. /\ OnlyReq(r) /\ SameCall(r)
      /\ req'[r].sub = row.id /\ req'[r].subEmail = row.email
      /\ \/ req'[r].pc = "handler"
         \/ req'[r].pc = "mint" /\ req[r].op # "guard"
  BY AfterSyncFacts DEF IInv, TypeOK
<1>2. /\ req[r].op \in {"register", "login", "guard"}
      /\ <<req[r].user, req[r].email>> \in accountIds
  BY DEF IInv, Carried
<1>3. req[r].email \in Emails
  BY <1>2 DEF IInv, TypeOK
<1> QED BY <1>1, <1>2, <1>3 DEF Carried, SameCall, Sync

-----------------------------------------------------------------------------
(* syncSupabaseUser preserves the invariant. *)

LEMMA SyncFindStep ==
    ASSUME IInv, NEW r \in Requests, SyncFind(r)
    PROVE  IInv'
<1>1. /\ req[r].pc = "find" /\ "find" \in Sync
      /\ UNCHANGED <<accounts, rows, minted, accountIds, rowIds>>
  BY DEF SyncFind, Sync
<1>2. /\ req[r].op \in {"register", "login", "guard"}
      /\ <<req[r].user, req[r].email>> \in accountIds
      /\ req[r].user \in Ids /\ req[r].email \in Emails
  BY <1>1 DEF IInv, TypeOK, Carried
<1>3. ASSUME NEW row \in rows, Matches(row, req[r]), NEW label \in Working,
             label = IF row.supabaseId = None THEN "link" ELSE "update",
             Found(r, row.id, label)
      PROVE  IInv'
  <2>1. row.id \in Ids /\ <<row.id, row.email>> \in rowIds
    BY <1>3 DEF IInv, TypeOK, Row, HistoryComplete
  <2>2. label = "link" => row.email = req[r].email
    BY <1>2, <1>3, ConstantsAssumption DEF Matches
  <2>3. label \in {"link", "update"}
    BY <1>3
  <2>4. /\ OnlyReq(r) /\ SameCall(r) /\ req'[r].user = req[r].user
        /\ req'[r].found = row.id /\ req'[r].pc = label
    BY <1>3, <2>1, FoundFacts DEF IInv, TypeOK
  <2>5. Carried(req[r])'
    BY <1>1, <1>2, <2>1, <2>2, <2>3, <2>4 DEF Carried, SameCall, Sync
  <2> QED BY <1>1, <2>4, <2>5, QuietStep
<1>4. ASSUME Goto(r, "create") PROVE IInv'
  <2>1. "create" \in Working
    BY DEF Working, Sync
  <2>2. /\ OnlyReq(r) /\ SameCall(r)
        /\ req'[r].pc = "create" /\ req'[r].user = req[r].user
    BY <1>4, <2>1, GotoFacts DEF IInv, TypeOK
  <2>3. Carried(req[r])'
    BY <1>1, <1>2, <2>2 DEF Carried, SameCall, Sync
  <2> QED BY <1>1, <2>2, <2>3, QuietStep
<1>5. ASSUME SyncFails(r) PROVE IInv'
  BY <1>1, <1>5, SyncFailsCarries, QuietStep
<1>6. "link" \in Working /\ "update" \in Working
  BY DEF Working, Sync
<1> QED BY <1>3, <1>4, <1>5, <1>6 DEF SyncFind

LEMMA SyncLinkStep ==
    ASSUME IInv, NEW r \in Requests, SyncLink(r)
    PROVE  IInv'
<1>1. /\ req[r].pc = "link" /\ "link" \in Sync
      /\ UNCHANGED <<accounts, minted, accountIds, rowIds>>
  BY DEF SyncLink, Sync
<1>2. /\ <<req[r].user, req[r].email>> \in accountIds
      /\ <<req[r].found, req[r].email>> \in rowIds
  BY <1>1 DEF IInv, Carried
<1>3. req[r].user \in Ids /\ req[r].email \in Emails
  BY <1>2 DEF IInv, TypeOK
<1>4. ASSUME NEW row \in rows, row.id = req[r].found, AfterSync(r, row),
             rows' = (rows \ {row}) \cup {Linked(row, req[r].user)}
      PROVE  IInv'
  <2>1. /\ row \in Row /\ row.id \in Ids /\ row.email \in Emails
        /\ <<row.id, row.email>> \in rowIds
    BY <1>4 DEF IInv, TypeOK, Row, HistoryComplete
  <2> DEFINE new == Linked(row, req[r].user)
  <2>2. /\ new \in Row /\ new.id = row.id /\ new.email = row.email
        /\ new.supabaseId = req[r].user
    BY <1>3, <2>1 DEF Linked, Row
  <2>3. row.email = req[r].email \/ Reused(row.id)
    BY <1>2, <1>3, <1>4, <2>1 DEF Reused
  <2>4. OnlyReq(r) /\ SameCall(r) /\ Carried(req[r])'
    BY <1>1, <1>4, <2>1, AfterSyncCarries
  <2> HIDE DEF new
  <2>5. rows' = (rows \ {row}) \cup {new}
    BY <1>4 DEF new
  <2>6. TypeOK'
    BY <1>1, <2>2, <2>4, <2>5 DEF IInv, TypeOK, OnlyReq
  <2>7. HistoryComplete'
    BY <1>1, <2>1, <2>2, <2>5 DEF IInv, HistoryComplete
  <2>8. LinkSound'
    <3> SUFFICES ASSUME NEW n \in rows', n.supabaseId # None
                 PROVE  \/ <<n.supabaseId, n.email>> \in accountIds'
                        \/ Reused(n.id)'
      BY DEF LinkSound
    <3>1. \A i : Reused(i) => Reused(i)'
      BY <1>1 DEF Reused
    <3>2. CASE n \in rows
      BY <1>1, <3>1, <3>2 DEF IInv, LinkSound
    <3>3. CASE n = new
      <4>1. n.id = row.id /\ n.email = row.email /\ n.supabaseId = req[r].user
        BY <2>2, <3>3
      <4>2. CASE row.email = req[r].email
        BY <1>1, <1>2, <4>1, <4>2
      <4>3. CASE Reused(row.id)
        BY <3>1, <4>1, <4>3
      <4> QED BY <2>3, <4>2, <4>3
    <3> QED BY <2>5, <3>2, <3>3
  <2>9. (\A s \in Requests : Carried(req[s]))'
    BY <1>1, <2>4, CarriedPreserved DEF IInv
  <2>10. TokensNameOwner'
    BY <1>1 DEF IInv, TokensNameOwner
  <2> QED BY <2>6, <2>7, <2>8, <2>9, <2>10 DEF IInv
<1>5. ASSUME SyncFails(r), UNCHANGED rows PROVE IInv'
  BY <1>1, <1>5, SyncFailsCarries, QuietStep
<1> QED BY <1>4, <1>5 DEF SyncLink

LEMMA SyncUpdateStep ==
    ASSUME IInv, NEW r \in Requests, SyncUpdate(r)
    PROVE  IInv'
<1>1. /\ req[r].pc = "update" /\ "update" \in Sync
      /\ UNCHANGED <<accounts, rows, minted, accountIds, rowIds>>
  BY DEF SyncUpdate, Sync
<1>2. ASSUME NEW row \in rows, AfterSync(r, row) PROVE IInv'
  <2>1. row \in Row /\ <<row.id, row.email>> \in rowIds'
    BY <1>1, <1>2 DEF IInv, TypeOK, HistoryComplete
  <2> QED BY <1>1, <1>2, <2>1, AfterSyncCarries, QuietStep
<1>3. ASSUME SyncFails(r) PROVE IInv'
  BY <1>1, <1>3, SyncFailsCarries, QuietStep
<1> QED BY <1>2, <1>3 DEF SyncUpdate

\* The histories grow, so what is linked soundly stays so.
LEMMA LinksKeep ==
    ASSUME IInv, accountIds \subseteq accountIds', rowIds \subseteq rowIds',
           \A row \in rows' \ rows : row.supabaseId # None =>
               <<row.supabaseId, row.email>> \in accountIds'
    PROVE  LinkSound'
<1>1. \A i : Reused(i) => Reused(i)'
  BY DEF Reused
<1> QED BY <1>1 DEF IInv, LinkSound

LEMMA SyncCreateStep ==
    ASSUME IInv, NEW r \in Requests, SyncCreate(r)
    PROVE  IInv'
<1>1. /\ req[r].pc = "create" /\ "create" \in Sync
      /\ UNCHANGED <<accounts, minted, accountIds>>
  BY DEF SyncCreate, Sync
<1>2. <<req[r].user, req[r].email>> \in accountIds
  BY <1>1 DEF IInv, Carried
<1>3. req[r].user \in Ids /\ req[r].email \in Emails
  BY <1>2 DEF IInv, TypeOK
<1>4. ASSUME NEW i \in Fresh, NEW new \in Row,
             new = [id |-> i, email |-> req[r].email, supabaseId |-> req[r].user],
             InsertRow(new), AfterSync(r, new)
      PROVE  IInv'
  <2>1. /\ new.id = i /\ new.email = req[r].email /\ new.supabaseId = req[r].user
        /\ i \in Ids
    BY <1>4 DEF Fresh
  <2>2. rows' = rows \cup {new} /\ rowIds' = rowIds \cup {<<i, req[r].email>>}
    BY <1>4, <2>1 DEF InsertRow
  <2>3. OnlyReq(r) /\ SameCall(r) /\ Carried(req[r])'
    BY <1>1, <1>4, <2>1, <2>2, AfterSyncCarries
  <2>4. TypeOK'
    BY <1>1, <1>3, <2>1, <2>2, <2>3 DEF IInv, TypeOK, OnlyReq
  <2>5. HistoryComplete'
    BY <1>1, <2>1, <2>2 DEF IInv, HistoryComplete
  <2>6. LinkSound'
    BY <1>1, <1>2, <2>1, <2>2, LinksKeep
  <2>7. (\A s \in Requests : Carried(req[s]))'
    BY <1>1, <2>2, <2>3, CarriedPreserved DEF IInv
  <2>8. TokensNameOwner'
    BY <1>1, <2>2 DEF IInv, TokensNameOwner
  <2> QED BY <2>4, <2>5, <2>6, <2>7, <2>8 DEF IInv
<1>5. ASSUME SyncFails(r), UNCHANGED <<rows, rowIds>> PROVE IInv'
  BY <1>1, <1>5, SyncFailsCarries, QuietStep
<1>6. \A i \in Fresh :
        [id |-> i, email |-> req[r].email, supabaseId |-> req[r].user] \in Row
  BY <1>3 DEF Fresh, Row
<1> QED BY <1>4, <1>5, <1>6 DEF SyncCreate

-----------------------------------------------------------------------------
(* register, login and the guard preserve the invariant. *)

LEMMA MintStep ==
    ASSUME IInv, NEW r \in Requests, Mint(r)
    PROVE  IInv'
<1>1. /\ req[r].pc = "mint" /\ Answer(r)
      /\ UNCHANGED <<accounts, rows, accountIds, rowIds>>
  BY DEF Mint
<1> DEFINE token == [sub |-> req[r].sub, email |-> req[r].subEmail, by |-> req[r].op]
<1>2. /\ req[r].op \in {"register", "login"}
      /\ \/ <<req[r].sub, req[r].subEmail>> \in rowIds
         \/ req[r].op = "register" /\ <<req[r].sub, req[r].subEmail>> \in accountIds
  BY <1>1 DEF IInv, Carried
<1>3. req[r].sub \in Ids /\ req[r].subEmail \in Emails
  BY <1>2 DEF IInv, TypeOK
<1>4. minted' = minted \cup {token}
  BY DEF Mint
<1>5. OnlyReq(r) /\ Carried(req[r])'
  BY <1>1, AnswerCarries
<1>6. TypeOK'
  BY <1>1, <1>2, <1>3, <1>4, <1>5 DEF IInv, TypeOK, OnlyReq
<1>7. TokensNameOwner'
  <2>1. token.sub = req[r].sub /\ token.email = req[r].subEmail /\ token.by = req[r].op
    OBVIOUS
  <2> HIDE DEF token
  <2> QED BY <1>1, <1>2, <1>4, <2>1 DEF IInv, TokensNameOwner
<1>8. (\A s \in Requests : Carried(req[s]))'
  BY <1>1, <1>5, CarriedPreserved DEF IInv
<1>9. HistoryComplete' /\ LinkSound'
  BY <1>1, LinksKeep DEF IInv, HistoryComplete
<1> QED BY <1>6, <1>7, <1>8, <1>9 DEF IInv

LEMMA CreateAccountStep ==
    ASSUME IInv, NEW r \in Requests, CreateAccount(r)
    PROVE  IInv'
<1>1. req[r].pc = "createAccount" /\ UNCHANGED <<rows, minted, rowIds>>
  BY DEF CreateAccount
<1>2. req[r].op = "register" /\ req[r].email \in Emails
  BY <1>1 DEF IInv, Carried
<1>3. ASSUME NEW i \in Fresh, NEW a \in Account,
             a = [id |-> i, email |-> req[r].email],
             accounts' = accounts \cup {a},
             accountIds' = accountIds \cup {<<i, req[r].email>>},
             Identified(r, i)
      PROVE  IInv'
  <2>1. a.id = i /\ a.email = req[r].email /\ i \in Ids
    BY <1>3 DEF Fresh
  <2>2. OnlyReq(r) /\ SameCall(r) /\ req'[r].user = i /\ req'[r].pc = "find"
    BY <1>3, <2>1, IdentifiedFacts DEF IInv, TypeOK
  <2>3. TypeOK'
    BY <1>1, <1>2, <1>3, <2>1, <2>2 DEF IInv, TypeOK, OnlyReq
  <2>4. HistoryComplete'
    BY <1>1, <1>3, <2>1 DEF IInv, HistoryComplete
  <2>5. Carried(req[r])'
    BY <1>2, <1>3, <2>1, <2>2 DEF Carried, SameCall, Sync
  <2>6. (\A s \in Requests : Carried(req[s]))'
    BY <1>1, <1>3, <2>2, <2>5, CarriedPreserved DEF IInv
  <2>7. LinkSound' /\ TokensNameOwner'
    BY <1>1, <1>3, LinksKeep DEF IInv, TokensNameOwner
  <2> QED BY <2>3, <2>4, <2>6, <2>7 DEF IInv
<1>4. ASSUME Answer(r), UNCHANGED <<accounts, accountIds>> PROVE IInv'
  BY <1>1, <1>4, AnswerCarries, QuietStep
<1>5. \A i \in Fresh : [id |-> i, email |-> req[r].email] \in Account
  BY <1>2 DEF Fresh, Account
<1> QED BY <1>3, <1>4, <1>5 DEF CreateAccount

LEMMA AskSupabaseStep ==
    ASSUME IInv, NEW r \in Requests, AskSupabase(r)
    PROVE  IInv'
<1>1. /\ req[r].pc \in {"signIn", "verify"}
      /\ UNCHANGED <<accounts, rows, minted, accountIds, rowIds>>
  BY DEF AskSupabase
<1>2. ASSUME NEW a \in accounts, a.email = req[r].email, Identified(r, a.id)
      PROVE  IInv'
  <2>1. <<a.id, a.email>> \in accountIds /\ a.id \in Ids /\ a.email \in Emails
    BY DEF IInv, TypeOK, HistoryComplete, Account
  <2>2. OnlyReq(r) /\ SameCall(r) /\ req'[r].user = a.id /\ req'[r].pc = "find"
    BY <1>2, <2>1, IdentifiedFacts DEF IInv, TypeOK
  <2>3. req[r].op \in {"login", "guard"}
    BY <1>1 DEF IInv, Carried
  <2>4. Carried(req[r])'
    BY <1>1, <1>2, <2>1, <2>2, <2>3 DEF Carried, SameCall, Sync
  <2> QED BY <1>1, <2>2, <2>4, QuietStep
<1>3. ASSUME Answer(r) PROVE IInv'
  BY <1>1, <1>3, AnswerCarries, QuietStep
<1> QED BY <1>2, <1>3 DEF AskSupabase

\* A request that goes to its next statement.
LEMMA GotoStep ==
    ASSUME IInv, NEW r \in Requests, NEW label \in {"createAccount", "insert", "delete"},
           Goto(r, label),
           UNCHANGED <<accounts, rows, minted, accountIds, rowIds>>,
           req[r].op = CASE label = "createAccount" -> "register"
                         [] label = "insert" -> "createUser"
                         [] label = "delete" -> req[r].op
    PROVE  IInv'
<1>1. label \in Working
  BY DEF Working
<1>2. OnlyReq(r) /\ SameCall(r) /\ req'[r].pc = label
  BY <1>1, GotoFacts DEF IInv, TypeOK
<1>3. Carried(req[r])
  BY DEF IInv
<1>4. label = "createAccount" => req[r].op = "register"
  OBVIOUS
<1>5. label = "insert" => req[r].op = "createUser"
  OBVIOUS
<1>6. Carried(req[r])'
  BY <1>2, <1>3, <1>4, <1>5 DEF Carried, SameCall, Sync
<1> QED BY <1>2, <1>6, QuietStep

LEMMA RegisterCheckStep ==
    ASSUME IInv, NEW r \in Requests, RegisterCheck(r)
    PROVE  IInv'
<1>1. /\ req[r].op = "register"
      /\ UNCHANGED <<accounts, rows, minted, accountIds, rowIds>>
  BY DEF RegisterCheck
<1>2. ASSUME Answer(r) PROVE IInv'
  BY <1>1, <1>2, AnswerCarries, QuietStep
<1>3. ASSUME Goto(r, "createAccount") PROVE IInv'
  BY <1>1, <1>3, GotoStep
<1> QED BY <1>2, <1>3 DEF RegisterCheck

LEMMA HandleStep ==
    ASSUME IInv, NEW r \in Requests, Handle(r)
    PROVE  IInv'
BY AnswerCarries, QuietStep DEF Handle

-----------------------------------------------------------------------------
(* UsersService preserves the invariant. *)

LEMMA CreateUserCheckStep ==
    ASSUME IInv, NEW r \in Requests, CreateUserCheck(r)
    PROVE  IInv'
<1>1. /\ req[r].op = "createUser"
      /\ UNCHANGED <<accounts, rows, minted, accountIds, rowIds>>
  BY DEF CreateUserCheck
<1>2. ASSUME Answer(r) PROVE IInv'
  BY <1>1, <1>2, AnswerCarries, QuietStep
<1>3. ASSUME Goto(r, "insert") PROVE IInv'
  BY <1>1, <1>3, GotoStep
<1> QED BY <1>2, <1>3 DEF CreateUserCheck

\* Whichever id the client sent, the new row is not linked.
LEMMA CreateUserInsertStep ==
    ASSUME IInv, NEW r \in Requests, CreateUserInsert(r)
    PROVE  IInv'
<1>1. /\ req[r].pc = "insert" /\ Answer(r)
      /\ UNCHANGED <<accounts, minted, accountIds>>
  BY DEF CreateUserInsert
<1>2. req[r].op = "createUser" /\ req[r].id \in Ids /\ req[r].email \in Emails
  BY <1>1 DEF IInv, Carried
<1>3. OnlyReq(r) /\ Carried(req[r])'
  BY <1>1, AnswerCarries
<1>4. ASSUME NEW new \in Row,
             new = [id |-> req[r].id, email |-> req[r].email, supabaseId |-> None],
             InsertRow(new)
      PROVE  IInv'
  <2>1. new.id = req[r].id /\ new.email = req[r].email /\ new.supabaseId = None
    BY <1>4
  <2>2. /\ rows' = rows \cup {new}
        /\ rowIds' = rowIds \cup {<<req[r].id, req[r].email>>}
    BY <1>4, <2>1 DEF InsertRow
  <2>3. TypeOK'
    BY <1>1, <1>2, <1>3, <1>4, <2>2 DEF IInv, TypeOK, OnlyReq
  <2>4. HistoryComplete'
    BY <1>1, <2>1, <2>2 DEF IInv, HistoryComplete
  <2>5. (\A s \in Requests : Carried(req[s]))'
    BY <1>1, <1>3, <2>2, CarriedPreserved DEF IInv
  <2>6. LinkSound'
    BY <1>1, <2>1, <2>2, LinksKeep
  <2>7. TokensNameOwner'
    BY <1>1, <2>2 DEF IInv, TokensNameOwner
  <2> QED BY <2>3, <2>4, <2>5, <2>6, <2>7 DEF IInv
<1>5. ASSUME UNCHANGED <<rows, rowIds>> PROVE IInv'
  BY <1>1, <1>3, <1>5, QuietStep
<1>6. [id |-> req[r].id, email |-> req[r].email, supabaseId |-> None] \in Row
  BY <1>2 DEF Row
<1> QED BY <1>4, <1>5, <1>6 DEF CreateUserInsert

LEMMA RemoveUserFindStep ==
    ASSUME IInv, NEW r \in Requests, RemoveUserFind(r)
    PROVE  IInv'
<1>1. UNCHANGED <<accounts, rows, minted, accountIds, rowIds>>
  BY DEF RemoveUserFind
<1>2. ASSUME Answer(r) PROVE IInv'
  BY <1>1, <1>2, AnswerCarries, QuietStep
<1>3. ASSUME Goto(r, "delete") PROVE IInv'
  BY <1>1, <1>3, GotoStep
<1> QED BY <1>2, <1>3 DEF RemoveUserFind

LEMMA RemoveUserDeleteStep ==
    ASSUME IInv, NEW r \in Requests, RemoveUserDelete(r)
    PROVE  IInv'
<1>1. /\ Answer(r) /\ rows' \subseteq rows
      /\ UNCHANGED <<accounts, minted, accountIds, rowIds>>
  BY DEF RemoveUserDelete
<1>2. OnlyReq(r) /\ Carried(req[r])'
  BY <1>1, AnswerCarries
<1>3. TypeOK'
  BY <1>1, <1>2 DEF IInv, TypeOK, OnlyReq
<1>4. (\A s \in Requests : Carried(req[s]))'
  BY <1>1, <1>2, CarriedPreserved DEF IInv
<1>5. (HistoryComplete /\ LinkSound /\ TokensNameOwner)'
  BY <1>1, LinksKeep DEF IInv, HistoryComplete, TokensNameOwner
<1> QED BY <1>3, <1>4, <1>5 DEF IInv

-----------------------------------------------------------------------------
(* Requests arrive. *)

LEMMA StartAuthStep ==
    ASSUME IInv, NEW r \in Requests, NEW e \in Emails,
           StartRegister(r, e) \/ StartLogin(r, e) \/ StartGuarded(r, e)
    PROVE  IInv'
<1>1. UNCHANGED <<accounts, rows, minted, accountIds, rowIds>>
  BY DEF StartRegister, StartLogin, StartGuarded
<1>2. ASSUME NEW q \in Request, Start(r, q), q.email = e,
             <<q.op, q.pc>> \in {<<"register", "check">>, <<"login", "signIn">>,
                                 <<"guard", "verify">>}
      PROVE  IInv'
  <2>1. OnlyReq(r) /\ req'[r] = q
    BY <1>2, StartFacts DEF IInv, TypeOK
  <2>2. Carried(req[r])'
    BY <1>2, <2>1 DEF Carried, Sync
  <2> QED BY <1>1, <2>1, <2>2, QuietStep
<1> DEFINE q(op, pc) == [Idle EXCEPT !.op = op, !.pc = pc, !.email = e]
<1>3. CASE StartRegister(r, e)
  <2>1. /\ q("register", "check") \in Request
        /\ q("register", "check").email = e
        /\ q("register", "check").op = "register"
        /\ q("register", "check").pc = "check"
    BY DEF Idle, Request, Endpoints, Working
  <2> QED BY <1>2, <1>3, <2>1 DEF StartRegister
<1>4. CASE StartLogin(r, e)
  <2>1. /\ q("login", "signIn") \in Request
        /\ q("login", "signIn").email = e
        /\ q("login", "signIn").op = "login"
        /\ q("login", "signIn").pc = "signIn"
    BY DEF Idle, Request, Endpoints, Working
  <2> QED BY <1>2, <1>4, <2>1 DEF StartLogin
<1>5. CASE StartGuarded(r, e)
  <2>1. /\ q("guard", "verify") \in Request
        /\ q("guard", "verify").email = e
        /\ q("guard", "verify").op = "guard"
        /\ q("guard", "verify").pc = "verify"
    BY DEF Idle, Request, Endpoints, Working
  <2> QED BY <1>2, <1>5, <2>1 DEF StartGuarded
<1> QED BY <1>3, <1>4, <1>5

LEMMA StartCreateUserStep ==
    ASSUME IInv, NEW r \in Requests, NEW e \in Emails, NEW i \in Ids,
           StartCreateUser(r, e, i)
    PROVE  IInv'
<1> DEFINE q == [Idle EXCEPT !.op = "createUser", !.pc = "check", !.email = e,
                             !.id = i]
<1>1. /\ q \in Request
      /\ q.op = "createUser" /\ q.pc = "check" /\ q.email = e /\ q.id = i
  BY DEF Idle, Request, Endpoints, Working
<1>2. /\ Start(r, q)
      /\ UNCHANGED <<accounts, rows, minted, accountIds, rowIds>>
  BY DEF StartCreateUser
<1> HIDE DEF q
<1>3. OnlyReq(r) /\ req'[r] = q
  BY <1>1, <1>2, StartFacts DEF IInv, TypeOK
<1>4. Carried(req[r])'
  BY <1>1, <1>3 DEF Carried, Sync
<1> QED BY <1>2, <1>3, <1>4, QuietStep

LEMMA StartRemoveUserStep ==
    ASSUME IInv, NEW r \in Requests, NEW i \in Ids, StartRemoveUser(r, i)
    PROVE  IInv'
<1> DEFINE q == [Idle EXCEPT !.op = "removeUser", !.pc = "findId", !.id = i]
<1>1. q \in Request /\ q.op = "removeUser" /\ q.pc = "findId"
  BY DEF Idle, Request, Endpoints, Working
<1>2. /\ Start(r, q)
      /\ UNCHANGED <<accounts, rows, minted, accountIds, rowIds>>
  BY DEF StartRemoveUser
<1> HIDE DEF q
<1>3. OnlyReq(r) /\ req'[r] = q
  BY <1>1, <1>2, StartFacts DEF IInv, TypeOK
<1>4. Carried(req[r])'
  BY <1>1, <1>3 DEF Carried, Sync
<1> QED BY <1>2, <1>3, <1>4, QuietStep

LEMMA AccountDeletedStep ==
    ASSUME IInv, NEW a \in accounts, AccountDeleted(a)
    PROVE  IInv'
BY DEF AccountDeleted, IInv, TypeOK, HistoryComplete,
       Carried, LinkSound, Reused, TokensNameOwner

-----------------------------------------------------------------------------

LEMMA InitIInv == Init => IInv
BY DEF Init, Idle, IInv, TypeOK, Request,
       HistoryComplete, Carried, Sync, LinkSound, TokensNameOwner

\* Every action preserves the inductive invariant.
LEMMA StepIInv == IInv /\ [Next]_vars => IInv'
<1> SUFFICES ASSUME IInv, [Next]_vars PROVE IInv'
  OBVIOUS
<1>1. ASSUME NEW r \in Requests, SyncStep(r) PROVE IInv'
  BY <1>1, SyncFindStep, SyncLinkStep, SyncUpdateStep, SyncCreateStep DEF SyncStep
<1>2. ASSUME NEW r \in Requests, AuthStep(r) PROVE IInv'
  BY <1>2, RegisterCheckStep, CreateAccountStep, AskSupabaseStep, MintStep,
     HandleStep DEF AuthStep
<1>3. ASSUME NEW r \in Requests, UsersStep(r) PROVE IInv'
  BY <1>3, CreateUserCheckStep, CreateUserInsertStep, RemoveUserFindStep,
     RemoveUserDeleteStep DEF UsersStep
<1>4. CASE UNCHANGED vars
  BY <1>4 DEF vars, IInv, TypeOK, HistoryComplete,
              Carried, LinkSound, Reused, TokensNameOwner
<1> QED BY <1>1, <1>2, <1>3, <1>4, StartAuthStep, StartCreateUserStep,
           StartRemoveUserStep, AccountDeletedStep DEF Next

\* Every reachable state satisfies the inductive invariant.
LEMMA Invariance == Spec => []IInv
<1>1. Init => IInv
  BY InitIInv
<1>2. IInv /\ [Next]_vars => IInv'
  BY StepIInv
<1> QED BY <1>1, <1>2, PTL DEF Spec

\* The state keeps its types, e.g. a token is never signed for no user or for
\* a request of the guard.
THEOREM TypeCorrect == Spec => []TypeOK
<1>1. IInv => TypeOK
  BY DEF IInv
<1> QED BY <1>1, Invariance, PTL

\* Whatever searches, links, registrations, creations and removals interleave and
\* whichever ids clients send, a row of users is linked to a Supabase account of
\* its own email, or its id was removed and used again for another email.
THEOREM LinksAreSound == Spec => []LinkSound
<1>1. IInv => LinkSound
  BY DEF IInv
<1> QED BY <1>1, Invariance, PTL

\* A token's subject and email belong together, in the table users or, after a
\* registration whose synchronisation failed, at Supabase.
THEOREM TokenSubjects == Spec => []TokensNameOwner
<1>1. IInv => TokensNameOwner
  BY DEF IInv
<1> QED BY <1>1, Invariance, PTL

-----------------------------------------------------------------------------
(***************************************************************************)
(* While no user is removed, a row of users stays under its id and email,  *)
(* and the unique column keeps a second one out: whichever request         *)
(* inserted the row, every later login signs its id.                       *)
(***************************************************************************)

Removing == {"findId", "delete"}
NobodyRemoves == \A r \in Requests : req[r].pc \notin Removing

RowsStand ==
    /\ \A x \in rowIds : \E row \in rows : x = <<row.id, row.email>>
    /\ \A row, other \in rows : row.email = other.email => row.id = other.id

\* No way of advancing a request leads to a removal, but for those of a removal.
LEMMA NobodyStartsToRemove ==
    ASSUME "removeUser" \notin Operations, IInv, NobodyRemoves, [Next]_vars
    PROVE  NobodyRemoves'
<1>1. ASSUME NEW r \in Requests, OnlyReq(r), req'[r].pc \notin Removing
      PROVE  NobodyRemoves'
    BY <1>1 DEF NobodyRemoves, OnlyReq
<1>2. ASSUME NEW r \in Requests, Answer(r) PROVE NobodyRemoves'
    BY <1>1, <1>2, AnswerFacts DEF IInv, TypeOK, Removing
<1>3. ASSUME NEW r \in Requests, NEW label \in Working \ Removing, Goto(r, label)
      PROVE  NobodyRemoves'
    BY <1>1, <1>3, GotoFacts DEF IInv, TypeOK
<1>4. ASSUME NEW r \in Requests, NEW row \in Row, AfterSync(r, row)
      PROVE  NobodyRemoves'
    BY <1>1, <1>4, AfterSyncFacts DEF IInv, TypeOK, Removing
<1>5. ASSUME NEW r \in Requests, req[r].pc \in Sync, SyncFails(r)
      PROVE  NobodyRemoves'
  <2>1. CASE req[r].op = "register"
    <3>1. req[r].user \in Ids /\ req[r].email \in Emails
        BY <1>5, <2>1 DEF IInv, TypeOK, Carried
    <3> QED BY <1>1, <1>5, <2>1, <3>1, FallbackFacts DEF IInv, TypeOK, Removing
  <2>2. CASE req[r].op # "register"
      BY <1>2, <1>5, <2>2 DEF SyncFails
  <2> QED BY <2>1, <2>2
<1>6. ASSUME NEW r \in Requests, NEW i \in Ids, Identified(r, i)
      PROVE  NobodyRemoves'
    BY <1>1, <1>6, IdentifiedFacts DEF IInv, TypeOK, Removing
<1>7. ASSUME NEW r \in Requests, NEW q \in Request, q.pc \notin Removing, Start(r, q)
      PROVE  NobodyRemoves'
    BY <1>1, <1>7, StartFacts DEF IInv, TypeOK
<1>8. ASSUME NEW r \in Requests, SyncStep(r) PROVE NobodyRemoves'
  <2>1. CASE SyncFind(r)
    <3>1. ASSUME NEW row \in rows, NEW label \in {"link", "update"},
                 Found(r, row.id, label)
          PROVE  NobodyRemoves'
      <4>1. row.id \in Ids /\ label \in Working
          BY <3>1 DEF IInv, TypeOK, Row, Working, Sync
      <4> QED BY <1>1, <3>1, <4>1, FoundFacts DEF IInv, TypeOK, Removing
    <3>2. "create" \in Working \ Removing
        BY DEF Working, Sync, Removing
    <3> QED BY <1>3, <1>5, <2>1, <3>1, <3>2 DEF SyncFind, Sync
  <2>2. CASE SyncLink(r)
    <3>1. ASSUME NEW row \in rows, AfterSync(r, row) PROVE NobodyRemoves'
        BY <1>4, <3>1 DEF IInv, TypeOK
    <3> QED BY <1>5, <2>2, <3>1 DEF SyncLink, Sync
  <2>3. CASE SyncUpdate(r)
    <3>1. ASSUME NEW row \in rows, AfterSync(r, row) PROVE NobodyRemoves'
        BY <1>4, <3>1 DEF IInv, TypeOK
    <3> QED BY <1>5, <2>3, <3>1 DEF SyncUpdate, Sync
  <2>4. CASE SyncCreate(r)
    <3>1. req[r].email \in Emails /\ req[r].user \in Ids \cup {None}
        BY <2>4 DEF SyncCreate, IInv, TypeOK, Carried, Sync, Request
    <3>2. ASSUME NEW i \in Fresh,
                 AfterSync(r, [id |-> i, email |-> req[r].email,
                               supabaseId |-> req[r].user])
          PROVE  NobodyRemoves'
      <4>1. [id |-> i, email |-> req[r].email, supabaseId |-> req[r].user] \in Row
          BY <3>1 DEF Fresh, Row
      <4> QED BY <1>4, <3>2, <4>1
    <3> QED BY <1>5, <2>4, <3>2 DEF SyncCreate, Sync
  <2> QED BY <1>8, <2>1, <2>2, <2>3, <2>4 DEF SyncStep
<1>9. ASSUME NEW r \in Requests, AuthStep(r) PROVE NobodyRemoves'
  <2>1. "createAccount" \in Working \ Removing
      BY DEF Working, Removing
  <2>2. \A i \in Fresh : i \in Ids
      BY DEF Fresh
  <2>3. \A a \in accounts : a.id \in Ids
      BY DEF IInv, TypeOK, Account
  <2> QED BY <1>2, <1>3, <1>6, <1>9, <2>1, <2>2, <2>3
          DEF AuthStep, RegisterCheck, CreateAccount, AskSupabase, Mint, Handle
<1>10. ASSUME NEW r \in Requests, UsersStep(r) PROVE NobodyRemoves'
  <2>1. "insert" \in Working \ Removing
      BY DEF Working, Removing
  <2>2. ~RemoveUserFind(r) /\ ~RemoveUserDelete(r)
      BY DEF RemoveUserFind, RemoveUserDelete, NobodyRemoves, Removing
  <2> QED BY <1>2, <1>3, <1>10, <2>1, <2>2
          DEF UsersStep, CreateUserCheck, CreateUserInsert
<1>11. ASSUME NEW r \in Requests, NEW e \in Emails,
              StartRegister(r, e) \/ StartLogin(r, e) \/ StartGuarded(r, e)
       PROVE  NobodyRemoves'
  <2>1. PICK op \in {"register", "login", "guard"}, pc \in {"check", "signIn", "verify"} :
           Start(r, [Idle EXCEPT !.op = op, !.pc = pc, !.email = e])
      BY <1>11 DEF StartRegister, StartLogin, StartGuarded
  <2> DEFINE q == [Idle EXCEPT !.op = op, !.pc = pc, !.email = e]
  <2>2. q \in Request /\ q.pc \notin Removing
      BY DEF Idle, Request, Endpoints, Working, Removing
  <2> QED BY <1>7, <2>1, <2>2
<1>12. ASSUME NEW r \in Requests, NEW e \in Emails, NEW i \in Ids,
              StartCreateUser(r, e, i)
       PROVE  NobodyRemoves'
  <2> DEFINE q == [Idle EXCEPT !.op = "createUser", !.pc = "check", !.email = e,
                               !.id = i]
  <2>1. q \in Request /\ q.pc \notin Removing
      BY DEF Idle, Request, Endpoints, Working, Removing
  <2> QED BY <1>7, <1>12, <2>1 DEF StartCreateUser
<1>13. ASSUME NEW r \in Requests, NEW i \in Ids PROVE ~StartRemoveUser(r, i)
    BY DEF StartRemoveUser, Start, Idle
<1>14. ASSUME UNCHANGED req PROVE NobodyRemoves'
    BY <1>14 DEF NobodyRemoves
<1> QED BY <1>8, <1>9, <1>10, <1>11, <1>12, <1>13, <1>14 DEF Next, vars, AccountDeleted

\* Rows come with an email nobody has, and go only to come back linked.
LEMMA RowsStayStanding ==
    ASSUME IInv, NobodyRemoves, RowsStand, [Next]_vars
    PROVE  RowsStand'
<1>1. ASSUME UNCHANGED <<rows, rowIds>> PROVE RowsStand'
    BY <1>1 DEF RowsStand
<1>2. ASSUME NEW row, Insertable(row), InsertRow(row) PROVE RowsStand'
    BY <1>2 DEF RowsStand, Insertable, InsertRow
<1>3. ASSUME NEW r \in Requests, SyncStep(r) PROVE RowsStand'
  <2>1. CASE SyncLink(r)
    <3>1. ASSUME NEW row \in rows, UNCHANGED rowIds,
                 rows' = (rows \ {row}) \cup {Linked(row, req[r].user)}
          PROVE  RowsStand'
      <4> DEFINE new == Linked(row, req[r].user)
      <4>1. new.id = row.id /\ new.email = row.email
          BY DEF Linked
      <4> HIDE DEF new
      <4>2. rows' = (rows \ {row}) \cup {new}
          BY <3>1 DEF new
      <4>3. \A x \in rowIds' : \E other \in rows' : x = <<other.id, other.email>>
        <5> SUFFICES ASSUME NEW x \in rowIds
                     PROVE  \E other \in rows' : x = <<other.id, other.email>>
            BY <3>1
        <5>1. PICK other \in rows : x = <<other.id, other.email>>
            BY DEF RowsStand
        <5>2. CASE other = row
            BY <4>1, <4>2, <5>1, <5>2
        <5>3. CASE other # row
            BY <4>2, <5>1, <5>3
        <5> QED BY <5>2, <5>3
      <4> QED BY <4>1, <4>2, <4>3 DEF RowsStand
    <3> QED BY <1>1, <2>1, <3>1 DEF SyncLink
  <2>2. CASE SyncCreate(r)
      BY <1>1, <1>2, <2>2 DEF SyncCreate
  <2> QED BY <1>1, <1>3, <2>1, <2>2 DEF SyncStep, SyncFind, SyncUpdate
<1>4. ASSUME NEW r \in Requests, AuthStep(r) PROVE RowsStand'
    BY <1>1, <1>4 DEF AuthStep, RegisterCheck, CreateAccount, AskSupabase, Mint, Handle
<1>5. ASSUME NEW r \in Requests, UsersStep(r) PROVE RowsStand'
  <2>1. ~RemoveUserDelete(r)
      BY DEF RemoveUserDelete, NobodyRemoves, Removing
  <2> QED BY <1>1, <1>2, <1>5, <2>1
          DEF UsersStep, CreateUserCheck, CreateUserInsert, RemoveUserFind
<1> QED BY <1>1, <1>3, <1>4, <1>5
        DEF Next, vars, StartRegister, StartLogin, StartGuarded, StartCreateUser,
            StartRemoveUser, AccountDeleted

\* While no user is removed, all logins with one email sign the id of one user,
\* whichever of the racing requests inserted its row.
THEOREM LoginsAgree ==
    ASSUME "removeUser" \notin Operations
    PROVE  Spec => []SignInsAgree
<1>1. Init => NobodyRemoves /\ RowsStand
    BY DEF Init, NobodyRemoves, Removing, RowsStand, Idle
<1>2. IInv /\ NobodyRemoves /\ RowsStand /\ [Next]_vars => (NobodyRemoves /\ RowsStand)'
    BY NobodyStartsToRemove, RowsStayStanding
<1>3. IInv /\ RowsStand => SignInsAgree
  <2> SUFFICES ASSUME IInv, RowsStand, NEW m \in minted, NEW n \in minted,
                      m.by = "login", n.by = "login", m.email = n.email
               PROVE  m.sub = n.sub
      BY DEF SignInsAgree
  <2>1. <<m.sub, m.email>> \in rowIds /\ <<n.sub, n.email>> \in rowIds
      BY DEF IInv, TokensNameOwner
  <2>2. PICK row \in rows, other \in rows : /\ row.id = m.sub /\ row.email = m.email
                                           /\ other.id = n.sub /\ other.email = n.email
      BY <2>1 DEF RowsStand
  <2> QED BY <2>2 DEF RowsStand
<1> QED BY <1>1, <1>2, <1>3, Invariance, PTL DEF Spec

=============================================================================
