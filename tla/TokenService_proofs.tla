------------------------ MODULE TokenService_proofs ------------------------
(***************************************************************************)
(* Proofs about TokenService for every set of users, every number of       *)
(* concurrent requests and every choice of faults.  IInv is inductive: its *)
(* parts need each other, e.g. RefreshKeepsIdentity needs HashOwner when   *)
(* Compare trusts the stored hash, and HashOwner needs Locals when Store   *)
(* writes it.                                                              *)
(***************************************************************************)
EXTENDS TokenService, TLAPS

LEMMA InitIInv == Init => IInv
BY ConstantsAssumption
   DEF Init, Idle, IInv, TypeOK, Request, Row, Working, Locals, HashOwner, Granted,
       RefreshKeepsIdentity, LogoutCloses, SignInFirst, OnlySigningIn

\* Every action preserves every part of the inductive invariant.
LEMMA StepIInv == IInv /\ [Next]_vars => IInv'
<1> SUFFICES ASSUME IInv, [Next]_vars PROVE IInv'
    OBVIOUS
<1> USE ConstantsAssumption
    DEF IInv, TypeOK, Request, Row, Working, Answers, Locals, HashOwner,
        RefreshKeepsIdentity, LogoutCloses, Granted, SignInFirst, OnlySigningIn,
        Goto, Answer, Idle, Reachable, StatementFails, HasRow
<1>1. ASSUME NEW r \in Requests, SignIn(r) PROVE IInv'
  <2>1. TypeOK'
       BY <1>1 DEF SignIn
  <2>2. Locals'
       BY <1>1 DEF SignIn
  <2>3. LogoutCloses'
       BY <1>1 DEF SignIn
  <2>4. OnlySigningIn'
       BY <1>1 DEF SignIn
  <2>5. (HashOwner /\ RefreshKeepsIdentity /\ SignInFirst)'
       BY <1>1 DEF SignIn
  <2> QED BY <2>1, <2>2, <2>3, <2>4, <2>5
<1>2. ASSUME NEW r \in Requests, Sync(r) PROVE IInv'
  <2>1. TypeOK'
       BY <1>2 DEF Sync
  <2>2. Locals'
       BY <1>2 DEF Sync
  <2>3. LogoutCloses'
       BY <1>2 DEF Sync
  <2>4. SignInFirst'
       BY <1>2 DEF Sync
  <2>5. (HashOwner /\ RefreshKeepsIdentity /\ OnlySigningIn)'
       BY <1>2 DEF Sync
  <2> QED BY <2>1, <2>2, <2>3, <2>4, <2>5
<1>3. ASSUME NEW r \in Requests, FindUser(r) PROVE IInv'
  <2>1. TypeOK'
       BY <1>3 DEF FindUser
  <2>2. Locals'
       BY <1>3 DEF FindUser
  <2>3. LogoutCloses'
       BY <1>3 DEF FindUser
  <2>4. (HashOwner /\ RefreshKeepsIdentity /\ SignInFirst /\ OnlySigningIn)'
       BY <1>3 DEF FindUser
  <2> QED BY <2>1, <2>2, <2>3, <2>4
<1>4. ASSUME NEW r \in Requests, Compare(r) PROVE IInv'
  <2>1. bcryptCompare(req[r].tok, req[r].snap) =>
           req[r].tok # Garbage /\ req[r].tok.sub = req[r].user
       BY <1>4 DEF Compare, bcryptCompare, HashOf
  <2>2. TypeOK'
       BY <1>4, <2>1 DEF Compare
  <2>3. Locals'
       BY <1>4, <2>1 DEF Compare
  <2>4. RefreshKeepsIdentity'
       BY <1>4, <2>1 DEF Compare
  <2>5. LogoutCloses'
       BY <1>4, <2>1 DEF Compare
  <2>6. SignInFirst'
       BY <1>4, <2>1 DEF Compare
  <2>7. (HashOwner /\ OnlySigningIn)'
       BY <1>4 DEF Compare
  <2> QED BY <2>2, <2>3, <2>4, <2>5, <2>6, <2>7
<1>5. ASSUME NEW r \in Requests, JwtVerify(r) PROVE IInv'
  <2>1. Verifies(req[r].tok) =>
           req[r].tok \in tokens \ {Garbage} /\ req[r].tok.sub \in Users
       BY <1>5 DEF Verifies, Token
  <2>2. TypeOK'
       BY <1>5, <2>1 DEF JwtVerify
  <2>3. Locals'
       BY <1>5, <2>1 DEF JwtVerify
  <2>4. RefreshKeepsIdentity'
       BY <1>5, <2>1 DEF JwtVerify
  <2>5. LogoutCloses'
       BY <1>5, <2>1 DEF JwtVerify
  <2>6. SignInFirst'
       BY <1>5, <2>1 DEF JwtVerify
  <2>7. (HashOwner /\ OnlySigningIn)'
       BY <1>5 DEF JwtVerify
  <2> QED BY <2>2, <2>3, <2>4, <2>5, <2>6, <2>7
<1>6. ASSUME NEW r \in Requests, Store(r) PROVE IInv'
  <2>1. TypeOK'
       BY <1>6 DEF Store, HashOf, Minted
  <2>2. Locals'
       BY <1>6 DEF Store, HashOf, Minted
  <2>3. HashOwner'
       BY <1>6 DEF Store, HashOf, Minted
  <2>4. LogoutCloses'
       BY <1>6 DEF Store, HashOf, Minted
  <2>5. SignInFirst'
       BY <1>6 DEF Store, HashOf, Minted
  <2>6. (RefreshKeepsIdentity /\ OnlySigningIn)'
       BY <1>6 DEF Store, HashOf, Minted
  <2> QED BY <2>1, <2>2, <2>3, <2>4, <2>5, <2>6
<1>7. ASSUME NEW r \in Requests, Reply(r) PROVE IInv'
  <2>1. Minted(req[r].sub) \in Token
       BY <1>7 DEF Reply, Minted, Token
  <2>2. TypeOK'
       BY <1>7, <2>1 DEF Reply, Minted
  <2>3. SignInFirst'
       BY <1>7, <2>1 DEF Reply, Minted
  <2>4. (Locals /\ HashOwner /\ RefreshKeepsIdentity /\ LogoutCloses /\ OnlySigningIn)'
       BY <1>7 DEF Reply, Minted
  <2> QED BY <2>2, <2>3, <2>4
<1>8. ASSUME NEW r \in Requests, ClearHash(r) PROVE IInv'
  <2>1. TypeOK'
       BY <1>8 DEF ClearHash
  <2>2. HashOwner'
       BY <1>8 DEF ClearHash
  <2>3. LogoutCloses'
       BY <1>8 DEF ClearHash
  <2>4. (Locals /\ RefreshKeepsIdentity /\ SignInFirst /\ OnlySigningIn)'
       BY <1>8 DEF ClearHash
  <2> QED BY <2>1, <2>2, <2>3, <2>4
<1>9. ASSUME NEW r \in Requests, SignOut(r) PROVE IInv'
  <2>1. TypeOK'
       BY <1>9 DEF SignOut
  <2>2. (Locals /\ HashOwner /\ RefreshKeepsIdentity /\ LogoutCloses /\ SignInFirst /\ OnlySigningIn)'
       BY <1>9 DEF SignOut
  <2> QED BY <2>1, <2>2
<1>10. ASSUME NEW r \in Requests, Take(r) PROVE IInv'
  <2>1. TypeOK'
       BY <1>10 DEF Take
  <2>2. (Locals /\ HashOwner /\ RefreshKeepsIdentity /\ LogoutCloses /\ SignInFirst /\ OnlySigningIn)'
       BY <1>10 DEF Take
  <2> QED BY <2>1, <2>2
<1>11. ASSUME NEW r \in Requests, NEW u \in Users, StartLogin(r, u) PROVE IInv'
  <2>1. TypeOK'
       BY <1>11 DEF StartLogin
  <2>2. OnlySigningIn'
       BY <1>11 DEF StartLogin
  <2>3. (Locals /\ HashOwner /\ RefreshKeepsIdentity /\ LogoutCloses /\ SignInFirst)'
       BY <1>11 DEF StartLogin
  <2> QED BY <2>1, <2>2, <2>3
<1>18. ASSUME NEW r \in Requests, NEW u \in Users, StartRegister(r, u) PROVE IInv'
  <2>1. UNCHANGED <<row, tokens, db, clientSession, supaOpen, session>>
       BY <1>18 DEF StartRegister
  <2>2. CASE req' = [req EXCEPT ![r] = [Idle EXCEPT !.op = "register", !.pc = "create", !.user = u]]
    <3>1. TypeOK'
         BY <2>1, <2>2
    <3>2. OnlySigningIn'
         BY <2>1, <2>2
    <3>3. (Locals /\ HashOwner /\ RefreshKeepsIdentity /\ LogoutCloses /\ SignInFirst)'
         BY <2>1, <2>2
    <3> QED BY <3>1, <3>2, <3>3
  <2>3. CASE req' = [req EXCEPT ![r] = [Idle EXCEPT !.pc = "refused"]]
    <3>1. TypeOK'
         BY <2>1, <2>3
    <3>2. OnlySigningIn'
         BY <2>1, <2>3
    <3>3. (Locals /\ HashOwner /\ RefreshKeepsIdentity /\ LogoutCloses /\ SignInFirst)'
         BY <2>1, <2>3
    <3> QED BY <3>1, <3>2, <3>3
  <2> QED BY <1>18, <2>2, <2>3 DEF StartRegister
<1>19. ASSUME NEW r \in Requests, CreateAccount(r) PROVE IInv'
  <2>1. TypeOK'
       BY <1>19 DEF CreateAccount
  <2>2. Locals'
       BY <1>19 DEF CreateAccount
  <2>3. LogoutCloses'
       BY <1>19 DEF CreateAccount
  <2>4. OnlySigningIn'
       BY <1>19 DEF CreateAccount
  <2>5. (HashOwner /\ RefreshKeepsIdentity /\ SignInFirst)'
       BY <1>19 DEF CreateAccount
  <2> QED BY <2>1, <2>2, <2>3, <2>4, <2>5
<1>12. ASSUME NEW r \in Requests, NEW op \in {"refresh", "logout"}, NEW first,
            first = IF op = "refresh" THEN "find" ELSE "clear",
            NEW bearer \in tokens \cup {Garbage}, NEW body \in tokens \cup {Garbage},
            Admit(r, op, first, bearer, body)
     PROVE  IInv'
  <2>1. Verifies(bearer) => bearer.sub \in Users
       BY <1>12 DEF Verifies, Token
  <2>2. body \in Token \cup {Garbage}
       OBVIOUS
  <2>3. TypeOK'
       BY <1>12, <2>1, <2>2 DEF Admit, Verifies
  <2>4. Locals'
       BY <1>12, <2>1, <2>2 DEF Admit, Verifies
  <2>5. OnlySigningIn'
       BY <1>12, <2>1, <2>2 DEF Admit, Verifies
  <2>6. (HashOwner /\ RefreshKeepsIdentity /\ LogoutCloses /\ SignInFirst)'
       BY <1>12 DEF Admit, Verifies
  <2> QED BY <2>3, <2>4, <2>5, <2>6
<1>13. ASSUME NEW t \in tokens, Expire(t) PROVE IInv'
  <2>1. [t EXCEPT !.exp = "past"] \in Token /\ [t EXCEPT !.exp = "past"].sub = t.sub
       BY <1>13 DEF Expire, Token
  <2>2. tokens' \subseteq tokens \cup {[t EXCEPT !.exp = "past"]}
       BY <1>13 DEF Expire
  <2>3. \A s \in tokens' : \E o \in tokens : s.sub = o.sub
       BY <2>1, <2>2
  <2>4. TypeOK'
       BY <1>13, <2>1, <2>2, <2>3 DEF Expire
  <2>5. SignInFirst'
       BY <1>13, <2>1, <2>2, <2>3 DEF Expire
  <2>6. (Locals /\ HashOwner /\ RefreshKeepsIdentity /\ LogoutCloses /\ OnlySigningIn)'
       BY <1>13 DEF Expire
  <2> QED BY <2>4, <2>5, <2>6
<1>14. ASSUME NEW u \in Users, DeleteUser(u) PROVE IInv'
  <2>1. TypeOK'
       BY <1>14 DEF DeleteUser
  <2>2. (Locals /\ HashOwner /\ RefreshKeepsIdentity /\ LogoutCloses /\ SignInFirst /\ OnlySigningIn)'
       BY <1>14 DEF DeleteUser
  <2> QED BY <2>1, <2>2
<1>15. ASSUME DbDown \/ DbUp PROVE IInv'
  <2>1. TypeOK'
       BY <1>15 DEF DbDown, DbUp
  <2>2. (Locals /\ HashOwner /\ RefreshKeepsIdentity /\ LogoutCloses /\ SignInFirst /\ OnlySigningIn)'
       BY <1>15 DEF DbDown, DbUp
  <2> QED BY <2>1, <2>2
<1>16. ASSUME Restart PROVE IInv'
  <2>1. TypeOK'
       BY <1>16 DEF Restart
  <2>2. (Locals /\ HashOwner /\ RefreshKeepsIdentity /\ LogoutCloses /\ SignInFirst /\ OnlySigningIn)'
       BY <1>16 DEF Restart
  <2> QED BY <2>1, <2>2
<1>17. ASSUME UNCHANGED vars PROVE IInv'
  <2>1. TypeOK'
       BY <1>17 DEF vars
  <2>2. (Locals /\ HashOwner /\ RefreshKeepsIdentity /\ LogoutCloses /\ SignInFirst /\ OnlySigningIn)'
       BY <1>17 DEF vars
  <2> QED BY <2>1, <2>2
<1> QED
  BY <1>1, <1>2, <1>3, <1>4, <1>5, <1>6, <1>7, <1>8, <1>9,
     <1>10, <1>11, <1>12, <1>13, <1>14, <1>15, <1>16, <1>17, <1>18, <1>19
  DEF Next, Step, StartRefresh, StartLogout

-----------------------------------------------------------------------------

\* Every reachable state satisfies the inductive invariant.
LEMMA Invariance == Spec => []IInv
<1>1. Init => IInv BY InitIInv
<1>2. IInv /\ [Next]_vars => IInv' BY StepIInv
<1> QED BY <1>1, <1>2, PTL DEF Spec

\* The state keeps its types: in particular a hash found is a hash, a deleted
\* row is never compared with.
THEOREM TypeCorrect == Spec => []TypeOK
<1>1. IInv => TypeOK BY DEF IInv
<1> QED BY <1>1, Invariance, PTL

\* A refresh hands out tokens of the subject of the refresh token presented.
THEOREM RefreshIdentity == Spec => []RefreshKeepsIdentity
<1>1. IInv => RefreshKeepsIdentity BY DEF IInv
<1> QED BY <1>1, Invariance, PTL

\* A logout that overtakes no granted request closes the session until the
\* next sign-in or outage refresh.
THEOREM LogoutIsFinal == Spec => []LogoutCloses
<1>1. IInv => LogoutCloses BY DEF IInv
<1> QED BY <1>1, Invariance, PTL

\* No token and no hash of a user exists before that user registered or
\* logged in.
THEOREM TokensDescendFromSignIn == Spec => []SignInFirst
<1>1. IInv => SignInFirst BY DEF IInv
<1> QED BY <1>1, Invariance, PTL

-----------------------------------------------------------------------------
(* TokenService implements SessionContract.  Each step of a request is a    *)
(* step of the contract or leaves sessions and hashes alone; which of the   *)
(* two follows from IInv, chiefly from LogoutCloses and SignInFirst.        *)

Renewable == {u \in Users : row[u] \in Users}

\* A registration, a login, or a signed token in an outage, opens the session of
\* its subject.
LEMMA OpenRefines ==
    ASSUME NEW r \in Requests, IInv, CreateAccount(r) \/ SignIn(r) \/ JwtVerify(r)
    PROVE  [Contract!Next]_(Contract!vars)
<1>1. ASSUME NEW u \in Users, session' = [session EXCEPT ![u] = "open"], row' = row
      PROVE  Contract!Open(u)
    BY <1>1 DEF Contract!Open
<1>2. CASE CreateAccount(r) \/ SignIn(r)
    <2>1. req[r].user \in Users /\ row' = row
        BY <1>2 DEF CreateAccount, SignIn, IInv, Locals, Working
    <2>2. UNCHANGED session \/ session' = [session EXCEPT ![req[r].user] = "open"]
        BY <1>2 DEF CreateAccount, SignIn
    <2> QED BY <2>1, <2>2, <1>1 DEF Contract!Next, Contract!vars
<1>3. CASE JwtVerify(r)
    <2>1. Verifies(req[r].tok) => req[r].tok.sub \in Users
        BY DEF Verifies, Token, IInv, TypeOK
    <2>2. row' = row
        BY <1>3 DEF JwtVerify
    <2>3. \/ UNCHANGED session
          \/ /\ Verifies(req[r].tok)
             /\ session' = [session EXCEPT ![req[r].tok.sub] = "open"]
        BY <1>3 DEF JwtVerify
    <2> QED BY <2>1, <2>2, <2>3, <1>1 DEF Contract!Next, Contract!vars
<1> QED BY <1>2, <1>3

\* Who is about to store a hash has an open session.
LEMMA StoreRefines ==
    ASSUME NEW r \in Requests, IInv, Store(r)
    PROVE  [Contract!Next]_(Contract!vars)
<1>0. PICK u \in Users : u = req[r].sub
    BY DEF IInv, Store, Locals, Working
<1>1. session[u] = "open"
    BY <1>0 DEF IInv, Store, LogoutCloses, SignInFirst, Granted, TypeOK
<1>2. UNCHANGED session /\ (row' = row \/ row' = [row EXCEPT ![u] = u])
    BY <1>0 DEF Store, HashOf, Minted
<1>3. row' = [row EXCEPT ![u] = u] => Renewable' = Renewable \cup {u}
    BY <1>1 DEF Renewable, IInv, TypeOK
<1>4. row' = [row EXCEPT ![u] = u] => Contract!Renew(u)
    BY <1>1, <1>2, <1>3 DEF Contract!Renew, Renewable
<1> QED BY <1>1, <1>2, <1>4 DEF Contract!Next, Contract!vars

\* A logout closes the session, or only forgets the hash when a request that
\* was admitted before may store another.
LEMMA ClearRefines ==
    ASSUME NEW r \in Requests, IInv, ClearHash(r)
    PROVE  [Contract!Next]_(Contract!vars)
<1>0. PICK u \in Users : u = req[r].user
    BY DEF IInv, ClearHash, Locals, Working
<1>1. session[u] # "never"
    BY <1>0 DEF IInv, ClearHash, OnlySigningIn
<1>2. \/ row' = row /\ UNCHANGED session
      \/ /\ row' = [row EXCEPT ![u] = NoHash]
         /\ session' = session \/ session' = [session EXCEPT ![u] = "closed"]
    BY <1>0 DEF ClearHash
<1>3. row' = [row EXCEPT ![u] = NoHash] => Renewable' = Renewable \ {u}
    BY <1>1, ConstantsAssumption DEF Renewable, IInv, TypeOK
<1>4. CASE row' = row /\ UNCHANGED session
    BY <1>4 DEF Contract!vars
<1>5. CASE row' = [row EXCEPT ![u] = NoHash] /\ session' = session
    <2>1. Contract!Forget(u)
        BY <1>3, <1>5 DEF Contract!Forget, Renewable
    <2> QED BY <2>1 DEF Contract!Next
<1>6. CASE /\ row' = [row EXCEPT ![u] = NoHash]
           /\ session' = [session EXCEPT ![u] = "closed"]
    <2>1. Contract!Close(u)
        BY <1>1, <1>3, <1>6 DEF Contract!Close, Renewable
    <2> QED BY <2>1 DEF Contract!Next
<1> QED BY <1>2, <1>4, <1>5, <1>6

\* A row created for a sign-in has no hash yet.
LEMMA SyncRefines ==
    ASSUME NEW r \in Requests, IInv, Sync(r)
    PROVE  [Contract!Next]_(Contract!vars)
<1>1. UNCHANGED session
    BY DEF Sync
<1>2. CASE row' = row
    BY <1>1, <1>2 DEF Contract!vars
<1>3. ASSUME NEW u \in Users, ~HasRow(u), row' = [row EXCEPT ![u] = NoHash]
      PROVE  Renewable' = Renewable
    BY <1>3, ConstantsAssumption DEF HasRow, Renewable, IInv, TypeOK
<1>4. row' = row \/ \E u \in Users : ~HasRow(u) /\ row' = [row EXCEPT ![u] = NoHash]
    BY DEF Sync, IInv, Locals, Working
<1> QED BY <1>1, <1>2, <1>3, <1>4 DEF Contract!vars, Renewable

LEMMA DeleteRefines ==
    ASSUME NEW u \in Users, IInv, DeleteUser(u)
    PROVE  [Contract!Next]_(Contract!vars)
<1>1. row' = [row EXCEPT ![u] = Gone] /\ UNCHANGED session
    BY DEF DeleteUser
<1>2. Renewable' = Renewable \ {u}
    BY <1>1, ConstantsAssumption DEF Renewable, IInv, TypeOK
<1>3. Contract!Forget(u)
    BY <1>1, <1>2 DEF Contract!Forget, Renewable
<1> QED BY <1>3 DEF Contract!Next

LEMMA StepRefines == IInv /\ [Next]_vars => [Contract!Next]_(Contract!vars)
<1> SUFFICES ASSUME IInv, [Next]_vars PROVE [Contract!Next]_(Contract!vars)
    OBVIOUS
<1>1. ASSUME row' = row, session' = session PROVE [Contract!Next]_(Contract!vars)
    BY <1>1 DEF Contract!vars
<1>2. ASSUME NEW r \in Requests, Step(r) PROVE [Contract!Next]_(Contract!vars)
    <2>1. CASE FindUser(r) \/ Compare(r) \/ Reply(r) \/ SignOut(r)
        BY <2>1, <1>1 DEF FindUser, Compare, Reply, SignOut
    <2> QED BY <1>2, <2>1, OpenRefines, SyncRefines, StoreRefines, ClearRefines DEF Step
<1>3. ASSUME NEW r \in Requests,
             \/ Take(r)
             \/ \E u \in Users : StartLogin(r, u) \/ StartRegister(r, u)
             \/ \E bearer \in tokens \cup {Garbage} :
                  \/ StartLogout(r, bearer)
                  \/ \E body \in tokens \cup {Garbage} : StartRefresh(r, bearer, body)
      PROVE  [Contract!Next]_(Contract!vars)
    BY <1>3, <1>1 DEF Take, StartLogin, StartRegister, Answer, StartLogout, StartRefresh, Admit
<1>4. ASSUME DbDown \/ DbUp \/ Restart \/ \E t \in tokens : Expire(t)
      PROVE  [Contract!Next]_(Contract!vars)
    BY <1>4, <1>1 DEF DbDown, DbUp, Restart, Expire
<1>5. ASSUME UNCHANGED vars PROVE [Contract!Next]_(Contract!vars)
    BY <1>5, <1>1 DEF vars
<1> QED BY <1>2, <1>3, <1>4, <1>5, DeleteRefines DEF Next

\* Whatever requests, outages, restarts and removals interleave, sessions behave
\* as SessionContract says: the hash of a user is stored only while the session
\* is open, and only a sign-in or a signed token opens it.
THEOREM Refinement == Spec => ImplementsContract
<1>1. Init => Contract!Init
    BY ConstantsAssumption DEF Init, Contract!Init
<1>2. IInv /\ [Next]_vars => [Contract!Next]_(Contract!vars)
    BY StepRefines
<1> QED BY <1>1, <1>2, Invariance, PTL DEF Spec, ImplementsContract, Contract!Spec

\* What the contract itself guarantees of sessions and hashes.
LEMMA ContractSafe == Spec => [](Contract!TypeOK /\ Contract!OnlyOpenRenews)
<1> DEFINE Safe == Contract!TypeOK /\ Contract!OnlyOpenRenews
<1>1. Contract!Init => Safe
    BY DEF Contract!Init, Contract!TypeOK, Contract!OnlyOpenRenews
<1>2. Safe /\ [Contract!Next]_(Contract!vars) => Safe'
  <2> SUFFICES ASSUME Safe, [Contract!Next]_(Contract!vars) PROVE Safe'
      OBVIOUS
  <2> USE DEF Contract!TypeOK, Contract!OnlyOpenRenews
  <2>1. ASSUME NEW u \in Users, Contract!Open(u) PROVE Safe'
      BY <2>1 DEF Contract!Open
  <2>2. ASSUME NEW u \in Users, Contract!Renew(u) PROVE Safe'
      BY <2>2 DEF Contract!Renew
  <2>3. ASSUME NEW u \in Users, Contract!Forget(u) PROVE Safe'
      BY <2>3 DEF Contract!Forget
  <2>4. ASSUME NEW u \in Users, Contract!Close(u) PROVE Safe'
      BY <2>4 DEF Contract!Close
  <2>5. ASSUME UNCHANGED (Contract!vars) PROVE Safe'
      BY <2>5 DEF Contract!vars
  <2> QED BY <2>1, <2>2, <2>3, <2>4, <2>5 DEF Contract!Next
<1> QED BY <1>1, <1>2, Refinement, PTL DEF ImplementsContract, Contract!Spec

\* A hash renews the tokens of a user only while a session of that user is open:
\* never one that was closed, or that nobody signed in to.
THEOREM OnlyOpenSessionsRenew == Spec => []Contract!OnlyOpenRenews
<1>1. Contract!TypeOK /\ Contract!OnlyOpenRenews => Contract!OnlyOpenRenews
    OBVIOUS
<1> QED BY <1>1, ContractSafe, PTL

=============================================================================
