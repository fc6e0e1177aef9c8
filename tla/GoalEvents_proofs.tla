-------------------------- MODULE GoalEvents_proofs --------------------------
(***************************************************************************)
(* Proofs about GoalEvents for every set of users, goals, plans and        *)
(* requests, and every choice of faults.  A handler writes and announces   *)
(* by what it read before an await; that is sound because what a row says  *)
(* of its owner and its goal never changes while the row may come and go   *)
(* (RowsStay), so what a request carries stays true (Carried).             *)
(***************************************************************************)
EXTENDS GoalEvents, TLAPS

\* Only the request r advances.
OnlyReq(r) ==
    /\ req' \in [Requests -> Request]
    /\ \A s \in Requests : s # r => req'[s] = req[s]

\* It stays the same call.
SameCall(r) ==
    /\ req'[r].op = req[r].op
    /\ req'[r].caller = req[r].caller
    /\ req'[r].user = req[r].user
    /\ req'[r].goal = req[r].goal

Ended(r) == req'[r].op = "none" /\ req'[r].pc = "idle"

\* Rows are born once, keep their owner and goal, and do not come back.
RowsStay ==
    /\ \A i \in Items : state[i] # "unborn" =>
         /\ state'[i] # "unborn"
         /\ owner'[i] = owner[i]
         /\ state[i] = "gone" => state'[i] = "gone"
    /\ \A p \in Plans : state[p] # "unborn" => goalOf'[p] = goalOf[p]

-----------------------------------------------------------------------------
(* Advancing a request *)

LEMMA FailFacts ==
    ASSUME req \in [Requests -> Request], NEW r \in Requests, Fail(r)
    PROVE  OnlyReq(r) /\ Ended(r)
<1>1. Idle \in Request
  BY DEF Idle, Request
<1>2. Idle.op = "none" /\ Idle.pc = "idle"
  BY DEF Idle
<1> QED BY <1>1, <1>2 DEF Fail, OnlyReq, Ended

LEMMA GotoFacts ==
    ASSUME req \in [Requests -> Request], NEW r \in Requests,
           NEW label \in Working \cup {"ok"}, Goto(r, label)
    PROVE  /\ OnlyReq(r) /\ SameCall(r)
           /\ req'[r].item = req[r].item /\ req'[r].pc = label
BY DEF Goto, OnlyReq, SameCall, Request

LEMMA StartFacts ==
    ASSUME req \in [Requests -> Request], NEW r \in Requests,
           NEW q \in Request, Start(r, q)
    PROVE  OnlyReq(r) /\ req'[r] = q
BY DEF Start, OnlyReq

LEMMA AfterWriteFacts ==
    ASSUME req \in [Requests -> Request], NEW r \in Requests, NEW i \in Items,
           NEW label \in {"reread", "announce", "ok"}, AfterWrite(r, label, i)
    PROVE  /\ OnlyReq(r)
           /\ \/ SameCall(r) /\ req'[r].item = i /\ req'[r].pc = label
              \/ Ended(r)
<1>1. CASE req' = [req EXCEPT ![r].item = i, ![r].pc = label]
  <2> DEFINE q == [[req[r] EXCEPT !.item = i] EXCEPT !.pc = label]
  <2>1. req' = [req EXCEPT ![r] = q]
    BY <1>1
  <2>2. [req[r] EXCEPT !.item = i] \in Request
    BY DEF Request
  <2>3. \A p \in Request : [p EXCEPT !.pc = label] \in Request
    BY DEF Request, Working
  <2>4. q \in Request
    BY <2>2, <2>3
  <2>5. /\ q.op = req[r].op /\ q.caller = req[r].caller
        /\ q.user = req[r].user /\ q.goal = req[r].goal
        /\ q.item = i /\ q.pc = label
    BY DEF Request
  <2> HIDE DEF q
  <2>6. req'[r] = q /\ OnlyReq(r)
    BY <2>1, <2>4 DEF OnlyReq
  <2> QED BY <2>5, <2>6 DEF SameCall
<1>2. CASE Fail(r)
  BY <1>2, FailFacts
<1> QED BY <1>1, <1>2 DEF AfterWrite

-----------------------------------------------------------------------------
(* What survives a step *)

LEMMA CarriedPreserved ==
    ASSUME IInv, NEW r \in Requests, OnlyReq(r), RowsStay, Carried(req[r])'
    PROVE  (\A s \in Requests : Carried(req[s]))'
<1> SUFFICES ASSUME NEW s \in Requests PROVE Carried(req[s])'
  OBVIOUS
<1>1. CASE s = r
  BY <1>1
<1>2. CASE s # r
  <2>1. req'[s] = req[s] /\ Carried(req[s])
    BY <1>2 DEF OnlyReq, IInv
  <2>2. req[s] \in Request
    BY DEF IInv, TypeOK
  <2> QED BY <2>1, <2>2 DEF Carried, Removed, Changes, RowsStay, Items, Request
<1> QED BY <1>1, <1>2

LEMMA RemovedPreserved ==
    ASSUME IInv, NEW r \in Requests, OnlyReq(r),
           ~Removed(req'[r]) \/ \A s \in Requests :
             s # r /\ Removed(req[s]) => req[s].item # req'[r].item
    PROVE  RemovedOnce'
<1> SUFFICES ASSUME NEW s \in Requests, NEW t \in Requests, s # t,
                    Removed(req'[s]), Removed(req'[t]), req'[s].item = req'[t].item
             PROVE  FALSE
  BY DEF RemovedOnce, Removed
<1>1. CASE s = r
  BY <1>1 DEF OnlyReq
<1>2. CASE t = r
  BY <1>2 DEF OnlyReq
<1>3. CASE s # r /\ t # r
  BY <1>3 DEF OnlyReq, IInv, RemovedOnce
<1> QED BY <1>1, <1>2, <1>3

\* A step that changes nothing but the request r.
LEMMA QuietStep ==
    ASSUME IInv, NEW r \in Requests, OnlyReq(r), Carried(req[r])',
           ~Removed(req'[r]),
           UNCHANGED <<users, state, goalOf, owner, feed, events>>
    PROVE  IInv'
<1>1. TypeOK'
  BY DEF IInv, TypeOK, OnlyReq
<1>2. RowsStay
  BY DEF RowsStay
<1>3. (\A s \in Requests : Carried(req[s]))'
  BY <1>2, CarriedPreserved
<1>4. RemovedOnce'
  BY RemovedPreserved
<1>5. (Rows /\ Mentions /\ AddressedToOwner /\ NoFalseDelete)'
  BY DEF IInv, Rows, Mentions, AddressedToOwner, NoFalseDelete
<1> QED BY <1>1, <1>3, <1>4, <1>5 DEF IInv

LEMMA FailStep ==
    ASSUME IInv, NEW r \in Requests, Fail(r),
           UNCHANGED <<users, state, goalOf, owner, feed, events>>
    PROVE  IInv'
<1>1. OnlyReq(r) /\ Ended(r)
  BY FailFacts DEF IInv, TypeOK
<1>2. Carried(req[r])' /\ ~Removed(req'[r])
  BY <1>1 DEF Carried, Ended, Changes, Removed
<1> QED BY <1>1, <1>2, QuietStep

\* A request that goes on to a step for which it carries nothing new.
LEMMA GotoStep ==
    ASSUME IInv, NEW r \in Requests, NEW label \in {"write", "announce"},
           Goto(r, label),
           req[r].pc \in {"check", "reread"},
           req[r].op \in Changes => req[r].item \in Items /\ owner[req[r].item] = req[r].user,
           req[r].op = "createPlan" => owner[req[r].goal] = req[r].user,
           label = "announce" => req[r].pc = "reread" /\ req[r].op # "remove",
           UNCHANGED <<users, state, goalOf, owner, feed, events>>
    PROVE  IInv'
<1>1. OnlyReq(r) /\ SameCall(r) /\ req'[r].item = req[r].item /\ req'[r].pc = label
  BY GotoFacts DEF IInv, TypeOK, Working
<1>2. Carried(req[r])
  BY DEF IInv
<1>3. Carried(req[r])' /\ ~Removed(req'[r])
  BY <1>1, <1>2 DEF Carried, SameCall, Removed
<1> QED BY <1>1, <1>3, QuietStep

-----------------------------------------------------------------------------
(* Requests arrive and read *)

\* A request arrives with what its client knows of.
LEMMA StartStep ==
    ASSUME IInv, NEW r \in Requests, NEW q \in Request, Start(r, q),
           q.pc = "check",
           q.op = "createGoal" => q.user \in Users,
           q.op = "createPlan" => q.goal \in Goals /\ state[q.goal] # "unborn",
           q.op \in Changes =>
             /\ q.item \in Items /\ state[q.item] # "unborn" /\ q.user \in Users
             /\ q.item \in Goals => q.caller = q.user
    PROVE  IInv'
<1>1. OnlyReq(r) /\ req'[r] = q
  BY StartFacts DEF IInv, TypeOK
<1>2. UNCHANGED <<users, state, goalOf, owner, feed, events>>
  BY DEF Start
<1>3. Carried(q) /\ ~Removed(q)
  BY DEF Carried, Removed
<1>4. Carried(req[r])' /\ ~Removed(req'[r])
  BY <1>1, <1>2, <1>3 DEF Carried, Removed
<1> QED BY <1>1, <1>2, <1>4, QuietStep

LEMMA ArriveStep ==
    ASSUME IInv, NEW r \in Requests,
           \/ \E u \in Users :
                \/ StartCreateGoal(r, u)
                \/ \E op \in Changes, c \in Users, i \in Items : StartChange(r, op, c, u, i)
           \/ \E g \in Goals : StartCreatePlan(r, g)
    PROVE  IInv'
<1>1. ASSUME NEW u \in Users, StartCreateGoal(r, u) PROVE IInv'
  <2> DEFINE q == [Idle EXCEPT !.op = "createGoal", !.pc = "check",
                               !.caller = u, !.user = u]
  <2>1. /\ q \in Request
        /\ q.op = "createGoal" /\ q.pc = "check" /\ q.user = u
    BY DEF Idle, Request, Working, Creations
  <2>2. Start(r, q)
    BY <1>1 DEF StartCreateGoal
  <2> HIDE DEF q
  <2> QED BY <2>1, <2>2, StartStep DEF Changes
<1>2. ASSUME NEW u \in Users, NEW op \in Changes, NEW c \in Users, NEW i \in Items,
             StartChange(r, op, c, u, i)
      PROVE  IInv'
  <2> DEFINE q == [Idle EXCEPT !.op = op, !.pc = "check",
                               !.caller = c, !.user = u, !.item = i]
  <2>1. /\ q \in Request
        /\ q.op = op /\ q.pc = "check" /\ q.caller = c /\ q.user = u /\ q.item = i
    BY DEF Idle, Request, Working
  <2>2. Start(r, q) /\ state[i] # "unborn" /\ (i \in Goals => u = c)
    BY <1>2 DEF StartChange
  <2> HIDE DEF q
  <2> QED BY <2>1, <2>2, StartStep DEF Changes
<1>3. ASSUME NEW g \in Goals, StartCreatePlan(r, g) PROVE IInv'
  <2> DEFINE q == [Idle EXCEPT !.op = "createPlan", !.pc = "check", !.goal = g]
  <2>1. /\ q \in Request
        /\ q.op = "createPlan" /\ q.pc = "check" /\ q.goal = g
    BY DEF Idle, Request, Working, Creations
  <2>2. Start(r, q) /\ state[g] # "unborn"
    BY <1>3 DEF StartCreatePlan
  <2> HIDE DEF q
  <2> QED BY <2>1, <2>2, StartStep DEF Changes
<1> QED BY <1>1, <1>2, <1>3

LEMMA CheckUserStep ==
    ASSUME IInv, NEW r \in Requests, CheckUser(r)
    PROVE  IInv'
<1>1. CASE Fail(r)
  BY <1>1, FailStep DEF CheckUser
<1>2. CASE Goto(r, "write")
  BY <1>2, GotoStep DEF CheckUser, Changes
<1> QED BY <1>1, <1>2 DEF CheckUser

LEMMA CheckGoalStep ==
    ASSUME IInv, NEW r \in Requests, CheckGoal(r)
    PROVE  IInv'
<1> DEFINE g == req[r].goal
<1>1. CASE Fail(r)
  BY <1>1, FailStep DEF CheckGoal
<1>2. CASE req' = [req EXCEPT ![r].user = owner[g], ![r].pc = "write"]
  <2> DEFINE q == [[req[r] EXCEPT !.user = owner[g]] EXCEPT !.pc = "write"]
  <2>1. /\ req[r].op = "createPlan" /\ req[r].pc = "check"
        /\ UNCHANGED <<users, state, goalOf, owner, feed, events>>
    BY DEF CheckGoal
  <2>2. g \in Goals /\ state[g] # "unborn"
    BY <2>1 DEF IInv, Carried
  <2>3. owner[g] \in Users
    BY <2>2 DEF IInv, Rows, Items
  <2>4. req' = [req EXCEPT ![r] = q]
    BY <1>2
  <2>5. [req[r] EXCEPT !.user = owner[g]] \in Request
    BY <2>3 DEF IInv, TypeOK, Request
  <2>6. \A p \in Request : [p EXCEPT !.pc = "write"] \in Request
    BY DEF Request, Working
  <2>7. q \in Request
    BY <2>5, <2>6
  <2>8. /\ q.op = "createPlan" /\ q.goal = g /\ q.user = owner[g] /\ q.pc = "write"
    BY <2>1 DEF IInv, TypeOK, Request
  <2> HIDE DEF q
  <2>9. req'[r] = q /\ OnlyReq(r)
    BY <2>4, <2>7 DEF OnlyReq, IInv, TypeOK
  <2>10. Carried(req[r])' /\ ~Removed(req'[r])
    BY <2>1, <2>2, <2>8, <2>9 DEF Carried, Changes, Removed
  <2> QED BY <2>1, <2>8, <2>9, <2>10, QuietStep
<1> QED BY <1>1, <1>2 DEF CheckGoal

LEMMA CheckOwnerStep ==
    ASSUME IInv, NEW r \in Requests, CheckOwner(r)
    PROVE  IInv'
<1>1. req[r].op \in Changes /\ req[r].pc = "check"
  BY DEF CheckOwner
<1>2. req[r].item \in Items /\ req[r].op # "createPlan"
  BY <1>1 DEF IInv, Carried, Changes
<1>3. CASE Fail(r)
  BY <1>3, FailStep DEF CheckOwner
<1>4. CASE Goto(r, "write") /\ owner[req[r].item] = req[r].user
  BY <1>1, <1>2, <1>4, GotoStep DEF CheckOwner
<1> QED BY <1>3, <1>4 DEF CheckOwner

LEMMA RereadPlanStep ==
    ASSUME IInv, NEW r \in Requests, RereadPlan(r)
    PROVE  IInv'
<1>1. req[r].pc = "reread"
  BY DEF RereadPlan
<1>2. CASE Fail(r)
  BY <1>2, FailStep DEF RereadPlan
<1>3. CASE Goto(r, "announce")
  <2>1. OnlyReq(r) /\ SameCall(r) /\ req'[r].item = req[r].item /\ req'[r].pc = "announce"
    BY <1>3, GotoFacts DEF IInv, TypeOK, Working
  <2>2. Carried(req[r])
    BY DEF IInv
  <2>3. UNCHANGED <<users, state, goalOf, owner, feed, events>>
    BY DEF RereadPlan
  <2>4. Carried(req[r])' /\ ~Removed(req'[r])
    BY <1>1, <2>1, <2>2, <2>3 DEF Carried, SameCall, Removed
  <2> QED BY <2>1, <2>3, <2>4, QuietStep
<1> QED BY <1>2, <1>3 DEF RereadPlan

LEMMA TakeAnswerStep ==
    ASSUME IInv, NEW r \in Requests, TakeAnswer(r)
    PROVE  IInv'
BY FailStep DEF TakeAnswer, Fail

-----------------------------------------------------------------------------
(* Writes *)

\* A row is born: nothing spoke of it before.
LEMMA InsertGoalStep ==
    ASSUME IInv, NEW r \in Requests, InsertGoal(r)
    PROVE  IInv'
<1> DEFINE u == req[r].user
<1>1. req[r].op = "createGoal" /\ UNCHANGED <<users, events>>
  BY DEF InsertGoal
<1>2. CASE WriteFails(r)
  BY <1>1, <1>2, FailStep DEF WriteFails
<1>3. ASSUME u \in users, NEW g \in Goals, state[g] = "unborn", Insert(g, u),
             AfterWrite(r, "announce", g), UNCHANGED goalOf
      PROVE  IInv'
  <2>1. g \in Items /\ g \notin Plans /\ u \in Users
    BY <1>3, ConstantsAssumption DEF Items, IInv, TypeOK
  <2>2. /\ state' = [state EXCEPT ![g] = "live"]
        /\ owner' = [owner EXCEPT ![g] = u]
        /\ feed' = feed \cup {[type |-> "INSERT", item |-> g]}
    BY <1>3 DEF Insert
  <2>3. /\ OnlyReq(r)
        /\ \/ SameCall(r) /\ req'[r].item = g /\ req'[r].pc = "announce"
           \/ Ended(r)
    BY <1>3, <2>1, AfterWriteFacts DEF IInv, TypeOK
  <2>4. TypeOK'
    BY <1>1, <1>3, <2>1, <2>2, <2>3 DEF IInv, TypeOK, OnlyReq, Change, Types
  <2>5. RowsStay
    BY <1>3, <2>1, <2>2 DEF RowsStay, IInv, TypeOK
  <2>6. state'[g] = "live" /\ owner'[g] = u
    BY <2>1, <2>2 DEF IInv, TypeOK
  <2>7. \A i \in Items : i # g => state'[i] = state[i] /\ owner'[i] = owner[i]
    BY <2>2 DEF IInv, TypeOK
  <2>8. Carried(req[r])'
    <3>1. CASE Ended(r)
      BY <3>1 DEF Ended, Carried, Changes, Removed
    <3>2. CASE SameCall(r) /\ req'[r].item = g /\ req'[r].pc = "announce"
      BY <1>1, <2>1, <2>6, <3>2 DEF SameCall, Carried, Changes, Removed
    <3> QED BY <2>3, <3>1, <3>2
  <2>9. (\A s \in Requests : Carried(req[s]))'
    BY <2>3, <2>5, <2>8, CarriedPreserved
  <2>10. RemovedOnce'
    BY <1>1, <2>3, RemovedPreserved DEF Ended, SameCall, Removed
  <2>11. Rows'
    BY <1>3, <2>1, <2>6, <2>7 DEF IInv, Rows, Items
  <2>12. Mentions'
    BY <1>1, <1>3, <2>1, <2>2, <2>6, <2>7 DEF IInv, TypeOK, Mentions, Change, Event
  <2>13. AddressedToOwner' /\ NoFalseDelete'
    BY <1>1, <1>3, <2>7 DEF IInv, TypeOK, AddressedToOwner, NoFalseDelete, Mentions, Event
  <2> QED BY <2>4, <2>9, <2>10, <2>11, <2>12, <2>13 DEF IInv
<1> QED BY <1>2, <1>3 DEF InsertGoal

LEMMA InsertPlanStep ==
    ASSUME IInv, NEW r \in Requests, InsertPlan(r)
    PROVE  IInv'
<1> DEFINE g == req[r].goal
<1>1. req[r].op = "createPlan" /\ req[r].pc = "write" /\ UNCHANGED <<users, events>>
  BY DEF InsertPlan
<1>2. g \in Goals /\ state[g] # "unborn" /\ req[r].user = owner[g]
  BY <1>1 DEF IInv, Carried
<1>3. CASE WriteFails(r)
  BY <1>1, <1>3, FailStep DEF WriteFails
<1>4. ASSUME state[g] = "live", NEW p \in Plans, state[p] = "unborn",
             Insert(p, owner[g]), goalOf' = [goalOf EXCEPT ![p] = g],
             AfterWrite(r, "reread", p)
      PROVE  IInv'
  <2>1. /\ p \in Items /\ g \in Items /\ p \notin Goals /\ p # g
        /\ owner[g] \in Users
    BY <1>2, <1>4, ConstantsAssumption DEF Items, IInv, Rows
  <2>2. /\ state' = [state EXCEPT ![p] = "live"]
        /\ owner' = [owner EXCEPT ![p] = owner[g]]
        /\ feed' = feed \cup {[type |-> "INSERT", item |-> p]}
    BY <1>4 DEF Insert
  <2>3. /\ OnlyReq(r)
        /\ \/ SameCall(r) /\ req'[r].item = p /\ req'[r].pc = "reread"
           \/ Ended(r)
    BY <1>4, <2>1, AfterWriteFacts DEF IInv, TypeOK
  <2>4. TypeOK'
    BY <1>1, <1>2, <1>4, <2>1, <2>2, <2>3 DEF IInv, TypeOK, OnlyReq, Change, Types
  <2>5. RowsStay
    BY <1>4, <2>1, <2>2 DEF RowsStay, IInv, TypeOK
  <2>6. state'[p] = "live" /\ owner'[p] = owner[g] /\ goalOf'[p] = g
    BY <1>4, <2>1, <2>2 DEF IInv, TypeOK
  <2>7. /\ \A i \in Items : i # p => state'[i] = state[i] /\ owner'[i] = owner[i]
        /\ \A o \in Plans : o # p => goalOf'[o] = goalOf[o]
    BY <1>4, <2>2 DEF IInv, TypeOK
  <2>8. Carried(req[r])'
    <3>1. CASE Ended(r)
      BY <3>1 DEF Ended, Carried, Changes, Removed
    <3>2. CASE SameCall(r) /\ req'[r].item = p /\ req'[r].pc = "reread"
      BY <1>1, <1>2, <2>1, <2>6, <2>7, <3>2 DEF SameCall, Carried, Changes, Removed
    <3> QED BY <2>3, <3>1, <3>2
  <2>9. (\A s \in Requests : Carried(req[s]))'
    BY <2>3, <2>5, <2>8, CarriedPreserved
  <2>10. RemovedOnce'
    BY <1>1, <2>3, RemovedPreserved DEF Ended, SameCall, Removed
  <2>11. Rows'
    <3>1. (\A i \in Items : state[i] # "unborn" => owner[i] \in Users)'
      BY <2>1, <2>6, <2>7 DEF IInv, Rows
    <3>2. ASSUME NEW o \in Plans, state'[o] # "unborn"
          PROVE  /\ goalOf'[o] \in Goals
                 /\ state'[goalOf'[o]] # "unborn"
                 /\ owner'[o] = owner'[goalOf'[o]]
      <4>1. CASE o = p
        BY <1>2, <2>1, <2>6, <2>7, <4>1
      <4>2. CASE o # p
        BY <2>1, <2>7, <3>2, <4>2 DEF IInv, Rows, Items
      <4> QED BY <4>1, <4>2
    <3> QED BY <3>1, <3>2 DEF Rows
  <2>12. Mentions'
    BY <1>1, <1>4, <2>1, <2>2, <2>6, <2>7 DEF IInv, TypeOK, Mentions, Change, Event
  <2>13. AddressedToOwner' /\ NoFalseDelete'
    BY <1>1, <1>4, <2>7 DEF IInv, TypeOK, AddressedToOwner, NoFalseDelete, Mentions, Event
  <2> QED BY <2>4, <2>9, <2>10, <2>11, <2>12, <2>13 DEF IInv
<1> QED BY <1>3, <1>4 DEF InsertPlan

LEMMA UpdateRowStep ==
    ASSUME IInv, NEW r \in Requests, UpdateRow(r)
    PROVE  IInv'
<1> DEFINE i == req[r].item
<1> DEFINE label == IF req[r].op = "update" THEN "announce" ELSE "ok"
<1>1. /\ req[r].op \in {"update", "updateStatus"} /\ req[r].pc = "write"
      /\ UNCHANGED <<users, events>>
  BY DEF UpdateRow
<1>2. i \in Items /\ state[i] # "unborn" /\ req[r].user = owner[i]
  BY <1>1 DEF IInv, Carried, Changes
<1>3. CASE WriteFails(r)
  BY <1>1, <1>3, FailStep DEF WriteFails
<1>4. CASE /\ feed' = feed \cup {[type |-> "UPDATE", item |-> i]}
           /\ AfterWrite(r, label, i)
           /\ UNCHANGED <<state, goalOf, owner>>
  <2>1. label \in {"announce", "ok"} /\ (label = "ok" => req[r].op = "updateStatus")
    BY <1>1
  <2> HIDE DEF label
  <2>2. /\ OnlyReq(r)
        /\ \/ SameCall(r) /\ req'[r].item = i /\ req'[r].pc = label
           \/ Ended(r)
    BY <1>2, <1>4, <2>1, AfterWriteFacts DEF IInv, TypeOK
  <2>3. TypeOK'
    BY <1>1, <1>2, <1>4, <2>2 DEF IInv, TypeOK, OnlyReq, Change, Types
  <2>4. RowsStay
    BY <1>4 DEF RowsStay
  <2>5. Carried(req[r])'
    <3>1. CASE Ended(r)
      BY <3>1 DEF Ended, Carried, Changes, Removed
    <3>2. CASE SameCall(r) /\ req'[r].item = i /\ req'[r].pc = label
      <4>1. req[r].user \in Users /\ (i \in Goals => req[r].caller = req[r].user)
        BY <1>1 DEF IInv, Carried, Changes
      <4> QED BY <1>1, <1>2, <1>4, <2>1, <3>2, <4>1 DEF SameCall, Carried, Changes, Removed
    <3> QED BY <2>2, <3>1, <3>2
  <2>6. (\A s \in Requests : Carried(req[s]))'
    BY <2>2, <2>4, <2>5, CarriedPreserved
  <2>7. RemovedOnce'
    BY <1>1, <2>2, RemovedPreserved DEF Ended, SameCall, Removed
  <2>8. Mentions'
    BY <1>1, <1>2, <1>4 DEF IInv, Mentions
  <2>9. (Rows /\ AddressedToOwner /\ NoFalseDelete)'
    BY <1>1, <1>4 DEF IInv, Rows, AddressedToOwner, NoFalseDelete
  <2> QED BY <2>3, <2>6, <2>7, <2>8, <2>9 DEF IInv
<1> QED BY <1>3, <1>4 DEF UpdateRow

\* Rows go with all that refers to them.
LEMMA EraseFacts ==
    ASSUME IInv, NEW items \in SUBSET Items, Erase(Cascade(items)),
           \A i \in items : state[i] = "live",
           UNCHANGED <<goalOf, owner, events>>
    PROVE  /\ RowsStay
           /\ \A i \in Items : state'[i] # "live" => state'[i] = state[i] \/ i \in Cascade(items)
           /\ \A i \in Items : state'[i] = IF i \in Cascade(items) THEN "gone" ELSE state[i]
           /\ state' \in [Items -> {"unborn", "live", "gone"}]
           /\ feed' \subseteq Change
           /\ (Rows /\ Mentions /\ AddressedToOwner /\ NoFalseDelete)'
<1>1. Cascade(items) \subseteq Items /\ \A i \in Cascade(items) : state[i] = "live"
  BY DEF Cascade, Items
<1>2. /\ state' = [i \in Items |-> IF i \in Cascade(items) THEN "gone" ELSE state[i]]
      /\ feed' = feed \cup [type : {"DELETE"}, item : Cascade(items)]
  BY DEF Erase
<1>3. \A i \in Items : state'[i] = IF i \in Cascade(items) THEN "gone" ELSE state[i]
  BY <1>2
<1>4. state' \in [Items -> {"unborn", "live", "gone"}]
  BY <1>2 DEF IInv, TypeOK
<1>5. \A i \in Items : state'[i] = "unborn" <=> state[i] = "unborn"
  BY <1>1, <1>3
<1>6. RowsStay
  BY <1>3, <1>5 DEF RowsStay
<1>7. feed' \subseteq Change
  BY <1>1, <1>2 DEF IInv, TypeOK, Change, Types
<1>8. Rows'
  BY <1>5 DEF IInv, Rows, Items
<1>9. Mentions'
  <2>1. \A e \in feed' \cup events : e.item \in Items
    BY <1>7 DEF Change, Event, IInv, TypeOK
  <2>2. \A e \in feed' \cup events : state[e.item] # "unborn"
    BY <1>1, <1>2 DEF IInv, Mentions
  <2> QED BY <1>5, <2>1, <2>2 DEF Mentions
<1>10. (AddressedToOwner /\ NoFalseDelete)'
  BY <1>3 DEF IInv, TypeOK, Event, AddressedToOwner, NoFalseDelete
<1> HIDE DEF Cascade
<1> QED BY <1>3, <1>4, <1>6, <1>7, <1>8, <1>9, <1>10

LEMMA DeleteRowStep ==
    ASSUME IInv, NEW r \in Requests, DeleteRow(r)
    PROVE  IInv'
<1> DEFINE i == req[r].item
<1>1. /\ req[r].op = "remove" /\ req[r].pc = "write"
      /\ UNCHANGED <<users, events>>
  BY DEF DeleteRow
<1>2. /\ i \in Items /\ req[r].user = owner[i] /\ req[r].user \in Users
      /\ i \in Goals => req[r].caller = req[r].user
  BY <1>1 DEF IInv, Carried, Changes
<1>3. CASE WriteFails(r)
  BY <1>1, <1>3, FailStep DEF WriteFails
<1>4. CASE /\ state[i] = "live"
           /\ Erase(Cascade({i}))
           /\ AfterWrite(r, "announce", i)
           /\ UNCHANGED <<goalOf, owner>>
  <2>1. /\ OnlyReq(r)
        /\ \/ SameCall(r) /\ req'[r].item = i /\ req'[r].pc = "announce"
           \/ Ended(r)
    BY <1>2, <1>4, AfterWriteFacts DEF IInv, TypeOK
  <2>2. /\ RowsStay
        /\ \A j \in Items : state'[j] = IF j \in Cascade({i}) THEN "gone" ELSE state[j]
        /\ state' \in [Items -> {"unborn", "live", "gone"}]
        /\ feed' \subseteq Change
        /\ (Rows /\ Mentions /\ AddressedToOwner /\ NoFalseDelete)'
    BY <1>1, <1>2, <1>4, EraseFacts
  <2>3. TypeOK'
    BY <1>1, <1>4, <2>1, <2>2 DEF IInv, TypeOK, OnlyReq
  <2>4. state'[i] = "gone"
    BY <1>2, <2>2 DEF Cascade
  <2>5. Carried(req[r])'
    <3>1. CASE Ended(r)
      BY <3>1 DEF Ended, Carried, Changes, Removed
    <3>2. CASE SameCall(r) /\ req'[r].item = i /\ req'[r].pc = "announce"
      BY <1>1, <1>2, <1>4, <2>4, <3>2 DEF SameCall, Carried, Changes, Removed
    <3> QED BY <2>1, <3>1, <3>2
  <2>6. (\A s \in Requests : Carried(req[s]))'
    BY <2>1, <2>2, <2>5, CarriedPreserved
  <2>7. RemovedOnce'
    <3>1. CASE Ended(r)
      BY <2>1, <3>1, RemovedPreserved DEF Ended, Removed
    <3>2. CASE req'[r].item = i
      <4>1. \A s \in Requests : Removed(req[s]) => req[s].item # i
        BY <1>4 DEF IInv, Carried
      <4> QED BY <2>1, <3>2, <4>1, RemovedPreserved
    <3> QED BY <2>1, <3>1, <3>2
  <2> QED BY <2>2, <2>3, <2>6, <2>7 DEF IInv
<1> QED BY <1>3, <1>4 DEF DeleteRow

-----------------------------------------------------------------------------
(* Events, removals of users, restarts *)

\* An event about a row there is or was, for its owner, is in order.
LEMMA EventFacts ==
    ASSUME IInv, NEW e \in Event, events' = events \cup {e},
           state[e.item] # "unborn", e.userId = owner[e.item],
           e.type = "DELETE" => state[e.item] = "gone",
           UNCHANGED <<users, state, goalOf, owner, feed>>
    PROVE  /\ events' \subseteq Event
           /\ (Rows /\ Mentions /\ AddressedToOwner /\ NoFalseDelete)'
BY DEF IInv, TypeOK, Rows, Mentions, AddressedToOwner, NoFalseDelete

LEMMA AnnounceStep ==
    ASSUME IInv, NEW r \in Requests, Announce(r)
    PROVE  IInv'
<1> DEFINE i == req[r].item
           e == [type |-> TypeOf(req[r].op), item |-> i, userId |-> req[r].user]
<1>1. /\ req[r].pc = "announce" /\ Goto(r, "ok")
      /\ events' = events \cup {e} \/ UNCHANGED events
      /\ UNCHANGED <<users, state, goalOf, owner, feed>>
  BY DEF Announce
<1>2. /\ i \in Items /\ state[i] # "unborn" /\ req[r].user = owner[i]
      /\ req[r].op = "remove" => state[i] = "gone"
      /\ Carried(req[r])
  BY <1>1 DEF IInv, Carried, Removed
<1>3. owner[i] \in Users
  BY <1>2 DEF IInv, Rows
<1>4. TypeOf(req[r].op) \in Types /\ (TypeOf(req[r].op) = "DELETE" => req[r].op = "remove")
  BY DEF TypeOf, Types, Creations
<1>5. e \in Event
  BY <1>2, <1>3, <1>4 DEF Event
<1>6. /\ events' \subseteq Event
      /\ (Rows /\ Mentions /\ AddressedToOwner /\ NoFalseDelete)'
  <2>1. CASE events' = events \cup {e}
    BY <1>1, <1>2, <1>4, <1>5, <2>1, EventFacts
  <2>2. CASE UNCHANGED events
    BY <1>1, <2>2 DEF IInv, TypeOK, Rows, Mentions, AddressedToOwner, NoFalseDelete
  <2> QED BY <1>1, <2>1, <2>2
<1>7. OnlyReq(r) /\ SameCall(r) /\ req'[r].item = i /\ req'[r].pc = "ok"
  BY <1>1, GotoFacts DEF IInv, TypeOK
<1>8. RowsStay
  BY <1>1 DEF RowsStay
<1>9. Carried(req[r])'
  BY <1>1, <1>2, <1>7 DEF Carried, SameCall, Removed
<1>10. (\A s \in Requests : Carried(req[s]))'
  BY <1>7, <1>8, <1>9, CarriedPreserved
\* It had removed the row before.
<1>11. RemovedOnce'
  <2>1. ~Removed(req'[r]) \/ \A s \in Requests :
          s # r /\ Removed(req[s]) => req[s].item # req'[r].item
    BY <1>1, <1>7 DEF IInv, RemovedOnce, Removed, SameCall
  <2> QED BY <1>7, <2>1, RemovedPreserved
<1>12. TypeOK'
  BY <1>1, <1>6, <1>7 DEF IInv, TypeOK, OnlyReq
<1> QED BY <1>6, <1>10, <1>11, <1>12 DEF IInv

LEMMA HandleStep ==
    ASSUME IInv, NEW change \in feed, HandleRealtimeChange(change)
    PROVE  IInv'
<1> DEFINE e == [type |-> change.type, item |-> change.item, userId |-> owner[change.item]]
<1>1. /\ change \in Change /\ state[change.item] # "unborn"
      /\ change.item \in Items /\ change.type \in Types
  BY DEF IInv, TypeOK, Mentions, Change
<1>2. owner[change.item] \in Users
  BY <1>1 DEF IInv, Rows
<1>3. e \in Event /\ e.type # "DELETE" /\ e.item = change.item /\ e.userId = owner[change.item]
  BY <1>1, <1>2 DEF Event, HandleRealtimeChange, HasUserId
<1>4. events' = events \cup {e} /\ UNCHANGED <<users, state, goalOf, owner, req, feed>>
  BY DEF HandleRealtimeChange
<1> HIDE DEF e
<1>5. /\ events' \subseteq Event
      /\ (Rows /\ Mentions /\ AddressedToOwner /\ NoFalseDelete)'
  BY <1>1, <1>3, <1>4, EventFacts
<1>6. TypeOK'
  BY <1>4, <1>5 DEF IInv, TypeOK
<1>7. (\A s \in Requests : Carried(req[s]))'
  BY <1>4 DEF IInv, Carried
<1>8. RemovedOnce'
  BY <1>4 DEF IInv, RemovedOnce, Removed
<1> QED BY <1>5, <1>6, <1>7, <1>8 DEF IInv

LEMMA RemoveUserStep ==
    ASSUME IInv, NEW u \in Users, RemoveUser(u)
    PROVE  IInv'
<1> DEFINE owned == {g \in Goals : state[g] = "live" /\ owner[g] = u}
<1>1. /\ users' = users \ {u} /\ Erase(Cascade(owned))
      /\ UNCHANGED <<goalOf, owner, req, events>>
  BY DEF RemoveUser
<1>2. owned \in SUBSET Items /\ \A g \in owned : state[g] = "live"
  BY DEF Items
<1>3. /\ RowsStay
      /\ \A i \in Items : state'[i] = IF i \in Cascade(owned) THEN "gone" ELSE state[i]
      /\ state' \in [Items -> {"unborn", "live", "gone"}]
      /\ feed' \subseteq Change
      /\ (Rows /\ Mentions /\ AddressedToOwner /\ NoFalseDelete)'
  BY <1>1, <1>2, EraseFacts
<1>4. TypeOK'
  BY <1>1, <1>3 DEF IInv, TypeOK
<1>5. (\A s \in Requests : Carried(req[s]))'
  <2> SUFFICES ASSUME NEW s \in Requests PROVE Carried(req[s])'
    OBVIOUS
  <2>1. req'[s] = req[s] /\ Carried(req[s]) /\ req[s] \in Request
    BY <1>1 DEF IInv, TypeOK
  <2> QED BY <1>3, <2>1 DEF Carried, Removed, Changes, RowsStay, Items, Request
<1>6. RemovedOnce'
  BY <1>1 DEF IInv, RemovedOnce, Removed
<1> QED BY <1>3, <1>4, <1>5, <1>6 DEF IInv

LEMMA RestartStep ==
    ASSUME IInv, Restart
    PROVE  IInv'
<1>1. /\ req' = [r \in Requests |-> IF req[r].pc \in Working THEN Idle ELSE req[r]]
      /\ feed' = {} /\ UNCHANGED <<users, state, goalOf, owner, events>>
  BY DEF Restart
<1>2. Idle \in Request /\ Idle.op = "none" /\ Idle.pc = "idle"
  BY DEF Idle, Request
<1>3. req' \in [Requests -> Request]
  BY <1>1, <1>2 DEF IInv, TypeOK
<1>4. TypeOK'
  BY <1>1, <1>3 DEF IInv, TypeOK
<1>5. Carried(Idle)
  BY <1>2 DEF Carried, Changes, Removed
<1>6. (\A r \in Requests : Carried(req[r]))'
  <2> SUFFICES ASSUME NEW r \in Requests PROVE Carried(req[r])'
    OBVIOUS
  <2>1. req'[r] = Idle \/ req'[r] = req[r]
    BY <1>1
  <2> QED BY <1>1, <1>5, <2>1 DEF IInv, Carried
<1>7. RemovedOnce'
  BY <1>1, <1>2 DEF IInv, RemovedOnce, Removed
<1>8. (Rows /\ Mentions /\ AddressedToOwner /\ NoFalseDelete)'
  BY <1>1 DEF IInv, Rows, Mentions, AddressedToOwner, NoFalseDelete
<1> QED BY <1>4, <1>6, <1>7, <1>8 DEF IInv

-----------------------------------------------------------------------------
(* The invariant *)

LEMMA InitIInv == Init => IInv
<1> SUFFICES ASSUME Init PROVE IInv
  OBVIOUS
<1>1. Idle \in Request /\ Idle.op = "none" /\ Idle.pc = "idle"
  BY DEF Idle, Request
<1>2. TypeOK
  BY <1>1 DEF Init, TypeOK
<1>3. \A r \in Requests : Carried(req[r])
  BY <1>1 DEF Init, Carried, Changes, Removed
<1>4. RemovedOnce
  BY <1>1 DEF Init, RemovedOnce, Removed
<1>5. Rows /\ Mentions /\ AddressedToOwner /\ NoFalseDelete
  BY DEF Init, Rows, Mentions, AddressedToOwner, NoFalseDelete, Items
<1> QED BY <1>2, <1>3, <1>4, <1>5 DEF IInv

\* One step per action.
LEMMA StepIInv == IInv /\ [Next]_vars => IInv'
<1> SUFFICES ASSUME IInv, [Next]_vars PROVE IInv'
  OBVIOUS
<1>1. ASSUME NEW r \in Requests, Step(r) PROVE IInv'
  BY <1>1, CheckUserStep, CheckGoalStep, CheckOwnerStep, InsertGoalStep,
     InsertPlanStep, UpdateRowStep, DeleteRowStep, RereadPlanStep, AnnounceStep
  DEF Step, Check, Write
<1>2. ASSUME NEW r \in Requests, TakeAnswer(r) PROVE IInv'
  BY <1>2, TakeAnswerStep
<1>3. CASE \E change \in feed : HandleRealtimeChange(change)
  BY <1>3, HandleStep
<1>4. CASE \E u \in Users : RemoveUser(u)
  BY <1>4, RemoveUserStep
<1>5. CASE Restart
  BY <1>5, RestartStep
<1>6. CASE UNCHANGED vars
  BY <1>6 DEF vars, IInv, TypeOK, Rows, Mentions, Carried, AddressedToOwner,
     NoFalseDelete, RemovedOnce, Removed
<1> QED BY <1>1, <1>2, <1>3, <1>4, <1>5, <1>6, ArriveStep DEF Next

LEMMA Invariance == Spec => []IInv
<1>1. Init => IInv BY InitIInv
<1>2. IInv /\ [Next]_vars => IInv' BY StepIInv
<1> QED BY <1>1, <1>2, PTL DEF Spec

-----------------------------------------------------------------------------
(* The theorems *)

\* Tables, requests, feed and events have their types.
THEOREM TypeCorrect == Spec => []TypeOK
<1>1. IInv => TypeOK BY DEF IInv
<1> QED BY <1>1, Invariance, PTL

\* Every event names the owner of the row it is about.
THEOREM EventsNameOwners == Spec => []AddressedToOwner
<1>1. IInv => AddressedToOwner BY DEF IInv
<1> QED BY <1>1, Invariance, PTL

\* A DELETE is announced only for a row that is gone.
THEOREM DeletesAreTrue == Spec => []NoFalseDelete
<1>1. IInv => NoFalseDelete BY DEF IInv
<1> QED BY <1>1, Invariance, PTL

\* A row is reported as removed by one request at most of those that race.
THEOREM RemovalsAreOnce == Spec => []RemovedOnce
<1>1. IInv => RemovedOnce BY DEF IInv
<1> QED BY <1>1, Invariance, PTL

\* A goal goes, and its plans with it, by a request of its owner or with its
\* owner; a plan alone by a request that names its owner, whoever calls.
THEOREM OwnersRemove == Spec => OnlyOwnerRemoves
<1>1. IInv /\ [Next]_vars => [OwnerRemoves]_vars
  <2> DEFINE ByOwner(i, r) ==
        /\ req[r].pc = "write" /\ req[r].op = "remove"
        /\ \/ /\ req[r].caller = owner[i] /\ req[r].item \in Goals
              /\ i \in Cascade({req[r].item})
           \/ i \in Plans /\ req[r].item = i /\ req[r].user = owner[i]
  <2> SUFFICES ASSUME IInv, Next, NEW i \in Items,
                      state[i] = "live", state'[i] = "gone"
               PROVE  owner[i] \in users \ users' \/ \E r \in Requests : ByOwner(i, r)
    BY DEF OwnerRemoves
  \* A row that goes with another has its owner.
  <2>1. ASSUME NEW items \in SUBSET Items, i \in Cascade(items)
        PROVE  \E j \in items : owner[i] = owner[j]
    BY <2>1 DEF Cascade, IInv, Rows
  <2>2. ASSUME NEW items \in SUBSET Items, Erase(Cascade(items))
        PROVE  i \in Cascade(items)
    BY <2>2 DEF Erase
  <2>3. ASSUME NEW r \in Requests, DeleteRow(r)
        PROVE  ByOwner(i, r)
    <3> DEFINE j == req[r].item
    <3>1. req[r].pc = "write" /\ req[r].op = "remove"
      BY <2>3 DEF DeleteRow
    <3>2. /\ j \in Items /\ req[r].user = owner[j]
          /\ j \in Goals => req[r].caller = owner[j]
      BY <3>1 DEF IInv, Carried, Changes
    <3>3. Erase(Cascade({j}))
      BY <2>3 DEF DeleteRow, WriteFails
    <3>4. i \in Cascade({j}) /\ owner[i] = owner[j]
      BY <2>1, <2>2, <3>2, <3>3
    <3>5. CASE j \in Goals
      BY <3>1, <3>2, <3>4, <3>5
    <3>6. CASE j \in Plans
      <4>1. i = j
        BY <3>4, <3>6, ConstantsAssumption DEF Cascade, IInv, Rows
      <4> QED BY <3>1, <3>2, <3>4, <3>6, <4>1
    <3> QED BY <3>2, <3>5, <3>6 DEF Items
  <2>4. ASSUME NEW u \in Users, RemoveUser(u) PROVE owner[i] \in users \ users'
    <3> DEFINE owned == {g \in Goals : state[g] = "live" /\ owner[g] = u}
    <3>1. owned \in SUBSET Items /\ Erase(Cascade(owned))
      BY <2>4 DEF RemoveUser, Items
    <3>2. \E g \in owned : owner[i] = owner[g]
      BY <2>1, <2>2, <3>1
    <3>3. owner[i] = u
      BY <3>2
    <3> QED BY <2>4, <3>3 DEF RemoveUser
  <2>5. ASSUME NEW r \in Requests,
               Check(r) \/ RereadPlan(r) \/ Announce(r) \/ TakeAnswer(r) \/ UpdateRow(r)
        PROVE  FALSE
    BY <2>5 DEF Check, CheckUser, CheckGoal, CheckOwner, RereadPlan, Announce,
       TakeAnswer, UpdateRow, WriteFails
  <2>6. ASSUME NEW r \in Requests, InsertGoal(r) \/ InsertPlan(r) PROVE FALSE
    <3>1. CASE UNCHANGED state
      BY <3>1
    <3>2. ASSUME NEW j \in Items, state' = [state EXCEPT ![j] = "live"] PROVE FALSE
      BY <3>2 DEF IInv, TypeOK
    <3> QED BY <2>6, <3>1, <3>2 DEF InsertGoal, InsertPlan, Insert, WriteFails, Items
  <2>7. ASSUME NEW r \in Requests,
               \/ \E u \in Users :
                    \/ StartCreateGoal(r, u)
                    \/ \E op \in Changes, c \in Users, j \in Items : StartChange(r, op, c, u, j)
               \/ \E g \in Goals : StartCreatePlan(r, g)
        PROVE  FALSE
    BY <2>7 DEF StartCreateGoal, StartChange, StartCreatePlan, Start
  <2>8. CASE Restart \/ \E change \in feed : HandleRealtimeChange(change)
    BY <2>8 DEF Restart, HandleRealtimeChange
  <2> HIDE DEF ByOwner
  <2> QED BY <2>3, <2>4, <2>5, <2>6, <2>7, <2>8 DEF Next, Step, Write
<1> QED BY <1>1, Invariance, PTL DEF Spec, OnlyOwnerRemoves

=============================================================================
