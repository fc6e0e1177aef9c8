----------------------------- MODULE GoalEvents -----------------------------
(***************************************************************************)
(* Goals, plans and the events that announce their changes: GoalsService   *)
(* and PlansService with their repositories, the cascading deletes of the  *)
(* schema, and the two ways by which a change reaches the subscribers of a *)
(* table, the broadcast of the service that made it and the change feed of *)
(* Supabase that RealtimeService listens to.                               *)
(*                                                                         *)
(* A handler reads the row, checks its owner, awaits the write and then    *)
(* announces it; each await is a step boundary.  The contents of the rows  *)
(* are left out: no operation decides anything by them.  For either        *)
(* provider UnifiedRealtimeService.broadcast ends in the same emit to the  *)
(* room of the table, in the run of the handler that called it; the room   *)
(* of the user has no members.                                             *)
(***************************************************************************)
EXTENDS FiniteSets

CONSTANTS
    Users, Goals, Plans, Requests,
    Faults,     \* subset of FaultKinds
    None        \* no user, no row

FaultKinds == {"dbError", "broadcastError", "restart"}
Items == Goals \cup Plans

ASSUME ConstantsAssumption ==
    /\ Goals \cap Plans = {}
    /\ None \notin Users \cup Items
    /\ Faults \subseteq FaultKinds

VARIABLES
    users,      \* the ids in table users
    state,      \* state[i]: whether the row of i is still to come, there or gone
    goalOf,     \* goalOf[p]: goal_id of the plan p
    owner,      \* owner[i]: user_id of the goal i, or of the goal of the plan i
    req,        \* the request in each slot
    feed,       \* changes that Supabase may deliver to RealtimeService
    events      \* what subscribers of the tables were sent

vars == <<users, state, goalOf, owner, req, feed, events>>

Creations == {"createGoal", "createPlan"}
Changes == {"update", "updateStatus", "remove"}
Working == {"check", "write", "reread", "announce"}

\* `caller' is the user whom the guard admitted, `user' the one the service is
\* given and acts for, `item' the row the request is about.
Request ==
    [op     : {"none"} \cup Creations \cup Changes,
     pc     : {"idle", "ok"} \cup Working,
     caller : Users \cup {None},
     user   : Users \cup {None},
     goal   : Goals \cup {None},     \* createPlanDto.goalId
     item   : Items \cup {None}]
Idle == [op |-> "none", pc |-> "idle", caller |-> None, user |-> None,
         goal |-> None, item |-> None]

Types == {"INSERT", "UPDATE", "DELETE"}
Change == [type : Types, item : Items]
Event == [type : Types, item : Items, userId : Users]

TypeOK ==
    /\ users \subseteq Users
    /\ state \in [Items -> {"unborn", "live", "gone"}]
    /\ goalOf \in [Plans -> Goals \cup {None}]
    /\ owner \in [Items -> Users \cup {None}]
    /\ req \in [Requests -> Request]
    /\ feed \subseteq Change
    /\ events \subseteq Event

Init ==
    /\ users = Users
    /\ state = [i \in Items |-> "unborn"]
    /\ goalOf = [p \in Plans |-> None]
    /\ owner = [i \in Items |-> None]
    /\ req = [r \in Requests |-> Idle]
    /\ feed = {}
    /\ events = {}

-----------------------------------------------------------------------------
(* Helpers *)

Goto(r, label) == req' = [req EXCEPT ![r].pc = label]

\* The client is answered with an exception: 403, 404 or 500.
Fail(r) == req' = [req EXCEPT ![r] = Idle]

DbError == "dbError" \in Faults

TypeOf(op) == CASE op \in Creations -> "INSERT"
                [] op = "remove" -> "DELETE"
                [] OTHER -> "UPDATE"

\* onDelete: Cascade, from users to goals to plans.
Cascade(items) == items \cup {p \in Plans : state[p] = "live" /\ goalOf[p] \in items}

Erase(items) ==
    /\ state' = [i \in Items |-> IF i \in items THEN "gone" ELSE state[i]]
    /\ feed' = feed \cup {[type |-> "DELETE", item |-> i] : i \in items}

-----------------------------------------------------------------------------
(* Requests arrive *)

Start(r, q) ==
    /\ req[r].pc = "idle"
    /\ req' = [req EXCEPT ![r] = q]
    /\ UNCHANGED <<users, state, goalOf, owner, feed, events>>

StartCreateGoal(r, u) ==
    Start(r, [Idle EXCEPT !.op = "createGoal", !.pc = "check",
                          !.caller = u, !.user = u])

\* POST /plans names a goal, anyone's, and not the caller; PlansService
\* announces to the goal's user.
StartCreatePlan(r, g) ==
    /\ state[g] # "unborn"
    /\ Start(r, [Idle EXCEPT !.op = "createPlan", !.pc = "check", !.goal = g])

\* GoalsController passes on the admitted user, PlansController the userId of
\* the query string, which the caller may choose.
StartChange(r, op, caller, u, i) ==
    /\ state[i] # "unborn"
    /\ i \in Goals => u = caller
    /\ Start(r, [Idle EXCEPT !.op = op, !.pc = "check",
                             !.caller = caller, !.user = u, !.item = i])

-----------------------------------------------------------------------------
(* The reads before the write *)

CheckUser(r) ==
    /\ req[r].pc = "check" /\ req[r].op = "createGoal"
    /\ \/ req[r].user \in users /\ Goto(r, "write")
       \/ req[r].user \notin users /\ Fail(r)
       \/ DbError /\ Fail(r)
    /\ UNCHANGED <<users, state, goalOf, owner, feed, events>>

\* Mutant: the owner of the goal is not passed on.
CheckGoalOnly(r) ==
    LET g == req[r].goal IN
    /\ req[r].pc = "check" /\ req[r].op = "createPlan"
    /\ IF state[g] = "live" THEN Goto(r, "write") ELSE Fail(r)
    /\ UNCHANGED <<users, state, goalOf, owner, feed, events>>

CheckGoal(r) ==
    LET g == req[r].goal IN
    /\ req[r].pc = "check" /\ req[r].op = "createPlan"
    /\ \/ /\ state[g] = "live"
          /\ req' = [req EXCEPT ![r].user = owner[g], ![r].pc = "write"]
       \/ state[g] # "live" /\ Fail(r)
       \/ DbError /\ Fail(r)
    /\ UNCHANGED <<users, state, goalOf, owner, feed, events>>

\* Mutant: the row is found and its owner not compared.
CheckExists(r) ==
    LET i == req[r].item IN
    /\ req[r].pc = "check" /\ req[r].op \in Changes
    /\ IF state[i] = "live" THEN Goto(r, "write") ELSE Fail(r)
    /\ UNCHANGED <<users, state, goalOf, owner, feed, events>>

\* validateEntityOwnership, and its counterpart in PlansService.
CheckOwner(r) ==
    LET i == req[r].item IN
    /\ req[r].pc = "check" /\ req[r].op \in Changes
    /\ \/ state[i] = "live" /\ owner[i] = req[r].user /\ Goto(r, "write")
       \/ (state[i] # "live" \/ owner[i] # req[r].user) /\ Fail(r)
       \/ DbError /\ Fail(r)
    /\ UNCHANGED <<users, state, goalOf, owner, feed, events>>

-----------------------------------------------------------------------------
(* The write.  It fails when the row, or the row it refers to, is gone; and  *)
(* when its answer is lost it may have been applied.                         *)

\* Where the handler goes on after its write.
AfterWrite(r, label, i) ==
    \/ req' = [req EXCEPT ![r].item = i, ![r].pc = label]
    \/ DbError /\ Fail(r)

WriteFails(r) ==
    /\ Fail(r)
    /\ UNCHANGED <<state, goalOf, owner, feed>>

Insert(i, u) ==
    /\ state' = [state EXCEPT ![i] = "live"]
    /\ owner' = [owner EXCEPT ![i] = u]
    /\ feed' = feed \cup {[type |-> "INSERT", item |-> i]}

InsertGoal(r) ==
    LET u == req[r].user IN
    /\ req[r].pc = "write" /\ req[r].op = "createGoal"
    /\ \/ /\ u \in users
          /\ \E g \in Goals : /\ state[g] = "unborn"
                              /\ Insert(g, u)
                              /\ AfterWrite(r, "announce", g)
          /\ UNCHANGED goalOf
       \/ (u \notin users \/ DbError) /\ WriteFails(r)
    /\ UNCHANGED <<users, events>>

InsertPlan(r) ==
    LET g == req[r].goal IN
    /\ req[r].pc = "write" /\ req[r].op = "createPlan"
    /\ \/ /\ state[g] = "live"
          /\ \E p \in Plans : /\ state[p] = "unborn"
                              /\ Insert(p, owner[g])
                              /\ goalOf' = [goalOf EXCEPT ![p] = g]
                              /\ AfterWrite(r, "reread", p)
       \/ (state[g] # "live" \/ DbError) /\ WriteFails(r)
    /\ UNCHANGED <<users, events>>

\* findByIdWithCheckpoints; a plan gone meanwhile is announced all the same.
RereadPlan(r) ==
    /\ req[r].pc = "reread"
    /\ \/ Goto(r, "announce")
       \/ DbError /\ Fail(r)
    /\ UNCHANGED <<users, state, goalOf, owner, feed, events>>

\* updateStatus announces nothing.
UpdateRow(r) ==
    LET i == req[r].item IN
    /\ req[r].pc = "write" /\ req[r].op \in {"update", "updateStatus"}
    /\ \/ /\ state[i] = "live"
          /\ feed' = feed \cup {[type |-> "UPDATE", item |-> i]}
          /\ AfterWrite(r, IF req[r].op = "update" THEN "announce" ELSE "ok", i)
          /\ UNCHANGED <<state, goalOf, owner>>
       \/ (state[i] # "live" \/ DbError) /\ WriteFails(r)
    /\ UNCHANGED <<users, events>>

\* Mutant: the failure of the delete is ignored.
DeleteRowErrorIgnored(r) ==
    LET i == req[r].item IN
    /\ req[r].pc = "write" /\ req[r].op = "remove"
    /\ \/ Erase(Cascade({i}))
       \/ DbError /\ UNCHANGED <<state, feed>>
    /\ Goto(r, "announce")
    /\ UNCHANGED <<users, goalOf, owner, events>>

DeleteRow(r) ==
    LET i == req[r].item IN
    /\ req[r].pc = "write" /\ req[r].op = "remove"
    /\ \/ /\ state[i] = "live"
          /\ Erase(Cascade({i}))
          /\ AfterWrite(r, "announce", i)
          /\ UNCHANGED <<goalOf, owner>>
       \/ (state[i] # "live" \/ DbError) /\ WriteFails(r)
    /\ UNCHANGED <<users, events>>

-----------------------------------------------------------------------------
(* Events *)

\* broadcastGoalEvent and broadcastPlanEvent, down to the room of the table.
\* An error on the way, or a gateway without server yet, is logged only.
Announce(r) ==
    /\ req[r].pc = "announce"
    /\ \/ events' = events \cup {[type |-> TypeOf(req[r].op), item |-> req[r].item,
                                  userId |-> req[r].user]}
       \/ "broadcastError" \in Faults /\ UNCHANGED events
    /\ Goto(r, "ok")
    /\ UNCHANGED <<users, state, goalOf, owner, feed>>

\* handleRealtimeChange drops what has no user_id: table plans has no such
\* column, and the old record of a DELETE holds the primary key only.
HasUserId(change) == change.item \in Goals /\ change.type # "DELETE"

\* Delivery is in any order and may never happen; the change stays in feed,
\* since to deliver it again adds no new event.
HandleRealtimeChange(change) ==
    /\ change \in feed
    /\ HasUserId(change)
    /\ events' = events \cup {[type |-> change.type, item |-> change.item,
                               userId |-> owner[change.item]]}
    /\ UNCHANGED <<users, state, goalOf, owner, req, feed>>

-----------------------------------------------------------------------------
(* The environment *)

\* UsersService.remove: the goals and plans of the user go with the row, and
\* no service announces that.
RemoveUser(u) ==
    /\ u \in users
    /\ users' = users \ {u}
    /\ Erase(Cascade({g \in Goals : state[g] = "live" /\ owner[g] = u}))
    /\ UNCHANGED <<goalOf, owner, req, events>>

TakeAnswer(r) ==
    /\ req[r].pc = "ok"
    /\ req' = [req EXCEPT ![r] = Idle]
    /\ UNCHANGED <<users, state, goalOf, owner, feed, events>>

\* Changes made while nobody listens are not delivered later.
Restart ==
    /\ "restart" \in Faults
    /\ \E r \in Requests : req[r].pc \in Working
    /\ req' = [r \in Requests |->
                 IF req[r].pc \in Working THEN Idle ELSE req[r]]
    /\ feed' = {}
    /\ UNCHANGED <<users, state, goalOf, owner, events>>

-----------------------------------------------------------------------------

Check(r) == CheckUser(r) \/ CheckGoal(r) \/ CheckOwner(r)
Write(r) == InsertGoal(r) \/ InsertPlan(r) \/ UpdateRow(r) \/ DeleteRow(r)
Step(r) == Check(r) \/ Write(r) \/ RereadPlan(r) \/ Announce(r)

Next ==
    \/ \E r \in Requests :
         \/ Step(r) \/ TakeAnswer(r)
         \/ \E u \in Users :
              \/ StartCreateGoal(r, u)
              \/ \E op \in Changes, c \in Users, i \in Items : StartChange(r, op, c, u, i)
         \/ \E g \in Goals : StartCreatePlan(r, g)
    \/ \E change \in feed : HandleRealtimeChange(change)
    \/ \E u \in Users : RemoveUser(u)
    \/ Restart

Spec == Init /\ [][Next]_vars

-----------------------------------------------------------------------------
(* Properties *)

\* Whatever goes in this step goes with its owner's row, or with a goal that a
\* request of the goal's owner is about to delete, or it is a plan about to be
\* deleted by a request that names its owner.
OwnerRemoves ==
    \A i \in Items : state[i] = "live" /\ state'[i] = "gone" =>
        \/ owner[i] \in users \ users'
        \/ \E r \in Requests :
             /\ req[r].pc = "write" /\ req[r].op = "remove"
             /\ \/ /\ req[r].caller = owner[i] /\ req[r].item \in Goals
                   /\ i \in Cascade({req[r].item})
                \/ i \in Plans /\ req[r].item = i /\ req[r].user = owner[i]

\* A goal goes only when its owner asks for that, or with the owner's row, and
\* its plans with it, the ones inserted since GoalsService compared the owner
\* included.  A plan alone goes only by a request that names the owner of its
\* goal in the query string: whoever calls, as PlansController does not compare
\* that name with the caller's.
OnlyOwnerRemoves == [][OwnerRemoves]_vars

\* Whoever emits an event, it names the owner of the row: the broadcast by what
\* the handler read before its write, the feed by the row itself.
AddressedToOwner == \A e \in events : e.userId = owner[e.item]

\* A DELETE is announced for rows that are gone for good.
NoFalseDelete ==
    \A e \in events : e.type = "DELETE" => state[e.item] = "gone"

\* A request whose deletion took effect as far as it knows.
Removed(q) == q.op = "remove" /\ q.pc \in {"announce", "ok"}

\* Of the requests that remove one row at the same time, all past the check,
\* one at most goes on to announce the removal and to answer it with success.
RemovedOnce ==
    \A r, s \in Requests :
        /\ Removed(req[r]) /\ Removed(req[s])
        /\ req[r].item = req[s].item
        => r = s

-----------------------------------------------------------------------------
(* The inductive invariant *)

\* What a row says stays true of it when it is gone.
Rows ==
    /\ \A i \in Items : state[i] # "unborn" => owner[i] \in Users
    /\ \A p \in Plans : state[p] # "unborn" =>
         /\ goalOf[p] \in Goals
         /\ state[goalOf[p]] # "unborn"
         /\ owner[p] = owner[goalOf[p]]

\* Feed and events are about rows that are or were there.
Mentions == \A e \in feed \cup events : state[e.item] # "unborn"

\* What a request carries at each of its steps.
Carried(q) ==
    /\ q.op = "createGoal" => q.user \in Users
    /\ q.op = "createPlan" =>
         /\ q.goal \in Goals
         /\ state[q.goal] # "unborn"
         /\ q.pc # "check" => q.user = owner[q.goal]
    /\ q.op \in Changes =>
         /\ q.item \in Items
         /\ state[q.item] # "unborn"
         /\ q.user \in Users
         /\ q.item \in Goals => q.caller = q.user
         /\ q.pc # "check" => q.user = owner[q.item]
    /\ q.pc \in {"reread", "announce"} =>
         /\ q.item \in Items
         /\ state[q.item] # "unborn"
         /\ q.user = owner[q.item]
    /\ q.pc = "reread" => q.op = "createPlan"
    /\ Removed(q) => state[q.item] = "gone"

IInv ==
    /\ TypeOK
    /\ Rows
    /\ Mentions
    /\ \A r \in Requests : Carried(req[r])
    /\ AddressedToOwner
    /\ NoFalseDelete
    /\ RemovedOnce

=============================================================================
