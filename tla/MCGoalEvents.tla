---------------------------- MODULE MCGoalEvents ----------------------------
(* Instances of GoalEvents for TLC.                                         *)
EXTENDS GoalEvents, TLC

Symmetry == Permutations(Users) \cup Permutations(Goals) \cup
            Permutations(Plans) \cup Permutations(Requests)

\* What is left out is read by no action and no property: the caller of a request
\* about a plan, the goal once the plan is inserted, of a request that is answered
\* everything unless it removed a row, and the changes that the feed drops.
Seen(q) ==
    IF q.pc = "ok" /\ q.op # "remove"
      THEN [Idle EXCEPT !.pc = "ok"]
      ELSE [q EXCEPT !.caller = IF q.item \in Plans THEN None ELSE @,
                     !.goal = IF q.item \in Plans THEN None ELSE @]
Fed == [change \in {c \in Change : HasUserId(c)} |-> change \in feed]
View == <<users, state, goalOf, owner, [r \in Requests |-> Seen(req[r])], Fed, events>>

=============================================================================
