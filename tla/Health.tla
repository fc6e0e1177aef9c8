--------------------------------- MODULE Health ---------------------------------
(***************************************************************************)
(* HealthService: the brief check, the detailed check and the checks of    *)
(* one service, as many at a time as there are callers, while the services *)
(* they ask go down and come back.  The brief check and the detailed one   *)
(* ask Supabase by two queries, of two clients: either may fail while the  *)
(* other is answered.                                                      *)
(*                                                                         *)
(* A check sends its queries at once (Promise.allSettled); each settles on *)
(* its own, in any order, and the check reports when the last one has.     *)
(* SupabaseService and RealtimeService are present and configured: without *)
(* their settings the program does not start.                              *)
(***************************************************************************)
EXTENDS Naturals, FiniteSets

CONSTANTS
    Calls,
    Faults      \* a subset of FaultKinds

FaultKinds == {"lost"}      \* a query fails though its service is up

ASSUME FaultsAssumption == Faults \subseteq FaultKinds

VARIABLES
    up,         \* which queries would be answered
    redis,      \* the service was given the address of Redis
    check,      \* the check in each slot
    seen        \* history: what each query could find until it settled

vars == <<up, redis, check, seen>>

Services == {"database", "redis", "supabase"}
Shown == Services \cup {"websocket"}        \* memory is shown and never counted
Queries == Services \cup {"testConnection"} \* of RealtimeService: Supabase again
Probes == Queries \cup {"websocket"}
Ops == {"brief", "detailed", "database", "supabase"}
Result == {"none", "asked", "up", "down"}

\* found: the results of the queries; services: what the reply says
Check == [op : Ops \cup {"none"}, pc : {"idle", "waiting", "reported"},
          found : [Probes -> Result], services : [Shown -> Result],
          status : {"none", "ok", "healthy", "degraded", "unhealthy", "up", "down"}]

Nothing == [p \in Probes |-> "none"]
Idle == [op |-> "none", pc |-> "idle", found |-> Nothing,
         services |-> [p \in Shown |-> "none"],
         status |-> "none"]

Said(x) == IF x THEN "up" ELSE "down"

TypeOK ==
    /\ up \in [Queries -> BOOLEAN] /\ redis \in BOOLEAN
    /\ check \in [Calls -> Check]
    /\ seen \in [Calls -> [Queries -> SUBSET {"up", "down"}]]
    /\ \A c \in Calls, p \in Shown :
         check[c].pc = "reported" => check[c].services[p] # "asked"

Init ==
    /\ up \in [Queries -> BOOLEAN] /\ redis \in BOOLEAN
    /\ check = [c \in Calls |-> Idle]
    /\ seen = [c \in Calls |-> [s \in Queries |-> {}]]

-----------------------------------------------------------------------------
(* A check begins *)

ProbesOf(op) ==
    CASE op = "brief" -> Services
      [] op = "detailed" -> {"database", "redis", "testConnection", "websocket"}
      [] OTHER -> {op}

\* What is known before the first await: the web socket service is always up,
\* and Redis is down when it is not configured.
First(p) ==
    CASE p = "websocket" -> "up"
      [] p = "redis" /\ ~redis -> "down"
      [] OTHER -> "asked"

Start(c, op) ==
    LET found == [p \in Probes |-> IF p \in ProbesOf(op) THEN First(p) ELSE "none"]
    IN /\ check[c].pc # "waiting"
       /\ check' = [check EXCEPT ![c] =
              [Idle EXCEPT !.op = op, !.pc = "waiting", !.found = found]]
       /\ seen' = [seen EXCEPT ![c] =
              [s \in Queries |-> IF found[s] = "asked" THEN {Said(up[s])} ELSE {}]]
       /\ UNCHANGED <<up, redis>>

-----------------------------------------------------------------------------
(* The queries settle *)

Answered(c, s) ==
    /\ check[c].found[s] = "asked"
    /\ check' = [check EXCEPT ![c].found[s] = Said(up[s])]
    /\ UNCHANGED <<up, redis, seen>>

\* The query fails on the way: every check catches the exception.
Failed(c, s) ==
    /\ "lost" \in Faults
    /\ check[c].found[s] = "asked"
    /\ check' = [check EXCEPT ![c].found[s] = "down"]
    /\ seen' = [seen EXCEPT ![c][s] = @ \cup {"down"}]
    /\ UNCHANGED <<up, redis>>

-----------------------------------------------------------------------------
(* The reply *)

Up(found) == {p \in Probes : found[p] = "up"}

DetermineOverallStatus(found) ==
    LET all == Cardinality(ProbesOf("detailed"))
    IN IF Cardinality(Up(found)) = all THEN "healthy"
       ELSE IF 2 * Cardinality(Up(found)) > all THEN "degraded"
       ELSE "unhealthy"

BriefStatus(found) == IF Services \subseteq Up(found) THEN "ok" ELSE "unhealthy"

StatusOf(q) ==
    CASE q.op = "brief" -> BriefStatus(q.found)
      [] q.op = "detailed" -> DetermineOverallStatus(q.found)
      [] OTHER -> q.found[q.op]

\* The query behind what a check of kind op shows of p.
QueryOf(op, p) == IF op = "detailed" /\ p = "supabase" THEN "testConnection" ELSE p

\* Mutant: the brief check takes its results in another order.
ServicesOfSwapped(q) ==
    [p \in Shown |->
        CASE q.op = "brief" /\ p = "redis" -> q.found["supabase"]
          [] q.op = "brief" /\ p = "supabase" -> q.found["redis"]
          [] OTHER -> q.found[QueryOf(q.op, p)]]

ServicesOf(q) == [p \in Shown |-> q.found[QueryOf(q.op, p)]]

Reply(c) ==
    LET q == check[c]
    IN /\ check' = [check EXCEPT ![c] =
              [q EXCEPT !.pc = "reported", !.services = ServicesOf(q),
                        !.status = StatusOf(q), !.found = Nothing]]
       /\ UNCHANGED <<up, redis, seen>>

\* Mutant: the check reports as soon as one of its queries has settled.
ReportFirst(c) ==
    /\ check[c].pc = "waiting"
    /\ \E p \in Probes : check[c].found[p] \in {"up", "down"}
    /\ Reply(c)

Report(c) ==
    /\ check[c].pc = "waiting"
    /\ \A p \in Probes : check[c].found[p] # "asked"
    /\ Reply(c)

-----------------------------------------------------------------------------
(* A query would fail from now on, or be answered again *)

Toggle(s) ==
    /\ up' = [up EXCEPT ![s] = ~@]
    /\ seen' = [c \in Calls |-> IF check[c].found[s] = "asked"
                                THEN [seen[c] EXCEPT ![s] = @ \cup {Said(~up[s])}]
                                ELSE seen[c]]
    /\ UNCHANGED <<redis, check>>

-----------------------------------------------------------------------------

Next ==
    \/ \E c \in Calls, op \in Ops : Start(c, op)
    \/ \E c \in Calls, s \in Queries : Answered(c, s) \/ Failed(c, s)
    \/ \E c \in Calls : Report(c)
    \/ \E s \in Queries : Toggle(s)

Spec == Init /\ [][Next]_vars

-----------------------------------------------------------------------------
(* Properties *)

\* A reply says of a service only what its own query could find, from the start
\* of the check until that query settled, and of Supabase what the query of that
\* kind of check could; Redis is also down when it is not configured.  "ok" and
\* "healthy" are said only when every query of the check could find its service
\* up.  Queries settle in any order, and no result stands for another service
\* or for an earlier check (HealthService.checkHealth, checkDetailedHealth).
ReportsJustified ==
    \A c \in Calls :
        /\ \A s \in Services :
             check[c].services[s] \in {"up", "down"} =>
                 \/ check[c].services[s] \in seen[c][QueryOf(check[c].op, s)]
                 \/ s = "redis" /\ ~redis /\ check[c].services[s] = "down"
        /\ check[c].status \in {"ok", "healthy"} =>
             \A s \in Queries \cap ProbesOf(check[c].op) : "up" \in seen[c][s]
=============================================================================
