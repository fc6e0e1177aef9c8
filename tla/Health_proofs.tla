----------------------------- MODULE Health_proofs -----------------------------
(***************************************************************************)
(* Proofs about Health for any number of checks at a time and any faults.  *)
(* ReportsJustified is about replies; Justified extends it to the results  *)
(* a check has collected and to the queries it is still waiting for.       *)
(***************************************************************************)
EXTENDS Health, FiniteSetTheorems, TLAPS

\* A check that waits has an operation, and a query or result for each of its
\* probes and no other.
Asking == \A c \in Calls : check[c].pc = "waiting" =>
              /\ check[c].op \in Ops
              /\ \A p \in Probes :
                    p \in ProbesOf(check[c].op) <=> check[c].found[p] # "none"

\* x is what c may say of s.
MaySay(c, s, x) == \/ x \in seen[c][s]
                   \/ s = "redis" /\ ~redis /\ x = "down"

Justified == \A c \in Calls, s \in Queries :
    /\ check[c].found[s] \in {"up", "down"} => MaySay(c, s, check[c].found[s])
    /\ check[c].found[s] = "asked" => Said(up[s]) \in seen[c][s]

IInv == TypeOK /\ Asking /\ Justified /\ ReportsJustified

LEMMA ServiceNames ==
    /\ Queries \subseteq Probes /\ Services \subseteq Queries /\ Services \subseteq Shown
    /\ "websocket" \notin Queries
    /\ \A op \in Ops : ProbesOf(op) \subseteq Probes
    /\ \A op \in Ops \cup {"none"}, p \in Shown : QueryOf(op, p) \in Probes
    /\ \A op \in Ops \cup {"none"}, s \in Services : QueryOf(op, s) \in Queries
BY DEF Services, Queries, Shown, Probes, ProbesOf, QueryOf, Ops

\* What DetermineOverallStatus and the others answer, of a check that is over.
LEMMA StatusType ==
    ASSUME NEW q \in Check, q.op \in Ops,
           \A p \in Probes : p \in ProbesOf(q.op) <=> q.found[p] # "none",
           \A p \in Probes : q.found[p] # "asked"
    PROVE  StatusOf(q) \in {"ok", "healthy", "degraded", "unhealthy", "up", "down"}
<1>1. CASE q.op = "brief"
    BY <1>1 DEF StatusOf, BriefStatus
<1>2. CASE q.op = "detailed"
    BY <1>2 DEF StatusOf, DetermineOverallStatus
<1>3. CASE q.op \in {"database", "supabase"}
  <2>1. q.op \in Probes /\ q.found[q.op] \notin {"none", "asked"}
      BY <1>3 DEF ProbesOf, Probes, Queries, Services
  <2>2. q.found[q.op] \in {"up", "down"}
      BY <2>1 DEF Check, Result
  <2> QED BY <1>3, <2>2 DEF StatusOf
<1> QED BY <1>1, <1>2, <1>3 DEF Ops

\* All probes of the detailed check are up when as many are as there are.
LEMMA AllUp ==
    ASSUME NEW q \in Check, q.op = "detailed",
           \A p \in Probes : p \in ProbesOf(q.op) <=> q.found[p] # "none",
           StatusOf(q) = "healthy"
    PROVE  \A p \in ProbesOf(q.op) : q.found[p] = "up"
<1> DEFINE all == ProbesOf("detailed")
<1>1. IsFiniteSet(all)
  <2>1. IsFiniteSet({"database"})
      BY FS_Singleton
  <2>2. IsFiniteSet({"database"} \cup {"redis"})
      BY <2>1, FS_AddElement
  <2>3. IsFiniteSet(({"database"} \cup {"redis"}) \cup {"testConnection"})
      BY <2>2, FS_AddElement
  <2>4. IsFiniteSet((({"database"} \cup {"redis"}) \cup {"testConnection"})
                    \cup {"websocket"})
      BY <2>3, FS_AddElement
  <2>5. all = (({"database"} \cup {"redis"}) \cup {"testConnection"})
                  \cup {"websocket"}
      BY DEF ProbesOf
  <2> QED BY <2>4, <2>5
<1>2. Up(q.found) \in SUBSET all
    BY DEF Up
<1>3. Cardinality(Up(q.found)) = Cardinality(all)
    BY DEF StatusOf, DetermineOverallStatus
<1>4. Up(q.found) = all
    BY <1>1, <1>2, <1>3, FS_Subset
<1> QED BY <1>4 DEF Up

\* A check says "ok" or "healthy" only when all its probes are up.
LEMMA SaysWell ==
    ASSUME NEW q \in Check, q.op \in Ops,
           \A p \in Probes : p \in ProbesOf(q.op) <=> q.found[p] # "none",
           StatusOf(q) \in {"ok", "healthy"}
    PROVE  \A p \in ProbesOf(q.op) : q.found[p] = "up"
<1>1. CASE q.op = "brief"
    BY <1>1 DEF StatusOf, BriefStatus, Up, ProbesOf
<1>2. CASE q.op = "detailed"
    BY <1>2, AllUp DEF StatusOf, DetermineOverallStatus
<1>3. CASE q.op \in {"database", "supabase"}
  <2>1. q.found[q.op] \in Result
      BY <1>3 DEF Check, Probes, Queries, Services
  <2> QED BY <1>3, <2>1 DEF StatusOf, Result
<1> QED BY <1>1, <1>2, <1>3 DEF Ops

LEMMA InitIInv == Init => IInv
BY ServiceNames
   DEF Init, IInv, TypeOK, Asking, Justified, ReportsJustified, MaySay, Idle, Nothing,
       Check, Result, Ops

LEMMA StartIInv ==
    ASSUME IInv, NEW c \in Calls, NEW op \in Ops, Start(c, op)
    PROVE  IInv'
<1> DEFINE f == [p \in Probes |-> IF p \in ProbesOf(op) THEN First(p) ELSE "none"]
           q == [Idle EXCEPT !.op = op, !.pc = "waiting", !.found = f]
<1>1. \A p \in Probes : First(p) \in {"up", "down", "asked"}
    BY DEF First
<1>2. f \in [Probes -> Result]
    BY <1>1 DEF Result
<1>3. /\ q \in Check /\ q.op = op /\ q.pc = "waiting" /\ q.found = f
      /\ q.services = [p \in Shown |-> "none"] /\ q.status = "none"
    BY <1>2 DEF Idle, Check, Result
<1>4. /\ check' = [check EXCEPT ![c] = q]
      /\ seen' = [seen EXCEPT ![c] =
              [s \in Queries |-> IF f[s] = "asked" THEN {Said(up[s])} ELSE {}]]
      /\ UNCHANGED <<up, redis>>
    BY DEF Start
<1>5. \A s \in Queries : f[s] \in {"up", "down"} =>
          s = "redis" /\ ~redis /\ f[s] = "down"
    BY ServiceNames DEF First
<1>6. \A p \in Probes : p \in ProbesOf(op) <=> f[p] # "none"
    BY <1>1
<1> HIDE DEF f, q
<1>7. TypeOK'
    BY <1>3, <1>4 DEF IInv, TypeOK, Said
<1>8. Asking'
    BY <1>3, <1>4, <1>6 DEF IInv, TypeOK, Asking
<1>9. Justified'
    BY <1>3, <1>4, <1>5 DEF IInv, TypeOK, Justified, MaySay
<1>10. ReportsJustified'
    BY <1>3, <1>4, ServiceNames DEF IInv, TypeOK, ReportsJustified
<1> QED BY <1>7, <1>8, <1>9, <1>10 DEF IInv

\* A query settles with what the service is, or fails on the way.
LEMMA SettleIInv ==
    ASSUME IInv, NEW c \in Calls, NEW s \in Queries, Answered(c, s) \/ Failed(c, s)
    PROVE  IInv'
<1>1. PICK x \in {"up", "down"} :
          /\ check' = [check EXCEPT ![c].found[s] = x]
          /\ \/ seen' = seen /\ x = Said(up[s])
             \/ seen' = [seen EXCEPT ![c][s] = @ \cup {"down"}] /\ x = "down"
          /\ UNCHANGED <<up, redis>> /\ check[c].found[s] = "asked"
    BY DEF Answered, Failed, Said
<1> DEFINE q == [check[c] EXCEPT !.found[s] = x]
<1>2. /\ q \in Check /\ q.op = check[c].op /\ q.pc = check[c].pc
      /\ q.services = check[c].services /\ q.status = check[c].status
      /\ q.found = [check[c].found EXCEPT ![s] = x]
  <2>1. s \in Probes /\ x \in Result
      BY ServiceNames DEF Result
  <2> QED BY <2>1 DEF IInv, TypeOK, Check
<1>3. check' = [check EXCEPT ![c] = q]
    BY <1>1
<1>4. /\ seen' \in [Calls -> [Queries -> SUBSET {"up", "down"}]]
      /\ x \in seen'[c][s]
      /\ \A d \in Calls, t \in Queries : seen[d][t] \subseteq seen'[d][t]
  <2> USE DEF IInv, TypeOK
  <2>1. CASE seen' = seen /\ x = Said(up[s])
      BY <1>1, <2>1 DEF Justified
  <2>2. CASE seen' = [seen EXCEPT ![c][s] = @ \cup {"down"}] /\ x = "down"
    <3> DEFINE g == [seen[c] EXCEPT ![s] = @ \cup {"down"}]
    <3>1. g \in [Queries -> SUBSET {"up", "down"}] /\ "down" \in g[s]
        OBVIOUS
    <3>2. \A t \in Queries : seen[c][t] \subseteq g[t]
        OBVIOUS
    <3>3. seen' = [seen EXCEPT ![c] = g]
        BY <2>2
    <3> HIDE DEF g
    <3> QED BY <2>2, <3>1, <3>2, <3>3
  <2> QED BY <1>1, <2>1, <2>2
<1> HIDE DEF q
<1>5. TypeOK'
  <2>1. \A p \in Shown : q.pc = "reported" => q.services[p] # "asked"
      BY <1>2 DEF IInv, TypeOK
  <2>2. check' \in [Calls -> Check]
      BY <1>2, <1>3 DEF IInv, TypeOK
  <2>3. \A d \in Calls, p \in Shown :
           check'[d].pc = "reported" => check'[d].services[p] # "asked"
      BY <1>3, <2>1 DEF IInv, TypeOK
  <2> QED BY <1>1, <1>4, <2>2, <2>3 DEF IInv, TypeOK
<1>6. Asking'
    BY <1>1, <1>2, <1>3, ServiceNames DEF IInv, TypeOK, Asking, Check
<1>7. Justified'
    BY <1>1, <1>2, <1>3, <1>4, ServiceNames DEF IInv, TypeOK, Justified, MaySay, Check
<1>8. ReportsJustified'
  <2>1. \A d \in Calls : /\ check'[d].op = check[d].op
                         /\ check'[d].services = check[d].services
                         /\ check'[d].status = check[d].status
                         /\ check[d].op \in Ops \cup {"none"}
      BY <1>2, <1>3 DEF IInv, TypeOK, Check
  <2>2. \A d \in Calls, t \in Services :
            check'[d].services[t] \in {"up", "down"} =>
                \/ check'[d].services[t] \in seen'[d][QueryOf(check'[d].op, t)]
                \/ t = "redis" /\ ~redis' /\ check'[d].services[t] = "down"
      BY <1>1, <1>4, <2>1, ServiceNames DEF IInv, ReportsJustified
  <2>3. ASSUME NEW d \in Calls, check'[d].status \in {"ok", "healthy"}
        PROVE  \A t \in Queries \cap ProbesOf(check'[d].op) : "up" \in seen'[d][t]
      BY <1>4, <2>1, <2>3 DEF IInv, ReportsJustified
  <2> QED BY <2>2, <2>3 DEF ReportsJustified
<1> QED BY <1>5, <1>6, <1>7, <1>8 DEF IInv

LEMMA ReportIInv ==
    ASSUME IInv, NEW c \in Calls, Report(c)
    PROVE  IInv'
<1> DEFINE r == check[c]
           q == [r EXCEPT !.pc = "reported", !.services = ServicesOf(r),
                          !.status = StatusOf(r), !.found = Nothing]
<1>1. /\ r \in Check /\ r.op \in Ops
      /\ \A p \in Probes : p \in ProbesOf(r.op) <=> r.found[p] # "none"
      /\ \A p \in Probes : r.found[p] \in Result \ {"asked"}
    BY DEF Report, IInv, TypeOK, Asking, Check
<1>2. StatusOf(r) \in {"ok", "healthy", "degraded", "unhealthy", "up", "down"}
    BY <1>1, StatusType
<1>3. Nothing \in [Probes -> Result] /\ \A s \in Queries : Nothing[s] = "none"
    BY ServiceNames DEF Nothing, Result
<1>4. /\ ServicesOf(r) \in [Shown -> Result]
      /\ \A p \in Shown : ServicesOf(r)[p] = r.found[QueryOf(r.op, p)]
    BY <1>1, ServiceNames DEF ServicesOf
<1>5. /\ q \in Check /\ q.pc = "reported" /\ q.services = ServicesOf(r)
      /\ q.found = Nothing /\ q.op = r.op /\ q.status = StatusOf(r)
    BY <1>1, <1>2, <1>3, <1>4 DEF Check
<1>6. check' = [check EXCEPT ![c] = q] /\ UNCHANGED <<up, redis, seen>>
    BY DEF Report, Reply
<1>7. \A p \in Shown : q.services[p] # "asked"
    BY <1>1, <1>4, <1>5, ServiceNames
<1>8. \A s \in Services : q.services[s] \in {"up", "down"} =>
          MaySay(c, QueryOf(r.op, s), q.services[s])
    BY <1>1, <1>4, <1>5, ServiceNames DEF IInv, Justified
<1>9. q.status \in {"ok", "healthy"} =>
          \A s \in Queries \cap ProbesOf(q.op) : "up" \in seen[c][s]
  <2> SUFFICES ASSUME q.status \in {"ok", "healthy"},
                      NEW s \in Queries \cap ProbesOf(q.op)
               PROVE  "up" \in seen[c][s]
      OBVIOUS
  <2>1. r.found[s] = "up"
      BY <1>1, <1>5, SaysWell
  <2> QED BY <2>1 DEF IInv, Justified, MaySay
<1>10. \A s \in Services : QueryOf(r.op, s) = "redis" => s = "redis"
    BY DEF QueryOf
<1> HIDE DEF q, r
<1>11. TypeOK'
    BY <1>5, <1>6, <1>7 DEF IInv, TypeOK
<1>12. Asking'
    BY <1>5, <1>6 DEF IInv, TypeOK, Asking
<1>13. Justified'
    BY <1>3, <1>5, <1>6 DEF IInv, TypeOK, Justified, MaySay
<1>14. ReportsJustified'
    BY <1>5, <1>6, <1>8, <1>9, <1>10 DEF IInv, TypeOK, ReportsJustified, MaySay
<1> QED BY <1>11, <1>12, <1>13, <1>14 DEF IInv

LEMMA ToggleIInv ==
    ASSUME IInv, NEW s \in Queries, Toggle(s)
    PROVE  IInv'
<1>1. /\ seen' \in [Calls -> [Queries -> SUBSET {"up", "down"}]]
      /\ \A c \in Calls, t \in Queries : seen[c][t] \subseteq seen'[c][t]
      /\ \A c \in Calls : check[c].found[s] = "asked" => Said(~up[s]) \in seen'[c][s]
    BY DEF Toggle, IInv, TypeOK, Said
<1>2. up' = [up EXCEPT ![s] = ~@] /\ UNCHANGED <<redis, check>>
    BY DEF Toggle
<1>3. up' \in [Queries -> BOOLEAN]
    BY <1>2 DEF IInv, TypeOK
<1>4. up'[s] = ~up[s] /\ \A t \in Queries \ {s} : up'[t] = up[t]
    BY <1>2 DEF IInv, TypeOK
<1>5. TypeOK'
    BY <1>1, <1>2, <1>3 DEF IInv, TypeOK
<1>6. Asking'
    BY <1>2 DEF IInv, Asking
<1>7. Justified'
    BY <1>1, <1>2, <1>4 DEF IInv, TypeOK, Justified, MaySay, Said
<1>8. ReportsJustified'
  <2>1. \A c \in Calls, t \in Services : QueryOf(check[c].op, t) \in Queries
      BY ServiceNames DEF IInv, TypeOK, Check
  <2> QED BY <2>1, <1>1, <1>2 DEF IInv, ReportsJustified
<1> QED BY <1>5, <1>6, <1>7, <1>8 DEF IInv

LEMMA Invariance == Spec => []IInv
<1>1. ASSUME IInv, UNCHANGED vars PROVE IInv'
    BY <1>1 DEF vars, IInv, TypeOK, Asking, Justified, MaySay, ReportsJustified
<1>2. IInv /\ [Next]_vars => IInv'
    BY <1>1, StartIInv, SettleIInv, ReportIInv, ToggleIInv DEF Next
<1> QED BY <1>2, InitIInv, PTL DEF Spec

\* A reply is complete: no result of it is still awaited.
THEOREM TypeCorrect == Spec => []TypeOK
<1>1. IInv => TypeOK
    BY DEF IInv
<1> QED BY <1>1, Invariance, PTL

\* A reply says of a service what its own query could find while it was out, and
\* "ok" or "healthy" only when every query could find its service up.
THEOREM RepliesAreJustified == Spec => []ReportsJustified
<1>1. IInv => ReportsJustified
    BY DEF IInv
<1> QED BY <1>1, Invariance, PTL

==============================================================================
