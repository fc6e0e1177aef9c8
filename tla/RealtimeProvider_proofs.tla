------------------------ MODULE RealtimeProvider_proofs ------------------------
(***************************************************************************)
(* Proofs about RealtimeProvider, for any users, tables and connections,   *)
(* any number of calls, and adapters that may fail.                        *)
(*                                                                         *)
(* Between the adapter's answer and the tracking of a subscription lies an *)
(* await, and a migration walks over entries that come and go.  IInv says  *)
(* what each of these calls may still rely on, or that `excused' names it. *)
(***************************************************************************)
EXTENDS RealtimeProvider, TLAPS

\* What the service knows of a call at each of its steps.
LocalsOf(q) ==
    /\ q.pc = "idle" => q = Idle
    /\ q.pc = "track" =>
          \/ q.op = "connect" /\ q.conn \in Connections
          \/ q.op = "subscribe" /\ q.via \in Providers
    /\ q.pc = "track" => q.user \in Users
    /\ q.pc = "leave" => q.op = "unsubscribe" /\ q.leaving \in Tables
    /\ q.pc # "leave" => q.todo = {} /\ q.leaving = None
    /\ q.pc = "untrack" => q.op \in {"disconnect", "unsubscribe"}
    /\ q.op = "unsubscribe" => q.user \in Users /\ q.pc \in {"leave", "untrack"}
    /\ q.pc \in {"ask", "migrate"} => q.to \in Providers
    /\ q.pc = "migrate" /\ q.to = "supabase" => config.supabase
    /\ q.pc # "migrate" => q.visited = {}
    /\ q.pc \in {"after", "ok"} => q.op = "broadcast"

Locals == \A r \in Calls : LocalsOf(call[r])

\* Nothing happens before onModuleInit is over.
Resting ==
    ~running => /\ \A r \in Calls : call[r].pc = "idle"
                /\ \A u \in Users : subscriptions[u] = {}

\* A broadcast has emitted what the provider it asked for emits.
EmittedOf(q) ==
    /\ q.pc = "after" => q.sent \in 0..1
    /\ q.pc = "after" /\ ~q.met => q.sent = IF current = "websocket" THEN 1 ELSE 0
    /\ q.pc = "ok" => q.sent = 1 \/ q.met

Emitted == \A r \in Calls : EmittedOf(call[r])

\* What the Supabase adapter says a user has comes with a channel.
HasChannel ==
    \A u \in Users, t \in Tables : Has(u, t) =>
        \/ <<u, t>> \in excused
        \/ t \in channels /\ t \notin Leaving

Ongoing(u, t) ==
    \E r \in Calls : /\ call[r].op = "unsubscribe" /\ call[r].user = u
                     /\ call[r].pc \in {"leave", "untrack"} /\ t \in call[r].tables

\* What the Supabase adapter has to know of a tracked subscription.
Kept(u, t) == Has(u, t) \/ <<u, t>> \in excused \/ Ongoing(u, t)

\* A subscription about to be tracked is known to the adapter that took it.
ToTrackOf(q) ==
    q.op = "subscribe" /\ q.pc = "track" /\ q.via = "supabase" /\ config.supabase =>
        \A t \in q.tables : Has(q.user, t) \/ <<q.user, t>> \in excused

ToTrack == \A r \in Calls : ToTrackOf(call[r])

\* What a migration has passed is known to the adapter it leads to.
MigratedOf(q) ==
    q.pc = "migrate" /\ q.to = "supabase" =>
        \A u \in q.visited : \A t \in subscriptions[u] : Kept(u, t)

Migrated == \A r \in Calls : MigratedOf(call[r])

\* What is tracked is known to the adapter in use.
Tracked == ViaSupabase => \A u \in Users : \A t \in subscriptions[u] : Kept(u, t)

IInv == /\ TypeOK /\ Locals /\ Resting /\ Emitted /\ NoChannelLeaks
        /\ HasChannel /\ ToTrack /\ Migrated /\ Tracked

LEMMA IdleTyped == Idle \in Call
BY DEF Idle, Call

LEMMA InitIInv == Init => IInv
<1> SUFFICES ASSUME Init PROVE IInv
    OBVIOUS
<1> USE DEF Init
<1>1. TypeOK
  <2>1. current \in Providers /\ userSubs \in [Users -> (SUBSET Tables) \cup {None}]
      OBVIOUS
  <2> QED BY <2>1, IdleTyped DEF TypeOK
<1>2. Locals /\ Resting /\ Emitted
    BY DEF Locals, LocalsOf, Resting, Emitted, EmittedOf, Idle
<1>3. NoChannelLeaks /\ HasChannel /\ ToTrack /\ Migrated /\ Tracked
    BY DEF NoChannelLeaks, HasChannel, Has, ToTrack, ToTrackOf, Migrated, MigratedOf,
           Tracked, Idle
<1> QED BY <1>1, <1>2, <1>3 DEF IInv

-----------------------------------------------------------------------------
(* One call moves, and the adapter's subscriptions may grow *)

LEMMA OneMoves ==
    ASSUME NEW r \in Calls, NEW p \in Call, TypeOK, call' = [call EXCEPT ![r] = p]
    PROVE  /\ call' \in [Calls -> Call] /\ call'[r] = p
           /\ \A s \in Calls \ {r} : call'[s] = call[s]
BY DEF TypeOK

\* What a subscription or a failed one does to the adapter's maps: nothing is
\* lost, and what is new has a channel of its own or is excused.
Grows ==
    /\ excused \subseteq excused' /\ channels \subseteq channels'
    /\ \A u \in Users, t \in Tables : Has(u, t) => Has(u, t)'
    /\ \A u \in Users, t \in Tables : Has(u, t)' =>
          \/ Has(u, t) \/ <<u, t>> \in excused'
          \/ t \in channels' /\ t \notin Leaving
    /\ \A t \in channels' \ channels : \E u \in Users : Has(u, t)' \/ <<u, t>> \in excused'

MapsTyped == /\ userSubs \in [Users -> (SUBSET Tables) \cup {None}]
             /\ channels \subseteq Tables /\ excused \subseteq Users \X Tables

LEMMA StandingGrows ==
    UNCHANGED <<userSubs, channels, excused>> /\ MapsTyped => Grows /\ MapsTyped'
BY DEF Grows, MapsTyped, Has

LEMMA SubscribingGrows ==
    ASSUME NEW u \in Users, NEW T \in SUBSET Tables, MapsTyped, AdapterSubscribe(u, T)
    PROVE  Grows /\ MapsTyped' /\ \A t \in T : Has(u, t)'
<1> DEFINE new == {t \in T : ~Has(u, t)}
           had == IF userSubs[u] = None THEN {} ELSE userSubs[u]
<1>1. /\ userSubs' = [userSubs EXCEPT ![u] = had \cup T]
      /\ channels' = channels \cup new
      /\ excused' = excused \cup {<<u, t>> : t \in new \cap Leaving}
    BY DEF AdapterSubscribe
<1>2. had \in SUBSET Tables
    BY DEF MapsTyped
<1>3. \A t \in Tables : Has(u, t) <=> t \in had
    BY DEF Has
<1>4. new \subseteq T /\ \A t \in T : t \in new <=> t \notin had
    BY <1>2, <1>3
<1> HIDE DEF new, had
<1>5. (had \cup T) \in SUBSET Tables /\ (had \cup T) # None
    BY <1>2, ConstantsAssumption
<1>6. /\ userSubs' \in [Users -> (SUBSET Tables) \cup {None}]
      /\ userSubs'[u] = had \cup T
      /\ \A v \in Users \ {u} : userSubs'[v] = userSubs[v]
    BY <1>1, <1>5 DEF MapsTyped
<1>7. \A t \in Tables : Has(u, t)' <=> t \in had \cup T
    BY <1>5, <1>6 DEF Has
<1>8. \A v \in Users \ {u}, t \in Tables : Has(v, t)' <=> Has(v, t)
    BY <1>6 DEF Has
<1>9. MapsTyped'
    BY <1>1, <1>4, <1>6 DEF MapsTyped
<1>10. \A t \in new :
         <<u, t>> \in excused' \/ (t \in channels' /\ t \notin Leaving)
    BY <1>1
<1>11. \A v \in Users, t \in Tables : Has(v, t)' => Has(v, t) \/ (v = u /\ t \in new)
    BY <1>3, <1>4, <1>7, <1>8
<1>12. \A v \in Users, t \in Tables : Has(v, t) => Has(v, t)'
    BY <1>3, <1>7, <1>8
<1>13. \A t \in channels' \ channels : Has(u, t)'
    BY <1>1, <1>4, <1>7
<1>14. excused \subseteq excused' /\ channels \subseteq channels'
    BY <1>1
<1> QED BY <1>7, <1>9, <1>10, <1>11, <1>12, <1>13, <1>14 DEF Grows

LEMMA ThrowingGrows ==
    ASSUME NEW u \in Users, NEW T \in SUBSET Tables, MapsTyped,
           AdapterSubscribeThrows(u, T)
    PROVE  Grows /\ MapsTyped'
<1> DEFINE new == {t \in T : ~Has(u, t)}
<1>1. PICK t, done :
         /\ t \in new \ channels /\ done \in SUBSET (new \ {t})
         /\ userSubs' = IF userSubs[u] = None THEN userSubs
                        ELSE [userSubs EXCEPT ![u] = @ \cup done \cup {t}]
         /\ channels' = channels \cup done
         /\ excused' = excused \cup {<<u, x>> : x \in done \cup {t}}
    BY DEF AdapterSubscribeThrows
<1>2. t \in Tables /\ done \subseteq Tables
    BY <1>1
<1>3. \A x \in done \cup {t} : <<u, x>> \in excused'
    BY <1>1
<1>4. /\ userSubs' \in [Users -> (SUBSET Tables) \cup {None}]
      /\ \A v \in Users \ {u} : userSubs'[v] = userSubs[v]
      /\ IF userSubs[u] = None THEN userSubs'[u] = None
         ELSE userSubs'[u] = userSubs[u] \cup done \cup {t}
    BY <1>1, <1>2 DEF MapsTyped
<1> HIDE DEF new
<1>5. \A v \in Users \ {u}, x \in Tables : Has(v, x)' <=> Has(v, x)
    BY <1>4 DEF Has
<1>6. userSubs[u] # None => userSubs[u] \cup done \cup {t} # None
    BY <1>2, ConstantsAssumption DEF MapsTyped
<1>7. \A x \in Tables : Has(u, x) => Has(u, x)'
    BY <1>4, <1>6 DEF Has
<1>8. \A x \in Tables : Has(u, x)' => Has(u, x) \/ x \in done \cup {t}
    BY <1>4 DEF Has
<1>9. MapsTyped'
    BY <1>1, <1>2, <1>4 DEF MapsTyped
<1>10. excused \subseteq excused' /\ channels \subseteq channels'
    BY <1>1
<1>11. \A x \in channels' \ channels : <<u, x>> \in excused'
    BY <1>1, <1>3
<1> QED BY <1>3, <1>5, <1>7, <1>8, <1>9, <1>10, <1>11 DEF Grows

\* connect: an entry with no tables yet.
LEMMA ConnectingGrows ==
    ASSUME NEW u \in Users, MapsTyped, UNCHANGED <<channels, excused>>,
           userSubs' = IF current = "supabase" /\ userSubs[u] = None
                       THEN [userSubs EXCEPT ![u] = {}] ELSE userSubs
    PROVE  Grows /\ MapsTyped'
<1>1. \A v \in Users, t \in Tables : Has(v, t)' <=> Has(v, t)
    BY DEF Has, MapsTyped
<1>2. MapsTyped'
    BY DEF MapsTyped
<1> QED BY <1>1, <1>2 DEF Grows

\* A step of call r that adds to the adapter's maps at most, and is not about
\* leaving a channel: what is kept stays kept.
LEMMA GrowingBase ==
    ASSUME NEW r \in Calls, NEW p \in Call, IInv, call' = [call EXCEPT ![r] = p],
           Grows, MapsTyped', UNCHANGED <<config, running, current>>,
           call[r].pc # "leave", call[r].op # "unsubscribe",
           LocalsOf(p), EmittedOf(p), p.op # "unsubscribe", p.pc # "leave",
           p.op = "subscribe" /\ p.pc = "track" /\ p.via = "supabase"
              /\ config.supabase =>
              \A t \in p.tables : Has(p.user, t)' \/ <<p.user, t>> \in excused'
    PROVE  /\ call' \in [Calls -> Call] /\ call'[r] = p
           /\ \A s \in Calls \ {r} : call'[s] = call[s]
           /\ Locals' /\ Emitted' /\ NoChannelLeaks' /\ HasChannel' /\ ToTrack'
           /\ \A u \in Users, t \in Tables : Ongoing(u, t) => Ongoing(u, t)'
           /\ \A u \in Users, t \in Tables : Kept(u, t) => Kept(u, t)'
<1>1. /\ call' \in [Calls -> Call] /\ call'[r] = p
      /\ \A s \in Calls \ {r} : call'[s] = call[s]
    BY OneMoves DEF IInv
<1>2. Locals' /\ Emitted'
    BY <1>1 DEF IInv, Locals, LocalsOf, Emitted, EmittedOf
<1>3. call[r].todo = {} /\ call[r].leaving = None /\ p.todo = {} /\ p.leaving = None
    BY DEF IInv, Locals, LocalsOf
<1>4. Leaving' = Leaving
    BY <1>1, <1>3 DEF Leaving
<1>5. NoChannelLeaks'
  <2> SUFFICES ASSUME NEW t \in channels'
               PROVE  \/ \E u \in Users : Has(u, t)' \/ <<u, t>> \in excused'
                      \/ \E s \in Calls : t \in call'[s].todo \/ t = call'[s].leaving
      BY DEF NoChannelLeaks
  <2>0. t \in Tables
      BY DEF MapsTyped
  <2>1. CASE t \notin channels
      BY <2>1 DEF Grows
  <2>2. CASE \E u \in Users : Has(u, t) \/ <<u, t>> \in excused
      BY <2>0, <2>2 DEF Grows
  <2>3. CASE \E s \in Calls : t \in call[s].todo \/ t = call[s].leaving
      BY <2>0, <2>3, <1>1, <1>3, ConstantsAssumption
  <2> QED BY <2>1, <2>2, <2>3 DEF IInv, NoChannelLeaks
<1>6. HasChannel'
    BY <1>4 DEF IInv, HasChannel, Grows
<1>7. \A u \in Users, t \in Tables : Ongoing(u, t) => Ongoing(u, t)'
    BY <1>1 DEF Ongoing
<1>8. \A u \in Users, t \in Tables : Kept(u, t) => Kept(u, t)'
    BY <1>7 DEF Kept, Grows
<1>9. ToTrack'
  <2>1. ToTrackOf(call[r])'
      BY <1>1 DEF ToTrackOf
  <2>2. ASSUME NEW s \in Calls \ {r} PROVE ToTrackOf(call[s])'
    <3>1. ToTrackOf(call[s]) /\ LocalsOf(call[s]) /\ call[s] \in Call
        BY DEF IInv, ToTrack, Locals, TypeOK
    <3>2. call'[s] = call[s]
        BY <1>1
    <3>3. /\ call[s].tables \subseteq Tables
          /\ call[s].pc = "track" => call[s].user \in Users
        BY <3>1 DEF LocalsOf, Call
    <3> QED BY <3>1, <3>2, <3>3 DEF ToTrackOf, Grows
  <2> QED BY <2>1, <2>2 DEF ToTrack
<1> QED BY <1>1, <1>2, <1>5, <1>6, <1>7, <1>8, <1>9

\* What is tracked stays known to the adapters if what they keep stays kept.
LEMMA KeptKeeps ==
    ASSUME NEW r \in Calls, NEW p \in Call, IInv, call' = [call EXCEPT ![r] = p],
           UNCHANGED <<config, running, current, subscriptions>>, MapsTyped',
           connections' \subseteq Users \X Connections,
           p.pc # "idle" => running,
           \A u \in Users, t \in Tables : Kept(u, t) => Kept(u, t)',
           p.pc = "migrate" /\ p.to = "supabase" =>
              \A u \in p.visited : \A t \in subscriptions[u] : Kept(u, t)'
    PROVE  TypeOK' /\ Resting' /\ Migrated' /\ Tracked'
<1>1. /\ call' \in [Calls -> Call] /\ call'[r] = p
      /\ \A s \in Calls \ {r} : call'[s] = call[s]
    BY OneMoves DEF IInv
<1>2. TypeOK'
    BY <1>1 DEF IInv, TypeOK, MapsTyped
<1>3. Resting'
    BY <1>1 DEF IInv, Resting
<1>4. \A u \in Users : subscriptions[u] \subseteq Tables
    BY DEF IInv, TypeOK
<1>5. Migrated'
  <2>1. MigratedOf(call[r])'
      BY <1>1 DEF MigratedOf
  <2>2. ASSUME NEW s \in Calls \ {r} PROVE MigratedOf(call[s])'
    <3>1. MigratedOf(call[s]) /\ call[s] \in Call /\ call'[s] = call[s]
        BY <1>1 DEF IInv, Migrated, TypeOK
    <3>2. call[s].visited \subseteq Users
        BY <3>1 DEF Call
    <3> QED BY <3>1, <3>2, <1>4 DEF MigratedOf
  <2> QED BY <2>1, <2>2 DEF Migrated
<1>6. Tracked'
    BY <1>4 DEF IInv, Tracked, ViaSupabase
<1> QED BY <1>2, <1>3, <1>5, <1>6

LEMMA GrowingKeeps ==
    ASSUME NEW r \in Calls, NEW p \in Call, IInv, call' = [call EXCEPT ![r] = p],
           Grows, MapsTyped',
           UNCHANGED <<config, running, current, subscriptions>>,
           connections' \subseteq Users \X Connections,
           call[r].pc # "leave", call[r].op # "unsubscribe",
           LocalsOf(p), EmittedOf(p), p.op # "unsubscribe", p.pc # "leave",
           p.pc # "idle" => running,
           p.op = "subscribe" /\ p.pc = "track" /\ p.via = "supabase"
              /\ config.supabase =>
              \A t \in p.tables : Has(p.user, t)' \/ <<p.user, t>> \in excused',
           p.pc = "migrate" /\ p.to = "supabase" =>
              \A u \in p.visited : \A t \in subscriptions[u] :
                 Has(u, t)' \/ <<u, t>> \in excused' \/ Ongoing(u, t)
    PROVE  IInv'
<1>1. /\ Locals' /\ Emitted' /\ NoChannelLeaks' /\ HasChannel' /\ ToTrack'
      /\ \A u \in Users, t \in Tables : Ongoing(u, t) => Ongoing(u, t)'
      /\ \A u \in Users, t \in Tables : Kept(u, t) => Kept(u, t)'
    BY GrowingBase
<1>2. p.visited \subseteq Users /\ \A u \in Users : subscriptions[u] \subseteq Tables
    BY DEF Call, IInv, TypeOK
<1>3. p.pc = "migrate" /\ p.to = "supabase" =>
         \A u \in p.visited : \A t \in subscriptions[u] : Kept(u, t)'
    BY <1>1, <1>2 DEF Kept
<1>4. TypeOK' /\ Resting' /\ Migrated' /\ Tracked'
    BY <1>1, <1>3, KeptKeeps
<1> QED BY <1>1, <1>4 DEF IInv

-----------------------------------------------------------------------------
(* Calls that begin and end *)

quiet == <<config, running, current, subscriptions>>

LEMMA IdleFacts ==
    LocalsOf(Idle) /\ EmittedOf(Idle) /\ Idle.op = "none" /\ Idle.pc = "idle"
BY DEF LocalsOf, EmittedOf, Idle

LEMMA FinishKeeps ==
    ASSUME NEW r \in Calls, IInv, Finish(r), Grows, MapsTyped', UNCHANGED quiet,
           connections' \subseteq Users \X Connections,
           call[r].pc # "leave", call[r].op # "unsubscribe"
    PROVE  IInv'
<1>1. call' = [call EXCEPT ![r] = Idle]
    BY DEF Finish
<1> QED BY <1>1, IdleTyped, IdleFacts, GrowingKeeps DEF quiet

LEMMA MapsAreTyped == IInv => MapsTyped /\ connections \subseteq Users \X Connections
BY DEF IInv, TypeOK, MapsTyped

LEMMA UntrackConnectionKeeps ==
    ASSUME NEW r \in Calls, IInv, UntrackConnection(r)
    PROVE  IInv'
<1>1. Grows /\ MapsTyped' /\ connections' \subseteq Users \X Connections
    BY MapsAreTyped, StandingGrows DEF UntrackConnection
<1> QED BY <1>1, FinishKeeps DEF UntrackConnection, quiet

LEMMA TrackConnectionKeeps ==
    ASSUME NEW r \in Calls, IInv, TrackConnection(r)
    PROVE  IInv'
<1>1. call[r].user \in Users /\ call[r].conn \in Connections
    BY DEF IInv, Locals, LocalsOf, TrackConnection
<1>2. Grows /\ MapsTyped'
    BY MapsAreTyped, StandingGrows DEF TrackConnection
<1>3. connections' \subseteq Users \X Connections
    BY <1>1, MapsAreTyped DEF TrackConnection
<1> QED BY <1>2, <1>3, FinishKeeps DEF TrackConnection, quiet

LEMMA ReturnKeeps ==
    ASSUME NEW r \in Calls, IInv, Return(r)
    PROVE  IInv'
<1>1. Grows /\ MapsTyped' /\ connections' \subseteq Users \X Connections
    BY MapsAreTyped, StandingGrows DEF Return
<1>2. call[r].op # "unsubscribe"
    BY DEF IInv, Locals, LocalsOf, Return
<1> QED BY <1>1, <1>2, FinishKeeps DEF Return, quiet

\* A call begins with p: an idle slot holds nothing to lose.
LEMMA StartKeeps ==
    ASSUME NEW r \in Calls, NEW p \in Call, IInv, Start(r, p), Grows, MapsTyped',
           UNCHANGED <<config, running, current, subscriptions, connections>>,
           LocalsOf(p), EmittedOf(p), p.op # "unsubscribe",
           p.pc \notin {"leave", "migrate"},
           p.op = "subscribe" /\ p.pc = "track" /\ p.via = "supabase"
              /\ config.supabase =>
              \A t \in p.tables : Has(p.user, t)' \/ <<p.user, t>> \in excused'
    PROVE  IInv'
<1>1. call[r].pc = "idle" /\ running /\ call' = [call EXCEPT ![r] = p]
    BY DEF Start
<1>2. call[r].op # "unsubscribe" /\ call[r].pc # "leave"
    BY <1>1, IdleFacts DEF IInv, Locals, LocalsOf
<1> QED BY <1>1, <1>2, MapsAreTyped, GrowingKeeps

LEMMA ConnectKeeps ==
    ASSUME NEW r \in Calls, NEW u \in Users, NEW c \in Connections, IInv,
           Connect(r, u, c)
    PROVE  IInv'
<1>1. PICK p : /\ p = [Idle EXCEPT !.op = "connect", !.pc = "track", !.user = u,
                                   !.conn = c]
               /\ Start(r, p)
    BY DEF Connect
<1>2. p = [op |-> "connect", pc |-> "track", user |-> u, conn |-> c, tables |-> {},
           via |-> None, to |-> None, visited |-> {}, leaving |-> None,
           todo |-> {}, sent |-> 0, met |-> FALSE]
    BY <1>1 DEF Idle
<1>3. p \in Call /\ LocalsOf(p) /\ EmittedOf(p)
    BY <1>2 DEF Call, LocalsOf, EmittedOf
<1>4. p.op = "connect" /\ p.pc = "track"
    BY <1>2
<1>5. Grows /\ MapsTyped'
    BY MapsAreTyped, ConnectingGrows DEF Connect
<1> QED BY <1>1, <1>3, <1>4, <1>5, StartKeeps DEF Connect

LEMMA DisconnectKeeps ==
    ASSUME NEW r \in Calls, NEW c \in Connections, IInv, Disconnect(r, c)
    PROVE  IInv'
<1>1. PICK p : /\ p = [Idle EXCEPT !.op = "disconnect", !.pc = "untrack", !.conn = c]
               /\ Start(r, p)
    BY DEF Disconnect
<1>2. p = [op |-> "disconnect", pc |-> "untrack", user |-> None, conn |-> c,
           tables |-> {}, via |-> None, to |-> None, visited |-> {}, leaving |-> None,
           todo |-> {}, sent |-> 0, met |-> FALSE]
    BY <1>1 DEF Idle
<1>3. p \in Call /\ LocalsOf(p) /\ EmittedOf(p)
    BY <1>2 DEF Call, LocalsOf, EmittedOf
<1>4. p.op = "disconnect" /\ p.pc = "untrack"
    BY <1>2
<1>5. Grows /\ MapsTyped'
    BY MapsAreTyped, StandingGrows DEF Disconnect
<1> QED BY <1>1, <1>3, <1>4, <1>5, StartKeeps DEF Disconnect

LEMMA SwitchProviderKeeps ==
    ASSUME NEW r \in Calls, NEW x \in Providers, IInv, SwitchProvider(r, x)
    PROVE  IInv'
<1>1. PICK p : /\ p = [Idle EXCEPT !.op = "switch", !.pc = "ask", !.to = x]
               /\ Start(r, p)
    BY DEF SwitchProvider
<1>2. p = [op |-> "switch", pc |-> "ask", user |-> None, conn |-> None,
           tables |-> {}, via |-> None, to |-> x, visited |-> {}, leaving |-> None,
           todo |-> {}, sent |-> 0, met |-> FALSE]
    BY <1>1 DEF Idle
<1>3. p \in Call /\ LocalsOf(p) /\ EmittedOf(p)
    BY <1>2 DEF Call, LocalsOf, EmittedOf
<1>4. p.op = "switch" /\ p.pc = "ask"
    BY <1>2
<1>5. Grows /\ MapsTyped'
    BY MapsAreTyped, StandingGrows DEF SwitchProvider
<1> QED BY <1>1, <1>3, <1>4, <1>5, StartKeeps DEF SwitchProvider

LEMMA BroadcastKeeps ==
    ASSUME NEW r \in Calls, NEW t \in Tables, IInv, Broadcast(r, t)
    PROVE  IInv'
<1>1. PICK q : q = [Idle EXCEPT !.op = "broadcast", !.tables = {t}]
    OBVIOUS
<1>2. /\ q \in Call /\ q.op = "broadcast" /\ q.todo = {} /\ q.leaving = None
      /\ q.visited = {} /\ q.sent = 0 /\ q.met = FALSE
  <2>1. q = [op |-> "broadcast", pc |-> "idle", user |-> None, conn |-> None,
             tables |-> {t}, via |-> None, to |-> None, visited |-> {},
             leaving |-> None, todo |-> {}, sent |-> 0, met |-> FALSE]
      BY <1>1 DEF Idle
  <2> QED BY <2>1 DEF Call
<1>3. PICK a, p : /\ a = AdapterBroadcast(q)
                  /\ p \in {[a EXCEPT !.pc = "after"], [q EXCEPT !.pc = "failed"]}
                  /\ Start(r, p)
    BY <1>1 DEF Broadcast
<1>4. /\ a \in Call /\ a.op = "broadcast" /\ a.todo = {} /\ a.leaving = None
      /\ a.visited = {} /\ a.sent = IF current = "websocket" THEN 1 ELSE 0
  <2>1. CASE current = "websocket"
    <3>1. a = [q EXCEPT !.sent = 1]
        BY <1>2, <1>3, <2>1 DEF AdapterBroadcast, HandleDatabaseChange, ToRoom
    <3> QED BY <1>2, <2>1, <3>1 DEF Call
  <2>2. CASE current # "websocket"
      BY <1>2, <1>3, <2>2 DEF AdapterBroadcast
  <2> QED BY <2>1, <2>2
<1>5. /\ p \in Call /\ p.op = "broadcast" /\ p.todo = {} /\ p.leaving = None
      /\ p.visited = {}
      /\ \/ p.pc = "failed"
         \/ p.pc = "after" /\ p.sent = IF current = "websocket" THEN 1 ELSE 0
    BY <1>2, <1>3, <1>4 DEF Call
<1>6. LocalsOf(p) /\ EmittedOf(p)
    BY <1>5 DEF LocalsOf, EmittedOf
<1>7. Grows /\ MapsTyped'
    BY MapsAreTyped, StandingGrows DEF Broadcast
<1>8. UNCHANGED <<config, running, current, subscriptions, connections>>
    BY DEF Broadcast
<1> QED BY <1>3, <1>5, <1>6, <1>7, <1>8, StartKeeps

LEMMA SubscribeKeeps ==
    ASSUME NEW r \in Calls, NEW u \in Users, NEW T \in SUBSET Tables, IInv,
           Subscribe(r, u, T)
    PROVE  IInv'
<1> DEFINE q == [Idle EXCEPT !.op = "subscribe", !.user = u, !.tables = T,
                             !.via = current]
<1>1. PICK p, x : /\ x \in {"track", "failed"}
                  /\ p = [q EXCEPT !.pc = x]
                  /\ Start(r, p)
                  /\ IF x = "failed" THEN AdapterSubscribeThrows(u, T)
                     ELSE IF ViaSupabase THEN AdapterSubscribe(u, T)
                     ELSE UNCHANGED <<userSubs, channels, excused>>
    BY DEF Subscribe
<1>2. p = [op |-> "subscribe", pc |-> x, user |-> u, conn |-> None, tables |-> T,
           via |-> current, to |-> None, visited |-> {}, leaving |-> None,
           todo |-> {}, sent |-> 0, met |-> FALSE]
    BY <1>1 DEF Idle
<1> HIDE DEF q
<1>3. p \in Call /\ LocalsOf(p) /\ EmittedOf(p)
  <2>1. current \in Providers /\ x \in {"track", "failed"}
      BY <1>1 DEF IInv, TypeOK
  <2>2. p \in Call
      BY <1>2, <2>1 DEF Call
  <2>3. LocalsOf(p) /\ EmittedOf(p)
      BY <1>2, <2>1 DEF LocalsOf, EmittedOf
  <2> QED BY <2>2, <2>3
<1>4. p.op = "subscribe" /\ p.pc = x /\ p.user = u /\ p.tables = T /\ p.via = current
    BY <1>2
<1>5. Grows /\ MapsTyped'
    BY <1>1, MapsAreTyped, StandingGrows, SubscribingGrows, ThrowingGrows
<1>6. p.pc = "track" /\ p.via = "supabase" /\ config.supabase =>
         \A t \in p.tables : Has(p.user, t)' \/ <<p.user, t>> \in excused'
    BY <1>1, <1>4, MapsAreTyped, SubscribingGrows DEF ViaSupabase
<1> QED BY <1>1, <1>3, <1>4, <1>5, <1>6, StartKeeps DEF Subscribe

-----------------------------------------------------------------------------
(* Broadcasts, errors and migrations *)

\* Nothing a call still in the service's hands is about to leave.
LEMMA NotLeaving ==
    ASSUME NEW r \in Calls, IInv, call[r].pc \notin {"leave", "untrack"}
    PROVE  /\ call[r] \in Call /\ LocalsOf(call[r]) /\ EmittedOf(call[r])
           /\ call[r].op # "unsubscribe" /\ call[r].todo = {} /\ call[r].leaving = None
BY DEF IInv, TypeOK, Locals, LocalsOf, Emitted

LEMMA BroadcastToRoomKeeps ==
    ASSUME NEW r \in Calls, IInv, BroadcastToRoom(r)
    PROVE  IInv'
<1>1. PICK q, p : /\ q = IF current = "supabase" THEN ToRoom(call[r]) ELSE call[r]
                  /\ p = [q EXCEPT !.pc = "ok"]
                  /\ call' = [call EXCEPT ![r] = p]
    BY DEF BroadcastToRoom
<1>2. /\ call[r].pc = "after" /\ call[r] \in Call /\ LocalsOf(call[r])
      /\ EmittedOf(call[r]) /\ call[r].todo = {} /\ call[r].leaving = None
      /\ current \in Providers /\ call[r].op = "broadcast"
    BY NotLeaving DEF BroadcastToRoom, IInv, TypeOK, LocalsOf
<1>3. call[r].sent \in 0..1 /\ call[r].visited = {}
    BY <1>2 DEF LocalsOf, EmittedOf
<1>4. /\ q \in Call /\ q.op = "broadcast" /\ q.visited = {} /\ q.todo = {}
      /\ q.leaving = None /\ q.met = call[r].met
      /\ q.sent = IF current = "supabase" THEN call[r].sent + 1 ELSE call[r].sent
  <2>1. CASE current = "supabase"
    <3>1. q = [call[r] EXCEPT !.sent = call[r].sent + 1]
        BY <1>1, <2>1 DEF ToRoom
    <3>2. call[r].sent + 1 \in 0..2
        BY <1>3
    <3> QED BY <1>2, <1>3, <2>1, <3>1, <3>2 DEF Call
  <2>2. CASE current # "supabase"
      BY <1>1, <1>2, <1>3, <2>2
  <2> QED BY <2>1, <2>2
<1>5. /\ p \in Call /\ p.op = "broadcast" /\ p.visited = {} /\ p.todo = {}
      /\ p.leaving = None /\ p.met = q.met /\ p.sent = q.sent /\ p.pc = "ok"
    BY <1>1, <1>4 DEF Call
<1>6. p.sent = 1 \/ p.met
    BY <1>2, <1>3, <1>4, <1>5 DEF EmittedOf, Providers
<1>7. LocalsOf(p) /\ EmittedOf(p)
    BY <1>5, <1>6 DEF LocalsOf, EmittedOf
<1>8. Grows /\ MapsTyped' /\ running
    BY <1>2, MapsAreTyped, StandingGrows DEF BroadcastToRoom, IInv, Resting
<1>9. /\ connections' \subseteq Users \X Connections
      /\ UNCHANGED <<config, running, current, subscriptions>>
    BY MapsAreTyped DEF BroadcastToRoom
<1> QED BY <1>1, <1>2, <1>5, <1>7, <1>8, <1>9, GrowingKeeps

\* A step of the error handling or of a switch, which changes its own call only.
LEMMA GoesOn ==
    ASSUME NEW r \in Calls, NEW p \in Call, IInv, call' = [call EXCEPT ![r] = p],
           call[r].pc \notin {"idle", "leave", "untrack"},
           p.op = call[r].op, p.todo = {}, p.leaving = None, p.visited = {},
           p.pc \in {"fallback", "ask", "migrate"},
           p.pc # "fallback" => p.to \in Providers,
           p.pc = "migrate" /\ p.to = "supabase" => config.supabase,
           UNCHANGED <<config, running, current, connections, subscriptions, userSubs,
                       channels, excused>>
    PROVE  IInv'
<1>1. LocalsOf(p) /\ EmittedOf(p) /\ call[r].op # "unsubscribe"
    BY NotLeaving DEF LocalsOf, EmittedOf
<1>2. Grows /\ MapsTyped' /\ running
    BY MapsAreTyped, StandingGrows DEF IInv, Resting
<1>3. /\ connections' \subseteq Users \X Connections
      /\ UNCHANGED <<config, running, current, subscriptions>>
    BY MapsAreTyped
<1> QED BY <1>1, <1>2, <1>3, GrowingKeeps

LEMMA StopsKeeps ==
    ASSUME NEW r \in Calls, IInv, Finish(r),
           call[r].pc \notin {"leave", "untrack"},
           UNCHANGED <<config, running, current, connections, subscriptions, userSubs,
                       channels, excused>>
    PROVE  IInv'
<1>1. Grows /\ MapsTyped' /\ connections' \subseteq Users \X Connections
    BY MapsAreTyped, StandingGrows
<1> QED BY <1>1, NotLeaving, FinishKeeps DEF quiet

LEMMA HandleAdapterErrorKeeps ==
    ASSUME NEW r \in Calls, IInv, HandleAdapterError(r)
    PROVE  IInv'
<1>1. CASE Finish(r)
    BY <1>1, StopsKeeps DEF HandleAdapterError
<1>2. CASE Goto(r, "fallback")
  <2>1. PICK p : p = [call[r] EXCEPT !.pc = "fallback"] /\ call' = [call EXCEPT ![r] = p]
      BY <1>2 DEF Goto
  <2>2. /\ call[r] \in Call /\ call[r].pc = "failed" /\ call[r].visited = {}
        /\ call[r].todo = {} /\ call[r].leaving = None
      BY NotLeaving DEF HandleAdapterError, LocalsOf
  <2>3. /\ p \in Call /\ p.op = call[r].op /\ p.todo = {} /\ p.leaving = None
        /\ p.visited = {} /\ p.pc = "fallback"
      BY <2>1, <2>2 DEF Call
  <2>4. UNCHANGED <<config, running, current, connections, subscriptions, userSubs,
                    channels, excused>>
      BY DEF HandleAdapterError
  <2> QED BY <2>1, <2>2, <2>3, <2>4, GoesOn
<1> QED BY <1>1, <1>2 DEF HandleAdapterError

LEMMA AskFallbackKeeps ==
    ASSUME NEW r \in Calls, IInv, AskFallback(r)
    PROVE  IInv'
<1>1. CASE Finish(r)
    BY <1>1, StopsKeeps DEF AskFallback
<1>2. CASE call' = [call EXCEPT ![r].pc = "ask", ![r].to = fallbackProvider]
  <2>1. PICK p : /\ p = [call[r] EXCEPT !.pc = "ask", !.to = fallbackProvider]
                 /\ call' = [call EXCEPT ![r] = p]
      BY <1>2 DEF IInv, TypeOK
  <2>2. /\ call[r] \in Call /\ call[r].pc = "fallback" /\ call[r].visited = {}
        /\ call[r].todo = {} /\ call[r].leaving = None
      BY NotLeaving DEF AskFallback, LocalsOf
  <2>3. fallbackProvider \in Providers
      BY DEF fallbackProvider, Providers
  <2>4. /\ p \in Call /\ p.op = call[r].op /\ p.todo = {} /\ p.leaving = None
        /\ p.visited = {} /\ p.pc = "ask" /\ p.to \in Providers
      BY <2>1, <2>2, <2>3 DEF Call
  <2>5. UNCHANGED <<config, running, current, connections, subscriptions, userSubs,
                    channels, excused>>
      BY DEF AskFallback
  <2> QED BY <2>1, <2>2, <2>4, <2>5, GoesOn
<1> QED BY <1>1, <1>2 DEF AskFallback

LEMMA AskHealthKeeps ==
    ASSUME NEW r \in Calls, IInv, AskHealth(r)
    PROVE  IInv'
<1>1. CASE Finish(r)
    BY <1>1, StopsKeeps DEF AskHealth
<1>2. CASE MayBeHealthy(call[r].to) /\ Goto(r, "migrate")
  <2>1. PICK p : p = [call[r] EXCEPT !.pc = "migrate"] /\ call' = [call EXCEPT ![r] = p]
      BY <1>2 DEF Goto
  <2>2. /\ call[r] \in Call /\ call[r].pc = "ask" /\ call[r].visited = {}
        /\ call[r].todo = {} /\ call[r].leaving = None /\ call[r].to \in Providers
      BY NotLeaving DEF AskHealth, LocalsOf
  <2>3. /\ p \in Call /\ p.op = call[r].op /\ p.todo = {} /\ p.leaving = None
        /\ p.visited = {} /\ p.pc = "migrate" /\ p.to = call[r].to
      BY <2>1, <2>2 DEF Call
  <2>4. p.to = "supabase" => config.supabase
      BY <1>2, <2>3 DEF MayBeHealthy
  <2>5. UNCHANGED <<config, running, current, connections, subscriptions, userSubs,
                    channels, excused>>
      BY DEF AskHealth
  <2> QED BY <2>1, <2>2, <2>3, <2>4, <2>5, GoesOn
<1> QED BY <1>1, <1>2 DEF AskHealth

LEMMA MigrateKeeps ==
    ASSUME NEW r \in Calls, IInv, Migrate(r)
    PROVE  IInv'
<1>1. /\ call[r] \in Call /\ LocalsOf(call[r]) /\ call[r].pc = "migrate"
      /\ call[r].op # "unsubscribe"
      /\ call[r].todo = {} /\ call[r].leaving = None /\ call[r].to \in Providers
    BY NotLeaving DEF Migrate, LocalsOf
<1>2. UNCHANGED <<config, running, current, connections, subscriptions>>
    BY DEF Migrate
<1>3. PICK u \in Users :
         \/ /\ call' = [call EXCEPT ![r].visited = @ \cup {u}]
            /\ IF call[r].to = "supabase" THEN AdapterSubscribe(u, subscriptions[u])
               ELSE UNCHANGED <<userSubs, channels, excused>>
         \/ Finish(r) /\ AdapterSubscribeThrows(u, subscriptions[u])
    BY DEF Migrate, Unvisited
<1>4. subscriptions[u] \in SUBSET Tables
    BY DEF IInv, TypeOK
<1>5. CASE Finish(r) /\ AdapterSubscribeThrows(u, subscriptions[u])
  <2>1. Grows /\ MapsTyped' /\ connections' \subseteq Users \X Connections
      BY <1>2, <1>4, <1>5, MapsAreTyped, ThrowingGrows
  <2> QED BY <1>1, <1>2, <1>5, <2>1, FinishKeeps DEF quiet
<1>6. CASE /\ call' = [call EXCEPT ![r].visited = @ \cup {u}]
           /\ IF call[r].to = "supabase" THEN AdapterSubscribe(u, subscriptions[u])
              ELSE UNCHANGED <<userSubs, channels, excused>>
  <2>1. PICK p : /\ p = [call[r] EXCEPT !.visited = call[r].visited \cup {u}]
                 /\ call' = [call EXCEPT ![r] = p]
      BY <1>6
  <2>2. /\ p \in Call /\ p.op = call[r].op /\ p.todo = {} /\ p.leaving = None
        /\ p.visited = call[r].visited \cup {u} /\ p.pc = "migrate" /\ p.to = call[r].to
      BY <1>1, <2>1 DEF Call
  <2>3. LocalsOf(p) /\ EmittedOf(p)
      BY <1>1, <2>2 DEF LocalsOf, EmittedOf
  <2>4. Grows /\ MapsTyped' /\ running /\ connections' \subseteq Users \X Connections
      BY <1>1, <1>2, <1>4, <1>6, MapsAreTyped, StandingGrows, SubscribingGrows
         DEF IInv, Resting
  <2>5. p.to = "supabase" =>
           \A v \in p.visited : \A t \in subscriptions[v] :
              Has(v, t)' \/ <<v, t>> \in excused' \/ Ongoing(v, t)
    <3> SUFFICES ASSUME p.to = "supabase", NEW v \in p.visited,
                        NEW t \in subscriptions[v]
                 PROVE  Has(v, t)' \/ <<v, t>> \in excused' \/ Ongoing(v, t)
        OBVIOUS
    <3>1. v \in Users /\ t \in Tables
        BY <2>2 DEF Call, IInv, TypeOK
    <3>2. CASE v = u
        BY <1>4, <1>6, <2>2, <3>2, MapsAreTyped, SubscribingGrows
    <3>3. CASE v # u
      <4>1. MigratedOf(call[r])
          BY DEF IInv, Migrated
      <4>2. Kept(v, t)
          BY <1>1, <2>2, <3>3, <4>1 DEF MigratedOf
      <4> QED BY <2>4, <3>1, <4>2 DEF Kept, Grows
    <3> QED BY <3>2, <3>3
  <2>6. call[r].pc # "leave" /\ p.pc = "migrate" /\ p.op # "unsubscribe"
      BY <1>1, <2>2
  <2> QED BY <1>1, <1>2, <2>1, <2>2, <2>3, <2>4, <2>5, <2>6, GrowingKeeps
<1> QED BY <1>3, <1>5, <1>6

-----------------------------------------------------------------------------
(* Tracking, and what unsubscriptions take away *)

LEMMA TrackKeeps ==
    ASSUME NEW r \in Calls, IInv, Track(r)
    PROVE  IInv'
<1> DEFINE late == \/ call[r].via # current
                   \/ \E s \in Calls : /\ call[s].pc = "migrate"
                                       /\ call[r].user \in call[s].visited
<1>1. PICK q : q = call[r]
    OBVIOUS
<1>2. /\ q \in Call /\ q.pc = "track" /\ q.op = "subscribe" /\ ToTrackOf(q)
      /\ q.user \in Users /\ q.via \in Providers /\ q.tables \subseteq Tables
  <2>1. q \in Call /\ q.pc = "track" /\ q.op = "subscribe" /\ LocalsOf(q) /\ ToTrackOf(q)
      BY <1>1 DEF Track, IInv, TypeOK, Locals, ToTrack
  <2> QED BY <2>1 DEF LocalsOf, Call
<1>3. /\ subscriptions' = [subscriptions EXCEPT ![q.user] = @ \cup q.tables]
      /\ excused' = IF late THEN excused \cup ({q.user} \X q.tables) ELSE excused
      /\ call' = [call EXCEPT ![r] = Idle]
      /\ UNCHANGED <<config, running, current, connections, userSubs, channels>>
    BY <1>1 DEF Track, Finish
<1>4. \A t \in q.tables : late => <<q.user, t>> \in excused'
    BY <1>3
<1>5. late = (\/ q.via # current
              \/ \E s \in Calls : call[s].pc = "migrate" /\ q.user \in call[s].visited)
    BY <1>1
<1>6. excused \subseteq excused' /\ excused' \subseteq excused \cup ({q.user} \X q.tables)
    BY <1>3
<1> HIDE DEF late
<1>7. MapsTyped'
    BY <1>2, <1>3, <1>6, MapsAreTyped DEF MapsTyped
<1>8. Grows
    BY <1>3, <1>6 DEF Grows, Has
<1>9. /\ call' \in [Calls -> Call] /\ call'[r] = Idle
      /\ \A s \in Calls \ {r} : call'[s] = call[s]
      /\ Locals' /\ Emitted' /\ NoChannelLeaks' /\ HasChannel' /\ ToTrack'
      /\ \A u \in Users, t \in Tables : Kept(u, t) => Kept(u, t)'
    BY <1>1, <1>2, <1>3, <1>7, <1>8, IdleTyped, IdleFacts, GrowingBase
<1>10. /\ subscriptions' \in [Users -> SUBSET Tables]
       /\ subscriptions'[q.user] = subscriptions[q.user] \cup q.tables
       /\ \A u \in Users \ {q.user} : subscriptions'[u] = subscriptions[u]
       /\ \A u \in Users : subscriptions[u] \subseteq Tables
    BY <1>2, <1>3 DEF IInv, TypeOK
<1>11. TypeOK'
    BY <1>3, <1>7, <1>9, <1>10 DEF IInv, TypeOK, MapsTyped
<1>12. Resting'
  <2>1. running /\ running'
      BY <1>1, <1>2, <1>3 DEF IInv, Resting
  <2> QED BY <2>1 DEF Resting
<1>13. Migrated'
  <2>1. MigratedOf(call[r])'
      BY <1>9, IdleFacts DEF MigratedOf
  <2>2. ASSUME NEW s \in Calls \ {r} PROVE MigratedOf(call[s])'
    <3>1. MigratedOf(call[s]) /\ call[s] \in Call /\ call'[s] = call[s]
        BY <1>9 DEF IInv, Migrated, TypeOK
    <3>2. call[s].visited \subseteq Users
        BY <3>1 DEF Call
    <3>3. ASSUME call[s].pc = "migrate", call[s].to = "supabase",
                 NEW u \in call[s].visited, NEW t \in subscriptions'[u]
          PROVE  Kept(u, t)'
      <4>1. u \in Users /\ t \in Tables
          BY <1>10, <3>2, <3>3
      <4>2. CASE t \in subscriptions[u]
          BY <1>9, <3>1, <3>3, <4>1, <4>2 DEF MigratedOf
      <4>3. CASE t \notin subscriptions[u]
        <5>1. u = q.user /\ t \in q.tables
            BY <1>10, <3>3, <4>1, <4>3
        <5>2. late
            BY <1>5, <3>3, <5>1
        <5> QED BY <1>4, <5>1, <5>2 DEF Kept
      <4> QED BY <4>2, <4>3
    <3> QED BY <3>1, <3>3 DEF MigratedOf
  <2> QED BY <2>1, <2>2 DEF Migrated
<1>14. Tracked'
  <2> SUFFICES ASSUME ViaSupabase', NEW u \in Users, NEW t \in subscriptions'[u]
               PROVE  Kept(u, t)'
      BY DEF Tracked
  <2>1. ViaSupabase /\ t \in Tables
      BY <1>3, <1>10 DEF ViaSupabase
  <2>2. CASE t \in subscriptions[u]
      BY <1>9, <2>1, <2>2 DEF IInv, Tracked
  <2>3. CASE t \notin subscriptions[u]
    <3>1. u = q.user /\ t \in q.tables
        BY <1>10, <2>3
    <3>2. CASE late
        BY <1>4, <3>1, <3>2 DEF Kept
    <3>3. CASE ~late
      <4>1. q.via = "supabase" /\ config.supabase
          BY <1>5, <2>1, <3>3 DEF ViaSupabase
      <4>2. Has(u, t) \/ <<u, t>> \in excused
          BY <1>2, <3>1, <4>1 DEF ToTrackOf
      <4> QED BY <1>2, <1>9, <2>1, <3>1, <4>2 DEF Kept
    <3> QED BY <3>2, <3>3
  <2> QED BY <2>2, <2>3
<1> QED BY <1>9, <1>11, <1>12, <1>13, <1>14 DEF IInv

\* An entry lost its tables: no one asks for them any more, and an iteration
\* that passed it may meet it again.
LEMMA UntrackKeeps ==
    ASSUME NEW r \in Calls, IInv, Untrack(r)
    PROVE  IInv'
<1>1. PICK q : q = call[r]
    OBVIOUS
<1>2. q \in Call /\ q.pc = "untrack" /\ q.op = "unsubscribe" /\ q.user \in Users
      /\ q.todo = {} /\ q.leaving = None
    BY <1>1 DEF Untrack, IInv, TypeOK, Locals, LocalsOf
<1>3. PICK left : /\ left = subscriptions[q.user] \ q.tables
                  /\ subscriptions' = [subscriptions EXCEPT ![q.user] = left]
                  /\ call' = [s \in Calls |->
                        IF s = r THEN Idle
                        ELSE IF left = {}
                             THEN [call[s] EXCEPT !.visited = @ \ {q.user}]
                        ELSE call[s]]
    BY <1>1 DEF Untrack
<1>4. UNCHANGED <<config, running, current, connections, userSubs, channels, excused>>
    BY DEF Untrack
<1>5. ASSUME NEW s \in Calls \ {r}
      PROVE  /\ call'[s] \in Call /\ call'[s].op = call[s].op
             /\ call'[s].pc = call[s].pc /\ call'[s].user = call[s].user
             /\ call'[s].conn = call[s].conn /\ call'[s].tables = call[s].tables
             /\ call'[s].via = call[s].via /\ call'[s].to = call[s].to
             /\ call'[s].leaving = call[s].leaving /\ call'[s].todo = call[s].todo
             /\ call'[s].sent = call[s].sent /\ call'[s].met = call[s].met
             /\ call'[s].visited \subseteq call[s].visited
             /\ left = {} => q.user \notin call'[s].visited
             /\ call[s] = Idle => call'[s] = Idle
  <2>1. call[s] \in Call
      BY DEF IInv, TypeOK
  <2>2. CASE left # {}
      BY <1>3, <2>1, <2>2
  <2>3. CASE left = {}
    <3>1. call'[s] = [call[s] EXCEPT !.visited = call[s].visited \ {q.user}]
        BY <1>3, <2>3
    <3>2. call[s] = Idle => call'[s] = Idle
      <4>1. Idle.visited \ {q.user} = Idle.visited
          BY DEF Idle
      <4> QED BY <3>1, <4>1, IdleTyped DEF Call
    <3> QED BY <2>1, <3>1, <3>2 DEF Call
  <2> QED BY <2>2, <2>3
<1>6. call'[r] = Idle
    BY <1>3
<1>7. call' \in [Calls -> Call]
  <2>1. call' = [s \in Calls |-> call'[s]]
      BY <1>3
  <2> QED BY <2>1, <1>5, <1>6, IdleTyped
<1>8. /\ subscriptions' \in [Users -> SUBSET Tables]
      /\ subscriptions'[q.user] = subscriptions[q.user] \ q.tables
      /\ \A u \in Users \ {q.user} : subscriptions'[u] = subscriptions[u]
      /\ \A u \in Users : subscriptions[u] \subseteq Tables
    BY <1>2, <1>3 DEF IInv, TypeOK
<1>9. TypeOK'
    BY <1>4, <1>7, <1>8 DEF IInv, TypeOK
<1>10. Locals'
  <2>1. ASSUME NEW s \in Calls \ {r} PROVE LocalsOf(call[s])'
    <3>1. LocalsOf(call[s])
        BY DEF IInv, Locals
    <3> QED BY <3>1, <1>4, <1>5 DEF LocalsOf
  <2>2. LocalsOf(call[r])'
      BY <1>6, IdleFacts DEF LocalsOf
  <2> QED BY <2>1, <2>2 DEF Locals
<1>11. Emitted'
  <2>1. ASSUME NEW s \in Calls \ {r} PROVE EmittedOf(call[s])'
    <3>1. EmittedOf(call[s])
        BY DEF IInv, Emitted
    <3> QED BY <3>1, <1>4, <1>5 DEF EmittedOf
  <2>2. EmittedOf(call[r])'
      BY <1>6, IdleFacts DEF EmittedOf
  <2> QED BY <2>1, <2>2 DEF Emitted
<1>12. Resting'
  <2>1. running /\ running'
      BY <1>1, <1>2, <1>4 DEF IInv, Resting
  <2> QED BY <2>1 DEF Resting
<1>13. Idle.leaving = None /\ Idle.todo = {}
    BY DEF Idle
<1>14. NoChannelLeaks'
  <2>1. ASSUME NEW t \in channels, NEW s \in Calls,
               t \in call[s].todo \/ t = call[s].leaving
        PROVE  s # r
      BY <2>1, <1>1, <1>2, ConstantsAssumption DEF IInv, TypeOK
  <2> QED BY <2>1, <1>4, <1>5 DEF IInv, NoChannelLeaks, Has
<1>15. Leaving' = Leaving
    BY <1>1, <1>2, <1>5, <1>6, <1>13 DEF Leaving
<1>16. HasChannel'
    BY <1>4, <1>15 DEF IInv, HasChannel, Has
<1>17. ToTrack'
  <2>1. ASSUME NEW s \in Calls \ {r} PROVE ToTrackOf(call[s])'
    <3>1. ToTrackOf(call[s])
        BY DEF IInv, ToTrack
    <3> QED BY <3>1, <1>4, <1>5 DEF ToTrackOf, Has
  <2>2. ToTrackOf(call[r])'
      BY <1>6, IdleFacts DEF ToTrackOf
  <2> QED BY <2>1, <2>2 DEF ToTrack
\* Whatever is still tracked was not this unsubscription's to take.
<1>18. ASSUME NEW u \in Users, NEW t \in subscriptions'[u], Kept(u, t)
       PROVE  Kept(u, t)'
  <2>1. CASE Has(u, t) \/ <<u, t>> \in excused
      BY <2>1, <1>4 DEF Kept, Has
  <2>2. CASE Ongoing(u, t)
    <3>1. PICK s \in Calls : /\ call[s].op = "unsubscribe" /\ call[s].user = u
                             /\ call[s].pc \in {"leave", "untrack"}
                             /\ t \in call[s].tables
        BY <2>2 DEF Ongoing
    <3>2. s # r
        BY <1>1, <1>2, <1>8, <1>18, <3>1
    <3>3. Ongoing(u, t)'
        BY <1>5, <3>1, <3>2 DEF Ongoing
    <3> QED BY <3>3 DEF Kept
  <2> QED BY <1>18, <2>1, <2>2 DEF Kept
<1>19. \A u \in Users : subscriptions'[u] \subseteq subscriptions[u]
    BY <1>2, <1>8
<1>20. Migrated'
  <2>1. ASSUME NEW s \in Calls \ {r} PROVE MigratedOf(call[s])'
    <3>1. MigratedOf(call[s]) /\ call[s] \in Call
        BY DEF IInv, Migrated, TypeOK
    <3>2. call[s].visited \subseteq Users
        BY <3>1 DEF Call
    <3> QED BY <3>1, <3>2, <1>5, <1>18, <1>19 DEF MigratedOf
  <2>2. MigratedOf(call[r])'
      BY <1>6, IdleFacts DEF MigratedOf
  <2> QED BY <2>1, <2>2 DEF Migrated
<1>21. Tracked'
    BY <1>4, <1>18, <1>19 DEF IInv, Tracked, ViaSupabase
<1> QED BY <1>9, <1>10, <1>11, <1>12, <1>14, <1>16, <1>17, <1>20, <1>21 DEF IInv

\* The loop ends or stops at a table that nobody has; what it skips somebody has.
LEMMA LoopResult ==
    ASSUME NEW r \in Calls, NEW q \in Call, NEW subs, NEW chans \in SUBSET Tables,
           q.op = "unsubscribe", q.user \in Users, q.visited = {},
           UnsubscribeLoop(r, q, subs, chans)
    PROVE  \E p \in Call :
              /\ call' = [call EXCEPT ![r] = p]
              /\ p.op = "unsubscribe" /\ p.user = q.user /\ p.tables = q.tables
              /\ p.visited = {}
              /\ \/ p.pc = "untrack" /\ p.todo = {} /\ p.leaving = None
                 \/ p.pc = "leave" /\ p.leaving \in Tables
              /\ \A t \in q.todo \cap chans :
                    \/ t \in p.todo \/ t = p.leaving
                    \/ \E u \in Users : subs[u] # None /\ t \in subs[u]
              /\ \A u \in Users : ~(subs[u] # None /\ p.leaving \in subs[u])
                                  \/ p.leaving = None
<1> DEFINE kept == {t \in q.todo : \E u \in Users : subs[u] # None /\ t \in subs[u]}
           doomed == (q.todo \cap chans) \ kept
<1>1. \/ /\ doomed = {}
         /\ call' = [call EXCEPT ![r] = [q EXCEPT !.pc = "untrack", !.todo = {},
                                                  !.leaving = None]]
      \/ \E t \in doomed, passed \in SUBSET (q.todo \ doomed) :
           call' = [call EXCEPT ![r] = [q EXCEPT !.pc = "leave", !.leaving = t,
                                                 !.todo = @ \ (passed \cup {t})]]
    BY DEF UnsubscribeLoop
<1>2. /\ doomed \subseteq q.todo /\ doomed \subseteq Tables /\ q.todo \subseteq Tables
      /\ \A t \in q.todo \cap chans :
            t \in doomed \/ \E u \in Users : subs[u] # None /\ t \in subs[u]
      /\ \A t \in doomed, u \in Users : ~(subs[u] # None /\ t \in subs[u])
    BY DEF Call
<1> HIDE DEF kept, doomed
<1>3. CASE doomed = {} /\ call' = [call EXCEPT ![r] =
                             [q EXCEPT !.pc = "untrack", !.todo = {}, !.leaving = None]]
  <2>1. PICK p : /\ p = [q EXCEPT !.pc = "untrack", !.todo = {}, !.leaving = None]
                 /\ call' = [call EXCEPT ![r] = p]
      BY <1>3
  <2>2. /\ p \in Call /\ p.op = q.op /\ p.user = q.user /\ p.tables = q.tables
        /\ p.visited = q.visited /\ p.pc = "untrack" /\ p.todo = {} /\ p.leaving = None
      BY <2>1 DEF Call
  <2> QED BY <1>2, <1>3, <2>1, <2>2
<1>4. ASSUME NEW t \in doomed, NEW passed \in SUBSET (q.todo \ doomed),
             call' = [call EXCEPT ![r] = [q EXCEPT !.pc = "leave", !.leaving = t,
                                                   !.todo = @ \ (passed \cup {t})]]
      PROVE  \E p \in Call :
                /\ call' = [call EXCEPT ![r] = p]
                /\ p.op = q.op /\ p.user = q.user /\ p.tables = q.tables
                /\ p.visited = q.visited /\ p.pc = "leave" /\ p.leaving \in Tables
                /\ \A x \in q.todo \cap chans :
                      \/ x \in p.todo \/ x = p.leaving
                      \/ \E u \in Users : subs[u] # None /\ x \in subs[u]
                /\ \A u \in Users : ~(subs[u] # None /\ p.leaving \in subs[u])
  <2>1. PICK p : /\ p = [q EXCEPT !.pc = "leave", !.leaving = t,
                                  !.todo = q.todo \ (passed \cup {t})]
                 /\ call' = [call EXCEPT ![r] = p]
      BY <1>4
  <2>2. t \in Tables
      BY <1>2
  <2>3. p \in Call
      BY <1>2, <2>1, <2>2 DEF Call
  <2>4. /\ p.op = q.op /\ p.user = q.user /\ p.tables = q.tables
        /\ p.visited = q.visited /\ p.pc = "leave" /\ p.leaving = t
        /\ p.todo = q.todo \ (passed \cup {t})
      BY <2>1 DEF Call
  <2>5. \A x \in q.todo \cap chans :
           \/ x \in p.todo \/ x = p.leaving
           \/ \E u \in Users : subs[u] # None /\ x \in subs[u]
      BY <1>2, <2>4
  <2> QED BY <1>2, <2>1, <2>2, <2>3, <2>4, <2>5
<1> QED BY <1>1, <1>3, <1>4

\* The call that a run of the loop leaves behind.
LEMMA LoopTyped ==
    ASSUME NEW p \in Call, p.op = "unsubscribe", p.user \in Users, p.visited = {},
           \/ p.pc = "untrack" /\ p.todo = {} /\ p.leaving = None
           \/ p.pc = "leave" /\ p.leaving \in Tables
    PROVE  LocalsOf(p) /\ EmittedOf(p)
BY DEF LocalsOf, EmittedOf

LEMMA RemoveChannelKeeps ==
    ASSUME NEW r \in Calls, IInv, RemoveChannel(r)
    PROVE  IInv'
<1>1. PICK q, chans : q = call[r] /\ chans = channels \ {call[r].leaving}
    OBVIOUS
<1>2. PICK q0, subs : q0 = [q EXCEPT !.leaving = None] /\ subs = userSubs
    OBVIOUS
<1>3. /\ q \in Call /\ q.pc = "leave" /\ q.op = "unsubscribe" /\ q.user \in Users
      /\ q.leaving \in Tables /\ q.visited = {} /\ running
      /\ chans \in SUBSET Tables
    BY <1>1 DEF RemoveChannel, IInv, TypeOK, Locals, LocalsOf, Resting
<1>4. /\ q0 \in Call /\ q0.op = "unsubscribe" /\ q0.user = q.user /\ q0.visited = {}
      /\ q0.tables = q.tables /\ q0.todo = q.todo
    BY <1>2, <1>3 DEF Call
<1>5. /\ channels' = chans /\ UnsubscribeLoop(r, q0, subs, chans)
      /\ UNCHANGED <<config, running, current, connections, subscriptions, userSubs,
                     excused>>
    BY <1>1, <1>2 DEF RemoveChannel
<1>6. PICK p \in Call :
         /\ call' = [call EXCEPT ![r] = p]
         /\ p.op = "unsubscribe" /\ p.user = q.user /\ p.tables = q.tables
         /\ p.visited = {}
         /\ \/ p.pc = "untrack" /\ p.todo = {} /\ p.leaving = None
            \/ p.pc = "leave" /\ p.leaving \in Tables
         /\ \A t \in q.todo \cap chans :
               \/ t \in p.todo \/ t = p.leaving
               \/ \E u \in Users : subs[u] # None /\ t \in subs[u]
         /\ \A u \in Users : ~(subs[u] # None /\ p.leaving \in subs[u])
                             \/ p.leaving = None
    BY <1>3, <1>4, <1>5, LoopResult
<1>7. LocalsOf(p) /\ EmittedOf(p)
    BY <1>3, <1>6, LoopTyped
<1>8. /\ call' \in [Calls -> Call] /\ call'[r] = p
      /\ \A s \in Calls \ {r} : call'[s] = call[s]
    BY <1>6, OneMoves DEF IInv
<1>9. MapsTyped' /\ connections' \subseteq Users \X Connections
    BY <1>3, <1>5, MapsAreTyped DEF MapsTyped
<1>10. \A u \in Users, t \in Tables : Kept(u, t) => Kept(u, t)'
  <2>1. \A u \in Users, t \in Tables : Ongoing(u, t) => Ongoing(u, t)'
      BY <1>1, <1>6, <1>8 DEF Ongoing
  <2> QED BY <2>1, <1>5 DEF Kept, Has
<1>11. TypeOK' /\ Resting' /\ Migrated' /\ Tracked'
    BY <1>3, <1>5, <1>6, <1>9, <1>10, KeptKeeps
<1>12. Locals' /\ Emitted'
    BY <1>5, <1>7, <1>8 DEF IInv, Locals, LocalsOf, Emitted, EmittedOf
<1>13. NoChannelLeaks'
  <2> SUFFICES ASSUME NEW t \in channels'
               PROVE  \/ \E u \in Users : Has(u, t)' \/ <<u, t>> \in excused'
                      \/ \E s \in Calls : t \in call'[s].todo \/ t = call'[s].leaving
      BY DEF NoChannelLeaks
  <2>1. t \in channels /\ t \in chans /\ t # q.leaving
      BY <1>1, <1>5
  <2>2. CASE \E u \in Users : Has(u, t) \/ <<u, t>> \in excused
      BY <2>2, <1>5 DEF Has
  <2>3. ASSUME NEW s \in Calls, t \in call[s].todo \/ t = call[s].leaving
        PROVE  \/ \E u \in Users : Has(u, t)'
               \/ \E x \in Calls : t \in call'[x].todo \/ t = call'[x].leaving
    <3>1. CASE s # r
        BY <2>3, <3>1, <1>8
    <3>2. CASE s = r
        BY <2>1, <2>3, <3>2, <1>1, <1>2, <1>5, <1>6, <1>8 DEF Has
    <3> QED BY <3>1, <3>2
  <2> QED BY <2>1, <2>2, <2>3 DEF IInv, NoChannelLeaks
<1>14. HasChannel'
  <2> SUFFICES ASSUME NEW u \in Users, NEW t \in Tables, Has(u, t), <<u, t>> \notin excused
               PROVE  t \in channels' /\ t \notin Leaving'
      BY <1>5 DEF HasChannel, Has
  <2>1. t \in channels /\ \A s \in Calls : t # call[s].leaving
      BY ConstantsAssumption DEF IInv, HasChannel, Leaving
  <2>2. t \in channels'
      BY <2>1, <1>1, <1>5
  <2>3. t # p.leaving
      BY <1>2, <1>6, ConstantsAssumption DEF Has
  <2> QED BY <2>1, <2>2, <2>3, <1>8 DEF Leaving
<1>15. ToTrack'
  <2>1. ASSUME NEW s \in Calls \ {r} PROVE ToTrackOf(call[s])'
    <3>1. ToTrackOf(call[s]) /\ call'[s] = call[s]
        BY <1>8 DEF IInv, ToTrack
    <3> QED BY <3>1, <1>5 DEF ToTrackOf, Has
  <2>2. ToTrackOf(call[r])'
      BY <1>6, <1>8 DEF ToTrackOf
  <2> QED BY <2>1, <2>2 DEF ToTrack
<1> QED BY <1>11, <1>12, <1>13, <1>14, <1>15 DEF IInv

LEMMA UnsubscribeKeeps ==
    ASSUME NEW r \in Calls, NEW u \in Users, NEW T \in SUBSET Tables, IInv,
           Unsubscribe(r, u, T)
    PROVE  IInv'
<1> DEFINE overlapped == {t \in T : \E s \in Calls :
                            /\ call[s].op = "subscribe" /\ call[s].pc = "track"
                            /\ call[s].user = u /\ t \in call[s].tables}
           left == IF userSubs[u] = None THEN {} ELSE userSubs[u] \ T
<1>1. PICK q : q = [Idle EXCEPT !.op = "unsubscribe", !.user = u, !.tables = T]
    OBVIOUS
<1>2. /\ q \in Call /\ q.op = "unsubscribe" /\ q.user = u /\ q.tables = T
      /\ q.todo = {} /\ q.leaving = None /\ q.visited = {}
  <2>1. q = [op |-> "unsubscribe", pc |-> "idle", user |-> u, conn |-> None,
             tables |-> T, via |-> None, to |-> None, visited |-> {},
             leaving |-> None, todo |-> {}, sent |-> 0, met |-> FALSE]
      BY <1>1 DEF Idle
  <2> QED BY <2>1 DEF Call
<1>3. /\ running /\ call[r].pc = "idle" /\ call[r] = Idle
      /\ UNCHANGED <<config, running, current, connections, subscriptions, channels>>
    BY DEF Unsubscribe, IInv, Locals, LocalsOf
<1>4. Idle.todo = {} /\ Idle.leaving = None
    BY DEF Idle
\* What both ways have in common: the call p, and what stays as it was.
<1>5. \E p \in Call :
         /\ call' = [call EXCEPT ![r] = p]
         /\ p.op = "unsubscribe" /\ p.user = u /\ p.tables = T /\ p.visited = {}
         /\ \/ p.pc = "untrack" /\ p.todo = {} /\ p.leaving = None
            \/ p.pc = "leave" /\ p.leaving \in Tables
         /\ MapsTyped'
         /\ \A v \in Users, t \in Tables : Has(v, t)' => Has(v, t)
         /\ \A v \in Users, t \in Tables : ~(v = u /\ t \in T) =>
               /\ Has(v, t) => Has(v, t)'
               /\ <<v, t>> \in excused <=> <<v, t>> \in excused'
         /\ \A v \in Users, t \in Tables :
               Has(v, t)' /\ <<v, t>> \in excused => <<v, t>> \in excused'
         /\ \A t \in T : (\E s \in Calls :
                            /\ call[s].op = "subscribe" /\ call[s].pc = "track"
                            /\ call[s].user = u /\ t \in call[s].tables) =>
               \/ <<u, t>> \in excused'
               \/ /\ Has(u, t) => Has(u, t)'
                  /\ <<u, t>> \in excused => <<u, t>> \in excused'
         /\ \A t \in channels :
               \/ \E v \in Users : Has(v, t)' \/ <<v, t>> \in excused'
               \/ t \in p.todo \/ t = p.leaving
               \/ \E s \in Calls \ {r} : t \in call[s].todo \/ t = call[s].leaving
         /\ \A v \in Users : p.leaving \in Tables => ~Has(v, p.leaving)'
  <2>1. CASE current = "supabase" /\ userSubs[u] # None
    <3>1. /\ userSubs' = [userSubs EXCEPT ![u] = IF left = {} THEN None ELSE left]
          /\ excused' = (excused \ ({u} \X T)) \cup ({u} \X overlapped)
          /\ UnsubscribeLoop(r, [q EXCEPT !.todo = T], userSubs', channels)
        BY <2>1, <1>1 DEF Unsubscribe
    <3>2. PICK q0, subs : q0 = [q EXCEPT !.todo = T] /\ subs = userSubs'
        OBVIOUS
    <3>3. /\ q0 \in Call /\ q0.op = "unsubscribe" /\ q0.user = u /\ q0.visited = {}
          /\ q0.tables = T /\ q0.todo = T
        BY <1>2, <3>2 DEF Call
    <3>4. channels \in SUBSET Tables /\ userSubs[u] \in SUBSET Tables
          /\ left = userSubs[u] \ T
        BY <2>1 DEF IInv, TypeOK
    <3>5. PICK p \in Call :
             /\ call' = [call EXCEPT ![r] = p]
             /\ p.op = "unsubscribe" /\ p.user = u /\ p.tables = T
             /\ p.visited = {}
             /\ \/ p.pc = "untrack" /\ p.todo = {} /\ p.leaving = None
                \/ p.pc = "leave" /\ p.leaving \in Tables
             /\ \A t \in T \cap channels :
                   \/ t \in p.todo \/ t = p.leaving
                   \/ \E v \in Users : subs[v] # None /\ t \in subs[v]
             /\ \A v \in Users : ~(subs[v] # None /\ p.leaving \in subs[v])
                                 \/ p.leaving = None
      <4>1. UnsubscribeLoop(r, q0, subs, channels)
          BY <3>1, <3>2
      <4> QED BY <3>3, <3>4, <4>1, LoopResult
    <3>6. overlapped \subseteq T /\ left \subseteq Tables /\ left # None
        BY <3>4, ConstantsAssumption
    <3>7. \A t \in T : (\E s \in Calls :
                          /\ call[s].op = "subscribe" /\ call[s].pc = "track"
                          /\ call[s].user = u /\ t \in call[s].tables) =>
             t \in overlapped
        OBVIOUS
    <3> HIDE DEF overlapped, left
    <3>8. /\ userSubs' \in [Users -> (SUBSET Tables) \cup {None}]
          /\ \A v \in Users \ {u} : userSubs'[v] = userSubs[v]
          /\ userSubs'[u] = IF left = {} THEN None ELSE left
        BY <3>1, <3>6 DEF IInv, TypeOK
    <3>9. MapsTyped'
        BY <1>3, <3>1, <3>6, <3>8, MapsAreTyped DEF MapsTyped
    <3>10. \A t \in Tables : Has(u, t)' <=> Has(u, t) /\ t \notin T
        BY <2>1, <3>4, <3>6, <3>8 DEF Has
    <3>11. \A v \in Users \ {u}, t \in Tables : Has(v, t)' <=> Has(v, t)
        BY <3>8 DEF Has
    <3>12. \A v \in Users, t \in Tables : ~(v = u /\ t \in T) =>
              (<<v, t>> \in excused <=> <<v, t>> \in excused')
        BY <3>1, <3>6
    <3>13. \A t \in overlapped : <<u, t>> \in excused'
        BY <3>1
    <3>14. \A v \in Users, t \in Tables : Has(v, t)' <=> subs[v] # None /\ t \in subs[v]
        BY <3>2 DEF Has
    <3>15. \A t \in channels :
              \/ \E v \in Users : Has(v, t)' \/ <<v, t>> \in excused'
              \/ t \in p.todo \/ t = p.leaving
              \/ \E s \in Calls \ {r} : t \in call[s].todo \/ t = call[s].leaving
      <4> SUFFICES ASSUME NEW t \in channels, t \notin T
                   PROVE  \/ \E v \in Users : Has(v, t)' \/ <<v, t>> \in excused'
                          \/ \E s \in Calls \ {r} : \/ t \in call[s].todo
                                                    \/ t = call[s].leaving
          BY <3>4, <3>5, <3>14
      <4>1. t \in Tables
          BY <3>4
      <4>2. CASE \E v \in Users : Has(v, t) \/ <<v, t>> \in excused
          BY <4>1, <4>2, <3>10, <3>11, <3>12
      <4>3. CASE \E s \in Calls : t \in call[s].todo \/ t = call[s].leaving
          BY <4>1, <4>3, <1>3, <1>4, ConstantsAssumption
      <4> QED BY <4>2, <4>3 DEF IInv, NoChannelLeaks
    <3>16. \A v \in Users : p.leaving \in Tables => ~Has(v, p.leaving)'
        BY <3>5, <3>14, ConstantsAssumption
    <3> QED BY <3>5, <3>7, <3>9, <3>10, <3>11, <3>12, <3>13, <3>15, <3>16
  <2>2. CASE ~(current = "supabase" /\ userSubs[u] # None)
    <3>1. /\ call' = [call EXCEPT ![r] = [q EXCEPT !.pc = "untrack"]]
          /\ UNCHANGED <<userSubs, excused>>
        BY <2>2, <1>1 DEF Unsubscribe
    <3>2. PICK p : p = [q EXCEPT !.pc = "untrack"] /\ call' = [call EXCEPT ![r] = p]
        BY <3>1
    <3>3. /\ p \in Call /\ p.op = "unsubscribe" /\ p.user = u /\ p.tables = T
          /\ p.visited = {} /\ p.pc = "untrack" /\ p.todo = {} /\ p.leaving = None
        BY <1>2, <3>2 DEF Call
    <3>4. MapsTyped'
        BY <1>3, <3>1, MapsAreTyped DEF MapsTyped
    <3>5. \A v \in Users, t \in Tables : Has(v, t)' <=> Has(v, t)
        BY <3>1 DEF Has
    <3>6. channels \subseteq Tables
        BY DEF IInv, TypeOK
    <3>7. \A t \in channels :
             \/ \E v \in Users : Has(v, t)' \/ <<v, t>> \in excused'
             \/ \E s \in Calls \ {r} : t \in call[s].todo \/ t = call[s].leaving
        BY <1>3, <1>4, <3>1, <3>5, <3>6, ConstantsAssumption DEF IInv, NoChannelLeaks
    <3> QED BY <3>1, <3>2, <3>3, <3>4, <3>5, <3>7, ConstantsAssumption
  <2> QED BY <2>1, <2>2
<1>6. PICK p \in Call :
         /\ call' = [call EXCEPT ![r] = p]
         /\ p.op = "unsubscribe" /\ p.user = u /\ p.tables = T /\ p.visited = {}
         /\ \/ p.pc = "untrack" /\ p.todo = {} /\ p.leaving = None
            \/ p.pc = "leave" /\ p.leaving \in Tables
         /\ MapsTyped'
         /\ \A v \in Users, t \in Tables : Has(v, t)' => Has(v, t)
         /\ \A v \in Users, t \in Tables : ~(v = u /\ t \in T) =>
               /\ Has(v, t) => Has(v, t)'
               /\ <<v, t>> \in excused <=> <<v, t>> \in excused'
         /\ \A v \in Users, t \in Tables :
               Has(v, t)' /\ <<v, t>> \in excused => <<v, t>> \in excused'
         /\ \A t \in T : (\E s \in Calls :
                            /\ call[s].op = "subscribe" /\ call[s].pc = "track"
                            /\ call[s].user = u /\ t \in call[s].tables) =>
               \/ <<u, t>> \in excused'
               \/ /\ Has(u, t) => Has(u, t)'
                  /\ <<u, t>> \in excused => <<u, t>> \in excused'
         /\ \A t \in channels :
               \/ \E v \in Users : Has(v, t)' \/ <<v, t>> \in excused'
               \/ t \in p.todo \/ t = p.leaving
               \/ \E s \in Calls \ {r} : t \in call[s].todo \/ t = call[s].leaving
         /\ \A v \in Users : p.leaving \in Tables => ~Has(v, p.leaving)'
    BY <1>5
<1>7. /\ LocalsOf(p) /\ EmittedOf(p)
      /\ call' \in [Calls -> Call] /\ call'[r] = p
      /\ \A s \in Calls \ {r} : call'[s] = call[s]
    BY <1>6, LoopTyped, OneMoves DEF IInv
<1>8. \A v \in Users, t \in Tables : Kept(v, t) => Kept(v, t)'
  <2> SUFFICES ASSUME NEW v \in Users, NEW t \in Tables, Kept(v, t) PROVE Kept(v, t)'
      OBVIOUS
  <2>1. CASE v = u /\ t \in T
    <3>1. Ongoing(v, t)'
        BY <1>6, <1>7, <2>1 DEF Ongoing
    <3> QED BY <3>1 DEF Kept
  <2>2. CASE ~(v = u /\ t \in T)
    <3>1. Ongoing(v, t) => Ongoing(v, t)'
        BY <1>3, <1>7 DEF Ongoing
    <3>2. Has(v, t) => Has(v, t)'
        BY <1>6, <2>2
    <3>3. <<v, t>> \in excused => <<v, t>> \in excused'
        BY <1>6, <2>2
    <3> QED BY <3>1, <3>2, <3>3 DEF Kept
  <2> QED BY <2>1, <2>2
<1>9. TypeOK' /\ Resting' /\ Migrated' /\ Tracked'
  <2>1. connections' \subseteq Users \X Connections
      BY <1>3, MapsAreTyped
  <2> QED BY <1>3, <1>6, <1>8, <2>1, KeptKeeps
<1>10. Locals' /\ Emitted'
    BY <1>3, <1>7 DEF IInv, Locals, LocalsOf, Emitted, EmittedOf
<1>11. NoChannelLeaks'
  <2> SUFFICES ASSUME NEW t \in channels
               PROVE  \/ \E v \in Users : Has(v, t)' \/ <<v, t>> \in excused'
                      \/ \E s \in Calls : t \in call'[s].todo \/ t = call'[s].leaving
      BY <1>3 DEF NoChannelLeaks
  <2>1. CASE \E v \in Users : Has(v, t)' \/ <<v, t>> \in excused'
      BY <2>1
  <2>2. CASE t \in p.todo \/ t = p.leaving
      BY <1>7, <2>2
  <2>3. CASE \E s \in Calls \ {r} : t \in call[s].todo \/ t = call[s].leaving
      BY <1>7, <2>3
  <2> QED BY <1>6, <2>1, <2>2, <2>3
<1>12. HasChannel'
  <2> SUFFICES ASSUME NEW v \in Users, NEW t \in Tables, Has(v, t)',
                      <<v, t>> \notin excused'
               PROVE  t \in channels' /\ t \notin Leaving'
      BY DEF HasChannel
  <2>1. Has(v, t) /\ <<v, t>> \notin excused
      BY <1>6
  <2>2. t \in channels /\ \A s \in Calls : t # call[s].leaving
      BY <2>1, ConstantsAssumption DEF IInv, HasChannel, Leaving
  <2>3. t # p.leaving
      BY <1>6
  <2> QED BY <2>2, <2>3, <1>3, <1>7 DEF Leaving
<1>13. ToTrack'
  <2>1. ASSUME NEW s \in Calls \ {r} PROVE ToTrackOf(call[s])'
    <3>1. /\ ToTrackOf(call[s]) /\ LocalsOf(call[s]) /\ call[s] \in Call
          /\ call'[s] = call[s]
        BY <1>7 DEF IInv, ToTrack, Locals, TypeOK
    <3> SUFFICES ASSUME call[s].op = "subscribe", call[s].pc = "track",
                        call[s].via = "supabase", config.supabase,
                        NEW t \in call[s].tables
                 PROVE  Has(call[s].user, t)' \/ <<call[s].user, t>> \in excused'
        BY <1>3, <3>1 DEF ToTrackOf
    <3>2. call[s].user \in Users /\ t \in Tables
        BY <3>1 DEF LocalsOf, Call
    <3>3. Has(call[s].user, t) \/ <<call[s].user, t>> \in excused
        BY <3>1 DEF ToTrackOf
    <3>4. CASE call[s].user = u /\ t \in T
        BY <1>6, <3>3, <3>4
    <3>5. CASE ~(call[s].user = u /\ t \in T)
        BY <1>6, <3>2, <3>3, <3>5
    <3> QED BY <3>4, <3>5
  <2>2. ToTrackOf(call[r])'
      BY <1>6, <1>7 DEF ToTrackOf
  <2> QED BY <2>1, <2>2 DEF ToTrack
<1> QED BY <1>9, <1>10, <1>11, <1>12, <1>13 DEF IInv

-----------------------------------------------------------------------------
(* The switch itself, and the start *)

\* Two calls that differ in what broadcasts remember of the provider at most.
Alike(p, q) ==
    /\ p.op = q.op /\ p.pc = q.pc /\ p.user = q.user /\ p.conn = q.conn
    /\ p.tables = q.tables /\ p.via = q.via /\ p.to = q.to /\ p.visited = q.visited
    /\ p.leaving = q.leaving /\ p.todo = q.todo /\ p.sent = q.sent

LEMMA SwitchedKeeps ==
    ASSUME NEW r \in Calls, IInv, Switched(r)
    PROVE  IInv'
<1> DEFINE later(s) == IF current' # current /\ call[s].op = "broadcast"
                       THEN [call[s] EXCEPT !.met = TRUE] ELSE call[s]
<1>1. /\ call[r].pc = "migrate" /\ Unvisited(r) = {} /\ current' = call[r].to
      /\ call' = [s \in Calls |-> IF s = r THEN Idle ELSE later(s)]
      /\ UNCHANGED <<config, running, connections, subscriptions, userSubs, channels,
                     excused>>
    BY DEF Switched
<1>2. /\ call[r] \in Call /\ LocalsOf(call[r]) /\ call[r].op # "unsubscribe"
      /\ call[r].todo = {} /\ call[r].leaving = None
    BY <1>1, NotLeaving
<1>3. \A s \in Calls : /\ call[s] \in Call /\ LocalsOf(call[s]) /\ EmittedOf(call[s])
    BY DEF IInv, TypeOK, Locals, Emitted
\* The others remember, at most, that the provider is another one now.
<1>4. \A s \in Calls \ {r} :
         /\ call'[s] \in Call /\ Alike(call'[s], call[s])
         /\ current' = current => call'[s] = call[s]
         /\ current' # current /\ call[s].op = "broadcast" => call'[s].met
         /\ call[s].op # "broadcast" => call'[s] = call[s]
  <2> SUFFICES ASSUME NEW s \in Calls \ {r}
               PROVE  /\ later(s) \in Call /\ Alike(later(s), call[s])
                      /\ current' = current => later(s) = call[s]
                      /\ current' # current /\ call[s].op = "broadcast" => later(s).met
                      /\ call[s].op # "broadcast" => later(s) = call[s]
      BY <1>1
  <2>1. PICK q : q = call[s]
      OBVIOUS
  <2>2. q \in Call
      BY <1>3, <2>1
  <2>3. CASE current' # current /\ q.op = "broadcast"
    <3>1. PICK p : p = [q EXCEPT !.met = TRUE]
        OBVIOUS
    <3>2. p \in Call /\ Alike(p, q) /\ p.met
        BY <2>2, <3>1 DEF Call, Alike
    <3>3. later(s) = p
        BY <2>1, <2>3, <3>1
    <3> HIDE DEF later
    <3> QED BY <2>1, <2>3, <3>2, <3>3
  <2>4. CASE ~(current' # current /\ q.op = "broadcast")
    <3>1. later(s) = q
        BY <2>1, <2>4
    <3>2. Alike(q, q)
        BY DEF Alike
    <3> HIDE DEF later
    <3> QED BY <2>1, <2>2, <2>4, <3>1, <3>2
  <2> QED BY <2>3, <2>4
<1> HIDE DEF later
<1>5. call'[r] = Idle /\ call' \in [Calls -> Call]
  <2>1. call'[r] = Idle
      BY <1>1
  <2>2. \A s \in Calls : call'[s] \in Call
      BY <2>1, <1>4, IdleTyped
  <2> QED BY <1>1, <2>1, <2>2
<1>6. \A s \in Calls \ {r} :
         /\ call'[s].op = call[s].op /\ call'[s].pc = call[s].pc
         /\ call'[s].user = call[s].user /\ call'[s].conn = call[s].conn
         /\ call'[s].tables = call[s].tables /\ call'[s].via = call[s].via
         /\ call'[s].to = call[s].to /\ call'[s].visited = call[s].visited
         /\ call'[s].leaving = call[s].leaving /\ call'[s].todo = call[s].todo
         /\ call'[s].sent = call[s].sent
    BY <1>4 DEF Alike
<1>7. Idle.op = "none" /\ Idle.pc = "idle" /\ Idle.todo = {} /\ Idle.leaving = None
    BY DEF Idle
<1>8. call[r].to \in Providers /\ current' \in Providers /\ running
    BY <1>1, <1>2 DEF LocalsOf, IInv, Resting
<1>9. TypeOK'
    BY <1>1, <1>5, <1>8 DEF IInv, TypeOK
<1>10. Locals'
  <2>1. ASSUME NEW s \in Calls \ {r} PROVE LocalsOf(call[s])'
    <3>1. LocalsOf(call[s])
        BY <1>3
    <3>2. CASE call[s].pc = "idle"
      <4>1. call[s].op # "broadcast"
          BY <3>1, <3>2, <1>7 DEF LocalsOf
      <4>2. call'[s] = call[s]
          BY <4>1, <1>4
      <4> QED BY <4>2, <3>1, <1>1 DEF LocalsOf
    <3>3. CASE call[s].pc # "idle"
        BY <3>1, <3>3, <1>1, <1>6 DEF LocalsOf
    <3> QED BY <3>2, <3>3
  <2>2. LocalsOf(call[r])'
      BY <1>1, <1>5 DEF LocalsOf, Idle
  <2> QED BY <2>1, <2>2 DEF Locals
<1>11. Emitted'
  <2>1. ASSUME NEW s \in Calls \ {r} PROVE EmittedOf(call[s])'
    <3>1. /\ LocalsOf(call[s]) /\ EmittedOf(call[s])
          /\ call'[s].pc = call[s].pc /\ call'[s].sent = call[s].sent
        BY <1>3, <1>6
    <3>2. CASE current' = current
      <4>1. call'[s] = call[s]
          BY <3>2, <1>4
      <4> QED BY <3>1, <3>2, <4>1 DEF EmittedOf
    <3>3. CASE current' # current
      <4>1. call[s].pc \in {"after", "ok"} => call'[s].met
          BY <3>1, <3>3, <1>4 DEF LocalsOf
      <4> QED BY <3>1, <4>1 DEF EmittedOf
    <3> QED BY <3>2, <3>3
  <2>2. EmittedOf(call[r])'
      BY <1>5, <1>7 DEF EmittedOf
  <2> QED BY <2>1, <2>2 DEF Emitted
<1>12. Leaving' = Leaving
    BY <1>2, <1>5, <1>6, <1>7 DEF Leaving
<1>13. \A u \in Users, t \in Tables :
          /\ Has(u, t)' <=> Has(u, t)
          /\ Ongoing(u, t) => Ongoing(u, t)'
          /\ Kept(u, t) => Kept(u, t)'
  <2> SUFFICES ASSUME NEW u \in Users, NEW t \in Tables
               PROVE  /\ Has(u, t)' <=> Has(u, t)
                      /\ Ongoing(u, t) => Ongoing(u, t)'
                      /\ Kept(u, t) => Kept(u, t)'
      OBVIOUS
  <2>1. Has(u, t)' <=> Has(u, t)
      BY <1>1 DEF Has
  <2>2. Ongoing(u, t) => Ongoing(u, t)'
      BY <1>2, <1>6 DEF Ongoing
  <2> QED BY <2>1, <2>2, <1>1 DEF Kept
<1>14. NoChannelLeaks'
  <2> SUFFICES ASSUME NEW t \in channels
               PROVE  \/ \E u \in Users : Has(u, t)' \/ <<u, t>> \in excused'
                      \/ \E s \in Calls : t \in call'[s].todo \/ t = call'[s].leaving
      BY <1>1 DEF NoChannelLeaks
  <2>1. t \in Tables
      BY DEF IInv, TypeOK
  <2>2. CASE \E u \in Users : Has(u, t) \/ <<u, t>> \in excused
      BY <2>1, <2>2, <1>1, <1>13
  <2>3. CASE \E s \in Calls : t \in call[s].todo \/ t = call[s].leaving
      BY <2>1, <2>3, <1>2, <1>6, ConstantsAssumption
  <2> QED BY <2>2, <2>3 DEF IInv, NoChannelLeaks
<1>15. HasChannel'
    BY <1>1, <1>12, <1>13 DEF IInv, HasChannel
<1>16. ToTrack'
  <2>1. ASSUME NEW s \in Calls \ {r} PROVE ToTrackOf(call[s])'
    <3>1. ToTrackOf(call[s])
        BY DEF IInv, ToTrack
    <3> QED BY <3>1, <1>1, <1>6 DEF ToTrackOf, Has
  <2>2. ToTrackOf(call[r])'
      BY <1>5, <1>7 DEF ToTrackOf
  <2> QED BY <2>1, <2>2 DEF ToTrack
<1>17. \A u \in Users : subscriptions[u] \subseteq Tables
    BY DEF IInv, TypeOK
<1>18. Migrated'
  <2>1. MigratedOf(call[r])'
      BY <1>5, <1>7 DEF MigratedOf
  <2>2. ASSUME NEW s \in Calls \ {r} PROVE MigratedOf(call[s])'
    <3>1. MigratedOf(call[s]) /\ call[s].visited \subseteq Users
        BY <1>3 DEF IInv, Migrated, Call
    <3> SUFFICES ASSUME call[s].pc = "migrate", call[s].to = "supabase",
                        NEW u \in call[s].visited, NEW t \in subscriptions[u]
                 PROVE  Kept(u, t)'
        BY <1>1, <1>6 DEF MigratedOf
    <3>2. Kept(u, t) /\ u \in Users /\ t \in Tables
        BY <3>1, <1>17 DEF MigratedOf
    <3> QED BY <3>2, <1>13
  <2> QED BY <2>1, <2>2 DEF Migrated
\* Every entry has been visited when the Supabase adapter takes over.
<1>19. Tracked'
  <2> SUFFICES ASSUME ViaSupabase', NEW u \in Users, NEW t \in subscriptions[u]
               PROVE  Kept(u, t)'
      BY <1>1 DEF Tracked
  <2>1. call[r].to = "supabase"
      BY <1>1 DEF ViaSupabase
  <2>2. u \in call[r].visited
      BY <1>1 DEF Unvisited
  <2>3. MigratedOf(call[r])
      BY DEF IInv, Migrated
  <2>4. Kept(u, t)
      BY <2>1, <2>2, <2>3, <1>1 DEF MigratedOf
  <2> QED BY <2>4, <1>13, <1>17
<1>20. Resting'
    BY <1>1, <1>8 DEF Resting
<1> QED BY <1>9, <1>10, <1>11, <1>14, <1>15, <1>16, <1>18, <1>19, <1>20 DEF IInv

\* Nothing is tracked and no call is open when the provider is chosen.
LEMMA BootKeeps ==
    ASSUME IInv, Boot
    PROVE  IInv'
<1>1. /\ ~running /\ running' /\ running' \in BOOLEAN
      /\ current' \in {current, fallbackProvider}
      /\ UNCHANGED <<config, connections, subscriptions, userSubs, channels, call,
                     excused>>
    BY DEF Boot
<1>2. current' \in Providers
    BY <1>1 DEF fallbackProvider, Providers, IInv, TypeOK
<1>3. /\ \A s \in Calls : call[s].pc = "idle"
      /\ \A u \in Users : subscriptions[u] = {}
    BY <1>1 DEF IInv, Resting
<1>4. TypeOK'
    BY <1>1, <1>2 DEF IInv, TypeOK
<1>5. Locals' /\ Resting' /\ NoChannelLeaks' /\ HasChannel' /\ ToTrack'
    BY <1>1 DEF IInv, Locals, LocalsOf, Resting, NoChannelLeaks, HasChannel, Has,
                Leaving, ToTrack, ToTrackOf
<1>6. Emitted' /\ Migrated' /\ Tracked'
    BY <1>1, <1>3 DEF Emitted, EmittedOf, Migrated, MigratedOf, Tracked
<1> QED BY <1>4, <1>5, <1>6 DEF IInv

-----------------------------------------------------------------------------
(* The theorems *)

LEMMA StutterKeeps == IInv /\ UNCHANGED vars => IInv'
<1> SUFFICES ASSUME IInv, UNCHANGED vars PROVE IInv'
    OBVIOUS
<1>1. UNCHANGED <<config, running, current, connections, subscriptions, userSubs,
                  channels, call, excused>>
    BY DEF vars
<1>2. TypeOK' /\ Locals' /\ Resting' /\ Emitted'
    BY <1>1 DEF IInv, TypeOK, Locals, LocalsOf, Resting, Emitted, EmittedOf
<1>3. NoChannelLeaks' /\ HasChannel' /\ ToTrack'
    BY <1>1 DEF IInv, NoChannelLeaks, HasChannel, Has, Leaving, ToTrack, ToTrackOf
<1>4. Migrated' /\ Tracked'
    BY <1>1 DEF IInv, Migrated, MigratedOf, Tracked, ViaSupabase, Kept, Has, Ongoing
<1> QED BY <1>2, <1>3, <1>4 DEF IInv

LEMMA NextKeeps == IInv /\ Next => IInv'
<1> SUFFICES ASSUME IInv, Next PROVE IInv'
    OBVIOUS
<1>1. CASE Boot
    BY <1>1, BootKeeps
<1>2. ASSUME NEW r \in Calls, Step(r) PROVE IInv'
    BY <1>2, TrackConnectionKeeps, UntrackConnectionKeeps, TrackKeeps,
       RemoveChannelKeeps, UntrackKeeps, BroadcastToRoomKeeps,
       HandleAdapterErrorKeeps, AskFallbackKeeps, AskHealthKeeps, MigrateKeeps,
       SwitchedKeeps DEF Step
<1>3. ASSUME NEW r \in Calls, Return(r) PROVE IInv'
    BY <1>3, ReturnKeeps
<1>4. ASSUME NEW r \in Calls, NEW u \in Users, NEW c \in Connections, Connect(r, u, c)
      PROVE  IInv'
    BY <1>4, ConnectKeeps
<1>5. ASSUME NEW r \in Calls, NEW c \in Connections, Disconnect(r, c) PROVE IInv'
    BY <1>5, DisconnectKeeps
<1>6. ASSUME NEW r \in Calls, NEW u \in Users, NEW T \in (SUBSET Tables) \ {{}},
             Subscribe(r, u, T) \/ Unsubscribe(r, u, T)
      PROVE  IInv'
    BY <1>6, SubscribeKeeps, UnsubscribeKeeps
<1>7. ASSUME NEW r \in Calls, NEW t \in Tables, Broadcast(r, t) PROVE IInv'
    BY <1>7, BroadcastKeeps
<1>8. ASSUME NEW r \in Calls, NEW p \in Providers, SwitchProvider(r, p) PROVE IInv'
    BY <1>8, SwitchProviderKeeps
<1> QED BY <1>1, <1>2, <1>3, <1>4, <1>5, <1>6, <1>7, <1>8 DEF Next

LEMMA Invariance == Spec => []IInv
<1>1. IInv /\ [Next]_vars => IInv'
    BY NextKeeps, StutterKeeps
<1> QED BY InitIInv, <1>1, PTL DEF Spec

\* Type correctness of the service and of both adapters.
THEOREM TypeCorrect == Spec => []TypeOK
<1>1. IInv => TypeOK
    BY DEF IInv
<1> QED BY <1>1, Invariance, PTL

\* The Supabase adapter in use has a channel for every tracked subscription that
\* is not being taken away and that `excused' does not name, as it does one that
\* met the removal of its channel, a failure, or a switch before it was tracked.
\* Switches, fallbacks and migrations one after another, and calls about other
\* subscriptions at any time, lose none
\* (UnifiedRealtimeService.switchProvider, SupabaseRealtimeAdapter.subscribe).
THEOREM TrackedAreServed == Spec => []Served
<1>1. IInv => Served
  <2> SUFFICES ASSUME IInv, NEW u \in Users, NEW t \in subscriptions[u],
                      ViaSupabase, <<u, t>> \notin excused, ~Ongoing(u, t)
               PROVE  Has(u, t) /\ t \in channels
      BY DEF Served, Ongoing
  <2>1. t \in Tables
      BY DEF IInv, TypeOK
  <2>2. Has(u, t)
      BY DEF IInv, Tracked, Kept
  <2> QED BY <2>1, <2>2 DEF IInv, HasChannel
<1> QED BY <1>1, Invariance, PTL

\* No channel is left behind without a subscriber, an unsubscription about to
\* look at it, or a failure (the loop of SupabaseRealtimeAdapter.unsubscribe).
THEOREM ChannelsDoNotLeak == Spec => []NoChannelLeaks
<1>1. IInv => NoChannelLeaks
    BY DEF IInv
<1> QED BY <1>1, Invariance, PTL

\* A broadcast during which no provider was changed and no error met is emitted
\* exactly once, by the WebSocket adapter's event or by the service itself
\* (UnifiedRealtimeService.broadcast).
THEOREM BroadcastsEmitOnce == Spec => []EmittedOnce
<1>1. IInv => EmittedOnce
    BY DEF IInv, Emitted, EmittedOf, EmittedOnce
<1> QED BY <1>1, Invariance, PTL

=============================================================================
