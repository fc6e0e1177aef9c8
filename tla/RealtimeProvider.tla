-------------------------- MODULE RealtimeProvider --------------------------
(***************************************************************************)
(* The realtime providers of the todo-master backend:                      *)
(* UnifiedRealtimeService over WebsocketRealtimeAdapter and                *)
(* SupabaseRealtimeAdapter.  The service keeps the adapter in use, what    *)
(* users subscribed to and which connections it was told of; the Supabase  *)
(* adapter keeps its own subscriptions and one channel per table; the      *)
(* WebSocket adapter keeps nothing.                                        *)
(*                                                                         *)
(* A call is a record that advances by one action per await.  An adapter   *)
(* whose promise is already resolved still yields, so the calls of others  *)
(* may run before the continuation.                                        *)
(***************************************************************************)
EXTENDS Naturals, FiniteSets

CONSTANTS
    Users, Tables, Connections,
    Calls,      \* slots for calls of the service, each reused
    Faults,     \* a subset of FaultKinds
    None        \* no entry, no user, no table

Providers == {"websocket", "supabase"}
FaultKinds == {"adapterError"}

ASSUME ConstantsAssumption ==
    /\ Faults \subseteq FaultKinds
    /\ None \notin Users \cup Tables \cup Connections \cup Providers
    /\ \A T \in SUBSET Tables : T # None     \* no entry is not an empty one

VARIABLES
    config,        \* primary provider, fallback enabled, Supabase configured
    running,       \* onModuleInit is over
    current,       \* config.provider, and with it currentAdapter
    connections,   \* tracked connections: <<user, id>>
    subscriptions, \* tracked tables of each user, {} for no entry
    userSubs,      \* SupabaseRealtimeAdapter.userSubscriptions
    channels,      \* SupabaseRealtimeAdapter.channels
    call,          \* the call in each slot
    excused        \* history: <<user, table>> whose subscription met a removal
                   \* of the channel, a switch in progress or a failure

vars == <<config, running, current, connections, subscriptions, userSubs,
          channels, call, excused>>

Call == [op : {"none", "connect", "disconnect", "subscribe", "unsubscribe",
               "broadcast", "switch"},
         pc : {"idle", "track", "leave", "untrack", "after", "failed",
               "fallback", "ask", "migrate", "ok"},
         user : Users \cup {None}, conn : Connections \cup {None},
         tables : SUBSET Tables,
         via : Providers \cup {None},       \* the provider a subscription used
         to : Providers \cup {None},        \* the target of a switch
         visited : SUBSET Users,            \* the entries migrated so far
         leaving : Tables \cup {None},      \* the channel being unsubscribed
         todo : SUBSET Tables,              \* the tables the loop has left
         sent : 0..2,                       \* emits to the room of the table
         met : BOOLEAN]                     \* the provider changed meanwhile

Idle == [op |-> "none", pc |-> "idle", user |-> None, conn |-> None,
         tables |-> {}, via |-> None, to |-> None, visited |-> {},
         leaving |-> None, todo |-> {}, sent |-> 0, met |-> FALSE]

TypeOK ==
    /\ config \in [primary : Providers, fallback : BOOLEAN, supabase : BOOLEAN]
    /\ running \in BOOLEAN
    /\ current \in Providers
    /\ connections \subseteq Users \X Connections
    /\ subscriptions \in [Users -> SUBSET Tables]
    /\ userSubs \in [Users -> (SUBSET Tables) \cup {None}]
    /\ channels \subseteq Tables
    /\ call \in [Calls -> Call]
    /\ excused \subseteq Users \X Tables

Init ==
    /\ config \in [primary : Providers, fallback : BOOLEAN, supabase : BOOLEAN]
    /\ running = FALSE
    /\ current = config.primary
    /\ connections = {}
    /\ subscriptions = [u \in Users |-> {}]
    /\ userSubs = [u \in Users |-> None]
    /\ channels = {}
    /\ call = [r \in Calls |-> Idle]
    /\ excused = {}

-----------------------------------------------------------------------------
(* Helpers *)

\* Mutant: the fallback of the WebSocket provider is not set.
fallbackProviderUnset ==
    IF config.primary = "websocket" THEN None ELSE "websocket"

\* config.fallbackProvider: fixed when the service is constructed.
fallbackProvider ==
    IF config.primary = "websocket" THEN "supabase" ELSE "websocket"

\* isHealthy answers as it finds, but a missing client is never healthy.
MayBeHealthy(p) == p = "websocket" \/ config.supabase

AdapterFails == "adapterError" \in Faults

\* The Supabase adapter is in use and has a client.
ViaSupabase == current = "supabase" /\ config.supabase

Goto(r, label) == call' = [call EXCEPT ![r].pc = label]

\* The call is over, well or not.
Finish(r) == call' = [call EXCEPT ![r] = Idle]

Has(u, t) == userSubs[u] # None /\ t \in userSubs[u]

\* The tables whose channel is being unsubscribed.
Leaving == {call[r].leaving : r \in Calls} \ {None}

Start(r, q) ==
    /\ running /\ call[r].pc = "idle"
    /\ call' = [call EXCEPT ![r] = q]

-----------------------------------------------------------------------------
(* SupabaseRealtimeAdapter *)

\* A table the user has is skipped; one without a channel gets one, and one
\* whose channel is being removed keeps that channel.
AdapterSubscribe(u, T) ==
    LET new == {t \in T : ~Has(u, t)} IN
    /\ userSubs' = [userSubs EXCEPT ![u] = (IF @ = None THEN {} ELSE @) \cup T]
    /\ channels' = channels \cup new
    /\ excused' = excused \cup {<<u, t>> : t \in new \cap Leaving}

\* The client throws when it makes the channel of t: the tables before are done,
\* and t itself is already in the set of a user who has one.
AdapterSubscribeThrows(u, T) ==
    LET new == {t \in T : ~Has(u, t)} IN
    \E t \in new \ channels : \E done \in SUBSET (new \ {t}) :
        /\ userSubs' = IF userSubs[u] = None THEN userSubs
                       ELSE [userSubs EXCEPT ![u] = @ \cup done \cup {t}]
        /\ channels' = channels \cup done
        /\ excused' = excused \cup {<<u, x>> : x \in done \cup {t}}

\* The loop over the tables, up to its next await: a table nobody has any more
\* loses its channel.  Tables passed over because somebody has them are done.
UnsubscribeLoop(r, q, subs, chans) ==
    LET kept == {t \in q.todo : \E u \in Users : subs[u] # None /\ t \in subs[u]}
        doomed == (q.todo \cap chans) \ kept
    IN
    \/ /\ doomed = {}
       /\ call' = [call EXCEPT ![r] = [q EXCEPT !.pc = "untrack", !.todo = {},
                                                !.leaving = None]]
    \/ \E t \in doomed, passed \in SUBSET (q.todo \ doomed) :
         call' = [call EXCEPT ![r] =
                    [q EXCEPT !.pc = "leave", !.leaving = t,
                              !.todo = @ \ (passed \cup {t})]]

-----------------------------------------------------------------------------
(* onModuleInit *)

\* An unhealthy primary gives way to a healthy fallback; if that is unhealthy
\* the start fails and is tried again.
Boot ==
    /\ ~running /\ running' = TRUE
    /\ \/ MayBeHealthy(current) /\ UNCHANGED current
       \/ ~config.fallback /\ UNCHANGED current
       \/ /\ config.fallback /\ MayBeHealthy(fallbackProvider)
          /\ current' = fallbackProvider
    /\ UNCHANGED <<config, connections, subscriptions, userSubs, channels, call,
                   excused>>

-----------------------------------------------------------------------------
(* connect and disconnect *)

Connect(r, u, c) ==
    /\ Start(r, [Idle EXCEPT !.op = "connect", !.pc = "track", !.user = u,
                             !.conn = c])
    /\ userSubs' = IF current = "supabase" /\ userSubs[u] = None
                   THEN [userSubs EXCEPT ![u] = {}] ELSE userSubs
    /\ UNCHANGED <<config, running, current, connections, subscriptions, channels,
                   excused>>

TrackConnection(r) ==
    LET q == call[r] IN
    /\ q.pc = "track" /\ q.op = "connect"
    /\ connections' = connections \cup {<<q.user, q.conn>>}
    /\ Finish(r)
    /\ UNCHANGED <<config, running, current, subscriptions, userSubs, channels,
                   excused>>

\* Neither adapter does anything: the user's subscriptions stay.
Disconnect(r, c) ==
    /\ Start(r, [Idle EXCEPT !.op = "disconnect", !.pc = "untrack", !.conn = c])
    /\ UNCHANGED <<config, running, current, connections, subscriptions, userSubs,
                   channels, excused>>

UntrackConnection(r) ==
    /\ call[r].pc = "untrack" /\ call[r].op = "disconnect"
    /\ connections' = {x \in connections : x[2] # call[r].conn}
    /\ Finish(r)
    /\ UNCHANGED <<config, running, current, subscriptions, userSubs, channels,
                   excused>>

-----------------------------------------------------------------------------
(* subscribe and unsubscribe *)

Subscribe(r, u, T) ==
    LET q == [Idle EXCEPT !.op = "subscribe", !.user = u, !.tables = T,
                          !.via = current]
    IN
    /\ \/ /\ Start(r, [q EXCEPT !.pc = "track"])
          /\ IF ViaSupabase THEN AdapterSubscribe(u, T)
                            ELSE UNCHANGED <<userSubs, channels, excused>>
       \/ /\ AdapterFails /\ ViaSupabase
          /\ Start(r, [q EXCEPT !.pc = "failed"])
          /\ AdapterSubscribeThrows(u, T)
    /\ UNCHANGED <<config, running, current, connections, subscriptions>>

Track(r) ==
    LET q == call[r]
        late == \/ q.via # current
                \/ \E s \in Calls :
                     call[s].pc = "migrate" /\ q.user \in call[s].visited
    IN
    /\ q.pc = "track" /\ q.op = "subscribe"
    /\ subscriptions' = [subscriptions EXCEPT ![q.user] = @ \cup q.tables]
    /\ excused' = IF late THEN excused \cup ({q.user} \X q.tables) ELSE excused
    /\ Finish(r)
    /\ UNCHANGED <<config, running, current, connections, userSubs, channels>>

Unsubscribe(r, u, T) ==
    LET q == [Idle EXCEPT !.op = "unsubscribe", !.user = u, !.tables = T]
        left == IF userSubs[u] = None THEN {} ELSE userSubs[u] \ T
        overlapped == {t \in T : \E s \in Calls :
                         /\ call[s].op = "subscribe" /\ call[s].pc = "track"
                         /\ call[s].user = u /\ t \in call[s].tables}
    IN
    /\ running /\ call[r].pc = "idle"
    /\ IF current = "supabase" /\ userSubs[u] # None
         THEN /\ userSubs' = [userSubs EXCEPT ![u] = IF left = {} THEN None
                                                                  ELSE left]
              /\ excused' = (excused \ ({u} \X T)) \cup ({u} \X overlapped)
              /\ UnsubscribeLoop(r, [q EXCEPT !.todo = T], userSubs', channels)
         ELSE /\ call' = [call EXCEPT ![r] = [q EXCEPT !.pc = "untrack"]]
              /\ UNCHANGED <<userSubs, excused>>
    /\ UNCHANGED <<config, running, current, connections, subscriptions, channels>>

\* Mutant: the channel stays in the map.
RemoveChannelForgets(r) ==
    /\ call[r].pc = "leave"
    /\ UnsubscribeLoop(r, [call[r] EXCEPT !.leaving = None], userSubs, channels)
    /\ UNCHANGED <<config, running, current, connections, subscriptions, userSubs,
                   channels, excused>>

\* After the await of channel.unsubscribe: whatever is in the map goes.
RemoveChannel(r) ==
    LET q == call[r]
        chans == channels \ {q.leaving}
    IN
    /\ q.pc = "leave"
    /\ channels' = chans
    /\ UnsubscribeLoop(r, [q EXCEPT !.leaving = None], userSubs, chans)
    /\ UNCHANGED <<config, running, current, connections, subscriptions, userSubs,
                   excused>>

\* An entry that goes is met again by the iteration of a switch if it returns.
Untrack(r) ==
    LET q == call[r]
        left == subscriptions[q.user] \ q.tables
    IN
    /\ q.pc = "untrack" /\ q.op = "unsubscribe"
    /\ subscriptions' = [subscriptions EXCEPT ![q.user] = left]
    /\ call' = [s \in Calls |->
                  IF s = r THEN Idle
                  ELSE IF left = {} THEN [call[s] EXCEPT !.visited = @ \ {q.user}]
                  ELSE call[s]]
    /\ UNCHANGED <<config, running, current, connections, userSubs, channels,
                   excused>>

-----------------------------------------------------------------------------
(* broadcast *)

\* BroadcastService: an emit to the room of the table.
ToRoom(q) == [q EXCEPT !.sent = @ + 1]

\* The listener of the WebSocket adapter's event; nobody is in the room user:<id>
\* to which it emits first.
HandleDatabaseChange(q) == ToRoom(q)

\* The Supabase adapter leaves changes of tables to the database's own feed.
AdapterBroadcast(q) ==
    IF current = "websocket" THEN HandleDatabaseChange(q) ELSE q

Broadcast(r, t) ==
    LET q == [Idle EXCEPT !.op = "broadcast", !.tables = {t}] IN
    /\ \/ Start(r, [AdapterBroadcast(q) EXCEPT !.pc = "after"])
       \/ AdapterFails /\ Start(r, [q EXCEPT !.pc = "failed"])
    /\ UNCHANGED <<config, running, current, connections, subscriptions, userSubs,
                   channels, excused>>

\* Mutant: the WebSocket clients are served whichever the provider is.
BroadcastToRoomAlways(r) ==
    /\ call[r].pc = "after"
    /\ call' = [call EXCEPT ![r] = [ToRoom(@) EXCEPT !.pc = "ok"]]
    /\ UNCHANGED <<config, running, current, connections, subscriptions, userSubs,
                   channels, excused>>

\* "If using Supabase as primary, also broadcast to WebSocket clients": the
\* provider is asked for again after the await.
BroadcastToRoom(r) ==
    /\ call[r].pc = "after"
    /\ LET q == IF current = "supabase" THEN ToRoom(call[r]) ELSE call[r]
       IN call' = [call EXCEPT ![r] = [q EXCEPT !.pc = "ok"]]
    /\ UNCHANGED <<config, running, current, connections, subscriptions, userSubs,
                   channels, excused>>

-----------------------------------------------------------------------------
(* handleAdapterError and switchProvider *)

\* What failed is not tried again.
HandleAdapterError(r) ==
    /\ call[r].pc = "failed"
    /\ IF config.fallback THEN Goto(r, "fallback") ELSE Finish(r)
    /\ UNCHANGED <<config, running, current, connections, subscriptions, userSubs,
                   channels, excused>>

AskFallback(r) ==
    /\ call[r].pc = "fallback"
    /\ \/ /\ MayBeHealthy(fallbackProvider)
          /\ call' = [call EXCEPT ![r].pc = "ask", ![r].to = fallbackProvider]
       \/ Finish(r)
    /\ UNCHANGED <<config, running, current, connections, subscriptions, userSubs,
                   channels, excused>>

SwitchProvider(r, p) ==
    /\ Start(r, [Idle EXCEPT !.op = "switch", !.pc = "ask", !.to = p])
    /\ UNCHANGED <<config, running, current, connections, subscriptions, userSubs,
                   channels, excused>>

AskHealth(r) ==
    /\ call[r].pc = "ask"
    /\ \/ MayBeHealthy(call[r].to) /\ Goto(r, "migrate")
       \/ Finish(r)
    /\ UNCHANGED <<config, running, current, connections, subscriptions, userSubs,
                   channels, excused>>

\* Entries of a Map that its iterator has yet to reach.
Unvisited(r) == {u \in Users \ call[r].visited : subscriptions[u] # {}}

\* One round of the loop; an error leaves the provider as it is.
Migrate(r) ==
    LET toSupabase == call[r].to = "supabase" IN
    /\ call[r].pc = "migrate"
    /\ \E u \in Unvisited(r) :
         \/ /\ call' = [call EXCEPT ![r].visited = @ \cup {u}]
            /\ IF toSupabase THEN AdapterSubscribe(u, subscriptions[u])
                             ELSE UNCHANGED <<userSubs, channels, excused>>
         \/ /\ AdapterFails /\ toSupabase
            /\ Finish(r)
            /\ AdapterSubscribeThrows(u, subscriptions[u])
    /\ UNCHANGED <<config, running, current, connections, subscriptions>>

\* Mutant: the switch does not wait for the migration.
SwitchedEarly(r) ==
    /\ call[r].pc = "migrate"
    /\ current' = call[r].to
    /\ call' = [s \in Calls |-> IF s = r THEN Idle
                             ELSE [call[s] EXCEPT !.met = TRUE]]
    /\ UNCHANGED <<config, running, connections, subscriptions, userSubs, channels,
                   excused>>

Switched(r) ==
    /\ call[r].pc = "migrate" /\ Unvisited(r) = {}
    /\ current' = call[r].to
    /\ call' = [s \in Calls |->
                  IF s = r THEN Idle
                  ELSE IF current' # current /\ call[s].op = "broadcast"
                         THEN [call[s] EXCEPT !.met = TRUE]
                  ELSE call[s]]
    /\ UNCHANGED <<config, running, connections, subscriptions, userSubs, channels,
                   excused>>

-----------------------------------------------------------------------------

Return(r) ==
    /\ call[r].pc = "ok" /\ Finish(r)
    /\ UNCHANGED <<config, running, current, connections, subscriptions, userSubs,
                   channels, excused>>

Step(r) ==
    \/ TrackConnection(r) \/ UntrackConnection(r)
    \/ Track(r) \/ RemoveChannel(r) \/ Untrack(r)
    \/ BroadcastToRoom(r)
    \/ HandleAdapterError(r) \/ AskFallback(r)
    \/ AskHealth(r) \/ Migrate(r) \/ Switched(r)

Next ==
    \/ Boot
    \/ \E r \in Calls :
         \/ Step(r) \/ Return(r)
         \/ \E u \in Users, c \in Connections : Connect(r, u, c)
         \/ \E c \in Connections : Disconnect(r, c)
         \/ \E u \in Users, T \in (SUBSET Tables) \ {{}} :
              Subscribe(r, u, T) \/ Unsubscribe(r, u, T)
         \/ \E t \in Tables : Broadcast(r, t)
         \/ \E p \in Providers : SwitchProvider(r, p)

Spec == Init /\ [][Next]_vars

-----------------------------------------------------------------------------
(* Properties *)

\* While the Supabase adapter is in use, it serves every tracked subscription
\* with a channel, after any sequence of switches, fallbacks and migrations.  Not
\* claimed is that for a subscription which an unsubscription in progress takes
\* away, nor, until it is unsubscribed, for one that `excused' names: its channel
\* was being removed, or could not be made, while it was subscribed, or it was
\* tracked after the provider changed or a migration had passed its user, or it
\* was unsubscribed before it was tracked
\* (SupabaseRealtimeAdapter.subscribe, unsubscribe; switchProvider).
Served ==
    \A u \in Users : \A t \in subscriptions[u] :
        \/ ~ViaSupabase \/ <<u, t>> \in excused
        \/ \E r \in Calls : /\ call[r].op = "unsubscribe" /\ call[r].user = u
                            /\ call[r].pc \in {"leave", "untrack"}
                            /\ t \in call[r].tables
        \/ Has(u, t) /\ t \in channels

\* A channel has a subscriber, or an unsubscription is about to look at it, or a
\* failure left it, of a subscription that `excused' names
\* (the loop of SupabaseRealtimeAdapter.unsubscribe).
NoChannelLeaks ==
    \A t \in channels :
        \/ \E u \in Users : Has(u, t) \/ <<u, t>> \in excused
        \/ \E r \in Calls : t \in call[r].todo \/ t = call[r].leaving

\* A broadcast that ended well and met neither an error nor a change of provider
\* was emitted to the room of its table exactly once
\* (UnifiedRealtimeService.broadcast; realtime-migration-guide.md:250).
EmittedOnce ==
    \A r \in Calls :
        call[r].op = "broadcast" /\ call[r].pc = "ok" =>
            call[r].sent = 1 \/ call[r].met

=============================================================================
