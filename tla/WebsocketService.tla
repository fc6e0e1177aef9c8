-------------------------- MODULE WebsocketService --------------------------
(***************************************************************************)
(* WebSocket sessions of the todo-master backend: WebsocketGateway,        *)
(* WebsocketService and the three families of Redis keys they share.       *)
(*                                                                         *)
(* Redis is Upstash over HTTP, so every `await this.redis...' is a call    *)
(* whose effect happens some time later, during which the handlers of      *)
(* other events run, those of the same socket included.  A handler's       *)
(* program counter names the command it has sent; one action applies that  *)
(* command and runs the handler up to its next await.                      *)
(***************************************************************************)
EXTENDS Naturals, Sequences, FiniteSets, Functions

CONSTANTS
    Users, Sockets, Tables,
    Slots,          \* messages of one socket that may be handled at once
    TableLists,     \* the `tables' a client may send, a set of sequences
    HasRedis,       \* UPSTASH_REDIS_URL and _TOKEN are configured
    Faults,         \* subset of FaultKinds
    MaxAttempts,    \* MAX_RECONNECT_ATTEMPTS
    NoUser

FaultKinds == {"redisError", "restart", "ttl", "tokenExpiry"}

ASSUME ConstantsAssumption ==
    /\ HasRedis \in BOOLEAN
    /\ Faults \subseteq FaultKinds
    /\ MaxAttempts \in Nat \ {0}
    /\ TableLists \subseteq Seq(Tables)
    /\ NoUser \notin Users

VARIABLES
    conn,           \* conn[s]: the transport, as Socket.IO sees it
    owner,          \* owner[s]: the user the handshake token names
    token,          \* token[s]: whether that token is still valid
    socketUserMap,  \* socketUserMap[s]: its entry, NoUser if none
    rooms,          \* rooms[s]: rooms of s other than its own
    attempts,       \* reconnectAttempts, 0 if there is no entry
    connecting,     \* connecting[s]: progress of handleConnection
    disconnecting,  \* disconnecting[s]: progress of handleDisconnect
    message,        \* message[s][k]: the message handled in slot k
    store,          \* Redis: the members of each key, {} if it does not exist
    ttl,            \* Redis: the keys that have a time to live
    told,           \* told[s]: the tables the client was told it receives
    overtaken       \* history: sockets closed while a handler was running

handlers == <<connecting, disconnecting, message>>
redis == <<store, ttl>>
history == <<told, overtaken>>
vars == <<conn, owner, token, socketUserMap, rooms, attempts, handlers, redis,
          history>>

SocketsKey(u) == <<"sockets", u>>
SessionKey(u) == <<"session", u>>
SubscriptionsKey(s) == <<"subscriptions", s>>
Keys == ({"sockets", "session"} \X Users) \cup ({"subscriptions"} \X Sockets)

Connecting == {"sadd", "expireSockets", "hset", "expireSession"}
Disconnecting == {"srem", "hdel", "del"}
Handling == {"sadd", "srem", "expire"}
Ended == {"none", "done", "failed"}

Message == [pc   : {"idle"} \cup Handling,
            todo : Seq(Tables),     \* the tables the loop has left
            all  : Seq(Tables)]     \* `tables' of the message
NoMessage == [pc |-> "idle", todo |-> <<>>, all |-> <<>>]

TypeOK ==
    /\ conn \in [Sockets -> {"new", "up", "down"}]
    /\ owner \in [Sockets -> Users \cup {NoUser}]
    /\ token \in [Sockets -> {"valid", "expired"}]
    /\ socketUserMap \in [Sockets -> Users \cup {NoUser}]
    /\ rooms \in [Sockets -> SUBSET ({"table", "user"} \X Tables)]
    /\ attempts \in [Sockets -> 0..MaxAttempts]
    /\ connecting \in [Sockets -> Connecting \cup Ended]
    /\ disconnecting \in [Sockets -> Disconnecting \cup Ended]
    /\ message \in [Sockets -> [Slots -> Message]]
    /\ store \in [Keys -> SUBSET (Sockets \cup Tables)]
    /\ ttl \subseteq Keys
    /\ told \in [Sockets -> SUBSET Tables]
    /\ overtaken \subseteq Sockets

Init ==
    /\ conn = [s \in Sockets |-> "new"]
    /\ owner = [s \in Sockets |-> NoUser]
    /\ token = [s \in Sockets |-> "valid"]
    /\ socketUserMap = [s \in Sockets |-> NoUser]
    /\ rooms = [s \in Sockets |-> {}]
    /\ attempts = [s \in Sockets |-> 0]
    /\ connecting = [s \in Sockets |-> "none"]
    /\ disconnecting = [s \in Sockets |-> "none"]
    /\ message = [s \in Sockets |-> [k \in Slots |-> NoMessage]]
    /\ store = [key \in Keys |-> {}]
    /\ ttl = {}
    /\ told = [s \in Sockets |-> {}]
    /\ overtaken = {}

-----------------------------------------------------------------------------
(* Redis commands.  A key whose last member goes is deleted, and its time to *)
(* live with it.                                                             *)

Put(key, x) ==      \* sadd, hset
    /\ store' = [store EXCEPT ![key] = @ \cup {x}]
    /\ UNCHANGED ttl

Take(key, x) ==     \* srem, hdel
    /\ store' = [store EXCEPT ![key] = @ \ {x}]
    /\ ttl' = IF store[key] \subseteq {x} THEN ttl \ {key} ELSE ttl

Delete(key) ==      \* del
    /\ store' = [store EXCEPT ![key] = {}]
    /\ ttl' = ttl \ {key}

Expire(key) ==      \* expire
    /\ ttl' = IF store[key] = {} THEN ttl ELSE ttl \cup {key}
    /\ UNCHANGED store

\* The call rejects: the command was not executed, or its answer was lost.
Rejects(command) == "redisError" \in Faults /\ (command \/ UNCHANGED redis)

-----------------------------------------------------------------------------
(* Handlers still running for a socket, and rooms *)

Running(s) == \/ connecting[s] \in Connecting
              \/ \E k \in Slots : message[s][k].pc # "idle"

\* Socket.IO turns join into a no-op once a socket is closed.
Joined(s, table) ==
    IF conn[s] = "up" THEN rooms[s] \cup ({"table", "user"} \X {table}) ELSE rooms[s]

Left(s, table) ==
    rooms[s] \ ({"table"} \cup (IF token[s] = "valid" THEN {"user"} ELSE {}))
               \X {table}

-----------------------------------------------------------------------------
(* Connection *)

\* handleConnection up to its first await, and for a missing or invalid token
\* or without Redis up to its end.
Connect(s, u) ==
    /\ conn[s] = "new"
    /\ owner' = [owner EXCEPT ![s] = u]
    /\ socketUserMap' = [socketUserMap EXCEPT ![s] = u]
    /\ IF u = NoUser
         THEN /\ conn' = [conn EXCEPT ![s] = "down"]
              /\ connecting' = [connecting EXCEPT ![s] = "failed"]
              /\ disconnecting' = [disconnecting EXCEPT ![s] = "done"]
         ELSE /\ conn' = [conn EXCEPT ![s] = "up"]
              /\ connecting' = [connecting EXCEPT ![s] =
                                  IF HasRedis THEN "sadd" ELSE "done"]
              /\ UNCHANGED disconnecting
    /\ UNCHANGED <<token, rooms, attempts, message, redis, history>>

\* What closing a connection does before handleDisconnect awaits anything.
\* Without Redis, or without an entry, the handler ends at once.
Close(s) ==
    /\ conn' = [conn EXCEPT ![s] = "down"]
    /\ rooms' = [rooms EXCEPT ![s] = {}]
    /\ socketUserMap' = [socketUserMap EXCEPT ![s] = NoUser]
    /\ told' = [told EXCEPT ![s] = {}]
    /\ IF HasRedis /\ socketUserMap[s] # NoUser
         THEN /\ disconnecting' = [disconnecting EXCEPT ![s] = "srem"]
              /\ UNCHANGED attempts
         ELSE /\ disconnecting' = [disconnecting EXCEPT ![s] = "done"]
              /\ attempts' = [attempts EXCEPT ![s] = 0]

\* The client closes, or its transport fails.
Disconnect(s) ==
    /\ conn[s] = "up"
    /\ Close(s)
    /\ overtaken' = IF Running(s) THEN overtaken \cup {s} ELSE overtaken
    /\ UNCHANGED <<owner, token, connecting, message, redis>>

\* Mutant: the time to live is set before the members are added.
ConnectionCommandExpiresFirst(s) ==
    CASE connecting[s] = "sadd"          -> Expire(SocketsKey(owner[s]))
      [] connecting[s] = "expireSockets" -> Put(SocketsKey(owner[s]), s)
      [] connecting[s] = "hset"          -> Expire(SessionKey(owner[s]))
      [] connecting[s] = "expireSession" -> Put(SessionKey(owner[s]), s)

ConnectionCommand(s) ==
    CASE connecting[s] = "sadd"          -> Put(SocketsKey(owner[s]), s)
      [] connecting[s] = "expireSockets" -> Expire(SocketsKey(owner[s]))
      [] connecting[s] = "hset"          -> Put(SessionKey(owner[s]), s)
      [] connecting[s] = "expireSession" -> Expire(SessionKey(owner[s]))

AfterConnection == [sadd |-> "expireSockets", expireSockets |-> "hset",
                    hset |-> "expireSession", expireSession |-> "done"]

\* saveConnection.  Its end lets the gateway forget the reconnect attempts.
SaveConnection(s) ==
    /\ connecting[s] \in Connecting
    /\ ConnectionCommand(s)
    /\ connecting' = [connecting EXCEPT ![s] = AfterConnection[@]]
    /\ attempts' = IF connecting[s] = "expireSession"
                     THEN [attempts EXCEPT ![s] = 0] ELSE attempts
    /\ UNCHANGED <<conn, owner, token, socketUserMap, rooms, disconnecting,
                   message, history>>

\* The gateway catches the failure and disconnects the client.
SaveConnectionFails(s) ==
    /\ connecting[s] \in Connecting
    /\ Rejects(ConnectionCommand(s))
    /\ connecting' = [connecting EXCEPT ![s] = "failed"]
    /\ IF conn[s] = "up"
         THEN /\ Close(s)
              /\ overtaken' = IF \E k \in Slots : message[s][k].pc # "idle"
                                THEN overtaken \cup {s} ELSE overtaken
         ELSE UNCHANGED <<conn, rooms, socketUserMap, disconnecting, attempts,
                          history>>
    /\ UNCHANGED <<owner, token, message>>

\* Mutant: the key of all sockets of the user is deleted.
DisconnectionCommandForAll(s) ==
    CASE disconnecting[s] = "srem" -> Delete(SocketsKey(owner[s]))
      [] disconnecting[s] = "hdel" -> Take(SessionKey(owner[s]), s)
      [] disconnecting[s] = "del"  -> Delete(SubscriptionsKey(s))

DisconnectionCommand(s) ==
    CASE disconnecting[s] = "srem" -> Take(SocketsKey(owner[s]), s)
      [] disconnecting[s] = "hdel" -> Take(SessionKey(owner[s]), s)
      [] disconnecting[s] = "del"  -> Delete(SubscriptionsKey(s))

\* Mutant: the subscriptions are not deleted.
AfterDisconnectionKeeps == [srem |-> "hdel", hdel |-> "done", del |-> "done"]

AfterDisconnection == [srem |-> "hdel", hdel |-> "del", del |-> "done"]

CleanUp(s) ==
    /\ disconnecting[s] \in Disconnecting
    /\ DisconnectionCommand(s)
    /\ disconnecting' = [disconnecting EXCEPT ![s] = AfterDisconnection[@]]
    /\ attempts' = IF disconnecting[s] = "del"
                     THEN [attempts EXCEPT ![s] = 0] ELSE attempts
    /\ UNCHANGED <<conn, owner, token, socketUserMap, rooms, connecting, message,
                   history>>

\* The gateway logs the failure: the rest of the clean-up does not happen.
CleanUpFails(s) ==
    /\ disconnecting[s] \in Disconnecting
    /\ Rejects(DisconnectionCommand(s))
    /\ disconnecting' = [disconnecting EXCEPT ![s] = "failed"]
    /\ UNCHANGED <<conn, owner, token, socketUserMap, rooms, attempts, connecting,
                   message, history>>

-----------------------------------------------------------------------------
(* Messages *)

SetMessage(s, k, m) == message' = [message EXCEPT ![s][k] = m]

\* The answers the client acts upon: `success' with the tables it sent.
Tell(s, tables) ==
    told' = IF conn[s] = "up" THEN [told EXCEPT ![s] = @ \cup Range(tables)] ELSE told
TellGone(s, tables) == told' = [told EXCEPT ![s] = @ \ Range(tables)]

\* The loop of subscribeToTables: join two rooms, then wait for Redis.
SubscribeNext(s, k, todo, all) ==
    /\ UNCHANGED told
    /\ IF todo = <<>>
         THEN /\ SetMessage(s, k, [pc |-> "expire", todo |-> <<>>, all |-> all])
              /\ UNCHANGED rooms
         ELSE /\ SetMessage(s, k, [pc |-> "sadd", todo |-> todo, all |-> all])
              /\ rooms' = [rooms EXCEPT ![s] = Joined(s, Head(todo))]

\* Mutant: the loop stops one table early.
UnsubscribeStopsEarly(s, k, todo, all) ==
    IF Len(todo) <= 1
      THEN SetMessage(s, k, NoMessage) /\ TellGone(s, all) /\ UNCHANGED rooms
      ELSE /\ SetMessage(s, k, [pc |-> "srem", todo |-> todo, all |-> all])
           /\ rooms' = [rooms EXCEPT ![s] = Left(s, Head(todo))]
           /\ UNCHANGED told

UnsubscribeNext(s, k, todo, all) ==
    IF todo = <<>>
      THEN SetMessage(s, k, NoMessage) /\ TellGone(s, all) /\ UNCHANGED rooms
      ELSE /\ SetMessage(s, k, [pc |-> "srem", todo |-> todo, all |-> all])
           /\ rooms' = [rooms EXCEPT ![s] = Left(s, Head(todo))]
           /\ UNCHANGED told

\* Without Redis the service returns at once and the gateway reports success.
Subscribe(s, k, tables) ==
    /\ conn[s] = "up" /\ socketUserMap[s] # NoUser
    /\ message[s][k] = NoMessage
    /\ IF HasRedis THEN SubscribeNext(s, k, tables, tables)
                   ELSE Tell(s, tables) /\ UNCHANGED <<message, rooms>>
    /\ UNCHANGED <<conn, owner, token, socketUserMap, attempts, connecting,
                   disconnecting, redis, overtaken>>

Unsubscribe(s, k, tables) ==
    /\ conn[s] = "up"
    /\ message[s][k] = NoMessage
    /\ IF HasRedis THEN UnsubscribeNext(s, k, tables, tables)
                   ELSE TellGone(s, tables) /\ UNCHANGED <<message, rooms>>
    /\ UNCHANGED <<conn, owner, token, socketUserMap, attempts, connecting,
                   disconnecting, redis, overtaken>>

MessageCommand(s, k) ==
    LET m == message[s][k] IN
    CASE m.pc = "sadd"   -> Put(SubscriptionsKey(s), Head(m.todo))
      [] m.pc = "srem"   -> Take(SubscriptionsKey(s), Head(m.todo))
      [] m.pc = "expire" -> Expire(SubscriptionsKey(s))

HandleMessage(s, k) ==
    LET m == message[s][k] IN
    /\ m.pc \in Handling
    /\ MessageCommand(s, k)
    /\ CASE m.pc = "sadd"   -> SubscribeNext(s, k, Tail(m.todo), m.all)
         [] m.pc = "srem"   -> UnsubscribeNext(s, k, Tail(m.todo), m.all)
         [] m.pc = "expire" -> /\ SetMessage(s, k, NoMessage)
                               /\ Tell(s, m.all)
                               /\ UNCHANGED rooms
    /\ UNCHANGED <<conn, owner, token, socketUserMap, attempts, connecting,
                   disconnecting, overtaken>>

\* The gateway answers with the error; rooms already joined or left stay so.
HandleMessageFails(s, k) ==
    /\ message[s][k].pc \in Handling
    /\ Rejects(MessageCommand(s, k))
    /\ SetMessage(s, k, NoMessage)
    /\ UNCHANGED <<conn, owner, token, socketUserMap, rooms, attempts, connecting,
                   disconnecting, history>>

\* Mutant: one attempt too many.
ReconnectOneMore(s) ==
    /\ conn[s] = "up"
    /\ IF attempts[s] > MaxAttempts
         THEN /\ Close(s)
              /\ overtaken' = IF Running(s) THEN overtaken \cup {s} ELSE overtaken
         ELSE /\ attempts' = [attempts EXCEPT ![s] = @ + 1]
              /\ UNCHANGED <<conn, rooms, socketUserMap, disconnecting, history>>
    /\ UNCHANGED <<owner, token, connecting, message, redis>>

Reconnect(s) ==
    /\ conn[s] = "up"
    /\ IF attempts[s] >= MaxAttempts
         THEN /\ Close(s)
              /\ overtaken' = IF Running(s) THEN overtaken \cup {s} ELSE overtaken
         ELSE /\ attempts' = [attempts EXCEPT ![s] = @ + 1]
              /\ UNCHANGED <<conn, rooms, socketUserMap, disconnecting, history>>
    /\ UNCHANGED <<owner, token, connecting, message, redis>>

-----------------------------------------------------------------------------
(* The environment *)

TokenExpires(s) ==
    /\ "tokenExpiry" \in Faults
    /\ conn[s] = "up" /\ token[s] = "valid"
    /\ token' = [token EXCEPT ![s] = "expired"]
    /\ UNCHANGED <<conn, owner, socketUserMap, rooms, attempts, handlers, redis,
                   history>>

\* SESSION_TTL has passed since the last `expire' of the key.
TtlPasses(key) ==
    /\ "ttl" \in Faults
    /\ key \in ttl
    /\ Delete(key)
    /\ UNCHANGED <<conn, owner, token, socketUserMap, rooms, attempts, handlers,
                   history>>

\* The process dies: no handler runs for its sockets, Redis keeps everything.
Restart ==
    LET up == {s \in Sockets : conn[s] = "up"} IN
    /\ "restart" \in Faults
    /\ up # {}
    /\ conn' = [s \in Sockets |-> IF s \in up THEN "down" ELSE conn[s]]
    /\ socketUserMap' = [s \in Sockets |-> NoUser]
    /\ rooms' = [s \in Sockets |-> {}]
    /\ attempts' = [s \in Sockets |-> 0]
    /\ connecting' = [s \in Sockets |->
          IF connecting[s] \in Connecting THEN "failed" ELSE connecting[s]]
    /\ disconnecting' = [s \in Sockets |->
          IF s \in up \/ disconnecting[s] \in Disconnecting
            THEN "failed" ELSE disconnecting[s]]
    /\ message' = [s \in Sockets |-> [k \in Slots |-> NoMessage]]
    /\ told' = [s \in Sockets |-> {}]
    /\ UNCHANGED <<owner, token, redis, overtaken>>

-----------------------------------------------------------------------------

ConnectionStep(s) == \/ SaveConnection(s) \/ SaveConnectionFails(s)
DisconnectionStep(s) == \/ CleanUp(s) \/ CleanUpFails(s)

\* Mutant: the last command of a subscription waits for the client to be there.
MessageStepWaits(s, k) ==
    /\ message[s][k].pc = "expire" => conn[s] = "up"
    /\ HandleMessage(s, k) \/ HandleMessageFails(s, k)

MessageStep(s, k) == \/ HandleMessage(s, k) \/ HandleMessageFails(s, k)

Next ==
    \/ \E s \in Sockets :
         \/ \E u \in Users \cup {NoUser} : Connect(s, u)
         \/ Disconnect(s)
         \/ ConnectionStep(s) \/ DisconnectionStep(s)
         \/ \E k \in Slots :
              \/ \E tables \in TableLists :
                   Subscribe(s, k, tables) \/ Unsubscribe(s, k, tables)
              \/ MessageStep(s, k)
         \/ Reconnect(s)
         \/ TokenExpires(s)
    \/ \E key \in Keys : TtlPasses(key)
    \/ Restart

Spec == Init /\ [][Next]_vars

\* Every call to Redis settles, and a time to live that is not renewed ends.
Fairness ==
    /\ \A s \in Sockets :
         /\ WF_vars(ConnectionStep(s))
         /\ WF_vars(DisconnectionStep(s))
         /\ \A k \in Slots : WF_vars(MessageStep(s, k))
    /\ \A key \in Keys : WF_vars(TtlPasses(key))

LiveSpec == Spec /\ Fairness

-----------------------------------------------------------------------------
(* Properties *)

Idle(s) == ~Running(s)
TableRooms(s) == {t \in Tables : <<"table", t>> \in rooms[s]}
Mentioned(s) ==
    \/ \E u \in Users : s \in store[SocketsKey(u)] \cup store[SessionKey(u)]
    \/ store[SubscriptionsKey(s)] # {}

\* With calls to Redis that succeed, a key without a time to live exists only
\* while a handler is on its way to its `expire': whatever a race leaves
\* behind is bound to expire (saveConnection, subscribeToTables).
TracesExpire ==
    \A key \in Keys \ ttl : store[key] # {} =>
        \/ \E s \in Sockets :
             \/ key = SocketsKey(owner[s]) /\ connecting[s] = "expireSockets"
             \/ key = SessionKey(owner[s]) /\ connecting[s] = "expireSession"
        \/ \E s \in Sockets, k \in Slots :
             key = SubscriptionsKey(s) /\ message[s][k].pc \in {"sadd", "expire"}

\* For a client that waits for each answer, the tables it was told and the
\* rooms of its socket are the same; Redis records no other subscription, and
\* misses one only after a time to live has passed.
ViewsAgree ==
    \A s \in Sockets : conn[s] = "up" /\ Idle(s) =>
        /\ TableRooms(s) = told[s]
        /\ store[SubscriptionsKey(s)] \subseteq told[s]

\* A disconnection that overtakes no handler of its socket leaves nothing of
\* it in Redis.
CleanAfterDisconnect ==
    \A s \in Sockets : disconnecting[s] = "done" /\ s \notin overtaken =>
        ~Mentioned(s)

\* Until a time to live passes, every socket whose connection completed is
\* found under its user, whatever other sockets of the user do or fail to do.
ConnectedIsRegistered ==
    \A s \in Sockets : conn[s] = "up" /\ connecting[s] = "done" =>
        /\ s \in store[SocketsKey(owner[s])]
        /\ s \in store[SessionKey(owner[s])]

\* Redis forgets every closed socket in the end, also those whose clean-up was
\* overtaken by another handler.
ForgottenInTheEnd ==
    \A s \in Sockets : conn[s] = "down" ~> ~Mentioned(s)

=============================================================================
