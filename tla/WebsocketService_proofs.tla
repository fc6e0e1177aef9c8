----------------------- MODULE WebsocketService_proofs -----------------------
(***************************************************************************)
(* Proofs about WebsocketService, for any users, sockets, tables and       *)
(* messages, any number of messages at once unless a theorem says          *)
(* otherwise, and the faults that each theorem names.                      *)
(*                                                                         *)
(* Base holds whatever happens.  Upon it stand four invariants, one per    *)
(* property: each says what a handler between two of its commands still    *)
(* owes to Redis or to the rooms of its socket.                            *)
(***************************************************************************)
EXTENDS WebsocketService, TLAPS

\* What a socket can be, at each stage of its connection.
LocalsOf(s) ==
    /\ conn[s] = "new" =>
          /\ connecting[s] = "none" /\ disconnecting[s] = "none"
          /\ rooms[s] = {} /\ told[s] = {}
          /\ \A k \in Slots : message[s][k].pc = "idle"
    /\ conn[s] = "up" => /\ owner[s] \in Users /\ socketUserMap[s] = owner[s]
                         /\ disconnecting[s] = "none"
    /\ connecting[s] \in Connecting => HasRedis /\ owner[s] \in Users
    /\ disconnecting[s] \in Disconnecting => HasRedis /\ owner[s] \in Users
    /\ \A k \in Slots :
          /\ message[s][k].pc # "idle" => HasRedis
          /\ message[s][k].pc \in {"sadd", "srem"} => message[s][k].todo # <<>>

Base == TypeOK /\ \A s \in Sockets : LocalsOf(s)

\* A socket is registered under its user once the commands are done.
RegisteredOf(s) ==
    conn[s] = "up" =>
        /\ connecting[s] \in {"expireSockets", "hset", "expireSession", "done"} =>
              s \in store[SocketsKey(owner[s])]
        /\ connecting[s] \in {"expireSession", "done"} =>
              s \in store[SessionKey(owner[s])]

Registered == \A s \in Sockets : RegisteredOf(s)

\* What Redis holds of a socket before its connection, and as far as the
\* clean-up of a closed one has come.
TracesOf(s) ==
    /\ \A u \in Users : /\ s \in store[SocketsKey(u)] => u = owner[s]
                        /\ s \in store[SessionKey(u)] => u = owner[s]
    /\ conn[s] = "new" => ~Mentioned(s) /\ s \notin overtaken
    /\ ~HasRedis => ~Mentioned(s)
    /\ conn[s] = "down" /\ s \notin overtaken =>
          /\ ~Running(s)
          /\ disconnecting[s] \in {"hdel", "del"} =>
                \A u \in Users : s \notin store[SocketsKey(u)]
          /\ disconnecting[s] = "del" =>
                \A u \in Users : s \notin store[SessionKey(u)]
          /\ disconnecting[s] = "done" => ~Mentioned(s)

CleanedUp == \A s \in Sockets : TracesOf(s)

\* How far the loop over the tables of a message has come.
ProgressOf(s, m) ==
    LET subscribed == store[SubscriptionsKey(s)] IN
    /\ m.pc = "idle" => TableRooms(s) = told[s] /\ subscribed \subseteq told[s]
    /\ m.pc = "sadd" =>
          /\ told[s] \subseteq TableRooms(s) /\ Head(m.todo) \in TableRooms(s)
          /\ TableRooms(s) \cup Range(m.todo) = told[s] \cup Range(m.all)
          /\ subscribed \subseteq TableRooms(s)
    /\ m.pc = "expire" =>
          /\ TableRooms(s) = told[s] \cup Range(m.all)
          /\ subscribed \subseteq TableRooms(s)
    /\ m.pc = "srem" =>
          /\ TableRooms(s) \subseteq told[s] /\ Range(m.todo) \subseteq Range(m.all)
          /\ told[s] \ Range(m.all) \subseteq TableRooms(s)
          /\ TableRooms(s) \cap Range(m.all) \subseteq Range(m.todo)
          /\ Head(m.todo) \notin TableRooms(s)
          /\ subscribed \subseteq TableRooms(s) \cup {Head(m.todo)}

ViewsOf(s) ==
    /\ conn[s] = "up" => \A k \in Slots : ProgressOf(s, message[s][k])
    /\ conn[s] = "new" => store[SubscriptionsKey(s)] = {}

Views == \A s \in Sockets : ViewsOf(s)

-----------------------------------------------------------------------------
(* Keys, commands and messages *)

LEMMA KeysAreKeys ==
    /\ \A u \in Users : SocketsKey(u) \in Keys /\ SessionKey(u) \in Keys
    /\ \A s \in Sockets : SubscriptionsKey(s) \in Keys
BY DEF SocketsKey, SessionKey, SubscriptionsKey, Keys

LEMMA KeysDiffer ==
    /\ \A u, v : SocketsKey(u) # SessionKey(v)
    /\ \A u, s : SocketsKey(u) # SubscriptionsKey(s)
    /\ \A u, s : SessionKey(u) # SubscriptionsKey(s)
    /\ \A u, v : SocketsKey(u) = SocketsKey(v) => u = v
    /\ \A u, v : SessionKey(u) = SessionKey(v) => u = v
    /\ \A s, z : SubscriptionsKey(s) = SubscriptionsKey(z) => s = z
BY DEF SocketsKey, SessionKey, SubscriptionsKey

\* Each command touches one key.
RedisTyped == store \in [Keys -> SUBSET (Sockets \cup Tables)] /\ ttl \subseteq Keys

OnlyAt(key) ==
    \A other \in Keys \ {key} :
        store'[other] = store[other] /\ (other \in ttl' <=> other \in ttl)

LEMMA PutGives ==
    ASSUME NEW key \in Keys, NEW x \in Sockets \cup Tables, RedisTyped, Put(key, x)
    PROVE  RedisTyped' /\ OnlyAt(key) /\ store'[key] = store[key] \cup {x} /\ ttl' = ttl
BY DEF RedisTyped, Put, OnlyAt

LEMMA TakeGives ==
    ASSUME NEW key \in Keys, NEW x, RedisTyped, Take(key, x)
    PROVE  /\ RedisTyped' /\ OnlyAt(key) /\ store'[key] = store[key] \ {x}
           /\ store'[key] # {} => (key \in ttl' <=> key \in ttl)
BY DEF RedisTyped, Take, OnlyAt

LEMMA DeleteGives ==
    ASSUME NEW key \in Keys, RedisTyped, Delete(key)
    PROVE  RedisTyped' /\ OnlyAt(key) /\ store'[key] = {}
BY DEF RedisTyped, Delete, OnlyAt

LEMMA ExpireGives ==
    ASSUME NEW key \in Keys, RedisTyped, Expire(key)
    PROVE  /\ RedisTyped' /\ OnlyAt(key) /\ store' = store
           /\ store[key] # {} => key \in ttl'
BY DEF RedisTyped, Expire, OnlyAt

LEMMA StandingRedis ==
    UNCHANGED redis => /\ UNCHANGED <<store, ttl>>
                       /\ RedisTyped => RedisTyped'
                       /\ \A key : OnlyAt(key)
BY DEF redis, RedisTyped, OnlyAt

\* A message of one slot changes.
LEMMA OneMessage ==
    ASSUME NEW s \in Sockets, NEW k \in Slots, NEW m \in Message,
           message \in [Sockets -> [Slots -> Message]], SetMessage(s, k, m)
    PROVE  /\ message' \in [Sockets -> [Slots -> Message]]
           /\ message'[s][k] = m
           /\ \A j \in Slots \ {k} : message'[s][j] = message[s][j]
           /\ \A z \in Sockets \ {s} : message'[z] = message[z]
BY DEF SetMessage

LEMMA NoMessageTyped == NoMessage \in Message /\ NoMessage.pc = "idle"
BY DEF NoMessage, Message

LEMMA RangeIs ==
    ASSUME NEW todo \in Seq(Tables)
    PROVE  Range(todo) = {todo[i] : i \in 1..Len(todo)}
BY DEF Range

\* The members of a list: its head and those of its tail.
LEMMA RangeOfList ==
    ASSUME NEW todo \in Seq(Tables)
    PROVE  /\ Range(todo) \subseteq Tables
           /\ todo = <<>> => Range(todo) = {}
           /\ todo # <<>> => /\ Head(todo) \in Tables /\ Tail(todo) \in Seq(Tables)
                             /\ Range(todo) = {Head(todo)} \cup Range(Tail(todo))
<1>1. Range(todo) = {todo[i] : i \in 1..Len(todo)}
    BY RangeIs
<1>2. Range(todo) \subseteq Tables
    BY <1>1
<1>3. todo = <<>> => Range(todo) = {}
    BY <1>1
<1>4. ASSUME todo # <<>>
      PROVE  /\ Head(todo) \in Tables /\ Tail(todo) \in Seq(Tables)
             /\ Range(todo) = {Head(todo)} \cup Range(Tail(todo))
  <2>1. /\ Len(todo) \in Nat \ {0} /\ Head(todo) = todo[1] /\ Head(todo) \in Tables
        /\ Tail(todo) \in Seq(Tables) /\ Len(Tail(todo)) = Len(todo) - 1
        /\ \A i \in 1..(Len(todo) - 1) : Tail(todo)[i] = todo[i + 1]
      BY <1>4
  <2>2. Range(Tail(todo)) = {Tail(todo)[i] : i \in 1..(Len(todo) - 1)}
    <3>1. Range(Tail(todo)) = {Tail(todo)[i] : i \in 1..Len(Tail(todo))}
        BY <2>1, RangeIs
    <3> QED BY <2>1, <3>1
  <2>3. ASSUME NEW t \in Range(todo) PROVE t \in {Head(todo)} \cup Range(Tail(todo))
    <3>1. PICK i \in 1..Len(todo) : t = todo[i]
        BY <1>1
    <3>2. CASE i = 1
        BY <2>1, <3>1, <3>2
    <3>3. CASE i # 1
      <4>1. i - 1 \in 1..(Len(todo) - 1) /\ Tail(todo)[i - 1] = todo[i]
          BY <2>1, <3>1, <3>3
      <4> QED BY <2>2, <3>1, <4>1
    <3> QED BY <3>2, <3>3
  <2>4. ASSUME NEW t \in Range(Tail(todo)) PROVE t \in Range(todo)
    <3>1. PICK i \in 1..(Len(todo) - 1) : t = todo[i + 1]
        BY <2>1, <2>2
    <3>2. i + 1 \in 1..Len(todo)
        BY <2>1
    <3> QED BY <1>1, <3>1, <3>2
  <2>5. Head(todo) \in Range(todo)
    <3>1. 1 \in 1..Len(todo)
        BY <2>1
    <3> QED BY <1>1, <2>1, <3>1
  <2> QED BY <2>1, <2>3, <2>4, <2>5
<1> QED BY <1>2, <1>3, <1>4

\* What the loops do to the rooms of tables.
LEMMA JoinedRooms ==
    ASSUME NEW s \in Sockets, NEW t \in Tables, conn[s] = "up",
           rooms \in [Sockets -> SUBSET ({"table", "user"} \X Tables)],
           rooms' = [rooms EXCEPT ![s] = Joined(s, t)]
    PROVE  TableRooms(s)' = TableRooms(s) \cup {t}
BY DEF Joined, TableRooms

LEMMA LeftRooms ==
    ASSUME NEW s \in Sockets, NEW t \in Tables,
           rooms \in [Sockets -> SUBSET ({"table", "user"} \X Tables)],
           rooms' = [rooms EXCEPT ![s] = Left(s, t)]
    PROVE  TableRooms(s)' = TableRooms(s) \ {t}
BY DEF Left, TableRooms

-----------------------------------------------------------------------------
(* What the commands of the handlers do to Redis *)

LEMMA ConnectionCommandGives ==
    ASSUME NEW s \in Sockets, Base, connecting[s] \in Connecting, ConnectionCommand(s)
    PROVE  /\ RedisTyped'
           /\ connecting[s] = "sadd" =>
                 /\ OnlyAt(SocketsKey(owner[s])) /\ ttl' = ttl
                 /\ store'[SocketsKey(owner[s])] = store[SocketsKey(owner[s])] \cup {s}
           /\ connecting[s] = "expireSockets" =>
                 /\ OnlyAt(SocketsKey(owner[s])) /\ store' = store
                 /\ store[SocketsKey(owner[s])] # {} => SocketsKey(owner[s]) \in ttl'
           /\ connecting[s] = "hset" =>
                 /\ OnlyAt(SessionKey(owner[s])) /\ ttl' = ttl
                 /\ store'[SessionKey(owner[s])] = store[SessionKey(owner[s])] \cup {s}
           /\ connecting[s] = "expireSession" =>
                 /\ OnlyAt(SessionKey(owner[s])) /\ store' = store
                 /\ store[SessionKey(owner[s])] # {} => SessionKey(owner[s]) \in ttl'
<1>1. /\ SocketsKey(owner[s]) \in Keys /\ SessionKey(owner[s]) \in Keys /\ RedisTyped
    BY KeysAreKeys DEF Base, LocalsOf, TypeOK, RedisTyped
<1>2. CASE connecting[s] = "sadd"
  <2>1. Put(SocketsKey(owner[s]), s)
      BY <1>2 DEF ConnectionCommand
  <2> QED BY <1>1, <1>2, <2>1, PutGives
<1>3. CASE connecting[s] = "expireSockets"
  <2>1. Expire(SocketsKey(owner[s]))
      BY <1>3 DEF ConnectionCommand
  <2> QED BY <1>1, <1>3, <2>1, ExpireGives
<1>4. CASE connecting[s] = "hset"
  <2>1. Put(SessionKey(owner[s]), s)
      BY <1>4 DEF ConnectionCommand
  <2> QED BY <1>1, <1>4, <2>1, PutGives
<1>5. CASE connecting[s] = "expireSession"
  <2>1. Expire(SessionKey(owner[s]))
      BY <1>5 DEF ConnectionCommand
  <2> QED BY <1>1, <1>5, <2>1, ExpireGives
<1> QED BY <1>2, <1>3, <1>4, <1>5 DEF Connecting

\* Nothing of a command for cleaning up stays if its key is emptied.
Shrinks(key) == store'[key] # {} => store[key] # {} /\ (key \in ttl' <=> key \in ttl)

LEMMA DisconnectionCommandGives ==
    ASSUME NEW s \in Sockets, Base, disconnecting[s] \in Disconnecting,
           DisconnectionCommand(s)
    PROVE  /\ RedisTyped'
           /\ disconnecting[s] = "srem" =>
                 /\ OnlyAt(SocketsKey(owner[s])) /\ Shrinks(SocketsKey(owner[s]))
                 /\ store'[SocketsKey(owner[s])] = store[SocketsKey(owner[s])] \ {s}
           /\ disconnecting[s] = "hdel" =>
                 /\ OnlyAt(SessionKey(owner[s])) /\ Shrinks(SessionKey(owner[s]))
                 /\ store'[SessionKey(owner[s])] = store[SessionKey(owner[s])] \ {s}
           /\ disconnecting[s] = "del" =>
                 /\ OnlyAt(SubscriptionsKey(s)) /\ Shrinks(SubscriptionsKey(s))
                 /\ store'[SubscriptionsKey(s)] = {}
<1>1. /\ SocketsKey(owner[s]) \in Keys /\ SessionKey(owner[s]) \in Keys
      /\ SubscriptionsKey(s) \in Keys /\ RedisTyped
    BY KeysAreKeys DEF Base, LocalsOf, TypeOK, RedisTyped
<1>2. CASE disconnecting[s] = "srem"
  <2>1. Take(SocketsKey(owner[s]), s)
      BY <1>2 DEF DisconnectionCommand
  <2> QED BY <1>1, <1>2, <2>1, TakeGives DEF Shrinks
<1>3. CASE disconnecting[s] = "hdel"
  <2>1. Take(SessionKey(owner[s]), s)
      BY <1>3 DEF DisconnectionCommand
  <2> QED BY <1>1, <1>3, <2>1, TakeGives DEF Shrinks
<1>4. CASE disconnecting[s] = "del"
  <2>1. Delete(SubscriptionsKey(s))
      BY <1>4 DEF DisconnectionCommand
  <2> QED BY <1>1, <1>4, <2>1, DeleteGives DEF Shrinks
<1> QED BY <1>2, <1>3, <1>4 DEF Disconnecting

LEMMA MessageCommandGives ==
    ASSUME NEW s \in Sockets, NEW k \in Slots, Base, message[s][k].pc \in Handling,
           MessageCommand(s, k)
    PROVE  /\ RedisTyped' /\ OnlyAt(SubscriptionsKey(s))
           /\ message[s][k].pc = "sadd" =>
                 store'[SubscriptionsKey(s)] =
                    store[SubscriptionsKey(s)] \cup {Head(message[s][k].todo)}
           /\ message[s][k].pc = "srem" =>
                 /\ store'[SubscriptionsKey(s)] =
                       store[SubscriptionsKey(s)] \ {Head(message[s][k].todo)}
                 /\ Shrinks(SubscriptionsKey(s))
           /\ message[s][k].pc = "expire" =>
                 /\ store' = store
                 /\ store[SubscriptionsKey(s)] # {} => SubscriptionsKey(s) \in ttl'
<1>1. SubscriptionsKey(s) \in Keys /\ RedisTyped
    BY KeysAreKeys DEF Base, TypeOK, RedisTyped
<1>2. CASE message[s][k].pc = "sadd"
  <2>1. Put(SubscriptionsKey(s), Head(message[s][k].todo))
      BY <1>2 DEF MessageCommand
  <2>2. message[s][k].todo \in Seq(Tables) /\ message[s][k].todo # <<>>
      BY <1>2 DEF Base, LocalsOf, TypeOK, Message
  <2>3. Head(message[s][k].todo) \in Sockets \cup Tables
      BY <2>2, RangeOfList
  <2> QED BY <1>1, <1>2, <2>1, <2>3, PutGives
<1>3. CASE message[s][k].pc = "srem"
  <2>1. Take(SubscriptionsKey(s), Head(message[s][k].todo))
      BY <1>3 DEF MessageCommand
  <2> QED BY <1>1, <1>3, <2>1, TakeGives DEF Shrinks
<1>4. CASE message[s][k].pc = "expire"
  <2>1. Expire(SubscriptionsKey(s))
      BY <1>4 DEF MessageCommand
  <2> QED BY <1>1, <1>4, <2>1, ExpireGives
<1> QED BY <1>2, <1>3, <1>4 DEF Handling

-----------------------------------------------------------------------------
(* Base: every action on a socket leaves the others alone *)

Kept(z) ==
    /\ conn'[z] = conn[z] /\ owner'[z] = owner[z] /\ token'[z] = token[z]
    /\ socketUserMap'[z] = socketUserMap[z] /\ rooms'[z] = rooms[z]
    /\ connecting'[z] = connecting[z] /\ disconnecting'[z] = disconnecting[z]
    /\ message'[z] = message[z] /\ told'[z] = told[z]
    /\ z \in overtaken' <=> z \in overtaken

Others(s) == \A z \in Sockets \ {s} : Kept(z)

LEMMA OthersKeepBase ==
    ASSUME NEW s \in Sockets, Base, TypeOK', Others(s), LocalsOf(s)'
    PROVE  Base'
<1>1. ASSUME NEW z \in Sockets \ {s} PROVE LocalsOf(z)'
  <2>1. LocalsOf(z) /\ Kept(z)
      BY DEF Base, Others
  <2> QED BY <2>1 DEF LocalsOf, Kept
<1> QED BY <1>1 DEF Base

LEMMA InitBase == Init => Base
<1> SUFFICES ASSUME Init PROVE Base
    OBVIOUS
<1> USE DEF Init
<1>1. TypeOK
  <2>1. attempts \in [Sockets -> 0..MaxAttempts]
      BY ConstantsAssumption
  <2>2. message \in [Sockets -> [Slots -> Message]]
      BY NoMessageTyped
  <2> QED BY <2>1, <2>2 DEF TypeOK, Ended
<1>2. ASSUME NEW s \in Sockets PROVE LocalsOf(s)
    BY ConstantsAssumption, NoMessageTyped DEF LocalsOf, Connecting, Disconnecting
<1> QED BY <1>1, <1>2 DEF Base

LEMMA ConnectGives ==
    ASSUME NEW s \in Sockets, NEW u \in Users \cup {NoUser}, Base, Connect(s, u)
    PROVE  /\ Base' /\ Others(s)
           /\ conn[s] = "new" /\ owner'[s] = u
           /\ u = NoUser => /\ conn'[s] = "down" /\ connecting'[s] = "failed"
                            /\ disconnecting'[s] = "done"
           /\ u # NoUser =>
                 /\ conn'[s] = "up" /\ disconnecting'[s] = "none"
                 /\ connecting'[s] = IF HasRedis THEN "sadd" ELSE "done"
           /\ UNCHANGED <<rooms, message, store, ttl, told, overtaken>>
<1>1. /\ conn[s] = "new" /\ LocalsOf(s) /\ TypeOK
      /\ disconnecting[s] = "none"
    BY DEF Base, Connect, LocalsOf
<1>2. /\ UNCHANGED <<token, rooms, attempts, message, store, ttl, told, overtaken>>
      /\ owner' = [owner EXCEPT ![s] = u]
      /\ socketUserMap' = [socketUserMap EXCEPT ![s] = u]
    BY DEF Connect, redis, history
<1>3. CASE u = NoUser
  <2>1. /\ conn' = [conn EXCEPT ![s] = "down"]
        /\ connecting' = [connecting EXCEPT ![s] = "failed"]
        /\ disconnecting' = [disconnecting EXCEPT ![s] = "done"]
      BY <1>3 DEF Connect
  <2>2. TypeOK'
      BY <1>1, <1>2, <2>1 DEF TypeOK, Ended
  <2>3. /\ conn'[s] = "down" /\ connecting'[s] = "failed" /\ disconnecting'[s] = "done"
        /\ owner'[s] = u /\ Others(s)
      BY <1>1, <1>2, <2>1 DEF TypeOK, Others, Kept
  <2>4. LocalsOf(s)'
      BY <1>1, <1>2, <2>3 DEF LocalsOf, Connecting, Disconnecting
  <2> QED BY <1>1, <1>2, <1>3, <2>2, <2>3, <2>4, OthersKeepBase
<1>4. CASE u # NoUser
  <2>1. /\ conn' = [conn EXCEPT ![s] = "up"]
        /\ connecting' = [connecting EXCEPT ![s] = IF HasRedis THEN "sadd" ELSE "done"]
        /\ disconnecting' = disconnecting
      BY <1>4 DEF Connect
  <2>2. TypeOK'
      BY <1>1, <1>2, <2>1 DEF TypeOK, Ended, Connecting
  <2>3. /\ conn'[s] = "up" /\ owner'[s] = u /\ Others(s)
        /\ connecting'[s] = IF HasRedis THEN "sadd" ELSE "done"
        /\ disconnecting'[s] = "none" /\ socketUserMap'[s] = u
      BY <1>1, <1>2, <2>1 DEF TypeOK, Others, Kept
  <2>4. LocalsOf(s)'
      BY <1>1, <1>2, <1>4, <2>3 DEF LocalsOf, Connecting, Disconnecting
  <2> QED BY <1>1, <1>2, <1>4, <2>2, <2>3, <2>4, OthersKeepBase
<1> QED BY <1>3, <1>4

\* Closing the connection of one socket.
LEMMA CloseGives ==
    ASSUME NEW s \in Sockets, Base, conn[s] = "up", Close(s)
    PROVE  /\ conn' \in [Sockets -> {"new", "up", "down"}]
           /\ rooms' \in [Sockets -> SUBSET ({"table", "user"} \X Tables)]
           /\ socketUserMap' \in [Sockets -> Users \cup {NoUser}]
           /\ told' \in [Sockets -> SUBSET Tables]
           /\ disconnecting' \in [Sockets -> Disconnecting \cup Ended]
           /\ attempts' \in [Sockets -> 0..MaxAttempts]
           /\ conn'[s] = "down"
           /\ disconnecting'[s] = IF HasRedis THEN "srem" ELSE "done"
           /\ \A z \in Sockets \ {s} :
                 /\ conn'[z] = conn[z] /\ rooms'[z] = rooms[z]
                 /\ socketUserMap'[z] = socketUserMap[z] /\ told'[z] = told[z]
                 /\ disconnecting'[z] = disconnecting[z]
<1>1. /\ TypeOK /\ socketUserMap[s] # NoUser
    BY ConstantsAssumption DEF Base, LocalsOf
<1>2. /\ conn' = [conn EXCEPT ![s] = "down"]
      /\ rooms' = [rooms EXCEPT ![s] = {}]
      /\ socketUserMap' = [socketUserMap EXCEPT ![s] = NoUser]
      /\ told' = [told EXCEPT ![s] = {}]
    BY DEF Close
<1>3. disconnecting' = [disconnecting EXCEPT ![s] = IF HasRedis THEN "srem" ELSE "done"]
    BY <1>1 DEF Close
<1>4. attempts' \in [Sockets -> 0..MaxAttempts]
  <2>1. 0 \in 0..MaxAttempts
      BY ConstantsAssumption
  <2>2. attempts' = attempts \/ attempts' = [attempts EXCEPT ![s] = 0]
      BY DEF Close
  <2> QED BY <1>1, <2>1, <2>2 DEF TypeOK
<1> QED BY <1>1, <1>2, <1>3, <1>4 DEF TypeOK, Disconnecting, Ended

\* A client that goes, or that has asked to reconnect too often.
Goes(s) == /\ conn[s] = "up" /\ Close(s)
           /\ overtaken' = IF Running(s) THEN overtaken \cup {s} ELSE overtaken
           /\ UNCHANGED <<owner, token, connecting, message, store, ttl>>

LEMMA GoesGives ==
    ASSUME NEW s \in Sockets, Base, Goes(s)
    PROVE  /\ Base' /\ Others(s) /\ conn[s] = "up" /\ conn'[s] = "down"
           /\ disconnecting'[s] = IF HasRedis THEN "srem" ELSE "done"
           /\ Running(s) => s \in overtaken'
           /\ s \in overtaken => s \in overtaken'
           /\ UNCHANGED <<owner, connecting, message, store, ttl>>
<1>1. /\ conn'[s] = "down" /\ disconnecting'[s] = IF HasRedis THEN "srem" ELSE "done"
      /\ owner[s] \in Users
    BY CloseGives DEF Goes, Base, LocalsOf
<1>2. TypeOK'
    BY CloseGives DEF Goes, Base, TypeOK
<1>3. Others(s)
    BY CloseGives DEF Goes, Others, Kept
<1>4. LocalsOf(s)'
    BY <1>1 DEF Goes, Base, LocalsOf, Disconnecting
<1>5. (Running(s) => s \in overtaken') /\ (s \in overtaken => s \in overtaken')
    BY DEF Goes
<1> QED BY <1>1, <1>2, <1>3, <1>4, <1>5, OthersKeepBase DEF Goes

LEMMA DisconnectGoes ==
    ASSUME NEW s \in Sockets, Disconnect(s)
    PROVE  Goes(s)
BY DEF Disconnect, Goes, redis

LEMMA ReconnectGives ==
    ASSUME NEW s \in Sockets, Base, Reconnect(s)
    PROVE  \/ Goes(s)
           \/ /\ Base' /\ UNCHANGED <<conn, owner, rooms, connecting, disconnecting,
                                      message, store, ttl, told, overtaken>>
<1>1. CASE attempts[s] >= MaxAttempts
    BY <1>1 DEF Reconnect, Goes, redis
<1>2. CASE ~(attempts[s] >= MaxAttempts)
  <2>1. /\ attempts' = [attempts EXCEPT ![s] = attempts[s] + 1]
        /\ UNCHANGED <<conn, owner, token, socketUserMap, rooms, connecting,
                       disconnecting, message, store, ttl, told, overtaken>>
      BY <1>2 DEF Reconnect, redis, history
  <2>2. attempts[s] + 1 \in 0..MaxAttempts
      BY <1>2, ConstantsAssumption DEF Base, TypeOK
  <2>3. TypeOK'
      BY <2>1, <2>2 DEF Base, TypeOK
  <2>4. Base'
      BY <2>1, <2>3 DEF Base, LocalsOf
  <2> QED BY <2>1, <2>4
<1> QED BY <1>1, <1>2

LEMMA TokenExpiresGives ==
    ASSUME NEW s \in Sockets, Base, TokenExpires(s)
    PROVE  Base' /\ UNCHANGED <<conn, owner, rooms, connecting, disconnecting,
                                message, store, ttl, told, overtaken>>
<1>1. /\ token' = [token EXCEPT ![s] = "expired"]
      /\ UNCHANGED <<conn, owner, socketUserMap, rooms, attempts, connecting,
                     disconnecting, message, store, ttl, told, overtaken>>
    BY DEF TokenExpires, handlers, redis, history
<1>2. TypeOK'
    BY <1>1 DEF Base, TypeOK
<1>3. Base'
    BY <1>1, <1>2 DEF Base, LocalsOf
<1> QED BY <1>1, <1>3

LEMMA SaveConnectionGives ==
    ASSUME NEW s \in Sockets, Base, SaveConnection(s)
    PROVE  /\ Base' /\ Others(s) /\ connecting[s] \in Connecting
           /\ ConnectionCommand(s) /\ connecting'[s] = AfterConnection[connecting[s]]
           /\ UNCHANGED <<conn, owner, rooms, disconnecting, message, told, overtaken>>
<1>1. /\ connecting[s] \in Connecting /\ ConnectionCommand(s)
      /\ connecting' = [connecting EXCEPT ![s] = AfterConnection[connecting[s]]]
      /\ UNCHANGED <<conn, owner, token, socketUserMap, rooms, disconnecting, message,
                     told, overtaken>>
    BY DEF SaveConnection, history
<1>2. AfterConnection[connecting[s]] \in Connecting \cup {"done"}
    BY <1>1 DEF AfterConnection, Connecting
<1>3. attempts' \in [Sockets -> 0..MaxAttempts]
  <2>1. 0 \in 0..MaxAttempts
      BY ConstantsAssumption
  <2>2. attempts' = attempts \/ attempts' = [attempts EXCEPT ![s] = 0]
      BY DEF SaveConnection
  <2> QED BY <2>1, <2>2 DEF Base, TypeOK
<1>4. RedisTyped'
    BY <1>1, ConnectionCommandGives
<1>5. TypeOK'
    BY <1>1, <1>2, <1>3, <1>4 DEF Base, TypeOK, RedisTyped, Ended
<1>6. Others(s) /\ connecting'[s] = AfterConnection[connecting[s]]
    BY <1>1 DEF Base, TypeOK, Others, Kept
<1>7. LocalsOf(s)'
  <2>1. LocalsOf(s) /\ HasRedis /\ owner[s] \in Users /\ conn[s] # "new"
      BY <1>1 DEF Base, LocalsOf, Connecting
  <2> QED BY <1>1, <1>6, <2>1 DEF LocalsOf
<1> QED BY <1>1, <1>5, <1>6, <1>7, OthersKeepBase

LEMMA SaveConnectionFailsGives ==
    ASSUME NEW s \in Sockets, Base, SaveConnectionFails(s)
    PROVE  /\ Base' /\ Others(s) /\ connecting[s] \in Connecting
           /\ "redisError" \in Faults /\ connecting'[s] = "failed"
           /\ ConnectionCommand(s) \/ UNCHANGED <<store, ttl>>
           /\ UNCHANGED <<owner, message>>
           /\ \/ /\ conn[s] = "up" /\ conn'[s] = "down" /\ disconnecting'[s] = "srem"
                 /\ s \in overtaken => s \in overtaken'
                 /\ \A k \in Slots : message[s][k].pc # "idle" => s \in overtaken'
              \/ /\ conn[s] # "up"
                 /\ UNCHANGED <<conn, rooms, disconnecting, told, overtaken>>
<1>1. /\ connecting[s] \in Connecting /\ "redisError" \in Faults
      /\ ConnectionCommand(s) \/ UNCHANGED <<store, ttl>>
      /\ connecting' = [connecting EXCEPT ![s] = "failed"]
      /\ UNCHANGED <<owner, token, message>>
    BY DEF SaveConnectionFails, Rejects, redis
<1>2. RedisTyped'
    BY <1>1, ConnectionCommandGives DEF RedisTyped, Base, TypeOK
<1>3. /\ connecting' \in [Sockets -> Connecting \cup Ended] /\ connecting'[s] = "failed"
      /\ \A z \in Sockets \ {s} : connecting'[z] = connecting[z]
    BY <1>1 DEF Base, TypeOK, Ended
<1>4. LocalsOf(s) /\ HasRedis /\ owner[s] \in Users /\ conn[s] # "new"
    BY <1>1 DEF Base, LocalsOf, Connecting
<1>5. CASE conn[s] = "up"
  <2>1. /\ Close(s)
        /\ overtaken' = IF \E k \in Slots : message[s][k].pc # "idle"
                          THEN overtaken \cup {s} ELSE overtaken
      BY <1>5 DEF SaveConnectionFails
  <2>2. /\ conn'[s] = "down" /\ disconnecting'[s] = "srem"
      BY <1>4, <1>5, <2>1, CloseGives
  <2>3. TypeOK'
      BY <1>1, <1>2, <1>3, <1>5, <2>1, CloseGives DEF Base, TypeOK, RedisTyped
  <2>4. Others(s)
      BY <1>1, <1>3, <1>5, <2>1, CloseGives DEF Others, Kept
  <2>5. LocalsOf(s)'
      BY <1>1, <1>3, <1>4, <2>2 DEF LocalsOf, Connecting
  <2> QED BY <1>1, <1>3, <1>5, <2>1, <2>2, <2>3, <2>4, <2>5, OthersKeepBase
<1>6. CASE conn[s] # "up"
  <2>1. UNCHANGED <<conn, rooms, socketUserMap, disconnecting, attempts, told, overtaken>>
      BY <1>6 DEF SaveConnectionFails, history
  <2>2. TypeOK'
      BY <1>1, <1>2, <1>3, <2>1 DEF Base, TypeOK, RedisTyped
  <2>3. Others(s)
      BY <1>1, <1>3, <2>1 DEF Others, Kept
  <2>4. LocalsOf(s)'
      BY <1>1, <1>3, <1>4, <2>1 DEF LocalsOf, Connecting
  <2> QED BY <1>1, <1>3, <1>6, <2>1, <2>2, <2>3, <2>4, OthersKeepBase
<1> QED BY <1>5, <1>6

LEMMA CleanUpGives ==
    ASSUME NEW s \in Sockets, Base, CleanUp(s)
    PROVE  /\ Base' /\ Others(s) /\ disconnecting[s] \in Disconnecting
           /\ DisconnectionCommand(s)
           /\ disconnecting'[s] = AfterDisconnection[disconnecting[s]]
           /\ conn[s] = "down"
           /\ UNCHANGED <<conn, owner, rooms, connecting, message, told, overtaken>>
<1>1. /\ disconnecting[s] \in Disconnecting /\ DisconnectionCommand(s)
      /\ disconnecting' =
            [disconnecting EXCEPT ![s] = AfterDisconnection[disconnecting[s]]]
      /\ UNCHANGED <<conn, owner, token, socketUserMap, rooms, connecting, message,
                     told, overtaken>>
    BY DEF CleanUp, history
<1>2. AfterDisconnection[disconnecting[s]] \in Disconnecting \cup {"done"}
    BY <1>1 DEF AfterDisconnection, Disconnecting
<1>3. attempts' \in [Sockets -> 0..MaxAttempts]
  <2>1. 0 \in 0..MaxAttempts
      BY ConstantsAssumption
  <2>2. attempts' = attempts \/ attempts' = [attempts EXCEPT ![s] = 0]
      BY DEF CleanUp
  <2> QED BY <2>1, <2>2 DEF Base, TypeOK
<1>4. RedisTyped'
    BY <1>1, DisconnectionCommandGives
<1>5. TypeOK'
    BY <1>1, <1>2, <1>3, <1>4 DEF Base, TypeOK, RedisTyped, Ended
<1>6. Others(s) /\ disconnecting'[s] = AfterDisconnection[disconnecting[s]]
    BY <1>1 DEF Base, TypeOK, Others, Kept
<1>7. /\ LocalsOf(s) /\ HasRedis /\ owner[s] \in Users /\ conn[s] = "down"
    BY <1>1 DEF Base, TypeOK, LocalsOf, Disconnecting
<1>8. LocalsOf(s)'
    BY <1>1, <1>6, <1>7 DEF LocalsOf
<1> QED BY <1>1, <1>5, <1>6, <1>7, <1>8, OthersKeepBase

LEMMA CleanUpFailsGives ==
    ASSUME NEW s \in Sockets, Base, CleanUpFails(s)
    PROVE  /\ Base' /\ Others(s) /\ disconnecting[s] \in Disconnecting
           /\ "redisError" \in Faults
           /\ DisconnectionCommand(s) \/ UNCHANGED <<store, ttl>>
           /\ disconnecting'[s] = "failed" /\ conn[s] = "down"
           /\ UNCHANGED <<conn, owner, rooms, connecting, message, told, overtaken>>
<1>1. /\ disconnecting[s] \in Disconnecting /\ "redisError" \in Faults
      /\ DisconnectionCommand(s) \/ UNCHANGED <<store, ttl>>
      /\ disconnecting' = [disconnecting EXCEPT ![s] = "failed"]
      /\ UNCHANGED <<conn, owner, token, socketUserMap, rooms, attempts, connecting,
                     message, told, overtaken>>
    BY DEF CleanUpFails, Rejects, redis, history
<1>2. RedisTyped'
    BY <1>1, DisconnectionCommandGives DEF RedisTyped, Base, TypeOK
<1>3. TypeOK'
    BY <1>1, <1>2 DEF Base, TypeOK, RedisTyped, Ended
<1>4. Others(s) /\ disconnecting'[s] = "failed"
    BY <1>1 DEF Base, TypeOK, Others, Kept
<1>5. /\ LocalsOf(s) /\ conn[s] = "down"
    BY <1>1 DEF Base, TypeOK, LocalsOf, Disconnecting
<1>6. LocalsOf(s)'
    BY <1>1, <1>4, <1>5 DEF LocalsOf, Disconnecting
<1> QED BY <1>1, <1>3, <1>4, <1>5, <1>6, OthersKeepBase

\* What a loop does when it comes round: a step of message k of socket s.
Loops(s, k, m) ==
    /\ SetMessage(s, k, m)
    /\ rooms' \in [Sockets -> SUBSET ({"table", "user"} \X Tables)]
    /\ told' \in [Sockets -> SUBSET Tables]
    /\ \A z \in Sockets \ {s} : rooms'[z] = rooms[z] /\ told'[z] = told[z]

LEMMA SubscribeNextGives ==
    ASSUME NEW s \in Sockets, NEW k \in Slots, Base,
           NEW todo \in Seq(Tables), NEW all \in Seq(Tables), conn[s] # "new",
           SubscribeNext(s, k, todo, all)
    PROVE  \E m \in Message :
              /\ Loops(s, k, m) /\ UNCHANGED told /\ m.todo = todo /\ m.all = all
              /\ IF todo = <<>> THEN m.pc = "expire" /\ UNCHANGED rooms
                 ELSE m.pc = "sadd" /\ rooms' = [rooms EXCEPT ![s] = Joined(s, Head(todo))]
<1>1. CASE todo = <<>>
  <2>1. PICK m : m = [pc |-> "expire", todo |-> <<>>, all |-> all] /\ SetMessage(s, k, m)
      BY <1>1 DEF SubscribeNext
  <2>2. m \in Message /\ m.pc = "expire" /\ m.todo = todo /\ m.all = all
      BY <1>1, <2>1 DEF Message, Handling
  <2>3. UNCHANGED <<rooms, told>>
      BY <1>1 DEF SubscribeNext
  <2> QED BY <1>1, <2>1, <2>2, <2>3 DEF Loops, Base, TypeOK
<1>2. CASE todo # <<>>
  <2>1. PICK m : m = [pc |-> "sadd", todo |-> todo, all |-> all] /\ SetMessage(s, k, m)
      BY <1>2 DEF SubscribeNext
  <2>2. m \in Message /\ m.pc = "sadd" /\ m.todo = todo /\ m.all = all
      BY <2>1 DEF Message, Handling
  <2>3. rooms' = [rooms EXCEPT ![s] = Joined(s, Head(todo))] /\ UNCHANGED told
      BY <1>2 DEF SubscribeNext
  <2>4. Head(todo) \in Tables
      BY <1>2, RangeOfList
  <2>5. Joined(s, Head(todo)) \in SUBSET ({"table", "user"} \X Tables)
      BY <2>4 DEF Joined, Base, TypeOK
  <2> QED BY <1>2, <2>1, <2>2, <2>3, <2>5 DEF Loops, Base, TypeOK
<1> QED BY <1>1, <1>2

LEMMA UnsubscribeNextGives ==
    ASSUME NEW s \in Sockets, NEW k \in Slots, Base,
           NEW todo \in Seq(Tables), NEW all \in Seq(Tables), conn[s] # "new",
           UnsubscribeNext(s, k, todo, all)
    PROVE  \E m \in Message :
              /\ Loops(s, k, m)
              /\ IF todo = <<>>
                 THEN m.pc = "idle" /\ TellGone(s, all) /\ UNCHANGED rooms
                 ELSE /\ m.pc = "srem" /\ m.todo = todo /\ m.all = all /\ UNCHANGED told
                      /\ rooms' = [rooms EXCEPT ![s] = Left(s, Head(todo))]
<1>1. CASE todo = <<>>
  <2>1. SetMessage(s, k, NoMessage) /\ TellGone(s, all) /\ UNCHANGED rooms
      BY <1>1 DEF UnsubscribeNext
  <2>2. Loops(s, k, NoMessage)
      BY <2>1 DEF Loops, TellGone, Base, TypeOK
  <2> QED BY <1>1, <2>1, <2>2, NoMessageTyped
<1>2. CASE todo # <<>>
  <2>1. PICK m : m = [pc |-> "srem", todo |-> todo, all |-> all] /\ SetMessage(s, k, m)
      BY <1>2 DEF UnsubscribeNext
  <2>2. m \in Message /\ m.pc = "srem" /\ m.todo = todo /\ m.all = all
      BY <2>1 DEF Message, Handling
  <2>3. rooms' = [rooms EXCEPT ![s] = Left(s, Head(todo))] /\ UNCHANGED told
      BY <1>2 DEF UnsubscribeNext
  <2>4. Left(s, Head(todo)) \in SUBSET ({"table", "user"} \X Tables)
      BY DEF Left, Base, TypeOK
  <2> QED BY <1>2, <2>1, <2>2, <2>3, <2>4 DEF Loops, Base, TypeOK
<1> QED BY <1>1, <1>2

\* What the handling of a message leaves alone.
LEMMA MessagesKeepBase ==
    ASSUME NEW s \in Sockets, NEW k \in Slots, NEW m \in Message, Base,
           Loops(s, k, m), RedisTyped', conn[s] # "new",
           m.pc # "idle" => HasRedis,
           m.pc \in {"sadd", "srem"} => m.todo # <<>>,
           UNCHANGED <<conn, owner, token, socketUserMap, attempts, connecting,
                       disconnecting, overtaken>>
    PROVE  /\ Base' /\ Others(s) /\ message'[s][k] = m
           /\ \A j \in Slots \ {k} : message'[s][j] = message[s][j]
<1>1. /\ message' \in [Sockets -> [Slots -> Message]]
      /\ message'[s][k] = m
      /\ \A j \in Slots \ {k} : message'[s][j] = message[s][j]
      /\ \A z \in Sockets \ {s} : message'[z] = message[z]
    BY OneMessage DEF Base, TypeOK, Loops
<1>2. TypeOK'
    BY <1>1 DEF Base, TypeOK, Loops, RedisTyped
<1>3. Others(s)
    BY <1>1 DEF Others, Kept, Loops
<1>4. LocalsOf(s)'
    BY <1>1 DEF Base, LocalsOf
<1> QED BY <1>1, <1>2, <1>3, <1>4, OthersKeepBase

\* The steps of message k of socket s, whose new state is message'[s][k].
Handles(s, k) ==
    /\ Base' /\ Others(s) /\ conn[s] # "new"
    /\ \A j \in Slots \ {k} : message'[s][j] = message[s][j]
    /\ UNCHANGED <<conn, owner, connecting, disconnecting, overtaken>>

LEMMA SubscribeGives ==
    ASSUME NEW s \in Sockets, NEW k \in Slots, NEW tables \in TableLists, Base,
           Subscribe(s, k, tables)
    PROVE  /\ Handles(s, k) /\ conn[s] = "up" /\ message[s][k].pc = "idle"
           /\ UNCHANGED <<store, ttl>> /\ tables \in Seq(Tables)
           /\ HasRedis =>
                 /\ UNCHANGED told
                 /\ message'[s][k].todo = tables /\ message'[s][k].all = tables
                 /\ IF tables = <<>>
                    THEN message'[s][k].pc = "expire" /\ UNCHANGED rooms
                    ELSE /\ message'[s][k].pc = "sadd"
                         /\ rooms' = [rooms EXCEPT ![s] = Joined(s, Head(tables))]
           /\ ~HasRedis => message' = message
<1>1. /\ conn[s] = "up" /\ message[s][k].pc = "idle" /\ tables \in Seq(Tables)
      /\ UNCHANGED <<conn, owner, token, socketUserMap, attempts, connecting,
                     disconnecting, store, ttl, overtaken>>
    BY ConstantsAssumption, NoMessageTyped DEF Subscribe, redis
<1>2. RedisTyped'
    BY <1>1 DEF Base, TypeOK, RedisTyped
<1>3. CASE HasRedis
  <2>1. PICK m \in Message :
              /\ Loops(s, k, m) /\ UNCHANGED told /\ m.todo = tables /\ m.all = tables
              /\ IF tables = <<>> THEN m.pc = "expire" /\ UNCHANGED rooms
                 ELSE /\ m.pc = "sadd"
                      /\ rooms' = [rooms EXCEPT ![s] = Joined(s, Head(tables))]
      BY <1>1, <1>3, SubscribeNextGives DEF Subscribe
  <2>2. /\ Base' /\ Others(s) /\ message'[s][k] = m
        /\ \A j \in Slots \ {k} : message'[s][j] = message[s][j]
      BY <1>1, <1>2, <1>3, <2>1, MessagesKeepBase
  <2> QED BY <1>1, <1>3, <2>1, <2>2 DEF Handles
<1>4. CASE ~HasRedis
  <2>1. UNCHANGED <<message, rooms>> /\ Tell(s, tables)
      BY <1>4 DEF Subscribe
  <2>2. Range(tables) \subseteq Tables
      BY <1>1, RangeOfList
  <2>3. /\ told' \in [Sockets -> SUBSET Tables]
        /\ \A z \in Sockets \ {s} : told'[z] = told[z]
      BY <2>1, <2>2 DEF Tell, Base, TypeOK
  <2>4. TypeOK'
      BY <1>1, <2>1, <2>3 DEF Base, TypeOK
  <2>5. Others(s)
      BY <1>1, <2>1, <2>3 DEF Others, Kept
  <2>6. LocalsOf(s)'
      BY <1>1, <2>1 DEF Base, LocalsOf
  <2> QED BY <1>1, <1>4, <2>1, <2>4, <2>5, <2>6, OthersKeepBase DEF Handles
<1> QED BY <1>3, <1>4

LEMMA UnsubscribeGives ==
    ASSUME NEW s \in Sockets, NEW k \in Slots, NEW tables \in TableLists, Base,
           Unsubscribe(s, k, tables)
    PROVE  /\ Handles(s, k) /\ conn[s] = "up" /\ message[s][k].pc = "idle"
           /\ UNCHANGED <<store, ttl>> /\ tables \in Seq(Tables)
           /\ HasRedis =>
                 IF tables = <<>>
                 THEN /\ message'[s][k].pc = "idle" /\ TellGone(s, tables)
                      /\ UNCHANGED rooms
                 ELSE /\ message'[s][k].pc = "srem" /\ message'[s][k].todo = tables
                      /\ message'[s][k].all = tables /\ UNCHANGED told
                      /\ rooms' = [rooms EXCEPT ![s] = Left(s, Head(tables))]
           /\ ~HasRedis => message' = message
<1>1. /\ conn[s] = "up" /\ message[s][k].pc = "idle" /\ tables \in Seq(Tables)
      /\ UNCHANGED <<conn, owner, token, socketUserMap, attempts, connecting,
                     disconnecting, store, ttl, overtaken>>
    BY ConstantsAssumption, NoMessageTyped DEF Unsubscribe, redis
<1>2. RedisTyped'
    BY <1>1 DEF Base, TypeOK, RedisTyped
<1>3. CASE HasRedis
  <2>1. PICK m \in Message :
              /\ Loops(s, k, m)
              /\ IF tables = <<>>
                 THEN m.pc = "idle" /\ TellGone(s, tables) /\ UNCHANGED rooms
                 ELSE /\ m.pc = "srem" /\ m.todo = tables /\ m.all = tables
                      /\ UNCHANGED told
                      /\ rooms' = [rooms EXCEPT ![s] = Left(s, Head(tables))]
      BY <1>1, <1>3, UnsubscribeNextGives DEF Unsubscribe
  <2>2. /\ Base' /\ Others(s) /\ message'[s][k] = m
        /\ \A j \in Slots \ {k} : message'[s][j] = message[s][j]
      BY <1>1, <1>2, <1>3, <2>1, MessagesKeepBase
  <2> QED BY <1>1, <1>3, <2>1, <2>2 DEF Handles
<1>4. CASE ~HasRedis
  <2>1. UNCHANGED <<message, rooms>> /\ TellGone(s, tables)
      BY <1>4 DEF Unsubscribe
  <2>2. /\ told' \in [Sockets -> SUBSET Tables]
        /\ \A z \in Sockets \ {s} : told'[z] = told[z]
      BY <2>1 DEF TellGone, Base, TypeOK
  <2>3. TypeOK'
      BY <1>1, <2>1, <2>2 DEF Base, TypeOK
  <2>4. Others(s)
      BY <1>1, <2>1, <2>2 DEF Others, Kept
  <2>5. LocalsOf(s)'
      BY <1>1, <2>1 DEF Base, LocalsOf
  <2> QED BY <1>1, <1>4, <2>1, <2>3, <2>4, <2>5, OthersKeepBase DEF Handles
<1> QED BY <1>3, <1>4

LEMMA HandleMessageGives ==
    ASSUME NEW s \in Sockets, NEW k \in Slots, Base, HandleMessage(s, k)
    PROVE  /\ Handles(s, k) /\ message[s][k].pc \in Handling /\ MessageCommand(s, k)
           /\ message[s][k].todo \in Seq(Tables) /\ message[s][k].all \in Seq(Tables)
           /\ message[s][k].pc = "sadd" =>
                 /\ UNCHANGED told /\ message'[s][k].all = message[s][k].all
                 /\ message'[s][k].todo = Tail(message[s][k].todo)
                 /\ IF Tail(message[s][k].todo) = <<>>
                    THEN message'[s][k].pc = "expire" /\ UNCHANGED rooms
                    ELSE /\ message'[s][k].pc = "sadd"
                         /\ rooms' = [rooms EXCEPT ![s] =
                                         Joined(s, Head(Tail(message[s][k].todo)))]
           /\ message[s][k].pc = "srem" =>
                 IF Tail(message[s][k].todo) = <<>>
                 THEN /\ message'[s][k].pc = "idle" /\ TellGone(s, message[s][k].all)
                      /\ UNCHANGED rooms
                 ELSE /\ message'[s][k].pc = "srem"
                      /\ message'[s][k].todo = Tail(message[s][k].todo)
                      /\ message'[s][k].all = message[s][k].all /\ UNCHANGED told
                      /\ rooms' = [rooms EXCEPT ![s] =
                                      Left(s, Head(Tail(message[s][k].todo)))]
           /\ message[s][k].pc = "expire" =>
                 message'[s][k].pc = "idle" /\ Tell(s, message[s][k].all)
                 /\ UNCHANGED rooms
<1>1. PICK q : q = message[s][k]
    OBVIOUS
<1>2. /\ q.pc \in Handling /\ MessageCommand(s, k)
      /\ UNCHANGED <<conn, owner, token, socketUserMap, attempts, connecting,
                     disconnecting, overtaken>>
      /\ q.pc = "sadd" => SubscribeNext(s, k, Tail(q.todo), q.all)
      /\ q.pc = "srem" => UnsubscribeNext(s, k, Tail(q.todo), q.all)
      /\ q.pc = "expire" => SetMessage(s, k, NoMessage) /\ Tell(s, q.all)
                            /\ UNCHANGED rooms
    BY <1>1 DEF HandleMessage
<1>3. /\ q \in Message /\ q.todo \in Seq(Tables) /\ q.all \in Seq(Tables)
      /\ q.pc \in {"sadd", "srem"} => q.todo # <<>>
    BY <1>1, <1>2 DEF Base, TypeOK, LocalsOf, Message, Handling
<1>4. RedisTyped'
    BY <1>1, <1>2, MessageCommandGives
<1>5. HasRedis /\ conn[s] # "new"
    BY <1>1, <1>2 DEF Base, LocalsOf, Handling
<1>6. CASE q.pc = "sadd"
  <2>1. PICK rest \in Seq(Tables) : rest = Tail(q.todo)
      BY <1>1, <1>3, <1>6, RangeOfList DEF Base, LocalsOf
  <2>2. SubscribeNext(s, k, rest, q.all)
      BY <1>2, <1>6, <2>1
  <2>3. PICK m \in Message :
              /\ Loops(s, k, m) /\ UNCHANGED told /\ m.todo = rest
              /\ m.all = q.all
              /\ IF rest = <<>> THEN m.pc = "expire" /\ UNCHANGED rooms
                 ELSE /\ m.pc = "sadd"
                      /\ rooms' = [rooms EXCEPT ![s] = Joined(s, Head(rest))]
      BY <1>3, <1>5, <2>2, SubscribeNextGives
  <2>4. /\ Base' /\ Others(s) /\ message'[s][k] = m
        /\ \A j \in Slots \ {k} : message'[s][j] = message[s][j]
      BY <1>2, <1>4, <1>5, <2>3, MessagesKeepBase
  <2> QED BY <1>1, <1>2, <1>3, <1>5, <1>6, <2>1, <2>3, <2>4 DEF Handles
<1>7. CASE q.pc = "srem"
  <2>1. PICK rest \in Seq(Tables) : rest = Tail(q.todo)
      BY <1>1, <1>3, <1>7, RangeOfList DEF Base, LocalsOf
  <2>2. UnsubscribeNext(s, k, rest, q.all)
      BY <1>2, <1>7, <2>1
  <2>3. PICK m \in Message :
              /\ Loops(s, k, m)
              /\ IF rest = <<>>
                 THEN m.pc = "idle" /\ TellGone(s, q.all) /\ UNCHANGED rooms
                 ELSE /\ m.pc = "srem" /\ m.todo = rest /\ m.all = q.all
                      /\ UNCHANGED told
                      /\ rooms' = [rooms EXCEPT ![s] = Left(s, Head(rest))]
      BY <1>3, <1>5, <2>2, UnsubscribeNextGives
  <2>4. /\ Base' /\ Others(s) /\ message'[s][k] = m
        /\ \A j \in Slots \ {k} : message'[s][j] = message[s][j]
      BY <1>2, <1>4, <1>5, <2>3, MessagesKeepBase
  <2> QED BY <1>1, <1>2, <1>3, <1>5, <1>7, <2>1, <2>3, <2>4 DEF Handles
<1>8. CASE q.pc = "expire"
  <2>1. SetMessage(s, k, NoMessage) /\ Tell(s, q.all) /\ UNCHANGED rooms
      BY <1>2, <1>8
  <2>2. Range(q.all) \subseteq Tables
      BY <1>3, RangeOfList
  <2>3. Loops(s, k, NoMessage)
      BY <2>1, <2>2 DEF Loops, Tell, Base, TypeOK
  <2>4. /\ Base' /\ Others(s) /\ message'[s][k] = NoMessage
        /\ \A j \in Slots \ {k} : message'[s][j] = message[s][j]
      BY <1>2, <1>4, <1>5, <2>3, NoMessageTyped, MessagesKeepBase
  <2> QED BY <1>1, <1>2, <1>3, <1>5, <1>8, <2>1, <2>4, NoMessageTyped DEF Handles
<1> QED BY <1>2, <1>6, <1>7, <1>8 DEF Handling

LEMMA HandleMessageFailsGives ==
    ASSUME NEW s \in Sockets, NEW k \in Slots, Base, HandleMessageFails(s, k)
    PROVE  /\ Handles(s, k) /\ message[s][k].pc \in Handling
           /\ "redisError" \in Faults
           /\ MessageCommand(s, k) \/ UNCHANGED <<store, ttl>>
<1>1. /\ message[s][k].pc \in Handling /\ SetMessage(s, k, NoMessage)
      /\ "redisError" \in Faults /\ (MessageCommand(s, k) \/ UNCHANGED <<store, ttl>>)
      /\ UNCHANGED <<conn, owner, token, socketUserMap, rooms, attempts, connecting,
                     disconnecting, told, overtaken>>
    BY DEF HandleMessageFails, Rejects, redis, history
<1>2. RedisTyped'
    BY <1>1, MessageCommandGives DEF Base, TypeOK, RedisTyped
<1>3. conn[s] # "new"
    BY <1>1 DEF Base, LocalsOf, Handling
<1>4. Loops(s, k, NoMessage)
    BY <1>1 DEF Loops, Base, TypeOK
<1>5. /\ Base' /\ Others(s)
      /\ \A j \in Slots \ {k} : message'[s][j] = message[s][j]
    BY <1>1, <1>2, <1>3, <1>4, NoMessageTyped, MessagesKeepBase
<1> QED BY <1>1, <1>3, <1>5 DEF Handles

LEMMA TtlPassesGives ==
    ASSUME NEW key \in Keys, Base, TtlPasses(key)
    PROVE  /\ Base' /\ "ttl" \in Faults /\ OnlyAt(key) /\ store'[key] = {}
           /\ UNCHANGED <<conn, owner, rooms, connecting, disconnecting, message, told,
                          overtaken>>
<1>1. /\ "ttl" \in Faults /\ Delete(key)
      /\ UNCHANGED <<conn, owner, token, socketUserMap, rooms, attempts, connecting,
                     disconnecting, message, told, overtaken>>
    BY DEF TtlPasses, handlers, history
<1>2. RedisTyped' /\ OnlyAt(key) /\ store'[key] = {}
    BY <1>1, DeleteGives DEF Base, TypeOK, RedisTyped
<1>3. TypeOK'
    BY <1>1, <1>2 DEF Base, TypeOK, RedisTyped
<1>4. Base'
    BY <1>1, <1>3 DEF Base, LocalsOf
<1> QED BY <1>1, <1>2, <1>4

LEMMA RestartGives ==
    ASSUME Base, Restart
    PROVE  /\ Base' /\ "restart" \in Faults
           /\ UNCHANGED <<owner, store, ttl, overtaken>>
           /\ \A s \in Sockets :
                 /\ conn'[s] = IF conn[s] = "up" THEN "down" ELSE conn[s]
                 /\ connecting'[s] \notin Connecting
                 /\ disconnecting'[s] \notin Disconnecting
                 /\ disconnecting'[s] = "done" =>
                       disconnecting[s] = "done" /\ conn[s] # "up"
                 /\ \A k \in Slots : message'[s][k].pc = "idle"
<1>1. /\ conn' = [s \in Sockets |-> IF conn[s] = "up" THEN "down" ELSE conn[s]]
      /\ socketUserMap' = [s \in Sockets |-> NoUser]
      /\ rooms' = [s \in Sockets |-> {}]
      /\ attempts' = [s \in Sockets |-> 0]
      /\ connecting' = [s \in Sockets |->
            IF connecting[s] \in Connecting THEN "failed" ELSE connecting[s]]
      /\ disconnecting' = [s \in Sockets |->
            IF conn[s] = "up" \/ disconnecting[s] \in Disconnecting
              THEN "failed" ELSE disconnecting[s]]
      /\ message' = [s \in Sockets |-> [k \in Slots |-> NoMessage]]
      /\ told' = [s \in Sockets |-> {}]
      /\ "restart" \in Faults
      /\ UNCHANGED <<owner, token, store, ttl, overtaken>>
    BY DEF Restart, redis
<1>2. TypeOK'
  <2>1. 0 \in 0..MaxAttempts
      BY ConstantsAssumption
  <2>2. /\ conn' \in [Sockets -> {"new", "up", "down"}]
        /\ attempts' \in [Sockets -> 0..MaxAttempts]
        /\ message' \in [Sockets -> [Slots -> Message]]
      BY <1>1, <2>1, NoMessageTyped DEF Base, TypeOK
  <2>3. /\ connecting' \in [Sockets -> Connecting \cup Ended]
        /\ disconnecting' \in [Sockets -> Disconnecting \cup Ended]
      BY <1>1 DEF Base, TypeOK, Ended
  <2> QED BY <1>1, <2>2, <2>3 DEF Base, TypeOK
<1>3. \A s \in Sockets :
         /\ conn'[s] = IF conn[s] = "up" THEN "down" ELSE conn[s]
         /\ rooms'[s] = {} /\ told'[s] = {}
         /\ connecting'[s] = IF connecting[s] \in Connecting THEN "failed"
                             ELSE connecting[s]
         /\ disconnecting'[s] = IF conn[s] = "up" \/ disconnecting[s] \in Disconnecting
                                THEN "failed" ELSE disconnecting[s]
         /\ \A k \in Slots : message'[s][k].pc = "idle"
    BY <1>1, NoMessageTyped
<1>4. ASSUME NEW s \in Sockets PROVE LocalsOf(s)'
  <2>1. LocalsOf(s) /\ connecting'[s] \notin Connecting
        /\ disconnecting'[s] \notin Disconnecting
      BY <1>3 DEF Base, Connecting, Disconnecting
  <2>2. conn'[s] # "up"
      BY <1>3
  <2>3. conn'[s] = "new" => connecting'[s] = "none" /\ disconnecting'[s] = "none"
      BY <1>3, <2>1 DEF LocalsOf, Connecting, Disconnecting
  <2> QED BY <1>3, <2>1, <2>2, <2>3 DEF LocalsOf
<1> QED BY <1>1, <1>2, <1>3, <1>4 DEF Base, Connecting, Disconnecting

LEMMA NextKeepsBase == Base /\ [Next]_vars => Base'
<1> SUFFICES ASSUME Base, [Next]_vars PROVE Base'
    OBVIOUS
<1>1. ASSUME NEW s \in Sockets, NEW u \in Users \cup {NoUser}, Connect(s, u) PROVE Base'
    BY <1>1, ConnectGives
<1>2. ASSUME NEW s \in Sockets, Disconnect(s) \/ Reconnect(s) \/ TokenExpires(s)
      PROVE  Base'
    BY <1>2, DisconnectGoes, GoesGives, ReconnectGives, TokenExpiresGives
<1>3. ASSUME NEW s \in Sockets, ConnectionStep(s) \/ DisconnectionStep(s) PROVE Base'
    BY <1>3, SaveConnectionGives, SaveConnectionFailsGives, CleanUpGives,
       CleanUpFailsGives DEF ConnectionStep, DisconnectionStep
<1>4. ASSUME NEW s \in Sockets, NEW k \in Slots, NEW tables \in TableLists,
             Subscribe(s, k, tables) \/ Unsubscribe(s, k, tables)
      PROVE  Base'
    BY <1>4, SubscribeGives, UnsubscribeGives DEF Handles
<1>5. ASSUME NEW s \in Sockets, NEW k \in Slots, MessageStep(s, k) PROVE Base'
    BY <1>5, HandleMessageGives, HandleMessageFailsGives DEF MessageStep, Handles
<1>6. ASSUME NEW key \in Keys, TtlPasses(key) PROVE Base'
    BY <1>6, TtlPassesGives
<1>7. CASE Restart
    BY <1>7, RestartGives
<1>8. CASE UNCHANGED vars
  <2>1. UNCHANGED <<conn, owner, token, socketUserMap, rooms, attempts, connecting,
                    disconnecting, message, store, ttl, told, overtaken>>
      BY <1>8 DEF vars, handlers, redis, history
  <2> QED BY <2>1 DEF Base, TypeOK, LocalsOf
<1> QED BY <1>1, <1>2, <1>3, <1>4, <1>5, <1>6, <1>7, <1>8 DEF Next

LEMMA BaseInvariance == Spec => []Base
BY InitBase, NextKeepsBase, PTL DEF Spec

\* Type correctness of the gateway, its handlers and the Redis keys, whatever
\* fails or restarts.
THEOREM TypeCorrect == Spec => []TypeOK
<1>1. Base => TypeOK
    BY DEF Base
<1> QED BY <1>1, BaseInvariance, PTL

-----------------------------------------------------------------------------
(* What a race leaves in Redis is bound to expire *)

WillExpire(key) ==
    \/ \E s \in Sockets :
         \/ key = SocketsKey(owner[s]) /\ connecting[s] = "expireSockets"
         \/ key = SessionKey(owner[s]) /\ connecting[s] = "expireSession"
    \/ \E s \in Sockets, k \in Slots :
         key = SubscriptionsKey(s) /\ message[s][k].pc \in {"sadd", "expire"}

\* One key is touched; who was to set the time to live of another still is.
LEMMA OneKeyExpires ==
    ASSUME NEW key \in Keys, TracesExpire, OnlyAt(key),
           store'[key] # {} /\ key \notin ttl' => WillExpire(key)',
           \A other \in Keys \ {key} : WillExpire(other) => WillExpire(other)'
    PROVE  TracesExpire'
BY DEF TracesExpire, OnlyAt, WillExpire

LEMMA NoKeyExpires ==
    ASSUME TracesExpire, UNCHANGED <<store, ttl>>,
           \A key \in Keys : WillExpire(key) => WillExpire(key)'
    PROVE  TracesExpire'
BY DEF TracesExpire, WillExpire

\* A key that shrinks keeps whoever was to set its time to live.
LEMMA ShrinkingExpires ==
    ASSUME NEW key \in Keys, TracesExpire, OnlyAt(key), Shrinks(key),
           \A other \in Keys : WillExpire(other) => WillExpire(other)'
    PROVE  TracesExpire'
<1>1. store'[key] # {} /\ key \notin ttl' => WillExpire(key)'
    BY DEF TracesExpire, Shrinks, WillExpire
<1> QED BY <1>1, OneKeyExpires

LEMMA SaveConnectionExpires ==
    ASSUME NEW s \in Sockets, Base, TracesExpire, SaveConnection(s)
    PROVE  TracesExpire'
<1>1. /\ Others(s) /\ connecting[s] \in Connecting /\ ConnectionCommand(s)
      /\ connecting'[s] = AfterConnection[connecting[s]]
      /\ owner' = owner /\ message' = message /\ owner[s] \in Users
    BY SaveConnectionGives DEF Base, LocalsOf
<1>2. SocketsKey(owner[s]) \in Keys /\ SessionKey(owner[s]) \in Keys
    BY <1>1, KeysAreKeys
<1>3. PICK key \in Keys :
         /\ OnlyAt(key)
         /\ store'[key] # {} /\ key \notin ttl' => WillExpire(key)'
         /\ connecting[s] = "expireSockets" => key = SocketsKey(owner[s])
         /\ connecting[s] = "expireSession" => key = SessionKey(owner[s])
  <2>1. CASE connecting[s] = "sadd"
    <3>1. connecting'[s] = "expireSockets"
        BY <1>1, <2>1 DEF AfterConnection
    <3>2. WillExpire(SocketsKey(owner[s]))'
        BY <1>1, <3>1 DEF WillExpire
    <3> QED BY <1>1, <1>2, <2>1, <3>2, ConnectionCommandGives
  <2>2. CASE connecting[s] = "expireSockets"
      BY <1>1, <1>2, <2>2, ConnectionCommandGives
  <2>3. CASE connecting[s] = "hset"
    <3>1. connecting'[s] = "expireSession"
        BY <1>1, <2>3 DEF AfterConnection
    <3>2. WillExpire(SessionKey(owner[s]))'
        BY <1>1, <3>1 DEF WillExpire
    <3> QED BY <1>1, <1>2, <2>3, <3>2, ConnectionCommandGives
  <2>4. CASE connecting[s] = "expireSession"
      BY <1>1, <1>2, <2>4, ConnectionCommandGives
  <2> QED BY <1>1, <2>1, <2>2, <2>3, <2>4 DEF Connecting
<1>4. ASSUME NEW other \in Keys \ {key}, WillExpire(other) PROVE WillExpire(other)'
    BY <1>1, <1>3, <1>4 DEF WillExpire, Others, Kept
<1> QED BY <1>3, <1>4, OneKeyExpires

LEMMA CleanUpExpires ==
    ASSUME NEW s \in Sockets, Base, TracesExpire, CleanUp(s)
    PROVE  TracesExpire'
<1>1. /\ disconnecting[s] \in Disconnecting /\ DisconnectionCommand(s)
      /\ UNCHANGED <<owner, connecting, message>> /\ owner[s] \in Users
    BY CleanUpGives DEF Base, LocalsOf
<1>2. /\ SocketsKey(owner[s]) \in Keys /\ SessionKey(owner[s]) \in Keys
      /\ SubscriptionsKey(s) \in Keys
    BY <1>1, KeysAreKeys
<1>3. \E key \in Keys : OnlyAt(key) /\ Shrinks(key)
    BY <1>1, <1>2, DisconnectionCommandGives DEF Disconnecting
<1>4. \A other \in Keys : WillExpire(other) => WillExpire(other)'
    BY <1>1 DEF WillExpire
<1> QED BY <1>3, <1>4, ShrinkingExpires

LEMMA HandleMessageExpires ==
    ASSUME NEW s \in Sockets, NEW k \in Slots, Base, TracesExpire, HandleMessage(s, k)
    PROVE  TracesExpire'
<1>1. /\ Handles(s, k) /\ message[s][k].pc \in Handling /\ MessageCommand(s, k)
      /\ message[s][k].pc = "sadd" => message'[s][k].pc \in {"sadd", "expire"}
      /\ SubscriptionsKey(s) \in Keys
    BY HandleMessageGives, KeysAreKeys
<1>2. OnlyAt(SubscriptionsKey(s))
    BY <1>1, MessageCommandGives
\* A message of another slot goes on as it was.
<1>3. \A other \in Keys : WillExpire(other) =>
         \/ WillExpire(other)'
         \/ other = SubscriptionsKey(s) /\ message[s][k].pc = "expire"
    BY <1>1 DEF WillExpire, Handles, Others, Kept
<1>4. CASE message[s][k].pc = "sadd"
  <2>1. WillExpire(SubscriptionsKey(s))'
      BY <1>1, <1>4 DEF WillExpire
  <2> QED BY <1>1, <1>2, <1>3, <1>4, <2>1, OneKeyExpires
<1>5. CASE message[s][k].pc = "srem"
    BY <1>1, <1>2, <1>3, <1>5, MessageCommandGives, ShrinkingExpires
<1>6. CASE message[s][k].pc = "expire"
    BY <1>1, <1>2, <1>3, <1>6, MessageCommandGives, OneKeyExpires
<1> QED BY <1>1, <1>4, <1>5, <1>6 DEF Handling

LEMMA NextKeepsTraces ==
    ASSUME "redisError" \notin Faults, "restart" \notin Faults
    PROVE  Base /\ TracesExpire /\ [Next]_vars => TracesExpire'
<1> SUFFICES ASSUME Base, TracesExpire, [Next]_vars PROVE TracesExpire'
    OBVIOUS
<1>1. ASSUME NEW s \in Sockets, NEW u \in Users \cup {NoUser}, Connect(s, u)
      PROVE  TracesExpire'
  <2>1. /\ Others(s) /\ connecting[s] = "none" /\ UNCHANGED <<message, store, ttl>>
      BY <1>1, ConnectGives DEF Base, LocalsOf
  <2>2. \A key \in Keys : WillExpire(key) => WillExpire(key)'
      BY <2>1 DEF WillExpire, Others, Kept
  <2> QED BY <2>1, <2>2, NoKeyExpires
<1>2. ASSUME NEW s \in Sockets, Disconnect(s) \/ Reconnect(s) \/ TokenExpires(s)
      PROVE  TracesExpire'
  <2>1. UNCHANGED <<owner, connecting, message, store, ttl>>
      BY <1>2, DisconnectGoes, GoesGives, ReconnectGives, TokenExpiresGives
  <2> QED BY <2>1, NoKeyExpires DEF WillExpire
<1>3. ASSUME NEW s \in Sockets, ConnectionStep(s) \/ DisconnectionStep(s)
      PROVE  TracesExpire'
    BY <1>3, SaveConnectionExpires, SaveConnectionFailsGives, CleanUpExpires,
       CleanUpFailsGives DEF ConnectionStep, DisconnectionStep
<1>4. ASSUME NEW s \in Sockets, NEW k \in Slots, NEW tables \in TableLists,
             Subscribe(s, k, tables) \/ Unsubscribe(s, k, tables)
      PROVE  TracesExpire'
  <2>1. /\ Handles(s, k) /\ message[s][k].pc = "idle" /\ UNCHANGED <<store, ttl>>
      BY <1>4, SubscribeGives, UnsubscribeGives
  <2>2. \A key \in Keys : WillExpire(key) => WillExpire(key)'
      BY <2>1 DEF WillExpire, Handles, Others, Kept
  <2> QED BY <2>1, <2>2, NoKeyExpires
<1>5. ASSUME NEW s \in Sockets, NEW k \in Slots, MessageStep(s, k) PROVE TracesExpire'
    BY <1>5, HandleMessageExpires, HandleMessageFailsGives DEF MessageStep
<1>6. ASSUME NEW key \in Keys, TtlPasses(key) PROVE TracesExpire'
  <2>1. /\ OnlyAt(key) /\ store'[key] = {} /\ UNCHANGED <<owner, connecting, message>>
      BY <1>6, TtlPassesGives
  <2> QED BY <2>1, OneKeyExpires DEF WillExpire
<1>7. ~Restart
    BY DEF Restart
<1>8. CASE UNCHANGED vars
  <2>1. UNCHANGED <<owner, connecting, message, store, ttl>>
      BY <1>8 DEF vars, handlers, redis
  <2> QED BY <2>1, NoKeyExpires DEF WillExpire
<1> QED BY <1>1, <1>2, <1>3, <1>4, <1>5, <1>6, <1>7, <1>8 DEF Next

\* With calls to Redis that succeed and a process that stays up, every key of
\* every user and socket has a time to live, or a handler about to set it,
\* whatever connections, disconnections and messages overlap
\* (saveConnection, subscribeToTables).
THEOREM EverythingExpires ==
    ASSUME "redisError" \notin Faults, "restart" \notin Faults
    PROVE  Spec => []TracesExpire
<1>1. Init => TracesExpire
    BY DEF Init, TracesExpire
<1> QED BY <1>1, BaseInvariance, NextKeepsTraces, PTL DEF Spec

-----------------------------------------------------------------------------
(* Sockets whose connection completed are registered *)

\* What Redis records of z under its user stays recorded.
Records(z) ==
    \A u \in Users : /\ z \in store[SocketsKey(u)] => z \in store'[SocketsKey(u)]
                     /\ z \in store[SessionKey(u)] => z \in store'[SessionKey(u)]

LEMMA StandingRecords ==
    UNCHANGED store => \A z \in Sockets : Records(z)
BY DEF Records

LEMMA ConnectionRecords ==
    ASSUME NEW s \in Sockets, Base, connecting[s] \in Connecting,
           ConnectionCommand(s) \/ UNCHANGED <<store, ttl>>
    PROVE  \A z \in Sockets : Records(z)
<1>1. CASE ConnectionCommand(s)
  <2>1. PICK key \in Keys : OnlyAt(key) /\ store[key] \subseteq store'[key]
    <3>1. SocketsKey(owner[s]) \in Keys /\ SessionKey(owner[s]) \in Keys
        BY KeysAreKeys DEF Base, LocalsOf
    <3> QED BY <1>1, <3>1, ConnectionCommandGives DEF Connecting
  <2> QED BY <2>1, KeysAreKeys DEF Records, OnlyAt
<1>2. CASE UNCHANGED <<store, ttl>>
    BY <1>2, StandingRecords
<1> QED BY <1>1, <1>2

LEMMA DisconnectionRecords ==
    ASSUME NEW s \in Sockets, Base, disconnecting[s] \in Disconnecting,
           DisconnectionCommand(s) \/ UNCHANGED <<store, ttl>>
    PROVE  \A z \in Sockets \ {s} : Records(z)
<1>1. CASE DisconnectionCommand(s)
  <2>1. owner[s] \in Users
      BY DEF Base, LocalsOf
  <2>2. CASE disconnecting[s] = "srem"
      BY <1>1, <2>1, <2>2, DisconnectionCommandGives, KeysAreKeys DEF Records, OnlyAt
  <2>3. CASE disconnecting[s] = "hdel"
      BY <1>1, <2>1, <2>3, DisconnectionCommandGives, KeysAreKeys DEF Records, OnlyAt
  <2>4. CASE disconnecting[s] = "del"
      BY <1>1, <2>4, DisconnectionCommandGives, KeysAreKeys, KeysDiffer
         DEF Records, OnlyAt
  <2> QED BY <2>2, <2>3, <2>4 DEF Disconnecting
<1>2. CASE UNCHANGED <<store, ttl>>
    BY <1>2, StandingRecords
<1> QED BY <1>1, <1>2

LEMMA MessageRecords ==
    ASSUME NEW s \in Sockets, NEW k \in Slots, Base, message[s][k].pc \in Handling,
           MessageCommand(s, k) \/ UNCHANGED <<store, ttl>>
    PROVE  \A z \in Sockets : Records(z)
<1>1. CASE MessageCommand(s, k)
  <2>1. OnlyAt(SubscriptionsKey(s))
      BY <1>1, MessageCommandGives
  <2> QED BY <2>1, KeysAreKeys, KeysDiffer DEF Records, OnlyAt
<1>2. CASE UNCHANGED <<store, ttl>>
    BY <1>2, StandingRecords
<1> QED BY <1>1, <1>2

LEMMA StaysRegistered ==
    ASSUME NEW z \in Sockets, Base, Registered, Records(z),
           conn'[z] = "up" => /\ conn[z] = "up" /\ owner'[z] = owner[z]
                              /\ connecting'[z] = connecting[z]
    PROVE  RegisteredOf(z)'
<1>1. RegisteredOf(z) /\ (conn[z] = "up" => owner[z] \in Users)
    BY DEF Registered, Base, LocalsOf
<1> QED BY <1>1 DEF RegisteredOf, Records

LEMMA NextKeepsRegistered ==
    ASSUME HasRedis, "ttl" \notin Faults
    PROVE  Base /\ Registered /\ [Next]_vars => Registered'
<1> SUFFICES ASSUME Base, Registered, [Next]_vars PROVE Registered'
    OBVIOUS
<1>1. ASSUME NEW s \in Sockets, NEW u \in Users \cup {NoUser}, Connect(s, u)
      PROVE  Registered'
  <2>1. Others(s) /\ UNCHANGED store
      BY <1>1, ConnectGives
  <2>2. conn'[s] = "up" => connecting'[s] = "sadd"
      BY <1>1, ConnectGives
  <2>3. RegisteredOf(s)'
      BY <2>2 DEF RegisteredOf
  <2>4. \A z \in Sockets \ {s} : RegisteredOf(z)'
      BY <2>1, StandingRecords, StaysRegistered DEF Others, Kept
  <2> QED BY <2>3, <2>4 DEF Registered
<1>2. ASSUME NEW s \in Sockets, Disconnect(s) \/ Reconnect(s) \/ TokenExpires(s)
      PROVE  Registered'
  <2>1. CASE Goes(s)
    <3>1. Others(s) /\ conn'[s] = "down" /\ UNCHANGED store
        BY <2>1, GoesGives
    <3> QED BY <3>1, StandingRecords, StaysRegistered DEF Registered, Others, Kept
  <2>2. CASE UNCHANGED <<conn, owner, connecting, store>>
      BY <2>2, StandingRecords, StaysRegistered DEF Registered
  <2> QED BY <1>2, <2>1, <2>2, DisconnectGoes, ReconnectGives, TokenExpiresGives
<1>3. ASSUME NEW s \in Sockets, SaveConnection(s) PROVE Registered'
  <2>1. /\ Others(s) /\ connecting[s] \in Connecting /\ ConnectionCommand(s)
        /\ connecting'[s] = AfterConnection[connecting[s]]
        /\ UNCHANGED <<conn, owner>> /\ owner[s] \in Users
      BY <1>3, SaveConnectionGives DEF Base, LocalsOf
  <2>2. \A z \in Sockets : Records(z)
      BY <2>1, ConnectionRecords
  <2>3. RegisteredOf(s)'
    <3>1. RegisteredOf(s) /\ Records(s)
        BY <2>2 DEF Registered
    <3>2. CASE connecting[s] = "sadd"
      <4>1. /\ connecting'[s] = "expireSockets"
            /\ s \in store'[SocketsKey(owner[s])]
          BY <2>1, <3>2, ConnectionCommandGives DEF AfterConnection
      <4> QED BY <2>1, <4>1 DEF RegisteredOf
    <3>3. CASE connecting[s] = "expireSockets"
      <4>1. connecting'[s] = "hset"
          BY <2>1, <3>3 DEF AfterConnection
      <4> QED BY <2>1, <3>1, <3>3, <4>1 DEF RegisteredOf, Records
    <3>4. CASE connecting[s] = "hset"
      <4>1. /\ connecting'[s] = "expireSession"
            /\ s \in store'[SessionKey(owner[s])]
          BY <2>1, <3>4, ConnectionCommandGives DEF AfterConnection
      <4> QED BY <2>1, <3>1, <3>4, <4>1 DEF RegisteredOf, Records
    <3>5. CASE connecting[s] = "expireSession"
      <4>1. connecting'[s] = "done"
          BY <2>1, <3>5 DEF AfterConnection
      <4> QED BY <2>1, <3>1, <3>5, <4>1 DEF RegisteredOf, Records
    <3> QED BY <2>1, <3>2, <3>3, <3>4, <3>5 DEF Connecting
  <2>4. \A z \in Sockets \ {s} : RegisteredOf(z)'
      BY <2>1, <2>2, StaysRegistered DEF Others, Kept
  <2> QED BY <2>3, <2>4 DEF Registered
<1>4. ASSUME NEW s \in Sockets, SaveConnectionFails(s) PROVE Registered'
  <2>1. /\ Others(s) /\ connecting'[s] = "failed"
        /\ \A z \in Sockets : Records(z)
      BY <1>4, SaveConnectionFailsGives, ConnectionRecords
  <2>2. RegisteredOf(s)'
      BY <2>1 DEF RegisteredOf
  <2>3. \A z \in Sockets \ {s} : RegisteredOf(z)'
      BY <2>1, StaysRegistered DEF Others, Kept
  <2> QED BY <2>2, <2>3 DEF Registered
<1>5. ASSUME NEW s \in Sockets, DisconnectionStep(s) PROVE Registered'
  <2>1. /\ Others(s) /\ conn[s] = "down" /\ conn' = conn
        /\ \A z \in Sockets \ {s} : Records(z)
      BY <1>5, CleanUpGives, CleanUpFailsGives, DisconnectionRecords
         DEF DisconnectionStep
  <2>2. RegisteredOf(s)'
      BY <2>1 DEF RegisteredOf
  <2>3. \A z \in Sockets \ {s} : RegisteredOf(z)'
      BY <2>1, StaysRegistered DEF Others, Kept
  <2> QED BY <2>2, <2>3 DEF Registered
<1>6. ASSUME NEW s \in Sockets, NEW k \in Slots,
             \/ \E tables \in TableLists :
                   Subscribe(s, k, tables) \/ Unsubscribe(s, k, tables)
             \/ MessageStep(s, k)
      PROVE  Registered'
  <2>1. UNCHANGED <<conn, owner, connecting>> /\ \A z \in Sockets : Records(z)
      BY <1>6, SubscribeGives, UnsubscribeGives, HandleMessageGives,
         HandleMessageFailsGives, MessageRecords, StandingRecords
         DEF MessageStep, Handles
  <2> QED BY <2>1, StaysRegistered DEF Registered
<1>7. ~\E key \in Keys : TtlPasses(key)
    BY DEF TtlPasses
<1>8. CASE Restart
  <2>1. \A z \in Sockets : conn'[z] # "up"
      BY <1>8, RestartGives
  <2> QED BY <2>1 DEF Registered, RegisteredOf
<1>9. CASE UNCHANGED vars
  <2>1. UNCHANGED <<conn, owner, connecting, store>>
      BY <1>9 DEF vars, handlers, redis
  <2> QED BY <2>1, StandingRecords, StaysRegistered DEF Registered
<1> QED BY <1>1, <1>2, <1>3, <1>4, <1>5, <1>6, <1>7, <1>8, <1>9 DEF Next, ConnectionStep

\* Until a time to live passes, a socket whose connection completed is found
\* under its user, whatever other sockets of the user do, and whatever fails or
\* restarts (saveConnection, removeConnection).
THEOREM CompletedAreRegistered ==
    ASSUME HasRedis, "ttl" \notin Faults
    PROVE  Spec => []ConnectedIsRegistered
<1>1. Init => Registered
    BY DEF Init, Registered, RegisteredOf
<1>2. Registered => ConnectedIsRegistered
    BY DEF Registered, RegisteredOf, ConnectedIsRegistered
<1> QED BY <1>1, <1>2, BaseInvariance, NextKeepsRegistered, PTL DEF Spec

-----------------------------------------------------------------------------
(* A disconnection that overtakes nothing leaves nothing *)

\* Redis learns nothing new of z.
Forgets(z) ==
    /\ \A u \in Users : /\ z \in store'[SocketsKey(u)] => z \in store[SocketsKey(u)]
                        /\ z \in store'[SessionKey(u)] => z \in store[SessionKey(u)]
    /\ store[SubscriptionsKey(z)] = {} => store'[SubscriptionsKey(z)] = {}

LEMMA StandingForgets == UNCHANGED store => \A z \in Sockets : Forgets(z)
BY DEF Forgets

LEMMA ShrinkingForgets ==
    ASSUME NEW key \in Keys, OnlyAt(key), store'[key] \subseteq store[key]
    PROVE  \A z \in Sockets : Forgets(z)
BY KeysAreKeys DEF Forgets, OnlyAt

\* A connection adds its own socket, under its own user.
LEMMA ConnectionForgets ==
    ASSUME NEW s \in Sockets, Base, connecting[s] \in Connecting,
           ConnectionCommand(s) \/ UNCHANGED <<store, ttl>>
    PROVE  /\ \A z \in Sockets \ {s} : Forgets(z)
           /\ \A u \in Users \ {owner[s]} :
                 /\ s \in store'[SocketsKey(u)] => s \in store[SocketsKey(u)]
                 /\ s \in store'[SessionKey(u)] => s \in store[SessionKey(u)]
<1>1. owner[s] \in Users
    BY DEF Base, LocalsOf
<1>2. CASE ConnectionCommand(s)
  <2>1. CASE connecting[s] = "sadd"
      BY <1>1, <1>2, <2>1, ConnectionCommandGives, KeysAreKeys, KeysDiffer
         DEF Forgets, OnlyAt
  <2>2. CASE connecting[s] = "hset"
      BY <1>1, <1>2, <2>2, ConnectionCommandGives, KeysAreKeys, KeysDiffer
         DEF Forgets, OnlyAt
  <2>3. CASE connecting[s] \in {"expireSockets", "expireSession"}
      BY <1>2, <2>3, ConnectionCommandGives, StandingForgets DEF Forgets
  <2> QED BY <2>1, <2>2, <2>3 DEF Connecting
<1>3. CASE UNCHANGED <<store, ttl>>
    BY <1>3, StandingForgets DEF Forgets
<1> QED BY <1>2, <1>3

LEMMA DisconnectionForgets ==
    ASSUME NEW s \in Sockets, Base, disconnecting[s] \in Disconnecting,
           DisconnectionCommand(s) \/ UNCHANGED <<store, ttl>>
    PROVE  \A z \in Sockets : Forgets(z)
<1>1. CASE DisconnectionCommand(s)
  <2>1. /\ SocketsKey(owner[s]) \in Keys /\ SessionKey(owner[s]) \in Keys
        /\ SubscriptionsKey(s) \in Keys
      BY KeysAreKeys DEF Base, LocalsOf
  <2>2. \E key \in Keys : OnlyAt(key) /\ store'[key] \subseteq store[key]
      BY <1>1, <2>1, DisconnectionCommandGives DEF Disconnecting
  <2> QED BY <2>2, ShrinkingForgets
<1>2. CASE UNCHANGED <<store, ttl>>
    BY <1>2, StandingForgets
<1> QED BY <1>1, <1>2

LEMMA MessageForgets ==
    ASSUME NEW s \in Sockets, NEW k \in Slots, Base, message[s][k].pc \in Handling,
           MessageCommand(s, k) \/ UNCHANGED <<store, ttl>>
    PROVE  /\ \A z \in Sockets \ {s} : Forgets(z)
           /\ \A u \in Users : /\ store'[SocketsKey(u)] = store[SocketsKey(u)]
                               /\ store'[SessionKey(u)] = store[SessionKey(u)]
<1>1. CASE MessageCommand(s, k)
  <2>1. OnlyAt(SubscriptionsKey(s))
      BY <1>1, MessageCommandGives
  <2> QED BY <2>1, KeysAreKeys, KeysDiffer DEF Forgets, OnlyAt
<1>2. CASE UNCHANGED <<store, ttl>>
    BY <1>2 DEF Forgets
<1> QED BY <1>1, <1>2

\* A socket whose handlers rest and of which Redis learns nothing.
LEMMA StaysCleanedUp ==
    ASSUME NEW z \in Sockets, TracesOf(z), Forgets(z),
           conn'[z] = conn[z], owner'[z] = owner[z], z \in overtaken' <=> z \in overtaken,
           Running(z)' => Running(z),
           disconnecting'[z] \in {disconnecting[z], "failed"}
    PROVE  TracesOf(z)'
<1>1. ~Mentioned(z) => ~Mentioned(z)'
    BY DEF Mentioned, Forgets
<1>2. \A u \in Users : /\ z \in store'[SocketsKey(u)] => u = owner'[z]
                       /\ z \in store'[SessionKey(u)] => u = owner'[z]
    BY DEF TracesOf, Forgets
<1>3. disconnecting'[z] \in {"hdel", "del", "done"} => disconnecting'[z] = disconnecting[z]
    OBVIOUS
<1> QED BY <1>1, <1>2, <1>3 DEF TracesOf, Forgets

LEMMA OthersStayCleanedUp ==
    ASSUME NEW s \in Sockets, CleanedUp, Others(s), \A z \in Sockets \ {s} : Forgets(z),
           TracesOf(s)'
    PROVE  CleanedUp'
<1>1. ASSUME NEW z \in Sockets \ {s} PROVE TracesOf(z)'
  <2>1. TracesOf(z) /\ Kept(z) /\ Forgets(z)
      BY DEF CleanedUp, Others
  <2>2. Running(z)' => Running(z)
      BY <2>1 DEF Kept, Running
  <2> QED BY <2>1, <2>2, StaysCleanedUp DEF Kept
<1> QED BY <1>1 DEF CleanedUp

LEMMA ConnectCleansUp ==
    ASSUME NEW s \in Sockets, NEW u \in Users \cup {NoUser}, Base, CleanedUp,
           Connect(s, u)
    PROVE  CleanedUp'
<1>1. /\ Others(s) /\ conn[s] = "new" /\ owner'[s] = u
      /\ UNCHANGED <<message, store, overtaken>>
      /\ conn'[s] = "down" => connecting'[s] = "failed" /\ disconnecting'[s] = "done"
      /\ conn'[s] # "new"
    BY ConnectGives
<1>2. ~Mentioned(s) /\ \A k \in Slots : message[s][k].pc = "idle"
    BY <1>1 DEF CleanedUp, TracesOf, Base, LocalsOf
<1>3. ~Mentioned(s)'
    BY <1>1, <1>2 DEF Mentioned
<1>4. conn'[s] = "down" => ~Running(s)'
    BY <1>1, <1>2 DEF Running, Connecting
<1>5. \A v \in Users : s \notin store'[SocketsKey(v)] /\ s \notin store'[SessionKey(v)]
    BY <1>3 DEF Mentioned
<1>6. TracesOf(s)'
    BY <1>1, <1>3, <1>4, <1>5 DEF TracesOf
<1> QED BY <1>1, <1>6, StandingForgets, OthersStayCleanedUp

LEMMA GoesCleansUp ==
    ASSUME NEW s \in Sockets, Base, CleanedUp, Goes(s)
    PROVE  CleanedUp'
<1>1. /\ Others(s) /\ conn[s] = "up" /\ conn'[s] = "down"
      /\ disconnecting'[s] = IF HasRedis THEN "srem" ELSE "done"
      /\ Running(s) => s \in overtaken'
      /\ UNCHANGED <<owner, connecting, message, store>>
    BY GoesGives
<1>2. TracesOf(s)
    BY DEF CleanedUp
<1>3. /\ Running(s)' <=> Running(s)
      /\ Mentioned(s)' <=> Mentioned(s)
    BY <1>1 DEF Running, Mentioned
<1>4. TracesOf(s)'
    BY <1>1, <1>2, <1>3 DEF TracesOf
<1> QED BY <1>1, <1>4, StandingForgets, OthersStayCleanedUp

LEMMA SaveConnectionCleansUp ==
    ASSUME NEW s \in Sockets, Base, CleanedUp, SaveConnection(s) \/ SaveConnectionFails(s)
    PROVE  CleanedUp'
<1>1. /\ Others(s) /\ connecting[s] \in Connecting
      /\ ConnectionCommand(s) \/ UNCHANGED <<store, ttl>>
      /\ UNCHANGED <<owner, message>>
    BY SaveConnectionGives, SaveConnectionFailsGives
<1>2. /\ \A z \in Sockets \ {s} : Forgets(z)
      /\ \A u \in Users \ {owner[s]} :
            /\ s \in store'[SocketsKey(u)] => s \in store[SocketsKey(u)]
            /\ s \in store'[SessionKey(u)] => s \in store[SessionKey(u)]
    BY <1>1, ConnectionForgets
<1>3. TracesOf(s) /\ Running(s) /\ HasRedis /\ conn[s] # "new"
    BY <1>1 DEF CleanedUp, Running, Base, LocalsOf, Connecting
<1>4. conn[s] = "down" => s \in overtaken
    BY <1>3 DEF TracesOf
<1>5. \A u \in Users : /\ s \in store'[SocketsKey(u)] => u = owner'[s]
                       /\ s \in store'[SessionKey(u)] => u = owner'[s]
    BY <1>1, <1>2, <1>3 DEF TracesOf
<1>6. CASE UNCHANGED <<conn, overtaken>>
    BY <1>3, <1>4, <1>5, <1>6, OthersStayCleanedUp, <1>1, <1>2 DEF TracesOf
<1>7. CASE /\ connecting'[s] = "failed" /\ conn'[s] = "down"
           /\ disconnecting'[s] = "srem"
           /\ \A k \in Slots : message[s][k].pc # "idle" => s \in overtaken'
  <2>1. s \notin overtaken' => ~Running(s)'
      BY <1>1, <1>7 DEF Running, Connecting
  <2>2. TracesOf(s)'
      BY <1>3, <1>5, <1>7, <2>1 DEF TracesOf
  <2> QED BY <1>1, <1>2, <2>2, OthersStayCleanedUp
<1> QED BY <1>6, <1>7, SaveConnectionGives, SaveConnectionFailsGives

LEMMA CleanUpCleansUp ==
    ASSUME NEW s \in Sockets, Base, CleanedUp, CleanUp(s)
    PROVE  CleanedUp'
<1>1. /\ Others(s) /\ disconnecting[s] \in Disconnecting /\ DisconnectionCommand(s)
      /\ disconnecting'[s] = AfterDisconnection[disconnecting[s]] /\ conn[s] = "down"
      /\ UNCHANGED <<conn, owner, connecting, message, overtaken>>
    BY CleanUpGives
<1>2. \A z \in Sockets : Forgets(z)
    BY <1>1, DisconnectionForgets
<1>3. TracesOf(s) /\ Forgets(s) /\ owner[s] \in Users /\ HasRedis
    BY <1>1, <1>2 DEF CleanedUp, Base, LocalsOf
<1>4. Running(s)' <=> Running(s)
    BY <1>1 DEF Running
<1>5. \A u \in Users : /\ s \in store'[SocketsKey(u)] => u = owner'[s]
                       /\ s \in store'[SessionKey(u)] => u = owner'[s]
    BY <1>1, <1>3 DEF TracesOf, Forgets
<1>6. CASE disconnecting[s] = "srem"
  <2>1. disconnecting'[s] = "hdel" /\ s \notin store'[SocketsKey(owner[s])]
      BY <1>1, <1>6, DisconnectionCommandGives DEF AfterDisconnection
  <2>2. \A u \in Users : s \notin store'[SocketsKey(u)]
      BY <1>1, <1>5, <2>1
  <2>3. TracesOf(s)'
      BY <1>1, <1>3, <1>4, <1>5, <2>1, <2>2 DEF TracesOf
  <2> QED BY <1>1, <1>2, <2>3, OthersStayCleanedUp
<1>7. CASE disconnecting[s] = "hdel"
  <2>1. disconnecting'[s] = "del" /\ s \notin store'[SessionKey(owner[s])]
      BY <1>1, <1>7, DisconnectionCommandGives DEF AfterDisconnection
  <2>2. \A u \in Users : s \notin store'[SessionKey(u)]
      BY <1>1, <1>5, <2>1
  <2>3. TracesOf(s)'
      BY <1>1, <1>3, <1>4, <1>5, <1>7, <2>1, <2>2 DEF TracesOf, Forgets
  <2> QED BY <1>1, <1>2, <2>3, OthersStayCleanedUp
<1>8. CASE disconnecting[s] = "del"
  <2>1. disconnecting'[s] = "done" /\ store'[SubscriptionsKey(s)] = {}
      BY <1>1, <1>8, DisconnectionCommandGives DEF AfterDisconnection
  <2>2. s \notin overtaken => ~Mentioned(s)'
      BY <1>1, <1>3, <1>8, <2>1 DEF TracesOf, Forgets, Mentioned
  <2>3. TracesOf(s)'
      BY <1>1, <1>3, <1>4, <1>5, <2>1, <2>2 DEF TracesOf
  <2> QED BY <1>1, <1>2, <2>3, OthersStayCleanedUp
<1> QED BY <1>1, <1>6, <1>7, <1>8 DEF Disconnecting

LEMMA HandlingCleansUp ==
    ASSUME NEW s \in Sockets, NEW k \in Slots, Base, CleanedUp, Handles(s, k),
           message[s][k].pc \in Handling,
           MessageCommand(s, k) \/ UNCHANGED <<store, ttl>>
    PROVE  CleanedUp'
<1>1. /\ Others(s) /\ conn[s] # "new" /\ UNCHANGED <<conn, owner, overtaken>>
    BY DEF Handles
<1>2. /\ \A z \in Sockets \ {s} : Forgets(z)
      /\ \A u \in Users : /\ store'[SocketsKey(u)] = store[SocketsKey(u)]
                          /\ store'[SessionKey(u)] = store[SessionKey(u)]
    BY MessageForgets
<1>3. TracesOf(s) /\ Running(s) /\ HasRedis
    BY DEF CleanedUp, Running, Handling, Base, LocalsOf
<1>4. TracesOf(s)'
    BY <1>1, <1>2, <1>3 DEF TracesOf
<1> QED BY <1>1, <1>2, <1>4, OthersStayCleanedUp

LEMMA NextKeepsCleanedUp == Base /\ CleanedUp /\ [Next]_vars => CleanedUp'
<1> SUFFICES ASSUME Base, CleanedUp, [Next]_vars PROVE CleanedUp'
    OBVIOUS
\* Whatever leaves connections, handlers and Redis as they are.
<1>0. ASSUME UNCHANGED <<conn, owner, connecting, disconnecting, message, store,
                         overtaken>>
      PROVE  CleanedUp'
  <2>1. ASSUME NEW z \in Sockets PROVE TracesOf(z)'
    <3>1. Running(z)' <=> Running(z)
        BY <1>0 DEF Running
    <3>2. TracesOf(z) /\ Forgets(z)
        BY <1>0, StandingForgets DEF CleanedUp
    <3> QED BY <1>0, <3>1, <3>2, StaysCleanedUp
  <2> QED BY <2>1 DEF CleanedUp
<1>1. ASSUME NEW s \in Sockets, NEW u \in Users \cup {NoUser}, Connect(s, u)
      PROVE  CleanedUp'
    BY <1>1, ConnectCleansUp
<1>2. ASSUME NEW s \in Sockets, Disconnect(s) \/ Reconnect(s) \/ TokenExpires(s)
      PROVE  CleanedUp'
    BY <1>0, <1>2, DisconnectGoes, GoesCleansUp, ReconnectGives, TokenExpiresGives
<1>3. ASSUME NEW s \in Sockets, ConnectionStep(s) PROVE CleanedUp'
    BY <1>3, SaveConnectionCleansUp DEF ConnectionStep
<1>4. ASSUME NEW s \in Sockets, CleanUpFails(s) PROVE CleanedUp'
  <2>1. /\ Others(s) /\ \A z \in Sockets : Forgets(z)
        /\ disconnecting'[s] = "failed"
        /\ UNCHANGED <<conn, owner, connecting, message, overtaken>>
      BY <1>4, CleanUpFailsGives, DisconnectionForgets
  <2>2. TracesOf(s) /\ (Running(s)' <=> Running(s))
      BY <2>1 DEF CleanedUp, Running
  <2>3. TracesOf(s)'
      BY <2>1, <2>2, StaysCleanedUp
  <2> QED BY <2>1, <2>3, OthersStayCleanedUp
<1>5. ASSUME NEW s \in Sockets, CleanUp(s) PROVE CleanedUp'
    BY <1>5, CleanUpCleansUp
<1>6. ASSUME NEW s \in Sockets, NEW k \in Slots, NEW tables \in TableLists,
             Subscribe(s, k, tables) \/ Unsubscribe(s, k, tables)
      PROVE  CleanedUp'
  <2>1. Handles(s, k) /\ conn[s] = "up" /\ UNCHANGED store
      BY <1>6, SubscribeGives, UnsubscribeGives
  <2>2. /\ Others(s) /\ UNCHANGED <<conn, owner, overtaken>> /\ TracesOf(s)
      BY <2>1 DEF Handles, CleanedUp
  <2>3. Mentioned(s)' <=> Mentioned(s)
      BY <2>1 DEF Mentioned
  <2>4. TracesOf(s)'
      BY <2>1, <2>2, <2>3 DEF TracesOf
  <2> QED BY <2>1, <2>2, <2>4, StandingForgets, OthersStayCleanedUp
<1>7. ASSUME NEW s \in Sockets, NEW k \in Slots, MessageStep(s, k) PROVE CleanedUp'
    BY <1>7, HandleMessageGives, HandleMessageFailsGives, HandlingCleansUp
       DEF MessageStep
<1>8. ASSUME NEW key \in Keys, TtlPasses(key) PROVE CleanedUp'
  <2>1. /\ OnlyAt(key) /\ store'[key] = {}
        /\ UNCHANGED <<conn, owner, connecting, disconnecting, message, overtaken>>
      BY <1>8, TtlPassesGives
  <2>2. ASSUME NEW z \in Sockets PROVE TracesOf(z)'
    <3>1. Running(z)' <=> Running(z)
        BY <2>1 DEF Running
    <3>2. TracesOf(z) /\ Forgets(z)
        BY <2>1, ShrinkingForgets DEF CleanedUp
    <3> QED BY <2>1, <3>1, <3>2, StaysCleanedUp
  <2> QED BY <2>2 DEF CleanedUp
<1>9. CASE Restart
  <2>1. ASSUME NEW z \in Sockets PROVE TracesOf(z)'
    <3>1. /\ TracesOf(z) /\ UNCHANGED <<owner, store, overtaken>>
          /\ conn'[z] = IF conn[z] = "up" THEN "down" ELSE conn[z]
          /\ disconnecting'[z] \notin Disconnecting
          /\ disconnecting'[z] = "done" => disconnecting[z] = "done" /\ conn[z] # "up"
          /\ connecting'[z] \notin Connecting
          /\ \A k \in Slots : message'[z][k].pc = "idle"
        BY <1>9, RestartGives DEF CleanedUp
    <3>2. ~Running(z)'
        BY <3>1 DEF Running
    <3>3. Mentioned(z)' <=> Mentioned(z)
        BY <3>1 DEF Mentioned
    <3> QED BY <3>1, <3>2, <3>3 DEF TracesOf, Disconnecting
  <2> QED BY <2>1 DEF CleanedUp
<1>10. CASE UNCHANGED vars
  <2>1. UNCHANGED <<conn, owner, connecting, disconnecting, message, store, overtaken>>
      BY <1>10 DEF vars, handlers, redis, history
  <2> QED BY <1>0, <2>1
<1> QED BY <1>1, <1>2, <1>3, <1>4, <1>5, <1>6, <1>7, <1>8, <1>9, <1>10
        DEF Next, DisconnectionStep

LEMMA InitCleanedUp == Init => CleanedUp
<1> SUFFICES ASSUME Init, NEW s \in Sockets PROVE TracesOf(s)
    BY DEF CleanedUp
<1>1. \A key \in Keys : store[key] = {}
    BY DEF Init
<1>2. ~Mentioned(s)
    BY <1>1, KeysAreKeys DEF Mentioned
<1> QED BY <1>2 DEF Init, TracesOf, Mentioned

\* A disconnection that completes and overtakes no handler of its socket leaves
\* nothing of that socket in Redis, whatever other sockets, failed calls, times to
\* live and restarts do in between (handleDisconnect, removeConnection).
THEOREM NothingIsLeft == Spec => []CleanAfterDisconnect
<1>1. Base /\ CleanedUp => CleanAfterDisconnect
  <2> SUFFICES ASSUME Base, CleanedUp, NEW s \in Sockets, disconnecting[s] = "done",
                      s \notin overtaken
               PROVE  ~Mentioned(s)
      BY DEF CleanAfterDisconnect
  <2>1. conn[s] = "down"
      BY DEF Base, TypeOK, LocalsOf
  <2> QED BY <2>1 DEF CleanedUp, TracesOf
<1> QED BY <1>1, InitCleanedUp, BaseInvariance, NextKeepsCleanedUp, PTL DEF Spec

-----------------------------------------------------------------------------
(* A client that waits for each answer: one message at a time *)

\* A socket whose rooms and message stay, and of which Redis records no more.
LEMMA ViewsStay ==
    ASSUME NEW z \in Sockets, ViewsOf(z), conn'[z] \in {conn[z], "down"},
           conn'[z] = "up" => /\ rooms'[z] = rooms[z] /\ told'[z] = told[z]
                              /\ message'[z] = message[z],
           store'[SubscriptionsKey(z)] \subseteq store[SubscriptionsKey(z)]
    PROVE  ViewsOf(z)'
<1>1. CASE conn'[z] = "up"
  <2>1. conn[z] = "up" /\ TableRooms(z)' = TableRooms(z)
      BY <1>1 DEF TableRooms
  <2>2. ASSUME NEW k \in Slots PROVE ProgressOf(z, message[z][k])'
    <3>1. ProgressOf(z, message[z][k])
        BY <2>1 DEF ViewsOf
    <3> QED BY <1>1, <2>1, <3>1 DEF ProgressOf
  <2> QED BY <1>1, <2>2 DEF ViewsOf
<1>2. CASE conn'[z] # "up"
    BY <1>2 DEF ViewsOf
<1> QED BY <1>1, <1>2

LEMMA OthersViewsStay ==
    ASSUME NEW s \in Sockets, Views, Others(s), ViewsOf(s)',
           \A z \in Sockets \ {s} :
              store'[SubscriptionsKey(z)] \subseteq store[SubscriptionsKey(z)]
    PROVE  Views'
<1>1. ASSUME NEW z \in Sockets \ {s} PROVE ViewsOf(z)'
  <2>1. ViewsOf(z) /\ Kept(z)
      BY DEF Views, Others
  <2> QED BY <2>1, ViewsStay DEF Kept
<1> QED BY <1>1 DEF Views

\* The loop of a subscription comes round with todo left, having told nobody yet.
LEMMA SubscribingProgress ==
    ASSUME NEW s \in Sockets, Base, conn[s] = "up",
           NEW m, NEW todo \in Seq(Tables), NEW all \in Seq(Tables),
           m.todo = todo, m.all = all, UNCHANGED told,
           IF todo = <<>> THEN m.pc = "expire" /\ UNCHANGED rooms
           ELSE m.pc = "sadd" /\ rooms' = [rooms EXCEPT ![s] = Joined(s, Head(todo))],
           told[s] \subseteq TableRooms(s),
           TableRooms(s) \cup Range(todo) = told[s] \cup Range(all),
           store'[SubscriptionsKey(s)] \subseteq TableRooms(s)
    PROVE  ProgressOf(s, m)'
<1>1. CASE todo = <<>>
  <2>1. TableRooms(s)' = TableRooms(s) /\ Range(todo) = {}
      BY <1>1, RangeOfList DEF TableRooms
  <2> QED BY <1>1, <2>1 DEF ProgressOf
<1>2. CASE todo # <<>>
  <2>1. Head(todo) \in Tables /\ Head(todo) \in Range(todo)
      BY <1>2, RangeOfList
  <2>2. TableRooms(s)' = TableRooms(s) \cup {Head(todo)}
      BY <1>2, <2>1, JoinedRooms DEF Base, TypeOK
  <2> QED BY <1>2, <2>1, <2>2 DEF ProgressOf
<1> QED BY <1>1, <1>2

\* The loop of an unsubscription comes round with todo left, or has ended.
LEMMA UnsubscribingProgress ==
    ASSUME NEW s \in Sockets, Base, conn[s] = "up",
           NEW m, NEW todo \in Seq(Tables), NEW all \in Seq(Tables),
           IF todo = <<>> THEN m.pc = "idle" /\ TellGone(s, all) /\ UNCHANGED rooms
           ELSE /\ m.pc = "srem" /\ m.todo = todo /\ m.all = all /\ UNCHANGED told
                /\ rooms' = [rooms EXCEPT ![s] = Left(s, Head(todo))],
           TableRooms(s) \subseteq told[s], told[s] \ Range(all) \subseteq TableRooms(s),
           TableRooms(s) \cap Range(all) \subseteq Range(todo),
           Range(todo) \subseteq Range(all),
           store'[SubscriptionsKey(s)] \subseteq TableRooms(s)
    PROVE  ProgressOf(s, m)'
<1>1. CASE todo = <<>>
  <2>1. TableRooms(s)' = TableRooms(s) /\ Range(todo) = {}
      BY <1>1, RangeOfList DEF TableRooms
  <2>2. told'[s] = told[s] \ Range(all)
      BY <1>1 DEF TellGone, Base, TypeOK
  <2> QED BY <1>1, <2>1, <2>2 DEF ProgressOf
<1>2. CASE todo # <<>>
  <2>1. Head(todo) \in Tables /\ Head(todo) \in Range(todo)
      BY <1>2, RangeOfList
  <2>2. TableRooms(s)' = TableRooms(s) \ {Head(todo)}
      BY <1>2, <2>1, LeftRooms DEF Base, TypeOK
  <2> QED BY <1>2, <2>1, <2>2 DEF ProgressOf
<1> QED BY <1>1, <1>2

LEMMA NextKeepsViews ==
    ASSUME NEW slot, Slots = {slot}, HasRedis, "redisError" \notin Faults
    PROVE  Base /\ Views /\ [Next]_vars => Views'
<1> SUFFICES ASSUME Base, Views, [Next]_vars PROVE Views'
    OBVIOUS
<1>1. ASSUME NEW s \in Sockets, NEW u \in Users \cup {NoUser}, Connect(s, u)
      PROVE  Views'
  <2>1. /\ Others(s) /\ conn[s] = "new" /\ conn'[s] # "new"
        /\ UNCHANGED <<rooms, message, store, told>>
      BY <1>1, ConnectGives
  <2>2. /\ rooms[s] = {} /\ told[s] = {} /\ store[SubscriptionsKey(s)] = {}
        /\ \A k \in Slots : message[s][k].pc = "idle"
      BY <2>1 DEF Base, LocalsOf, Views, ViewsOf
  <2>3. TableRooms(s)' = {}
      BY <2>1, <2>2 DEF TableRooms
  <2>4. ViewsOf(s)'
      BY <2>1, <2>2, <2>3 DEF ViewsOf, ProgressOf
  <2> QED BY <2>1, <2>4, OthersViewsStay
<1>2. ASSUME NEW s \in Sockets, Disconnect(s) \/ Reconnect(s) \/ TokenExpires(s)
      PROVE  Views'
  <2>1. CASE Goes(s)
    <3>1. Others(s) /\ conn'[s] = "down" /\ UNCHANGED store
        BY <2>1, GoesGives
    <3>2. ViewsOf(s)'
        BY <3>1 DEF ViewsOf
    <3> QED BY <3>1, <3>2, OthersViewsStay
  <2>2. CASE UNCHANGED <<conn, rooms, message, store, told>>
      BY <2>2, ViewsStay DEF Views
  <2> QED BY <1>2, <2>1, <2>2, DisconnectGoes, ReconnectGives, TokenExpiresGives
<1>3. ASSUME NEW s \in Sockets, SaveConnection(s) PROVE Views'
  <2>1. /\ connecting[s] \in Connecting /\ ConnectionCommand(s) /\ owner[s] \in Users
        /\ UNCHANGED <<conn, rooms, message, told>>
      BY <1>3, SaveConnectionGives DEF Base, LocalsOf
  <2>2. \A z \in Sockets : store'[SubscriptionsKey(z)] = store[SubscriptionsKey(z)]
      BY <2>1, ConnectionCommandGives, KeysAreKeys, KeysDiffer DEF Connecting, OnlyAt
  <2> QED BY <2>1, <2>2, ViewsStay DEF Views
<1>4. ASSUME NEW s \in Sockets, CleanUp(s) PROVE Views'
  <2>1. /\ disconnecting[s] \in Disconnecting /\ DisconnectionCommand(s)
        /\ UNCHANGED <<conn, rooms, message, told>> /\ owner[s] \in Users
      BY <1>4, CleanUpGives DEF Base, LocalsOf
  <2>2. \A z \in Sockets :
           store'[SubscriptionsKey(z)] \subseteq store[SubscriptionsKey(z)]
      BY <2>1, DisconnectionCommandGives, KeysAreKeys, KeysDiffer
         DEF Disconnecting, OnlyAt
  <2> QED BY <2>1, <2>2, ViewsStay DEF Views
<1>5. ASSUME NEW s \in Sockets, NEW k \in Slots, NEW tables \in TableLists,
             Subscribe(s, k, tables) \/ Unsubscribe(s, k, tables)
      PROVE  Views'
  <2>1. /\ Handles(s, k) /\ conn[s] = "up" /\ message[s][k].pc = "idle"
        /\ UNCHANGED <<store, conn>> /\ tables \in Seq(Tables) /\ Others(s)
      BY <1>5, SubscribeGives, UnsubscribeGives DEF Handles
  <2>2. TableRooms(s) = told[s] /\ store[SubscriptionsKey(s)] \subseteq told[s]
      BY <2>1 DEF Views, ViewsOf, ProgressOf
  <2>3. PICK m : m = message'[s][k]
      OBVIOUS
  <2>4. ProgressOf(s, m)'
    <3>1. CASE Subscribe(s, k, tables)
      <4>1. /\ UNCHANGED told /\ m.todo = tables /\ m.all = tables
            /\ IF tables = <<>> THEN m.pc = "expire" /\ UNCHANGED rooms
               ELSE /\ m.pc = "sadd"
                    /\ rooms' = [rooms EXCEPT ![s] = Joined(s, Head(tables))]
          BY <2>3, <3>1, SubscribeGives
      <4>2. told[s] \subseteq TableRooms(s)
          BY <2>2
      <4>3. TableRooms(s) \cup Range(tables) = told[s] \cup Range(tables)
          BY <2>2
      <4>4. store'[SubscriptionsKey(s)] \subseteq TableRooms(s)
          BY <2>1, <2>2
      <4> QED BY <2>1, <4>1, <4>2, <4>3, <4>4, SubscribingProgress
    <3>2. CASE Unsubscribe(s, k, tables)
      <4>1. IF tables = <<>>
            THEN m.pc = "idle" /\ TellGone(s, tables) /\ UNCHANGED rooms
            ELSE /\ m.pc = "srem" /\ m.todo = tables /\ m.all = tables
                 /\ UNCHANGED told
                 /\ rooms' = [rooms EXCEPT ![s] = Left(s, Head(tables))]
          BY <2>3, <3>2, UnsubscribeGives
      <4>2. /\ TableRooms(s) \subseteq told[s]
            /\ told[s] \ Range(tables) \subseteq TableRooms(s)
            /\ TableRooms(s) \cap Range(tables) \subseteq Range(tables)
            /\ store'[SubscriptionsKey(s)] \subseteq TableRooms(s)
          BY <2>1, <2>2
      <4> QED BY <2>1, <4>1, <4>2, UnsubscribingProgress
    <3> QED BY <1>5, <3>1, <3>2
  <2>5. ViewsOf(s)'
    <3>1. \A j \in Slots : ProgressOf(s, message[s][j])'
      <4>1. \A j \in Slots : message'[s][j] = m
          BY <2>3
      <4> QED BY <2>4, <4>1 DEF ProgressOf
    <3> QED BY <2>1, <3>1 DEF ViewsOf
  <2> QED BY <2>1, <2>5, OthersViewsStay
<1>6. ASSUME NEW s \in Sockets, NEW k \in Slots, HandleMessage(s, k) PROVE Views'
  <2>1. PICK q, m : q = message[s][k] /\ m = message'[s][k]
      OBVIOUS
  <2>2. /\ Handles(s, k) /\ Others(s) /\ conn[s] # "new" /\ conn' = conn
        /\ q.pc \in Handling /\ MessageCommand(s, k)
        /\ q.todo \in Seq(Tables) /\ q.all \in Seq(Tables)
        /\ q.pc \in {"sadd", "srem"} => q.todo # <<>>
      BY <1>6, <2>1, HandleMessageGives DEF Handles, Base, LocalsOf
  <2>3. \A z \in Sockets \ {s} : store'[SubscriptionsKey(z)] = store[SubscriptionsKey(z)]
      BY <2>1, <2>2, MessageCommandGives, KeysAreKeys, KeysDiffer DEF OnlyAt
  <2>4. ASSUME conn[s] = "up" PROVE ProgressOf(s, m)'
    <3>1. ProgressOf(s, q)
        BY <2>1, <2>4 DEF Views, ViewsOf
    <3>2. CASE q.pc = "sadd"
      <4>1. PICK rest \in Seq(Tables) : rest = Tail(q.todo)
          BY <2>2, <3>2, RangeOfList
      <4>2. /\ Head(q.todo) \in TableRooms(s)
            /\ Range(q.todo) = {Head(q.todo)} \cup Range(rest)
            /\ told[s] \subseteq TableRooms(s)
            /\ TableRooms(s) \cup Range(q.todo) = told[s] \cup Range(q.all)
            /\ store[SubscriptionsKey(s)] \subseteq TableRooms(s)
          BY <2>2, <3>1, <3>2, <4>1, RangeOfList DEF ProgressOf
      <4>3. TableRooms(s) \cup Range(rest) = told[s] \cup Range(q.all)
          BY <4>2
      <4>4. store'[SubscriptionsKey(s)] \subseteq TableRooms(s)
        <5>1. store'[SubscriptionsKey(s)] =
                 store[SubscriptionsKey(s)] \cup {Head(q.todo)}
            BY <2>1, <2>2, <3>2, MessageCommandGives
        <5> QED BY <4>2, <5>1
      <4>5. /\ UNCHANGED told /\ m.all = q.all /\ m.todo = rest
            /\ IF rest = <<>> THEN m.pc = "expire" /\ UNCHANGED rooms
               ELSE /\ m.pc = "sadd"
                    /\ rooms' = [rooms EXCEPT ![s] = Joined(s, Head(rest))]
          BY <1>6, <2>1, <3>2, <4>1, HandleMessageGives
      <4> QED BY <2>2, <2>4, <4>2, <4>3, <4>4, <4>5, SubscribingProgress
    <3>3. CASE q.pc = "srem"
      <4>1. PICK rest \in Seq(Tables) : rest = Tail(q.todo)
          BY <2>2, <3>3, RangeOfList
      <4>2. /\ Head(q.todo) \notin TableRooms(s)
            /\ Range(q.todo) = {Head(q.todo)} \cup Range(rest)
            /\ TableRooms(s) \subseteq told[s] /\ Range(q.todo) \subseteq Range(q.all)
            /\ told[s] \ Range(q.all) \subseteq TableRooms(s)
            /\ TableRooms(s) \cap Range(q.all) \subseteq Range(q.todo)
            /\ store[SubscriptionsKey(s)] \subseteq TableRooms(s) \cup {Head(q.todo)}
          BY <2>2, <3>1, <3>3, <4>1, RangeOfList DEF ProgressOf
      <4>3. TableRooms(s) \cap Range(q.all) \subseteq Range(rest)
          BY <4>2
      <4>4. store'[SubscriptionsKey(s)] \subseteq TableRooms(s)
        <5>1. store'[SubscriptionsKey(s)] = store[SubscriptionsKey(s)] \ {Head(q.todo)}
            BY <2>1, <2>2, <3>3, MessageCommandGives
        <5> QED BY <4>2, <5>1
      <4>5. IF rest = <<>> THEN m.pc = "idle" /\ TellGone(s, q.all) /\ UNCHANGED rooms
            ELSE /\ m.pc = "srem" /\ m.todo = rest /\ m.all = q.all /\ UNCHANGED told
                 /\ rooms' = [rooms EXCEPT ![s] = Left(s, Head(rest))]
          BY <1>6, <2>1, <3>3, <4>1, HandleMessageGives
      <4> QED BY <2>2, <2>4, <4>2, <4>3, <4>4, <4>5, UnsubscribingProgress
    <3>4. CASE q.pc = "expire"
      <4>1. /\ m.pc = "idle" /\ Tell(s, q.all) /\ UNCHANGED rooms /\ store' = store
          BY <1>6, <2>1, <2>2, <3>4, HandleMessageGives, MessageCommandGives
      <4>2. told'[s] = told[s] \cup Range(q.all) /\ TableRooms(s)' = TableRooms(s)
          BY <2>4, <4>1 DEF Tell, TableRooms, Base, TypeOK
      <4> QED BY <3>1, <3>4, <4>1, <4>2 DEF ProgressOf
    <3> QED BY <2>2, <3>2, <3>3, <3>4 DEF Handling
  <2>5. ViewsOf(s)'
    <3>1. conn[s] = "up" => \A j \in Slots : ProgressOf(s, message[s][j])'
      <4>1. \A j \in Slots : message'[s][j] = m
          BY <2>1
      <4> QED BY <2>4, <4>1 DEF ProgressOf
    <3> QED BY <2>2, <3>1 DEF ViewsOf
  <2> QED BY <2>2, <2>3, <2>5, OthersViewsStay
<1>7. ASSUME NEW key \in Keys, TtlPasses(key) PROVE Views'
  <2>1. /\ OnlyAt(key) /\ store'[key] = {} /\ UNCHANGED <<conn, rooms, message, told>>
      BY <1>7, TtlPassesGives
  <2>2. \A z \in Sockets :
           store'[SubscriptionsKey(z)] \subseteq store[SubscriptionsKey(z)]
      BY <2>1, KeysAreKeys DEF OnlyAt
  <2> QED BY <2>1, <2>2, ViewsStay DEF Views
<1>8. CASE Restart
  <2>1. /\ store' = store
        /\ \A z \in Sockets : conn'[z] # "up" /\ conn'[z] \in {conn[z], "down"}
      BY <1>8, RestartGives
  <2> QED BY <2>1, ViewsStay DEF Views
<1>9. CASE UNCHANGED vars
  <2>1. UNCHANGED <<conn, rooms, message, store, told>>
      BY <1>9 DEF vars, handlers, redis, history
  <2> QED BY <2>1, ViewsStay DEF Views
<1>10. ASSUME NEW s \in Sockets, NEW k \in Slots
       PROVE  ~SaveConnectionFails(s) /\ ~CleanUpFails(s) /\ ~HandleMessageFails(s, k)
    BY DEF SaveConnectionFails, CleanUpFails, HandleMessageFails, Rejects
<1> QED BY <1>1, <1>2, <1>3, <1>4, <1>5, <1>6, <1>7, <1>8, <1>9, <1>10
        DEF Next, ConnectionStep, DisconnectionStep, MessageStep

LEMMA InitViews == Init => Views
<1> SUFFICES ASSUME Init, NEW s \in Sockets PROVE ViewsOf(s)
    BY DEF Views
<1>1. conn[s] = "new" /\ store[SubscriptionsKey(s)] = {}
    BY KeysAreKeys DEF Init
<1> QED BY <1>1 DEF ViewsOf

\* For a client that waits for each answer, the tables it was told and the rooms
\* of its socket are the same whenever it waits for none, and Redis records no
\* other subscription, whatever restarts, expires or is renewed meanwhile
\* (subscribeToTables, unsubscribeFromTables).
THEOREM OneAtATime ==
    ASSUME NEW slot, Slots = {slot}, HasRedis, "redisError" \notin Faults
    PROVE  Spec => []ViewsAgree
<1>1. Base /\ Views => ViewsAgree
  <2> SUFFICES ASSUME Views, NEW s \in Sockets, conn[s] = "up", Idle(s)
               PROVE  /\ TableRooms(s) = told[s]
                      /\ store[SubscriptionsKey(s)] \subseteq told[s]
      BY DEF ViewsAgree
  <2>1. message[s][slot].pc = "idle"
      BY DEF Idle, Running
  <2>2. ProgressOf(s, message[s][slot])
      BY DEF Views, ViewsOf
  <2> QED BY <2>1, <2>2 DEF ProgressOf
<1> QED BY <1>1, InitViews, BaseInvariance, NextKeepsViews, PTL DEF Spec

=============================================================================
