# Verification of the todo-master backend in TLA+

todo-master is a todo application: a NestJS backend (`src/backend`) and a React
Native client (`src/frontend`). Most of its own logic is in the backend: sessions
and their tokens, the two records of a user (at Supabase and in PostgreSQL), the
strategies of authentication, the WebSocket sessions with their Redis keys, goals
and plans with the events that announce them, the realtime providers, and the
health checks. The client keeps the other half of a session: its tokens and its
store.

The modules here are models of that code. TLC checks them on small instances;
TLAPS proves their safety properties for every value of their constants.
`PROJECT.json` maps each definition to the lines it models and lists the hazards the
properties are aimed at.

## 1. The system

| Component | State | Operations | Modelled in |
|---|---|---|---|
| Sessions: `TokenService`, `register`, `login`, `logout`, `refresh`, JWT branch of `UnifiedAuthGuard` | `users.refresh_token`, the tokens clients hold, the session in the shared Supabase client | register, sign in, refresh (against the stored hash, or by signature when the database is away), log out | `TokenService` |
| Accounts: `register`, `syncSupabaseUser`, Supabase branch of the guard, `UsersService` | accounts at Supabase, rows of `users` and their `supabase_id` | register, sign in, admit a Supabase token, create and remove users | `AccountSync` |
| WebSocket sessions: `WebsocketGateway`, `WebsocketService` | `socketUserMap`, `reconnectAttempts`, Socket.IO rooms, three families of Redis keys | connect, disconnect, subscribe, unsubscribe, reconnect | `WebsocketService` |
| Goals and plans: their services, repositories, and the cascade of the schema | tables `goals`, `plans` | create, update, updateStatus, remove | `GoalEvents` |
| Events: `UnifiedRealtimeService.broadcast`, `RealtimeService`, `BroadcastService` | none that outlives a call | announce a change; hand on a change from Supabase's feed | `GoalEvents` |
| Realtime providers: `UnifiedRealtimeService` and two adapters | current adapter, tracked connections and subscriptions, channels of the Supabase adapter | start, connect, disconnect, subscribe, unsubscribe, broadcast, fall back, switch | `RealtimeProvider` |
| Mobile client session: `authStore`, `api.service` | tokens in AsyncStorage, the store and its persisted copy | login, register, logout, checkAuthStatus, refreshSession | `ClientSession` |
| Auth providers: `JwtAuthProvider`, `SupabaseAuthProvider`, `StrategicAuthGuard` | rows of `users`, accounts at Supabase, tokens | register, login, verifyToken, refreshToken, updateUser, deleteUser | `AuthProviders` |
| Health checks: `HealthService`, `HealthController` | none that outlives a call | brief and detailed check, checks of the database and of Supabase | `Health` |
| DTOs and forms of signing in and up | none | validate | `ClientSession` (`FormsAgree`) |
| `RealtimeMediatorService`, glue, configuration, other DTOs, screens | | | not modelled: dead, stateless, or presentation |

How they interact. Controllers call services; services await Prisma, Supabase and
Redis; each await lets the handlers of other requests run. The guard precedes
every protected handler and may itself write (`syncSupabaseUser`). `goals` and
`plans` announce what they wrote through `UnifiedRealtimeService`, which ends in
an emit to a Socket.IO room that `WebsocketService` filled; the change feed of
Supabase reaches the same rooms by `RealtimeService` and the event emitter. The
client calls the session endpoints with the tokens it keeps; what it may count on is
`SessionContract`, which `TokenService` implements and `ClientSession` uses as its
server. `AUTH_PROVIDER` chooses one of two strategies by `NODE_ENV`; the guard in
front of them, `StrategicAuthGuard`, is registered, and `UnifiedAuthGuard` is the one
the application installs.

What is hard about it:

- *Interleaving at awaits.* Node.js runs one continuation at a time, so a race is
  always a check before an await and a use after it: compare and store a refresh
  token, find and link a row, check an owner and write by id, connect and
  disconnect a socket while Redis is asked.
- *Partial failure.* Most errors are logged and ignored: tokens are returned
  although their hash was not stored, registration goes on without a row, a
  disconnection stops in the middle of its clean-up. A statement whose answer is
  lost may have been applied.
- *Outages.* The refresh has a second path that trusts signatures while the
  database cannot be reached.
- *Restarts* lose what a process remembers and keep what Redis and PostgreSQL do.
- *Time.* Tokens and Redis keys expire at any moment.
- *Shared state.* One Supabase client serves the requests of all users.

What makes each component correct:

- Sessions: a refresh never changes identity; after a logout nothing reopens the
  session; every token descends from a sign-in.
- Accounts: a row is linked to an account of its own email; tokens name a user and
  that user's email; racing sign-ins agree on one row.
- WebSocket: rooms only for open, known sockets; what the client was told, the
  rooms and Redis agree; every trace of a closed socket goes, at the latest by its
  time to live.
- Realtime providers: whatever was subscribed is served by the provider in use; no
  channel is kept for nobody; a broadcast reaches its room once.
- Client: what the store shows is what the tokens say; the two tokens belong together;
  a logout leaves nothing to come back with.
- Strategies: tokens and sign-ins are about one person.
- Health: a reply says of a service what its own query found, and that all is well
  only if all queries found so.
- Goals and plans: goals are removed by their owners, plans by a request that names
  theirs; one of several racing removals succeeds; no event lies about a removal or
  its addressee.

## 2. The modules

Each component's module has one action per step between two awaits: a request's
`pc` names the call it is waiting for, the action applies that call's effect and
runs the handler to its next await. `MC*.tla` adds what TLC needs (symmetry,
views, values of constants). `*_proofs.tla` holds theorems.

### TokenService

`row[u]` is `users.refresh_token`; `tokens` are the tokens in the hands of clients;
`req` the requests; `db` whether PostgreSQL answers; `clientSession` and `supaOpen`
the session of the shared Supabase client; `session` is a history variable (never
signed in, open, closed by a logout).

- A hash is represented by the subject of the token it was made from (`HashOf`):
  bcrypt reads 72 bytes, and the first 72 of all tokens of one user are the same
  (header, and payload beginning with `sub`), so a comparison tells users apart and
  nothing else. This is what the code does, not a simplification.
- `StartLogin, SignIn, Sync, Store, Reply` are `login`; `StartRegister, CreateAccount,
  Sync, Store, Reply` are `register`, the other place where a hash is stored and
  tokens are given; `StartRefresh, FindUser, Compare | JwtVerify, Store, Reply` are
  `refresh` with `TokenService.refreshToken` and `generateTokens`; `StartLogout,
  ClearHash, SignOut` are `logout`. `Admit` is the JWT branch of the guard. `Sync`
  stands for `syncSupabaseUser`, which `AccountSync` details; a registration that goes
  on with the account's id, and a sign-in that recreates a deleted row, concern
  another user than `row` tells apart, and end as `moved`.
- `DbDown`, `DbUp`, `Restart`, `DeleteUser`, failing statements and expiry of
  tokens are the environment.

### AccountSync

`accounts` and `rows` are the two records, `req` the requests, `minted` the payloads
signed; `accountIds` and `rowIds` remember every id with its email. `SyncFind,
SyncLink, SyncUpdate, SyncCreate` are `syncSupabaseUser`, run by `register` (which
goes on when it fails), `login` and the guard (which do not). `Insertable` is the
primary key and the unique columns of the schema. `CreateUserCheck/Insert` and
`RemoveUserFind/Delete` are `UsersService.create` and `remove`.

Abstractions: emails as Supabase returns them (lower-cased); the email of a row does
not change, since no operation writes it; `UsersService.update` writes no modelled
column; the text of answers is left out. The client of `UsersService.create` sends any
id (`CreateUserDto` asks for a UUID only): one nobody has, one of a row that was
removed, or one of anybody's account. `MaxRows` bounds how many pairs of id and email
there may ever be.

### WebsocketService

`conn`, `owner`, `token` are the transport and the handshake; `socketUserMap`,
`attempts` and `rooms` the memory of the process; `store` and `ttl` are Redis;
`connecting`, `disconnecting` and `message` the progress of the three kinds of
handler, which may overlap for one socket; `told` and `overtaken` are history. Redis
is Upstash over HTTP: each command takes effect some time after it was sent, and may
fail before or after it did. Commands on a key whose last member goes remove its time
to live too, as Redis does. `HasRedis = FALSE` is the branch without configuration;
it is in the model and no run instantiates it. Ping and `updateLastActivity` change
only timestamps and are left out. Joins after the socket closed do nothing, as in
Socket.IO.

### GoalEvents

`state`, `goalOf`, `owner` are the tables (`owner[p]` of a plan is derived from its
goal and kept when both are gone, as what `AddressedToOwner` is compared with);
`users` the rows that own goals; `req` the requests; `feed` what Supabase may report;
`events` what subscribers were sent. `CheckUser | CheckGoal | CheckOwner` is the read
before the write, `InsertGoal | InsertPlan | UpdateRow | DeleteRow` the write,
`RereadPlan` the read after a plan's insert, `Announce` the broadcast, whose failure
is logged only (`broadcastError`). A request knows its `caller`, whom the guard
admitted, and the `user` it acts for: `GoalsController` passes on the caller,
`PlansController` the `userId` of the query string, which may be anybody's.
`HandleRealtimeChange` is the feed's path, with the changes it drops: plans have no
`user_id`, and the old record of a DELETE holds the key only.

Abstractions: contents of rows; `UsersService.remove` as one statement (its read only
decides which error is returned; in detail in `AccountSync`); ids are never used
twice; which sockets are in the room of a table (`WebsocketService`). Nobody is in
`user:<id>`: sockets join `table:<t>` and `user:<id>:table:<t>` only, so emits to the
user's room are left out. For either provider `broadcast` ends in the same emit; that
it asks for the provider again after awaiting the adapter is modelled in
`RealtimeProvider`.

### SessionContract

The abstract session: `session[u]` and the set `renewable` of users whose stored hash
can still renew their tokens. `Open, Renew, Forget, Close` are all a user's session
can do. `TokenService.Contract` is its instance with `renewable` mapped to the users
whose row holds a hash, and `TokenService.ImplementsContract` the refinement;
`ClientSession.Server` is its instance with the contract's own variables.

### RealtimeProvider

`current` is the provider in use; `subscriptions` what `UnifiedRealtimeService` tracks
(one table set per user); `userSubs` and `channels` the two maps of the Supabase
adapter; `call` the calls in progress; `excused` a history of the subscriptions that
met one of the gaps of section 6: their channel was being removed or could not be made
while they were subscribed, the provider changed or a migration passed before they
were tracked, or they were unsubscribed before they were tracked. `AdapterSubscribe`
and `UnsubscribeLoop` are the Supabase adapter; the WebSocket adapter keeps nothing.
`Boot` is `onModuleInit`; `HandleAdapterError, AskFallback` lead to `AskHealth,
Migrate, Switched`, which are `switchProvider`.

Abstractions: the program itself calls `broadcast` and starts the service; the other
methods are its public interface (`docs/realtime-migration-guide.md`), called in any
order. The adapters' promises are already resolved when they return, so other
continuations run before the next line only in part of the orders the model allows. A
start that fails is tried again. Emits to the user's room are left out as above.

### ClientSession

`access`, `refresh` and `persisted` are in AsyncStorage; `user` and `isLoading` in the
store; `call` the calls of the store in progress; `session` and `renewable` the
server. `SignIn, Logout, CheckAuthStatus` begin a call; `ReadToken, Fetch` are
`ApiService.request`; `StoreAccess, StoreRefresh` and `ClearAccess, ClearRefresh` the
two awaits of `setAuthTokens` and `clearAuthTokens`; `SetUser, DropUser, LeaveUser`
the `set()` that ends a call. `Restart` kills the app; `persist` writes when it gets
to it. `staleView`, `tornTokens`, `quiet` and `out` are history: `quiet` has the
logouts that the server carried out and answered and since whose answer no call has
been asking for tokens. Reading and writing AsyncStorage may both fail.

Abstractions: `isAuthenticated` is written together with `user` everywhere, so it is
`user # None`. One device. Replies are those that `ApiService` declares
(`TransformInterceptor` wraps them one level deeper, and the server has no `/api/v1`,
section 6). Rehydration of the store happens with the restart. `App.tsx` shows
`HomeScreen` only and nothing calls `checkAuthStatus` yet: the model is of the store's
public interface. The calls about goals, `clearError`, the forgotten-password form
(which has no request) and `handleSave` (whose service does not exist) are left out.
The fields of the forms hold what their rules tell apart; what was typed travels in
the request (`typed`), and the server answers what its `ValidationPipe` refuses with
an error.

### AuthProviders

`provider` is the strategy chosen at start; `rows`, `accounts` and `minted` as in
`AccountSync`, with rows that have a password or not; `rowIds` and `accountIds`
remember every id with each email it had (`Renamed`: a row's id had two). A method
arrives together with its first await (`Register`, `LoginJwt`, `LoginSupabase`,
`VerifyJwt`, `VerifySupabase`, `RefreshToken`, `DeleteUser`, `CreateUser`), since
nothing is read or written before it. `InsertUser` and `CreateAccount` go on with the
two `register`s; `SyncFind, SyncLink, SyncTouch, SyncCreate` are the
`syncSupabaseUser` of the provider, a relative of the one in `AccountSync` that only
`register` survives. `VerifyJwt` and `VerifySupabase` are asked by the guard; `Return`
is the handler behind it. `CreateUser` and `CreateInsert` are `UsersService.create`,
with any id its client sends. `MaxRows`, `MaxAccounts` and `MaxTokens` bound the pairs
of id and email of rows, those of accounts, and the payloads signed.

Left out: the providers' `logout` (it clears the hash, which belongs to
`TokenService`, and swallows its errors), the reads `getUserById` and
`getUserByEmail`, and `SupabaseAuthGuard`, which nothing uses.

### Health

`check` is one record per check in progress: the results collected so far, then the
reply; `up` which queries would be answered; `seen` remembers what each query could
find while it was out. The brief check and the check of Supabase ask it through
`SupabaseService`, the detailed one through `RealtimeService.testConnection`, with
another client and another query: `up` has an entry for each, and `QueryOf` says which
of them a reply shows. `Start` sends all queries of a check at once, `Answered` and
`Failed` settle one, `Report` replies when all have settled (`Promise.allSettled`).

Abstractions: latencies, versions and texts; the memory of the process, which is shown
and not counted. The WebSocket service is up in every reply, as in the code, which
asks nobody. Supabase and the realtime service are always present: without their
settings the program does not start.

## 3. The runs

Passing runs:

| Run | Shows | Bounds and why they are enough |
|---|---|---|
| `TokenService_faults` | `TypeOK`, `RefreshKeepsIdentity`, `LogoutCloses`, `SignInFirst`, and `ImplementsContract` (every behaviour is one of `SessionContract`) with every fault | Two users (identities can be confused), two requests at a time (a race has two parties, any number of requests in sequence). The view drops the Supabase session, which no action reads back |
| `TokenService_live` | `EveryRequestAnswered` | One user, two requests |
| `AccountSync_removals` | `LinkSound`, `TokensNameOwner` while rows are removed and created again with any id | Two emails, three ids, three pairs of id and email in the table (`MaxRows`): two rows and one that is used again or replaced; two requests |
| `AccountSync_race` | `TypeOK`, `SignInsAgree`, and `LinkSound` without its exception, with failing statements and deleted accounts, rows created with any id, none removed | As above; `MaxRows` is 6, all the pairs there are |
| `WebsocketService_faults` | `ConnectedIsRegistered` with failing Redis calls and restarts | Two sockets of one user share the keys of that user; one table |
| `WebsocketService_live` | `TypeOK`, `TracesExpire`, `ViewsAgree`, `CleanAfterDisconnect`, `ForgottenInTheEnd` while tokens and keys expire | One socket, one message at a time (a client that waits for its answers), lists of no, one and two tables so that loops are entered, left and overtaken in between; two reconnect attempts |
| `GoalEvents_faults` | `TypeOK`, `OnlyOwnerRemoves`, `AddressedToOwner`, `NoFalseDelete`, `RemovedOnce` with failing statements and announcements, restarts and users removed | Two users, a goal with a plan (one cascade), two requests. The view drops what no action reads again: the caller named with a plan, the rest of an answered request, the changes the feed drops |
| `RealtimeProvider_faults` | `TypeOK`, `Served`, `NoChannelLeaks`, `EmittedOnce` with a failing adapter, up to what `excused` and `met` name | Two users (one may keep the other's channel), one table, two calls at a time (a switch and whatever meets it) |
| `ClientSession_faults` | `TypeOK`, `ViewNamesToken`, `TokensPaired`, `LogoutComplete`, `LoadingMeansWork`, `FormsAgree` with lost answers, a failing storage, killed apps and server outages, up to what the history names (section 6) | Two users (the device changes hands), two overlapping calls. The view drops what was typed once it is answered, and headers and answers that nothing looks at |
| `AuthProviders_faults` | `TypeOK`, `TokensNameOwner`, `SignedInAsOwner`, failing statements, deleted accounts, any id created | Two emails (a row can be another's), three ids (two accounts and a row, or an account and two rows), two pairs of id and email in the table (two rows, or one renamed or used again: `MaxRows`), two accounts ever (`MaxAccounts`: of two people, or one made again), two payloads (`MaxTokens`), two calls. The view drops how a call came by its AuthUser |
| `Health_faults` | `TypeOK`, `ReportsJustified` with failing queries | One check of any kind at a time, since checks share no state; every query answered or not at first |

The bounds are the sets in the configurations, `MaxRows`, `MaxAccounts` and `MaxTokens`;
a view drops what neither an action nor a property reads, so that states that differ in
nothing else are explored once. No counter of a model is capped other than
`reconnectAttempts`, which the code caps (`MAX_RECONNECT_ATTEMPTS`, 2 here instead of
5). The proofs hold for any value of them. Rows and ids are finite supplies:
`AccountSync` may exhaust its ids and `WebsocketService` its sockets, as `AuthProviders`
its ids, which is why these runs do not check for deadlock. `WebsocketService_live` has
no failing calls: with them `TracesExpire` does not hold, by design of the code, which
gives up at the first error, and neither does `ViewsAgree`; its one slot is what
`ViewsAgree` needs too (section 6). `CleanAfterDisconnect` is about disconnections that
went through, and holds with every fault (`NothingIsLeft`).

One run shows a disagreement (section 5): `TokenService_reopen`.

Symmetry is used in runs of safety properties only, over sets whose elements no
definition tells apart.

### Fairness

- `TokenService.Fairness`, `WebsocketService.Fairness`: weak fairness of the steps of
  each handler. Node.js runs every continuation whose promise settles, and the awaited
  calls (Prisma, Supabase, Upstash over HTTP) settle with a result, an error or a
  timeout; Prisma rejects when the server cannot be reached. Nothing is assumed of
  clients, outages or restarts: the database may stay down.
- `WebsocketService.Fairness` also has weak fairness of the expiry of each key with a
  time to live. The model renews it where the code does; a key that is renewed again
  and again may live on, and `ForgottenInTheEnd` is about sockets that have closed.

The safety of the other modules needs no fairness. `Health` has no liveness property:
no check has a timeout of its own, and a query that is never answered keeps its reply
waiting.

## 4. The proofs

The invariance proofs are of the form `Init => IInv`, `IInv /\ [Next]_vars => IInv'` and
`IInv => property`, with one case per action. They assume only the module's
`ConstantsAssumption` (the faults and operations are among the known ones, the
markers are not users, ids or emails, goals are not plans), so they hold for any
number of users, emails, ids, goals, plans and requests at a time, with any faults.
`AuthProviders` and `ClientSession` also assume that null is not a user and not a token
(`NoUserAssumption`, `NoTokenAssumption`). Theorems that need more say so in their
statement: `LoginsAgree` is about a program in which no user is removed, three of
`WebsocketService_proofs` name the faults that break them.

`TokenService_proofs`: `TypeCorrect`, `RefreshIdentity`, `LogoutIsFinal`,
`TokensDescendFromSignIn`. The properties are not inductive alone: for whom a request
signs depends on the hash it read several awaits before. `IInv` adds `HashOwner`, that a
stored hash is of a token of its user, `Locals`, which says what the locals of a request
hold at each step (the operation a step belongs to, the row it compared, the subject
it will sign), and `OnlySigningIn` (a user who never signed in appears only in
requests that wait for Supabase).

`AccountSync_proofs`: `TypeCorrect`, `LinksAreSound`, `TokenSubjects`, `LoginsAgree`.
`LinkSound` needs that the row found by a request some awaits ago, which may have been
removed, belonged to the request's email: whatever row has the id at the time of the
update is then one of that email too, or its id was used again for another (`Reused`),
which a client of `UsersService.create` may do. `IInv` has this as `Carried` and
`HistoryComplete`. `LoginsAgree` (no two sign-ins of one email are given different
rows) is the run `AccountSync_race` for any number of racing requests. It adds
`NobodyRemoves` and `RowsStand`: without removals every row that was ever there still
is, and the unique column on emails keeps a second one out, so whichever request
inserted the row, the others find it or fail.

`GoalEvents_proofs`: `TypeCorrect`, `EventsNameOwners`, `DeletesAreTrue`,
`RemovalsAreOnce` and, of every step, `OwnersRemove`. A handler
acts on what it read before an await. That is sound because a row's owner and goal
never change and a row never comes back (`RowsStay`, proved of every step): what a
request carries (`Carried`) then survives the steps of the others, and `Rows` and
`Mentions` say that requests, feed and events are only about rows that were there. A
removal that succeeded has left its row gone (`Carried`), so the delete of another one
that passed the same check meets no row and fails. `OwnerRemoves` does not say that the
caller owns a plan: for plans the user compared is the one the request names.

`TokenService_proofs.Refinement` shows that `TokenService` implements
`SessionContract`: each step of a request is mapped to a step of the contract or to a
stutter (`OpenRefines`, `StoreRefines`, `ClearRefines`, `DeleteRefines`). It rests on
`IInv`: who is about to store a hash has an open session because no closed session has
a granted request (`LogoutCloses`) and none that never began has a subject
(`SignInFirst`); who logs out has a session because whoever never signed in is only
waiting to (`OnlySigningIn`). `OnlyOpenSessionsRenew` carries the contract's promise
over to the service: `ContractSafe` proves it of every behaviour of the contract,
`Refinement` that those of the service are among them.

`AuthProviders_proofs`: `TypeCorrect`, `TokensNameOwners`, `AccountsSignInAsOwners`.
They stand on `OneEmail`: an account keeps its email, while a row's id may have had
several (`Twice`), after `updateUser` or when a client used it again. `Good` says, for
each step of a call, which pair of id and email its locals are bound to, so that a row
read before an await may be renamed, removed, created anew or linked before it is
used; `DataInv` says the same of rows, accounts and tokens.

`Health_proofs`: `TypeCorrect`, `RepliesAreJustified`. `ReportsJustified` speaks of
replies; `Justified` extends it to results collected and queries still out, whose
present answer is among what the query could find. `SaysWell` and `AllUp` relate the
status to the results, for the brief check and for the thresholds of the detailed one.

`ClientSession_proofs`: `TypeCorrect`, `ViewsNameTokens`, `TokensComeInPairs`,
`LogoutsAreComplete`, `LoadingEnds`, `FormsMatch`. The calls of the store are not
serialised, so those about the view and the pair stand on `Solitude`: a call that met
no other still has the stored tokens to itself, and a call that met one has marked the
view and the tokens (`staleView`, `tornTokens`). `Undisturbed` says what such a call
knows of the tokens at each await, `Paired` and `Shown` between which two writes the
tokens and the view may differ: both are claims about calls that do not overlap. A
logout needs less, that nothing asks for tokens beside it: while it is `quiet` the
server keeps no hash and what it cleared stays cleared (`LoggingOut`), and afterwards
there is no token to ask with (`LoggedOut`).

`RealtimeProvider_proofs`: `TypeCorrect`, `TrackedAreServed`, `ChannelsDoNotLeak`,
`BroadcastsEmitOnce`. What `UnifiedRealtimeService` tracks and what the Supabase
adapter keeps change in different steps. `Tracked` is `Served` with the subscriptions
on their way out allowed for (`Ongoing`), and it needs the same of what is about to be
tracked (`ToTrack`) and of the entries a migration has passed (`Migrated`), since both
become what is tracked with the provider in use. `HasChannel` gives each of these a
channel that nobody is about to remove. `Emitted` relates what a broadcast in progress
has emitted to the provider it met. What `excused` and `met` take out is listed in
section 6.

`WebsocketService_proofs`: `TypeCorrect`, `EverythingExpires`,
`CompletedAreRegistered`, `NothingIsLeft`, `OneAtATime`. `Base` says which handlers a
socket may have at each stage and holds whatever happens; upon it stand one invariant
per property, each over the commands a handler still has to send. `TracesExpire` is
inductive upon `Base`, if no command fails and the process does not restart on its way
to the `expire`. `Registered` speaks of the connections in progress too; expiring keys
break it and nothing else does, failing commands included, since a connection that
fails is not completed. `CleanedUp` follows the clean-up of a closed socket through
its three commands, and needs no assumption: once no handler of the socket was
overtaken, only the commands of the clean-up mention it. `Views` is a loop invariant:
how far `subscribeToTables` and `unsubscribeFromTables` have come in the list of a
message, in the rooms and in Redis. It needs one message at a time and commands that
do not fail, and with two messages at a time or failing commands it is false (section
6).

Model-checked only: liveness (`EveryRequestAnswered`, `ForgottenInTheEnd`), which is out
of the prover's reach. Every other property of the passing runs is a theorem.

## 5. What the code does against its own documentation

1. **A logout can be undone by a concurrent refresh** (`TokenService_reopen`).
   `generateTokens` stores the new hash whatever happened since the comparison.
   `src/backend/test/auth.e2e-spec.ts:243` expects a refresh token to be invalid after
   a logout.

## 6. Disagreements without a run

Sessions and accounts:

- A logout ends somebody else's Supabase session: `authentication.service.ts:216` signs
  out the client all requests share, whose session is that of the last user who signed
  in; the comment at `:214` means the one of the user who logs out.
- A registration may sign tokens for an id that is no user's, if its synchronisation
  fails, as it does when another request creates the row first
  (`authentication.service.ts:103`); `auth.types.ts:35` calls `sub` the id of the user.
  `TokensNameOwner` names the exception.
- `UsersService.create` inserts the id its client sends, and `CreateUserDto` asks for any
  UUID (`create-user.dto.ts:15-17`, `user.repository.ts:29`): the id of somebody's account
  at Supabase or of a row that was removed too. The API describes it as the id of the
  user. A row found before an await, removed and created anew under its id for another
  email is then linked to the first one's account (`authentication.service.ts:289`,
  `supabase-auth.provider.ts:394`): `LinkSound` and `SignedInAsOwner` except ids used
  again (`Reused`, `Renamed`), and `AccountSync_race` has `LinkSound` without any.
- Tokens are given although their hash was not stored (`token.service.ts:48-53`); they
  cannot be renewed while the database answers, unless an earlier hash of the user stands.
- `deleteUser` of the Supabase provider reads `supabaseId` after it deleted the row
  (`supabase-auth.provider.ts:290-302`): the account at Supabase always stays
  (`FindAgain`).
- After `updateUser` changed an email, `findFirst` with its OR may find another row than
  the account's (`supabase-auth.provider.ts:383`); `SignedInAsOwner` is stated for rows
  that had one email only.
- `refreshToken` of the providers passes an empty user id (`jwt-auth.provider.ts:184`):
  it is refused unless the database cannot be reached, and the `return` without an
  await skips the catch around it. The providers' `logout` swallows its errors.
- Two registrations racing for one email end in a BadRequest instead of the Conflict a
  check would have given (`jwt-auth.provider.ts:51-107`).
- `auth.module.ts:59` calls `StrategicAuthGuard` the guard in use; `app.module.ts:53`
  installs `UnifiedAuthGuard`.

Realtime and WebSocket:

- A disconnection can leave its session in Redis: `saveConnection`, still running,
  writes after the clean-up (`websocket.service.ts:105`, `websocket.service.spec.ts:162`).
  The traces expire (`TracesExpire`, `ForgottenInTheEnd`).
- The event of a change that was stored may be lost: an error on the way is logged
  (`goals.service.ts:133-136`, `plans.service.ts:146-149`, `broadcast.service.ts:104-106`,
  `unified-realtime.service.ts:249-252`), a gateway without server skips the emit
  (`broadcast.service.ts:97-100`), and a restart in between forgets it. The caller is told
  of success. No property says that a success was announced.
- The change of a plan's status is announced to nobody (`plans.service.ts:96`), although
  `docs/websocket-api.md:195` lists `plans:updated`.
- A failed `subscribe` falls back and ends well, with nothing subscribed or tracked
  (`unified-realtime.service.ts:301`, `docs/realtime-migration-guide.md:242`).
- A table is marked in `userSubs` before its channel is made; when the client throws, a
  retry skips it (`supabase.adapter.ts:74-78`). A channel removed after an await may have
  a new subscriber by then (`:131`).
- A `subscribe` during a migration is tracked for the provider that is left behind
  (`unified-realtime.service.ts:286`), and a broadcast that meets a switch is emitted
  twice or not at all (`:219-224`); the migration guide (`:250`) says that duplicates
  are prevented.
- The fallback is fixed at construction: after a switch a failure falls back to the
  provider in use (`:301`). `disconnect` never takes subscriptions away
  (`supabase.adapter.ts:51-60`). A Supabase provider without its settings, and without
  fallback, accepts subscriptions and serves none.
- What `Served` does not claim because of these: a subscription whose channel was being
  removed or could not be made while it was subscribed, one tracked after the provider
  changed or a migration had passed its user, one unsubscribed before it was tracked
  (`excused`, until it is unsubscribed). `NoChannelLeaks` excuses the channels of the
  same; `EmittedOnce` a broadcast that met an error or a change of provider (`met`).

Client:

- `refreshSession` sends the expired access token with the refresh token
  (`authStore.ts:157`, `api.service.ts:125`), which the guard refuses: the client's
  renewal only works while it is not needed.
- A logout whose token has expired, or that does not reach the server, leaves the
  server's session renewable (`api.service.ts:104-111`, `authStore.ts:88`), although the
  device is signed out. A logout beside which a renewal or a sign-in is in flight can be
  undone by it: the answer stores new tokens after `clearAuthTokens`
  (`authStore.ts:85-110`, `api.service.ts:22`). `LogoutComplete` is about logouts that the
  server carried out and answered, that cleared both tokens, and since whose answer no
  call has been asking for tokens; checks and other logouts may overlap them, restarts
  follow.
- A check of the session in flight across a logout and a login may sign the former
  user in again (`authStore.ts:147`); a token pair torn by a restart can, in an outage
  of the database, change the account (`api.service.ts:22`). `staleView` and
  `tornTokens` mark these: `ViewNamesToken` excuses every overlap of calls, a restart and
  a failing storage, and `TokensPaired` the same, until a call that is alone has put view
  and tokens right. Both are thus about calls one after another.
- A failed renewal signs the store out and leaves the tokens stored.
- The client calls `/api/v1/...` (`api.service.ts:14`), as `backend/docs/README.md:65`
  documents; `main.ts` sets no prefix, so the paths of the controllers are not those. The
  model lets the client reach its server.
- The sign-up form accepts emails that `IsEmail` refuses (`RegisterScreen.tsx:106`,
  `register.dto.ts:15`): the odd ones that `FormsAgree` excepts, which speaks of what the
  sign-up form accepts only.

Health:

- `docs/operations-guide.md:54` shows `healthy` for `/health`, which says `ok`
  (`health.service.ts:81`); the controller documents 503, and a check that finds a
  service down answers 200; `error` of `ServiceStatus` is never produced.
- The brief check and `/health/supabase` count rows through `SupabaseService`
  (`health.service.ts:256-257`), the detailed check selects an id through
  `RealtimeService` (`:292`, `realtime.service.ts:181`): two clients and two queries,
  which may have different answers, under one name `supabase`.

The rest:

- `websocket.gateway.ts:78` clears the attempts of the socket that just connected;
  the spec at `websocket.gateway.spec.ts:343` speaks of the client. A counter per
  socket id never accumulates over the connections of one client.
- Without Redis, `subscribeToTables` returns before it joins any room
  (`websocket.service.ts:111`), and the gateway confirms the subscription
  (`docs/websocket-api.md:85`).
- A subscription that fails in its loop keeps the rooms joined so far, and the client
  is told that it failed (`websocket.service.ts:115`); a subscribe and an unsubscribe
  sent without waiting interleave table by table (`docs/websocket-api.md:151`).
- `unsubscribeFromTables` verifies the token of the handshake again; once it has expired,
  the socket stays in `user:<id>:table:<t>` and is told that it unsubscribed
  (`websocket.service.ts:131`).
- `current-user.decorator.ts:19` prefers `request.supabaseUser` to the local user the
  guard attached (`unified-auth.guard.ts:106`): behind the Supabase branch handlers get
  the id of the account, not of the row.
- `authentication.service.ts:289` links by id a row whose `supabaseId` was read at
  `:288`, before an await.
- The endpoints of plans take the user from the query string (`plans.controller.ts:103`,
  `:126`, `:148`) and not from the admitted request, as those of goals do: the check of
  the owner compares with what the caller sent. `OnlyOwnerRemoves` is stated for the
  caller of goals and for the user named of plans.
- Events are named `goals:insert` and so on (`broadcast.service.ts:38`), documented as
  `goals:created` and so on (`docs/websocket-api.md:153`).
- The feed's INSERT or UPDATE may be emitted after the DELETE a service broadcast, and
  the feed's own DELETE is dropped: a subscriber can end up with a goal that is gone.
- A goal that goes with its user is announced to nobody.
- `api.service.ts` of the client reads `response.data.accessToken`, which
  `TransformInterceptor` wraps one level deeper.

## 7. Plan

Done: `TokenService`, `AccountSync`, `WebsocketService`, `GoalEvents`,
`RealtimeProvider`, `SessionContract` with its refinement, `ClientSession`,
`AuthProviders`, `Health`; the proofs of every safety property of all of them.

Next, in this order:

1. `SubscriptionContract`: a client's subscriptions as one set, implemented by
   `WebsocketService` for clients that wait for their answers; `Views` is the invariant
   its refinement needs.
2. Composition of `GoalEvents` with the rooms of `WebsocketService`: who receives an
   event that is emitted while subscriptions change.
3. The methods of the repositories that have no caller yet (`createGoalWithPlans`,
   `createPlanWithCheckpoints`, `reorderPlans`), when something calls them.

Not planned: the other screens and DTOs, configuration, logging, Swagger and exception
formatting, which keep no state; `RealtimeMediatorService`, which no module provides;
vendored and generated code.
