---------------------------- MODULE ClientSession ----------------------------
(***************************************************************************)
(* The session of the todo-master mobile client: useAuthStore over         *)
(* ApiService, with the tokens in AsyncStorage and the store persisted by  *)
(* zustand.  The server is SessionContract, which TokenService implements. *)
(*                                                                         *)
(* A call of the store is a record that advances by one action per await;  *)
(* calls overlap when more than one is in flight.  isAuthenticated is      *)
(* user # None: every set() of the store writes the two together.  The     *)
(* replies are those that ApiService declares.                             *)
(***************************************************************************)
EXTENDS Naturals, FiniteSets

CONSTANTS
    Users, Calls,
    Faults,     \* a subset of FaultKinds
    None        \* no token, nobody

FaultKinds == {"network", "storage", "crash", "outage"}

ASSUME ConstantsAssumption == Faults \subseteq FaultKinds /\ None \notin Users

VARIABLES
    access,     \* AsyncStorage accessToken: None or [sub, exp]
    refresh,    \* AsyncStorage refreshToken: None or its subject
    persisted,  \* the user in AsyncStorage auth-storage
    user, isLoading,    \* useAuthStore
    call,       \* the call in each slot
    session, renewable, \* the server
    staleView,  \* history: the store may not show what is stored
    tornTokens, \* history: the tokens stored may be of two sign-ins
    quiet,      \* history: the logouts carried out, none asking for tokens since
    out         \* history: whose logout was complete, until a sign-in

vars == <<access, refresh, persisted, user, isLoading, call, session, renewable,
          staleView, tornTokens, quiet, out>>
storage == <<access, refresh>>
server == <<session, renewable>>
history == <<staleView, tornTokens, quiet, out>>

Server == INSTANCE SessionContract

Token == [sub : Users, exp : {"ahead", "past"}]
Maybe == Users \cup {None}

\* null is not a token.
ASSUME NoTokenAssumption == None \notin Token

\* What a field of a form holds, as far as a rule tells it apart.
Emails == {"empty", "malformed", "odd", "good"}   \* IsEmail refuses an odd one
Passwords == {"empty", "short", "plain", "mixed"} \* mixed: both cases, a digit
Names == {"empty", "letter", "name"}

Steps == {"idle", "probe", "read", "fetch", "access", "refresh", "clear",
          "clearRefresh", "renew", "set", "drop", "leave"}
Call == [op : {"none", "signIn", "logout", "check"}, pc : Steps,
         ask : {"none", "login", "register", "logout", "profile", "refresh"},
         who : Maybe,                  \* whose email and password were typed
         typed : Emails \X Passwords,  \* and their kinds, until the answer
         bearer : Token \cup {None},   \* the Authorization header
         body : Maybe,                 \* the refresh token sent
         reply : Maybe,                \* whom the answer is about
         renewed : BOOLEAN,            \* refreshSession has its new tokens
         alone : BOOLEAN]              \* history: no other call overlapped it

Idle == [op |-> "none", pc |-> "idle", ask |-> "none", who |-> None,
         typed |-> <<"empty", "empty">>, bearer |-> None, body |-> None,
         reply |-> None, renewed |-> FALSE, alone |-> FALSE]

TypeOK ==
    /\ access \in Token \cup {None}
    /\ {refresh, persisted, user, out} \subseteq Maybe
    /\ {isLoading, staleView, tornTokens} \subseteq BOOLEAN
    /\ call \in [Calls -> Call]
    /\ \A c \in Calls :
         call[c].pc \in {"access", "refresh", "set"} => call[c].reply \in Users
    /\ quiet \subseteq Calls
    /\ Server!TypeOK

Init ==
    /\ access = None /\ refresh = None /\ persisted = None
    /\ user = None /\ isLoading = FALSE
    /\ call = [c \in Calls |-> Idle]
    /\ Server!Init
    /\ staleView = FALSE /\ tornTokens = FALSE /\ quiet = {} /\ out = None

-----------------------------------------------------------------------------
(* The forms, and the validation of their requests *)

LoginForm(email, password) ==
    /\ email \notin {"empty", "malformed"}
    /\ password \notin {"empty", "short"}

\* Mutant: the sign-up form only requires a password.
RegisterFormLoose(name, email, password, confirm) ==
    /\ name = "name"
    /\ email \notin {"empty", "malformed"}
    /\ password # "empty" /\ confirm = password

RegisterForm(name, email, password, confirm) ==
    /\ name = "name"
    /\ email \notin {"empty", "malformed"}
    /\ password = "mixed" /\ confirm = password

RegisterDto(email, password) == email = "good" /\ password \in {"plain", "mixed"}
LoginDto(email, password) == email = "good" /\ password # "empty"
Valid(q) ==
    \/ q.ask = "login" /\ LoginDto(q.typed[1], q.typed[2])
    \/ q.ask = "register" /\ RegisterDto(q.typed[1], q.typed[2])

-----------------------------------------------------------------------------
(* Helpers *)

AllIdle == \A c \in Calls : call[c].pc = "idle"
Live(t) == t # None /\ t.exp = "ahead"

\* A call asks for tokens, or is about to store some.
Renewing(q) ==
    q.ask \in {"login", "register", "refresh"} \/ q.pc \in {"access", "refresh"}

Unasked == \A c \in Calls : ~Renewing(call[c])

\* The logouts that are still quiet when a call goes on as q.
QuietAfter(q) == IF Renewing(q) THEN {} ELSE quiet

\* A call begins: whatever it meets is no longer alone.
Begin(c, q) ==
    /\ call[c].pc = "idle"
    /\ call' = [d \in Calls |-> IF d = c THEN [q EXCEPT !.alone = AllIdle]
                                         ELSE [call[d] EXCEPT !.alone = FALSE]]
    /\ isLoading' = TRUE
    /\ staleView' = (staleView \/ ~AllIdle)
    /\ tornTokens' = (tornTokens \/ ~AllIdle)
    /\ quiet' = QuietAfter(q)

Goto(c, q) == call' = [call EXCEPT ![c] = q]
End(c) == Goto(c, Idle) /\ quiet' = quiet \ {c}

-----------------------------------------------------------------------------
(* The screens and the store: a call begins *)

\* register and login differ in their forms and in the path of the request.
\* Their buttons are disabled while the store is loading; a form that breaks a
\* rule of its own is not submitted.
SignIn(c, u) ==
    /\ ~isLoading
    /\ \E ask \in {"login", "register"}, email \in Emails, password \in Passwords :
         /\ ask = "login" => LoginForm(email, password)
         /\ ask = "register" => \E name \in Names, confirm \in Passwords :
                                  RegisterForm(name, email, password, confirm)
         /\ Begin(c, [Idle EXCEPT !.op = "signIn", !.pc = "read", !.ask = ask,
                                  !.who = u, !.typed = <<email, password>>])
    /\ out' = None
    /\ UNCHANGED <<storage, persisted, user, server>>

Logout(c) ==
    /\ Begin(c, [Idle EXCEPT !.op = "logout", !.pc = "read", !.ask = "logout"])
    /\ UNCHANGED <<storage, persisted, user, server, out>>

CheckAuthStatus(c) ==
    /\ Begin(c, [Idle EXCEPT !.op = "check", !.pc = "probe"])
    /\ UNCHANGED <<storage, persisted, user, server, out>>

\* Without an access token the user is signed out at once, and when it cannot
\* be read.
Probe(c) ==
    /\ call[c].pc = "probe"
    /\ \/ /\ access = None \/ "storage" \in Faults
          /\ Goto(c, [call[c] EXCEPT !.pc = "drop"])
       \/ /\ access # None
          /\ Goto(c, [call[c] EXCEPT !.pc = "read", !.ask = "profile"])
    /\ UNCHANGED <<storage, persisted, user, isLoading, server, history>>

-----------------------------------------------------------------------------
(* ApiService.request *)

\* What was sent is not looked at again.
Answered(q) == [q EXCEPT !.ask = "none", !.typed = Idle.typed, !.bearer = None,
                         !.body = None]

\* Where a call goes on after a good answer about u.
OnData(q, u) ==
    [Answered(q) EXCEPT !.reply = u,
              !.pc = CASE q.ask = "logout"  -> "clear"
                       [] q.ask = "profile" -> "set"
                       [] OTHER             -> "access"]

\* Mutant: the profile read after a renewal is not looked at.
OnErrorUnchecked(q) ==
    [Answered(q) EXCEPT !.reply = None,
              !.pc = CASE q.ask = "logout"  -> "clear"
                       [] q.ask = "profile" -> IF q.renewed THEN "set" ELSE "renew"
                       [] q.ask = "refresh" -> "drop"
                       [] OTHER             -> "leave"]

\* Where it goes on after an error.  A logout goes on all the same.
OnError(q) ==
    [Answered(q) EXCEPT !.reply = None,
              !.pc = CASE q.ask = "logout"  -> "clear"
                       [] q.ask = "profile" -> IF q.renewed THEN "leave" ELSE "renew"
                       [] q.ask = "refresh" -> "drop"
                       [] OTHER             -> "leave"]

\* A token that cannot be read is an error of the request.
ReadToken(c) ==
    /\ call[c].pc = "read"
    /\ \/ Goto(c, [call[c] EXCEPT !.pc = "fetch", !.bearer = access])
       \/ "storage" \in Faults /\ Goto(c, OnError(call[c]))
    /\ UNCHANGED <<storage, persisted, user, isLoading, server, history>>

\* What the server does for a request it serves, and whom its answer is about.
\* In an outage of its database a refresh token is taken for its signature.
Served(q, u) ==
    \/ Valid(q) /\ u = q.who /\ Server!Open(u)
    \/ /\ q.ask # "none" /\ Live(q.bearer) /\ u = q.bearer.sub
       /\ \/ q.ask = "logout" /\ Server!Close(u)
          \/ q.ask = "profile" /\ UNCHANGED server
          \/ q.ask = "refresh" /\ q.body = u /\ u \in renewable /\ Server!Renew(u)
    \/ /\ q.ask = "refresh" /\ "outage" \in Faults
       /\ Live(q.bearer) /\ u = q.body /\ Server!Open(u)

Fetch(c) ==
    LET q == call[c] IN
    /\ q.pc = "fetch"
    /\ \/ \E u \in Users :
            /\ Served(q, u) /\ Goto(c, OnData(q, u))
            /\ quiet' = quiet \cup {d \in {c} : q.ask = "logout" /\ Unasked}
       \/ /\ Goto(c, OnError(q)) /\ UNCHANGED quiet
          /\ \/ UNCHANGED server
             \/ "network" \in Faults /\ \E u \in Users : Served(q, u) \* answer lost
    /\ UNCHANGED <<storage, persisted, user, isLoading, staleView, tornTokens, out>>

-----------------------------------------------------------------------------
(* setAuthTokens and clearAuthTokens: two awaits each *)

\* An exception of AsyncStorage: refreshSession signs the store out, login,
\* register and logout report it.
Throw(c) ==
    /\ "storage" \in Faults
    /\ Goto(c, [call[c] EXCEPT !.pc = IF call[c].op = "check" THEN "drop"
                                                              ELSE "leave"])
    /\ UNCHANGED storage

StoreAccess(c) ==
    LET q == call[c] IN
    /\ q.pc = "access"
    /\ \/ /\ access' = [sub |-> q.reply, exp |-> "ahead"]
          /\ Goto(c, [q EXCEPT !.pc = "refresh"])
          /\ UNCHANGED refresh
       \/ Throw(c)
    /\ UNCHANGED <<persisted, user, isLoading, server, history>>

\* A renewal reads the profile next.
AfterTokens(q) ==
    IF q.op = "check" THEN [q EXCEPT !.pc = "read", !.ask = "profile",
                                     !.reply = None, !.renewed = TRUE]
                      ELSE [q EXCEPT !.pc = "set"]

\* Mutant: setAuthTokens forgets the second token.
StoreRefreshForgets(c) ==
    /\ call[c].pc = "refresh"
    /\ Goto(c, AfterTokens(call[c]))
    /\ tornTokens' = (tornTokens /\ ~call[c].alone)
    /\ UNCHANGED <<storage, persisted, user, isLoading, server, staleView, quiet, out>>

StoreRefresh(c) ==
    LET q == call[c] IN
    /\ q.pc = "refresh"
    /\ \/ /\ refresh' = q.reply
          /\ Goto(c, AfterTokens(q))
          /\ tornTokens' = (tornTokens /\ ~q.alone)
          /\ staleView' = (staleView \/ (q.op = "check" /\ tornTokens))
          /\ UNCHANGED access
       \/ Throw(c) /\ tornTokens' = TRUE /\ staleView' = TRUE
    /\ UNCHANGED <<persisted, user, isLoading, server, quiet, out>>

ClearAccess(c) ==
    /\ call[c].pc = "clear"
    /\ \/ /\ access' = None
          /\ Goto(c, [call[c] EXCEPT !.pc = "clearRefresh"])
          /\ UNCHANGED refresh
       \/ Throw(c)
    /\ UNCHANGED <<persisted, user, isLoading, server, history>>

\* Mutant: clearAuthTokens forgets the second token.
ClearRefreshForgets(c) ==
    /\ call[c].pc = "clearRefresh"
    /\ Goto(c, [call[c] EXCEPT !.pc = "drop"])
    /\ UNCHANGED <<storage, persisted, user, isLoading, server, history>>

\* Mutant: logout clears the tokens and forgets the store.
ClearRefreshKeepsUser(c) ==
    /\ call[c].pc = "clearRefresh"
    /\ refresh' = None
    /\ Goto(c, [call[c] EXCEPT !.pc = "leave"])
    /\ UNCHANGED <<access, persisted, user, isLoading, server, history>>

ClearRefresh(c) ==
    LET q == call[c] IN
    /\ q.pc = "clearRefresh"
    /\ \/ /\ refresh' = None
          /\ Goto(c, [q EXCEPT !.pc = "drop"])
          /\ tornTokens' = (tornTokens /\ ~q.alone)
          /\ UNCHANGED <<access, staleView>>
       \/ Throw(c) /\ tornTokens' = TRUE /\ staleView' = TRUE
    /\ UNCHANGED <<persisted, user, isLoading, server, quiet, out>>

\* ApiService.refreshToken: without a token there is nothing to renew with.
ReadRefresh(c) ==
    /\ call[c].pc = "renew"
    /\ \/ /\ refresh = None \/ "storage" \in Faults
          /\ Goto(c, [call[c] EXCEPT !.pc = "drop"])
          /\ UNCHANGED quiet
       \/ /\ refresh # None
          /\ Goto(c, [call[c] EXCEPT !.pc = "read", !.ask = "refresh",
                                     !.body = refresh])
          /\ quiet' = {}
    /\ UNCHANGED <<storage, persisted, user, isLoading, server, staleView, tornTokens,
                   out>>

-----------------------------------------------------------------------------
(* The store: a call ends *)

\* Mutant: set() without isLoading, after a profile.
SetUserLoading(c) ==
    /\ call[c].pc = "set" /\ End(c)
    /\ user' = call[c].reply
    /\ isLoading' = (call[c].op = "check" /\ call[c].renewed)
    /\ staleView' = (staleView /\ ~call[c].alone)
    /\ UNCHANGED <<storage, persisted, server, tornTokens, out>>

SetUser(c) ==
    /\ call[c].pc = "set" /\ End(c)
    /\ user' = call[c].reply /\ isLoading' = FALSE
    /\ staleView' = (staleView /\ ~call[c].alone)
    /\ UNCHANGED <<storage, persisted, server, tornTokens, out>>

DropUser(c) ==
    LET q == call[c] IN
    /\ q.pc = "drop" /\ End(c)
    /\ user' = None /\ isLoading' = FALSE
    /\ staleView' = (staleView /\ ~q.alone)
    /\ out' = IF c \in quiet THEN q.reply ELSE out
    /\ UNCHANGED <<storage, persisted, server, tornTokens>>

\* An error is reported, or a renewal brought no profile: the user stays.
LeaveUser(c) ==
    /\ call[c].pc = "leave" /\ End(c)
    /\ isLoading' = FALSE
    /\ UNCHANGED <<storage, persisted, user, server, staleView, tornTokens, out>>

-----------------------------------------------------------------------------
(* The environment *)

\* persist writes the store after a set(), without anybody waiting for it.
Persist ==
    /\ persisted # user /\ persisted' = user
    /\ UNCHANGED <<storage, user, isLoading, call, server, history>>

\* The app is killed and started: the store is what was persisted.
Restart ==
    /\ "crash" \in Faults
    /\ persisted # user \/ ~AllIdle
    /\ user' = persisted /\ isLoading' = FALSE
    /\ call' = [c \in Calls |-> Idle] /\ quiet' = {}
    /\ staleView' = (staleView \/ ~AllIdle \/ persisted # user)
    /\ tornTokens' = (tornTokens \/ \E c \in Calls :
                                     call[c].pc \in {"refresh", "clearRefresh"})
    /\ UNCHANGED <<storage, persisted, server, out>>

Expire ==
    /\ Live(access) /\ access' = [access EXCEPT !.exp = "past"]
    /\ UNCHANGED <<refresh, persisted, user, isLoading, call, server, history>>

\* The user logs out on another device, or is removed.
Elsewhere(u) ==
    /\ u \in renewable /\ Server!Forget(u)
    /\ UNCHANGED <<storage, persisted, user, isLoading, call, history>>

-----------------------------------------------------------------------------

Step(c) ==
    \/ Probe(c) \/ ReadToken(c) \/ Fetch(c)
    \/ StoreAccess(c) \/ StoreRefresh(c) \/ ClearAccess(c) \/ ClearRefresh(c)
    \/ ReadRefresh(c) \/ SetUser(c) \/ DropUser(c) \/ LeaveUser(c)

Next ==
    \/ \E c \in Calls :
         \/ Step(c) \/ Logout(c) \/ CheckAuthStatus(c)
         \/ \E u \in Users : SignIn(c, u)
    \/ Persist \/ Restart \/ Expire
    \/ \E u \in Users : Elsewhere(u)

Spec == Init /\ [][Next]_vars

-----------------------------------------------------------------------------
(* Properties *)

\* At rest, whoever the store shows as signed in is whom the access token names,
\* unless calls overlapped, the app was killed, the storage failed, or tokens of two
\* sign-ins were renewed, since the last call that had the store to itself
\* (authStore: login, checkAuthStatus, refreshSession).
ViewNamesToken ==
    AllIdle /\ ~staleView /\ user # None => access # None /\ access.sub = user

\* At rest, the two tokens are of one user and come and go together, unless calls
\* overlapped, or the app was killed or the storage failed between the two writes
\* (ApiService.setAuthTokens, clearAuthTokens).
TokensPaired ==
    AllIdle /\ ~tornTokens =>
        refresh = IF access = None THEN None ELSE access.sub

\* A logout that the server carried out and answered leaves nothing to come back
\* with: no token on the device and no renewable session, until the next sign-in,
\* whatever checks and other logouts overlap it and whatever restarts follow.
\* Excepted is a logout beside which a call asked for tokens (a renewal or a
\* sign-in in flight may store them after the clearing), one whose answer was
\* lost, and one that a restart or a failing storage cut short
\* (authStore.logout, ApiService.logout).
LogoutComplete ==
    out # None => access = None /\ refresh = None /\ out \notin renewable

\* The buttons of the forms are disabled only while a call is in flight
\* (isLoading in every call of authStore; disabled={isLoading}).
LoadingMeansWork == isLoading => ~AllIdle

\* Whoever signs up through the form can sign in through the other one with
\* what was typed, and the server's validation refuses neither, unless IsEmail
\* is stricter about the email (RegisterScreen, LoginScreen; register.dto.ts,
\* login.dto.ts).
FormsAgree ==
    \A c \in Calls : call[c].ask = "register" /\ call[c].pc \in {"read", "fetch"} =>
        LET email == call[c].typed[1]  password == call[c].typed[2] IN
        /\ LoginForm(email, password)
        /\ email # "odd" => RegisterDto(email, password) /\ LoginDto(email, password)

==============================================================================
