------------------------- MODULE ClientSession_proofs -------------------------
(***************************************************************************)
(* Proofs about ClientSession, for any users, any number of calls and any  *)
(* faults.                                                                 *)
(*                                                                         *)
(* A call that overlaps no other has the stored tokens to itself, and what *)
(* it read is still there when it writes; the history variables say when   *)
(* that was so.  IInv says, for such a call, what its locals have to do    *)
(* with the storage at each await.                                         *)
(***************************************************************************)
EXTENDS ClientSession, TLAPS

\* Which operation a call is of, at each of its steps.
LocalsOf(q) ==
    /\ q.pc = "idle" => q = Idle
    /\ q.pc \in {"read", "fetch"} =>
          \/ q.op = "signIn" /\ q.ask \in {"login", "register"}
          \/ q.op = "logout" /\ q.ask = "logout"
          \/ q.op = "check" /\ q.ask \in {"profile", "refresh"}
    /\ q.pc \notin {"read", "fetch"} => q.ask = "none"
    /\ q.pc \in {"probe", "renew"} => q.op = "check"
    /\ q.pc \in {"access", "refresh", "set"} =>
          q.op \in {"signIn", "check"} /\ q.reply \in Users
    /\ q.pc \in {"clear", "clearRefresh"} => q.op = "logout"
    /\ q.pc = "drop" => q.op \in {"check", "logout"}

Locals == \A c \in Calls : LocalsOf(call[c])

\* A call is alone while no other is in flight, and one that met another has
\* marked the view and the tokens.
Solitude ==
    \A c \in Calls : call[c].pc # "idle" =>
        /\ call[c].alone => \A d \in Calls \ {c} : call[d].pc = "idle"
        /\ ~staleView \/ ~tornTokens => call[c].alone

\* While a call has the store to itself, the tokens are as it left or found them.
UndisturbedOf(q) ==
    q.alone =>
      /\ q.pc \in {"refresh", "set"} => access # None /\ access.sub = q.reply
      /\ q.pc = "clearRefresh" => access = None
      /\ q.pc = "drop" /\ q.op = "logout" => access = None /\ refresh = None
      /\ q.pc = "fetch" /\ q.ask = "profile" /\ q.bearer # None =>
            access # None /\ access.sub = q.bearer.sub
      /\ q.pc \in {"read", "fetch"} /\ q.ask = "refresh" /\ ~tornTokens =>
            q.body = refresh
      /\ q.op = "check" /\ q.pc = "access" /\ ~tornTokens => q.reply = refresh

Undisturbed == \A c \in Calls : UndisturbedOf(call[c])

Subject == IF access = None THEN None ELSE access.sub

\* The tokens are of one user but between two writes.
Paired ==
    \/ tornTokens
    \/ refresh = Subject
    \/ \E c \in Calls : call[c].pc \in {"refresh", "clearRefresh"}

\* The store shows whom the token names but between a write and a set().
Behind(q) ==
    \/ q.op = "signIn" /\ q.pc \in {"refresh", "set"}
    \/ q.op = "logout" /\ q.pc \in {"clearRefresh", "drop"}
    \/ q.op = "check" /\ q.pc = "refresh" /\ tornTokens

Shown ==
    staleView \/ user \in {None, Subject} \/ \E c \in Calls : Behind(call[c])

\* A quiet logout has taken the hash, and what it cleared stays cleared.
QuietOf(q) ==
    /\ q.op = "logout" /\ q.pc \in {"clear", "clearRefresh", "drop", "leave"}
    /\ q.reply \notin renewable
    /\ q.pc \in {"clearRefresh", "drop"} => access = None
    /\ q.pc = "drop" => refresh = None

LoggingOut ==
    /\ quiet # {} => Unasked
    /\ \A c \in quiet : QuietOf(call[c])

\* After a complete one there is no token to use, and nobody asks for one.
LoggedOut ==
    out # None => /\ access = None /\ refresh = None /\ out \notin renewable
                  /\ Unasked

IInv == /\ TypeOK /\ Locals /\ Solitude /\ Undisturbed /\ Paired /\ Shown
        /\ LoggingOut /\ LoggedOut /\ FormsAgree /\ LoadingMeansWork

LEMMA IdleTyped == Idle \in Call
BY DEF Idle, Call, Steps, Maybe, Emails, Passwords

LEMMA InitIInv == Init => IInv
<1> SUFFICES ASSUME Init PROVE IInv
    OBVIOUS
<1> USE DEF Init
<1>1. TypeOK
    BY IdleTyped DEF TypeOK, Server!TypeOK, Server!Init, Maybe, Idle
<1>2. Locals
    BY DEF Locals, LocalsOf, Idle
<1>3. Solitude /\ LoadingMeansWork
    BY DEF Solitude, LoadingMeansWork, AllIdle, Idle
<1>4. Undisturbed /\ LoggingOut /\ FormsAgree
    BY DEF Undisturbed, UndisturbedOf, LoggingOut, FormsAgree, Idle
<1>5. Paired /\ Shown /\ LoggedOut
    BY DEF Paired, Shown, Subject, LoggedOut
<1> QED BY <1>1, <1>2, <1>3, <1>4, <1>5 DEF IInv

-----------------------------------------------------------------------------
(* One call moves, the others stand *)

\* Next to a call in flight, no other is alone.
LEMMA OthersMet ==
    ASSUME NEW c \in Calls, Locals, Solitude, call[c].pc # "idle",
           NEW d \in Calls \ {c}
    PROVE  ~call[d].alone
<1>1. CASE call[d].pc = "idle"
    BY <1>1 DEF Locals, LocalsOf, Idle
<1>2. CASE call[d].pc # "idle"
    BY <1>2 DEF Solitude
<1> QED BY <1>1, <1>2

\* What holds of every call holds again after a step of c that puts p in its
\* slot, if it holds of p.
LEMMA OneMoves ==
    ASSUME NEW c \in Calls, NEW p \in Call, IInv, call[c].pc # "idle", Goto(c, p),
           p.alone => call[c].alone,
           p.pc # "idle" => p.alone = call[c].alone,
           ~staleView' \/ ~tornTokens' => ~staleView \/ ~tornTokens \/ call[c].alone,
           LocalsOf(p),
           p.ask = "register" => /\ call[c].ask = "register" /\ p.typed = call[c].typed
                                 /\ call[c].pc \in {"read", "fetch"},
           isLoading' => isLoading /\ p.pc # "idle"
    PROVE  /\ call' \in [Calls -> Call] /\ call'[c] = p
           /\ \A d \in Calls \ {c} : call'[d] = call[d] /\ ~call[d].alone
           /\ Locals' /\ Solitude' /\ FormsAgree' /\ LoadingMeansWork'
<1>1. call' \in [Calls -> Call] /\ call'[c] = p
    BY DEF IInv, TypeOK, Goto
<1>2. \A d \in Calls \ {c} : call'[d] = call[d]
    BY DEF IInv, TypeOK, Goto
<1>3. \A d \in Calls \ {c} : ~call[d].alone
    BY OthersMet DEF IInv
<1>4. Locals'
    BY <1>1, <1>2 DEF IInv, Locals, LocalsOf
<1>5. Solitude'
    BY <1>1, <1>2, <1>3 DEF IInv, Solitude
<1>6. FormsAgree'
  <2>1. ASSUME NEW d \in Calls, call'[d].ask = "register",
               call'[d].pc \in {"read", "fetch"}
        PROVE  /\ call[d].ask = "register" /\ call'[d].typed = call[d].typed
               /\ call[d].pc \in {"read", "fetch"}
      BY <2>1, <1>1, <1>2
  <2> QED BY <2>1 DEF IInv, FormsAgree, LoginForm, RegisterDto, LoginDto
<1>7. LoadingMeansWork'
    BY <1>1 DEF IInv, LoadingMeansWork, AllIdle
<1> QED BY <1>1, <1>2, <1>3, <1>4, <1>5, <1>6, <1>7

\* The quiet logouts stay so while nobody asks for tokens and nothing is stored.
LEMMA QuietStays ==
    ASSUME NEW c \in Calls, IInv, \A d \in Calls \ {c} : call'[d] = call[d],
           quiet' \subseteq quiet \cup {c}, quiet' # {} => quiet # {} \/ Unasked,
           quiet' # {} => ~Renewing(call'[c]), c \in quiet' => QuietOf(call[c])',
           quiet' # {} => /\ access' \in {access, None} /\ refresh' \in {refresh, None}
                          /\ renewable' \subseteq renewable
    PROVE  LoggingOut' /\ quiet' \subseteq Calls
<1>1. quiet' \subseteq Calls
    BY DEF IInv, TypeOK
<1>2. quiet' # {} => Unasked'
    BY DEF IInv, LoggingOut, Unasked, Renewing
<1>3. ASSUME NEW d \in quiet' PROVE QuietOf(call[d])'
  <2>1. CASE d = c
      BY <1>3, <2>1
  <2>2. CASE d # c
      BY <1>1, <1>3, <2>2 DEF IInv, LoggingOut, QuietOf
  <2> QED BY <2>1, <2>2
<1> QED BY <1>1, <1>2, <1>3 DEF LoggingOut

\* A call that asks for tokens has left no logout quiet.
LEMMA NoneQuiet ==
    ASSUME NEW c \in Calls, IInv, Renewing(call[c])
    PROVE  quiet = {} /\ out = None
BY DEF IInv, LoggingOut, LoggedOut, Unasked

-----------------------------------------------------------------------------
(* Steps that only read *)

\* A step that reads the storage, and goes on with what it read.
LEMMA ReadsKeep ==
    ASSUME NEW c \in Calls, NEW p \in Call, IInv, call[c].pc # "idle", p.pc # "idle",
           Goto(c, p), p.alone = call[c].alone, LocalsOf(p), UndisturbedOf(p)',
           p.ask = "register" => /\ call[c].ask = "register" /\ p.typed = call[c].typed
                                 /\ call[c].pc \in {"read", "fetch"},
           call[c].pc \in {"probe", "read", "renew"},
           quiet' \subseteq quiet, quiet' # {} \/ out # None => ~Renewing(p),
           UNCHANGED <<storage, persisted, user, isLoading, server, staleView,
                       tornTokens, out>>
    PROVE  IInv'
<1>0. UNCHANGED <<access, refresh, persisted, user, isLoading, session, renewable,
                  staleView, tornTokens, out>>
    BY DEF storage, server
<1>1. /\ call' \in [Calls -> Call] /\ call'[c] = p
      /\ \A d \in Calls \ {c} : call'[d] = call[d] /\ ~call[d].alone
      /\ Locals' /\ Solitude' /\ FormsAgree' /\ LoadingMeansWork'
    BY <1>0, OneMoves
<1>2. LoggingOut' /\ quiet' \subseteq Calls
  <2>1. c \notin quiet
      BY DEF IInv, LoggingOut, QuietOf
  <2> QED BY <2>1, <1>0, <1>1, QuietStays
<1>3. TypeOK'
    BY <1>0, <1>1, <1>2 DEF IInv, TypeOK, Server!TypeOK, Locals, LocalsOf
<1>4. Undisturbed'
    BY <1>1 DEF Undisturbed, UndisturbedOf
<1>5. Paired' /\ Shown'
    BY <1>0, <1>1 DEF IInv, Paired, Shown, Behind, Subject, Locals, LocalsOf
<1>6. LoggedOut'
    BY <1>0, <1>1 DEF IInv, LoggedOut, Unasked, Renewing
<1> QED BY <1>1, <1>2, <1>3, <1>4, <1>5, <1>6 DEF IInv

LEMMA ProbeKeeps ==
    ASSUME NEW c \in Calls, IInv, Probe(c)
    PROVE  IInv'
<1>1. PICK p : /\ \/ p = [call[c] EXCEPT !.pc = "drop"]
                  \/ p = [call[c] EXCEPT !.pc = "read", !.ask = "profile"]
               /\ Goto(c, p)
    BY DEF Probe
<1>2. call[c] \in Call /\ LocalsOf(call[c]) /\ call[c].pc = "probe"
    BY DEF IInv, TypeOK, Locals, Probe
<1>3. p \in Call
    BY <1>1, <1>2 DEF Call, Steps
<1>4. /\ p.op = call[c].op /\ p.alone = call[c].alone /\ p.bearer = call[c].bearer
      /\ \/ p.pc = "drop" /\ p.ask = call[c].ask
         \/ p.pc = "read" /\ p.ask = "profile"
    BY <1>1, <1>2 DEF Call
<1>5. LocalsOf(p) /\ UndisturbedOf(p)'
    BY <1>2, <1>4 DEF LocalsOf, UndisturbedOf
<1>6. ~Renewing(p)
    BY <1>2, <1>4 DEF Renewing, LocalsOf
<1>7. UNCHANGED <<storage, persisted, user, isLoading, server, staleView,
                  tornTokens, quiet, out>>
    BY DEF Probe, history
<1> QED BY <1>1, <1>2, <1>3, <1>4, <1>5, <1>6, <1>7, ReadsKeep DEF LocalsOf

LEMMA ReadRefreshKeeps ==
    ASSUME NEW c \in Calls, IInv, ReadRefresh(c)
    PROVE  IInv'
<1>1. PICK p : /\ \/ p = [call[c] EXCEPT !.pc = "drop"] /\ UNCHANGED quiet
                  \/ /\ p = [call[c] EXCEPT !.pc = "read", !.ask = "refresh",
                                             !.body = refresh]
                     /\ refresh # None /\ quiet' = {}
               /\ Goto(c, p)
    BY DEF ReadRefresh
<1>2. call[c] \in Call /\ LocalsOf(call[c]) /\ call[c].pc = "renew"
    BY DEF IInv, TypeOK, Locals, ReadRefresh
<1>3. p \in Call
  <2>1. CASE p = [call[c] EXCEPT !.pc = "drop"]
      BY <2>1, <1>2 DEF Call, Steps
  <2>2. CASE p = [call[c] EXCEPT !.pc = "read", !.ask = "refresh", !.body = refresh]
    <3>1. refresh \in Maybe
        BY DEF IInv, TypeOK
    <3> QED BY <2>2, <3>1, <1>2 DEF Call, Steps
  <2> QED BY <1>1, <2>1, <2>2
<1>4. /\ p.op = call[c].op /\ p.alone = call[c].alone
      /\ \/ p.pc = "drop" /\ p.ask = call[c].ask /\ quiet' = quiet
         \/ /\ p.pc = "read" /\ p.ask = "refresh" /\ p.body = refresh
            /\ refresh # None /\ quiet' = {}
    BY <1>1, <1>2 DEF Call
<1>5. LocalsOf(p)
    BY <1>2, <1>4 DEF LocalsOf
<1>6. UndisturbedOf(p)'
    BY <1>2, <1>4 DEF UndisturbedOf, LocalsOf, ReadRefresh, storage
<1>7. quiet' # {} \/ out # None => ~Renewing(p)
    BY <1>2, <1>4 DEF IInv, LoggedOut, LocalsOf, Renewing
<1>8. UNCHANGED <<storage, persisted, user, isLoading, server, staleView,
                  tornTokens, out>>
    BY DEF ReadRefresh
<1>9. quiet' \subseteq quiet
    BY <1>4
<1> QED BY <1>1, <1>2, <1>3, <1>4, <1>5, <1>6, <1>7, <1>8, <1>9, ReadsKeep DEF LocalsOf

-----------------------------------------------------------------------------
(* The server *)

ServerStep == [Server!Next]_(Server!vars)

LEMMA ServerTyped == Server!TypeOK /\ ServerStep => Server!TypeOK'
BY DEF Server!TypeOK, ServerStep, Server!Next, Server!vars, Server!Open,
       Server!Renew, Server!Forget, Server!Close

\* Serving a request is a step of the contract.
LEMMA ServedIsServerStep ==
    ASSUME NEW q, NEW u \in Users, Served(q, u)
    PROVE  ServerStep
BY DEF Served, ServerStep, Server!Next, Server!vars, server

\* Nothing but a sign-in and a live token is served.
LEMMA ServedToWhom ==
    ASSUME NEW q \in Call, NEW u \in Users, Served(q, u), LocalsOf(q), q.pc = "fetch"
    PROVE  /\ q.ask \in {"login", "register"} \/ q.bearer # None
           /\ q.ask \in {"logout", "profile"} => q.bearer.sub = u
           /\ q.ask = "refresh" => q.body = u
           /\ q.ask = "logout" => u \notin renewable'
           /\ ~Renewing(q) => renewable' \subseteq renewable
BY DEF Served, Valid, Live, LocalsOf, Server!Close, Renewing, server

LEMMA AnsweredFields ==
    ASSUME NEW q \in Call
    PROVE  /\ Answered(q) \in Call /\ Answered(q).op = q.op
           /\ Answered(q).alone = q.alone /\ Answered(q).ask = "none"
           /\ Answered(q).bearer = None
<1>1. Idle.typed \in Emails \X Passwords
    BY IdleTyped DEF Call
<1> QED BY <1>1 DEF Answered, Call, Maybe

\* Where a call goes on after an error, and after an answer about u.
ErrorStep(q) ==
    CASE q.ask = "logout"  -> "clear"
      [] q.ask = "profile" -> IF q.renewed THEN "leave" ELSE "renew"
      [] q.ask = "refresh" -> "drop"
      [] OTHER             -> "leave"

DataStep(q) ==
    CASE q.ask = "logout" -> "clear" [] q.ask = "profile" -> "set" [] OTHER -> "access"

LEMMA OnErrorFields ==
    ASSUME NEW q \in Call
    PROVE  /\ OnError(q) \in Call /\ OnError(q).op = q.op
           /\ OnError(q).alone = q.alone /\ OnError(q).ask = "none"
           /\ OnError(q).bearer = None /\ OnError(q).reply = None
           /\ OnError(q).pc = ErrorStep(q)
<1> DEFINE a == Answered(q)
<1>1. /\ a \in Call /\ a.op = q.op /\ a.alone = q.alone
      /\ a.ask = "none" /\ a.bearer = None
    BY AnsweredFields
<1>2. OnError(q) = [a EXCEPT !.reply = None, !.pc = ErrorStep(q)]
    BY DEF OnError, ErrorStep
<1>3. ErrorStep(q) \in Steps
    BY DEF ErrorStep, Steps
<1> HIDE DEF a
<1> QED BY <1>1, <1>2, <1>3 DEF Call, Maybe

LEMMA OnDataFields ==
    ASSUME NEW q \in Call, NEW u \in Users
    PROVE  /\ OnData(q, u) \in Call /\ OnData(q, u).op = q.op
           /\ OnData(q, u).alone = q.alone /\ OnData(q, u).ask = "none"
           /\ OnData(q, u).bearer = None /\ OnData(q, u).reply = u
           /\ OnData(q, u).pc = DataStep(q)
<1> DEFINE a == Answered(q)
<1>1. /\ a \in Call /\ a.op = q.op /\ a.alone = q.alone
      /\ a.ask = "none" /\ a.bearer = None
    BY AnsweredFields
<1>2. OnData(q, u) = [a EXCEPT !.reply = u, !.pc = DataStep(q)]
    BY DEF OnData, DataStep
<1>3. DataStep(q) \in Steps
    BY DEF DataStep, Steps
<1> HIDE DEF a
<1> QED BY <1>1, <1>2, <1>3 DEF Call, Maybe

LEMMA ReadTokenKeeps ==
    ASSUME NEW c \in Calls, IInv, ReadToken(c)
    PROVE  IInv'
<1>1. PICK p : /\ \/ p = [call[c] EXCEPT !.pc = "fetch", !.bearer = access]
                  \/ p = OnError(call[c])
               /\ Goto(c, p)
    BY DEF ReadToken
<1>2. call[c] \in Call /\ LocalsOf(call[c]) /\ call[c].pc = "read"
    BY DEF IInv, TypeOK, Locals, ReadToken
<1>3. UNCHANGED <<storage, persisted, user, isLoading, server, staleView,
                  tornTokens, quiet, out>>
    BY DEF ReadToken, history
<1>4. CASE p = [call[c] EXCEPT !.pc = "fetch", !.bearer = access]
  <2>1. p \in Call
      BY <1>2, <1>4 DEF Call, Steps, IInv, TypeOK
  <2>2. /\ p.op = call[c].op /\ p.alone = call[c].alone /\ p.ask = call[c].ask
        /\ p.typed = call[c].typed /\ p.body = call[c].body
        /\ p.pc = "fetch" /\ p.bearer = access
      BY <1>2, <1>4 DEF Call
  <2>3. LocalsOf(p)
      BY <1>2, <2>2 DEF LocalsOf
  <2>4. UndisturbedOf(p)'
      BY <1>2, <1>3, <2>2 DEF IInv, Undisturbed, UndisturbedOf, storage
  <2>5. quiet # {} \/ out # None => ~Renewing(p)
      BY <1>2, <2>2, NoneQuiet DEF Renewing
  <2> QED BY <1>1, <1>2, <1>3, <2>1, <2>2, <2>3, <2>4, <2>5, ReadsKeep
<1>5. CASE p = OnError(call[c])
  <2>1. /\ p \in Call /\ p.op = call[c].op /\ p.alone = call[c].alone
        /\ p.ask = "none" /\ p.pc = ErrorStep(call[c])
      BY <1>2, <1>5, OnErrorFields
  <2>2. p.pc \in {"clear", "leave", "renew", "drop"}
      BY <2>1 DEF ErrorStep
  <2>3. LocalsOf(p) /\ UndisturbedOf(p)' /\ ~Renewing(p)
      BY <1>2, <2>1, <2>2 DEF LocalsOf, ErrorStep, UndisturbedOf, Renewing
  <2> QED BY <1>1, <1>2, <1>3, <2>1, <2>2, <2>3, ReadsKeep
<1> QED BY <1>1, <1>4, <1>5

LEMMA FetchKeeps ==
    ASSUME NEW c \in Calls, IInv, Fetch(c)
    PROVE  IInv'
<1>1. PICK q : q = call[c]
    OBVIOUS
<1>2. q \in Call /\ LocalsOf(q) /\ q.pc = "fetch" /\ UndisturbedOf(q)
    BY <1>1 DEF IInv, TypeOK, Locals, Undisturbed, Fetch
<1>3. UNCHANGED <<access, refresh, persisted, user, isLoading,
                  staleView, tornTokens, out>>
    BY DEF Fetch, storage
<1>4. quiet # {} \/ out # None => ~Renewing(q)
    BY <1>1, NoneQuiet
<1>5. PICK p : /\ Goto(c, p)
               /\ \/ p = OnError(q) /\ quiet' = quiet
                  \/ /\ \E u \in Users : Served(q, u) /\ p = OnData(q, u)
                     /\ \/ quiet' = quiet
                        \/ quiet' = quiet \cup {c} /\ q.ask = "logout" /\ Unasked
               /\ UNCHANGED server \/ \E u \in Users : Served(q, u)
  <2>1. CASE \E u \in Users :
               /\ Served(q, u) /\ Goto(c, OnData(q, u))
               /\ quiet' = quiet \cup {d \in {c} : q.ask = "logout" /\ Unasked}
    <3>1. {d \in {c} : q.ask = "logout" /\ Unasked} =
              IF q.ask = "logout" /\ Unasked THEN {c} ELSE {}
        OBVIOUS
    <3> QED BY <2>1, <3>1
  <2>2. CASE /\ Goto(c, OnError(q)) /\ UNCHANGED quiet
             /\ UNCHANGED server \/ \E u \in Users : Served(q, u)
      BY <2>2
  <2> QED BY <1>1, <2>1, <2>2 DEF Fetch
<1>6. /\ p \in Call /\ p.op = q.op /\ p.alone = q.alone
      /\ p.ask = "none" /\ p.bearer = None
    BY <1>2, <1>5, OnErrorFields, OnDataFields
<1>7. \/ p.reply = None /\ p.pc = ErrorStep(q)
      \/ \E u \in Users : Served(q, u) /\ p.reply = u /\ p.pc = DataStep(q)
    BY <1>2, <1>5, OnErrorFields, OnDataFields
<1>8. LocalsOf(p) /\ p.pc \notin {"idle", "refresh", "clearRefresh", "fetch", "read"}
    BY <1>2, <1>6, <1>7 DEF LocalsOf, ErrorStep, DataStep
<1>9. /\ call' \in [Calls -> Call] /\ call'[c] = p
      /\ \A d \in Calls \ {c} : call'[d] = call[d] /\ ~call[d].alone
      /\ Locals' /\ Solitude' /\ FormsAgree' /\ LoadingMeansWork'
    BY <1>1, <1>2, <1>3, <1>5, <1>6, <1>8, OneMoves
<1>10. UndisturbedOf(p)'
  <2>1. ASSUME NEW u \in Users, Served(q, u), p.reply = u, p.pc = DataStep(q)
        PROVE  UndisturbedOf(p)'
      BY <2>1, <1>2, <1>3, <1>6, <1>8, ServedToWhom
         DEF UndisturbedOf, DataStep, LocalsOf
  <2>2. ASSUME p.reply = None, p.pc = ErrorStep(q)
        PROVE  UndisturbedOf(p)'
      BY <2>2, <1>2, <1>3, <1>6, <1>8 DEF UndisturbedOf, ErrorStep, LocalsOf
  <2> QED BY <1>7, <2>1, <2>2
<1>11. Undisturbed'
    BY <1>9, <1>10 DEF Undisturbed, UndisturbedOf
<1>12. Paired' /\ Shown'
    BY <1>1, <1>2, <1>3, <1>8, <1>9
       DEF IInv, Paired, Shown, Behind, Subject, LocalsOf
<1>13. ~Renewing(q) => renewable' \subseteq renewable /\ ~Renewing(p)
  <2>1. ~Renewing(q) => renewable' \subseteq renewable
      BY <1>2, <1>5, ServedToWhom DEF server
  <2>2. ~Renewing(q) => q.ask \in {"logout", "profile"}
      BY <1>2 DEF Renewing, LocalsOf
  <2> QED BY <2>1, <2>2, <1>6, <1>7 DEF Renewing, ErrorStep, DataStep
<1>14. LoggingOut' /\ quiet' \subseteq Calls
  <2>1. c \notin quiet
      BY <1>1, <1>2 DEF IInv, LoggingOut, QuietOf
  <2>2. CASE quiet' = quiet
      BY <2>1, <2>2, <1>3, <1>4, <1>9, <1>13, QuietStays
  <2>3. CASE /\ \E u \in Users : Served(q, u) /\ p = OnData(q, u)
             /\ quiet' = quiet \cup {c} /\ q.ask = "logout" /\ Unasked
    <3>1. ~Renewing(q)
        BY <2>3, <1>1 DEF Unasked
    <3>2. QuietOf(p)'
        BY <2>3, <1>2, <1>6, OnDataFields, ServedToWhom
           DEF QuietOf, DataStep, LocalsOf
    <3> QED BY <2>3, <3>1, <3>2, <1>3, <1>9, <1>13, QuietStays
  <2> QED BY <1>5, <2>2, <2>3
<1>15. TypeOK'
  <2>1. UNCHANGED server \/ ServerStep
      BY <1>5, ServedIsServerStep
  <2>2. Server!TypeOK'
      BY <2>1, ServerTyped DEF IInv, TypeOK, server, Server!TypeOK
  <2> QED BY <1>3, <1>9, <1>14, <2>2 DEF IInv, TypeOK, Locals, LocalsOf
<1>16. LoggedOut'
    BY <1>3, <1>4, <1>9, <1>13 DEF IInv, LoggedOut, Unasked
<1> QED BY <1>9, <1>11, <1>12, <1>14, <1>15, <1>16 DEF IInv

-----------------------------------------------------------------------------
(* Steps that write the tokens *)

LEMMA ThrowKeeps ==
    ASSUME NEW c \in Calls, IInv, Throw(c),
           UNCHANGED <<persisted, user, isLoading, server, quiet, out>>,
           \/ call[c].pc \in {"access", "clear"} /\ UNCHANGED <<staleView, tornTokens>>
           \/ /\ call[c].pc \in {"refresh", "clearRefresh"}
              /\ staleView' = TRUE /\ tornTokens' = TRUE
    PROVE  IInv'
<1>1. PICK p : /\ p = [call[c] EXCEPT !.pc = IF call[c].op = "check" THEN "drop"
                                                                     ELSE "leave"]
               /\ Goto(c, p)
    BY DEF Throw
<1>2. call[c] \in Call /\ LocalsOf(call[c])
    BY DEF IInv, TypeOK, Locals
<1>3. /\ p \in Call /\ p.op = call[c].op /\ p.alone = call[c].alone
      /\ p.ask = call[c].ask /\ p.bearer = call[c].bearer /\ p.reply = call[c].reply
      /\ p.pc = IF p.op = "check" THEN "drop" ELSE "leave"
    BY <1>1, <1>2 DEF Call, Steps
<1>4. LocalsOf(p) /\ UndisturbedOf(p)' /\ ~Renewing(p)
    BY <1>2, <1>3 DEF LocalsOf, UndisturbedOf, Renewing
<1>5. UNCHANGED <<access, refresh, persisted, user, isLoading, session, renewable, out>>
    BY DEF Throw, storage, server
<1>6. /\ call' \in [Calls -> Call] /\ call'[c] = p
      /\ \A d \in Calls \ {c} : call'[d] = call[d] /\ ~call[d].alone
      /\ Locals' /\ Solitude' /\ FormsAgree' /\ LoadingMeansWork'
  <2>1. ~staleView' \/ ~tornTokens' => ~staleView \/ ~tornTokens
      OBVIOUS
  <2>2. /\ call[c].pc # "idle" /\ call[c].ask = "none"
        /\ p.pc # "idle" /\ p.ask # "register"
      BY <1>2, <1>3 DEF LocalsOf
  <2>3. Goto(c, p) /\ (isLoading' => isLoading /\ p.pc # "idle")
      BY <1>1, <1>5, <2>2
  <2>4. p \in Call /\ p.alone = call[c].alone /\ LocalsOf(p)
      BY <1>3, <1>4
  <2> QED BY <2>1, <2>2, <2>3, <2>4, OneMoves
<1>7. LoggingOut' /\ quiet' \subseteq Calls
  <2>1. c \in quiet => QuietOf(p)'
      BY <1>3, <1>5 DEF IInv, LoggingOut, QuietOf
  <2> QED BY <2>1, <1>4, <1>5, <1>6, QuietStays
<1>8. TypeOK'
  <2>1. staleView' \in BOOLEAN /\ tornTokens' \in BOOLEAN
      BY DEF IInv, TypeOK
  <2> QED BY <1>5, <1>6, <1>7, <2>1 DEF IInv, TypeOK, Server!TypeOK, Locals, LocalsOf
<1>9. Undisturbed'
    BY <1>4, <1>6 DEF Undisturbed, UndisturbedOf
<1>10. Paired' /\ Shown'
    BY <1>5, <1>6 DEF IInv, Paired, Shown, Behind, Subject
<1>11. LoggedOut'
    BY <1>4, <1>5, <1>6 DEF IInv, LoggedOut, Unasked
<1> QED BY <1>6, <1>7, <1>8, <1>9, <1>10, <1>11 DEF IInv

LEMMA StoreAccessKeeps ==
    ASSUME NEW c \in Calls, IInv, StoreAccess(c)
    PROVE  IInv'
<1>1. CASE Throw(c)
    BY <1>1, ThrowKeeps DEF StoreAccess, history
<1>2. CASE /\ access' = [sub |-> call[c].reply, exp |-> "ahead"]
           /\ Goto(c, [call[c] EXCEPT !.pc = "refresh"])
           /\ UNCHANGED refresh
  <2>1. PICK p : p = [call[c] EXCEPT !.pc = "refresh"] /\ Goto(c, p)
      BY <1>2
  <2>2. call[c] \in Call /\ LocalsOf(call[c]) /\ call[c].pc = "access"
      BY DEF IInv, TypeOK, Locals, StoreAccess
  <2>3. /\ p \in Call /\ p.op = call[c].op /\ p.alone = call[c].alone
        /\ p.ask = call[c].ask /\ p.reply = call[c].reply /\ p.pc = "refresh"
      BY <2>1, <2>2 DEF Call, Steps
  <2>4. access' \in Token /\ access'.sub = p.reply /\ access' # None
      BY <1>2, <2>2, <2>3, NoTokenAssumption DEF LocalsOf, Token
  <2>5. LocalsOf(p) /\ UndisturbedOf(p)'
      BY <2>2, <2>3, <2>4 DEF LocalsOf, UndisturbedOf
  <2>6. UNCHANGED <<refresh, persisted, user, isLoading, session, renewable,
                    staleView, tornTokens, quiet, out>>
      BY <1>2 DEF StoreAccess, server, history
  <2>7. /\ call' \in [Calls -> Call] /\ call'[c] = p
        /\ \A d \in Calls \ {c} : call'[d] = call[d] /\ ~call[d].alone
        /\ Locals' /\ Solitude' /\ FormsAgree' /\ LoadingMeansWork'
      BY <2>1, <2>2, <2>3, <2>5, <2>6, OneMoves DEF LocalsOf
  <2>8. TypeOK'
      BY <2>4, <2>6, <2>7 DEF IInv, TypeOK, Server!TypeOK, Locals, LocalsOf
  <2>9. Undisturbed'
      BY <2>5, <2>7 DEF Undisturbed, UndisturbedOf
  <2>10. Paired'
      BY <2>3, <2>7 DEF Paired
  <2>11. Shown'
    <3>1. CASE staleView \/ p.op = "signIn" \/ tornTokens
        BY <3>1, <2>2, <2>3, <2>6, <2>7 DEF Shown, Behind, LocalsOf
    <3>2. CASE ~staleView /\ p.op = "check" /\ ~tornTokens
      <4>1. call[c].alone /\ \A d \in Calls \ {c} : call[d] = Idle
          BY <3>2, <2>2 DEF IInv, Solitude, Locals, LocalsOf
      <4>2. refresh = call[c].reply
          BY <3>2, <4>1, <2>2, <2>3 DEF IInv, Undisturbed, UndisturbedOf
      <4>3. refresh = Subject
          BY <3>2, <4>1, <2>2 DEF IInv, Paired, Idle
      <4>4. user \in {None, Subject}
          BY <3>2, <4>1, <2>2 DEF IInv, Shown, Behind, Idle
      <4>5. Subject' = p.reply
          BY <2>4 DEF Subject
      <4> QED BY <4>2, <4>3, <4>4, <4>5, <2>3, <2>6 DEF Shown
    <3> QED BY <3>1, <3>2, <2>2, <2>3 DEF LocalsOf
  <2>12. LoggedOut' /\ LoggingOut'
      BY <2>2, <2>6, NoneQuiet DEF LoggedOut, LoggingOut, Renewing
  <2> QED BY <2>7, <2>8, <2>9, <2>10, <2>11, <2>12 DEF IInv
<1> QED BY <1>1, <1>2 DEF StoreAccess

LEMMA StoreRefreshKeeps ==
    ASSUME NEW c \in Calls, IInv, StoreRefresh(c)
    PROVE  IInv'
<1>1. CASE Throw(c) /\ tornTokens' = TRUE /\ staleView' = TRUE
    BY <1>1, ThrowKeeps DEF StoreRefresh
<1>2. CASE /\ refresh' = call[c].reply
           /\ Goto(c, AfterTokens(call[c]))
           /\ tornTokens' = (tornTokens /\ ~call[c].alone)
           /\ staleView' = (staleView \/ (call[c].op = "check" /\ tornTokens))
           /\ UNCHANGED access
  <2>1. PICK p : p = AfterTokens(call[c]) /\ Goto(c, p)
      BY <1>2
  <2>2. /\ call[c] \in Call /\ LocalsOf(call[c]) /\ call[c].pc = "refresh"
        /\ UndisturbedOf(call[c])
      BY DEF IInv, TypeOK, Locals, StoreRefresh, Undisturbed
  <2>3. /\ p \in Call /\ p.op = call[c].op /\ p.alone = call[c].alone
        /\ IF p.op = "check" THEN p.pc = "read" /\ p.ask = "profile"
           ELSE p.pc = "set" /\ p.ask = call[c].ask /\ p.reply = call[c].reply
      BY <2>1, <2>2 DEF Call, Steps, AfterTokens, Maybe
  <2>4. UNCHANGED <<access, persisted, user, isLoading, session, renewable, quiet, out>>
      BY <1>2 DEF StoreRefresh, server
  <2>5. LocalsOf(p) /\ UndisturbedOf(p)'
      BY <2>2, <2>3, <2>4 DEF LocalsOf, UndisturbedOf
  <2>6. /\ call' \in [Calls -> Call] /\ call'[c] = p
        /\ \A d \in Calls \ {c} : call'[d] = call[d] /\ ~call[d].alone
        /\ Locals' /\ Solitude' /\ FormsAgree' /\ LoadingMeansWork'
      BY <1>2, <2>1, <2>2, <2>3, <2>4, <2>5, OneMoves DEF LocalsOf
  <2>7. TypeOK'
      BY <1>2, <2>2, <2>4, <2>6
         DEF IInv, TypeOK, Server!TypeOK, Locals, LocalsOf, Maybe
  <2>8. Undisturbed'
      BY <2>5, <2>6 DEF Undisturbed, UndisturbedOf
  <2>9. Paired'
    <3>1. CASE call[c].alone
        BY <3>1, <1>2, <2>2, <2>4 DEF Paired, Subject, UndisturbedOf
    <3>2. CASE ~call[c].alone
        BY <3>2, <1>2, <2>2 DEF IInv, Paired, Solitude
    <3> QED BY <3>1, <3>2
  <2>10. Shown'
      BY <1>2, <2>2, <2>3, <2>4, <2>6
         DEF IInv, Shown, Behind, Subject, LocalsOf, Solitude
  <2>11. LoggedOut' /\ LoggingOut'
      BY <2>2, <2>4, NoneQuiet DEF LoggedOut, LoggingOut, Renewing
  <2> QED BY <2>6, <2>7, <2>8, <2>9, <2>10, <2>11 DEF IInv
<1> QED BY <1>1, <1>2 DEF StoreRefresh

LEMMA ClearAccessKeeps ==
    ASSUME NEW c \in Calls, IInv, ClearAccess(c)
    PROVE  IInv'
<1>1. CASE Throw(c)
    BY <1>1, ThrowKeeps DEF ClearAccess, history
<1>2. CASE /\ access' = None
           /\ Goto(c, [call[c] EXCEPT !.pc = "clearRefresh"])
           /\ UNCHANGED refresh
  <2>1. PICK p : p = [call[c] EXCEPT !.pc = "clearRefresh"] /\ Goto(c, p)
      BY <1>2
  <2>2. /\ call[c] \in Call /\ LocalsOf(call[c]) /\ call[c].pc = "clear"
      BY DEF IInv, TypeOK, Locals, ClearAccess
  <2>3. /\ p \in Call /\ p.op = call[c].op /\ p.alone = call[c].alone
        /\ p.ask = call[c].ask /\ p.bearer = call[c].bearer
        /\ p.reply = call[c].reply /\ p.pc = "clearRefresh"
      BY <2>1, <2>2 DEF Call, Steps
  <2>4. UNCHANGED <<refresh, persisted, user, isLoading, session, renewable,
                    staleView, tornTokens, quiet, out>>
      BY <1>2 DEF ClearAccess, server, history
  <2>5. LocalsOf(p) /\ UndisturbedOf(p)' /\ ~Renewing(p)
      BY <1>2, <2>2, <2>3, <2>4 DEF LocalsOf, UndisturbedOf, Renewing
  <2>6. /\ call' \in [Calls -> Call] /\ call'[c] = p
        /\ \A d \in Calls \ {c} : call'[d] = call[d] /\ ~call[d].alone
        /\ Locals' /\ Solitude' /\ FormsAgree' /\ LoadingMeansWork'
      BY <2>1, <2>2, <2>3, <2>4, <2>5, OneMoves DEF LocalsOf
  <2>7. TypeOK'
      BY <1>2, <2>4, <2>6 DEF IInv, TypeOK, Server!TypeOK, Locals, LocalsOf
  <2>8. Undisturbed' /\ LoggingOut'
    <3>1. Undisturbed'
        BY <2>5, <2>6 DEF Undisturbed, UndisturbedOf
    <3>2. c \in quiet => QuietOf(p)'
        BY <1>2, <2>2, <2>3, <2>4 DEF IInv, LoggingOut, QuietOf
    <3> QED BY <3>1, <3>2, <1>2, <2>4, <2>5, <2>6, QuietStays
  <2>9. Paired' /\ Shown'
      BY <2>2, <2>3, <2>6 DEF Paired, Shown, Behind, LocalsOf
  <2>10. LoggedOut'
      BY <1>2, <2>4, <2>5, <2>6 DEF IInv, LoggedOut, Unasked
  <2> QED BY <2>6, <2>7, <2>8, <2>9, <2>10 DEF IInv
<1> QED BY <1>1, <1>2 DEF ClearAccess

LEMMA ClearRefreshKeeps ==
    ASSUME NEW c \in Calls, IInv, ClearRefresh(c)
    PROVE  IInv'
<1>1. CASE Throw(c) /\ tornTokens' = TRUE /\ staleView' = TRUE
    BY <1>1, ThrowKeeps DEF ClearRefresh
<1>2. CASE /\ refresh' = None
           /\ Goto(c, [call[c] EXCEPT !.pc = "drop"])
           /\ tornTokens' = (tornTokens /\ ~call[c].alone)
           /\ UNCHANGED <<access, staleView>>
  <2>1. PICK p : p = [call[c] EXCEPT !.pc = "drop"] /\ Goto(c, p)
      BY <1>2
  <2>2. /\ call[c] \in Call /\ LocalsOf(call[c]) /\ call[c].pc = "clearRefresh"
        /\ UndisturbedOf(call[c])
      BY DEF IInv, TypeOK, Locals, ClearRefresh, Undisturbed
  <2>3. /\ p \in Call /\ p.op = call[c].op /\ p.alone = call[c].alone
        /\ p.ask = call[c].ask /\ p.bearer = call[c].bearer
        /\ p.reply = call[c].reply /\ p.pc = "drop"
      BY <2>1, <2>2 DEF Call, Steps
  <2>4. UNCHANGED <<access, persisted, user, isLoading, session, renewable,
                    staleView, quiet, out>>
      BY <1>2 DEF ClearRefresh, server
  <2>5. LocalsOf(p) /\ UndisturbedOf(p)' /\ ~Renewing(p)
      BY <1>2, <2>2, <2>3, <2>4 DEF LocalsOf, UndisturbedOf, Renewing
  <2>6. /\ call' \in [Calls -> Call] /\ call'[c] = p
        /\ \A d \in Calls \ {c} : call'[d] = call[d] /\ ~call[d].alone
        /\ Locals' /\ Solitude' /\ FormsAgree' /\ LoadingMeansWork'
    <3>1. ~staleView' \/ ~tornTokens' => ~staleView \/ ~tornTokens \/ call[c].alone
        BY <1>2
    <3>2. p.ask # "register" /\ p.pc # "idle"
        BY <2>2, <2>3 DEF LocalsOf
    <3> QED BY <2>1, <2>2, <2>3, <2>4, <2>5, <3>1, <3>2, OneMoves
  <2>7. TypeOK'
      BY <1>2, <2>4, <2>6 DEF IInv, TypeOK, Server!TypeOK, Locals, LocalsOf, Maybe
  <2>8. Undisturbed' /\ LoggingOut'
    <3>1. Undisturbed'
        BY <2>5, <2>6 DEF Undisturbed, UndisturbedOf
    <3>2. c \in quiet => QuietOf(p)'
        BY <1>2, <2>2, <2>3, <2>4 DEF IInv, LoggingOut, QuietOf
    <3> QED BY <3>1, <3>2, <1>2, <2>4, <2>5, <2>6, QuietStays
  <2>9. Paired'
    <3>1. CASE call[c].alone
        BY <3>1, <1>2, <2>2, <2>4 DEF Paired, Subject, UndisturbedOf
    <3>2. CASE ~call[c].alone
        BY <3>2, <1>2, <2>2 DEF IInv, Paired, Solitude
    <3> QED BY <3>1, <3>2
  <2>10. Shown'
      BY <2>2, <2>3, <2>6 DEF Shown, Behind, LocalsOf
  <2>11. LoggedOut'
      BY <1>2, <2>4, <2>5, <2>6 DEF IInv, LoggedOut, Unasked
  <2> QED BY <2>6, <2>7, <2>8, <2>9, <2>10, <2>11 DEF IInv
<1> QED BY <1>1, <1>2 DEF ClearRefresh

-----------------------------------------------------------------------------
(* A call ends *)

\* What an ended call leaves behind, whatever it set.
LEMMA EndKeeps ==
    ASSUME NEW c \in Calls, IInv, call[c].pc # "idle", End(c), isLoading' = FALSE,
           ~staleView' \/ ~tornTokens' => ~staleView \/ ~tornTokens \/ call[c].alone,
           UNCHANGED <<storage, server, tornTokens>>
    PROVE  /\ call' \in [Calls -> Call] /\ call'[c] = Idle
           /\ \A d \in Calls \ {c} : call'[d] = call[d] /\ ~call[d].alone
           /\ Locals' /\ Solitude' /\ FormsAgree' /\ LoadingMeansWork'
           /\ Undisturbed' /\ LoggingOut' /\ quiet' \subseteq Calls
           /\ Subject' = Subject
           /\ Unasked => Unasked'
           /\ call[c].pc \notin {"refresh", "clearRefresh"} => Paired'
<1>1. Goto(c, Idle)
    BY DEF End
<1>2. /\ LocalsOf(Idle) /\ ~Idle.alone /\ Idle.pc = "idle"
      /\ Idle.ask # "register" /\ ~Renewing(Idle)
    BY DEF LocalsOf, Idle, Renewing
<1>3. /\ call' \in [Calls -> Call] /\ call'[c] = Idle
      /\ \A d \in Calls \ {c} : call'[d] = call[d] /\ ~call[d].alone
      /\ Locals' /\ Solitude' /\ FormsAgree' /\ LoadingMeansWork'
    BY <1>1, <1>2, IdleTyped, OneMoves
<1>4. Undisturbed' /\ LoggingOut' /\ quiet' \subseteq Calls
  <2>1. quiet' = quiet \ {c} /\ UNCHANGED <<access, refresh, renewable>>
      BY DEF End, storage, server
  <2>2. Undisturbed'
      BY <1>2, <1>3 DEF Undisturbed, UndisturbedOf
  <2> QED BY <2>1, <2>2, <1>2, <1>3, QuietStays
<1>5. Subject' = Subject
    BY DEF Subject, storage
<1>6. call[c].pc \notin {"refresh", "clearRefresh"} => Paired'
    BY <1>3, <1>5 DEF IInv, Paired, storage
<1>7. Unasked => Unasked'
    BY <1>2, <1>3 DEF Unasked
<1> QED BY <1>3, <1>4, <1>5, <1>6, <1>7

LEMMA SetUserKeeps ==
    ASSUME NEW c \in Calls, IInv, SetUser(c)
    PROVE  IInv'
<1>1. /\ call[c].pc = "set" /\ LocalsOf(call[c]) /\ UndisturbedOf(call[c])
      /\ call[c].alone \in BOOLEAN
    BY DEF SetUser, IInv, TypeOK, Locals, Undisturbed, Call
<1>2. /\ UNCHANGED <<access, refresh, persisted, session, renewable, tornTokens, out>>
      /\ user' = call[c].reply /\ isLoading' = FALSE
      /\ staleView' = (staleView /\ ~call[c].alone)
    BY DEF SetUser, storage, server
<1>3. /\ call' \in [Calls -> Call] /\ call'[c] = Idle
      /\ \A d \in Calls \ {c} : call'[d] = call[d] /\ ~call[d].alone
      /\ Locals' /\ Solitude' /\ FormsAgree' /\ LoadingMeansWork'
      /\ Undisturbed' /\ LoggingOut' /\ Paired' /\ Subject' = Subject
      /\ quiet' \subseteq Calls /\ (Unasked => Unasked')
    BY <1>1, EndKeeps DEF SetUser
<1>4. TypeOK'
  <2>1. {refresh, persisted, user, out}' \subseteq Maybe
      BY <1>1, <1>2 DEF IInv, TypeOK, Maybe, LocalsOf
  <2> QED BY <1>1, <1>2, <1>3, <2>1 DEF IInv, TypeOK, Server!TypeOK, Locals, LocalsOf
<1>5. Shown'
  <2>1. ~staleView' => call[c].alone
      BY <1>1, <1>2 DEF IInv, Solitude
  <2>2. call[c].alone => user' = Subject
      BY <1>1, <1>2 DEF UndisturbedOf, Subject
  <2> QED BY <1>3, <2>1, <2>2 DEF Shown
<1>6. LoggedOut'
    BY <1>2, <1>3 DEF IInv, LoggedOut
<1> QED BY <1>3, <1>4, <1>5, <1>6 DEF IInv

LEMMA DropUserKeeps ==
    ASSUME NEW c \in Calls, IInv, DropUser(c)
    PROVE  IInv'
<1>1. /\ call[c].pc = "drop" /\ LocalsOf(call[c]) /\ UndisturbedOf(call[c])
      /\ call[c].alone \in BOOLEAN /\ call[c].reply \in Maybe
    BY DEF DropUser, IInv, TypeOK, Locals, Undisturbed, Call
<1>2. /\ UNCHANGED <<access, refresh, persisted, session, renewable, tornTokens>>
      /\ user' = None /\ isLoading' = FALSE
      /\ staleView' = (staleView /\ ~call[c].alone)
      /\ out' = out \/ (c \in quiet /\ out' = call[c].reply)
    BY DEF DropUser, storage, server
<1>3. /\ call' \in [Calls -> Call] /\ call'[c] = Idle
      /\ \A d \in Calls \ {c} : call'[d] = call[d] /\ ~call[d].alone
      /\ Locals' /\ Solitude' /\ FormsAgree' /\ LoadingMeansWork'
      /\ Undisturbed' /\ LoggingOut' /\ Paired' /\ Subject' = Subject
      /\ quiet' \subseteq Calls /\ (Unasked => Unasked')
    BY <1>1, EndKeeps DEF DropUser
<1>4. TypeOK'
  <2>1. {refresh, persisted, user, out}' \subseteq Maybe
      BY <1>1, <1>2 DEF IInv, TypeOK, Maybe
  <2> QED BY <1>1, <1>2, <1>3, <2>1 DEF IInv, TypeOK, Server!TypeOK, Locals, LocalsOf
<1>5. Shown'
    BY <1>2 DEF Shown
<1>6. LoggedOut'
  <2>1. CASE out' = out
      BY <2>1, <1>2, <1>3 DEF IInv, LoggedOut
  <2>2. CASE c \in quiet /\ out' = call[c].reply
    <3>1. /\ access = None /\ refresh = None /\ call[c].reply \notin renewable
          /\ Unasked
        BY <2>2, <1>1 DEF IInv, LoggingOut, QuietOf
    <3> QED BY <2>2, <3>1, <1>2, <1>3 DEF LoggedOut
  <2> QED BY <1>2, <2>1, <2>2
<1> QED BY <1>3, <1>4, <1>5, <1>6 DEF IInv

LEMMA LeaveUserKeeps ==
    ASSUME NEW c \in Calls, IInv, LeaveUser(c)
    PROVE  IInv'
<1>1. call[c].pc = "leave"
    BY DEF LeaveUser
<1>2. /\ UNCHANGED <<access, refresh, persisted, user, session, renewable,
                     staleView, tornTokens, out>>
      /\ isLoading' = FALSE
    BY DEF LeaveUser, storage, server
<1>3. /\ call' \in [Calls -> Call] /\ call'[c] = Idle
      /\ \A d \in Calls \ {c} : call'[d] = call[d] /\ ~call[d].alone
      /\ Locals' /\ Solitude' /\ FormsAgree' /\ LoadingMeansWork'
      /\ Undisturbed' /\ LoggingOut' /\ Paired' /\ Subject' = Subject
      /\ quiet' \subseteq Calls /\ (Unasked => Unasked')
  <2>1. ~staleView' \/ ~tornTokens' => ~staleView \/ ~tornTokens \/ call[c].alone
      BY <1>2
  <2>2. End(c) /\ UNCHANGED <<storage, server, tornTokens>>
      BY DEF LeaveUser
  <2> QED BY <1>1, <1>2, <2>1, <2>2, EndKeeps
<1>4. TypeOK'
    BY <1>2, <1>3 DEF IInv, TypeOK, Server!TypeOK, Locals, LocalsOf
<1>5. Shown'
    BY <1>1, <1>2, <1>3 DEF IInv, Shown, Behind
<1>6. LoggedOut'
    BY <1>2, <1>3 DEF IInv, LoggedOut
<1> QED BY <1>3, <1>4, <1>5, <1>6 DEF IInv

-----------------------------------------------------------------------------
(* A call begins *)

\* All other calls have met it, and the view and the tokens are in doubt
\* unless there are none.
LEMMA BeginKeeps ==
    ASSUME NEW c \in Calls, NEW q \in Call, IInv, Begin(c, q), LocalsOf(q),
           q.pc \in {"read", "probe"}, q.ask # "refresh", out' \in {out, None},
           q.ask = "register" =>
              /\ LoginForm(q.typed[1], q.typed[2])
              /\ q.typed[1] # "odd" => /\ RegisterDto(q.typed[1], q.typed[2])
                                       /\ LoginDto(q.typed[1], q.typed[2]),
           out' # None => ~Renewing(q),
           UNCHANGED <<storage, persisted, user, server>>
    PROVE  IInv'
<1>1. UNCHANGED <<access, refresh, persisted, user, session, renewable>>
    BY DEF storage, server
<1>2. PICK p : p = [q EXCEPT !.alone = AllIdle] /\ call'[c] = p
    BY DEF Begin
<1>3. /\ p \in Call /\ p.op = q.op /\ p.pc = q.pc /\ p.ask = q.ask
      /\ p.typed = q.typed /\ p.bearer = q.bearer /\ p.reply = q.reply
      /\ p.alone = AllIdle
    BY <1>2 DEF Call, AllIdle
<1>4. \A d \in Calls \ {c} :
         /\ call'[d] \in Call /\ call'[d].op = call[d].op /\ call'[d].pc = call[d].pc
         /\ call'[d].ask = call[d].ask /\ call'[d].typed = call[d].typed
         /\ call'[d].bearer = call[d].bearer /\ call'[d].reply = call[d].reply
         /\ ~call'[d].alone
         /\ call[d] = Idle => call'[d] = Idle
  <2> SUFFICES ASSUME NEW d \in Calls \ {c} PROVE <1>4!(d)
      OBVIOUS
  <2>1. call[d] \in Call /\ call'[d] = [call[d] EXCEPT !.alone = FALSE]
      BY DEF IInv, TypeOK, Begin
  <2>2. [Idle EXCEPT !.alone = FALSE] = Idle
    <3>1. Idle.alone = FALSE
        BY DEF Idle
    <3> QED BY <3>1, IdleTyped DEF Call
  <2>3. call'[d] \in Call
      BY <2>1 DEF Call
  <2>4. /\ call'[d].op = call[d].op /\ call'[d].pc = call[d].pc
        /\ call'[d].ask = call[d].ask /\ call'[d].typed = call[d].typed
        /\ call'[d].bearer = call[d].bearer /\ call'[d].reply = call[d].reply
        /\ ~call'[d].alone
      BY <2>1 DEF Call
  <2>5. call[d] = Idle => call'[d] = Idle
      BY <2>1, <2>2
  <2> QED BY <2>3, <2>4, <2>5
<1>5. call' \in [Calls -> Call]
  <2>1. call' = [d \in Calls |-> call'[d]]
      BY DEF Begin
  <2> QED BY <2>1, <1>2, <1>3, <1>4
<1>6. /\ isLoading' = TRUE
      /\ staleView' = (staleView \/ ~AllIdle)
      /\ tornTokens' = (tornTokens \/ ~AllIdle)
      /\ call[c].pc = "idle"
      /\ quiet' \subseteq quiet /\ (quiet' # {} => ~Renewing(q))
    BY DEF Begin, QuietAfter
<1>7. Locals'
  <2>1. LocalsOf(p)
      BY <1>3 DEF LocalsOf
  <2>2. \A d \in Calls \ {c} : LocalsOf(call'[d])
      BY <1>4 DEF IInv, Locals, LocalsOf
  <2> QED BY <1>2, <2>1, <2>2 DEF Locals, LocalsOf
<1>8. TypeOK'
  <2>1. {refresh, persisted, user, out}' \subseteq Maybe
      BY <1>1 DEF IInv, TypeOK, Maybe
  <2>2. {isLoading, staleView, tornTokens}' \subseteq BOOLEAN
      BY <1>6 DEF IInv, TypeOK, AllIdle
  <2> QED BY <1>1, <1>5, <1>6, <1>7, <2>1, <2>2
         DEF IInv, TypeOK, Server!TypeOK, Locals, LocalsOf
<1>9. Solitude' /\ LoadingMeansWork'
  <2>1. p.pc # "idle" /\ call'[c].pc # "idle"
      BY <1>2, <1>3
  <2>2. LoadingMeansWork'
      BY <2>1 DEF LoadingMeansWork, AllIdle
  <2>3. AllIdle => \A d \in Calls \ {c} : call'[d].pc = "idle"
      BY <1>4 DEF AllIdle
  <2>4. ASSUME NEW d \in Calls \ {c}, call'[d].pc # "idle" PROVE ~AllIdle
      BY <2>3, <2>4
  <2>5. AllIdle \/ (staleView' /\ tornTokens')
      BY <1>6
  <2> QED BY <1>2, <1>3, <1>4, <2>2, <2>3, <2>4, <2>5 DEF Solitude
<1>10. Undisturbed' /\ LoggingOut'
  <2>1. UndisturbedOf(call[c])'
      BY <1>2, <1>3 DEF UndisturbedOf
  <2>2. \A d \in Calls \ {c} : UndisturbedOf(call[d])'
      BY <1>4 DEF UndisturbedOf
  <2>3. Undisturbed'
      BY <2>1, <2>2 DEF Undisturbed
  <2>4. c \notin quiet
      BY <1>6 DEF IInv, LoggingOut, QuietOf
  <2>5. quiet' # {} => Unasked'
    <3> SUFFICES ASSUME quiet' # {} PROVE Unasked'
        OBVIOUS
    <3>1. Unasked /\ ~Renewing(p)
        BY <1>3, <1>6 DEF IInv, LoggingOut, Renewing
    <3>2. \A d \in Calls \ {c} : ~Renewing(call'[d])
        BY <3>1, <1>4 DEF Unasked, Renewing
    <3> QED BY <3>1, <3>2, <1>2 DEF Unasked
  <2>6. \A d \in quiet' : QuietOf(call[d])'
      BY <2>4, <1>1, <1>4, <1>6 DEF IInv, TypeOK, LoggingOut, QuietOf
  <2> QED BY <2>3, <2>5, <2>6 DEF LoggingOut
<1>11. Paired' /\ Shown'
  <2>1. tornTokens => tornTokens'
      BY <1>6
  <2>2. \A d \in Calls : call[d].pc # "idle" => d # c
      BY <1>6
  <2>3. ASSUME NEW d \in Calls, Behind(call[d]) PROVE Behind(call[d])'
      BY <2>1, <2>2, <2>3, <1>4 DEF Behind
  <2>4. staleView => staleView'
      BY <1>6
  <2> QED BY <1>1, <1>4, <2>1, <2>2, <2>3, <2>4 DEF IInv, Paired, Shown, Subject, Behind
<1>12. LoggedOut'
  <2> SUFFICES ASSUME out' # None PROVE LoggedOut'
      BY DEF LoggedOut
  <2>1. ~Renewing(p)
      BY <1>3 DEF Renewing
  <2>2. \A d \in Calls \ {c} : ~Renewing(call'[d])
      BY <1>4 DEF IInv, LoggedOut, Unasked, Renewing
  <2> QED BY <1>1, <1>2, <2>1, <2>2 DEF IInv, LoggedOut, Unasked
<1>13. FormsAgree'
  <2>1. ASSUME NEW d \in Calls \ {c}, call'[d].ask = "register",
               call'[d].pc \in {"read", "fetch"}
        PROVE  /\ call[d].ask = "register" /\ call'[d].typed = call[d].typed
               /\ call[d].pc \in {"read", "fetch"}
      BY <2>1, <1>4
  <2>2. ASSUME NEW d \in Calls, call'[d].ask = "register",
               call'[d].pc \in {"read", "fetch"}
        PROVE  LET email == call'[d].typed[1]  password == call'[d].typed[2] IN
               /\ LoginForm(email, password)
               /\ email # "odd" => RegisterDto(email, password)
                                   /\ LoginDto(email, password)
    <3>1. CASE d = c
        BY <2>2, <3>1, <1>2, <1>3
    <3>2. CASE d # c
        BY <2>1, <2>2, <3>2 DEF IInv, FormsAgree
    <3> QED BY <3>1, <3>2
  <2> QED BY <2>2 DEF FormsAgree, LoginForm, RegisterDto, LoginDto
<1> QED BY <1>7, <1>8, <1>9, <1>10, <1>11, <1>12, <1>13 DEF IInv

LEMMA SignInKeeps ==
    ASSUME NEW c \in Calls, NEW u \in Users, IInv, SignIn(c, u)
    PROVE  IInv'
<1>1. PICK ask \in {"login", "register"}, email \in Emails, password \in Passwords :
         /\ ask = "register" => \E name \in Names, confirm \in Passwords :
                                   RegisterForm(name, email, password, confirm)
         /\ Begin(c, [Idle EXCEPT !.op = "signIn", !.pc = "read", !.ask = ask,
                                  !.who = u, !.typed = <<email, password>>])
    BY DEF SignIn
<1>2. PICK q : q = [Idle EXCEPT !.op = "signIn", !.pc = "read", !.ask = ask,
                                !.who = u, !.typed = <<email, password>>]
    OBVIOUS
<1>3. /\ q \in Call /\ q.op = "signIn" /\ q.pc = "read" /\ q.ask = ask
      /\ q.typed = <<email, password>>
  <2>1. q = [op |-> "signIn", pc |-> "read", ask |-> ask, who |-> u,
             typed |-> <<email, password>>, bearer |-> None, body |-> None,
             reply |-> None, renewed |-> FALSE, alone |-> FALSE]
      BY <1>2 DEF Idle
  <2> QED BY <2>1 DEF Call, Steps, Maybe
<1>4. LocalsOf(q)
    BY <1>3 DEF LocalsOf
<1>5. q.ask = "register" =>
         /\ LoginForm(q.typed[1], q.typed[2])
         /\ q.typed[1] # "odd" => /\ RegisterDto(q.typed[1], q.typed[2])
                                  /\ LoginDto(q.typed[1], q.typed[2])
    BY <1>1, <1>3 DEF RegisterForm, LoginForm, RegisterDto, LoginDto, Emails
<1>6. out' = None /\ UNCHANGED <<storage, persisted, user, server>>
    BY DEF SignIn
<1>7. Begin(c, q)
    BY <1>1, <1>2
<1> QED BY <1>3, <1>4, <1>5, <1>6, <1>7, BeginKeeps

LEMMA LogoutKeeps ==
    ASSUME NEW c \in Calls, IInv, Logout(c)
    PROVE  IInv'
<1>1. PICK q : /\ q = [Idle EXCEPT !.op = "logout", !.pc = "read", !.ask = "logout"]
               /\ Begin(c, q)
    BY DEF Logout
<1>2. /\ q \in Call /\ q.op = "logout" /\ q.pc = "read" /\ q.ask = "logout"
      /\ q.bearer = None
  <2>1. q = [op |-> "logout", pc |-> "read", ask |-> "logout", who |-> None,
             typed |-> <<"empty", "empty">>, bearer |-> None, body |-> None,
             reply |-> None, renewed |-> FALSE, alone |-> FALSE]
      BY <1>1 DEF Idle
  <2> QED BY <2>1 DEF Call, Steps, Maybe, Emails, Passwords
<1>3. LocalsOf(q) /\ ~Renewing(q)
    BY <1>2 DEF LocalsOf, Renewing
<1>4. UNCHANGED <<storage, persisted, user, server, out>>
    BY DEF Logout
<1> QED BY <1>1, <1>2, <1>3, <1>4, BeginKeeps

LEMMA CheckAuthStatusKeeps ==
    ASSUME NEW c \in Calls, IInv, CheckAuthStatus(c)
    PROVE  IInv'
<1>1. PICK q : q = [Idle EXCEPT !.op = "check", !.pc = "probe"] /\ Begin(c, q)
    BY DEF CheckAuthStatus
<1>2. /\ q \in Call /\ q.op = "check" /\ q.pc = "probe" /\ q.ask = "none"
      /\ q.bearer = None
  <2>1. q = [op |-> "check", pc |-> "probe", ask |-> "none", who |-> None,
             typed |-> <<"empty", "empty">>, bearer |-> None, body |-> None,
             reply |-> None, renewed |-> FALSE, alone |-> FALSE]
      BY <1>1 DEF Idle
  <2> QED BY <2>1 DEF Call, Steps, Maybe, Emails, Passwords
<1>3. LocalsOf(q) /\ ~Renewing(q)
    BY <1>2 DEF LocalsOf, Renewing
<1>4. UNCHANGED <<storage, persisted, user, server, out>>
    BY DEF CheckAuthStatus
<1> QED BY <1>1, <1>2, <1>3, <1>4, BeginKeeps

-----------------------------------------------------------------------------
(* The environment *)

LEMMA RestartKeeps == IInv /\ Restart => IInv'
<1> SUFFICES ASSUME IInv, Restart PROVE IInv'
    OBVIOUS
<1>1. /\ UNCHANGED <<access, refresh, persisted, session, renewable, out>>
      /\ user' = persisted /\ isLoading' = FALSE /\ quiet' = {}
      /\ \A c \in Calls : call'[c] = Idle
      /\ call' \in [Calls -> Call]
    BY IdleTyped DEF Restart, storage, server
<1>2. /\ staleView' = (staleView \/ ~AllIdle \/ persisted # user)
      /\ tornTokens' = (tornTokens \/ \E c \in Calls :
                                       call[c].pc \in {"refresh", "clearRefresh"})
    BY DEF Restart
<1>3. /\ LocalsOf(Idle) /\ Idle.pc = "idle" /\ Idle.ask = "none" /\ ~Idle.alone
      /\ ~Renewing(Idle)
    BY DEF LocalsOf, Idle, Renewing
<1>4. Locals' /\ Solitude' /\ Undisturbed' /\ LoggingOut'
    BY <1>1, <1>3 DEF Locals, LocalsOf, Solitude, Undisturbed, UndisturbedOf,
                      LoggingOut
<1>5. FormsAgree' /\ LoadingMeansWork'
    BY <1>1, <1>3 DEF FormsAgree, LoadingMeansWork
<1>6. TypeOK'
  <2>1. {refresh, persisted, user, out}' \subseteq Maybe
      BY <1>1 DEF IInv, TypeOK, Maybe
  <2>2. {isLoading, staleView, tornTokens}' \subseteq BOOLEAN
      BY <1>1, <1>2 DEF IInv, TypeOK
  <2> QED BY <1>1, <1>3, <2>1, <2>2 DEF IInv, TypeOK, Server!TypeOK
<1>7. Paired'
    BY <1>1, <1>2 DEF IInv, Paired, Subject
<1>8. Shown'
  <2>1. ~staleView' => ~staleView /\ AllIdle /\ user' = user
      BY <1>1, <1>2
  <2>2. AllIdle => \A c \in Calls : ~Behind(call[c])
      BY DEF AllIdle, Behind
  <2> QED BY <1>1, <2>1, <2>2 DEF IInv, Shown, Subject
<1>9. LoggedOut'
    BY <1>1, <1>3 DEF IInv, LoggedOut, Unasked
<1> QED BY <1>4, <1>5, <1>6, <1>7, <1>8, <1>9 DEF IInv

LEMMA ExpireKeeps == IInv /\ Expire => IInv'
<1> SUFFICES ASSUME IInv, Expire PROVE IInv'
    OBVIOUS
<1>1. /\ UNCHANGED <<refresh, persisted, user, isLoading, call, session, renewable,
                     staleView, tornTokens, quiet, out>>
      /\ access # None /\ access' = [access EXCEPT !.exp = "past"]
    BY DEF Expire, Live, server, history
<1>2. access' \in Token /\ access' # None /\ access'.sub = access.sub
    BY <1>1, NoTokenAssumption DEF IInv, TypeOK, Token
<1>3. TypeOK'
    BY <1>1, <1>2 DEF IInv, TypeOK, Server!TypeOK
<1>4. Locals' /\ Solitude' /\ LoggingOut' /\ FormsAgree' /\ LoadingMeansWork'
    BY <1>1, <1>2 DEF IInv, Locals, LocalsOf, Solitude, LoggingOut, QuietOf,
                Unasked, FormsAgree, LoadingMeansWork, AllIdle
<1>5. Undisturbed'
    BY <1>1, <1>2 DEF IInv, Undisturbed, UndisturbedOf
<1>6. Paired' /\ Shown'
    BY <1>1, <1>2 DEF IInv, Paired, Shown, Behind, Subject
<1>7. LoggedOut'
    BY <1>1, <1>2 DEF IInv, LoggedOut, Unasked
<1> QED BY <1>3, <1>4, <1>5, <1>6, <1>7 DEF IInv

LEMMA ElsewhereKeeps ==
    ASSUME NEW u \in Users, IInv, Elsewhere(u)
    PROVE  IInv'
<1>1. /\ UNCHANGED <<access, refresh, persisted, user, isLoading, call, session,
                     staleView, tornTokens, quiet, out>>
      /\ renewable' = renewable \ {u}
    BY DEF Elsewhere, Server!Forget, storage, history
<1>2. TypeOK'
    BY <1>1 DEF IInv, TypeOK, Server!TypeOK
<1>3. Locals' /\ Solitude' /\ LoggingOut' /\ FormsAgree' /\ LoadingMeansWork'
    BY <1>1 DEF IInv, Locals, LocalsOf, Solitude, LoggingOut, QuietOf,
                Unasked, FormsAgree, LoadingMeansWork, AllIdle
<1>4. Undisturbed' /\ Paired' /\ Shown' /\ LoggedOut'
    BY <1>1 DEF IInv, Undisturbed, UndisturbedOf, Paired, Shown, Behind, Subject,
                LoggedOut, Unasked
<1> QED BY <1>2, <1>3, <1>4 DEF IInv

\* Neither persist() nor a stuttering step touches what IInv is about.
LEMMA PersistKeeps == IInv /\ (Persist \/ UNCHANGED vars) => IInv'
<1> SUFFICES ASSUME IInv, Persist \/ UNCHANGED vars PROVE IInv'
    OBVIOUS
<1>1. /\ UNCHANGED <<access, refresh, user, isLoading, call, session, renewable,
                     staleView, tornTokens, quiet, out>>
      /\ persisted' \in {persisted, user}
    BY DEF Persist, vars, storage, server, history
<1>2. TypeOK'
    BY <1>1 DEF IInv, TypeOK, Server!TypeOK
<1>3. Locals' /\ Solitude' /\ LoggingOut' /\ FormsAgree' /\ LoadingMeansWork'
    BY <1>1 DEF IInv, Locals, LocalsOf, Solitude, LoggingOut, QuietOf,
                Unasked, FormsAgree, LoadingMeansWork, AllIdle
<1>4. Undisturbed' /\ Paired' /\ Shown' /\ LoggedOut'
    BY <1>1 DEF IInv, Undisturbed, UndisturbedOf, Paired, Shown, Behind, Subject,
                LoggedOut, Unasked
<1> QED BY <1>2, <1>3, <1>4 DEF IInv

-----------------------------------------------------------------------------
(* The theorems *)

LEMMA Invariance == Spec => []IInv
<1>1. ASSUME NEW c \in Calls, IInv, Step(c) PROVE IInv'
    BY <1>1, ProbeKeeps, ReadTokenKeeps, FetchKeeps, StoreAccessKeeps,
       StoreRefreshKeeps, ClearAccessKeeps, ClearRefreshKeeps, ReadRefreshKeeps,
       SetUserKeeps, DropUserKeeps, LeaveUserKeeps DEF Step
<1>2. IInv /\ [Next]_vars => IInv'
    BY <1>1, SignInKeeps, LogoutKeeps, CheckAuthStatusKeeps, PersistKeeps,
       RestartKeeps, ExpireKeeps, ElsewhereKeeps DEF Next
<1> QED BY <1>2, InitIInv, PTL DEF Spec

\* Types of the client's session.
THEOREM TypeCorrect == Spec => []TypeOK
<1>1. IInv => TypeOK
    BY DEF IInv
<1> QED BY <1>1, Invariance, PTL

\* At rest, the store shows whom the access token names, unless calls overlapped,
\* the app was killed or the storage failed since a call that was alone.
THEOREM ViewsNameTokens == Spec => []ViewNamesToken
<1>1. IInv => ViewNamesToken
    BY DEF IInv, Shown, Behind, ViewNamesToken, AllIdle, Subject
<1> QED BY <1>1, Invariance, PTL

\* At rest, the two tokens are of one user and come and go together, after any
\* calls that did not overlap: an overlap, a kill of the app or a failing storage
\* between the two writes is excused until a call that is alone has written both.
THEOREM TokensComeInPairs == Spec => []TokensPaired
<1>1. IInv => TokensPaired
    BY DEF IInv, Paired, TokensPaired, AllIdle, Subject
<1> QED BY <1>1, Invariance, PTL

\* A logout that the server carried out and answered, that cleared both tokens, and
\* beside which no call asked for tokens, is complete until the next sign-in.
\* Checks and other logouts may overlap it, and restarts follow; a renewal or a
\* sign-in in flight beside it, and an answer that was lost, are excepted.
THEOREM LogoutsAreComplete == Spec => []LogoutComplete
<1>1. IInv => LogoutComplete
    BY DEF IInv, LoggedOut, LogoutComplete
<1> QED BY <1>1, Invariance, PTL

\* No form stays disabled without a call in flight.
THEOREM LoadingEnds == Spec => []LoadingMeansWork
<1>1. IInv => LoadingMeansWork
    BY DEF IInv
<1> QED BY <1>1, Invariance, PTL

\* What the sign-up form takes, the sign-in form takes as well, and so does the
\* server's validation, but for an email that IsEmail refuses and the form does not.
THEOREM FormsMatch == Spec => []FormsAgree
<1>1. IInv => FormsAgree
    BY DEF IInv
<1> QED BY <1>1, Invariance, PTL

=============================================================================
