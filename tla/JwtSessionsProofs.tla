------------------------- MODULE JwtSessionsProofs -------------------------
(***************************************************************************)
(* That everyone uses one key, that the browser's token is for its session *)
(* and that nobody is sent to and fro, for any number of processes and of  *)
(* requests under way, however long they run.                              *)
(***************************************************************************)
EXTENDS JwtSessions, TLAPS

KeyOrNone == Nat \cup {None}
Rows == [given : BOOLEAN, expires : Nat]
Sent == [stage : {"sent"}, kind : Kinds, session : Nat \cup {None}, token : Tokens \cup {None}]
Underway ==
  [stage : {"loaded"}, kind : Kinds, session : Nat \cup {None}, token : Tokens \cup {None},
   by : Processes, user : BOOLEAN, given : BOOLEAN]
Answers ==
  [stage : {"answered"}, session : Nat \cup {None, Keep}, token : Tokens \cup {None, Keep}]
Requests == {Free} \cup Sent \cup Underway \cup Answers

TypeOK ==
  /\ keyFile \in KeyOrNone /\ jwks \in KeyOrNone /\ envoy \in KeyOrNone
  /\ made \in Nat /\ now \in Nat /\ sessions \in Nat
  /\ pc \in [Processes -> {"off", "link", "publish", "ready"}]
  /\ key \in [Processes -> KeyOrNone]
  /\ DOMAIN store \in SUBSET Nat /\ store \in [DOMAIN store -> Rows]
  /\ jar \in [session : Nat \cup {None}, token : Tokens \cup {None}]
  /\ request \in [Slots -> Requests]

(* A process that has got as far as to have a key has one.                 *)
KeyHeld == \A p \in Processes : pc[p] # "off" => key[p] # None

(* A request has passed Envoy, which has run since.                        *)
EnvoyRuns == \A r \in Slots : request[r].stage # "free" => envoy # None

(* An answer sets both cookies, for one session, or neither: then it keeps *)
(* or deletes each.                                                        *)
AnswersAgree ==
  \A r \in Slots : request[r].stage = "answered" =>
    \/ request[r].session \in {None, Keep} /\ request[r].token \in {None, Keep}
    \/ request[r].token \in Tokens /\ request[r].session = request[r].token.session

(* No token lasts longer than one issued now would.                        *)
ExpiresInTime(token) == token \in Tokens => token.exp <= now + Age
TokensExpire ==
  /\ ExpiresInTime(jar.token)
  /\ \A r \in Slots : request[r].stage # "free" => ExpiresInTime(request[r].token)

KeyInv == KeyHeld /\ OneKey
LoopInv == KeyInv /\ EnvoyRuns

------------------------------------------------------------------------------
(* Type correctness.                                                       *)

(* A request's stage says which fields it has.                             *)
LEMMA StageTells ==
  ASSUME TypeOK, NEW r \in Slots
  PROVE  /\ request[r].stage = "free" => request[r] = Free
         /\ request[r].stage = "sent" => request[r] \in Sent
         /\ request[r].stage = "loaded" => request[r] \in Underway
         /\ request[r].stage = "answered" => request[r] \in Answers
         /\ request[r].stage \in {"free", "sent", "loaded", "answered"}
<1>1. request[r] \in Requests
  BY DEF TypeOK
<1> QED BY <1>1 DEF Requests, Free, Sent, Underway, Answers

LEMMA KeyTypes == TypeOK /\ KeyNext => TypeOK'
<1> SUFFICES ASSUME TypeOK, KeyNext PROVE TypeOK'
  OBVIOUS
<1>1. ASSUME NEW p \in Processes, ReadKey(p) PROVE TypeOK'
  BY <1>1, JwtSessionsAssumption DEF ReadKey, Load, TypeOK, KeyOrNone
<1>2. ASSUME NEW p \in Processes, LinkKey(p) PROVE TypeOK'
  BY <1>2 DEF LinkKey, LinkedOver, Load, TypeOK, KeyOrNone
<1>3. ASSUME NEW p \in Processes, Publish(p) PROVE TypeOK'
  BY <1>3 DEF Publish, TypeOK, KeyOrNone
<1>4. ASSUME NEW p \in Processes, Exit(p) PROVE TypeOK'
  <2>1. request' \in [Slots -> Requests]
    BY <1>4 DEF Exit, TypeOK, Requests
  <2> QED BY <1>4, <2>1 DEF Exit, TypeOK, KeyOrNone
<1>5. CASE StartEnvoy
  BY <1>5 DEF StartEnvoy, TypeOK, KeyOrNone
<1>6. CASE Restart
  <2>1. request' \in [Slots -> Requests]
    BY <1>6 DEF Restart, Requests
  <2> QED BY <1>6, <2>1 DEF Restart, TypeOK, KeyOrNone
<1> QED BY <1>1, <1>2, <1>3, <1>4, <1>5, <1>6 DEF KeyNext

(* A session that is saved leaves a well-formed store, and its answer.     *)
LEMMA RenewedTypes ==
  ASSUME TypeOK, NEW r \in Slots, request[r].stage = "loaded", NEW s \in Nat, Renewed(r, s)
  PROVE  /\ request' \in [Slots -> Requests]
         /\ DOMAIN store' \in SUBSET Nat /\ store' \in [DOMAIN store' -> Rows]
<1>1. now + Age \in Nat
  BY JwtSessionsAssumption DEF TypeOK
<1>2. key[request[r].by] \in KeyOrNone
  BY StageTells DEF TypeOK, Underway
<1>3. Token(s, now + Age, key[request[r].by]) \in Tokens
  BY <1>1, <1>2 DEF Token, Tokens, KeyOrNone
<1>4. Answer(s, Token(s, now + Age, key[request[r].by])) \in Requests
  BY <1>3 DEF Answer, Answers, Requests
<1>5. request' \in [Slots -> Requests]
  BY <1>4 DEF Renewed, Answered, TypeOK
<1>6. Row(TRUE, now + Age) \in Rows
  BY <1>1 DEF Row, Rows
<1>7. DOMAIN store' = DOMAIN store \cup {s}
  BY DEF Renewed, With
<1>8. \A q \in DOMAIN store' : store'[q] \in Rows
  BY <1>6 DEF Renewed, With, TypeOK
<1>9. store' \in [DOMAIN store' -> Rows]
  BY <1>8 DEF Renewed, With
<1> QED BY <1>5, <1>7, <1>9 DEF TypeOK

LEMMA WithoutTypes ==
  ASSUME TypeOK, NEW s, store' = Without(s)
  PROVE  DOMAIN store' \in SUBSET Nat /\ store' \in [DOMAIN store' -> Rows]
BY DEF TypeOK, Without

LEMMA SignedOutTypes ==
  ASSUME TypeOK, NEW r \in Slots, SignedOut(r)
  PROVE  request' \in [Slots -> Requests]
BY DEF TypeOK, SignedOut, Answered, Answer, Deleted, Requests, Answers

LEMMA RequestTypes ==
  ASSUME TypeOK, NEW r \in Slots
  PROVE  /\ \A kind \in Kinds : Send(r, kind) => TypeOK'
         /\ \A p \in Processes : LoadSession(r, p) => TypeOK'
<1>1. ASSUME NEW kind \in Kinds, Send(r, kind) PROVE TypeOK'
  <2>1. [stage |-> "sent", kind |-> kind, session |-> jar.session, token |-> jar.token] \in Requests
    BY DEF TypeOK, Requests, Sent
  <2> QED BY <1>1, <2>1 DEF Send, TypeOK, keys
<1>2. ASSUME NEW p \in Processes, LoadSession(r, p) PROVE TypeOK'
  <2>1. request[r] \in Sent
    BY <1>2, StageTells DEF LoadSession
  <2>2. \A user, given \in BOOLEAN : Loaded(r, p, user, given) => request' \in [Slots -> Requests]
    BY <2>1 DEF Loaded, TypeOK, Sent, Underway, Requests
  <2>3. Live(request[r].session) => store[request[r].session].given \in BOOLEAN
    BY DEF Live, TypeOK, Rows
  <2>4. request' \in [Slots -> Requests]
    BY <1>2, <2>2, <2>3 DEF LoadSession
  <2>5. store' = store \/ store' = Without(request[r].session)
    BY <1>2 DEF LoadSession
  <2>6. DOMAIN store' \in SUBSET Nat /\ store' \in [DOMAIN store' -> Rows]
    BY <2>5, WithoutTypes DEF TypeOK
  <2> QED BY <1>2, <2>4, <2>6 DEF LoadSession, TypeOK, keys
<1> QED BY <1>1, <1>2

LEMMA AnswerTypes ==
  ASSUME TypeOK, NEW r \in Slots
  PROVE  /\ LogIn(r) => TypeOK'
         /\ AnswerVisitor(r) => TypeOK'
         /\ LogOut(r) => TypeOK'
         /\ AnswerUser(r) => TypeOK'
         /\ SaveSession(r) => TypeOK'
         /\ Error(r) => TypeOK'
<1>1. ASSUME LogIn(r) PROVE TypeOK'
  <2>1. sessions + 1 \in Nat
    BY DEF TypeOK
  <2>2. /\ request' \in [Slots -> Requests]
        /\ DOMAIN store' \in SUBSET Nat /\ store' \in [DOMAIN store' -> Rows]
    BY <1>1, <2>1, RenewedTypes DEF LogIn
  <2> QED BY <1>1, <2>1, <2>2 DEF LogIn, TypeOK, keys
<1>2. ASSUME AnswerVisitor(r) PROVE TypeOK'
  BY <1>2, SignedOutTypes DEF AnswerVisitor, TypeOK, keys
<1>3. ASSUME LogOut(r) PROVE TypeOK'
  BY <1>3, SignedOutTypes, WithoutTypes DEF LogOut, TypeOK, keys
<1>4. Answer(Keep, Keep) \in Requests
  BY DEF Answer, Answers, Requests
<1>5. ASSUME Answered(r, Answer(Keep, Keep)) PROVE request' \in [Slots -> Requests]
  BY <1>4, <1>5 DEF Answered, TypeOK
<1>6. ASSUME AnswerUser(r) PROVE TypeOK'
  BY <1>5, <1>6 DEF AnswerUser, TypeOK, keys
<1>7. ASSUME SaveSession(r) PROVE TypeOK'
  <2>1. request[r].session \in DOMAIN store => request[r].session \in Nat
    BY DEF TypeOK
  <2>2. /\ request' \in [Slots -> Requests]
        /\ DOMAIN store' \in SUBSET Nat /\ store' \in [DOMAIN store' -> Rows]
    BY <1>5, <1>7, <2>1, RenewedTypes DEF SaveSession, TypeOK
  <2> QED BY <1>7, <2>2 DEF SaveSession, TypeOK, keys
<1>8. ASSUME Error(r) PROVE TypeOK'
  BY <1>5, <1>8 DEF Error, AfterError, TypeOK, keys
<1> QED BY <1>1, <1>2, <1>3, <1>6, <1>7, <1>8

LEMMA DeliverTypes ==
  ASSUME TypeOK, NEW r \in Slots
  PROVE  (Deliver(r) \/ Lose(r)) => TypeOK'
<1>1. Free \in Requests
  BY DEF Requests
<1>2. ASSUME Deliver(r) PROVE TypeOK'
  <2>1. request[r] \in Answers
    BY <1>2, StageTells DEF Deliver
  <2>2. /\ Put(request[r].session, jar.session) \in Nat \cup {None}
        /\ Put(request[r].token, jar.token) \in Tokens \cup {None}
    BY <2>1 DEF Put, Answers, TypeOK
  <2> QED BY <1>1, <1>2, <2>2 DEF Deliver, TypeOK, keys
<1>3. ASSUME Lose(r) PROVE TypeOK'
  BY <1>1, <1>3 DEF Lose, TypeOK, keys
<1> QED BY <1>2, <1>3

LEMMA TickTypes == TypeOK /\ Tick => TypeOK'
<1> SUFFICES ASSUME TypeOK, Tick PROVE TypeOK'
  OBVIOUS
<1>1. now' \in Nat
  BY DEF Tick, TypeOK
<1>2. jar' \in [session : Nat \cup {None}, token : Tokens \cup {None}]
  BY DEF Tick, TypeOK
<1> QED BY <1>1, <1>2 DEF Tick, TypeOK, keys

(* The state has the shape that jwt_auth.py and Django give it: rows of    *)
(* Django's sessions, cookies that are a session's or a token, and so on.  *)
THEOREM TypeCorrect == Spec => []TypeOK
<1>1. Init => TypeOK
  BY JwtSessionsAssumption DEF Init, TypeOK, KeyOrNone, Row, Rows, Requests
<1>2. TypeOK /\ [Next]_vars => TypeOK'
  <2> SUFFICES ASSUME TypeOK, [Next]_vars PROVE TypeOK'
    OBVIOUS
  <2>1. CASE KeyNext
    BY <2>1, KeyTypes
  <2>2. CASE RequestNext
    BY <2>2, RequestTypes, AnswerTypes, DeliverTypes DEF RequestNext
  <2>3. CASE Tick
    BY <2>3, TickTypes
  <2>4. CASE UNCHANGED vars
    BY <2>4 DEF vars, TypeOK
  <2> QED BY <2>1, <2>2, <2>3, <2>4 DEF Next
<1> QED BY <1>1, <1>2, PTL DEF Spec

------------------------------------------------------------------------------
(* One key.  Only LinkKey makes the file, and only when there is none: no  *)
(* process has a key to publish or to use yet, or the file would be its.   *)
LEMMA KeysKeep == TypeOK /\ KeyInv /\ KeyNext => KeyInv'
<1> SUFFICES ASSUME TypeOK, KeyHeld, OneKey, KeyNext PROVE KeyHeld' /\ OneKey'
  BY DEF KeyInv
<1>1. ASSUME NEW p \in Processes, ReadKey(p) PROVE KeyHeld' /\ OneKey'
  <2>1. made + 1 # None
    BY JwtSessionsAssumption DEF TypeOK
  <2> QED BY <1>1, <2>1 DEF ReadKey, Load, KeyHeld, OneKey, TypeOK
<1>2. ASSUME NEW p \in Processes, LinkKey(p) PROVE KeyHeld' /\ OneKey'
  <2>1. key[p] # None
    BY <1>2 DEF LinkKey, KeyHeld
  <2>2. keyFile # None => keyFile' = keyFile
    BY <1>2 DEF LinkKey, LinkedOver
  <2>3. keyFile = None => /\ \A q \in Processes : pc[q] \notin {"publish", "ready"}
                          /\ envoy = None
    BY DEF OneKey, KeyHeld
  <2>4. /\ keyFile' # None /\ pc' = [pc EXCEPT ![p] = "publish"]
        /\ key' = [key EXCEPT ![p] = keyFile'] /\ jwks' = jwks /\ envoy' = envoy
    BY <1>2, <2>1 DEF LinkKey, LinkedOver, Load
  <2> QED BY <2>2, <2>3, <2>4 DEF OneKey, KeyHeld, TypeOK
<1>3. ASSUME NEW p \in Processes, Publish(p) PROVE KeyHeld' /\ OneKey'
  BY <1>3 DEF Publish, KeyHeld, OneKey, TypeOK
<1>4. ASSUME NEW p \in Processes, Exit(p) PROVE KeyHeld' /\ OneKey'
  BY <1>4 DEF Exit, KeyHeld, OneKey, TypeOK
<1>5. CASE StartEnvoy
  BY <1>5 DEF StartEnvoy, KeyHeld, OneKey
<1>6. CASE Restart
  BY <1>6 DEF Restart, KeyHeld, OneKey
<1> QED BY <1>1, <1>2, <1>3, <1>4, <1>5, <1>6 DEF KeyNext

LEMMA RequestsKeepKeys ==
  /\ RequestNext => UNCHANGED keys
  /\ Tick => UNCHANGED keys
  /\ UNCHANGED vars => UNCHANGED keys
BY DEF RequestNext, Send, LoadSession, LogIn, AnswerVisitor, LogOut, AnswerUser, SaveSession,
       Error, Deliver, Lose, Tick, vars, keys

LEMMA KeysInvariant == Spec => [](TypeOK /\ KeyInv)
<1>1. Init => KeyInv
  BY DEF Init, KeyInv, KeyHeld, OneKey
<1>2. TypeOK /\ KeyInv /\ [Next]_vars => KeyInv'
  <2> SUFFICES ASSUME TypeOK, KeyInv, [Next]_vars PROVE KeyInv'
    OBVIOUS
  <2>1. CASE KeyNext
    BY <2>1, KeysKeep
  <2>2. CASE UNCHANGED keys
    BY <2>2 DEF KeyInv, KeyHeld, OneKey, keys
  <2> QED BY <2>1, <2>2, RequestsKeepKeys DEF Next
<1> QED BY <1>1, <1>2, TypeCorrect, PTL DEF Spec

(* However the processes that call signing_key() race to link a key, die   *)
(* and start again, those that are past it sign with the key on disk, and  *)
(* it is the key Envoy checks with.                                        *)
THEOREM OneKeyAlways == Spec => []OneKey
<1>1. KeyInv => OneKey
  BY DEF KeyInv
<1> QED BY <1>1, KeysInvariant, PTL

------------------------------------------------------------------------------
(* Nobody is sent to and fro.                                              *)

(* While any request is under way Envoy runs, with the key it had.         *)
LEMMA EnvoyRunsOn == TypeOK /\ EnvoyRuns /\ [Next]_vars => EnvoyRuns'
<1> SUFFICES ASSUME TypeOK, EnvoyRuns, [Next]_vars PROVE EnvoyRuns'
  OBVIOUS
<1>1. ASSUME envoy' = envoy, \A r \in Slots : request'[r].stage = "free" \/ envoy # None
      PROVE  EnvoyRuns'
  BY <1>1 DEF EnvoyRuns
<1>2. Free.stage = "free"
  BY DEF Free
<1>3. CASE KeyNext
  <2>1. ASSUME NEW p \in Processes, ReadKey(p) \/ LinkKey(p) \/ Publish(p) PROVE EnvoyRuns'
    BY <2>1 DEF EnvoyRuns, ReadKey, LinkKey, Publish
  <2>2. ASSUME NEW p \in Processes, Exit(p) PROVE EnvoyRuns'
    BY <2>2, <1>2 DEF EnvoyRuns, Exit
  <2>3. CASE StartEnvoy
    BY <2>3 DEF EnvoyRuns, StartEnvoy
  <2>4. CASE Restart
    BY <2>4, <1>2 DEF EnvoyRuns, Restart
  <2> QED BY <1>3, <2>1, <2>2, <2>3, <2>4 DEF KeyNext
<1>4. ASSUME NEW r \in Slots, NEW x, request' = [request EXCEPT ![r] = x], UNCHANGED keys,
             request[r].stage # "free" \/ envoy # None
      PROVE  EnvoyRuns'
  <2>1. envoy' = envoy
    BY <1>4 DEF keys
  <2> QED BY <1>4, <2>1 DEF EnvoyRuns, TypeOK
<1>5. CASE RequestNext
  <2> PICK r \in Slots :
         \/ \E kind \in Kinds : Send(r, kind)
         \/ \E p \in Processes : LoadSession(r, p)
         \/ LogIn(r) \/ AnswerVisitor(r) \/ LogOut(r) \/ AnswerUser(r) \/ SaveSession(r) \/ Error(r)
         \/ Deliver(r) \/ Lose(r)
    BY <1>5 DEF RequestNext
  <2>1. UNCHANGED keys
    BY <1>5, RequestsKeepKeys
  <2>2. ASSUME NEW kind \in Kinds, Send(r, kind) PROVE EnvoyRuns'
    BY <1>4, <2>1, <2>2 DEF Send
  <2>3. ASSUME NEW p \in Processes, LoadSession(r, p) PROVE EnvoyRuns'
    BY <1>4, <2>1, <2>3 DEF LoadSession, Loaded
  <2>4. CASE LogIn(r)
    BY <1>4, <2>1, <2>4 DEF LogIn, Renewed, Answered
  <2>5. CASE AnswerVisitor(r) \/ LogOut(r)
    BY <1>4, <2>1, <2>5 DEF AnswerVisitor, LogOut, SignedOut, Answered
  <2>6. CASE AnswerUser(r) \/ Error(r)
    BY <1>4, <2>1, <2>6 DEF AnswerUser, Error, Answered
  <2>7. CASE SaveSession(r)
    BY <1>4, <2>1, <2>7 DEF SaveSession, Renewed, Answered
  <2>8. CASE Deliver(r) \/ Lose(r)
    BY <1>4, <2>1, <2>8 DEF Deliver, Lose
  <2> QED BY <2>2, <2>3, <2>4, <2>5, <2>6, <2>7, <2>8
<1>6. CASE Tick \/ UNCHANGED vars
  BY <1>6 DEF Tick, vars, keys, EnvoyRuns
<1> QED BY <1>3, <1>5, <1>6 DEF Next

LEMMA LoopInvariant == Spec => [](TypeOK /\ LoopInv)
<1>1. Init => EnvoyRuns
  BY DEF Init, EnvoyRuns, Free
<1> QED BY <1>1, EnvoyRunsOn, KeysInvariant, PTL DEF Spec, LoopInv

(* What LoadSession finds of a session that stays logged in with a token   *)
(* given: the token is what Envoy accepts.                                 *)
LEMMA LoadedIsAccepted ==
  ASSUME TypeOK, LoopInv, NEW r \in Slots, NEW p \in Processes, LoadSession(r, p),
         request'[r].user, request'[r].given
  PROVE  ProxyAccepts(request[r].token)
<1> DEFINE session == request[r].session
           token == request[r].token
<1>1. request[r] \in Sent /\ pc[p] = "ready"
  BY StageTells DEF LoadSession
<1>2. ASSUME NEW user, NEW given, Loaded(r, p, user, given)
      PROVE  request'[r].user = user /\ request'[r].given = given
  BY <1>2 DEF Loaded, TypeOK
<1>3. Live(session) /\ ~LogsOut(token, session, p) /\ store[session].given
  BY <1>2 DEF LoadSession
<1>4. ~TokenProblem(token, session, p)
  BY <1>3 DEF LogsOut
<1>5. token # None /\ token.key = key[p] /\ ~(token.exp <= now)
  BY <1>4 DEF TokenProblem
<1>6. token.key = envoy
  BY <1>1, <1>5 DEF LoopInv, KeyInv, OneKey, EnvoyRuns, Sent
<1>7. token.exp \in Nat
  BY <1>1, <1>5 DEF Sent, Tokens
<1>8. now < token.exp + Leeway
  BY <1>5, <1>7, JwtSessionsAssumption DEF TypeOK
<1> QED BY <1>5, <1>6, <1>8 DEF ProxyAccepts

(* Only LoadSession takes a request that was sent to one that is loaded.   *)
LEMMA OnlyLoadSessionLoads ==
  ASSUME TypeOK, [Next]_vars, NEW r \in Slots,
         request[r].stage = "sent", request'[r].stage = "loaded"
  PROVE  \E p \in Processes : LoadSession(r, p)
<1>1. ASSUME NEW q \in Slots, NEW x, request' = [request EXCEPT ![q] = x], x.stage # "loaded"
      PROVE  FALSE
  <2>1. request'[r] = x \/ request'[r] = request[r]
    BY <1>1 DEF TypeOK
  <2> QED BY <1>1, <2>1
<1>2. Free.stage = "free"
  BY DEF Free
<1>3. \A session, token : Answer(session, token).stage = "answered"
  BY DEF Answer
<1>4. CASE KeyNext
  <2>1. request' = request \/ \A q \in Slots : request'[q] = Free \/ request'[q] = request[q]
    BY <1>4 DEF KeyNext, ReadKey, LinkKey, Publish, Exit, StartEnvoy, Restart
  <2> QED BY <1>2, <2>1
<1>5. CASE RequestNext
  <2> PICK q \in Slots :
         \/ \E kind \in Kinds : Send(q, kind)
         \/ \E p \in Processes : LoadSession(q, p)
         \/ LogIn(q) \/ AnswerVisitor(q) \/ LogOut(q) \/ AnswerUser(q) \/ SaveSession(q) \/ Error(q)
         \/ Deliver(q) \/ Lose(q)
    BY <1>5 DEF RequestNext
  <2>1. ASSUME NEW kind \in Kinds, Send(q, kind) PROVE FALSE
    BY <1>1, <2>1 DEF Send
  <2>2. ASSUME NEW p \in Processes, LoadSession(q, p) PROVE LoadSession(r, p)
    <3>1. q # r => request'[r] = request[r]
      BY <2>2 DEF LoadSession, Loaded, TypeOK
    <3> QED BY <2>2, <3>1
  <2>3. ASSUME LogIn(q) \/ SaveSession(q) PROVE FALSE
    <3>1. \E session, token : Answered(q, Answer(session, token))
      BY <2>3 DEF LogIn, SaveSession, Renewed
    <3> QED BY <1>1, <1>3, <3>1 DEF Answered
  <2>4. ASSUME AnswerVisitor(q) \/ LogOut(q) PROVE FALSE
    BY <1>1, <1>3, <2>4 DEF AnswerVisitor, LogOut, SignedOut, Answered
  <2>5. ASSUME AnswerUser(q) \/ Error(q) PROVE FALSE
    BY <1>1, <1>3, <2>5 DEF AnswerUser, Error, Answered
  <2>6. ASSUME Deliver(q) \/ Lose(q) PROVE FALSE
    BY <1>1, <1>2, <2>6 DEF Deliver, Lose
  <2> QED BY <2>1, <2>2, <2>3, <2>4, <2>5, <2>6
<1>6. CASE Tick \/ UNCHANGED vars
  BY <1>6 DEF Tick, vars
<1> QED BY <1>4, <1>5, <1>6 DEF Next

(* The middleware never leaves someone logged in whom Envoy would send to  *)
(* log in: who is, when their session has been loaded and checked, and has *)
(* been given a token before, came with one that Envoy accepts.            *)
THEOREM NobodyLoops == Spec => NoRedirectLoop
<1>1. TypeOK /\ LoopInv /\ [Next]_vars =>
        [\A r \in Slots :
           request[r].stage = "sent" /\ request'[r].stage = "loaded"
             /\ request'[r].user /\ request'[r].given
           => ProxyAccepts(request[r].token)]_vars
  BY OnlyLoadSessionLoads, LoadedIsAccepted
<1> QED BY <1>1, LoopInvariant, PTL DEF Spec, NoRedirectLoop

------------------------------------------------------------------------------
(* The token goes with the session.                                        *)

(* A token doesn't last longer than its session, if there is one still.    *)
Fits(token) ==
  token \in Tokens /\ token.session \in DOMAIN store => token.exp <= store[token.session].expires
JarAgrees == jar.session # None /\ jar.token # None => jar.token.session = jar.session
AllFit == Fits(jar.token) /\ \A r \in Slots : request[r].stage # "free" => Fits(request[r].token)

(* TokenGoesWithSession, said of the jar and of each request.              *)
LEMMA GoesWith ==
  ASSUME TypeOK PROVE TokenGoesWithSession <=> JarAgrees /\ AllFit
<1>1. jar.token \in Tokens \cup {None}
  BY DEF TypeOK
<1>2. ASSUME NEW r \in Slots, request[r].stage # "free"
      PROVE  request[r].token \in Tokens \cup {None, Keep}
  BY <1>2, StageTells DEF Sent, Underway, Answers
<1>3. TokensSent \subseteq Tokens \cup {None, Keep}
  BY <1>1, <1>2 DEF TokensSent
<1>4. None \notin Tokens /\ Keep \notin Tokens
  BY JwtSessionsAssumption
<1>5. (\A token \in TokensSent \ {None, Keep} :
         token.session \in DOMAIN store => token.exp <= store[token.session].expires)
      <=> \A token \in TokensSent : Fits(token)
  BY <1>3, <1>4 DEF Fits
<1>6. (\A token \in TokensSent : Fits(token)) <=> AllFit
  BY DEF TokensSent, AllFit
<1> QED BY <1>5, <1>6 DEF TokenGoesWithSession, JarAgrees

(* What a step does to the rows of Django's sessions: some go, others get  *)
(* the time from now that a new token has.                                 *)
StoreOnlyRenews ==
  \A s \in DOMAIN store' :
    \/ s \in DOMAIN store /\ store'[s] = store[s]
    \/ store'[s].expires = now + Age
TokensHold == AnswersAgree /\ TokensExpire /\ JarAgrees /\ AllFit

(* A request that moves on holds a token it had, or a new one.             *)
LEMMA RequestMoves ==
  ASSUME TypeOK, TypeOK', TokensHold, StoreOnlyRenews, now' = now, jar' = jar,
         NEW r \in Slots, NEW x, request' = [request EXCEPT ![r] = x],
         \/ x.stage = "free"
         \/ x.token \in {None, Keep, jar.token}
         \/ request[r].stage # "free" /\ x.token = request[r].token
         \/ x.token.exp = now + Age /\ (x.token.session \in DOMAIN store' =>
                                          store'[x.token.session].expires = now + Age),
         x.stage = "answered" =>
           \/ x.session \in {None, Keep} /\ x.token \in {None, Keep}
           \/ x.token \in Tokens /\ x.session = x.token.session
  PROVE  TokensHold'
<1>1. now + Age \in Nat
  BY JwtSessionsAssumption DEF TypeOK
<1>2. None \notin Tokens /\ Keep \notin Tokens
  BY JwtSessionsAssumption
<1>3. ASSUME NEW token, Fits(token), ExpiresInTime(token) PROVE Fits(token)' /\ ExpiresInTime(token)'
  BY <1>3 DEF Fits, ExpiresInTime, StoreOnlyRenews
<1>4. Fits(jar.token)' /\ ExpiresInTime(jar.token)'
  BY <1>3 DEF TokensHold, AllFit, TokensExpire, Fits, ExpiresInTime
<1>5. x.stage # "free" => Fits(x.token)' /\ ExpiresInTime(x.token)'
  <2>1. CASE x.token \in {None, Keep}
    BY <1>2, <2>1 DEF Fits, ExpiresInTime
  <2>2. CASE x.token = jar.token
    BY <1>4, <2>2 DEF Fits, ExpiresInTime
  <2>3. CASE request[r].stage # "free" /\ x.token = request[r].token
    BY <1>3, <2>3 DEF TokensHold, AllFit, TokensExpire, Fits, ExpiresInTime
  <2>4. CASE /\ x.token.exp = now + Age
             /\ x.token.session \in DOMAIN store' => store'[x.token.session].expires = now + Age
    BY <1>1, <2>4 DEF Fits, ExpiresInTime
  <2> QED BY <2>1, <2>2, <2>3, <2>4
<1>6. ASSUME NEW q \in Slots
      PROVE  (request[q].stage # "free" => Fits(request[q].token) /\ ExpiresInTime(request[q].token))'
  <2>1. CASE q = r
    <3>1. request'[q] = x
      BY <2>1 DEF TypeOK
    <3> QED BY <1>5, <3>1 DEF Fits, ExpiresInTime
  <2>2. CASE q # r
    <3>1. request'[q] = request[q]
      BY <2>2 DEF TypeOK
    <3>2. ASSUME request[q].stage # "free"
          PROVE  Fits(request[q].token) /\ ExpiresInTime(request[q].token)
      BY <3>2 DEF TokensHold, AllFit, TokensExpire
    <3>3. ASSUME request[q].stage # "free"
          PROVE  \A token : token = request[q].token => Fits(token)' /\ ExpiresInTime(token)'
      BY <1>3, <3>2, <3>3
    <3> QED BY <3>1, <3>3 DEF Fits, ExpiresInTime
  <2> QED BY <2>1, <2>2
<1>7. AnswersAgree'
  BY DEF TokensHold, AnswersAgree, TypeOK
<1> QED BY <1>4, <1>6, <1>7 DEF TokensHold, AllFit, TokensExpire, JarAgrees, Fits, ExpiresInTime

LEMMA LoadingHoldsTokens ==
  ASSUME TypeOK, TypeOK', TokensHold, NEW r \in Slots, NEW p \in Processes, LoadSession(r, p)
  PROVE  TokensHold'
<1>1. StoreOnlyRenews
  BY DEF LoadSession, StoreOnlyRenews, Without
<1>2. PICK user, given : Loaded(r, p, user, given)
  BY DEF LoadSession
<1> DEFINE x == [stage |-> "loaded", kind |-> request[r].kind, session |-> request[r].session,
                 token |-> request[r].token, by |-> p, user |-> user, given |-> given]
<1>3. /\ request' = [request EXCEPT ![r] = x] /\ request[r].stage # "free"
      /\ x.stage = "loaded" /\ x.token = request[r].token /\ now' = now /\ jar' = jar
  BY <1>2 DEF LoadSession, Loaded
<1> HIDE DEF x
<1> QED BY <1>1, <1>3, RequestMoves

LEMMA SendingHoldsTokens ==
  ASSUME TypeOK, TypeOK', TokensHold, NEW r \in Slots, NEW kind \in Kinds, Send(r, kind)
  PROVE  TokensHold'
<1> DEFINE x == [stage |-> "sent", kind |-> kind, session |-> jar.session, token |-> jar.token]
<1>1. StoreOnlyRenews
  BY DEF Send, StoreOnlyRenews
<1>2. /\ request' = [request EXCEPT ![r] = x] /\ x.stage = "sent" /\ x.token = jar.token
      /\ now' = now /\ jar' = jar
  BY DEF Send
<1> HIDE DEF x
<1> QED BY <1>1, <1>2, RequestMoves

(* An answer with a new token comes with its session, saved till then.     *)
LEMMA RenewingHoldsTokens ==
  ASSUME TypeOK, TypeOK', TokensHold, NEW r \in Slots, request[r].stage = "loaded",
         NEW s \in Nat, Renewed(r, s), now' = now, jar' = jar
  PROVE  TokensHold'
<1> DEFINE token == Token(s, now + Age, key[request[r].by])
           x == Answer(s, token)
<1>1. /\ s \in DOMAIN store' /\ store'[s].expires = now + Age
      /\ \A q \in DOMAIN store' : q = s \/ (q \in DOMAIN store /\ store'[q] = store[q])
  BY DEF Renewed, With, Row
<1>2. StoreOnlyRenews
  BY <1>1 DEF StoreOnlyRenews
<1>3. now + Age \in Nat /\ key[request[r].by] \in KeyOrNone
  BY JwtSessionsAssumption, StageTells DEF TypeOK, Underway
<1>4. token \in Tokens /\ token.session = s /\ token.exp = now + Age
  BY <1>3 DEF Token, Tokens, KeyOrNone
<1>5. x.session = s /\ x.token = token /\ request' = [request EXCEPT ![r] = x]
  BY DEF Renewed, Answered, Answer
<1> HIDE DEF token, x
<1> QED BY <1>1, <1>2, <1>4, <1>5, RequestMoves

(* Any other answer keeps each cookie or deletes it, and at most deletes a *)
(* session.                                                                *)
LEMMA OtherAnswersHoldTokens ==
  ASSUME TypeOK, TypeOK', TokensHold, NEW r \in Slots,
         NEW session \in {None, Keep}, NEW token \in {None, Keep},
         Answered(r, Answer(session, token)), now' = now, jar' = jar,
         store' = store \/ \E s : store' = Without(s)
  PROVE  TokensHold'
<1> DEFINE x == Answer(session, token)
<1>1. StoreOnlyRenews
  BY DEF StoreOnlyRenews, Without
<1>2. /\ request' = [request EXCEPT ![r] = x] /\ x.stage = "answered"
      /\ x.token \in {None, Keep} /\ x.session \in {None, Keep}
  BY DEF Answered, Answer
<1> HIDE DEF x
<1> QED BY <1>1, <1>2, RequestMoves

LEMMA AnsweringHoldsTokens ==
  ASSUME TypeOK, TypeOK', TokensHold, NEW r \in Slots
  PROVE  /\ LogIn(r) => TokensHold'
         /\ AnswerVisitor(r) => TokensHold'
         /\ LogOut(r) => TokensHold'
         /\ AnswerUser(r) => TokensHold'
         /\ SaveSession(r) => TokensHold'
         /\ Error(r) => TokensHold'
<1>1. ASSUME LogIn(r) PROVE TokensHold'
  <2>1. sessions + 1 \in Nat
    BY DEF TypeOK
  <2> QED BY <1>1, <2>1, RenewingHoldsTokens DEF LogIn
<1>2. Deleted(request[r].session) \in {None, Keep} /\ Deleted(request[r].token) \in {None, Keep}
  BY DEF Deleted
<1>3. ASSUME AnswerVisitor(r) PROVE TokensHold'
  BY <1>2, <1>3, OtherAnswersHoldTokens DEF AnswerVisitor, SignedOut
<1>4. ASSUME LogOut(r) PROVE TokensHold'
  BY <1>2, <1>4, OtherAnswersHoldTokens DEF LogOut, SignedOut
<1>5. ASSUME AnswerUser(r) PROVE TokensHold'
  BY <1>5, OtherAnswersHoldTokens DEF AnswerUser
<1>6. ASSUME SaveSession(r) PROVE TokensHold'
  <2>1. CASE request[r].session \in DOMAIN store
    <3>1. request[r].session \in Nat
      BY <2>1 DEF TypeOK
    <3> QED BY <1>6, <2>1, <3>1, RenewingHoldsTokens DEF SaveSession
  <2>2. CASE request[r].session \notin DOMAIN store
    BY <1>6, <2>2, OtherAnswersHoldTokens DEF SaveSession
  <2> QED BY <2>1, <2>2
<1>7. ASSUME Error(r) PROVE TokensHold'
  BY <1>7, OtherAnswersHoldTokens DEF Error, AfterError
<1> QED BY <1>1, <1>3, <1>4, <1>5, <1>6, <1>7

(* An answer that is delivered brings both cookies for one session, keeps  *)
(* them or deletes some.                                                   *)
LEMMA DeliveringHoldsTokens ==
  ASSUME TypeOK, TypeOK', TokensHold, NEW r \in Slots
  PROVE  /\ Deliver(r) => TokensHold'
         /\ Lose(r) => TokensHold'
<1>1. Free.stage = "free"
  BY DEF Free
<1>2. ASSUME Lose(r) PROVE TokensHold'
  <2>1. StoreOnlyRenews
    BY <1>2 DEF Lose, StoreOnlyRenews
  <2> QED BY <1>1, <1>2, <2>1, RequestMoves DEF Lose
<1>3. ASSUME Deliver(r) PROVE TokensHold'
  <2>1. request[r].stage = "answered" /\ store' = store /\ now' = now
    BY <1>3 DEF Deliver
  <2>2. \A q \in Slots : request'[q] = request[q] \/ request'[q].stage = "free"
    BY <1>1, <1>3 DEF Deliver, TypeOK
  <2>3. jar'.token \in {jar.token, request[r].token}
    BY <1>3 DEF Deliver, Put
  <2>4. Fits(jar.token) /\ Fits(request[r].token)
        /\ ExpiresInTime(jar.token) /\ ExpiresInTime(request[r].token)
    BY <2>1 DEF TokensHold, AllFit, TokensExpire
  <2>5. (Fits(jar.token) /\ ExpiresInTime(jar.token))'
    BY <2>1, <2>3, <2>4 DEF Fits, ExpiresInTime
  <2>6. AnswersAgree' /\ AllFit' /\ TokensExpire'
    BY <2>1, <2>2, <2>5 DEF TokensHold, AnswersAgree, AllFit, TokensExpire, Fits, ExpiresInTime
  <2>7. /\ jar'.session = Put(request[r].session, jar.session)
        /\ jar'.token = Put(request[r].token, jar.token)
    BY <1>3 DEF Deliver
  <2>8. \/ request[r].session \in {None, Keep} /\ request[r].token \in {None, Keep}
        \/ request[r].token \in Tokens /\ request[r].session = request[r].token.session
    BY <2>1 DEF TokensHold, AnswersAgree
  <2>9. JarAgrees'
    <3>1. None \notin Tokens /\ Keep \notin Tokens /\ Keep \notin Nat
          /\ \A token \in Tokens : token.session \in Nat
      BY JwtSessionsAssumption DEF Tokens
    <3> QED BY <2>7, <2>8, <3>1 DEF TokensHold, JarAgrees, Put
  <2> QED BY <2>6, <2>9 DEF TokensHold
<1> QED BY <1>2, <1>3

LEMMA TickHoldsTokens == TypeOK /\ TypeOK' /\ TokensHold /\ Tick => TokensHold'
<1> SUFFICES ASSUME TypeOK, TypeOK', TokensHold, Tick PROVE TokensHold'
  OBVIOUS
<1>1. /\ now' = now + 1 /\ store' = store /\ request' = request
      /\ jar'.token \in {None, jar.token} /\ jar'.session \in {None, jar.session}
  BY DEF Tick, TypeOK
<1>2. None \notin Tokens
  BY JwtSessionsAssumption
<1>3. \A token : ExpiresInTime(token) => ExpiresInTime(token)'
  BY <1>1, JwtSessionsAssumption DEF ExpiresInTime, Tokens, TypeOK
<1>4. \A token : Fits(token) => Fits(token)'
  BY <1>1 DEF Fits
<1>5. AnswersAgree' /\ JarAgrees'
  BY <1>1 DEF TokensHold, AnswersAgree, JarAgrees
<1>6. (Fits(jar.token) /\ ExpiresInTime(jar.token))'
  <2>1. CASE jar'.token = None
    BY <1>2, <2>1 DEF Fits, ExpiresInTime
  <2>2. CASE jar'.token = jar.token
    <3>1. Fits(jar.token) /\ ExpiresInTime(jar.token)
      BY DEF TokensHold, AllFit, TokensExpire
    <3>2. \A token : token = jar.token => Fits(token)' /\ ExpiresInTime(token)'
      BY <1>3, <1>4, <3>1
    <3> QED BY <2>2, <3>2 DEF Fits, ExpiresInTime
  <2> QED BY <1>1, <2>1, <2>2
<1>7. ASSUME NEW r \in Slots
      PROVE  (request[r].stage # "free" => Fits(request[r].token) /\ ExpiresInTime(request[r].token))'
  <2>1. ASSUME request[r].stage # "free"
        PROVE  \A token : token = request[r].token => Fits(token)' /\ ExpiresInTime(token)'
    BY <1>3, <1>4, <2>1 DEF TokensHold, AllFit, TokensExpire
  <2> QED BY <1>1, <2>1 DEF Fits, ExpiresInTime
<1> QED BY <1>5, <1>6, <1>7 DEF TokensHold, AllFit, TokensExpire

(* Keys are made and processes come and go; requests are at most dropped.  *)
LEMMA KeysHoldTokens == TypeOK /\ TokensHold /\ KeyNext => TokensHold'
<1> SUFFICES ASSUME TypeOK, TokensHold, KeyNext PROVE TokensHold'
  OBVIOUS
<1>1. UNCHANGED <<now, store, jar>>
  BY DEF KeyNext, ReadKey, LinkKey, Publish, Exit, StartEnvoy, Restart
<1>2. \A r \in Slots : request'[r] = Free \/ request'[r] = request[r]
  BY DEF KeyNext, ReadKey, LinkKey, Publish, Exit, StartEnvoy, Restart
<1>3. Free.stage = "free"
  BY DEF Free
<1> QED BY <1>1, <1>2, <1>3 DEF TokensHold, AnswersAgree, AllFit, TokensExpire, JarAgrees, Fits,
                               ExpiresInTime

(* Whatever order answers arrive in, and whatever is logged out, renewed   *)
(* or lost meanwhile, the browser's token (_update_cookie) is for the      *)
(* session whose cookie it has, and doesn't outlast that session's row.    *)
THEOREM TokensGoWithSessions == Spec => []TokenGoesWithSession
<1>1. Init => TokensHold
  <2> SUFFICES ASSUME Init PROVE TokensHold
    OBVIOUS
  <2>1. jar.token = None /\ None \notin Tokens /\ \A r \in Slots : request[r].stage = "free"
    BY JwtSessionsAssumption DEF Init, Free
  <2> QED BY <2>1 DEF TokensHold, AnswersAgree, AllFit, TokensExpire, JarAgrees, Fits, ExpiresInTime
<1>2. TypeOK /\ TypeOK' /\ TokensHold /\ [Next]_vars => TokensHold'
  <2> SUFFICES ASSUME TypeOK, TypeOK', TokensHold, [Next]_vars PROVE TokensHold'
    OBVIOUS
  <2>1. CASE KeyNext
    BY <2>1, KeysHoldTokens
  <2>2. CASE RequestNext
    BY <2>2, SendingHoldsTokens, LoadingHoldsTokens, AnsweringHoldsTokens, DeliveringHoldsTokens
       DEF RequestNext
  <2>3. CASE Tick
    BY <2>3, TickHoldsTokens
  <2>4. CASE UNCHANGED vars
    BY <2>4 DEF vars, TokensHold, AnswersAgree, AllFit, TokensExpire, JarAgrees, Fits, ExpiresInTime
  <2> QED BY <2>1, <2>2, <2>3, <2>4 DEF Next
<1>3. TypeOK /\ TokensHold => TokenGoesWithSession
  BY GoesWith DEF TokensHold
<1> QED BY <1>1, <1>2, <1>3, TypeCorrect, PTL DEF Spec

=============================================================================
