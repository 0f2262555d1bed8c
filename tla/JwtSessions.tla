----------------------------- MODULE JwtSessions -----------------------------
(***************************************************************************)
(* Sessions and the JWT cookie that goes with them (core/jwt_auth.py).     *)
(* Envoy lets a request for a page through only with a token signed by the *)
(* key it read at its start; a few, those to log in and out among them,    *)
(* need none (core/auth_whitelist.py).  Django has its sessions, in its    *)
(* database; JWTCookieMiddleware gives a browser a token for its session,  *)
(* a new one whenever the session is saved, and logs a session out that    *)
(* comes without its token.  One browser sends requests while others are   *)
(* under way; their answers may come in any order, or never.               *)
(*                                                                         *)
(* The processes that answer also make the signing key, if there is none,  *)
(* and the JWKS that Envoy reads.  Django's own sessions, and the login    *)
(* page it leads to, are modelled as this code relies on them.             *)
(***************************************************************************)
EXTENDS Integers, FiniteSets

CONSTANTS
  Processes,  \* what may call signing_key(): commands and gunicorn's workers
  Slots,      \* requests that may be under way at once
  None, Keep, \* no cookie, and a cookie an answer leaves alone
  Age,        \* SESSION_COOKIE_AGE
  Leeway,     \* Envoy's for a token's expiry
  MaxTime, MaxSessions, MaxKeys  \* bounds on time and on what is made

\* A token is for a session, expires, and is signed with a key.
Tokens == [session : Nat, exp : Nat, key : Nat \cup {None}]

ASSUME JwtSessionsAssumption ==
  /\ Age \in Nat \ {0} /\ Leeway \in Nat /\ MaxTime \in Nat
  /\ MaxSessions \in Nat \ {0} /\ MaxKeys \in Nat \ {0}
  /\ None # Keep /\ {None, Keep} \cap (Nat \cup Tokens) = {}

VARIABLES
  keyFile, jwks,  \* the key whose private, and whose public, part is on disk
  made,           \* keys generated so far
  pc, key,        \* each process's place in signing_key(), and its key
  envoy,          \* the key Envoy has read, or None
  now,
  store,          \* Django's sessions that aren't deleted
  sessions,       \* sessions created so far
  jar,            \* the browser's two cookies
  request         \* the requests under way, by slot

keys == <<keyFile, jwks, made, pc, key, envoy>>
vars == <<keyFile, jwks, made, pc, key, envoy, now, store, sessions, jar, request>>

Whitelisted == {"login page", "login", "logout"}
Kinds == Whitelisted \cup {"page", "change"}
Token(session, exp, signer) == [session |-> session, exp |-> exp, key |-> signer]
Row(given, expires) == [given |-> given, expires |-> expires]
Live(session) == session \in DOMAIN store /\ now < store[session].expires
Without(session) == [s \in DOMAIN store \ {session} |-> store[s]]
With(session, row) == [s \in DOMAIN store \cup {session} |-> IF s = session THEN row ELSE store[s]]

\* A cookie is kept, deleted (None) or set by an answer.
Answer(session, token) == [stage |-> "answered", session |-> session, token |-> token]
Free == [stage |-> "free"]

\* At first someone has a session from before there were tokens.
Init ==
  /\ keyFile = None /\ jwks = None /\ made = 0 /\ envoy = None
  /\ pc = [p \in Processes |-> "off"] /\ key = [p \in Processes |-> None]
  /\ now = 0
  /\ store = [s \in {1} |-> Row(FALSE, Age)] /\ sessions = 1
  /\ jar = [session |-> 1, token |-> None]
  /\ request = [r \in Slots |-> Free]

------------------------------------------------------------------------------
(* signing_key(), in each process that starts *)
Load(p, k, place) == key' = [key EXCEPT ![p] = k] /\ pc' = [pc EXCEPT ![p] = place]

ReadKey(p) ==
  /\ pc[p] = "off"
  /\ IF keyFile # None
     THEN Load(p, keyFile, "publish") /\ UNCHANGED made
     ELSE /\ made < MaxKeys /\ made' = made + 1
          /\ Load(p, made + 1, "link")
  /\ UNCHANGED <<keyFile, jwks, envoy, now, store, sessions, jar, request>>

\* Mutant of LinkedOver: the new key is moved into place.
MovedOver(own) == own
\* What os.link() leaves: a file that another process made first stays.
LinkedOver(own) == IF keyFile # None THEN keyFile ELSE own
LinkKey(p) ==
  /\ pc[p] = "link"
  /\ keyFile' = LinkedOver(key[p])
  /\ Load(p, LinkedOver(key[p]), "publish")
  /\ UNCHANGED <<jwks, made, envoy, now, store, sessions, jar, request>>

\* _write_jwks(), whose file is replaced at once.
Publish(p) ==
  /\ pc[p] = "publish"
  /\ jwks' = key[p]
  /\ pc' = [pc EXCEPT ![p] = "ready"]
  /\ UNCHANGED <<keyFile, made, key, envoy, now, store, sessions, jar, request>>

Exit(p) ==  \* the process ends, or is killed
  /\ pc[p] # "off"
  /\ pc' = [pc EXCEPT ![p] = "off"] /\ key' = [key EXCEPT ![p] = None]
  /\ request' = [r \in Slots |-> IF request[r].stage = "loaded" /\ request[r].by = p
                                 THEN Free ELSE request[r]]
  /\ UNCHANGED <<keyFile, jwks, made, envoy, now, store, sessions, jar>>

\* docker-entrypoint.sh starts Envoy after envoy_config has its key.
StartEnvoy ==
  /\ envoy = None /\ \E p \in Processes : pc[p] = "ready"
  /\ envoy' = jwks
  /\ UNCHANGED <<keyFile, jwks, made, pc, key, now, store, sessions, jar, request>>

\* The container stops, with all that was under way.  Its operator may have
\* it make a new key.
Restart ==
  /\ envoy # None
  /\ envoy' = None
  /\ pc' = [p \in Processes |-> "off"] /\ key' = [p \in Processes |-> None]
  /\ request' = [r \in Slots |-> Free]
  /\ keyFile' \in {keyFile} \cup (IF made < MaxKeys THEN {None} ELSE {})
  /\ UNCHANGED <<jwks, made, now, store, sessions, jar>>

------------------------------------------------------------------------------
(* A request: sent through Envoy, loaded, finished, delivered *)
ProxyAccepts(token) == token # None /\ token.key = envoy /\ now < token.exp + Leeway

\* For a page, Envoy sends a browser without a valid token to the login page.
Send(r, kind) ==
  /\ request[r] = Free /\ envoy # None
  /\ kind \in Whitelisted \/ ProxyAccepts(jar.token)
  /\ request' = [request EXCEPT ![r] =
       [stage |-> "sent", kind |-> kind, session |-> jar.session, token |-> jar.token]]
  /\ UNCHANGED <<keys, now, store, sessions, jar>>

\* token_problem(), of a token that may be missing
TokenProblem(token, session, p) ==
  \/ token = None
  \/ token # None /\ (token.key # key[p] \/ token.exp <= now \/ token.session # session)

\* Mutant of LogsOut: a missing cookie isn't looked into.
LogsOutForBadToken(token, session, p) ==
  store[session].given /\ token # None /\ TokenProblem(token, session, p)
\* _check_cookie(), of a session with a user
LogsOut(token, session, p) == store[session].given /\ TokenProblem(token, session, p)

Loaded(r, p, user, given) ==
  request' = [request EXCEPT ![r] =
    [stage |-> "loaded", kind |-> request[r].kind, session |-> request[r].session,
     token |-> request[r].token, by |-> p, user |-> user, given |-> given]]

LoadSession(r, p) ==
  /\ request[r].stage = "sent" /\ pc[p] = "ready"
  /\ LET session == request[r].session
     IN IF ~Live(session) THEN Loaded(r, p, FALSE, FALSE) /\ UNCHANGED store
        ELSE IF LogsOut(request[r].token, session, p)
        THEN Loaded(r, p, FALSE, FALSE) /\ store' = Without(session)
        ELSE Loaded(r, p, TRUE, store[session].given) /\ UNCHANGED store
  /\ UNCHANGED <<keys, now, sessions, jar>>

Deleted(cookie) == IF cookie = None THEN Keep ELSE None
Answered(r, answer) == request' = [request EXCEPT ![r] = answer]
\* Of no session there is left: Django deletes its cookie, and
\* _update_cookie() the token's.
SignedOut(r) == Answered(r, Answer(Deleted(request[r].session), Deleted(request[r].token)))
\* A session that is saved gets a new token, which is good for as long.
Renewed(r, session) ==
  /\ Answered(r, Answer(session, Token(session, now + Age, key[request[r].by])))
  /\ store' = With(session, Row(TRUE, now + Age))

\* Logging in, with the right password: the session's key is a new one, but
\* for who was logged in already.
LogIn(r) ==
  /\ request[r].stage = "loaded" /\ request[r].kind = "login" /\ ~request[r].user
  /\ sessions < MaxSessions /\ sessions' = sessions + 1
  /\ Renewed(r, sessions + 1)
  /\ UNCHANGED <<keys, now, jar>>

\* Any other request, and a log-in with a wrong password, of no user.
AnswerVisitor(r) ==
  /\ request[r].stage = "loaded" /\ ~request[r].user
  /\ SignedOut(r)
  /\ UNCHANGED <<keys, now, store, sessions, jar>>

LogOut(r) ==
  /\ request[r].stage = "loaded" /\ request[r].kind = "logout" /\ request[r].user
  /\ SignedOut(r) /\ store' = Without(request[r].session)
  /\ UNCHANGED <<keys, now, sessions, jar>>

\* The session is saved if the request has changed it, or has no token yet.
Modifies(r) == request[r].kind \in {"change", "login"} \/ ~request[r].given
AnswerUser(r) ==
  /\ request[r].stage = "loaded" /\ request[r].kind # "logout" /\ request[r].user
  /\ ~Modifies(r)
  /\ Answered(r, Answer(Keep, Keep))
  /\ UNCHANGED <<keys, now, store, sessions, jar>>
\* A session that has been deleted since it was loaded can't be saved: the
\* answer is an error, without the cookies.
SaveSession(r) ==
  /\ request[r].stage = "loaded" /\ request[r].kind # "logout" /\ request[r].user
  /\ Modifies(r)
  /\ IF request[r].session \in DOMAIN store
     THEN Renewed(r, request[r].session)
     ELSE Answered(r, Answer(Keep, Keep)) /\ UNCHANGED store
  /\ UNCHANGED <<keys, now, sessions, jar>>

\* Mutant of AfterError: the token is renewed all the same.
RenewedToken(r) == Token(request[r].session, now + Age, key[request[r].by])
\* The cookies after a 500: the session isn't saved, nor a token issued.
AfterError(r) == Keep
Error(r) ==
  /\ request[r].stage = "loaded" /\ request[r].user /\ request[r].kind # "logout"
  /\ Answered(r, Answer(Keep, AfterError(r)))
  /\ UNCHANGED <<keys, now, store, sessions, jar>>

Put(cookie, old) == IF cookie = Keep THEN old ELSE cookie
Deliver(r) ==
  /\ request[r].stage = "answered"
  /\ jar' = [session |-> Put(request[r].session, jar.session),
             token |-> Put(request[r].token, jar.token)]
  /\ request' = [request EXCEPT ![r] = Free]
  /\ UNCHANGED <<keys, now, store, sessions>>
Lose(r) ==
  /\ request[r].stage = "answered"
  /\ request' = [request EXCEPT ![r] = Free]
  /\ UNCHANGED <<keys, now, store, sessions, jar>>

\* The browser drops the cookies when they expire, if its clock is right: a
\* token's with the token, its session's when that was to expire.
Tick ==
  /\ now < MaxTime /\ now' = now + 1
  /\ jar' \in {jar,
       [session |-> IF jar.session \in DOMAIN store
                    THEN IF store[jar.session].expires <= now' THEN None ELSE jar.session
                    ELSE jar.session,
        token |-> IF jar.token = None THEN None
                  ELSE IF jar.token.exp <= now' THEN None ELSE jar.token]}
  /\ UNCHANGED <<keys, store, sessions, request>>

KeyNext ==
  \/ \E p \in Processes : ReadKey(p) \/ LinkKey(p) \/ Publish(p) \/ Exit(p)
  \/ StartEnvoy \/ Restart
RequestNext ==
  \E r \in Slots :
    \/ \E kind \in Kinds : Send(r, kind)
    \/ \E p \in Processes : LoadSession(r, p)
    \/ LogIn(r) \/ AnswerVisitor(r) \/ LogOut(r) \/ AnswerUser(r) \/ SaveSession(r) \/ Error(r)
    \/ Deliver(r) \/ Lose(r)
Next == KeyNext \/ RequestNext \/ Tick
Spec == Init /\ [][Next]_vars

------------------------------------------------------------------------------
\* However the processes that start race to make a key, die half way, and
\* start again while Envoy runs, they all sign with the key on disk, which is
\* the one Envoy checks with.
OneKey ==
  /\ \A p \in Processes : pc[p] \in {"publish", "ready"} => key[p] = keyFile
  /\ (\E p \in Processes : pc[p] = "ready") => jwks = keyFile
  /\ envoy # None => envoy = keyFile

\* Whatever order answers arrive in, the browser's token is for the session
\* it comes with, and none it is sent lasts longer than its session does.
TokensSent ==
  {jar.token} \cup {request[r].token : r \in {q \in Slots : request[q].stage # "free"}}
TokenGoesWithSession ==
  /\ jar.session # None /\ jar.token # None => jar.token.session = jar.session
  /\ \A token \in TokensSent \ {None, Keep} :
       token.session \in DOMAIN store => token.exp <= store[token.session].expires

\* "Its exp is the session's expiry, and it's re-issued whenever that advances
\* (Django moves it forward each time it saves the session), so it never expires
\* before the session does" (jwt_auth.py:16-19).  Does not hold (README, section
\* 5) of a browser an answer doesn't reach, or reaches late: its token is an
\* earlier one.
TokenLastsWithSession ==
  (\A r \in Slots : request[r] = Free) /\ jar.token # None =>
    LET session == jar.token.session
    IN Live(session) => jar.token.exp >= store[session].expires

\* The login page sends who is logged in back to the page, and Envoy sends
\* who has no good token to the login page.  Nobody is sent to and fro: who
\* is still logged in when their session has been checked has a token that
\* Envoy accepts, or else gets one.
NoRedirectLoop ==
  [][\A r \in Slots :
       request[r].stage = "sent" /\ request'[r].stage = "loaded"
         /\ request'[r].user /\ request'[r].given
       => ProxyAccepts(request[r].token)]_vars
=============================================================================
