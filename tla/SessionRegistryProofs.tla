------------------------ MODULE SessionRegistryProofs ------------------------
(***************************************************************************)
(* SystemSession implements SessionRegistry when the client reads the key  *)
(* it is asked for.                                                        *)
(***************************************************************************)
EXTENDS SystemSessionProofs

\* The filter's half of a request: a login waits for it only where the filter is in
\* front of the login route, and whoever was let in is done.  And the service's half:
\* which keyspace a SET writes, and with that for how long, is decided by its callback.
Gate(q) ==
  /\ q.pc = "validateSession" /\ q.kind = "login" => filtered
  /\ q.admitted => q.pc = "done"
  /\ q.pc \in {"registerLicense", "refreshAccount"} => q.key.space = "account_token"
  /\ q.pc \in {"openSession", "refreshSession"} => q.key.space = "sso"

GateOK == \A r \in Reqs : Gate(req[r])

Good(q) == q.pc = "validateSession" /\ q.reply = "found"
             /\ q.value.colon /\ q.value.token = q.token

\* A request that is neither decided nor let in.
Calm(q) == Gate(q) /\ ~Good(q) /\ ~q.admitted
Calmly(r) == Calm(req[r]) /\ \E q : Calm(q) /\ req' = [req EXCEPT ![r] = q]

decidedVisits == {pass(r) : r \in {q \in Reqs : goodFound(q)}}
admittedVisits == {pass(r) : r \in {q \in Reqs : req[q].admitted}}
visits == <<decidedVisits, admittedVisits>>

LEMMA CalmStep ==
  ASSUME TypeOK, GateOK, NEW r \in Reqs, Calmly(r), filtered' = filtered
  PROVE  GateOK' /\ UNCHANGED visits
<1>1. PICK q : Calm(q) /\ req' = [req EXCEPT ![r] = q]
  BY DEF Calmly
<1>2. req'[r] = q /\ \A o \in Reqs : o # r => req'[o] = req[o]
  BY <1>1 DEF TypeOK
<1>3. GateOK'
  BY <1>1, <1>2 DEF GateOK, Gate, Calm
<1>4. \A o \in Reqs : goodFound(o) <=> Good(req[o])
  BY DEF goodFound, Good, Back, sessionMatches
<1>5. \A o \in Reqs : goodFound(o)' <=> Good(req'[o])
  BY DEF goodFound, Good, Back, sessionMatches
<1>6. ~Good(req[r]) /\ ~req[r].admitted /\ ~Good(req'[r]) /\ ~req'[r].admitted
  BY <1>1, <1>2 DEF Calmly, Calm
<1>7. \A o \in Reqs : /\ goodFound(o)' <=> goodFound(o)
                      /\ req'[o].admitted <=> req[o].admitted
                      /\ goodFound(o) \/ req[o].admitted => pass(o)' = pass(o)
  BY <1>2, <1>4, <1>5, <1>6 DEF pass
<1>8. decidedVisits' = decidedVisits /\ admittedVisits' = admittedVisits
  BY <1>7 DEF decidedVisits, admittedVisits
<1>9. QED
  BY <1>3, <1>8 DEF visits

\* Nothing starts as decided.
LEMMA StartCalm ==
  ASSUME TypeOK, GateOK, NEW r \in Reqs, Start(r)
  PROVE  Calmly(r)
<1>1. /\ req[r] \in Request /\ req[r].pc = "idle" /\ ~req[r].admitted /\ Calm(req[r])
  BY DEF Start, MissingParameters, GetAccountToken, KeepAlive, Guarded, Login,
    TypeOK, GateOK, Gate, Calm, Good
<1>2. SUFFICES \E q : Calm(q) /\ req' = [req EXCEPT ![r] = q]
  BY <1>1 DEF Calmly
<1>3. CASE MissingParameters(r)
  <2> DEFINE code(kind) ==
        IF kind = "guarded" \/ (kind = "login" /\ filtered) THEN 401 ELSE 1000
  <2>1. PICK kind \in {"token", "login", "guarded"} :
          req' = [req EXCEPT ![r] = [@ EXCEPT !.pc = "done", !.kind = kind,
                                              !.code = code(kind)]]
    BY <1>3 DEF MissingParameters
  <2> HIDE DEF code
  <2>2. Calm([req[r] EXCEPT !.pc = "done", !.kind = kind, !.code = code(kind)])
    BY <1>1 DEF Calm, Gate, Good, Request
  <2>3. QED
    BY <2>1, <2>2
<1>4. ASSUME NEW k \in Consumers, NEW s \in Secrets, NEW t \in Tokens,
             GetAccountToken(r, k, s, t)
      PROVE  \E q : Calm(q) /\ req' = [req EXCEPT ![r] = q]
  <2>1. Calm(SendSet([req[r] EXCEPT !.token = t], "registerLicense",
                     accountTokenKey(t), Consumer(k)))
    BY <1>1 DEF Calm, Gate, Good, Request, SendSet, accountTokenKey
  <2>2. Calm([req[r] EXCEPT !.pc = "done", !.code = 1001])
    BY <1>1 DEF Calm, Gate, Good, Request
  <2>3. QED
    BY <1>4, <2>1, <2>2 DEF GetAccountToken
<1>5. ASSUME NEW t \in Tokens, NEW c \in Cookies, KeepAlive(r, t, c)
      PROVE  \E q : Calm(q) /\ req' = [req EXCEPT ![r] = q]
  <2>1. Calm(SendGet([req[r] EXCEPT !.kind = "keepAlive", !.token = t, !.cookie = c],
                     "keepAccount", accountTokenKey(t)))
    BY <1>1 DEF Calm, Gate, Good, Request, SendGet
  <2>2. QED
    BY <1>5, <2>1 DEF KeepAlive
<1>6. ASSUME NEW t \in Tokens, NEW c \in Cookies, Guarded(r, t, c)
      PROVE  \E q : Calm(q) /\ req' = [req EXCEPT ![r] = q]
  <2> DEFINE q == AskForSession([req[r] EXCEPT !.kind = "guarded", !.token = t,
                                  !.cookie = c, !.entitled = LoggedIn(t, c)])
  <2>1. Calm(q)
    BY <1>1 DEF Calm, Gate, Good, Request, SendGet, AskForSession
  <2>2. req' = [req EXCEPT ![r] = q]
    BY <1>6 DEF Guarded
  <2> HIDE DEF q
  <2>3. QED
    BY <2>1, <2>2
<1>7. ASSUME NEW t \in Tokens, NEW c \in Cookies, NEW u \in Users, NEW p \in Passwords,
             Login(r, t, c, u, p)
      PROVE  \E q : Calm(q) /\ req' = [req EXCEPT ![r] = q]
  <2> DEFINE q == [req[r] EXCEPT !.kind = "login", !.token = t, !.cookie = c,
                                 !.user = u, !.password = p]
  <2>1. filtered => Calm(AskForSession(q))
    BY <1>1 DEF Calm, Gate, Good, Request, SendGet, AskForSession
  <2>2. Calm(AskForAccount(q))
    BY <1>1 DEF Calm, Gate, Good, Request, SendGet, AskForAccount
  <2>3. req' = [req EXCEPT ![r] = IF filtered THEN AskForSession(q) ELSE AskForAccount(q)]
    BY <1>7 DEF Login
  <2> HIDE DEF q
  <2>4. QED
    BY <2>1, <2>2, <2>3
<1>8. QED
  BY <1>3, <1>4, <1>5, <1>6, <1>7 DEF Start

LEMMA RespondCalm ==
  ASSUME TypeOK, GateOK, NEW r \in Reqs, Calm(req[r]), NEW code, Respond(r, code)
  PROVE  Calmly(r)
<1>1. Calm([req[r] EXCEPT !.pc = "done", !.reply = "none", !.code = code])
  BY DEF Calm, Gate, Good, TypeOK, Request
<1>2. QED
  BY <1>1 DEF Respond, Calmly

\* Of the callbacks only SessionAccepted lets somebody in.
LEMMA CallbackCalm ==
  ASSUME TypeOK, GateOK, NEW r \in Reqs, Callback(r), ~SessionAccepted(r)
  PROVE  Calmly(r)
<1>1. req[r] \in Request /\ Gate(req[r])
  BY DEF TypeOK, GateOK
<1>2. ASSUME req[r].pc \notin {"done", "validateSession"}
      PROVE  Calm(req[r])
  BY <1>1, <1>2 DEF Calm, Gate, Good
<1>3. ASSUME NEW q, req' = [req EXCEPT ![r] = q], Calm(q), Calm(req[r])
      PROVE  Calmly(r)
  BY <1>3 DEF Calmly
<1>4. ASSUME Calm(req[r]), NEW key, NEW value
      PROVE  /\ key.space = "account_token" => Calm(SendSet(req[r], "refreshAccount", key, value))
             /\ key.space = "sso" => Calm(SendSet(req[r], "refreshSession", key, value))
             /\ Calm(SendGet(req[r], "keepSession", key))
  BY <1>1, <1>4 DEF Calm, Gate, Good, SendSet, SendGet, Request
<1>k. \A t, c : accountTokenKey(t).space = "account_token" /\ ssoKey(c).space = "sso"
  BY DEF accountTokenKey, ssoKey
<1>5. CASE OnLastSet(r)
  BY <1>2, <1>5, RespondCalm DEF OnLastSet
<1>6. CASE OnAccountFound(r)
  <2>1. Calm(req[r])
    BY <1>2, <1>6 DEF OnAccountFound
  <2>2. Calm([req[r] EXCEPT !.pc = "findUser", !.reply = "pending"])
    BY <1>1, <2>1 DEF Calm, Gate, Good, Request
  <2>3. QED
    BY <1>3, <1>6, <2>1, <2>2, RespondCalm DEF OnAccountFound
<1>7. CASE LoginRefused(r)
  BY <1>2, <1>7, RespondCalm DEF LoginRefused
<1>8. CASE \E c \in Cookies : OpenSession(r, c)
  <2>1. PICK c \in Cookies : OpenSession(r, c)
    BY <1>8
  <2>2. Calm(req[r])
    BY <1>2, <2>1 DEF OpenSession, Back
  <2> DEFINE q == SendSet([req[r] EXCEPT !.cookie = c], "openSession", ssoKey(c),
                          ssoValue(req[r].token, req[r].user))
  <2>3. Calm(q)
    BY <1>1, <1>k, <2>2 DEF Calm, Gate, Good, SendSet, Request
  <2>4. req' = [req EXCEPT ![r] = q]
    BY <2>1 DEF OpenSession
  <2> HIDE DEF q
  <2>5. QED
    BY <1>3, <2>2, <2>3, <2>4
<1>9. CASE OnKeepAccount(r)
  <2>1. Calm(req[r])
    BY <1>2, <1>9 DEF OnKeepAccount
  <2>2. QED
    BY <1>3, <1>4, <1>k, <1>9, <2>1, RespondCalm DEF OnKeepAccount
<1>10. CASE OnAccountRefreshed(r)
  <2>1. Calm(req[r])
    BY <1>2, <1>10 DEF OnAccountRefreshed
  <2>2. QED
    BY <1>3, <1>4, <1>10, <2>1, RespondCalm DEF OnAccountRefreshed
<1>11. CASE OnKeepSession(r)
  <2>1. Calm(req[r])
    BY <1>2, <1>11 DEF OnKeepSession
  <2>2. QED
    BY <1>3, <1>4, <1>k, <1>11, <2>1, RespondCalm DEF OnKeepSession
<1>12. CASE SessionRefused(r)
  <2>1. Calm(req[r])
    BY <1>1, <1>12 DEF SessionRefused, Calm, Good, Gate, sessionMatches
  <2>2. QED
    BY <1>12, <2>1, RespondCalm DEF SessionRefused
<1>13. QED
  BY <1>5, <1>6, <1>7, <1>8, <1>9, <1>10, <1>11, <1>12 DEF Callback

\* The stores' answers: only a GET of validateSession can decide a visit.
LEMMA ReplyCalm ==
  ASSUME TypeOK, GateOK, NEW r \in Reqs, req[r].pc # "done", req[r].reply = "pending",
         NEW what, Reply(r, what), what # "found"
  PROVE  Calmly(r)
<1>1. Calm(req[r]) /\ Calm([req[r] EXCEPT !.reply = what])
  BY DEF TypeOK, GateOK, Gate, Good, Calm, Request
<1>2. QED
  BY <1>1 DEF Reply, Calmly

-----------------------------------------------------------------------------
(* Which step of the registry a step of the service is. *)

IInv == TypeOK /\ SessionsTraced /\ LoginUnreachable /\ GateOK

Refines == Registry!Next \/ UNCHANGED Registry!vars

tables == <<issuedTokens, madeSessions, onRecord, now>>

LEMMA StutterRefines ==
  ASSUME UNCHANGED tables, UNCHANGED visits
  PROVE  Refines
BY DEF tables, visits, Refines, Registry!vars, decidedVisits, admittedVisits

LEMMA SameTables ==
  ASSUME UNCHANGED <<licensed, opened, redis, now>>
  PROVE  UNCHANGED tables
BY DEF tables, issuedTokens, madeSessions, onRecord

\* getAccountToken issues a token; other operations start without a trace.
LEMMA StartRefines ==
  ASSUME IInv, NEW r \in Reqs, Start(r)
  PROVE  GateOK' /\ Refines
<1> USE DEF stores, env
<1>1. /\ UNCHANGED <<filtered, opened, redis, now>>
      /\ \/ UNCHANGED licensed
         \/ \E k \in Consumers, s \in Secrets, t \in Tokens :
              /\ \A a \in licensed : a.token # t
              /\ licensed' = licensed \union {[token |-> t, consumer |-> k, secret |-> s]}
  BY DEF Start, MissingParameters, GetAccountToken, KeepAlive, Guarded, Login
<1>2. GateOK' /\ UNCHANGED visits
  BY <1>1, StartCalm, CalmStep DEF IInv
<1>3. CASE UNCHANGED licensed
  BY <1>1, <1>2, <1>3, SameTables, StutterRefines
<1>4. CASE \E k \in Consumers, s \in Secrets, t \in Tokens :
             /\ \A a \in licensed : a.token # t
             /\ licensed' = licensed \union {[token |-> t, consumer |-> k, secret |-> s]}
  <2>1. PICK t \in Tokens, b \in licensed' :
          /\ \A a \in licensed : a.token # t
          /\ licensed' = licensed \union {b} /\ b.token = t
    <3>1. PICK k \in Consumers, s \in Secrets, t \in Tokens :
            /\ \A a \in licensed : a.token # t
            /\ licensed' = licensed \union {[token |-> t, consumer |-> k, secret |-> s]}
      BY <1>4
    <3>2. [token |-> t, consumer |-> k, secret |-> s].token = t
      OBVIOUS
    <3>3. QED
      BY <3>1, <3>2
  <2>2. t \notin issuedTokens /\ issuedTokens' = issuedTokens \union {t}
    BY <2>1 DEF issuedTokens
  <2>3. UNCHANGED <<madeSessions, onRecord, now>>
    BY <1>1 DEF madeSessions, onRecord
  <2>4. Registry!Issue(t)
    BY <1>2, <2>2, <2>3 DEF Registry!Issue, visits, decidedVisits, admittedVisits
  <2>5. QED
    BY <1>2, <2>4 DEF Refines, Registry!Next
<1>5. QED
  BY <1>1, <1>3, <1>4

\* A login that succeeded makes a session, under a token that was issued.
LEMMA OpenRefines ==
  ASSUME IInv, NEW r \in Reqs, NEW c \in Cookies, OpenSession(r, c),
         UNCHANGED visits
  PROVE  Refines
<1> DEFINE s == [cookie |-> c, token |-> req[r].token, user |-> req[r].user]
<1>1. /\ TokenLicensed(req[r].token) /\ req[r] \in Request
      /\ \A o \in opened : o.cookie # c
      /\ UNCHANGED <<licensed, redis, now>>
  BY DEF IInv, SessionsTraced, RequestTraced, TypeOK, OpenSession, Back, env
<1>2. s \in Registry!Session /\ s.token \in issuedTokens /\ s.cookie = c
  BY <1>1 DEF Registry!Session, Request, TokenLicensed, issuedTokens
<1>3. madeSessions' = madeSessions \union {s}
  <2> DEFINE o == [cookie |-> c, token |-> req[r].token, user |-> req[r].user,
                   password |-> req[r].password, since |-> now]
  <2>1. opened' = opened \union {o}
    BY DEF OpenSession
  <2>2. s = [cookie |-> o.cookie, token |-> o.token, user |-> o.user]
    OBVIOUS
  <2> HIDE DEF o, s
  <2>3. QED
    BY <2>1, <2>2 DEF madeSessions
<1>4. \A m \in madeSessions : m.cookie # c
  BY <1>1 DEF madeSessions
<1>5. UNCHANGED <<issuedTokens, onRecord, now>>
  BY <1>1 DEF issuedTokens, onRecord
<1> HIDE DEF s
<1>6. Registry!Make(s)
  BY <1>2, <1>3, <1>4, <1>5 DEF Registry!Make, visits, decidedVisits, admittedVisits
<1>7. QED
  BY <1>2, <1>6 DEF Refines, Registry!Next

\* SessionAccepted lets in the visit that was decided.  It is no login's: where a login
\* passes the filter, no session is ever found.
LEMMA AcceptRefines ==
  ASSUME IInv, NEW r \in Reqs, SessionAccepted(r)
  PROVE  GateOK' /\ Refines
<1> USE DEF stores, env
<1>1. /\ TypeOK /\ GateOK /\ req[r] \in Request /\ req[r].pc = "validateSession"
      /\ req[r].reply = "found" /\ req[r].value.colon /\ goodFound(r)
      /\ UNCHANGED <<filtered, licensed, opened, redis, now>>
  BY DEF IInv, TypeOK, SessionAccepted, Back, sessionMatches, goodFound
<1>2. ~filtered
  BY <1>1 DEF IInv, LoginUnreachable, NoColonAnywhere
<1>3. req[r].kind # "login" /\ ~req[r].admitted
  BY <1>1, <1>2 DEF GateOK, Gate
<1> DEFINE q == [req[r] EXCEPT !.pc = "done", !.reply = "none", !.code = 200,
                               !.admitted = TRUE]
<1>4. q.pc = "done" /\ q.admitted /\ q.cookie = req[r].cookie /\ q.token = req[r].token
  BY <1>1 DEF Request
<1>5. req' = [req EXCEPT ![r] = q]
  BY <1>3 DEF SessionAccepted
<1> HIDE DEF q
<1>6. req'[r] = q /\ \A o \in Reqs : o # r => req'[o] = req[o]
  BY <1>1, <1>5 DEF TypeOK
<1>7. GateOK'
  BY <1>1, <1>4, <1>6 DEF GateOK, Gate
<1>8. /\ \A o \in Reqs : o # r => /\ goodFound(o)' <=> goodFound(o)
                                  /\ req'[o].admitted <=> req[o].admitted
                                  /\ pass(o)' = pass(o)
      /\ ~goodFound(r)' /\ pass(r)' = pass(r) /\ req'[r].admitted
  BY <1>4, <1>6 DEF goodFound, Back, sessionMatches, pass
<1>9. \A o \in Reqs : o # r => pass(o) # pass(r)
  BY DEF pass
<1>10. /\ pass(r) \in decidedVisits
       /\ decidedVisits' = decidedVisits \ {pass(r)}
       /\ admittedVisits' = admittedVisits \union {pass(r)}
  BY <1>1, <1>8, <1>9 DEF decidedVisits, admittedVisits
<1>11. UNCHANGED tables
  BY <1>1, SameTables
<1>12. PICK p \in decidedVisits : p = pass(r)
  BY <1>10
<1>13. Registry!Admit(p)
  BY <1>10, <1>11, <1>12 DEF Registry!Admit, tables, decidedVisits, admittedVisits
<1>14. QED
  BY <1>7, <1>12, <1>13 DEF Refines, Registry!Next, decidedVisits

LEMMA CallbackRefines ==
  ASSUME IInv, NEW r \in Reqs, Callback(r)
  PROVE  GateOK' /\ Refines
<1> USE DEF stores, env
<1>1. UNCHANGED filtered
  BY DEF Callback, OnLastSet, OnAccountFound, LoginRefused, OpenSession, OnKeepAccount,
    OnAccountRefreshed, OnKeepSession, SessionAccepted, SessionRefused
<1>2. CASE SessionAccepted(r)
  BY <1>2, AcceptRefines
<1>3. CASE ~SessionAccepted(r)
  <2>1. GateOK' /\ UNCHANGED visits
    BY <1>1, <1>3, CallbackCalm, CalmStep DEF IInv
  <2>2. CASE \E c \in Cookies : OpenSession(r, c)
    BY <2>1, <2>2, OpenRefines
  <2>3. CASE ~ \E c \in Cookies : OpenSession(r, c)
    <3>1. UNCHANGED <<licensed, opened, redis, now>>
      BY <1>3, <2>3 DEF Callback, OnLastSet, OnAccountFound, LoginRefused, OnKeepAccount,
        OnAccountRefreshed, OnKeepSession, SessionRefused
    <3>2. QED
      BY <2>1, <3>1, SameTables, StutterRefines
  <2>4. QED
    BY <2>1, <2>2, <2>3
<1>4. QED
  BY <1>2, <1>3


\* A cookie's entry of Redis, and the session it puts on record.
sso(d) == {x \in d : x.key.space = "sso"}
entryOf(e) == [cookie |-> e.key.name, token |-> e.value.token, user |-> e.value.user,
               until |-> e.deadline]

LEMMA CookieKeyTraced ==
  ASSUME NEW key, NEW value, Traced(key, value), key.space = "sso"
  PROVE  \E s \in opened : key = ssoKey(s.cookie) /\ value = ssoValue(s.token, s.user)
<1>1. \A t : accountTokenKey(t).space = "account_token"
  BY DEF accountTokenKey
<1>2. \A a \in licensed : key # accountTokenKey(a.token)
  BY <1>1
<1>3. QED
  BY <1>2 DEF Traced

\* What the registry sees of a SET: a cookie's key writes its session's entry, with
\* one lifetime from now; an account token's key writes nothing.
LEMMA SetRefines ==
  ASSUME IInv, NEW r \in Reqs, SetKey(r)
  PROVE  GateOK' /\ Refines
<1> DEFINE n == [key |-> req[r].key, value |-> req[r].value,
                 deadline |-> now + ttlOf(req[r].pc)]
<1>1. /\ TypeOK /\ GateOK /\ req[r].pc \in Sets /\ req[r].reply = "pending"
      /\ redis' = {e \in redis : e.key # n.key} \union {n}
      /\ \/ Reply(r, "ok")
         \/ Reply(r, "failed")
      /\ UNCHANGED <<filtered, licensed, opened, now>>
  BY DEF IInv, SetKey, Sent
<1>2. n.key = req[r].key /\ n.value = req[r].value /\ n.deadline = now + ttlOf(req[r].pc)
  OBVIOUS
<1> HIDE DEF n
<1>3. GateOK' /\ UNCHANGED visits
  <2>1. Calmly(r)
    BY <1>1, ReplyCalm DEF Sets
  <2>2. QED
    BY <1>1, <2>1, CalmStep
<1>4. UNCHANGED <<issuedTokens, madeSessions, now>>
  BY <1>1 DEF issuedTokens, madeSessions
<1>5. Traced(n.key, n.value)
  BY <1>1, <1>2 DEF IInv, SessionsTraced, RequestTraced
<1>6. onRecord = {entryOf(x) : x \in sso(redis)} /\ onRecord' = {entryOf(x) : x \in sso(redis')}
  BY DEF onRecord, entryOf, sso
<1>7. CASE n.key.space # "sso"
  <2>1. \A x \in redis : x.key.space = "sso" => x.key # n.key
    BY <1>7
  <2>2. sso(redis') = sso(redis)
    BY <1>1, <1>7, <2>1 DEF sso
  <2>3. UNCHANGED onRecord
    BY <1>6, <2>2
  <2>4. QED
    BY <1>3, <1>4, <2>3, StutterRefines DEF tables
<1>8. CASE n.key.space = "sso"
  <2>1. PICK o \in opened : n.key = ssoKey(o.cookie) /\ n.value = ssoValue(o.token, o.user)
    BY <1>5, <1>8, CookieKeyTraced
  <2> DEFINE made == [cookie |-> o.cookie, token |-> o.token, user |-> o.user]
  <2>a. made \in madeSessions
    BY DEF madeSessions
  <2>b. made.cookie = o.cookie /\ made.token = o.token /\ made.user = o.user
    OBVIOUS
  <2> HIDE DEF made
  <2>2. PICK m \in madeSessions : m.cookie = o.cookie /\ m.token = o.token /\ m.user = o.user
    BY <2>a, <2>b
  <2>3. n.deadline = now + SsoTtl
    BY <1>1, <1>2, <1>8 DEF GateOK, Gate, ttlOf
  <2>4. entryOf(n) = Registry!Until(m, now + SsoTtl) /\ n.key.name = m.cookie
    BY <2>1, <2>2, <2>3 DEF entryOf, Registry!Until, ssoKey, ssoValue
  <2>5. \A x \in sso(redis) : x.key # n.key <=> entryOf(x).cookie # m.cookie
    <3>1. ASSUME NEW x \in sso(redis) PROVE x.key # n.key <=> entryOf(x).cookie # m.cookie
      <4>1. PICK s \in opened : x.key = ssoKey(s.cookie)
        BY <3>1, CookieKeyTraced DEF sso, IInv, SessionsTraced, TablesTraced
      <4>2. x.key.name = s.cookie /\ (x.key = n.key <=> s.cookie = m.cookie)
        BY <2>1, <2>2, <4>1 DEF ssoKey
      <4>3. entryOf(x).cookie = x.key.name
        BY DEF entryOf
      <4>4. QED
        BY <4>2, <4>3
    <3>2. QED
      BY <3>1
  <2>6. sso(redis') = {x \in sso(redis) : x.key # n.key} \union {n}
    BY <1>1, <1>8 DEF sso
  <2>7. onRecord' = {g \in onRecord : g.cookie # m.cookie} \union {entryOf(n)}
    <3> HIDE DEF entryOf
    <3>1. {entryOf(x) : x \in {y \in sso(redis) : y.key # n.key}}
            = {g \in onRecord : g.cookie # m.cookie}
      BY <1>6, <2>5
    <3>2. QED
      BY <1>6, <2>6, <3>1
  <2>8. Registry!Write(m)
    BY <1>3, <1>4, <2>4, <2>7
       DEF Registry!Write, visits, decidedVisits, admittedVisits
  <2>9. QED
    BY <1>3, <2>2, <2>8 DEF Refines, Registry!Next
<1>9. QED
  BY <1>7, <1>8

\* A GET decides a visit where it finds, alive, the session the visit presents.
LEMMA GetRefines ==
  ASSUME IInv, Client = "Contract", NEW r \in Reqs, GetKey(r)
  PROVE  GateOK' /\ Refines
<1> USE DEF stores, env
<1>1. /\ TypeOK /\ GateOK /\ req[r] \in Request /\ req[r].pc \in Gets
      /\ req[r].reply = "pending" /\ UNCHANGED <<filtered, licensed, opened, redis, now>>
      /\ UNCHANGED tables
  BY SameTables DEF IInv, TypeOK, GetKey, Sent
<1>2. CASE Reply(r, "null")
  <2>1. Calmly(r)
    BY <1>1, <1>2, ReplyCalm DEF Gets
  <2>2. QED
    BY <1>1, <2>1, CalmStep, StutterRefines
<1>3. CASE \E e \in readable(r) :
             req' = [req EXCEPT ![r] = [@ EXCEPT !.reply = "found", !.value = e.value]]
  <2>1. PICK e \in readable(r) :
          req' = [req EXCEPT ![r] = [@ EXCEPT !.reply = "found", !.value = e.value]]
    BY <1>3
  <2> DEFINE q == [req[r] EXCEPT !.reply = "found", !.value = e.value]
  <2>2. /\ q.pc = req[r].pc /\ q.kind = req[r].kind /\ q.admitted = req[r].admitted
        /\ q.key = req[r].key /\ q.token = req[r].token /\ q.cookie = req[r].cookie
        /\ q.reply = "found" /\ q.value = e.value
    BY <1>1 DEF Request
  <2>3. req' = [req EXCEPT ![r] = q]
    BY <2>1
  <2> HIDE DEF q
  <2>4. Gate(q) /\ ~q.admitted /\ Calm(req[r])
    BY <1>1, <2>2 DEF GateOK, Gate, Calm, Good, Gets
  <2>5. CASE ~Good(q)
    <3>1. Calmly(r)
      BY <2>3, <2>4, <2>5 DEF Calmly, Calm
    <3>2. QED
      BY <1>1, <3>1, CalmStep, StutterRefines
  <2>6. CASE Good(q)
    <3>1. req'[r] = q /\ \A o \in Reqs : o # r => req'[o] = req[o]
      BY <1>1, <2>3 DEF TypeOK
    <3>2. GateOK'
      BY <1>1, <2>4, <3>1 DEF GateOK, Gate
    <3>3. /\ \A o \in Reqs : o # r => /\ goodFound(o)' <=> goodFound(o)
                                      /\ req'[o].admitted <=> req[o].admitted
                                      /\ pass(o)' = pass(o)
          /\ goodFound(r)' /\ pass(r)' = pass(r)
          /\ ~req'[r].admitted /\ ~req[r].admitted
      BY <1>1, <2>2, <2>4, <2>6, <3>1
         DEF goodFound, Back, sessionMatches, pass, Good, Calm
    <3>4. /\ decidedVisits' = decidedVisits \union {pass(r)}
          /\ admittedVisits' = admittedVisits
      <4>1. ~goodFound(r)
        BY <1>1 DEF goodFound, Back
      <4>2. QED
        BY <3>3, <4>1 DEF decidedVisits, admittedVisits
    <3>5. /\ e \in redis /\ Live(e) /\ e.key = ssoKey(req[r].cookie)
          /\ e.value.token = req[r].token
      BY <1>1, <2>2, <2>6 DEF IInv, SessionsTraced, RequestTraced, readable, Good
    <3>6. /\ entryOf(e) \in onRecord /\ entryOf(e).cookie = req[r].cookie
          /\ entryOf(e).token = req[r].token /\ entryOf(e).until = e.deadline
      BY <3>5 DEF onRecord, entryOf, ssoKey
    <3>7. e.deadline \in Nat /\ now \in Nat
      BY <1>1, <3>5, ConstantsOK DEF TypeOK, Entry, Times, ConstantsOK
    <3>8. PICK g \in onRecord : g = entryOf(e)
      BY <3>6
    <3>9. Registry!PassFor(r, g) = pass(r) /\ now <= g.until
      BY <3>5, <3>6, <3>7, <3>8 DEF Registry!PassFor, pass, Live
    <3>10. Registry!Decide(r, g)
      BY <1>1, <3>4, <3>9 DEF Registry!Decide, tables, decidedVisits, admittedVisits
    <3>11. QED
      BY <3>2, <3>10 DEF Refines, Registry!Next
  <2>7. QED
    BY <2>5, <2>6
<1>4. QED
  BY <1>2, <1>3 DEF GetKey

LEMMA StoreRefines ==
  ASSUME IInv, Client = "Contract", NEW r \in Reqs, StoreStep(r)
  PROVE  GateOK' /\ Refines
<1>1. CASE FindUser(r)
  <2>1. /\ TypeOK /\ GateOK /\ req[r].pc = "findUser" /\ req[r].reply = "pending"
        /\ UNCHANGED <<filtered, licensed, opened, redis, now>>
    BY <1>1 DEF IInv, FindUser, Sent, stores
  <2>2. PICK what \in UserStates \union {"error"} : Reply(r, what)
    <3>1. users[req[r].user] \in UserStates
      BY <2>1 DEF TypeOK, Request
    <3>2. QED
      BY <1>1, <3>1 DEF FindUser
  <2>3. Calmly(r)
    BY <2>1, <2>2, ReplyCalm DEF UserStates
  <2>4. QED
    BY <2>1, <2>3, CalmStep, SameTables, StutterRefines
<1>2. QED
  BY <1>1, SetRefines, GetRefines DEF StoreStep

\* The server's death abandons the visits that were decided, and no others.
LEMMA LossRefines ==
  ASSUME IInv, Client = "Contract", LossStep
  PROVE  GateOK' /\ Refines
<1>1. /\ TypeOK /\ GateOK /\ UNCHANGED <<licensed, opened, redis, now>>
      /\ req' = [r \in Reqs |-> IF req[r].pc \in Waits
                                  THEN [req[r] EXCEPT !.pc = "lost", !.reply = "none"]
                                  ELSE req[r]]
  BY DEF IInv, LossStep, FormatCrash, Crash, ServerDies, stores
<1>2. ASSUME NEW r \in Reqs
      PROVE  /\ Gate(req'[r]) /\ req'[r].pc # "validateSession"
             /\ req'[r].admitted = req[r].admitted
             /\ req'[r].cookie = req[r].cookie /\ req'[r].token = req[r].token
  <2> DEFINE q == [req[r] EXCEPT !.pc = "lost", !.reply = "none"]
  <2>1. /\ q.pc = "lost" /\ q.admitted = req[r].admitted
        /\ q.cookie = req[r].cookie /\ q.token = req[r].token
    BY <1>1 DEF TypeOK, Request
  <2>2. req'[r] = IF req[r].pc \in Waits THEN q ELSE req[r]
    BY <1>1
  <2> HIDE DEF q
  <2>3. Gate(req[r])
    BY <1>1 DEF GateOK
  <2>4. CASE req[r].pc \in Waits
    BY <2>1, <2>2, <2>3, <2>4 DEF Gate, Waits, Gets, Sets
  <2>5. CASE req[r].pc \notin Waits
    BY <2>2, <2>3, <2>5 DEF Waits, Gets
  <2>6. QED
    BY <2>4, <2>5
<1>3. filtered' = filtered
  BY DEF LossStep, FormatCrash, Crash, stores
<1>4. GateOK'
  BY <1>2, <1>3 DEF GateOK, Gate
<1>5. decidedVisits' = {} /\ admittedVisits' = admittedVisits
  BY <1>2 DEF decidedVisits, admittedVisits, goodFound, Back, pass
<1>6. Registry!Abandon
  BY <1>1, <1>5, SameTables DEF Registry!Abandon, tables, decidedVisits, admittedVisits
<1>7. QED
  BY <1>4, <1>6 DEF Refines, Registry!Next

LEMMA SameVisits ==
  ASSUME GateOK, UNCHANGED <<req, filtered>>
  PROVE  GateOK' /\ UNCHANGED visits
BY DEF GateOK, Gate, visits, decidedVisits, admittedVisits, goodFound, Back, sessionMatches,
       pass

\* Redis drops one key after its deadline: one session, as no two keys put the same one
\* on record, or none.
LEMMA ExpiryRefines ==
  ASSUME IInv, ExpireKey
  PROVE  Refines
<1> USE DEF stores, env
<1>1. PICK e \in redis : /\ ~Live(e) /\ redis' = redis \ {e}
                         /\ UNCHANGED <<filtered, licensed, opened, req, now>>
  BY DEF ExpireKey
<1>2. UNCHANGED visits /\ UNCHANGED <<issuedTokens, madeSessions, now>>
  BY <1>1, SameVisits DEF IInv, issuedTokens, madeSessions
<1>3. onRecord = {entryOf(x) : x \in sso(redis)} /\ onRecord' = {entryOf(x) : x \in sso(redis')}
  BY DEF onRecord, entryOf, sso
<1>4. CASE e \notin sso(redis)
  <2>1. sso(redis') = sso(redis)
    BY <1>1, <1>4 DEF sso
  <2>2. QED
    BY <1>2, <1>3, <2>1, StutterRefines DEF tables
<1>5. CASE e \in sso(redis)
  <2>1. ASSUME NEW x \in sso(redis), entryOf(x) = entryOf(e)
        PROVE  x = e
    <3>1. PICK s \in opened : x.key = ssoKey(s.cookie) /\ x.value = ssoValue(s.token, s.user)
      BY CookieKeyTraced DEF sso, IInv, SessionsTraced, TablesTraced
    <3>2. PICK t \in opened : e.key = ssoKey(t.cookie) /\ e.value = ssoValue(t.token, t.user)
      BY <1>5, CookieKeyTraced DEF sso, IInv, SessionsTraced, TablesTraced
    <3>3. s.cookie = t.cookie /\ s.token = t.token /\ s.user = t.user /\ x.deadline = e.deadline
      BY <2>1, <3>1, <3>2 DEF entryOf, ssoKey, ssoValue
    <3>4. x.key = e.key /\ x.value = e.value
      BY <3>1, <3>2, <3>3
    <3>5. x \in Entry /\ e \in Entry
      BY <2>1 DEF IInv, TypeOK, sso
    <3>6. QED
      BY <3>3, <3>4, <3>5 DEF Entry
  <2>2. sso(redis') = sso(redis) \ {e}
    BY <1>1 DEF sso
  <2>3. onRecord' = onRecord \ {entryOf(e)} /\ entryOf(e) \in onRecord
    <3> HIDE DEF entryOf
    <3>1. QED
      BY <1>3, <1>5, <2>1, <2>2
  <2>4. entryOf(e).until < now
    <3>1. e.deadline \in Nat /\ now \in Nat
      BY ConstantsOK DEF IInv, TypeOK, Entry, Times, ConstantsOK
    <3>2. entryOf(e).until = e.deadline
      BY DEF entryOf
    <3>3. QED
      BY <1>1, <3>1, <3>2 DEF Live
  <2>5. PICK g \in onRecord : g = entryOf(e)
    BY <2>3
  <2>6. Registry!Drop(g)
    BY <1>2, <2>3, <2>4, <2>5 DEF Registry!Drop, visits, decidedVisits, admittedVisits
  <2>7. QED
    BY <2>6 DEF Refines, Registry!Next
<1>6. QED
  BY <1>4, <1>5

LEMMA WorldRefines ==
  ASSUME IInv, WorldStep
  PROVE  GateOK' /\ Refines
<1> USE DEF stores, env
<1>1. TypeOK /\ GateOK
  BY DEF IInv
<1>2. CASE \E r \in Reqs : RedisFails(r)
  <2>1. PICK r \in Reqs : RedisFails(r)
    BY <1>2
  <2>2. PICK what \in {"failed", "null"} :
          /\ Reply(r, what) /\ req[r].pc # "done" /\ req[r].reply = "pending"
          /\ UNCHANGED <<filtered, licensed, opened, redis, now>>
    BY <2>1 DEF RedisFails, Sent, Sets, Gets
  <2>3. Calmly(r)
    BY <1>1, <2>2, ReplyCalm
  <2>4. QED
    BY <1>1, <2>2, <2>3, CalmStep, SameTables, StutterRefines
<1>3. CASE ~ \E r \in Reqs : RedisFails(r)
  <2>1. GateOK' /\ UNCHANGED visits
    BY <1>1, <1>3, SameVisits
       DEF WorldStep, ExpireKey, RedisRestart, Restart, AccountChanges, Tick
  <2>2. CASE RedisRestart
    <3>1. onRecord' = {} /\ UNCHANGED <<issuedTokens, madeSessions, now>>
      BY <2>2 DEF RedisRestart, onRecord, issuedTokens, madeSessions
    <3>2. Registry!LoseAll
      BY <2>1, <3>1 DEF Registry!LoseAll, visits, decidedVisits, admittedVisits
    <3>3. QED
      BY <2>1, <3>2 DEF Refines, Registry!Next
  <2>3. CASE Restart \/ \E u \in Users : AccountChanges(u)
    BY <2>1, <2>3, SameTables, StutterRefines DEF Restart, AccountChanges
  <2>4. CASE Tick
    <3>1. /\ now < MaxTime /\ now' = now + 1
          /\ UNCHANGED <<issuedTokens, madeSessions, onRecord>>
      BY <2>4 DEF Tick, issuedTokens, madeSessions, onRecord
    <3>2. Registry!Tick
      BY <2>1, <3>1 DEF Registry!Tick, visits, decidedVisits, admittedVisits
    <3>3. QED
      BY <2>1, <3>2 DEF Refines, Registry!Next
  <2>5. QED
    BY <1>3, <2>1, <2>2, <2>3, <2>4, ExpiryRefines DEF WorldStep
<1>4. QED
  BY <1>2, <1>3

LEMMA StepRefines ==
  ASSUME IInv, Client = "Contract", [Next]_vars
  PROVE  GateOK' /\ Refines
<1>1. CASE UNCHANGED vars
  <2>1. UNCHANGED <<req, filtered, licensed, opened, redis, now>>
    BY <1>1 DEF vars
  <2>2. QED
    BY <2>1, SameVisits, SameTables, StutterRefines DEF IInv
<1>2. CASE Next
  BY <1>2, NextSplit, StartRefines, CallbackRefines, StoreRefines, LossRefines, WorldRefines
<1>3. QED
  BY <1>1, <1>2

\* The filter and the service agree, at every moment, on what each request waits for.
LEMMA Invariance ==
  ASSUME Client = "Contract"
  PROVE  Spec => []IInv
<1>1. Init => GateOK
  BY DEF Init, GateOK, Gate, NewRequest
<1>2. TypeOK /\ SessionsTraced /\ LoginUnreachable /\ GateOK /\ [Next]_vars => GateOK'
  BY StepRefines DEF IInv
<1>3. TypeOK /\ SessionsTraced /\ LoginUnreachable /\ GateOK => IInv
  BY DEF IInv
<1>4. QED
  BY <1>1, <1>2, <1>3, TypeCorrect, SessionsAlwaysTraced, LoginNeverReached, PTL DEF Spec

\* With a client that reads the key it is asked for, the service, the filter and Redis
\* together implement the session registry, whatever fails or restarts.
THEOREM ImplementsSessionRegistry ==
  ASSUME Client = "Contract"
  PROVE  Spec => SessionRegistrySpec
<1>1. Init => Registry!Init
  BY DEF Init, Registry!Init, NewRequest, issuedTokens, madeSessions, onRecord, goodFound, Back
<1>2. IInv /\ [Next]_vars => [Registry!Next]_(Registry!vars)
  BY StepRefines DEF Refines
<1>3. QED
  BY <1>1, <1>2, Invariance, PTL DEF Spec, Registry!Spec, SessionRegistrySpec

=============================================================================
