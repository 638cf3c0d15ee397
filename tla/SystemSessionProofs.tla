------------------------- MODULE SystemSessionProofs -------------------------
(***************************************************************************)
(* What SystemSession guarantees for every set of licences, users, tokens, *)
(* cookies and requests, every pair of lifetimes and every number of       *)
(* faults.                                                                 *)
(***************************************************************************)
EXTENDS SystemSession, TLAPS

-----------------------------------------------------------------------------
(* Type correctness. *)

LEMMA InitTypeOK == Init => TypeOK
<1> SUFFICES ASSUME Init PROVE TypeOK
  OBVIOUS
<1> USE ConstantsOK DEF ConstantsOK
<1>1. /\ AnyUser \in Users /\ AnyPassword \in Passwords
      /\ AnyToken \in Tokens /\ AnyCookie \in Cookies
  BY DEF AnyUser, AnyPassword, AnyToken, AnyCookie
<1>2. accountTokenKey(AnyToken) \in Keys /\ ssoValue(AnyToken, AnyUser) \in Values
  BY <1>1 DEF Keys, Values
<1>3. NewRequest \in Request
  BY <1>1, <1>2 DEF NewRequest, Request, Pcs, Kinds, Replies, Codes
<1>4. req \in [Reqs -> Request]
  BY <1>3 DEF Init
<1>5. now \in 0 .. MaxTime /\ faults \in 0 .. MaxFaults
  BY DEF Init
<1>6. QED
  BY <1>4, <1>5 DEF Init, TypeOK

\* A request that sends a command keeps its type, and so does one that is
\* answered, or one that a store answers.
LEMMA GetType ==
  ASSUME NEW q \in Request, NEW pc \in Pcs, NEW key \in Keys
  PROVE  SendGet(q, pc, key) \in Request
BY DEF SendGet, Request, Replies

LEMMA SetType ==
  ASSUME NEW q \in Request, NEW pc \in Pcs, NEW key \in Keys, NEW value \in Values
  PROVE  SendSet(q, pc, key, value) \in Request
BY DEF SendSet, Request, Replies

LEMMA DoneType ==
  ASSUME NEW q \in Request, NEW code \in Codes
  PROVE  [q EXCEPT !.pc = "done", !.code = code] \in Request
BY DEF Request, Pcs

LEMMA AcceptedType ==
  ASSUME NEW q \in Request, NEW code \in Codes
  PROVE  /\ [q EXCEPT !.pc = "done", !.reply = "none", !.code = code,
                      !.admitted = TRUE] \in Request
         /\ [q EXCEPT !.admitted = TRUE] \in Request
         /\ [q EXCEPT !.admitted = TRUE].token = q.token
BY DEF Request, Pcs, Replies

LEMMA MissingType ==
  ASSUME NEW q \in Request, NEW kind \in Kinds, NEW code \in Codes
  PROVE  [q EXCEPT !.pc = "done", !.kind = kind, !.code = code] \in Request
BY DEF Request, Pcs

LEMMA RespondType ==
  ASSUME TypeOK, NEW r \in Reqs, NEW code \in Codes, Respond(r, code)
  PROVE  req' \in [Reqs -> Request]
<1> DEFINE answered == [req[r] EXCEPT !.pc = "done", !.reply = "none", !.code = code]
<1>1. answered \in Request
  BY ZenonT(60) DEF TypeOK, Request, Pcs, Replies
<1>2. QED
  BY <1>1 DEF TypeOK, Respond

LEMMA ReplyType ==
  ASSUME TypeOK, NEW r \in Reqs, NEW what \in Replies, Reply(r, what)
  PROVE  req' \in [Reqs -> Request]
BY DEF TypeOK, Reply, Request

LEMMA FaultType ==
  ASSUME TypeOK, Fault
  PROVE  faults' \in 0 .. MaxFaults
BY ConstantsOK DEF ConstantsOK, TypeOK, Fault

LEMMA KeyType ==
  /\ \A t \in Tokens : accountTokenKey(t) \in Keys
  /\ \A c \in Cookies : ssoKey(c) \in Keys
  /\ \A k \in Consumers : Consumer(k) \in Values
  /\ \A t \in Tokens, u \in Users : ssoValue(t, u) \in Values
BY DEF Keys, Values

LEMMA CodeType ==
  /\ 0 \in Codes /\ 200 \in Codes /\ 401 \in Codes /\ 500 \in Codes
  /\ 1000 \in Codes /\ 1001 \in Codes /\ 1002 \in Codes /\ 1003 \in Codes
  /\ 1004 \in Codes /\ 1005 \in Codes /\ 1006 \in Codes
BY DEF Codes

LEMMA StartType ==
  ASSUME TypeOK, NEW r \in Reqs, Start(r)
  PROVE  TypeOK'
<1> USE DEF stores, env
<1>1. req[r] \in Request
  BY DEF TypeOK
<1>2. CASE MissingParameters(r)
  <2> DEFINE code(kind) ==
        IF kind = "guarded" \/ (kind = "login" /\ filtered) THEN 401 ELSE 1000
  <2>1. PICK kind \in {"token", "login", "guarded"} :
          req' = [req EXCEPT ![r] = [@ EXCEPT !.pc = "done", !.kind = kind,
                                              !.code = code(kind)]]
    BY <1>2 DEF MissingParameters
  <2>a. code(kind) \in Codes
    BY CodeType
  <2> HIDE DEF code
  <2>2. [req[r] EXCEPT !.pc = "done", !.kind = kind, !.code = code(kind)] \in Request
    BY <1>1, <2>a, MissingType DEF Kinds
  <2>3. req' \in [Reqs -> Request]
    BY <2>1, <2>2 DEF TypeOK
  <2>4. QED
    BY <1>2, <2>3 DEF MissingParameters, TypeOK
<1>3. CASE \E k \in Consumers, s \in Secrets, t \in Tokens : GetAccountToken(r, k, s, t)
  <2>1. PICK k \in Consumers, s \in Secrets, t \in Tokens : GetAccountToken(r, k, s, t)
    BY <1>3
  <2>2. [req[r] EXCEPT !.pc = "done", !.code = 1001] \in Request
    <3>1. \A code \in Codes : [req[r] EXCEPT !.pc = "done", !.code = code] \in Request
      BY <1>1, DoneType
    <3>2. 1001 \in Codes
      BY DEF Codes
    <3>3. QED
      BY <3>1, <3>2, ZenonT(60)
  <2>3. [req[r] EXCEPT !.token = t] \in Request
    BY <1>1 DEF Request
  <2>4. SendSet([req[r] EXCEPT !.token = t], "registerLicense",
                accountTokenKey(t), Consumer(k)) \in Request
    BY <2>3, KeyType, SetType DEF Pcs, Waits, Sets
  <2>5. req' \in [Reqs -> Request]
    BY <2>1, <2>2, <2>4 DEF GetAccountToken, TypeOK
  <2>6. licensed' \subseteq [token : Tokens, consumer : Consumers, secret : Secrets]
    BY <2>1 DEF GetAccountToken, TypeOK
  <2>7. QED
    BY <2>1, <2>5, <2>6 DEF GetAccountToken, TypeOK
<1>4. CASE \E t \in Tokens, c \in Cookies : KeepAlive(r, t, c)
  <2>1. PICK t \in Tokens, c \in Cookies : KeepAlive(r, t, c)
    BY <1>4
  <2>2. [req[r] EXCEPT !.kind = "keepAlive", !.token = t, !.cookie = c] \in Request
    BY <1>1 DEF Request, Kinds
  <2>3. SendGet([req[r] EXCEPT !.kind = "keepAlive", !.token = t, !.cookie = c],
                "keepAccount", accountTokenKey(t)) \in Request
    BY <2>2, KeyType, GetType DEF Pcs, Waits, Gets
  <2>4. req' \in [Reqs -> Request]
    BY <2>1, <2>3 DEF KeepAlive, TypeOK
  <2>5. QED
    BY <2>1, <2>4 DEF KeepAlive, TypeOK
<1>5. CASE \E t \in Tokens, c \in Cookies : Guarded(r, t, c)
  <2>1. PICK t \in Tokens, c \in Cookies : Guarded(r, t, c)
    BY <1>5
  <2> DEFINE q == [req[r] EXCEPT !.kind = "guarded", !.token = t, !.cookie = c,
                                 !.entitled = LoggedIn(t, c)]
  <2>2. LoggedIn(t, c) \in BOOLEAN
    BY DEF LoggedIn
  <2>3. q \in Request /\ q.cookie = c
    BY <1>1, <2>2 DEF Request, Kinds
  <2>4. AskForSession(q) \in Request
    BY <2>3, KeyType, GetType DEF AskForSession, Pcs, Waits, Gets
  <2>5. req' \in [Reqs -> Request]
    BY <2>1, <2>4 DEF Guarded, TypeOK
  <2>6. QED
    BY <2>1, <2>5 DEF Guarded, TypeOK
<1>6. CASE \E t \in Tokens, c \in Cookies, u \in Users, p \in Passwords :
             Login(r, t, c, u, p)
  <2>1. PICK t \in Tokens, c \in Cookies, u \in Users, p \in Passwords :
          Login(r, t, c, u, p)
    BY <1>6
  <2> DEFINE q == [req[r] EXCEPT !.kind = "login", !.token = t, !.cookie = c,
                                 !.user = u, !.password = p]
  <2>2. q \in Request /\ q.cookie = c /\ q.token = t
    BY <1>1 DEF Request, Kinds
  <2>3. AskForSession(q) \in Request /\ AskForAccount(q) \in Request
    BY <2>2, KeyType, GetType DEF AskForSession, AskForAccount, Pcs, Waits, Gets
  <2>4. req' \in [Reqs -> Request]
    BY <2>1, <2>3 DEF Login, TypeOK
  <2>5. QED
    BY <2>1, <2>4 DEF Login, TypeOK
<1>7. QED
  BY <1>2, <1>3, <1>4, <1>5, <1>6 DEF Start

LEMMA CallbackType ==
  ASSUME TypeOK, NEW r \in Reqs, Callback(r)
  PROVE  TypeOK'
<1> USE DEF stores, env
<1>1. /\ req[r] \in Request
      /\ accountTokenKey(req[r].token) \in Keys /\ ssoKey(req[r].cookie) \in Keys
      /\ req[r].value \in Values
  BY KeyType DEF TypeOK, Request
<1>2. CASE OnLastSet(r)
  <2>1. req' \in [Reqs -> Request]
    BY <1>2, RespondType, CodeType DEF OnLastSet
  <2>2. QED
    BY <1>2, <2>1 DEF OnLastSet, TypeOK
<1>3. CASE OnAccountFound(r)
  <2>1. [req[r] EXCEPT !.pc = "findUser", !.reply = "pending"] \in Request
    BY <1>1 DEF Request, Pcs, Waits, Replies
  <2>2. req' \in [Reqs -> Request]
    BY <1>3, <2>1, RespondType, CodeType DEF OnAccountFound, TypeOK
  <2>3. QED
    BY <1>3, <2>2 DEF OnAccountFound, TypeOK
<1>4. CASE LoginRefused(r)
  <2>1. req' \in [Reqs -> Request]
    BY <1>4, RespondType, CodeType DEF LoginRefused
  <2>2. QED
    BY <1>4, <2>1 DEF LoginRefused, TypeOK
<1>5. CASE \E c \in Cookies : OpenSession(r, c)
  <2>1. PICK c \in Cookies : OpenSession(r, c)
    BY <1>5
  <2>2. [req[r] EXCEPT !.cookie = c] \in Request
    BY <1>1 DEF Request
  <2>3. /\ req[r].token \in Tokens /\ req[r].user \in Users
        /\ req[r].password \in Passwords
    BY <1>1 DEF Request
  <2>4. SendSet([req[r] EXCEPT !.cookie = c], "openSession", ssoKey(c),
                ssoValue(req[r].token, req[r].user)) \in Request
    BY <2>2, <2>3, KeyType, SetType DEF Pcs, Waits, Sets
  <2>5. req' \in [Reqs -> Request]
    BY <2>1, <2>4 DEF OpenSession, TypeOK
  <2>6. opened' \subseteq [cookie : Cookies, token : Tokens, user : Users,
                           password : Passwords, since : 0 .. MaxTime]
    BY <2>1, <2>3 DEF OpenSession, TypeOK
  <2>7. QED
    BY <2>1, <2>5, <2>6 DEF OpenSession, TypeOK
<1>6. CASE OnKeepAccount(r)
  <2>1. SendSet(req[r], "refreshAccount", accountTokenKey(req[r].token),
                req[r].value) \in Request
    BY <1>1, SetType DEF Pcs, Waits, Sets
  <2>2. req' \in [Reqs -> Request]
    BY <1>6, <2>1, RespondType, CodeType DEF OnKeepAccount, TypeOK
  <2>3. QED
    BY <1>6, <2>2 DEF OnKeepAccount, TypeOK
<1>7. CASE OnAccountRefreshed(r)
  <2>1. SendGet(req[r], "keepSession", ssoKey(req[r].cookie)) \in Request
    BY <1>1, GetType DEF Pcs, Waits, Gets
  <2>2. req' \in [Reqs -> Request]
    BY <1>7, <2>1, RespondType, CodeType DEF OnAccountRefreshed, TypeOK
  <2>3. QED
    BY <1>7, <2>2 DEF OnAccountRefreshed, TypeOK
<1>8. CASE OnKeepSession(r)
  <2>1. SendSet(req[r], "refreshSession", ssoKey(req[r].cookie),
                req[r].value) \in Request
    BY <1>1, SetType DEF Pcs, Waits, Sets
  <2>2. req' \in [Reqs -> Request]
    BY <1>8, <2>1, RespondType, CodeType DEF OnKeepSession, TypeOK
  <2>3. QED
    BY <1>8, <2>2 DEF OnKeepSession, TypeOK
<1>9. CASE SessionAccepted(r)
  <2> DEFINE code == IF req[r].kind = "login" THEN 1000 ELSE 200
             answered == [req[r] EXCEPT !.pc = "done", !.reply = "none", !.code = code,
                                        !.admitted = TRUE]
  <2>1. /\ [req[r] EXCEPT !.admitted = TRUE] \in Request
        /\ [req[r] EXCEPT !.admitted = TRUE].token = req[r].token
        /\ answered \in Request
    <3>1. \A n \in Codes :
            [req[r] EXCEPT !.pc = "done", !.reply = "none", !.code = n,
                           !.admitted = TRUE] \in Request
      BY <1>1, AcceptedType
    <3>2. code \in Codes
      BY DEF Codes
    <3> HIDE DEF code
    <3>3. answered \in Request
      BY <3>1, <3>2, Zenon
    <3>4. /\ [req[r] EXCEPT !.admitted = TRUE] \in Request
          /\ [req[r] EXCEPT !.admitted = TRUE].token = req[r].token
      BY <1>1 DEF Request
    <3>5. QED
      BY <3>3, <3>4, Zenon
  <2>2. AskForAccount([req[r] EXCEPT !.admitted = TRUE]) \in Request
    BY <1>1, <2>1, GetType DEF AskForAccount, Pcs, Waits, Gets
  <2>3. req' \in [Reqs -> Request]
    <3>1. \/ req' = [req EXCEPT ![r] = AskForAccount([req[r] EXCEPT !.admitted = TRUE])]
          \/ req' = [req EXCEPT ![r] = answered]
      BY <1>9 DEF SessionAccepted
    <3> HIDE DEF answered
    <3>2. QED
      BY <2>1, <2>2, <3>1 DEF TypeOK
  <2>4. QED
    BY <1>9, <2>3 DEF SessionAccepted, TypeOK
<1>10. CASE SessionRefused(r)
  <2>1. req' \in [Reqs -> Request]
    BY <1>10, RespondType, CodeType DEF SessionRefused
  <2>2. QED
    BY <1>10, <2>1 DEF SessionRefused, TypeOK
<1>11. QED
  BY <1>2, <1>3, <1>4, <1>5, <1>6, <1>7, <1>8, <1>9, <1>10 DEF Callback

LEMMA StoreStepType ==
  ASSUME TypeOK, NEW r \in Reqs, StoreStep(r)
  PROVE  TypeOK'
<1> USE DEF stores, env
<1>1. CASE SetKey(r)
  <2>1. req' \in [Reqs -> Request]
    BY <1>1, ReplyType DEF SetKey, Replies
  <2>2. now + ttlOf(req[r].pc) \in Times
    BY ConstantsOK DEF ConstantsOK, TypeOK, ttlOf, Times
  <2>3. [key |-> req[r].key, value |-> req[r].value,
         deadline |-> now + ttlOf(req[r].pc)] \in Entry
    BY <2>2 DEF Entry, TypeOK, Request
  <2>4. redis' \subseteq Entry
    BY <1>1, <2>3 DEF SetKey, TypeOK
  <2>5. faults' \in 0 .. MaxFaults
    BY <1>1, FaultType DEF SetKey, TypeOK
  <2>6. QED
    BY <1>1, <2>1, <2>4, <2>5 DEF SetKey, TypeOK
<1>2. CASE GetKey(r)
  <2>1. CASE Reply(r, "null")
    <3>1. req' \in [Reqs -> Request]
      BY <2>1, ReplyType DEF Replies
    <3>2. QED
      BY <1>2, <3>1 DEF GetKey, TypeOK
  <2>2. CASE \E e \in readable(r) :
               req' = [req EXCEPT ![r] = [@ EXCEPT !.reply = "found",
                                                   !.value = e.value]]
    <3>1. PICK e \in readable(r) :
            req' = [req EXCEPT ![r] = [@ EXCEPT !.reply = "found",
                                                !.value = e.value]]
      BY <2>2
    <3>2. e.value \in Values
      BY DEF readable, TypeOK, Entry
    <3>3. req' \in [Reqs -> Request]
      BY <3>1, <3>2, ZenonT(60) DEF TypeOK, Request, Replies
    <3>4. QED
      BY <1>2, <3>3 DEF GetKey, TypeOK
  <2>3. QED
    BY <1>2, <2>1, <2>2 DEF GetKey
<1>3. CASE FindUser(r)
  <2>1. users[req[r].user] \in Replies /\ "error" \in Replies
    BY DEF TypeOK, Request, Replies
  <2>2. req' \in [Reqs -> Request]
    BY <1>3, <2>1, ReplyType DEF FindUser
  <2>3. faults' \in 0 .. MaxFaults
    BY <1>3, FaultType DEF FindUser, TypeOK
  <2>4. QED
    BY <1>3, <2>2, <2>3 DEF FindUser, TypeOK
<1>4. QED
  BY <1>1, <1>2, <1>3 DEF StoreStep

\* Expiry, failures, the process and the world around it.
LossStep ==
  \/ \E r \in Reqs : FormatCrash(r)
  \/ Crash

WorldStep ==
  \/ \E r \in Reqs : RedisFails(r)
  \/ ExpireKey \/ RedisRestart \/ Restart
  \/ (\E u \in Users : AccountChanges(u))
  \/ Tick

LEMMA NextSplit ==
  ASSUME Next
  PROVE  \/ \E r \in Reqs : Start(r) \/ Callback(r) \/ StoreStep(r)
         \/ LossStep
         \/ WorldStep
BY DEF Next, LossStep, WorldStep

LEMMA LossType ==
  ASSUME TypeOK, LossStep
  PROVE  TypeOK'
<1>1. ASSUME NEW r \in Reqs
      PROVE  [req[r] EXCEPT !.pc = "lost", !.reply = "none"] \in Request
  BY ZenonT(60) DEF TypeOK, Request, Pcs, Replies
<1>2. req' \in [Reqs -> Request] /\ up' \in BOOLEAN
  BY <1>1 DEF LossStep, FormatCrash, Crash, ServerDies, TypeOK
<1>3. faults' \in 0 .. MaxFaults
  BY FaultType DEF LossStep, FormatCrash, Crash, TypeOK
<1>4. QED
  BY <1>2, <1>3 DEF LossStep, FormatCrash, Crash, stores, TypeOK

LEMMA WorldType ==
  ASSUME TypeOK, WorldStep
  PROVE  TypeOK'
<1> USE DEF stores, env
<1>1. CASE \E r \in Reqs : RedisFails(r)
  <2>1. PICK r \in Reqs : RedisFails(r)
    BY <1>1
  <2>2. req' \in [Reqs -> Request]
    BY <2>1, ReplyType DEF RedisFails, Replies
  <2>3. QED
    BY <2>1, <2>2, FaultType DEF RedisFails, TypeOK
<1>2. CASE ExpireKey
  BY <1>2 DEF ExpireKey, TypeOK
<1>3. CASE RedisRestart
  BY <1>3, FaultType DEF RedisRestart, TypeOK
<1>4. CASE Restart
  BY <1>4 DEF Restart, TypeOK
<1>5. CASE \E u \in Users : AccountChanges(u)
  BY <1>5 DEF AccountChanges, TypeOK, UserStates
<1>6. CASE Tick
  BY <1>6, ConstantsOK DEF Tick, TypeOK, ConstantsOK
<1>7. QED
  BY <1>1, <1>2, <1>3, <1>4, <1>5, <1>6 DEF WorldStep

\* The tables, the keyspace and the requests always have the types of the code's
\* objects: no handler leaves a request half built.
THEOREM TypeCorrect == Spec => []TypeOK
<1>1. Init => TypeOK
  BY InitTypeOK
<1>2. TypeOK /\ [Next]_vars => TypeOK'
  <2>1. SUFFICES ASSUME TypeOK, [Next]_vars PROVE TypeOK'
    OBVIOUS
  <2>2. CASE Next
    BY <2>1, <2>2, NextSplit, StartType, CallbackType, StoreStepType, LossType, WorldType
  <2>3. CASE UNCHANGED vars
    BY <2>1, <2>3 DEF vars, TypeOK
  <2>4. QED
    BY <2>1, <2>2, <2>3
<1>3. QED
  BY <1>1, <1>2, PTL DEF Spec

-----------------------------------------------------------------------------
(* The safety half of EveryRequestSettled: no request waits for an answer that its callback
   has no branch for, and none can go on for ever.  What is left to liveness is that the
   stores and the event loops keep taking steps. *)

\* Each callback has a branch for every answer its store can give.
Expected(q) ==
  /\ q.pc \in Sets => q.reply \in {"pending", "ok", "failed"}
  /\ q.pc \in Gets => q.reply \in {"pending", "found", "null"}
  /\ q.pc = "findUser" => q.reply \in UserStates \union {"pending", "error"}

AnswersExpected == \A r \in Reqs : Expected(req[r])

\* How many links of its chain of callbacks a request at pc has before it at most, and how
\* many steps: the store's and the callback's.
linksLeft(pc) ==
  IF pc = "idle" THEN 5
  ELSE IF pc \in {"validateSession", "keepAccount"} THEN 4
  ELSE IF pc \in {"loginUser", "refreshAccount"} THEN 3
  ELSE IF pc \in {"findUser", "keepSession"} THEN 2
  ELSE IF pc \in {"registerLicense", "openSession", "refreshSession"} THEN 1
  ELSE 0

stepsLeft(q) == 2 * linksLeft(q.pc) + (IF q.reply = "pending" THEN 1 ELSE 0)

Advances(r) == Expected(req'[r]) /\ stepsLeft(req'[r]) < stepsLeft(req[r])

RequestsOnlyAdvance == \A r \in Reqs : req'[r] = req[r] \/ Advances(r)

LEMMA OneRequestAdvances ==
  ASSUME TypeOK, NEW r \in Reqs, NEW new, req' = [req EXCEPT ![r] = new],
         Expected(new), stepsLeft(new) < stepsLeft(req[r])
  PROVE  RequestsOnlyAdvance
<1>1. req'[r] = new /\ \A q \in Reqs : q # r => req'[q] = req[q]
  BY DEF TypeOK
<1>2. QED
  BY <1>1 DEF RequestsOnlyAdvance, Advances

\* The next command of a request, sent from an earlier place in the chain.
LEMMA SendAdvances ==
  ASSUME TypeOK, NEW r \in Reqs, NEW new, req' = [req EXCEPT ![r] = new],
         NEW pc \in Waits, new.pc = pc, new.reply = "pending",
         linksLeft(pc) < linksLeft(req[r].pc)
  PROVE  RequestsOnlyAdvance
<1>1. Expected(new)
  BY DEF Expected
<1>2. stepsLeft(new) < stepsLeft(req[r])
  BY DEF stepsLeft, linksLeft
<1>3. QED
  BY <1>1, <1>2, OneRequestAdvances

\* The end of a request that had begun, or was turned away at the door.
LEMMA EndAdvances ==
  ASSUME TypeOK, NEW r \in Reqs, NEW new, req' = [req EXCEPT ![r] = new],
         new.pc = "done", req[r].pc = "idle" \/ req[r].pc \in Waits
  PROVE  RequestsOnlyAdvance
<1>1. Expected(new)
  BY DEF Expected, Sets, Gets
<1>2. linksLeft(new.pc) = 0 /\ linksLeft(req[r].pc) \in 1 .. 5
  BY DEF linksLeft, Waits, Sets, Gets
<1>3. stepsLeft(new) < stepsLeft(req[r])
  BY <1>2 DEF stepsLeft
<1>4. QED
  BY <1>1, <1>3, OneRequestAdvances

LEMMA RespondAdvances ==
  ASSUME TypeOK, NEW r \in Reqs, NEW code, Respond(r, code), req[r].pc \in Waits
  PROVE  RequestsOnlyAdvance
<1> DEFINE new == [req[r] EXCEPT !.pc = "done", !.reply = "none", !.code = code]
<1>1. req' = [req EXCEPT ![r] = new] /\ new.pc = "done"
  BY DEF Respond, TypeOK, Request
<1> HIDE DEF new
<1>2. QED
  BY <1>1, EndAdvances

\* A store's answer, or an error in its place.
LEMMA AnswerAdvances ==
  ASSUME TypeOK, NEW r \in Reqs, req[r].pc \in Waits, req[r].reply = "pending",
         NEW new, req' = [req EXCEPT ![r] = new],
         new.pc = req[r].pc, new.reply # "pending", Expected(new)
  PROVE  RequestsOnlyAdvance
<1>1. stepsLeft(new) < stepsLeft(req[r])
  BY DEF stepsLeft, linksLeft
<1>2. QED
  BY <1>1, OneRequestAdvances

LEMMA GetFields ==
  ASSUME NEW q \in Request, NEW pc, NEW key, NEW value
  PROVE  /\ SendGet(q, pc, key).pc = pc /\ SendGet(q, pc, key).reply = "pending"
         /\ SendSet(q, pc, key, value).pc = pc
         /\ SendSet(q, pc, key, value).reply = "pending"
BY DEF SendGet, SendSet, Request

LEMMA StartAdvances ==
  ASSUME TypeOK, NEW r \in Reqs, Start(r)
  PROVE  RequestsOnlyAdvance
<1>1. req[r].pc = "idle" /\ req[r] \in Request
  BY DEF Start, MissingParameters, GetAccountToken, KeepAlive, Guarded, Login, TypeOK
<1>2. ASSUME NEW new, req' = [req EXCEPT ![r] = new], new.reply = "pending",
             NEW pc \in {"registerLicense", "loginUser", "validateSession", "keepAccount"},
             new.pc = pc
      PROVE  RequestsOnlyAdvance
  <2>1. pc \in Waits /\ linksLeft(pc) < linksLeft(req[r].pc)
    BY <1>1 DEF linksLeft, Waits, Sets, Gets
  <2>2. QED
    BY <1>2, <2>1, SendAdvances
<1>3. CASE MissingParameters(r)
  <2> DEFINE code(kind) == IF kind = "guarded" \/ (kind = "login" /\ filtered)
                             THEN 401 ELSE 1000
  <2>1. PICK kind \in {"token", "login", "guarded"} :
          req' = [req EXCEPT ![r] =
            [req[r] EXCEPT !.pc = "done", !.kind = kind, !.code = code(kind)]]
    BY <1>3 DEF MissingParameters
  <2> DEFINE new == [req[r] EXCEPT !.pc = "done", !.kind = kind, !.code = code(kind)]
  <2>2. new.pc = "done" /\ req' = [req EXCEPT ![r] = new]
    BY <1>1, <2>1 DEF Request
  <2> HIDE DEF new
  <2>3. QED
    BY <1>1, <2>2, EndAdvances
<1>4. ASSUME NEW k \in Consumers, NEW s \in Secrets, NEW t \in Tokens,
             GetAccountToken(r, k, s, t)
      PROVE  RequestsOnlyAdvance
  <2> DEFINE refused == [req[r] EXCEPT !.pc = "done", !.code = 1001]
             q == [req[r] EXCEPT !.token = t]
             new == SendSet(q, "registerLicense", accountTokenKey(t), Consumer(k))
  <2>1. refused.pc = "done" /\ q \in Request
    BY <1>1 DEF Request
  <2>2. new.pc = "registerLicense" /\ new.reply = "pending"
    BY <2>1, GetFields
  <2>3. req' = [req EXCEPT ![r] = refused] \/ req' = [req EXCEPT ![r] = new]
    BY <1>4 DEF GetAccountToken
  <2> HIDE DEF refused, new
  <2>4. QED
    BY <1>1, <1>2, <2>1, <2>2, <2>3, EndAdvances
<1>5. ASSUME NEW t \in Tokens, NEW c \in Cookies, KeepAlive(r, t, c)
      PROVE  RequestsOnlyAdvance
  <2> DEFINE q == [req[r] EXCEPT !.kind = "keepAlive", !.token = t, !.cookie = c]
             new == SendGet(q, "keepAccount", accountTokenKey(t))
  <2>1. q \in Request
    BY <1>1 DEF Request, Kinds
  <2>2. new.pc = "keepAccount" /\ new.reply = "pending"
    BY <2>1, GetFields
  <2>3. req' = [req EXCEPT ![r] = new]
    BY <1>5 DEF KeepAlive
  <2> HIDE DEF new
  <2>4. QED
    BY <1>2, <2>2, <2>3
<1>6. ASSUME NEW t \in Tokens, NEW c \in Cookies, Guarded(r, t, c)
      PROVE  RequestsOnlyAdvance
  <2> DEFINE q == [req[r] EXCEPT !.kind = "guarded", !.token = t, !.cookie = c,
                                 !.entitled = LoggedIn(t, c)]
             new == SendGet(q, "validateSession", ssoKey(q.cookie))
  <2>1. LoggedIn(t, c) \in BOOLEAN
    BY DEF LoggedIn
  <2>2. q \in Request
    BY <1>1, <2>1 DEF Request, Kinds
  <2>3. new.pc = "validateSession" /\ new.reply = "pending"
    BY <2>2, GetFields
  <2>4. req' = [req EXCEPT ![r] = new]
    BY <1>6 DEF Guarded, AskForSession
  <2> HIDE DEF new
  <2>5. QED
    BY <1>2, <2>3, <2>4
<1>7. ASSUME NEW t \in Tokens, NEW c \in Cookies, NEW u \in Users, NEW p \in Passwords,
             Login(r, t, c, u, p)
      PROVE  RequestsOnlyAdvance
  <2> DEFINE q == [req[r] EXCEPT !.kind = "login", !.token = t, !.cookie = c,
                                 !.user = u, !.password = p]
             get == SendGet(q, "validateSession", ssoKey(q.cookie))
             ask == SendGet(q, "loginUser", accountTokenKey(q.token))
  <2>1. q \in Request
    BY <1>1 DEF Request, Kinds
  <2>2. get.pc = "validateSession" /\ get.reply = "pending"
    BY <2>1, GetFields
  <2>3. ask.pc = "loginUser" /\ ask.reply = "pending"
    BY <2>1, GetFields
  <2>4. req' = [req EXCEPT ![r] = get] \/ req' = [req EXCEPT ![r] = ask]
    BY <1>7 DEF Login, AskForSession, AskForAccount
  <2> HIDE DEF get, ask
  <2>5. QED
    BY <1>2, <2>2, <2>3, <2>4
<1>8. QED
  BY <1>3, <1>4, <1>5, <1>6, <1>7 DEF Start

LEMMA CallbackAdvances ==
  ASSUME TypeOK, NEW r \in Reqs, Callback(r)
  PROVE  RequestsOnlyAdvance
<1>1. req[r] \in Request
  BY DEF TypeOK
<1>2. ASSUME NEW code, Respond(r, code), req[r].pc \in Waits
      PROVE  RequestsOnlyAdvance
  BY <1>2, RespondAdvances
<1>3. ASSUME NEW pc \in Waits, linksLeft(pc) < linksLeft(req[r].pc),
             NEW q \in Request, NEW key, NEW value,
             \/ req' = [req EXCEPT ![r] = SendGet(q, pc, key)]
             \/ req' = [req EXCEPT ![r] = SendSet(q, pc, key, value)]
      PROVE  RequestsOnlyAdvance
  BY <1>3, GetFields, SendAdvances
<1>4. CASE OnLastSet(r)
  BY <1>2, <1>4 DEF OnLastSet, Waits, Sets
<1>5. CASE OnAccountFound(r)
  <2> DEFINE new == [req[r] EXCEPT !.pc = "findUser", !.reply = "pending"]
  <2>1. new.pc = "findUser" /\ new.reply = "pending"
    BY <1>1 DEF Request
  <2>2. Respond(r, 1002) \/ req' = [req EXCEPT ![r] = new]
    BY <1>5 DEF OnAccountFound
  <2>3. "findUser" \in Waits /\ linksLeft("findUser") < linksLeft(req[r].pc)
        /\ req[r].pc \in Waits
    BY <1>5 DEF OnAccountFound, linksLeft, Waits, Gets
  <2> HIDE DEF new
  <2>4. QED
    BY <1>2, <2>1, <2>2, <2>3, SendAdvances
<1>6. CASE LoginRefused(r)
  BY <1>2, <1>6 DEF LoginRefused, Waits
<1>7. ASSUME NEW c \in Cookies, OpenSession(r, c)
      PROVE  RequestsOnlyAdvance
  <2> DEFINE q == [req[r] EXCEPT !.cookie = c]
  <2>1. q \in Request
    BY <1>1 DEF Request
  <2>2. "openSession" \in Waits /\ linksLeft("openSession") < linksLeft(req[r].pc)
    BY <1>7 DEF OpenSession, Back, linksLeft, Waits, Sets
  <2>3. req' = [req EXCEPT ![r] = SendSet(q, "openSession", ssoKey(c),
                                          ssoValue(req[r].token, req[r].user))]
    BY <1>7 DEF OpenSession
  <2> HIDE DEF q
  <2>4. QED
    BY <1>3, <2>1, <2>2, <2>3
<1>8. CASE OnKeepAccount(r)
  <2>1. "refreshAccount" \in Waits /\ linksLeft("refreshAccount") < linksLeft(req[r].pc)
        /\ req[r].pc \in Waits
    BY <1>8 DEF OnKeepAccount, linksLeft, Waits, Sets, Gets
  <2>2. \/ Respond(r, 1002)
        \/ req' = [req EXCEPT ![r] = SendSet(req[r], "refreshAccount",
                                       accountTokenKey(req[r].token), req[r].value)]
    BY <1>8 DEF OnKeepAccount
  <2>3. QED
    BY <1>1, <1>2, <1>3, <2>1, <2>2
<1>9. CASE OnAccountRefreshed(r)
  <2>1. "keepSession" \in Waits /\ linksLeft("keepSession") < linksLeft(req[r].pc)
        /\ req[r].pc \in Waits
    BY <1>9 DEF OnAccountRefreshed, linksLeft, Waits, Sets, Gets
  <2>2. \/ Respond(r, 500)
        \/ req' = [req EXCEPT ![r] = SendGet(req[r], "keepSession", ssoKey(req[r].cookie))]
    BY <1>9 DEF OnAccountRefreshed
  <2>3. QED
    BY <1>1, <1>2, <1>3, <2>1, <2>2
<1>10. CASE OnKeepSession(r)
  <2>1. "refreshSession" \in Waits /\ linksLeft("refreshSession") < linksLeft(req[r].pc)
        /\ req[r].pc \in Waits
    BY <1>10 DEF OnKeepSession, linksLeft, Waits, Sets, Gets
  <2>2. \/ Respond(r, 1006)
        \/ req' = [req EXCEPT ![r] = SendSet(req[r], "refreshSession",
                                       ssoKey(req[r].cookie), req[r].value)]
    BY <1>10 DEF OnKeepSession
  <2>3. QED
    BY <1>1, <1>2, <1>3, <2>1, <2>2
<1>11. CASE SessionAccepted(r)
  <2> DEFINE q == [req[r] EXCEPT !.admitted = TRUE]
             code == IF req[r].kind = "login" THEN 1000 ELSE 200
             new == [req[r] EXCEPT !.pc = "done", !.reply = "none", !.code = code,
                                   !.admitted = TRUE]
  <2>1. q \in Request /\ new.pc = "done"
    BY <1>1 DEF Request
  <2>2. "loginUser" \in Waits /\ linksLeft("loginUser") < linksLeft(req[r].pc)
        /\ req[r].pc \in Waits
    BY <1>11 DEF SessionAccepted, Back, linksLeft, Waits, Gets
  <2>3. \/ req' = [req EXCEPT ![r] = SendGet(q, "loginUser", accountTokenKey(q.token))]
        \/ req' = [req EXCEPT ![r] = new]
    BY <1>11 DEF SessionAccepted, AskForAccount
  <2> HIDE DEF q, new
  <2>4. QED
    BY <1>3, <2>1, <2>2, <2>3, EndAdvances
<1>12. CASE SessionRefused(r)
  BY <1>2, <1>12 DEF SessionRefused, Waits, Gets
<1>13. QED
  BY <1>4, <1>5, <1>6, <1>7, <1>8, <1>9, <1>10, <1>11, <1>12 DEF Callback

LEMMA StoreAdvances ==
  ASSUME TypeOK, NEW r \in Reqs, StoreStep(r) \/ RedisFails(r)
  PROVE  RequestsOnlyAdvance
<1>1. req[r] \in Request
  BY DEF TypeOK
<1>2. ASSUME NEW what, Reply(r, what), what # "pending", req[r].pc \in Waits,
             req[r].reply = "pending", Expected([req[r] EXCEPT !.reply = what])
      PROVE  RequestsOnlyAdvance
  <2> DEFINE new == [req[r] EXCEPT !.reply = what]
  <2>1. new.pc = req[r].pc /\ new.reply = what /\ req' = [req EXCEPT ![r] = new]
    BY <1>1, <1>2 DEF Reply, Request
  <2> HIDE DEF new
  <2>2. Expected(new)
    BY <1>2 DEF new
  <2>3. QED
    BY <1>2, <2>1, <2>2, AnswerAdvances
<1>3. ASSUME NEW what
      PROVE  /\ [req[r] EXCEPT !.reply = what].reply = what
             /\ [req[r] EXCEPT !.reply = what].pc = req[r].pc
  BY <1>1 DEF Request
<1>4. CASE SetKey(r)
  <2>1. req[r].pc \in Sets /\ req[r].reply = "pending"
        /\ (Reply(r, "ok") \/ Reply(r, "failed"))
    BY <1>4 DEF SetKey, Sent
  <2>2. \A what \in {"ok", "failed"} : Expected([req[r] EXCEPT !.reply = what])
    BY <1>3, <2>1 DEF Expected, Sets, Gets
  <2>3. QED
    BY <1>2, <2>1, <2>2 DEF Waits
<1>5. CASE GetKey(r)
  <2>1. req[r].pc \in Gets /\ req[r].reply = "pending"
    BY <1>5 DEF GetKey, Sent
  <2>2. Expected([req[r] EXCEPT !.reply = "null"])
    BY <1>3, <2>1 DEF Expected, Sets, Gets
  <2>3. ASSUME NEW value, req' = [req EXCEPT ![r] = [@ EXCEPT !.reply = "found", !.value = value]]
        PROVE  RequestsOnlyAdvance
    <3> DEFINE new == [req[r] EXCEPT !.reply = "found", !.value = value]
    <3>1. new.pc = req[r].pc /\ new.reply = "found" /\ req' = [req EXCEPT ![r] = new]
      BY <1>1, <2>3 DEF Request
    <3> HIDE DEF new
    <3>2. Expected(new)
      BY <2>1, <3>1 DEF Expected, Sets, Gets
    <3>3. QED
      BY <2>1, <3>1, <3>2, AnswerAdvances DEF Waits
  <2>4. QED
    BY <1>2, <1>5, <2>1, <2>2, <2>3 DEF GetKey, Waits
<1>6. CASE FindUser(r)
  <2>1. req[r].pc = "findUser" /\ req[r].reply = "pending"
    BY <1>6 DEF FindUser, Sent
  <2>2. \A what \in UserStates \union {"error"} : Expected([req[r] EXCEPT !.reply = what])
    BY <1>3, <2>1 DEF Expected, Sets, Gets
  <2>3. users[req[r].user] \in UserStates
    BY <1>1 DEF TypeOK, Request
  <2>4. \E what \in UserStates \union {"error"} : Reply(r, what)
    BY <1>6, <2>3 DEF FindUser
  <2>5. QED
    BY <1>2, <2>1, <2>2, <2>4 DEF UserStates, Waits
<1>7. CASE RedisFails(r)
  <2>1. req[r].reply = "pending"
        /\ \/ req[r].pc \in Sets /\ Reply(r, "failed")
           \/ req[r].pc \in Gets /\ Reply(r, "null")
    BY <1>7 DEF RedisFails, Sent
  <2>2. /\ req[r].pc \in Sets => Expected([req[r] EXCEPT !.reply = "failed"])
        /\ req[r].pc \in Gets => Expected([req[r] EXCEPT !.reply = "null"])
    BY <1>3 DEF Expected, Sets, Gets
  <2>3. QED
    BY <1>2, <2>1, <2>2 DEF Waits
<1>8. QED
  BY <1>4, <1>5, <1>6, <1>7 DEF StoreStep

\* With the server, the requests in flight end.
LEMMA LossAdvances ==
  ASSUME TypeOK, LossStep
  PROVE  RequestsOnlyAdvance
<1> SUFFICES ASSUME NEW r \in Reqs, req[r].pc \in Waits PROVE Advances(r)
  BY DEF LossStep, FormatCrash, Crash, ServerDies, RequestsOnlyAdvance
<1>1. req'[r].pc = "lost" /\ req'[r].reply = "none"
  BY DEF LossStep, FormatCrash, Crash, ServerDies, TypeOK, Request
<1>2. QED
  BY <1>1 DEF Advances, Expected, stepsLeft, linksLeft, Waits, Sets, Gets

\* Every request comes to its end in ten steps of its own or fewer: each one either answers
\* it or takes it further down its chain of callbacks, whatever fails, and every answer
\* a store may give has a branch in the callback that is waiting (SystemController,
\* SystemService, AuthFilter).
THEOREM RequestsRunOut == Spec => []AnswersExpected /\ [][RequestsOnlyAdvance]_vars
<1>1. Init => AnswersExpected
  BY DEF Init, NewRequest, AnswersExpected, Expected, Sets, Gets
<1>2. TypeOK /\ Next => RequestsOnlyAdvance
  <2> SUFFICES ASSUME TypeOK, Next PROVE RequestsOnlyAdvance
    OBVIOUS
  <2>1. CASE \E r \in Reqs : Start(r) \/ Callback(r) \/ StoreStep(r) \/ RedisFails(r)
    BY <2>1, StartAdvances, CallbackAdvances, StoreAdvances
  <2>2. CASE LossStep
    BY <2>2, LossAdvances
  <2>3. CASE UNCHANGED req
    BY <2>3 DEF RequestsOnlyAdvance
  <2>4. CASE ExpireKey \/ RedisRestart \/ Restart \/ Tick \/ \E u \in Users : AccountChanges(u)
    BY <2>3, <2>4 DEF ExpireKey, RedisRestart, Restart, Tick, AccountChanges
  <2>5. QED
    BY <2>1, <2>2, <2>4, NextSplit DEF WorldStep
<1>3. TypeOK /\ AnswersExpected /\ [Next]_vars => AnswersExpected'
  BY <1>2 DEF vars, AnswersExpected, RequestsOnlyAdvance, Advances
<1>4. TypeOK /\ [Next]_vars => [RequestsOnlyAdvance]_vars
  BY <1>2
<1>5. QED
  BY <1>1, <1>3, <1>4, TypeCorrect, PTL DEF Spec

-----------------------------------------------------------------------------
(* With AuthFilter in front of the login route.  A value that names a login can *)
(* only come from loginUser, which is only reached with such a value.          *)

NoColonAnywhere ==
  /\ opened = {}
  /\ \A e \in redis : ~e.value.colon
  /\ \A r \in Reqs :
       /\ req[r].pc \notin {"loginUser", "findUser", "openSession"}
       /\ req[r].pc \in Sets \/ req[r].reply = "found" => ~req[r].value.colon

LoginUnreachable == filtered => NoColonAnywhere

\* What a request may hold for NoColonAnywhere, whatever else it holds.
NoColon(q) ==
  /\ q.pc \notin {"loginUser", "findUser", "openSession"}
  /\ q.pc \in Sets \/ q.reply = "found" => ~q.value.colon

LEMMA OneRequestNoColon ==
  ASSUME TypeOK, NoColonAnywhere, NEW r \in Reqs, NEW q,
         req' = [req EXCEPT ![r] = q], NoColon(q),
         UNCHANGED <<redis, opened>>
  PROVE  NoColonAnywhere'
BY DEF TypeOK, NoColonAnywhere, NoColon

\* An answered request is past the steps that matter.
LEMMA RespondNoColon ==
  ASSUME TypeOK, NoColonAnywhere, NEW r \in Reqs, NEW code \in Codes,
         Respond(r, code), UNCHANGED <<redis, opened>>
  PROVE  NoColonAnywhere'
<1>1. NoColon([req[r] EXCEPT !.pc = "done", !.reply = "none", !.code = code])
  BY DEF NoColon, TypeOK, Request, Sets
<1>2. QED
  BY <1>1, OneRequestNoColon DEF Respond

\* Commands that carry no login: a GET, and a SET of a value without a colon.
LEMMA SendNoColon ==
  ASSUME NEW q \in Request, NEW key
  PROVE  /\ \A pc \in {"validateSession", "keepAccount", "keepSession"} :
              NoColon(SendGet(q, pc, key))
         /\ \A pc \in {"registerLicense", "refreshAccount", "refreshSession"} : \A value :
              ~value.colon => NoColon(SendSet(q, pc, key, value))
BY DEF NoColon, SendGet, SendSet, Request, Sets

LEMMA StartNoColon ==
  ASSUME TypeOK, filtered, NoColonAnywhere, NEW r \in Reqs, Start(r)
  PROVE  NoColonAnywhere'
<1> USE DEF stores, env
<1>1. req[r] \in Request
  BY DEF TypeOK
<1>2. CASE MissingParameters(r)
  BY <1>1, <1>2 DEF MissingParameters, NoColonAnywhere, TypeOK, Request, Sets
<1>3. CASE \E k \in Consumers, s \in Secrets, t \in Tokens : GetAccountToken(r, k, s, t)
  <2>1. PICK k \in Consumers, s \in Secrets, t \in Tokens : GetAccountToken(r, k, s, t)
    BY <1>3
  <2>2. CASE <<k, s>> \in Licenses
    <3>1. [req[r] EXCEPT !.token = t] \in Request /\ ~Consumer(k).colon
      BY <1>1 DEF Request, Consumer
    <3>2. NoColon(SendSet([req[r] EXCEPT !.token = t], "registerLicense",
                          accountTokenKey(t), Consumer(k)))
      BY <3>1, SendNoColon
    <3>3. QED
      BY <2>1, <2>2, <3>2, OneRequestNoColon DEF GetAccountToken
  <2>3. CASE <<k, s>> \notin Licenses
    <3> DEFINE q == [req[r] EXCEPT !.pc = "done", !.code = 1001]
    <3>1. q.pc = "done" /\ q.reply = req[r].reply /\ q.value = req[r].value
      BY <1>1 DEF Request
    <3>2. NoColon(q)
      BY <3>1 DEF NoColon, NoColonAnywhere, Sets
    <3>3. req' = [req EXCEPT ![r] = q] /\ UNCHANGED <<redis, opened>>
      BY <2>1, <2>3 DEF GetAccountToken
    <3> HIDE DEF q
    <3>4. QED
      BY <3>2, <3>3, OneRequestNoColon
  <2>4. QED
    BY <2>2, <2>3
<1>4. CASE \E t \in Tokens, c \in Cookies : KeepAlive(r, t, c)
  BY <1>1, <1>4 DEF KeepAlive, SendGet, NoColonAnywhere, TypeOK, Request, Sets
<1>5. CASE \E t \in Tokens, c \in Cookies : Guarded(r, t, c)
  BY <1>1, <1>5 DEF Guarded, AskForSession, SendGet, NoColonAnywhere, TypeOK,
                    Request, Sets
<1>6. CASE \E t \in Tokens, c \in Cookies, u \in Users, p \in Passwords :
             Login(r, t, c, u, p)
  BY <1>1, <1>6 DEF Login, AskForSession, SendGet, NoColonAnywhere, TypeOK,
                    Request, Sets
<1>7. QED
  BY <1>2, <1>3, <1>4, <1>5, <1>6 DEF Start

LEMMA CallbackNoColon ==
  ASSUME TypeOK, NoColonAnywhere, NEW r \in Reqs, Callback(r)
  PROVE  NoColonAnywhere'
<1> USE DEF stores, env
<1>1. /\ req[r] \in Request
      /\ NoColon(req[r])
  BY DEF TypeOK, NoColonAnywhere, NoColon
<1>2. CASE OnLastSet(r)
  BY <1>2, RespondNoColon, CodeType DEF OnLastSet
<1>3. CASE OnKeepAccount(r)
  <2>1. CASE req[r].reply = "null"
    BY <1>3, <2>1, RespondNoColon, CodeType DEF OnKeepAccount
  <2>2. CASE req[r].reply = "found"
    <3>1. NoColon(SendSet(req[r], "refreshAccount", accountTokenKey(req[r].token),
                          req[r].value))
      BY <1>1, <2>2, SendNoColon DEF NoColon
    <3>2. QED
      BY <1>3, <2>2, <3>1, OneRequestNoColon DEF OnKeepAccount
  <2>3. QED
    BY <1>3, <2>1, <2>2 DEF OnKeepAccount
<1>4. CASE OnAccountRefreshed(r)
  <2>1. CASE req[r].reply = "failed"
    BY <1>4, <2>1, RespondNoColon, CodeType DEF OnAccountRefreshed
  <2>2. CASE req[r].reply = "ok"
    <3>1. NoColon(SendGet(req[r], "keepSession", ssoKey(req[r].cookie)))
      BY <1>1, SendNoColon
    <3>2. QED
      BY <1>4, <2>2, <3>1, OneRequestNoColon DEF OnAccountRefreshed
  <2>3. QED
    BY <1>4, <2>1, <2>2 DEF OnAccountRefreshed
<1>5. CASE OnKeepSession(r)
  <2>1. CASE req[r].reply = "null"
    BY <1>5, <2>1, RespondNoColon, CodeType DEF OnKeepSession
  <2>2. CASE req[r].reply = "found"
    <3>1. NoColon(SendSet(req[r], "refreshSession", ssoKey(req[r].cookie),
                          req[r].value))
      BY <1>1, <2>2, SendNoColon DEF NoColon
    <3>2. QED
      BY <1>5, <2>2, <3>1, OneRequestNoColon DEF OnKeepSession
  <2>3. QED
    BY <1>5, <2>1, <2>2 DEF OnKeepSession
<1>6. CASE SessionRefused(r)
  BY <1>6, RespondNoColon, CodeType DEF SessionRefused
<1>7. ~SessionAccepted(r)
  BY <1>1 DEF SessionAccepted, Back, sessionMatches, NoColon
<1>8. ~OnAccountFound(r) /\ ~LoginRefused(r) /\ ~(\E c \in Cookies : OpenSession(r, c))
  BY <1>1 DEF OnAccountFound, LoginRefused, OpenSession, Back, NoColon
<1>9. QED
  BY <1>2, <1>3, <1>4, <1>5, <1>6, <1>7, <1>8 DEF Callback

LEMMA StoreNoColon ==
  ASSUME TypeOK, NoColonAnywhere, NEW r \in Reqs, StoreStep(r)
  PROVE  NoColonAnywhere'
<1> USE DEF stores, env
<1>1. req[r] \in Request /\ NoColon(req[r])
  BY DEF TypeOK, NoColonAnywhere, NoColon
<1>2. CASE SetKey(r)
  <2>1. \A e \in redis' : ~e.value.colon
    BY <1>1, <1>2 DEF SetKey, Sent, NoColonAnywhere, NoColon
  <2>2. PICK what \in {"ok", "failed"} : Reply(r, what)
    BY <1>2 DEF SetKey
  <2>3. QED
    BY <1>1, <1>2, <2>1, <2>2
       DEF SetKey, Reply, NoColonAnywhere, NoColon, TypeOK, Request
<1>3. CASE GetKey(r)
  <2>1. req[r].pc \notin Sets /\ UNCHANGED <<redis, opened>>
    BY <1>3 DEF GetKey, Sent, Gets, Sets
  <2>2. CASE Reply(r, "null")
    <3>1. NoColon([req[r] EXCEPT !.reply = "null"])
      BY <1>1, <2>1 DEF NoColon, Request
    <3>2. QED
      BY <2>1, <2>2, <3>1, OneRequestNoColon DEF Reply
  <2>3. CASE \E e \in readable(r) :
               req' = [req EXCEPT ![r] = [@ EXCEPT !.reply = "found",
                                                   !.value = e.value]]
    <3>1. PICK e \in readable(r) :
            req' = [req EXCEPT ![r] = [@ EXCEPT !.reply = "found",
                                                !.value = e.value]]
      BY <2>3
    <3>2. ~e.value.colon
      BY DEF readable, NoColonAnywhere
    <3>3. NoColon([req[r] EXCEPT !.reply = "found", !.value = e.value])
      BY <1>1, <3>2 DEF NoColon, Request
    <3>4. QED
      BY <2>1, <3>1, <3>3, OneRequestNoColon
  <2>4. QED
    BY <1>3, <2>2, <2>3 DEF GetKey
<1>4. ~FindUser(r)
  BY <1>1 DEF FindUser, Sent, NoColon
<1>5. QED
  BY <1>2, <1>3, <1>4 DEF StoreStep

LEMMA LossNoColon ==
  ASSUME TypeOK, NoColonAnywhere, LossStep
  PROVE  NoColonAnywhere'
<1>1. /\ req' = [r \in Reqs |-> IF req[r].pc \in Waits
                                  THEN [req[r] EXCEPT !.pc = "lost", !.reply = "none"]
                                  ELSE req[r]]
      /\ UNCHANGED <<redis, opened>>
  BY DEF LossStep, FormatCrash, Crash, ServerDies, stores
<1>2. ASSUME NEW r \in Reqs
      PROVE  NoColon([req[r] EXCEPT !.pc = "lost", !.reply = "none"])
  BY DEF NoColon, TypeOK, Request, Sets
<1>3. \A r \in Reqs : NoColon(req[r])
  BY DEF NoColon, NoColonAnywhere
<1>4. \A r \in Reqs : NoColon(req'[r])
  BY <1>1, <1>2, <1>3
<1>5. QED
  BY <1>1, <1>4 DEF NoColon, NoColonAnywhere

LEMMA WorldNoColon ==
  ASSUME TypeOK, NoColonAnywhere, WorldStep
  PROVE  NoColonAnywhere'
<1> USE DEF stores, env
<1>1. CASE \E r \in Reqs : RedisFails(r)
  <2>1. PICK r \in Reqs : RedisFails(r)
    BY <1>1
  <2>2. PICK what \in {"null", "failed"} : Reply(r, what)
    BY <2>1 DEF RedisFails
  <2>3. NoColon([req[r] EXCEPT !.reply = what])
    BY DEF NoColon, NoColonAnywhere, TypeOK, Request
  <2>4. QED
    BY <2>1, <2>2, <2>3, OneRequestNoColon DEF RedisFails, Reply
<1>2. CASE ExpireKey
  BY <1>2 DEF ExpireKey, NoColonAnywhere
<1>3. CASE RedisRestart
  BY <1>3 DEF RedisRestart, NoColonAnywhere
<1>4. CASE Restart
  BY <1>4 DEF Restart, NoColonAnywhere
<1>5. CASE \E u \in Users : AccountChanges(u)
  BY <1>5 DEF AccountChanges, NoColonAnywhere
<1>6. CASE Tick
  BY <1>6 DEF Tick, NoColonAnywhere
<1>7. QED
  BY <1>1, <1>2, <1>3, <1>4, <1>5, <1>6 DEF WorldStep

LEMMA FilterStays == [Next]_vars => filtered' = filtered
<1> USE DEF stores, env
<1>1. ASSUME NEW r \in Reqs, Start(r) PROVE filtered' = filtered
  BY <1>1 DEF Start, MissingParameters, GetAccountToken, KeepAlive, Guarded, Login
<1>2. ASSUME NEW r \in Reqs, Callback(r) PROVE filtered' = filtered
  BY <1>2 DEF Callback, OnLastSet, OnAccountFound, LoginRefused, OpenSession, OnKeepAccount,
    OnAccountRefreshed, OnKeepSession, SessionAccepted, SessionRefused
<1>3. ASSUME NEW r \in Reqs, StoreStep(r) \/ RedisFails(r) \/ FormatCrash(r)
      PROVE  filtered' = filtered
  BY <1>3 DEF StoreStep, SetKey, GetKey, FindUser, RedisFails, FormatCrash
<1>4. CASE ExpireKey \/ RedisRestart \/ Crash \/ Restart \/ Tick
  BY <1>4 DEF ExpireKey, RedisRestart, Crash, Restart, Tick
<1>5. ASSUME NEW u \in Users, AccountChanges(u) PROVE filtered' = filtered
  BY <1>5 DEF AccountChanges
<1>6. QED
  BY <1>1, <1>2, <1>3, <1>4, <1>5 DEF Next, vars

LEMMA LoginNeverReached == Spec => []LoginUnreachable
<1>1. Init => LoginUnreachable
  BY DEF Init, LoginUnreachable, NoColonAnywhere, NewRequest, Sets
<1>2. TypeOK /\ LoginUnreachable /\ [Next]_vars => LoginUnreachable'
  <2>1. SUFFICES ASSUME TypeOK, LoginUnreachable, [Next]_vars, filtered
                 PROVE  NoColonAnywhere'
    BY FilterStays DEF LoginUnreachable
  <2>2. NoColonAnywhere
    BY <2>1 DEF LoginUnreachable
  <2>3. CASE Next
    BY <2>1, <2>2, <2>3, NextSplit, StartNoColon, CallbackNoColon, StoreNoColon,
       LossNoColon, WorldNoColon
  <2>4. CASE UNCHANGED vars
    BY <2>2, <2>4 DEF vars, NoColonAnywhere
  <2>5. QED
    BY <2>1, <2>3, <2>4
<1>3. QED
  BY <1>1, <1>2, TypeCorrect, PTL DEF Spec

\* With AuthFilter in front of the login route no login ever succeeds, whichever
\* Redis client the service was given, whatever fails and however long it runs.
THEOREM FilteredLoginOpensNothing == Spec => []NoSessionBehindFilter
<1>1. LoginUnreachable => NoSessionBehindFilter
  BY DEF LoginUnreachable, NoColonAnywhere, NoSessionBehindFilter
<1>2. QED
  BY <1>1, LoginNeverReached, PTL

-----------------------------------------------------------------------------
(* With a client whose get reads the key it is asked for.  Every key of Redis,  *)
(* and every value on its way to or from Redis, leads back to the operation    *)
(* that made it; a request that is past a check leads back to what was checked. *)

\* The value belongs to the key: a token's licence, or a cookie's login.
Traced(key, value) ==
  \/ \E a \in licensed : key = accountTokenKey(a.token)
  \/ \E s \in opened : key = ssoKey(s.cookie) /\ value = ssoValue(s.token, s.user)

TokenLicensed(token) == \E a \in licensed : a.token = token

Admission(q) ==
  \E s \in opened : /\ q.kind = "guarded" => s.cookie = q.cookie
                    /\ s.token = q.token

RequestTraced(q) ==
  /\ q.pc = "idle" => ~q.admitted
  /\ q.pc \in {"loginUser", "findUser", "openSession"} => q.kind = "login"
  /\ q.pc \in {"loginUser", "keepAccount"} => q.key = accountTokenKey(q.token)
  /\ q.pc \in {"validateSession", "keepSession"} => q.key = ssoKey(q.cookie)
  /\ q.pc \in Sets \/ (q.pc \in Gets /\ q.reply = "found") => Traced(q.key, q.value)
  /\ q.pc = "findUser" => TokenLicensed(q.token)
  /\ q.admitted => Admission(q)

TablesTraced ==
  /\ \A a \in licensed : <<a.consumer, a.secret>> \in Licenses
  /\ \A s \in opened : PasswordOf[s.user] = s.password /\ TokenLicensed(s.token)
  /\ \A e \in redis : Traced(e.key, e.value)

SessionsTraced == TablesTraced /\ \A r \in Reqs : RequestTraced(req[r])

\* The two key spaces do not meet.
LEMMA KeysApart ==
  ASSUME NEW token, NEW cookie
  PROVE  accountTokenKey(token) # ssoKey(cookie)
BY DEF accountTokenKey, ssoKey

\* The histories only grow, so what led back to them still does.
LEMMA HistoriesGrow ==
  ASSUME licensed \subseteq licensed', opened \subseteq opened'
  PROVE  /\ \A key, value : Traced(key, value) => Traced(key, value)'
         /\ \A token : TokenLicensed(token) => TokenLicensed(token)'
         /\ \A q : RequestTraced(q) => RequestTraced(q)'
<1>1. ASSUME NEW key, NEW value, Traced(key, value)
      PROVE  Traced(key, value)'
  BY <1>1 DEF Traced
<1>2. ASSUME NEW token, TokenLicensed(token)
      PROVE  TokenLicensed(token)'
  BY <1>2 DEF TokenLicensed
<1>3. ASSUME NEW q, Admission(q)
      PROVE  Admission(q)'
  BY <1>3 DEF Admission
<1>4. ASSUME NEW q, RequestTraced(q)
      PROVE  RequestTraced(q)'
  BY <1>1, <1>2, <1>3, <1>4 DEF RequestTraced
<1>5. QED
  BY <1>1, <1>2, <1>4

\* A step that changes one request and, perhaps, the histories.
LEMMA OneRequestTraced ==
  ASSUME TypeOK, SessionsTraced, NEW r \in Reqs, NEW q,
         req' = [req EXCEPT ![r] = q], RequestTraced(q)',
         licensed \subseteq licensed', opened \subseteq opened', TablesTraced'
  PROVE  SessionsTraced'
<1>1. ASSUME NEW o \in Reqs
      PROVE  RequestTraced(req[o])'
  <2>1. CASE o = r
    BY <2>1 DEF TypeOK
  <2>2. CASE o # r
    BY <2>2, HistoriesGrow DEF TypeOK, SessionsTraced
  <2>3. QED
    BY <2>1, <2>2
<1>2. QED
  BY <1>1 DEF SessionsTraced

\* A step of one request that leaves the stores and the histories alone.
LEMMA QuietRequestTraced ==
  ASSUME TypeOK, SessionsTraced, NEW r \in Reqs, NEW q,
         req' = [req EXCEPT ![r] = q], RequestTraced(q),
         UNCHANGED <<redis, licensed, opened>>
  PROVE  SessionsTraced'
<1>1. RequestTraced(q)' /\ TablesTraced'
  BY HistoriesGrow DEF SessionsTraced, TablesTraced, Traced, TokenLicensed
<1>2. QED
  BY <1>1, OneRequestTraced

\* What an answer and a command do to a request that is traced.
LEMMA AnswerTraced ==
  ASSUME NEW q \in Request, RequestTraced(q), NEW code \in Codes
  PROVE  RequestTraced([q EXCEPT !.pc = "done", !.reply = "none", !.code = code])
BY DEF RequestTraced, Admission, Request, Gets, Sets

LEMMA RespondTraced ==
  ASSUME TypeOK, SessionsTraced, NEW r \in Reqs, NEW code \in Codes,
         Respond(r, code), UNCHANGED <<redis, licensed, opened>>
  PROVE  SessionsTraced'
<1>1. RequestTraced([req[r] EXCEPT !.pc = "done", !.reply = "none", !.code = code])
  BY AnswerTraced DEF TypeOK, SessionsTraced
<1>2. QED
  BY <1>1, QuietRequestTraced DEF Respond

LEMMA GetTraced ==
  ASSUME NEW q \in Request, q.admitted => Admission(q)
  PROVE  /\ RequestTraced(SendGet(q, "keepAccount", accountTokenKey(q.token)))
         /\ RequestTraced(SendGet(q, "keepSession", ssoKey(q.cookie)))
         /\ RequestTraced(SendGet(q, "validateSession", ssoKey(q.cookie)))
         /\ q.kind = "login" =>
              RequestTraced(SendGet(q, "loginUser", accountTokenKey(q.token)))
BY DEF SendGet, RequestTraced, Admission, Request, Gets, Sets

LEMMA SetTraced ==
  ASSUME NEW q \in Request, q.admitted => Admission(q),
         NEW pc \in {"registerLicense", "refreshAccount", "refreshSession"},
         NEW key, NEW value, Traced(key, value)
  PROVE  RequestTraced(SendSet(q, pc, key, value))
BY DEF SendSet, RequestTraced, Admission, Request, Gets, Sets

LEMMA StartTraced ==
  ASSUME TypeOK, SessionsTraced, NEW r \in Reqs, req[r].pc = "idle", Start(r)
  PROVE  SessionsTraced'
<1> USE DEF stores, env
<1>1. req[r] \in Request /\ RequestTraced(req[r]) /\ ~req[r].admitted
  BY DEF TypeOK, SessionsTraced, RequestTraced
<1>2. CASE MissingParameters(r)
  <2> DEFINE code(kind) ==
        IF kind = "guarded" \/ (kind = "login" /\ filtered) THEN 401 ELSE 1000
  <2>1. PICK kind \in {"token", "login", "guarded"} :
          req' = [req EXCEPT ![r] = [@ EXCEPT !.pc = "done", !.kind = kind,
                                              !.code = code(kind)]]
    BY <1>2 DEF MissingParameters
  <2> HIDE DEF code
  <2>2. RequestTraced([req[r] EXCEPT !.pc = "done", !.kind = kind, !.code = code(kind)])
    BY <1>1 DEF RequestTraced, Request, Gets, Sets
  <2>3. QED
    BY <1>2, <2>1, <2>2, QuietRequestTraced DEF MissingParameters
<1>3. CASE \E k \in Consumers, s \in Secrets, t \in Tokens : GetAccountToken(r, k, s, t)
  <2>1. PICK k \in Consumers, s \in Secrets, t \in Tokens : GetAccountToken(r, k, s, t)
    BY <1>3
  <2>2. CASE <<k, s>> \notin Licenses
    <3> DEFINE q == [req[r] EXCEPT !.pc = "done", !.code = 1001]
    <3>1. q.pc = "done" /\ q.admitted = req[r].admitted
      BY <1>1 DEF Request
    <3>2. req' = [req EXCEPT ![r] = q] /\ UNCHANGED <<redis, licensed, opened>>
      BY <2>1, <2>2 DEF GetAccountToken
    <3> HIDE DEF q
    <3>3. RequestTraced(q)
      BY <1>1, <3>1 DEF RequestTraced, Gets, Sets
    <3>4. QED
      BY <3>2, <3>3, QuietRequestTraced
  <2>3. CASE <<k, s>> \in Licenses
    <3> DEFINE q == [req[r] EXCEPT !.token = t]
               a == [token |-> t, consumer |-> k, secret |-> s]
    <3>1. q \in Request /\ ~q.admitted
      BY <1>1 DEF Request
    <3>2. /\ licensed' = licensed \union {a}
          /\ req' = [req EXCEPT ![r] =
               SendSet(q, "registerLicense", accountTokenKey(t), Consumer(k))]
          /\ UNCHANGED <<redis, opened>>
      BY <2>1, <2>3 DEF GetAccountToken
    <3>3. a \in licensed' /\ a.token = t
      BY <3>2
    <3>4. Traced(accountTokenKey(t), Consumer(k))'
      BY <3>3 DEF Traced
    <3>a. PICK sent :
            sent = SendSet(q, "registerLicense", accountTokenKey(t), Consumer(k))
      OBVIOUS
    <3>5. /\ sent.pc = "registerLicense" /\ ~sent.admitted
          /\ sent.key = accountTokenKey(t) /\ sent.value = Consumer(k)
      BY <3>1, <3>a DEF SendSet, Request
    <3>6. req' = [req EXCEPT ![r] = sent]
      BY <3>2, <3>a
    <3>7. RequestTraced(sent)'
      BY <3>4, <3>5 DEF RequestTraced, Gets, Sets
    <3>8. TablesTraced'
      BY <2>3, <3>2, HistoriesGrow DEF SessionsTraced, TablesTraced
    <3>9. QED
      BY <3>2, <3>6, <3>7, <3>8, OneRequestTraced
  <2>4. QED
    BY <2>2, <2>3
<1>4. CASE \E t \in Tokens, c \in Cookies : KeepAlive(r, t, c)
  <2>1. PICK t \in Tokens, c \in Cookies : KeepAlive(r, t, c)
    BY <1>4
  <2> DEFINE q == [req[r] EXCEPT !.kind = "keepAlive", !.token = t, !.cookie = c]
  <2>2. q \in Request /\ ~q.admitted /\ q.token = t
    BY <1>1 DEF Request, Kinds
  <2>3. RequestTraced(SendGet(q, "keepAccount", accountTokenKey(t)))
    BY <2>2, GetTraced
  <2>4. QED
    BY <2>1, <2>3, QuietRequestTraced DEF KeepAlive
<1>5. CASE \E t \in Tokens, c \in Cookies : Guarded(r, t, c)
  <2>1. PICK t \in Tokens, c \in Cookies : Guarded(r, t, c)
    BY <1>5
  <2> DEFINE q == [req[r] EXCEPT !.kind = "guarded", !.token = t, !.cookie = c,
                                 !.entitled = LoggedIn(t, c)]
  <2>2. q \in Request /\ ~q.admitted
    BY <1>1 DEF Request, Kinds, LoggedIn
  <2>3. RequestTraced(AskForSession(q))
    BY <2>2, GetTraced DEF AskForSession
  <2>4. QED
    BY <2>1, <2>3, QuietRequestTraced DEF Guarded
<1>6. CASE \E t \in Tokens, c \in Cookies, u \in Users, p \in Passwords :
             Login(r, t, c, u, p)
  <2>1. PICK t \in Tokens, c \in Cookies, u \in Users, p \in Passwords :
          Login(r, t, c, u, p)
    BY <1>6
  <2> DEFINE q == [req[r] EXCEPT !.kind = "login", !.token = t, !.cookie = c,
                                 !.user = u, !.password = p]
  <2>2. q \in Request /\ ~q.admitted /\ q.kind = "login"
    BY <1>1 DEF Request, Kinds
  <2>3. RequestTraced(AskForSession(q)) /\ RequestTraced(AskForAccount(q))
    BY <2>2, GetTraced DEF AskForSession, AskForAccount
  <2>4. QED
    BY <2>1, <2>3, QuietRequestTraced DEF Login
<1>7. QED
  BY <1>2, <1>3, <1>4, <1>5, <1>6 DEF Start

LEMMA CallbackTraced ==
  ASSUME TypeOK, SessionsTraced, NEW r \in Reqs, Callback(r)
  PROVE  SessionsTraced'
<1> USE DEF stores, env
<1>1. /\ req[r] \in Request
      /\ RequestTraced(req[r])
      /\ req[r].admitted => Admission(req[r])
  BY DEF TypeOK, SessionsTraced, RequestTraced
<1>2. CASE OnLastSet(r)
  BY <1>2, RespondTraced, CodeType DEF OnLastSet
<1>3. CASE OnAccountFound(r)
  <2>1. CASE req[r].reply = "null"
    BY <1>3, <2>1, RespondTraced, CodeType DEF OnAccountFound
  <2>2. CASE req[r].reply = "found"
    <3>1. Traced(accountTokenKey(req[r].token), req[r].value)
      BY <1>1, <1>3, <2>2 DEF OnAccountFound, RequestTraced, Gets
    <3>2. TokenLicensed(req[r].token)
      BY <3>1, KeysApart DEF Traced, TokenLicensed, accountTokenKey
    <3>3. RequestTraced([req[r] EXCEPT !.pc = "findUser", !.reply = "pending"])
      BY <1>1, <1>3, <3>2
         DEF OnAccountFound, RequestTraced, TokenLicensed, Admission, Request, Gets, Sets
    <3>4. QED
      BY <1>3, <2>2, <3>3, QuietRequestTraced DEF OnAccountFound
  <2>3. QED
    BY <1>3, <2>1, <2>2 DEF OnAccountFound
<1>4. CASE LoginRefused(r)
  BY <1>4, RespondTraced, CodeType DEF LoginRefused
<1>5. CASE \E c \in Cookies : OpenSession(r, c)
  <2>1. PICK c \in Cookies : OpenSession(r, c)
    BY <1>5
  <2>2. PICK token, user, password :
          /\ token = req[r].token /\ user = req[r].user
          /\ password = req[r].password
    OBVIOUS
  <2> DEFINE s == [cookie |-> c, token |-> token, user |-> user,
                   password |-> password, since |-> now]
  <2>3. PICK sent :
          sent = SendSet([req[r] EXCEPT !.cookie = c], "openSession", ssoKey(c),
                         ssoValue(token, user))
    OBVIOUS
  <2>4. /\ opened' = opened \union {s}
        /\ req' = [req EXCEPT ![r] = sent]
        /\ UNCHANGED <<redis, licensed>>
    BY <2>1, <2>2, <2>3 DEF OpenSession
  <2>5. /\ sent.pc = "openSession" /\ sent.kind = "login" /\ sent.token = token
        /\ sent.key = ssoKey(c) /\ sent.value = ssoValue(token, user)
    BY <1>1, <2>1, <2>2, <2>3 DEF OpenSession, Back, RequestTraced, SendSet, Request
  <2>6. PICK new : new = s
    OBVIOUS
  <2>a. new \in opened' /\ new.cookie = c /\ new.token = token /\ new.user = user
    BY <2>4, <2>6
  <2>7. RequestTraced(sent)'
    BY <2>5, <2>a DEF RequestTraced, Traced, Admission, Gets, Sets
  <2>8. /\ PasswordOf[user] = password
        /\ TokenLicensed(token)
    BY <1>1, <2>1, <2>2 DEF OpenSession, Back, verifyPassword, RequestTraced
  <2>9. \A o \in opened' : PasswordOf[o.user] = o.password /\ TokenLicensed(o.token)
    BY <2>4, <2>8 DEF SessionsTraced, TablesTraced
  <2>10. TablesTraced'
    BY <2>4, <2>9, HistoriesGrow DEF SessionsTraced, TablesTraced, TokenLicensed
  <2>11. QED
    BY <2>4, <2>7, <2>10, OneRequestTraced
<1>6. CASE OnKeepAccount(r)
  <2>1. CASE req[r].reply = "null"
    BY <1>6, <2>1, RespondTraced, CodeType DEF OnKeepAccount
  <2>2. CASE req[r].reply = "found"
    <3>1. Traced(accountTokenKey(req[r].token), req[r].value)
      BY <1>1, <1>6, <2>2 DEF OnKeepAccount, RequestTraced, Gets
    <3>2. RequestTraced(SendSet(req[r], "refreshAccount", accountTokenKey(req[r].token),
                                req[r].value))
      BY <1>1, <3>1, SetTraced
    <3>3. QED
      BY <1>6, <2>2, <3>2, QuietRequestTraced DEF OnKeepAccount
  <2>3. QED
    BY <1>6, <2>1, <2>2 DEF OnKeepAccount
<1>7. CASE OnAccountRefreshed(r)
  <2>1. CASE req[r].reply = "failed"
    BY <1>7, <2>1, RespondTraced, CodeType DEF OnAccountRefreshed
  <2>2. CASE req[r].reply = "ok"
    <3>1. RequestTraced(SendGet(req[r], "keepSession", ssoKey(req[r].cookie)))
      BY <1>1, GetTraced
    <3>2. QED
      BY <1>7, <2>2, <3>1, QuietRequestTraced DEF OnAccountRefreshed
  <2>3. QED
    BY <1>7, <2>1, <2>2 DEF OnAccountRefreshed
<1>8. CASE OnKeepSession(r)
  <2>1. CASE req[r].reply = "null"
    BY <1>8, <2>1, RespondTraced, CodeType DEF OnKeepSession
  <2>2. CASE req[r].reply = "found"
    <3>1. Traced(ssoKey(req[r].cookie), req[r].value)
      BY <1>1, <1>8, <2>2 DEF OnKeepSession, RequestTraced, Gets
    <3>2. RequestTraced(SendSet(req[r], "refreshSession", ssoKey(req[r].cookie),
                                req[r].value))
      BY <1>1, <3>1, SetTraced
    <3>3. QED
      BY <1>8, <2>2, <3>2, QuietRequestTraced DEF OnKeepSession
  <2>3. QED
    BY <1>8, <2>1, <2>2 DEF OnKeepSession
<1>9. CASE SessionAccepted(r)
  <2>1. Traced(ssoKey(req[r].cookie), req[r].value)
    BY <1>1, <1>9 DEF SessionAccepted, Back, RequestTraced, Gets
  <2>2. PICK s \in opened : /\ ssoKey(req[r].cookie) = ssoKey(s.cookie)
                            /\ req[r].value = ssoValue(s.token, s.user)
    BY <2>1, KeysApart DEF Traced
  <2>3. s.cookie = req[r].cookie /\ s.token = req[r].token
    BY <1>9, <2>2 DEF SessionAccepted, sessionMatches, ssoKey, ssoValue
  <2> DEFINE goesOn == AskForAccount([req[r] EXCEPT !.admitted = TRUE])
             code == IF req[r].kind = "login" THEN 1000 ELSE 200
             answered == [req[r] EXCEPT !.pc = "done", !.reply = "none", !.code = code,
                                        !.admitted = TRUE]
  <2>4. UNCHANGED <<redis, licensed, opened>>
        /\ \/ req[r].kind = "login" /\ req' = [req EXCEPT ![r] = goesOn]
           \/ req' = [req EXCEPT ![r] = answered]
    BY <1>9 DEF SessionAccepted
  <2>5. ASSUME req[r].kind = "login" PROVE RequestTraced(goesOn)
    <3> DEFINE q == [req[r] EXCEPT !.admitted = TRUE]
    <3>1. q \in Request /\ q.kind = "login" /\ q.token = req[r].token
      BY <1>1, <2>5 DEF Request
    <3>2. Admission(q)
      BY <2>3, <3>1 DEF Admission
    <3>3. QED
      BY <3>1, <3>2, GetTraced DEF AskForAccount
  <2>6. RequestTraced(answered)
    <3>1. answered.pc = "done" /\ answered.token = req[r].token
          /\ answered.cookie = req[r].cookie
      BY <1>1 DEF Request
    <3> HIDE DEF answered
    <3>2. QED
      BY <2>3, <3>1 DEF RequestTraced, Admission, Gets, Sets
  <2> HIDE DEF goesOn, answered
  <2>7. QED
    BY <2>4, <2>5, <2>6, QuietRequestTraced
<1>10. CASE SessionRefused(r)
  BY <1>10, RespondTraced, CodeType DEF SessionRefused
<1>11. QED
  BY <1>2, <1>3, <1>4, <1>5, <1>6, <1>7, <1>8, <1>9, <1>10 DEF Callback

LEMMA StoreTraced ==
  ASSUME TypeOK, SessionsTraced, Client = "Contract", NEW r \in Reqs, StoreStep(r)
  PROVE  SessionsTraced'
<1> USE DEF stores, env
<1>1. req[r] \in Request /\ RequestTraced(req[r])
  BY DEF TypeOK, SessionsTraced
<1>2. CASE SetKey(r)
  <2>1. Traced(req[r].key, req[r].value) /\ req[r].pc \in Sets
    BY <1>1, <1>2 DEF SetKey, Sent, RequestTraced
  <2>2. UNCHANGED <<licensed, opened>>
    BY <1>2 DEF SetKey
  <2>3. \A e \in redis' : Traced(e.key, e.value)
    BY <1>2, <2>1 DEF SetKey, SessionsTraced, TablesTraced
  <2>4. TablesTraced'
    BY <2>2, <2>3, HistoriesGrow DEF SessionsTraced, TablesTraced, Traced, TokenLicensed
  <2>5. PICK what \in {"ok", "failed"} : Reply(r, what)
    BY <1>2 DEF SetKey
  <2>6. PICK q : q = [req[r] EXCEPT !.reply = what]
    OBVIOUS
  <2>7. RequestTraced(q)
    BY <1>1, <2>1, <2>5, <2>6 DEF RequestTraced, Admission, Request, Gets, Sets
  <2>8. RequestTraced(q)'
    BY <2>2, <2>7, HistoriesGrow
  <2>9. QED
    BY <2>2, <2>4, <2>5, <2>6, <2>8, OneRequestTraced DEF Reply
<1>3. CASE GetKey(r)
  <2>1. req[r].pc \in Gets /\ UNCHANGED <<redis, licensed, opened>>
    BY <1>3 DEF GetKey, Sent
  <2>2. CASE Reply(r, "null")
    <3>1. RequestTraced([req[r] EXCEPT !.reply = "null"])
      BY <1>1, <2>1 DEF RequestTraced, Admission, Request, Gets, Sets
    <3>2. QED
      BY <2>1, <2>2, <3>1, QuietRequestTraced DEF Reply
  <2>3. CASE \E e \in readable(r) :
               req' = [req EXCEPT ![r] = [@ EXCEPT !.reply = "found",
                                                   !.value = e.value]]
    <3>1. PICK e \in readable(r) :
            req' = [req EXCEPT ![r] = [@ EXCEPT !.reply = "found",
                                                !.value = e.value]]
      BY <2>3
    <3>2. Traced(req[r].key, e.value)
      BY DEF readable, SessionsTraced, TablesTraced
    <3>3. RequestTraced([req[r] EXCEPT !.reply = "found", !.value = e.value])
      BY <1>1, <2>1, <3>2 DEF RequestTraced, Admission, Request, Gets, Sets
    <3>4. QED
      BY <2>1, <3>1, <3>3, QuietRequestTraced
  <2>4. QED
    BY <1>3, <2>2, <2>3 DEF GetKey
<1>4. CASE FindUser(r)
  <2>1. PICK what : Reply(r, what)
    BY <1>4 DEF FindUser
  <2>2. RequestTraced([req[r] EXCEPT !.reply = what])
    BY <1>1, <1>4, <2>1 DEF FindUser, Sent, RequestTraced, Admission, Request, Gets, Sets
  <2>3. QED
    BY <1>4, <2>1, <2>2, QuietRequestTraced DEF FindUser, Reply
<1>5. QED
  BY <1>2, <1>3, <1>4 DEF StoreStep

LEMMA LossTraced ==
  ASSUME TypeOK, SessionsTraced, LossStep
  PROVE  SessionsTraced'
<1>1. /\ req' = [r \in Reqs |-> IF req[r].pc \in Waits
                                  THEN [req[r] EXCEPT !.pc = "lost", !.reply = "none"]
                                  ELSE req[r]]
      /\ UNCHANGED <<redis, licensed, opened>>
  BY DEF LossStep, FormatCrash, Crash, ServerDies, stores
<1>2. TablesTraced'
  BY <1>1, HistoriesGrow DEF SessionsTraced, TablesTraced, Traced, TokenLicensed
<1>3. ASSUME NEW r \in Reqs
      PROVE  RequestTraced(req[r])'
  <2>1. RequestTraced(req[r]) /\ req[r] \in Request
    BY DEF SessionsTraced, TypeOK
  <2>2. RequestTraced([req[r] EXCEPT !.pc = "lost", !.reply = "none"])
    BY <2>1 DEF RequestTraced, Admission, Request, Gets, Sets
  <2>3. PICK q : /\ q = IF req[r].pc \in Waits
                          THEN [req[r] EXCEPT !.pc = "lost", !.reply = "none"]
                          ELSE req[r]
                 /\ RequestTraced(q)
    BY <2>1, <2>2
  <2>4. RequestTraced(q)'
    BY <1>1, <2>3, HistoriesGrow
  <2>5. req'[r] = q
    BY <1>1, <2>3
  <2>6. QED
    BY <2>4, <2>5
<1>4. QED
  BY <1>2, <1>3 DEF SessionsTraced

LEMMA WorldTraced ==
  ASSUME TypeOK, SessionsTraced, WorldStep
  PROVE  SessionsTraced'
<1> USE DEF stores, env
<1>1. CASE \E r \in Reqs : RedisFails(r)
  <2>1. PICK r \in Reqs : RedisFails(r)
    BY <1>1
  <2>2. PICK what \in {"null", "failed"} : Reply(r, what)
    BY <2>1 DEF RedisFails
  <2>3. RequestTraced(req[r]) /\ req[r] \in Request
    BY DEF SessionsTraced, TypeOK
  <2>4. RequestTraced([req[r] EXCEPT !.reply = what])
    BY <2>2, <2>3 DEF RequestTraced, Admission, Request, Gets, Sets
  <2>5. QED
    BY <2>1, <2>2, <2>4, QuietRequestTraced DEF RedisFails, Reply
<1>2. CASE redis' \subseteq redis /\ UNCHANGED <<req, licensed, opened>>
  <2>1. TablesTraced'
    BY <1>2, HistoriesGrow DEF SessionsTraced, TablesTraced, Traced, TokenLicensed
  <2>2. \A r \in Reqs : RequestTraced(req[r])'
    BY <1>2, HistoriesGrow DEF SessionsTraced
  <2>3. QED
    BY <2>1, <2>2 DEF SessionsTraced
<1>3. CASE ~(\E r \in Reqs : RedisFails(r))
  <2>1. redis' \subseteq redis /\ UNCHANGED <<req, licensed, opened>>
    BY <1>3 DEF WorldStep, ExpireKey, RedisRestart, Restart, AccountChanges, Tick
  <2>2. QED
    BY <1>2, <2>1
<1>4. QED
  BY <1>1, <1>3

\* The inductive invariant, where the client reads the key it is asked for.
LEMMA SessionsAlwaysTraced ==
  ASSUME Client = "Contract"
  PROVE  Spec => []SessionsTraced
<1>1. Init => SessionsTraced
  BY DEF Init, SessionsTraced, TablesTraced, RequestTraced, NewRequest, Gets, Sets
<1>2. TypeOK /\ SessionsTraced /\ [Next]_vars => SessionsTraced'
  <2>1. SUFFICES ASSUME TypeOK, SessionsTraced, [Next]_vars
                 PROVE  SessionsTraced'
    OBVIOUS
  <2>2. ASSUME NEW r \in Reqs, Start(r)
        PROVE  req[r].pc = "idle"
    BY <2>2 DEF Start, MissingParameters, GetAccountToken, KeepAlive, Guarded, Login
  <2>3. CASE Next
    BY <2>1, <2>2, <2>3, NextSplit, StartTraced, CallbackTraced, StoreTraced,
       LossTraced, WorldTraced
  <2>4. CASE UNCHANGED vars
    <3>1. UNCHANGED <<req, redis, licensed, opened>>
      BY <2>4 DEF vars
    <3>2. QED
      BY <2>1, <3>1, HistoriesGrow
         DEF SessionsTraced, TablesTraced, Traced, TokenLicensed
  <2>5. QED
    BY <2>1, <2>3, <2>4
<1>3. QED
  BY <1>1, <1>2, TypeCorrect, PTL DEF Spec

\* Where the client reads the key it is asked for, AuthFilter lets a request through
\* only on the strength of a login and, behind that, of a licence, whatever
\* keepAlive, failures and restarts do in between.
THEOREM AdmissionsAreTraced ==
  ASSUME Client = "Contract"
  PROVE  Spec => []AdmissionTraced
<1>1. SessionsTraced => AdmissionTraced
  BY DEF SessionsTraced, TablesTraced, RequestTraced, Admission, TokenLicensed,
         AdmissionTraced
<1>2. QED
  BY <1>1, SessionsAlwaysTraced, PTL

\* And a cookie's key in Redis never names another login than its own, although
\* keepAlive writes back, later, what it read before.
THEOREM CookiesNameTheirLogin ==
  ASSUME Client = "Contract"
  PROVE  Spec => []CookieNamesItsLogin
<1>1. SessionsTraced => CookieNamesItsLogin
  <2>1. \A token : accountTokenKey(token).space # "sso"
    BY DEF accountTokenKey
  <2>2. QED
    BY <2>1 DEF SessionsTraced, TablesTraced, Traced, CookieNamesItsLogin
<1>2. QED
  BY <1>1, SessionsAlwaysTraced, PTL

-----------------------------------------------------------------------------
(* The other direction: a session that was answered is found.  As long as nothing *)
(* failed, an answered login's cookie is in Redis for its two hours at least, and  *)
(* a request that presents it is refused only after them.                         *)

Expired(s) == s.since + SsoTtl < now
Held(s) ==
  \E e \in redis : e.key = ssoKey(s.cookie) /\ e.deadline >= s.since + SsoTtl

\* Redis has the session q names, or its time is over.
Served(q) ==
  \E s \in opened : /\ s.cookie = q.cookie /\ s.token = q.token
                    /\ Expired(s) \/ Held(s)
Over(q) == \E s \in opened : s.cookie = q.cookie /\ Expired(s)

KindOK(q) ==
  /\ q.pc = "idle" => q.kind = "token" /\ ~q.entitled
  /\ q.pc # "done" => q.code = 0
  /\ q.pc = "registerLicense" => q.kind = "token"
  /\ q.pc \in {"keepAccount", "refreshAccount", "keepSession", "refreshSession"} =>
       q.kind = "keepAlive"
  /\ q.entitled => q.kind = "guarded" /\ q.pc \in {"validateSession", "done", "lost"}

ServedOK(q) ==
  /\ q.pc = "openSession" =>
       /\ q.key = ssoKey(q.cookie)
       /\ \E s \in opened : s.cookie = q.cookie /\ s.token = q.token
  /\ q.pc = "openSession" /\ q.reply = "ok" => Served(q)
  /\ q.kind = "login" /\ q.code = 200 => Served(q)
  /\ q.entitled => Served(q)
  /\ q.entitled /\ q.pc = "validateSession" /\ q.reply = "null" => Over(q)
  /\ q.entitled /\ q.code = 401 => Over(q)

\* Cookies are made once, and not in the future.
OpenedOK ==
  /\ \A s \in opened : s.since <= now
  /\ \A s, t \in opened : s.cookie = t.cookie => s = t

SessionsServed ==
  /\ OpenedOK
  /\ \A r \in Reqs : KindOK(req[r]) /\ (faults = 0 => ServedOK(req[r]))

\* No session is forgotten before its time.
SessionsKept ==
  /\ opened \subseteq opened'
  /\ \A s \in opened : Expired(s) => Expired(s)'
  /\ \A s \in opened : Held(s) => Expired(s)' \/ Held(s)'

LEMMA ServedStays ==
  ASSUME SessionsKept
  PROVE  /\ \A q : Served(q) => Served(q)'
         /\ \A q : ServedOK(q) => ServedOK(q)'
<1>1. ASSUME NEW q, Served(q) PROVE Served(q)'
  BY <1>1 DEF Served, SessionsKept
<1>2. ASSUME NEW q, Over(q) PROVE Over(q)'
  BY <1>2 DEF Over, SessionsKept
<1>3. ASSUME NEW q, ServedOK(q) PROVE ServedOK(q)'
  BY <1>1, <1>2, <1>3 DEF ServedOK, SessionsKept
<1>4. QED
  BY <1>1, <1>3

\* A step that changes one request.
LEMMA OneServed ==
  ASSUME TypeOK, SessionsServed, NEW r \in Reqs, NEW q,
         req' = [req EXCEPT ![r] = q], KindOK(q), OpenedOK',
         faults' = 0 => faults = 0 /\ ServedOK(q)' /\ SessionsKept
  PROVE  SessionsServed'
<1>1. ASSUME NEW o \in Reqs
      PROVE  KindOK(req[o])' /\ (faults' = 0 => ServedOK(req[o])')
  <2>1. CASE o = r
    BY <2>1 DEF TypeOK, KindOK
  <2>2. CASE o # r
    <3>1. req'[o] = req[o]
      BY <2>2 DEF TypeOK
    <3>2. PICK p : p = req[o]
      OBVIOUS
    <3>3. KindOK(p) /\ (faults = 0 => ServedOK(p))
      BY <3>2 DEF SessionsServed
    <3>4. faults' = 0 => ServedOK(p)'
      BY <3>3, ServedStays
    <3>5. QED
      BY <3>1, <3>2, <3>3, <3>4 DEF KindOK
  <2>3. QED
    BY <2>1, <2>2
<1>2. QED
  BY <1>1 DEF SessionsServed

LEMMA NothingKept ==
  ASSUME UNCHANGED <<redis, opened, now>>
  PROVE  /\ SessionsKept /\ (OpenedOK => OpenedOK')
         /\ \A q : (ServedOK(q) => ServedOK(q)') /\ (Served(q) => Served(q)')
<1>1. SessionsKept
  BY DEF SessionsKept, Expired, Held
<1>2. QED
  BY <1>1, ServedStays DEF OpenedOK

\* A step of one request that leaves the stores alone.
LEMMA QuietServed ==
  ASSUME TypeOK, SessionsServed, NEW r \in Reqs, NEW q,
         req' = [req EXCEPT ![r] = q], KindOK(q), faults = 0 => ServedOK(q),
         UNCHANGED <<redis, opened, now, faults>>
  PROVE  SessionsServed'
BY NothingKept, OneServed DEF SessionsServed

\* A step of one request that is, or comes with, a fault.
LEMMA FaultServed ==
  ASSUME TypeOK, SessionsServed, NEW r \in Reqs, NEW q,
         req' = [req EXCEPT ![r] = q], KindOK(q), Fault, UNCHANGED <<opened, now>>
  PROVE  SessionsServed'
<1>1. faults' # 0 /\ OpenedOK'
  BY ConstantsOK DEF ConstantsOK, Fault, TypeOK, SessionsServed, OpenedOK
<1>2. QED
  BY <1>1, OneServed

LEMMA RespondServed ==
  ASSUME TypeOK, SessionsServed, NEW r \in Reqs, NEW code \in Codes,
         Respond(r, code), UNCHANGED <<redis, opened, now, faults>>,
         req[r].pc # "idle",
         faults = 0 /\ code = 200 /\ req[r].kind = "login" => Served(req[r]),
         faults = 0 /\ code = 401 /\ req[r].entitled => Over(req[r])
  PROVE  SessionsServed'
<1>0. req[r] \in Request /\ KindOK(req[r]) /\ (faults = 0 => ServedOK(req[r]))
  BY DEF TypeOK, SessionsServed
<1>1. PICK q : q = [req[r] EXCEPT !.pc = "done", !.reply = "none", !.code = code]
  OBVIOUS
<1>2. /\ q.pc = "done" /\ q.reply = "none" /\ q.code = code /\ q.kind = req[r].kind
      /\ q.cookie = req[r].cookie /\ q.token = req[r].token
      /\ q.entitled = req[r].entitled
  BY <1>0, <1>1, ZenonT(60) DEF Request
<1>3. KindOK(q)
  BY <1>0, <1>2 DEF KindOK
<1>4. faults = 0 => ServedOK(q)
  BY <1>0, <1>2 DEF ServedOK, Served, Over
<1>5. req' = [req EXCEPT ![r] = q]
  BY <1>1 DEF Respond
<1>6. QED
  BY <1>3, <1>4, <1>5, QuietServed

\* A request is refused late only if the login it stands on was answered early.
LEMMA StartServed ==
  ASSUME TypeOK, SessionsServed, NEW r \in Reqs, req[r].pc = "idle", Start(r)
  PROVE  SessionsServed'
<1> USE DEF stores, env
<1>1. /\ req[r] \in Request /\ req[r].kind = "token" /\ ~req[r].entitled
      /\ req[r].code = 0
  BY DEF TypeOK, SessionsServed, KindOK
<1>2. ASSUME NEW q, req' = [req EXCEPT ![r] = q], ~q.entitled, q.pc = "done",
             q.code # 200, UNCHANGED <<redis, opened, now, faults>>
      PROVE  SessionsServed'
  <2>1. KindOK(q) /\ ServedOK(q)
    BY <1>2 DEF KindOK, ServedOK
  <2>2. QED
    BY <1>2, <2>1, QuietServed
<1>3. ASSUME NEW q, req' = [req EXCEPT ![r] = q], ~q.entitled, q.code = 0,
             q.pc # "idle", q.pc # "openSession",
             q.pc = "registerLicense" => q.kind = "token",
             q.pc = "keepAccount" => q.kind = "keepAlive",
             q.pc \notin {"refreshAccount", "keepSession", "refreshSession"},
             UNCHANGED <<redis, opened, now, faults>>
      PROVE  SessionsServed'
  <2>1. KindOK(q) /\ ServedOK(q)
    BY <1>3 DEF KindOK, ServedOK
  <2>2. QED
    BY <1>3, <2>1, QuietServed
<1>4. CASE MissingParameters(r)
  <2> DEFINE code(kind) ==
        IF kind = "guarded" \/ (kind = "login" /\ filtered) THEN 401 ELSE 1000
  <2>1. PICK kind \in {"token", "login", "guarded"} :
          req' = [req EXCEPT ![r] = [@ EXCEPT !.pc = "done", !.kind = kind,
                                              !.code = code(kind)]]
    BY <1>4 DEF MissingParameters
  <2>2. code(kind) # 200
    OBVIOUS
  <2> HIDE DEF code
  <2>3. PICK q : q = [req[r] EXCEPT !.pc = "done", !.kind = kind, !.code = code(kind)]
    OBVIOUS
  <2>4. q.pc = "done" /\ q.code = code(kind) /\ ~q.entitled
    BY <1>1, <2>3, ZenonT(60) DEF Request
  <2>5. QED
    BY <1>2, <1>4, <2>1, <2>2, <2>3, <2>4 DEF MissingParameters
<1>5. CASE \E k \in Consumers, s \in Secrets, t \in Tokens : GetAccountToken(r, k, s, t)
  <2>1. PICK k \in Consumers, s \in Secrets, t \in Tokens : GetAccountToken(r, k, s, t)
    BY <1>5
  <2>2. CASE <<k, s>> \notin Licenses
    <3>1. PICK q : q = [req[r] EXCEPT !.pc = "done", !.code = 1001]
      OBVIOUS
    <3>2. q.pc = "done" /\ q.code # 200 /\ ~q.entitled
      BY <1>1, <3>1 DEF Request
    <3>3. QED
      BY <1>2, <2>1, <2>2, <3>1, <3>2 DEF GetAccountToken
  <2>3. CASE <<k, s>> \in Licenses
    <3>1. PICK q : q = SendSet([req[r] EXCEPT !.token = t], "registerLicense",
                               accountTokenKey(t), Consumer(k))
      OBVIOUS
    <3>2. /\ q.pc = "registerLicense" /\ q.code = 0 /\ ~q.entitled /\ q.kind = "token"
      BY <1>1, <3>1 DEF Request, SendSet
    <3>3. QED
      BY <1>3, <2>1, <2>3, <3>1, <3>2 DEF GetAccountToken
  <2>4. QED
    BY <2>2, <2>3
<1>6. CASE \E t \in Tokens, c \in Cookies : KeepAlive(r, t, c)
  <2>1. PICK t \in Tokens, c \in Cookies : KeepAlive(r, t, c)
    BY <1>6
  <2>2. PICK q : q = SendGet([req[r] EXCEPT !.kind = "keepAlive", !.token = t, !.cookie = c],
                             "keepAccount", accountTokenKey(t))
    OBVIOUS
  <2>3. q.pc = "keepAccount" /\ q.code = 0 /\ ~q.entitled /\ q.kind = "keepAlive"
    BY <1>1, <2>2 DEF Request, SendGet
  <2>4. QED
    BY <1>3, <2>1, <2>2, <2>3 DEF KeepAlive
<1>7. CASE \E t \in Tokens, c \in Cookies : Guarded(r, t, c)
  <2>1. PICK t \in Tokens, c \in Cookies : Guarded(r, t, c)
    BY <1>7
  <2>2. PICK b \in BOOLEAN : b = LoggedIn(t, c)
    BY DEF LoggedIn
  <2>3. PICK q : q = AskForSession([req[r] EXCEPT !.kind = "guarded", !.token = t,
                                                  !.cookie = c, !.entitled = b])
    OBVIOUS
  <2>4. /\ q.pc = "validateSession" /\ q.reply = "pending" /\ q.code = 0
        /\ q.kind = "guarded" /\ q.token = t /\ q.cookie = c /\ q.entitled = b
    BY <1>1, <2>3 DEF AskForSession, SendGet, Request
  <2>5. faults = 0 /\ b => Served(q)
    <3>1. SUFFICES ASSUME faults = 0, b PROVE Served(q)
      OBVIOUS
    <3>2. PICK o \in Reqs : /\ req[o].kind = "login" /\ req[o].code = 200
                            /\ req[o].token = t /\ req[o].cookie = c
      BY <2>2, <3>1 DEF LoggedIn
    <3>3. Served(req[o])
      BY <3>1, <3>2 DEF SessionsServed, ServedOK
    <3>4. QED
      BY <2>4, <3>2, <3>3 DEF Served
  <2>6. KindOK(q) /\ (faults = 0 => ServedOK(q))
    BY <2>4, <2>5 DEF KindOK, ServedOK
  <2>7. QED
    BY <2>1, <2>2, <2>3, <2>6, QuietServed DEF Guarded
<1>8. CASE \E t \in Tokens, c \in Cookies, u \in Users, p \in Passwords :
             Login(r, t, c, u, p)
  <2>1. PICK t \in Tokens, c \in Cookies, u \in Users, p \in Passwords :
          Login(r, t, c, u, p)
    BY <1>8
  <2>2. PICK l : l = [req[r] EXCEPT !.kind = "login", !.token = t, !.cookie = c,
                                    !.user = u, !.password = p]
    OBVIOUS
  <2>3. l \in Request /\ l.code = 0 /\ ~l.entitled /\ l.kind = "login"
    BY <1>1, <2>2 DEF Request, Kinds
  <2>4. PICK q : q = IF filtered THEN AskForSession(l) ELSE AskForAccount(l)
    OBVIOUS
  <2>5. /\ q.pc \in {"validateSession", "loginUser"}
        /\ q.code = 0 /\ ~q.entitled /\ q.kind = "login"
    BY <2>3, <2>4 DEF Request, AskForSession, AskForAccount, SendGet
  <2>6. QED
    BY <1>3, <2>1, <2>2, <2>4, <2>5 DEF Login
<1>9. QED
  BY <1>4, <1>5, <1>6, <1>7, <1>8 DEF Start

\* A command that is sent on the way: none of it is a login's last SET.
LEMMA SendServed ==
  ASSUME TypeOK, SessionsServed, NEW r \in Reqs, NEW q,
         req' = [req EXCEPT ![r] = q], UNCHANGED <<redis, opened, now, faults>>,
         q.pc \notin {"idle", "done", "openSession", "registerLicense"},
         q.pc \in {"keepAccount", "refreshAccount", "keepSession", "refreshSession"} =>
           q.kind = "keepAlive",
         ~q.entitled, q.code = 0
  PROVE  SessionsServed'
<1>1. KindOK(q) /\ ServedOK(q)
  BY DEF KindOK, ServedOK
<1>2. QED
  BY <1>1, QuietServed

LEMMA CallbackServed ==
  ASSUME TypeOK, SessionsServed, SessionsTraced, NEW r \in Reqs, Callback(r)
  PROVE  SessionsServed'
<1> USE DEF stores, env
<1>1. /\ req[r] \in Request /\ RequestTraced(req[r])
      /\ KindOK(req[r]) /\ (faults = 0 => ServedOK(req[r]))
  BY DEF TypeOK, SessionsTraced, SessionsServed
<1>2. CASE OnLastSet(r)
  <2>1. req[r].pc \in {"registerLicense", "openSession", "refreshSession"}
    BY <1>2 DEF OnLastSet
  <2>2. faults = 0 /\ req[r].kind = "login" /\ req[r].reply = "ok" => Served(req[r])
    BY <1>1, <2>1 DEF KindOK, ServedOK
  <2>3. QED
    BY <1>2, <2>1, <2>2, RespondServed, CodeType DEF OnLastSet
<1>3. CASE OnAccountFound(r)
  <2>1. CASE req[r].reply = "null"
    BY <1>3, <2>1, RespondServed, CodeType DEF OnAccountFound
  <2>2. CASE req[r].reply = "found"
    <3>1. PICK q : q = [req[r] EXCEPT !.pc = "findUser", !.reply = "pending"]
      OBVIOUS
    <3>2. q.pc = "findUser" /\ q.code = 0 /\ ~q.entitled
      BY <1>1, <1>3, <3>1 DEF OnAccountFound, Request, KindOK
    <3>3. QED
      BY <1>3, <2>2, <3>1, <3>2, SendServed DEF OnAccountFound
  <2>3. QED
    BY <1>3, <2>1, <2>2 DEF OnAccountFound
<1>4. CASE LoginRefused(r)
  BY <1>4, RespondServed, CodeType DEF LoginRefused
<1>5. CASE \E c \in Cookies : OpenSession(r, c)
  <2>1. PICK c \in Cookies : OpenSession(r, c)
    BY <1>5
  <2>2. PICK new : new = [cookie |-> c, token |-> req[r].token, user |-> req[r].user,
                          password |-> req[r].password, since |-> now]
    OBVIOUS
  <2>3. PICK q : q = SendSet([req[r] EXCEPT !.cookie = c], "openSession", ssoKey(c),
                             ssoValue(req[r].token, req[r].user))
    OBVIOUS
  <2>4. /\ opened' = opened \union {new} /\ \A s \in opened : s.cookie # c
        /\ req' = [req EXCEPT ![r] = q]
        /\ UNCHANGED <<redis, now, faults>>
    BY <2>1, <2>2, <2>3 DEF OpenSession
  <2>5. /\ q.pc = "openSession" /\ q.reply = "pending" /\ q.key = ssoKey(c)
        /\ q.cookie = c /\ q.token = req[r].token /\ q.code = 0 /\ ~q.entitled
    BY <1>1, <2>1, <2>3 DEF OpenSession, Back, SendSet, Request, KindOK
  <2>6. new.cookie = c /\ new.token = req[r].token /\ new.since = now /\ now \in Nat
    BY <2>2 DEF TypeOK
  <2>7. KindOK(q)
    BY <2>5 DEF KindOK
  <2>8. ServedOK(q)'
    BY <2>4, <2>5, <2>6 DEF ServedOK
  <2>9. OpenedOK'
    BY <2>4, <2>6 DEF SessionsServed, OpenedOK
  <2>10. SessionsKept
    BY <2>4 DEF SessionsKept, Expired, Held
  <2>11. QED
    BY <2>4, <2>7, <2>8, <2>9, <2>10, OneServed
<1>6. CASE OnKeepAccount(r)
  <2>1. CASE req[r].reply = "null"
    BY <1>6, <2>1, RespondServed, CodeType DEF OnKeepAccount
  <2>2. CASE req[r].reply = "found"
    <3>1. PICK q : q = SendSet(req[r], "refreshAccount", accountTokenKey(req[r].token),
                               req[r].value)
      OBVIOUS
    <3>2. q.pc = "refreshAccount" /\ q.code = 0 /\ ~q.entitled /\ q.kind = "keepAlive"
      BY <1>1, <1>6, <3>1 DEF OnKeepAccount, Request, KindOK, SendSet
    <3>3. QED
      BY <1>6, <2>2, <3>1, <3>2, SendServed DEF OnKeepAccount
  <2>3. QED
    BY <1>6, <2>1, <2>2 DEF OnKeepAccount
<1>7. CASE OnAccountRefreshed(r)
  <2>1. CASE req[r].reply = "failed"
    BY <1>7, <2>1, RespondServed, CodeType DEF OnAccountRefreshed
  <2>2. CASE req[r].reply = "ok"
    <3>1. PICK q : q = SendGet(req[r], "keepSession", ssoKey(req[r].cookie))
      OBVIOUS
    <3>2. q.pc = "keepSession" /\ q.code = 0 /\ ~q.entitled /\ q.kind = "keepAlive"
      BY <1>1, <1>7, <3>1 DEF OnAccountRefreshed, Request, KindOK, SendGet
    <3>3. QED
      BY <1>7, <2>2, <3>1, <3>2, SendServed DEF OnAccountRefreshed
  <2>3. QED
    BY <1>7, <2>1, <2>2 DEF OnAccountRefreshed
<1>8. CASE OnKeepSession(r)
  <2>1. CASE req[r].reply = "null"
    BY <1>8, <2>1, RespondServed, CodeType DEF OnKeepSession
  <2>2. CASE req[r].reply = "found"
    <3>1. PICK q : q = SendSet(req[r], "refreshSession", ssoKey(req[r].cookie),
                               req[r].value)
      OBVIOUS
    <3>2. q.pc = "refreshSession" /\ q.code = 0 /\ ~q.entitled /\ q.kind = "keepAlive"
      BY <1>1, <1>8, <3>1 DEF OnKeepSession, Request, KindOK, SendSet
    <3>3. QED
      BY <1>8, <2>2, <3>1, <3>2, SendServed DEF OnKeepSession
  <2>3. QED
    BY <1>8, <2>1, <2>2 DEF OnKeepSession
<1>9. CASE SessionAccepted(r)
  <2> DEFINE goesOn == AskForAccount([req[r] EXCEPT !.admitted = TRUE])
             code == IF req[r].kind = "login" THEN 1000 ELSE 200
             answered == [req[r] EXCEPT !.pc = "done", !.reply = "none", !.code = code,
                                        !.admitted = TRUE]
  <2>1. UNCHANGED <<redis, opened, now, faults>>
        /\ \/ req[r].kind = "login" /\ req' = [req EXCEPT ![r] = goesOn]
           \/ req' = [req EXCEPT ![r] = answered]
    BY <1>9 DEF SessionAccepted
  <2>2. CASE req[r].kind = "login" /\ req' = [req EXCEPT ![r] = goesOn]
    <3>1. PICK q : q = goesOn
      OBVIOUS
    <3>2. q.pc = "loginUser" /\ q.code = 0 /\ ~q.entitled
      BY <1>1, <1>9, <2>2, <3>1 DEF SessionAccepted, Back, AskForAccount, SendGet, Request, KindOK
    <3>3. QED
      BY <2>1, <2>2, <3>1, <3>2, SendServed
  <2>3. CASE req' = [req EXCEPT ![r] = answered]
    <3>1. PICK q : q = answered
      OBVIOUS
    <3>2. /\ q.pc = "done" /\ q.code = code /\ q.kind = req[r].kind
          /\ q.cookie = req[r].cookie /\ q.token = req[r].token
          /\ q.entitled = req[r].entitled
      BY <1>1, <3>1 DEF Request
    <3>3. KindOK(q) /\ (faults = 0 => ServedOK(q))
      BY <1>1, <3>2 DEF KindOK, ServedOK, Served
    <3>4. req' = [req EXCEPT ![r] = q] /\ UNCHANGED <<redis, opened, now, faults>>
      BY <2>1, <2>3, <3>1
    <3>5. QED
      BY <3>3, <3>4, QuietServed
  <2>4. QED
    BY <2>1, <2>2, <2>3
<1>10. CASE SessionRefused(r)
  <2>1. req[r].pc = "validateSession"
    BY <1>10 DEF SessionRefused
  <2>2. ASSUME faults = 0, req[r].entitled, req[r].reply = "found"
        PROVE  sessionMatches(r)
    <3>1. Traced(ssoKey(req[r].cookie), req[r].value)
      BY <1>1, <2>1, <2>2 DEF RequestTraced, Gets
    <3>2. PICK s \in opened : /\ ssoKey(req[r].cookie) = ssoKey(s.cookie)
                              /\ req[r].value = ssoValue(s.token, s.user)
      BY <3>1, KeysApart DEF Traced
    <3>3. PICK t \in opened : t.cookie = req[r].cookie /\ t.token = req[r].token
      BY <1>1, <2>2 DEF ServedOK, Served
    <3>4. s.cookie = t.cookie
      BY <3>2, <3>3 DEF ssoKey
    <3>5. s = t
      BY <3>4 DEF SessionsServed, OpenedOK
    <3>6. QED
      BY <3>2, <3>3, <3>5 DEF sessionMatches, ssoValue
  <2>3. faults = 0 /\ req[r].entitled => Over(req[r])
    BY <1>1, <1>10, <2>1, <2>2 DEF SessionRefused, ServedOK
  <2>4. QED
    BY <1>10, <2>1, <2>3, RespondServed, CodeType DEF SessionRefused
<1>11. QED
  BY <1>2, <1>3, <1>4, <1>5, <1>6, <1>7, <1>8, <1>9, <1>10 DEF Callback

\* A reply changes nothing but the reply.
LEMMA ReplyFields ==
  ASSUME NEW p \in Request, NEW what
  PROVE  LET q == [p EXCEPT !.reply = what] IN
         /\ q.reply = what /\ q.pc = p.pc /\ q.kind = p.kind /\ q.code = p.code
         /\ q.key = p.key /\ q.cookie = p.cookie /\ q.token = p.token
         /\ q.entitled = p.entitled
BY ZenonT(60) DEF Request

\* A SET gives a session its two hours anew, whoever asked for it.
LEMMA SetServed ==
  ASSUME TypeOK, SessionsServed, NEW r \in Reqs, SetKey(r)
  PROVE  SessionsServed'
<1>0. /\ req[r] \in Request /\ KindOK(req[r]) /\ (faults = 0 => ServedOK(req[r]))
      /\ req[r].pc \in Sets /\ req[r].reply = "pending"
  BY DEF TypeOK, SessionsServed, SetKey, Sent
<1>1. PICK what \in {"ok", "failed"} :
        /\ Reply(r, what)
        /\ IF what = "ok" THEN UNCHANGED faults ELSE Fault
  BY DEF SetKey
<1>2. PICK q : q = [req[r] EXCEPT !.reply = what]
  OBVIOUS
<1>3. /\ q.reply = what /\ q.pc = req[r].pc /\ q.kind = req[r].kind
      /\ q.code = req[r].code /\ q.key = req[r].key /\ q.cookie = req[r].cookie
      /\ q.token = req[r].token /\ q.entitled = req[r].entitled
  BY <1>0, <1>2, ReplyFields
<1>4. KindOK(q) /\ req' = [req EXCEPT ![r] = q] /\ UNCHANGED <<opened, now>>
  BY <1>0, <1>1, <1>2, <1>3 DEF KindOK, Reply, SetKey
<1>5. CASE what = "failed"
  BY <1>1, <1>4, <1>5, FaultServed
<1>6. CASE what = "ok"
  <2>1. PICK entry : entry = [key |-> req[r].key, value |-> req[r].value,
                              deadline |-> now + ttlOf(req[r].pc)]
    OBVIOUS
  <2>2. /\ redis' = {e \in redis : e.key # entry.key} \union {entry}
        /\ faults' = faults
    BY <1>1, <1>6, <2>1 DEF SetKey
  <2>3. /\ entry.key = req[r].key /\ entry.deadline \in Nat
        /\ entry.deadline >= now + SsoTtl
    BY <2>1, ConstantsOK DEF ConstantsOK, TypeOK, ttlOf
  <2>4. \A s \in opened : s.since \in Nat /\ s.since <= now /\ now \in Nat /\ SsoTtl \in Nat
    BY ConstantsOK DEF ConstantsOK, TypeOK, SessionsServed, OpenedOK
  <2>5. \A s \in opened : entry.key = ssoKey(s.cookie) => Held(s)'
    <3>1. \A s \in opened : entry.deadline >= s.since + SsoTtl
      BY <2>3, <2>4
    <3>2. entry \in redis'
      BY <2>2
    <3>3. QED
      BY <3>1, <3>2 DEF Held
  <2>6. SessionsKept
    <3>1. ASSUME NEW s \in opened, Held(s), entry.key # ssoKey(s.cookie)
          PROVE  Held(s)'
      BY <2>2, <3>1 DEF Held
    <3>2. QED
      BY <1>4, <2>5, <3>1 DEF SessionsKept, Expired
  <2>7. faults = 0 => ServedOK(q)'
    <3>1. SUFFICES ASSUME faults = 0 PROVE ServedOK(q)'
      OBVIOUS
    <3>2. \A p : Served(p) => Served(p)'
      BY <2>6, ServedStays
    <3>3. ASSUME q.pc = "openSession" PROVE Served(q)'
      <4>1. PICK s \in opened : s.cookie = q.cookie /\ s.token = q.token
        BY <1>0, <1>3, <3>1, <3>3 DEF ServedOK
      <4>2. entry.key = ssoKey(s.cookie)
        BY <1>0, <1>3, <2>3, <3>1, <3>3, <4>1 DEF ServedOK
      <4>3. Held(s)' /\ s \in opened'
        BY <1>4, <2>5, <4>2
      <4>4. QED
        BY <4>1, <4>3 DEF Served
    <3>4. Served(req[r]) => Served(q)
      BY <1>3 DEF Served
    <3>5. QED
      BY <1>0, <1>3, <1>4, <3>1, <3>2, <3>3, <3>4 DEF ServedOK, KindOK, Sets
  <2>8. OpenedOK'
    BY <1>4 DEF SessionsServed, OpenedOK
  <2>9. QED
    BY <1>4, <2>2, <2>6, <2>7, <2>8, OneServed
<1>7. QED
  BY <1>5, <1>6

\* A session that is not found any more has had its two hours.
LEMMA GetServed ==
  ASSUME TypeOK, SessionsServed, SessionsTraced, Client = "Contract",
         NEW r \in Reqs, GetKey(r)
  PROVE  SessionsServed'
<1>0. /\ req[r] \in Request /\ KindOK(req[r]) /\ (faults = 0 => ServedOK(req[r]))
      /\ RequestTraced(req[r]) /\ req[r].pc \in Gets /\ req[r].reply = "pending"
      /\ UNCHANGED <<redis, opened, now, faults>>
  BY DEF TypeOK, SessionsServed, SessionsTraced, GetKey, Sent, stores, env
<1>1. CASE \E e \in readable(r) :
             req' = [req EXCEPT ![r] = [@ EXCEPT !.reply = "found", !.value = e.value]]
  <2>1. PICK e \in readable(r) :
          req' = [req EXCEPT ![r] = [@ EXCEPT !.reply = "found", !.value = e.value]]
    BY <1>1
  <2>2. PICK q : q = [req[r] EXCEPT !.reply = "found", !.value = e.value]
    OBVIOUS
  <2>3. /\ q.reply = "found" /\ q.pc = req[r].pc /\ q.kind = req[r].kind
        /\ q.code = req[r].code /\ q.cookie = req[r].cookie
        /\ q.token = req[r].token /\ q.entitled = req[r].entitled
    BY <1>0, <2>2, ZenonT(60) DEF Request
  <2>4. KindOK(q) /\ (faults = 0 => ServedOK(q))
    BY <1>0, <2>3 DEF KindOK, ServedOK, Served, Over, Gets
  <2>5. QED
    BY <1>0, <2>1, <2>2, <2>4, QuietServed
<1>2. CASE Reply(r, "null") /\ readable(r) = {}
  <2>1. PICK q : q = [req[r] EXCEPT !.reply = "null"]
    OBVIOUS
  <2>2. /\ q.reply = "null" /\ q.pc = req[r].pc /\ q.kind = req[r].kind
        /\ q.code = req[r].code /\ q.cookie = req[r].cookie
        /\ q.token = req[r].token /\ q.entitled = req[r].entitled
    BY <1>0, <2>1, ReplyFields
  <2>3. ASSUME faults = 0, q.entitled, q.pc = "validateSession"
        PROVE  Over(q)
    <3>1. PICK s \in opened : /\ s.cookie = q.cookie /\ s.token = q.token
                              /\ Expired(s) \/ Held(s)
      BY <1>0, <2>2, <2>3 DEF ServedOK, Served
    <3>2. CASE Held(s)
      <4>1. PICK e \in redis : e.key = ssoKey(s.cookie) /\ e.deadline >= s.since + SsoTtl
        BY <3>2 DEF Held
      <4>2. req[r].key = ssoKey(s.cookie)
        BY <1>0, <2>2, <2>3, <3>1 DEF RequestTraced
      <4>3. ~Live(e)
        BY <1>2, <4>1, <4>2 DEF readable
      <4>4. e.deadline \in Nat /\ s.since \in Nat /\ SsoTtl \in Nat /\ now \in Nat
        BY ConstantsOK DEF ConstantsOK, TypeOK, Entry, Times
      <4>5. Expired(s)
        BY <4>1, <4>3, <4>4 DEF Live, Expired
      <4>6. QED
        BY <3>1, <4>5 DEF Over
    <3>3. QED
      BY <3>1, <3>2 DEF Over
  <2>4. KindOK(q) /\ (faults = 0 => ServedOK(q))
    BY <1>0, <2>2, <2>3 DEF KindOK, ServedOK, Served, Over, Gets
  <2>5. QED
    BY <1>0, <1>2, <2>1, <2>4, QuietServed DEF Reply
<1>3. QED
  BY <1>1, <1>2 DEF GetKey

LEMMA FindServed ==
  ASSUME TypeOK, SessionsServed, NEW r \in Reqs, FindUser(r)
  PROVE  SessionsServed'
<1>0. /\ req[r] \in Request /\ KindOK(req[r]) /\ (faults = 0 => ServedOK(req[r]))
      /\ req[r].pc = "findUser" /\ UNCHANGED <<redis, opened, now>>
  BY DEF TypeOK, SessionsServed, FindUser, Sent, stores
<1>1. PICK what : Reply(r, what) /\ (UNCHANGED faults \/ Fault)
  BY DEF FindUser
<1>2. PICK q : q = [req[r] EXCEPT !.reply = what]
  OBVIOUS
<1>3. /\ q.pc = "findUser" /\ q.kind = req[r].kind /\ q.code = req[r].code
      /\ q.cookie = req[r].cookie /\ q.token = req[r].token
      /\ q.entitled = req[r].entitled
  BY <1>0, <1>2, ReplyFields
<1>4. req' = [req EXCEPT ![r] = q] /\ KindOK(q) /\ (faults = 0 => ServedOK(q))
  BY <1>0, <1>1, <1>2, <1>3 DEF Reply, KindOK, ServedOK, Served
<1>5. QED
  BY <1>0, <1>1, <1>4, QuietServed, FaultServed

\* What fails is excused; what dies was not refused.
LEMMA LossServed ==
  ASSUME TypeOK, SessionsServed, Client = "Contract", LossStep
  PROVE  SessionsServed'
<1>1. /\ Fault /\ UNCHANGED <<opened, now>>
      /\ req' = [r \in Reqs |-> IF req[r].pc \in Waits
                                  THEN [req[r] EXCEPT !.pc = "lost", !.reply = "none"]
                                  ELSE req[r]]
  BY DEF LossStep, FormatCrash, Crash, ServerDies, stores
<1>2. faults' # 0 /\ OpenedOK'
  <2>1. Fault /\ faults \in 0 .. MaxFaults /\ MaxFaults \in Nat
    BY <1>1, ConstantsOK DEF ConstantsOK, TypeOK
  <2>2. faults' # 0
    BY ONLY <2>1, SMT DEF Fault
  <2>3. OpenedOK'
    BY <1>1 DEF SessionsServed, OpenedOK
  <2>4. QED
    BY <2>2, <2>3
<1>3. ASSUME NEW r \in Reqs PROVE KindOK(req[r])'
  <2>1. KindOK(req[r]) /\ req[r] \in Request
    BY DEF SessionsServed, TypeOK
  <2>2. req[r].pc \in Waits => KindOK([req[r] EXCEPT !.pc = "lost", !.reply = "none"])
    <3>1. PICK q : q = [req[r] EXCEPT !.pc = "lost", !.reply = "none"]
      OBVIOUS
    <3>2. /\ q.pc = "lost" /\ q.kind = req[r].kind /\ q.code = req[r].code
          /\ q.entitled = req[r].entitled
      BY <2>1, <3>1, ZenonT(60) DEF Request
    <3>3. req[r].pc \in Waits => KindOK(q)
      BY <2>1, <3>2 DEF KindOK, Waits, Gets, Sets
    <3>4. QED
      BY <3>1, <3>3
  <2>3. KindOK(req'[r])
    BY <1>1, <2>1, <2>2
  <2>4. QED
    BY <2>3 DEF KindOK
<1>4. QED
  BY <1>2, <1>3 DEF SessionsServed

LEMMA WorldServed ==
  ASSUME TypeOK, SessionsServed, WorldStep
  PROVE  SessionsServed'
<1> USE DEF stores, env
<1>1. CASE \E r \in Reqs : RedisFails(r)
  <2>1. PICK r \in Reqs : RedisFails(r)
    BY <1>1
  <2>2. PICK what \in {"null", "failed"} : Reply(r, what)
    BY <2>1 DEF RedisFails
  <2>3. PICK q : q = [req[r] EXCEPT !.reply = what]
    OBVIOUS
  <2>4. KindOK(req[r]) /\ req[r] \in Request
    BY DEF SessionsServed, TypeOK
  <2>5. q.pc = req[r].pc /\ q.kind = req[r].kind /\ q.code = req[r].code
        /\ q.entitled = req[r].entitled
    BY <2>3, <2>4, ReplyFields
  <2>6. KindOK(q)
    BY <2>4, <2>5 DEF KindOK
  <2>7. QED
    BY <2>1, <2>2, <2>3, <2>6, FaultServed DEF RedisFails, Reply
<1>2. ASSUME UNCHANGED <<req, opened>>, now' \in Nat, now' >= now,
             faults' = 0 => faults = 0 /\ SessionsKept
      PROVE  SessionsServed'
  <2>1. OpenedOK'
    BY <1>2 DEF SessionsServed, OpenedOK, TypeOK
  <2>2. ASSUME NEW r \in Reqs
        PROVE  KindOK(req[r])' /\ (faults' = 0 => ServedOK(req[r])')
    <3>1. PICK q : q = req[r]
      OBVIOUS
    <3>2. KindOK(q) /\ (faults = 0 => ServedOK(q))
      BY <3>1 DEF SessionsServed
    <3>3. faults' = 0 => ServedOK(q)'
      BY <1>2, <3>2, ServedStays
    <3>4. req'[r] = q
      BY <1>2, <3>1
    <3>5. QED
      BY <3>2, <3>3, <3>4 DEF KindOK
  <2>3. QED
    BY <2>1, <2>2 DEF SessionsServed
<1>3. now \in Nat /\ SsoTtl \in Nat /\ \A s \in opened : s.since \in Nat
  BY ConstantsOK DEF ConstantsOK, TypeOK
<1>4. CASE ExpireKey
  <2>1. PICK e \in redis : ~Live(e) /\ redis' = redis \ {e}
                           /\ UNCHANGED <<req, opened, now, faults>>
    BY <1>4 DEF ExpireKey
  <2>2. e.deadline \in Nat
    BY <2>1 DEF TypeOK, Entry, Times
  <2>3. ASSUME NEW s \in opened, Held(s) PROVE Expired(s)' \/ Held(s)'
    <3>1. PICK d \in redis : d.key = ssoKey(s.cookie) /\ d.deadline >= s.since + SsoTtl
      BY <2>3 DEF Held
    <3>2. CASE d = e
      BY <1>3, <2>1, <2>2, <3>1, <3>2 DEF Live, Expired
    <3>3. CASE d # e
      BY <2>1, <3>1, <3>3 DEF Held
    <3>4. QED
      BY <3>2, <3>3
  <2>4. SessionsKept
    BY <2>1, <2>3 DEF SessionsKept, Expired
  <2>5. QED
    BY <1>2, <1>3, <2>1, <2>4
<1>5. CASE RedisRestart
  <2>1. faults' # 0 /\ UNCHANGED <<req, opened, now>>
    BY <1>5 DEF RedisRestart, Fault, TypeOK
  <2>2. QED
    BY <1>2, <1>3, <2>1
<1>6. CASE Restart \/ (\E u \in Users : AccountChanges(u))
  <2>1. UNCHANGED <<req, redis, opened, now, faults>>
    BY <1>6 DEF Restart, AccountChanges
  <2>2. QED
    BY <1>2, <1>3, <2>1, NothingKept
<1>7. CASE Tick
  <2>1. now' = now + 1 /\ UNCHANGED <<req, redis, opened, faults>>
    BY <1>7 DEF Tick
  <2>2. SessionsKept
    BY <1>3, <2>1 DEF SessionsKept, Expired, Held
  <2>3. QED
    BY <1>2, <1>3, <2>1, <2>2
<1>8. QED
  BY <1>1, <1>4, <1>5, <1>6, <1>7 DEF WorldStep

\* Where the client reads the key it is asked for and nothing fails, a client that
\* logged in is not turned away while its session lasts, whatever keepAlive, expiry
\* and other clients do meanwhile.
THEOREM AnsweredSessionsAreAccepted ==
  ASSUME Client = "Contract"
  PROVE  Spec => []AnsweredSessionAccepted
<1>1. Init => SessionsServed
  BY DEF Init, SessionsServed, OpenedOK, KindOK, ServedOK, NewRequest
<1>2. TypeOK /\ SessionsTraced /\ SessionsServed /\ [Next]_vars => SessionsServed'
  <2>1. SUFFICES ASSUME TypeOK, SessionsTraced, SessionsServed, [Next]_vars
                 PROVE  SessionsServed'
    OBVIOUS
  <2>2. ASSUME NEW r \in Reqs, Start(r)
        PROVE  req[r].pc = "idle"
    BY <2>2 DEF Start, MissingParameters, GetAccountToken, KeepAlive, Guarded, Login
  <2>3. ASSUME NEW r \in Reqs, StoreStep(r)
        PROVE  SessionsServed'
    BY <2>1, <2>3, SetServed, GetServed, FindServed DEF StoreStep
  <2>4. CASE Next
    BY <2>1, <2>2, <2>3, <2>4, NextSplit, StartServed, CallbackServed, LossServed,
       WorldServed
  <2>5. CASE UNCHANGED vars
    BY <2>1, <2>5, NothingKept DEF vars, SessionsServed, KindOK
  <2>6. QED
    BY <2>1, <2>4, <2>5
<1>3. TypeOK /\ SessionsServed => AnsweredSessionAccepted
  BY DEF TypeOK, SessionsServed, ServedOK, Over, Expired, AnsweredSessionAccepted
<1>4. QED
  BY <1>1, <1>2, <1>3, TypeCorrect, SessionsAlwaysTraced, PTL DEF Spec

=============================================================================
