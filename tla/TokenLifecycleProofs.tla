----------------------- MODULE TokenLifecycleProofs -----------------------
(***************************************************************************)
(* What TokenLifecycle guarantees for every set of users, tokens and       *)
(* requests, every lifetime and every number of faults.                    *)
(***************************************************************************)
EXTENDS TokenLifecycle, TLAPS

-----------------------------------------------------------------------------
(* Type correctness. *)

LEMMA InitTypeOK == Init => TypeOK
<1> SUFFICES ASSUME Init PROVE TypeOK
  OBVIOUS
<1> USE ConstantsOK DEF ConstantsOK
<1>1. AnyUser \in Users /\ AnyToken \in Tokens /\ AnyPassword \in Passwords
  BY DEF AnyUser, AnyToken, AnyPassword
<1>2. 0 \in Times
  BY DEF Times
<1>3. NewRequest \in Request
  BY <1>1, <1>2 DEF NewRequest, Request, Pcs, Waits, Replies, Statuses
<1>4. req \in [Reqs -> Request]
  BY <1>3 DEF Init
<1>5. now \in 0 .. MaxTime /\ faults \in 0 .. MaxFaults
  BY DEF Init
<1>6. /\ users \in [Users -> UserStates]
      /\ rows \subseteq Row /\ redis \subseteq Hash /\ events \subseteq Keys
      /\ subscribed \in BOOLEAN /\ up \in BOOLEAN /\ issued \subseteq Row
  BY DEF Init
<1>7. QED
  BY <1>4, <1>5, <1>6 DEF TypeOK

\* A request that waits for a store keeps its type, whichever fields it notes.
LEMMA AwaitType ==
  ASSUME TypeOK, NEW r \in Reqs, NEW pc \in Waits
  PROVE  Await(r, pc) \in Request
BY ZenonT(60) DEF TypeOK, Await, Request, Pcs, Replies

\* So does one that is answered, or one that a store answers.
LEMMA RespondType ==
  ASSUME TypeOK, NEW r \in Reqs, NEW code \in Statuses, Respond(r, code)
  PROVE  req' \in [Reqs -> Request]
<1> DEFINE answered == [req[r] EXCEPT !.pc = "done", !.reply = "none", !.status = code]
<1>1. answered \in Request
  BY ZenonT(60) DEF TypeOK, Request, Pcs, Replies
<1>2. QED
  BY <1>1 DEF TypeOK, Respond

LEMMA ReplyType ==
  ASSUME TypeOK, NEW r \in Reqs, NEW what \in Replies, Reply(r, what)
  PROVE  req' \in [Reqs -> Request]
BY ZenonT(60) DEF TypeOK, Reply, Request

\* The expiry a row or a hash gets is an instant the model knows.
LEMMA ExpiryType ==
  ASSUME TypeOK
  PROVE  now + Ttl \in Times
BY ConstantsOK DEF ConstantsOK, TypeOK, Times

LEMMA HashType ==
  ASSUME NEW row \in Row, NEW deadline \in Times
  PROVE  savedHash(row, deadline) \in Hash
BY DEF savedHash, Hash, Row, savedKey, evalScriptArg, Plain, Keys, Values

LEMMA FaultType ==
  ASSUME TypeOK, Fault
  PROVE  faults' \in 0 .. MaxFaults
BY ConstantsOK DEF ConstantsOK, TypeOK, Fault

LEMMA TokenOfType ==
  ASSUME TypeOK, NEW r \in Reqs
  PROVE  tokenOf(r) \in Row
BY DEF TypeOK, tokenOf, Row, Request

LEMMA StartType ==
  ASSUME TypeOK, NEW r \in Reqs, Start(r)
  PROVE  TypeOK'
<1>1. CASE \E u \in Users, p \in Passwords : Login(r, u, p)
  <2>1. PICK u \in Users, p \in Passwords : Login(r, u, p)
    BY <1>1
  <2>2. Await(r, "findUser") \in Request
    BY AwaitType DEF Waits
  <2>3. req' \in [Reqs -> Request]
    BY <2>1, <2>2 DEF Login, TypeOK, Request
  <2>4. QED
    BY <2>1, <2>3 DEF Login, TypeOK, stores, server, env
<1>2. CASE \E u \in Users, t \in Tokens : GetInfo(r, u, t)
  <2>1. PICK u \in Users, t \in Tokens : GetInfo(r, u, t)
    BY <1>2
  <2>2. Await(r, "redisGet") \in Request
    BY AwaitType DEF Waits
  <2>3. AnsweredToken(t) \in BOOLEAN
    BY DEF AnsweredToken, Answered
  <2>4. req' \in [Reqs -> Request]
    BY <2>1, <2>2, <2>3 DEF GetInfo, TypeOK, Request
  <2>5. QED
    BY <2>1, <2>4 DEF GetInfo, TypeOK, stores, server, env
<1>3. QED
  BY <1>1, <1>2 DEF Start

LEMMA CallbackType ==
  ASSUME TypeOK, NEW r \in Reqs, Callback(r)
  PROVE  TypeOK'
<1> USE DEF stores, server, env, Statuses
<1>1. CASE \E t \in Tokens : CreateToken(r, t)
  <2>1. PICK t \in Tokens : CreateToken(r, t)
    BY <1>1
  <2>2. Await(r, "insertToken") \in Request
    BY AwaitType DEF Waits
  <2>3. req[r].user \in Users /\ expiresAfter(now) \in Times
    BY ExpiryType DEF TypeOK, Request, expiresAfter
  <2>4. req' \in [Reqs -> Request]
    BY <2>1, <2>2, <2>3, ZenonT(60) DEF CreateToken, TypeOK, Request
  <2>5. issued' \subseteq Row
    BY <2>1, <2>3 DEF CreateToken, TypeOK, Row
  <2>6. QED
    BY <2>1, <2>4, <2>5 DEF CreateToken, TypeOK
<1>2. ASSUME Validated(r)
      PROVE  req' \in [Reqs -> Request]
  <2>1. Await(r, "getUser") \in Request
    BY AwaitType DEF Waits
  <2>2. [Await(r, "getUser") EXCEPT !.validated = TRUE] \in Request
    BY <2>1, ZenonT(60) DEF Request
  <2>3. QED
    BY <1>2, <2>2 DEF Validated, TypeOK
<1>3. CASE AuthenticationFails(r)
  <2>1. req' \in [Reqs -> Request]
    BY <1>3, RespondType DEF AuthenticationFails
  <2>2. QED
    BY <1>3, <2>1 DEF AuthenticationFails, TypeOK
<1>4. CASE OnRowSaved(r)
  <2>1. Await(r, "redisSave") \in Request
    BY AwaitType DEF Waits
  <2>2. QED
    BY <1>4, <2>1 DEF OnRowSaved, TypeOK
<1>5. CASE OnRowSaveFailed(r)
  <2>1. req' \in [Reqs -> Request]
    BY <1>5, RespondType DEF OnRowSaveFailed
  <2>2. QED
    BY <1>5, <2>1 DEF OnRowSaveFailed, TypeOK
<1>6. CASE OnRedisSaved(r)
  <2>1. req' \in [Reqs -> Request]
    BY <1>6, RespondType DEF OnRedisSaved
  <2>2. QED
    BY <1>6, <2>1 DEF OnRedisSaved, TypeOK
<1>7. CASE OnRedisHit(r)
  <2>1. req' \in [Reqs -> Request]
    BY <1>7, <1>2, RespondType DEF OnRedisHit
  <2>2. QED
    BY <1>7, <2>1 DEF OnRedisHit, TypeOK
<1>8. CASE OnRedisMiss(r)
  <2>1. Await(r, "findToken") \in Request
    BY AwaitType DEF Waits
  <2>2. QED
    BY <1>8, <2>1 DEF OnRedisMiss, TypeOK
<1>9. CASE OnTokenFound(r)
  <2>1. req' \in [Reqs -> Request]
    BY <1>9, <1>2, RespondType DEF OnTokenFound
  <2>2. QED
    BY <1>9, <2>1 DEF OnTokenFound, TypeOK
<1>10. CASE OnTokenRefused(r)
  <2>1. req' \in [Reqs -> Request]
    BY <1>10, RespondType DEF OnTokenRefused
  <2>2. QED
    BY <1>10, <2>1 DEF OnTokenRefused, TypeOK
<1>11. CASE OnUserInfo(r)
  <2>1. req' \in [Reqs -> Request]
    BY <1>11, RespondType DEF OnUserInfo
  <2>2. QED
    BY <1>11, <2>1 DEF OnUserInfo, TypeOK
<1>12. QED
  BY <1>1, <1>3, <1>4, <1>5, <1>6, <1>7, <1>8, <1>9, <1>10, <1>11 DEF Callback

LEMMA StoreStepType ==
  ASSUME TypeOK, NEW r \in Reqs, StoreStep(r)
  PROVE  TypeOK'
<1> USE DEF stores, server, env
<1>1. CASE FindUser(r)
  <2>1. users[req[r].user] \in Replies
    BY DEF TypeOK, Request, Replies
  <2>2. req' \in [Reqs -> Request]
    BY <1>1, <2>1, ReplyType DEF FindUser
  <2>3. QED
    BY <1>1, <2>2 DEF FindUser, TypeOK
<1>2. CASE SaveRow(r)
  <2>1. req' \in [Reqs -> Request]
    BY <1>2, ReplyType DEF SaveRow, Replies
  <2>2. rows' \subseteq Row
    BY <1>2, TokenOfType DEF SaveRow, TypeOK
  <2>3. faults' \in 0 .. MaxFaults
    BY <1>2, FaultType DEF SaveRow, TypeOK
  <2>4. QED
    BY <1>2, <2>1, <2>2, <2>3 DEF SaveRow, TypeOK
<1>3. CASE FindToken(r)
  <2>1. CASE Reply(r, "absent")
    <3>1. req' \in [Reqs -> Request]
      BY <2>1, ReplyType DEF Replies, UserStates
    <3>2. QED
      BY <1>3, <3>1 DEF FindToken, TypeOK
  <2>2. CASE \E row \in rows :
               req' = [req EXCEPT ![r] = [@ EXCEPT !.reply = "found",
                                                   !.owner = row.user,
                                                   !.expiresAt = row.expiresAt]]
    <3>1. PICK row \in rows :
            req' = [req EXCEPT ![r] = [@ EXCEPT !.reply = "found",
                                                !.owner = row.user,
                                                !.expiresAt = row.expiresAt]]
      BY <2>2
    <3>2. row.user \in Users /\ row.expiresAt \in Times
      BY DEF TypeOK, Row
    <3>3. req' \in [Reqs -> Request]
      BY <3>1, <3>2, ZenonT(60) DEF TypeOK, Request, Replies
    <3>4. QED
      BY <1>3, <3>3 DEF FindToken, TypeOK
  <2>3. QED
    BY <1>3, <2>1, <2>2 DEF FindToken
<1>4. CASE SaveToRedis(r)
  <2>1. req' \in [Reqs -> Request]
    BY <1>4, ReplyType DEF SaveToRedis, Replies
  <2>2. savedHash(tokenOf(r), now + expireSeconds) \in Hash
    BY TokenOfType, ExpiryType, HashType DEF expireSeconds
  <2>3. redis' \subseteq Hash
    BY <1>4, <2>2 DEF SaveToRedis, TypeOK
  <2>4. faults' \in 0 .. MaxFaults
    BY <1>4, FaultType DEF SaveToRedis, TypeOK
  <2>5. QED
    BY <1>4, <2>1, <2>3, <2>4 DEF SaveToRedis, TypeOK
<1>5. CASE GetFromRedis(r)
  <2>1. CASE Reply(r, "null")
    <3>1. req' \in [Reqs -> Request]
      BY <2>1, ReplyType DEF Replies
    <3>2. QED
      BY <1>5, <3>1 DEF GetFromRedis, TypeOK
  <2>2. CASE \E h \in redis :
               req' = [req EXCEPT ![r] = [@ EXCEPT !.reply = "found",
                                                   !.owner = h.user_id.body]]
    <3>1. PICK h \in redis :
            req' = [req EXCEPT ![r] = [@ EXCEPT !.reply = "found",
                                                !.owner = h.user_id.body]]
      BY <2>2
    <3>2. h.user_id.body \in Users
      BY DEF TypeOK, Hash, Values
    <3>3. req' \in [Reqs -> Request]
      BY <3>1, <3>2, ZenonT(60) DEF TypeOK, Request, Replies
    <3>4. QED
      BY <1>5, <3>3 DEF GetFromRedis, TypeOK
  <2>3. QED
    BY <1>5, <2>1, <2>2 DEF GetFromRedis
<1>6. QED
  BY <1>1, <1>2, <1>3, <1>4, <1>5 DEF StoreStep

\* Every way the server dies leaves the requests well typed.
LEMMA ServerDiesType ==
  ASSUME TypeOK, ServerDies
  PROVE  /\ req' \in [Reqs -> Request]
         /\ up' \in BOOLEAN /\ subscribed' \in BOOLEAN /\ events' \subseteq Keys
<1>1. ASSUME NEW r \in Reqs
      PROVE  [req[r] EXCEPT !.pc = "lost", !.reply = "none"] \in Request
  BY ZenonT(60) DEF TypeOK, Request, Pcs, Replies
<1>2. QED
  BY <1>1 DEF ServerDies, TypeOK

LEMMA StoreFaultType ==
  ASSUME TypeOK, NEW r \in Reqs, StoreFault(r)
  PROVE  TypeOK'
<1> USE DEF stores, server, env
<1>1. CASE DatabaseFails(r)
  <2>1. req' \in [Reqs -> Request]
    BY <1>1, ReplyType DEF DatabaseFails, Replies
  <2>2. QED
    BY <1>1, <2>1, FaultType DEF DatabaseFails, TypeOK
<1>2. CASE RedisFails(r)
  <2>1. req' \in [Reqs -> Request]
    BY <1>2, ReplyType DEF RedisFails, Replies
  <2>2. QED
    BY <1>2, <2>1, FaultType DEF RedisFails, TypeOK
<1>3. CASE NullResultCrash(r)
  BY <1>3, ServerDiesType DEF NullResultCrash, TypeOK
<1>4. QED
  BY <1>1, <1>2, <1>3 DEF StoreFault

\* Expiry, cleanup, the process and the world around it.
WorldStep ==
  \/ Expiry \/ Cleanup \/ (\E m \in events : CleanupFails(m))
  \/ Subscribe \/ Crash \/ Restart \/ SubscriptionLost \/ RedisRestart
  \/ (\E u \in Users : AccountChanges(u))
  \/ Tick

LEMMA WorldType ==
  ASSUME TypeOK, WorldStep
  PROVE  TypeOK'
<1> USE DEF stores, server, env
<1>1. CASE Expiry
  <2>1. PICK h \in redis : ExpireKey(h)
    BY <1>1 DEF Expiry
  <2>2. events' \subseteq Keys
    BY <2>1 DEF ExpireKey, TypeOK, Hash
  <2>3. QED
    BY <2>1, <2>2 DEF ExpireKey, TypeOK
<1>2. CASE Cleanup
  BY <1>2 DEF Cleanup, HandleExpiration, expiredRows, TypeOK
<1>3. CASE \E m \in events : CleanupFails(m)
  BY <1>3, FaultType DEF CleanupFails, TypeOK
<1>4. CASE Subscribe
  BY <1>4 DEF Subscribe, TypeOK
<1>5. CASE Crash
  BY <1>5, FaultType, ServerDiesType DEF Crash, TypeOK
<1>6. CASE Restart
  BY <1>6 DEF Restart, TypeOK
<1>7. CASE SubscriptionLost
  BY <1>7, FaultType DEF SubscriptionLost, TypeOK
<1>8. CASE RedisRestart
  BY <1>8, FaultType DEF RedisRestart, TypeOK
<1>9. CASE \E u \in Users : AccountChanges(u)
  BY <1>9 DEF AccountChanges, TypeOK, UserStates
<1>10. CASE Tick
  BY <1>10, ConstantsOK DEF Tick, TypeOK, ConstantsOK
<1>11. QED
  BY <1>1, <1>2, <1>3, <1>4, <1>5, <1>6, <1>7, <1>8, <1>9, <1>10 DEF WorldStep

\* The next-state relation, split the way the lemmas are.
LEMMA NextSplit ==
  ASSUME Next
  PROVE  \/ \E r \in Reqs : Start(r) \/ Callback(r) \/ StoreStep(r) \/ StoreFault(r)
         \/ WorldStep
BY DEF Next, WorldStep

\* The tables, the keyspace and the requests always have the types of the code's
\* objects: no handler leaves a request half built.
THEOREM TypeCorrect == Spec => []TypeOK
<1>1. Init => TypeOK
  BY InitTypeOK
<1>2. TypeOK /\ [Next]_vars => TypeOK'
  <2> SUFFICES ASSUME TypeOK, [Next]_vars PROVE TypeOK'
    OBVIOUS
  <2>1. CASE UNCHANGED vars
    BY <2>1 DEF vars, TypeOK
  <2>2. CASE Next
    BY <2>2, NextSplit, StartType, CallbackType, StoreStepType, StoreFaultType,
       WorldType
  <2>3. QED
    BY <2>1, <2>2
<1>3. QED
  BY <1>1, <1>2, PTL DEF Spec

-----------------------------------------------------------------------------
(* The inductive invariant. *)

\* The row is in the database, or its time is over.
OnRecord(row) == row \in rows \/ row.expiresAt < now

\* createUserToken never built two rows for one token.
TokensUnique == \A g, h \in issued : g.token = h.token => g = h

RowsIssued == rows \subseteq issued

\* No row lives longer from now than a new one would.
LifetimesBounded == \A g \in issued : g.expiresAt <= now + Ttl

\* A hash in Redis copies an issued row that was written first, and its deadline
\* is not before the row's.
HashFollowsRow(h) ==
  \E g \in issued :
    /\ h.key = savedKey(g.token)
    /\ h.user_id.body = g.user
    /\ g.expiresAt <= h.deadline
    /\ OnRecord(g)

\* An expired-key message speaks of a row whose time is over.
EventLate(m) ==
  \E g \in issued : m = savedKey(g.token) /\ g.expiresAt < now

\* Which kind of request waits where, and what it has done by then.
KindOK(r) ==
  /\ req[r].pc \in {"findUser", "insertToken", "redisSave", "idle"} =>
       req[r].kind = "login"
  /\ req[r].pc \in {"redisGet", "findToken", "getUser"} => req[r].kind = "getInfo"
  /\ req[r].pc = "getUser" => req[r].validated
  /\ req[r].pc # "done" => req[r].status = 0
  /\ req[r].validated => /\ req[r].kind = "getInfo"
                         /\ req[r].pc \in {"getUser", "done", "lost"}
  /\ req[r].answered => req[r].kind = "getInfo"

\* A login has built its row from the INSERT on, and has it on record from the
\* moment the database confirmed it.
LoginOK(r) ==
  /\ req[r].pc \in {"insertToken", "redisSave"} => tokenOf(r) \in issued
  /\ Back(r, "insertToken", "saved") \/ req[r].pc = "redisSave" \/ Answered(r) =>
       tokenOf(r) \in issued /\ OnRecord(tokenOf(r))

\* What a store told a getInfo request about its token.
FoundOK(r) ==
  /\ Back(r, "redisGet", "found") =>
       /\ Client = "Contract"
       /\ \E g \in issued : g.token = req[r].token /\ g.user = req[r].owner
  /\ Back(r, "findToken", "found") =>
       \E g \in issued : /\ g.token = req[r].token
                         /\ g.user = req[r].owner
                         /\ g.expiresAt = req[r].expiresAt
                         /\ OnRecord(g)

\* A token that a login had answered when the request started.
AnsweredOK(r) ==
  req[r].answered =>
    \E g \in issued :
      /\ g.token = req[r].token
      /\ OnRecord(g)
      /\ Back(r, "findToken", "absent") => g.expiresAt < now
      /\ req[r].status = 401 => g.expiresAt < now
      /\ req[r].status = 403 => g.user # req[r].user

\* A validated request presented a token issued to its own user.
OwnerOK(r) ==
  req[r].validated =>
    \E g \in issued : g.token = req[r].token /\ g.user = req[r].user

RequestOK(r) ==
  KindOK(r) /\ LoginOK(r) /\ FoundOK(r) /\ AnsweredOK(r) /\ OwnerOK(r)

StoresOK ==
  /\ TokensUnique
  /\ RowsIssued
  /\ LifetimesBounded
  /\ \A h \in redis : HashFollowsRow(h)
  /\ \A m \in events : EventLate(m)

IInv ==
  /\ TypeOK
  /\ StoresOK
  /\ \A r \in Reqs : RequestOK(r)

-----------------------------------------------------------------------------
(* Steps that leave the tables alone, or only add to them. *)

\* What every step does to the facts the requests rely on: nothing issued is
\* forgotten, nothing on record goes off record, and time does not go back.
Monotone ==
  /\ issued \subseteq issued'
  /\ \A g \in issued : OnRecord(g) => OnRecord(g)'
  /\ \A g \in issued : g.expiresAt < now => g.expiresAt < now'

\* A request the step does not touch keeps its part of the invariant.
LEMMA RequestFrame ==
  ASSUME IInv, Monotone, NEW q \in Reqs, req'[q] = req[q]
  PROVE  RequestOK(q)'
<1>1. RequestOK(q)
  BY DEF IInv
<1>2. tokenOf(q)' = tokenOf(q)
  BY DEF tokenOf
<1>3. KindOK(q)'
  BY <1>1 DEF RequestOK, KindOK
<1>4. LoginOK(q)'
  BY <1>1, <1>2 DEF RequestOK, LoginOK, Monotone, Back, Answered
<1>5. FoundOK(q)'
  BY <1>1 DEF RequestOK, FoundOK, Monotone, Back
<1>6. AnsweredOK(q)'
  BY <1>1 DEF RequestOK, AnsweredOK, Monotone, Back
<1>7. OwnerOK(q)'
  BY <1>1 DEF RequestOK, OwnerOK, Monotone
<1>8. QED
  BY <1>3, <1>4, <1>5, <1>6, <1>7 DEF RequestOK

\* A step that touches neither the tables nor Redis nor the messages nor the clock
\* keeps their part.
LEMMA StoresFrame ==
  ASSUME IInv, UNCHANGED <<rows, redis, issued, events, now>>
  PROVE  StoresOK' /\ Monotone
BY DEF IInv, StoresOK, TokensUnique, RowsIssued, LifetimesBounded, HashFollowsRow, EventLate, OnRecord,
       Monotone

\* Such a step, when it changes request r alone, has only r to answer for.
LEMMA RequestStep ==
  ASSUME IInv, TypeOK', UNCHANGED <<rows, redis, issued, events, now>>,
         NEW r \in Reqs, NEW new, req' = [req EXCEPT ![r] = new], RequestOK(r)'
  PROVE  IInv'
<1>1. StoresOK' /\ Monotone
  BY StoresFrame
<1>2. ASSUME NEW q \in Reqs
      PROVE  RequestOK(q)'
  <2>1. CASE q = r
    BY <2>1
  <2>2. CASE q # r
    <3>1. req'[q] = req[q]
      BY <2>2 DEF IInv, TypeOK
    <3>2. QED
      BY <3>1, <1>1, RequestFrame
  <2>3. QED
    BY <2>1, <2>2
<1>3. QED
  BY <1>1, <1>2 DEF IInv

\* Answering a request that waited: what the answer must rest on.
LEMMA RespondStep ==
  ASSUME IInv, TypeOK', UNCHANGED <<rows, redis, issued, events, now>>,
         NEW r \in Reqs, NEW code, Respond(r, code), req[r].pc \in Waits,
         req[r].kind = "login" /\ code = 200 =>
           tokenOf(r) \in issued /\ OnRecord(tokenOf(r)),
         req[r].answered => \A g \in issued :
           g.token = req[r].token => /\ code = 401 => g.expiresAt < now
                                     /\ code = 403 => g.user # req[r].user
  PROVE  IInv'
<1>1. req'[r] = [req[r] EXCEPT !.pc = "done", !.reply = "none", !.status = code]
  BY DEF Respond, IInv, TypeOK
<1>2. /\ req'[r].pc = "done" /\ req'[r].reply = "none" /\ req'[r].status = code
      /\ req'[r].kind = req[r].kind /\ req'[r].user = req[r].user
      /\ req'[r].token = req[r].token /\ req'[r].expiresAt = req[r].expiresAt
      /\ req'[r].validated = req[r].validated /\ req'[r].answered = req[r].answered
  BY <1>1 DEF IInv, TypeOK, Request
<1>3. tokenOf(r)' = tokenOf(r)
  BY <1>2 DEF tokenOf
<1>4. RequestOK(r)
  BY DEF IInv
<1>5. KindOK(r)'
  BY <1>2, <1>4 DEF RequestOK, KindOK, Waits
<1>6. LoginOK(r)'
  BY <1>2, <1>3 DEF LoginOK, Back, Answered, OnRecord
<1>7. FoundOK(r)'
  BY <1>2 DEF FoundOK, Back
<1>8. AnsweredOK(r)'
  BY <1>2, <1>4 DEF RequestOK, AnsweredOK, Back, OnRecord
<1>9. OwnerOK(r)'
  BY <1>2, <1>4 DEF RequestOK, OwnerOK
<1>10. QED
  BY <1>5, <1>6, <1>7, <1>8, <1>9, RequestStep DEF RequestOK, Respond

\* Sending a getInfo request on to its next store after validation.
LEMMA ValidatedStep ==
  ASSUME IInv, TypeOK', UNCHANGED <<rows, redis, issued, events, now>>,
         NEW r \in Reqs, Validated(r), req[r].pc \in {"redisGet", "findToken"},
         \E g \in issued : g.token = req[r].token /\ g.user = req[r].user
  PROVE  IInv'
<1>1. /\ req'[r].pc = "getUser" /\ req'[r].reply = "pending"
      /\ req'[r].status = req[r].status /\ req'[r].kind = req[r].kind
      /\ req'[r].user = req[r].user /\ req'[r].token = req[r].token
      /\ req'[r].validated /\ req'[r].answered = req[r].answered
  BY DEF Validated, Await, IInv, TypeOK, Request
<1>2. RequestOK(r)
  BY DEF IInv
<1>3. KindOK(r)'
  BY <1>1, <1>2 DEF RequestOK, KindOK
<1>4. LoginOK(r)'
  BY <1>1, <1>2 DEF RequestOK, KindOK, LoginOK, Back, Answered
<1>5. FoundOK(r)'
  BY <1>1 DEF FoundOK, Back
<1>6. AnsweredOK(r)'
  BY <1>1, <1>2 DEF RequestOK, AnsweredOK, Back, OnRecord
<1>7. OwnerOK(r)'
  BY <1>1 DEF OwnerOK
<1>8. QED
  BY <1>3, <1>4, <1>5, <1>6, <1>7, RequestStep DEF RequestOK, Validated

-----------------------------------------------------------------------------
(* The invariant is inductive: one lemma for each group of actions. *)

LEMMA InitInv == Init => IInv
<1> SUFFICES ASSUME Init PROVE IInv
  OBVIOUS
<1>1. TypeOK
  BY InitTypeOK
<1>2. StoresOK
  BY DEF Init, StoresOK, TokensUnique, RowsIssued, LifetimesBounded
<1>3. ASSUME NEW r \in Reqs PROVE RequestOK(r)
  BY DEF Init, NewRequest, RequestOK, KindOK, LoginOK, FoundOK, AnsweredOK,
         OwnerOK, Back, Answered
<1>4. QED
  BY <1>1, <1>2, <1>3 DEF IInv

\* A token that some login answered is issued and on record.
LEMMA AnsweredTokenOnRecord ==
  ASSUME IInv, NEW t \in Tokens, AnsweredToken(t)
  PROVE  \E g \in issued : g.token = t /\ OnRecord(g)
<1>1. PICK r \in Reqs : Answered(r) /\ req[r].token = t
  BY DEF AnsweredToken
<1>2. tokenOf(r) \in issued /\ OnRecord(tokenOf(r))
  BY <1>1 DEF IInv, RequestOK, LoginOK
<1>3. tokenOf(r).token = t
  BY <1>1 DEF tokenOf
<1>4. QED
  BY <1>2, <1>3

LEMMA StartInv ==
  ASSUME IInv, NEW r \in Reqs, Start(r)
  PROVE  IInv'
<1> USE DEF stores, server, env
<1>1. TypeOK'
  BY StartType DEF IInv
<1>2. RequestOK(r)
  BY DEF IInv
<1>3. CASE \E u \in Users, p \in Passwords : Login(r, u, p)
  <2>1. PICK u \in Users, p \in Passwords : Login(r, u, p)
    BY <1>3
  <2>2. /\ req'[r].pc = "findUser" /\ req'[r].reply = "pending"
        /\ req'[r].status = req[r].status /\ req'[r].kind = "login"
        /\ req'[r].validated = req[r].validated
        /\ req'[r].answered = req[r].answered
    BY <2>1 DEF Login, Await, IInv, TypeOK, Request
  <2>3. RequestOK(r)'
    BY <1>2, <2>1, <2>2 DEF Login, RequestOK, KindOK, LoginOK, FoundOK, AnsweredOK,
       OwnerOK, Back, Answered
  <2>4. QED
    BY <1>1, <2>1, <2>3, RequestStep DEF Login
<1>4. CASE \E u \in Users, t \in Tokens : GetInfo(r, u, t)
  <2>1. PICK u \in Users, t \in Tokens : GetInfo(r, u, t)
    BY <1>4
  <2>2. /\ req'[r].pc = "redisGet" /\ req'[r].reply = "pending"
        /\ req'[r].status = req[r].status /\ req'[r].kind = "getInfo"
        /\ req'[r].validated = req[r].validated /\ req'[r].token = t
        /\ req'[r].answered = AnsweredToken(t)
    BY <2>1 DEF GetInfo, Await, IInv, TypeOK, Request
  <2>3. req[r].status = 0 /\ ~req[r].validated
    BY <1>2, <2>1 DEF GetInfo, RequestOK, KindOK
  <2>4. AnsweredOK(r)'
    <3>1. AnsweredToken(t) => \E g \in issued : g.token = t /\ OnRecord(g)
      BY AnsweredTokenOnRecord
    <3>2. UNCHANGED <<issued, rows, now>>
      BY <2>1 DEF GetInfo
    <3>3. \A g \in issued : OnRecord(g)' <=> OnRecord(g)
      BY <3>2 DEF OnRecord
    <3>4. QED
      BY <2>2, <2>3, <3>1, <3>2, <3>3 DEF AnsweredOK, Back
  <2>5. KindOK(r)' /\ LoginOK(r)' /\ FoundOK(r)' /\ OwnerOK(r)'
    BY <2>2, <2>3 DEF KindOK, LoginOK, FoundOK, OwnerOK, Back, Answered
  <2>6. QED
    BY <1>1, <2>1, <2>4, <2>5, RequestStep DEF GetInfo, RequestOK
<1>5. QED
  BY <1>3, <1>4 DEF Start

LEMMA CallbackInv ==
  ASSUME IInv, NEW r \in Reqs, Callback(r)
  PROVE  IInv'
<1> USE DEF stores, server, env
<1>1. TypeOK'
  BY CallbackType DEF IInv
<1>2. RequestOK(r) /\ StoresOK /\ TypeOK
  BY DEF IInv
<1>3. CASE AuthenticationFails(r)
  <2>1. ~req[r].answered /\ req[r].pc \in Waits
    BY <1>2, <1>3 DEF AuthenticationFails, RequestOK, KindOK, Waits
  <2>2. PICK code \in {401, 403, 500} : Respond(r, code)
    BY <1>3 DEF AuthenticationFails
  <2>3. QED
    BY <1>1, <1>3, <2>1, <2>2, RespondStep DEF AuthenticationFails
<1>4. CASE \E t \in Tokens : CreateToken(r, t)
  <2>1. PICK t \in Tokens : CreateToken(r, t)
    BY <1>4
  <2> DEFINE new == [token |-> t, user |-> req[r].user, expiresAt |-> expiresAfter(now)]
  <2>2. issued' = issued \union {new} /\ \A g \in issued : g.token # t
    BY <2>1 DEF CreateToken, freshTokens
  <2>3. Monotone
    BY <2>1, <2>2 DEF CreateToken, Monotone, OnRecord
  <2>4. StoresOK'
    <3>1. TokensUnique'
      BY <1>2, <2>2 DEF StoresOK, TokensUnique
    <3>2. RowsIssued'
      BY <1>2, <2>1, <2>2 DEF StoresOK, RowsIssued, CreateToken
    <3>3. \A h \in redis' : HashFollowsRow(h)'
      BY <1>2, <2>1, <2>2 DEF StoresOK, HashFollowsRow, OnRecord, CreateToken
    <3>4. \A m \in events' : EventLate(m)'
      BY <1>2, <2>1, <2>2 DEF StoresOK, EventLate, CreateToken
    <3>5. LifetimesBounded'
      BY <1>2, <2>1, <2>2, ConstantsOK
         DEF StoresOK, LifetimesBounded, CreateToken, expiresAfter, TypeOK, ConstantsOK
    <3>6. QED
      BY <3>1, <3>2, <3>3, <3>4, <3>5 DEF StoresOK
  <2>5. /\ req'[r].pc = "insertToken" /\ req'[r].reply = "pending"
        /\ req'[r].user = req[r].user /\ req'[r].token = t
        /\ req'[r].expiresAt = expiresAfter(now)
        /\ req'[r].status = req[r].status /\ req'[r].kind = req[r].kind
        /\ req'[r].validated = req[r].validated /\ req'[r].answered = req[r].answered
    BY <1>2, <2>1 DEF CreateToken, Await, TypeOK, Request
  <2>6. req[r].kind = "login" /\ req[r].status = 0 /\ ~req[r].validated /\ ~req[r].answered
    BY <1>2, <2>1 DEF CreateToken, Back, RequestOK, KindOK
  <2>7. tokenOf(r)' = new
    BY <2>5 DEF tokenOf
  <2>8. RequestOK(r)'
    BY <2>2, <2>5, <2>6, <2>7
       DEF RequestOK, KindOK, LoginOK, FoundOK, AnsweredOK, OwnerOK, Back, Answered
  <2>9. ASSUME NEW q \in Reqs, q # r
        PROVE  RequestOK(q)'
    <3>1. req'[q] = req[q]
      BY <1>2, <2>1, <2>9 DEF CreateToken, TypeOK
    <3>2. QED
      BY <2>3, <3>1, RequestFrame
  <2>10. QED
    BY <1>1, <2>4, <2>8, <2>9 DEF IInv
<1>5. CASE OnRowSaved(r)
  <2>1. /\ req'[r].pc = "redisSave" /\ req'[r].reply = "pending"
        /\ req'[r].user = req[r].user /\ req'[r].token = req[r].token
        /\ req'[r].expiresAt = req[r].expiresAt
        /\ req'[r].status = req[r].status /\ req'[r].kind = req[r].kind
        /\ req'[r].validated = req[r].validated /\ req'[r].answered = req[r].answered
    BY <1>2, <1>5 DEF OnRowSaved, Await, TypeOK, Request
  <2>2. tokenOf(r)' = tokenOf(r)
    BY <2>1 DEF tokenOf
  <2>3. UNCHANGED <<rows, redis, issued, events, now>>
    BY <1>5 DEF OnRowSaved
  <2>4. /\ req[r].kind = "login" /\ req[r].status = 0
        /\ ~req[r].validated /\ ~req[r].answered
    BY <1>2, <1>5 DEF OnRowSaved, Back, RequestOK, KindOK
  <2>5. tokenOf(r) \in issued /\ OnRecord(tokenOf(r))
    BY <1>2, <1>5 DEF OnRowSaved, RequestOK, LoginOK
  <2>6. LoginOK(r)'
    BY <2>2, <2>3, <2>5 DEF LoginOK, OnRecord
  <2>7. KindOK(r)' /\ FoundOK(r)' /\ AnsweredOK(r)' /\ OwnerOK(r)'
    BY <2>1, <2>4 DEF KindOK, FoundOK, AnsweredOK, OwnerOK, Back
  <2>8. QED
    BY <1>1, <1>5, <2>3, <2>6, <2>7, RequestStep DEF OnRowSaved, RequestOK
<1>6. CASE OnRowSaveFailed(r)
  <2>1. ~req[r].answered /\ req[r].pc \in Waits
    BY <1>2, <1>6 DEF OnRowSaveFailed, Back, RequestOK, KindOK, Waits
  <2>2. QED
    BY <1>1, <1>6, <2>1, RespondStep DEF OnRowSaveFailed
<1>7. CASE OnRedisSaved(r)
  <2>1. ~req[r].answered /\ req[r].pc \in Waits
    BY <1>2, <1>7 DEF OnRedisSaved, RequestOK, KindOK, Waits
  <2>2. tokenOf(r) \in issued /\ OnRecord(tokenOf(r))
    BY <1>2, <1>7 DEF OnRedisSaved, RequestOK, LoginOK
  <2>3. QED
    BY <1>1, <1>7, <2>1, <2>2, RespondStep DEF OnRedisSaved
<1>8. CASE OnRedisHit(r)
  <2>1. PICK g \in issued : g.token = req[r].token /\ g.user = req[r].owner
    BY <1>2, <1>8 DEF OnRedisHit, RequestOK, FoundOK
  <2>2. req[r].kind = "getInfo" /\ req[r].pc \in Waits
    BY <1>2, <1>8 DEF OnRedisHit, Back, RequestOK, KindOK, Waits
  <2>3. CASE req[r].owner = req[r].user /\ Validated(r)
    BY <1>1, <1>8, <2>1, <2>3, ValidatedStep DEF OnRedisHit, Back
  <2>4. CASE req[r].owner # req[r].user /\ Respond(r, 403)
    <3>1. \A h \in issued : h.token = req[r].token => h.user # req[r].user
      BY <1>2, <2>1, <2>4 DEF StoresOK, TokensUnique
    <3>2. QED
      BY <1>1, <1>8, <2>2, <2>4, <3>1, RespondStep DEF OnRedisHit
  <2>5. QED
    BY <1>8, <2>3, <2>4 DEF OnRedisHit
<1>9. CASE OnRedisMiss(r)
  <2>1. /\ req'[r].pc = "findToken" /\ req'[r].reply = "pending"
        /\ req'[r].user = req[r].user /\ req'[r].token = req[r].token
        /\ req'[r].status = req[r].status /\ req'[r].kind = req[r].kind
        /\ req'[r].validated = req[r].validated /\ req'[r].answered = req[r].answered
    BY <1>2, <1>9 DEF OnRedisMiss, Await, TypeOK, Request
  <2>2. UNCHANGED <<rows, redis, issued, events, now>>
    BY <1>9 DEF OnRedisMiss
  <2>3. req[r].kind = "getInfo" /\ req[r].status = 0 /\ ~req[r].validated
    BY <1>2, <1>9 DEF OnRedisMiss, Back, RequestOK, KindOK
  <2>4. AnsweredOK(r)'
    BY <1>2, <2>1, <2>2, <2>3 DEF RequestOK, AnsweredOK, Back, OnRecord
  <2>5. KindOK(r)' /\ LoginOK(r)' /\ FoundOK(r)' /\ OwnerOK(r)'
    BY <2>1, <2>3 DEF KindOK, LoginOK, FoundOK, OwnerOK, Back, Answered
  <2>6. QED
    BY <1>1, <1>9, <2>2, <2>4, <2>5, RequestStep DEF OnRedisMiss, RequestOK
<1>10. CASE OnTokenFound(r)
  <2>1. PICK g \in issued : /\ g.token = req[r].token
                            /\ g.user = req[r].owner
                            /\ g.expiresAt = req[r].expiresAt
    BY <1>2, <1>10 DEF OnTokenFound, RequestOK, FoundOK
  <2>2. \A h \in issued : h.token = req[r].token => h = g
    BY <1>2, <2>1 DEF StoresOK, TokensUnique
  <2>3. req[r].kind = "getInfo" /\ req[r].pc = "findToken" /\ req[r].pc \in Waits
    BY <1>2, <1>10 DEF OnTokenFound, Back, RequestOK, KindOK, Waits
  <2>4. CASE isExpired(r) /\ Respond(r, 401)
    <3>1. g.expiresAt < now
      BY <2>1, <2>4 DEF isExpired
    <3>2. QED
      BY <1>1, <1>10, <2>2, <2>3, <2>4, <3>1, RespondStep DEF OnTokenFound
  <2>5. CASE req[r].owner # req[r].user /\ Respond(r, 403)
    BY <1>1, <1>10, <2>1, <2>2, <2>3, <2>5, RespondStep DEF OnTokenFound
  <2>6. CASE req[r].owner = req[r].user /\ Validated(r)
    BY <1>1, <1>10, <2>1, <2>3, <2>6, ValidatedStep DEF OnTokenFound
  <2>7. QED
    BY <1>10, <2>4, <2>5, <2>6 DEF OnTokenFound
<1>11. CASE OnTokenRefused(r)
  <2>1. req[r].kind = "getInfo" /\ req[r].pc = "findToken" /\ req[r].pc \in Waits
    BY <1>2, <1>11 DEF OnTokenRefused, RequestOK, KindOK, Waits
  <2>2. CASE req[r].reply = "absent" /\ Respond(r, 401)
    <3>1. req[r].answered =>
            \A g \in issued : g.token = req[r].token => g.expiresAt < now
      BY <1>2, <2>1, <2>2 DEF RequestOK, AnsweredOK, Back, StoresOK, TokensUnique
    <3>2. QED
      BY <1>1, <1>11, <2>1, <2>2, <3>1, RespondStep DEF OnTokenRefused
  <2>3. CASE Respond(r, 500)
    BY <1>1, <1>11, <2>1, <2>3, RespondStep DEF OnTokenRefused
  <2>4. QED
    BY <1>11, <2>2, <2>3 DEF OnTokenRefused
<1>12. CASE OnUserInfo(r)
  <2>1. req[r].kind = "getInfo" /\ req[r].pc \in Waits
    BY <1>2, <1>12 DEF OnUserInfo, RequestOK, KindOK, Waits
  <2>2. PICK code \in {200, 404, 500} : Respond(r, code)
    BY <1>12 DEF OnUserInfo
  <2>3. QED
    BY <1>1, <1>12, <2>1, <2>2, RespondStep DEF OnUserInfo
<1>13. QED
  BY <1>3, <1>4, <1>5, <1>6, <1>7, <1>8, <1>9, <1>10, <1>11, <1>12 DEF Callback

\* A request whose reply arrives, when that is all that happens to it.
LEMMA ReplyRequest ==
  ASSUME IInv, Monotone, NEW r \in Reqs, NEW what, Reply(r, what),
         req[r].pc = "insertToken" /\ what = "saved" =>
           tokenOf(r) \in rows' \/ req[r].expiresAt < now',
         what = "found" => req[r].pc \notin {"redisGet", "findToken"},
         req[r].pc = "findToken" /\ what = "absent" =>
           \A g \in rows : g.token # req[r].token
  PROVE  RequestOK(r)'
<1>1. /\ req'[r].pc = req[r].pc /\ req'[r].reply = what
      /\ req'[r].status = req[r].status /\ req'[r].kind = req[r].kind
      /\ req'[r].user = req[r].user /\ req'[r].token = req[r].token
      /\ req'[r].expiresAt = req[r].expiresAt
      /\ req'[r].validated = req[r].validated /\ req'[r].answered = req[r].answered
  BY DEF Reply, IInv, TypeOK, Request
<1>2. RequestOK(r)
  BY DEF IInv
<1>3. tokenOf(r)' = tokenOf(r) /\ tokenOf(r).expiresAt = req[r].expiresAt
  BY <1>1 DEF tokenOf
<1>4. KindOK(r)' /\ OwnerOK(r)'
  BY <1>1, <1>2 DEF RequestOK, KindOK, OwnerOK, Monotone
<1>5. LoginOK(r)'
  <2>1. Answered(r)' <=> Answered(r)
    BY <1>1 DEF Answered
  <2>2. req[r].pc \in {"insertToken", "redisSave"} => tokenOf(r) \in issued'
    BY <1>2 DEF RequestOK, LoginOK, Monotone
  <2>3. req[r].pc = "redisSave" \/ Answered(r) =>
          tokenOf(r) \in issued' /\ OnRecord(tokenOf(r))'
    BY <1>2, <1>3 DEF RequestOK, LoginOK, Monotone
  <2>4. Back(r, "insertToken", "saved")' =>
          tokenOf(r) \in issued' /\ OnRecord(tokenOf(r))'
    BY <1>1, <1>3, <2>2 DEF Back, OnRecord
  <2>5. QED
    BY <1>1, <1>3, <2>1, <2>2, <2>3, <2>4 DEF LoginOK
<1>6. FoundOK(r)'
  BY <1>1 DEF FoundOK, Back
<1>7. AnsweredOK(r)'
  <2> SUFFICES ASSUME req[r].answered PROVE AnsweredOK(r)'
    BY <1>1 DEF AnsweredOK
  <2>1. PICK g \in issued : /\ g.token = req[r].token /\ OnRecord(g)
                            /\ req[r].status = 401 => g.expiresAt < now
                            /\ req[r].status = 403 => g.user # req[r].user
    BY <1>2 DEF RequestOK, AnsweredOK
  <2>2. req[r].pc = "findToken" /\ what = "absent" => g.expiresAt < now
    BY <2>1 DEF OnRecord
  <2>3. QED
    BY <1>1, <2>1, <2>2 DEF AnsweredOK, Back, Monotone
<1>8. QED
  BY <1>4, <1>5, <1>6, <1>7 DEF RequestOK

\* A step that changes request r and keeps the tables' part has only r to answer for.
LEMMA OneRequest ==
  ASSUME IInv, TypeOK', StoresOK', Monotone, NEW r \in Reqs, RequestOK(r)',
         \A q \in Reqs : q # r => req'[q] = req[q]
  PROVE  IInv'
<1>1. ASSUME NEW q \in Reqs
      PROVE  RequestOK(q)'
  BY RequestFrame
<1>2. QED
  BY <1>1 DEF IInv

LEMMA ReplyOthers ==
  ASSUME TypeOK, NEW r \in Reqs, NEW what, Reply(r, what)
  PROVE  \A q \in Reqs : q # r => req'[q] = req[q]
BY DEF TypeOK, Reply

LEMMA StoreStepInv ==
  ASSUME IInv, NEW r \in Reqs, StoreStep(r)
  PROVE  IInv'
<1> USE DEF stores, server, env
<1>1. TypeOK'
  BY StoreStepType DEF IInv
<1>2. RequestOK(r) /\ StoresOK /\ TypeOK
  BY DEF IInv
<1>3. CASE FindUser(r)
  <2>1. UNCHANGED <<rows, redis, issued, events, now>>
    BY <1>3 DEF FindUser
  <2>2. StoresOK' /\ Monotone
    BY <2>1, StoresFrame
  <2>3. users[req[r].user] \in UserStates
    BY <1>2 DEF TypeOK, Request
  <2>4. RequestOK(r)'
    BY <1>3, <2>2, <2>3, ReplyRequest DEF FindUser, Sent, UserStates
  <2>5. QED
    BY <1>1, <1>2, <1>3, <2>2, <2>4, ReplyOthers, OneRequest DEF FindUser
<1>4. CASE SaveRow(r)
  <2>1. tokenOf(r) \in issued
    BY <1>2, <1>4 DEF SaveRow, Sent, RequestOK, LoginOK
  <2>2. Monotone
    BY <1>4 DEF SaveRow, Monotone, OnRecord
  <2>3. StoresOK'
    BY <1>2, <1>4, <2>1
       DEF SaveRow, StoresOK, TokensUnique, RowsIssued, LifetimesBounded, HashFollowsRow, EventLate, OnRecord
  <2>4. PICK what \in {"saved", "error"} : Reply(r, what)
    BY <1>4 DEF SaveRow
  <2>5. RequestOK(r)'
    BY <1>4, <2>2, <2>4, ReplyRequest DEF SaveRow, Sent
  <2>6. QED
    BY <1>1, <1>2, <2>2, <2>3, <2>4, <2>5, ReplyOthers, OneRequest
<1>5. CASE FindToken(r)
  <2>1. UNCHANGED <<rows, redis, issued, events, now>>
    BY <1>5 DEF FindToken
  <2>2. StoresOK' /\ Monotone
    BY <2>1, StoresFrame
  <2>3. req[r].pc = "findToken" /\ req[r].kind = "getInfo"
    BY <1>2, <1>5 DEF FindToken, Sent, RequestOK, KindOK
  <2>4. CASE /\ \A row \in rows : row.token # req[r].token
             /\ Reply(r, "absent")
    <3>1. RequestOK(r)'
      BY <2>2, <2>3, <2>4, ReplyRequest
    <3>2. QED
      BY <1>1, <1>2, <2>2, <2>4, <3>1, ReplyOthers, OneRequest
  <2>5. CASE \E row \in rows :
               /\ row.token = req[r].token
               /\ req' = [req EXCEPT ![r] = [@ EXCEPT !.reply = "found",
                                                      !.owner = row.user,
                                                      !.expiresAt = row.expiresAt]]
    <3>1. PICK row \in rows :
            /\ row.token = req[r].token
            /\ req' = [req EXCEPT ![r] = [@ EXCEPT !.reply = "found",
                                                   !.owner = row.user,
                                                   !.expiresAt = row.expiresAt]]
      BY <2>5
    <3>2. /\ req'[r].pc = req[r].pc /\ req'[r].reply = "found"
          /\ req'[r].owner = row.user /\ req'[r].expiresAt = row.expiresAt
          /\ req'[r].status = req[r].status /\ req'[r].kind = req[r].kind
          /\ req'[r].user = req[r].user /\ req'[r].token = req[r].token
          /\ req'[r].validated = req[r].validated
          /\ req'[r].answered = req[r].answered
      BY <1>2, <3>1 DEF TypeOK, Request
    <3>3. row \in issued /\ OnRecord(row)
      BY <1>2 DEF StoresOK, RowsIssued, OnRecord
    <3>4. FoundOK(r)'
      BY <2>2, <2>3, <3>1, <3>2, <3>3 DEF FoundOK, Back, Monotone
    <3>5. KindOK(r)' /\ LoginOK(r)' /\ OwnerOK(r)'
      BY <1>2, <2>2, <2>3, <3>2
         DEF RequestOK, KindOK, LoginOK, OwnerOK, Back, Answered, Monotone
    <3>6. AnsweredOK(r)'
      BY <1>2, <2>2, <3>2 DEF RequestOK, AnsweredOK, Back, Monotone
    <3>7. \A q \in Reqs : q # r => req'[q] = req[q]
      BY <1>2, <3>1 DEF TypeOK
    <3>8. QED
      BY <1>1, <2>2, <3>4, <3>5, <3>6, <3>7, OneRequest DEF RequestOK
  <2>6. QED
    BY <1>5, <2>4, <2>5 DEF FindToken
<1>6. CASE SaveToRedis(r)
  <2> DEFINE hash == savedHash(tokenOf(r), now + expireSeconds)
  <2>1. tokenOf(r) \in issued /\ OnRecord(tokenOf(r))
    BY <1>2, <1>6 DEF SaveToRedis, Sent, RequestOK, LoginOK
  <2>2. Monotone
    BY <1>6 DEF SaveToRedis, Monotone, OnRecord
  <2>3. HashFollowsRow(hash)
    <3>1. tokenOf(r).expiresAt <= now + expireSeconds
      BY <1>2, <2>1 DEF StoresOK, LifetimesBounded, expireSeconds
    <3>2. /\ hash.key = savedKey(tokenOf(r).token)
          /\ hash.user_id.body = tokenOf(r).user
          /\ hash.deadline = now + expireSeconds
      BY DEF savedHash, evalScriptArg, Plain
    <3>3. QED
      BY <2>1, <3>1, <3>2 DEF HashFollowsRow
  <2>4. StoresOK'
    <3>1. \A h \in redis' : HashFollowsRow(h)'
      BY <1>2, <1>6, <2>2, <2>3 DEF SaveToRedis, StoresOK, HashFollowsRow, Monotone
    <3>2. QED
      BY <1>2, <1>6, <3>1 DEF SaveToRedis, StoresOK, TokensUnique, RowsIssued, LifetimesBounded, EventLate
  <2>5. PICK what \in {"saved", "null"} : Reply(r, what)
    BY <1>6 DEF SaveToRedis
  <2>6. RequestOK(r)'
    BY <1>6, <2>2, <2>5, ReplyRequest DEF SaveToRedis, Sent
  <2>7. QED
    BY <1>1, <1>2, <2>2, <2>4, <2>5, <2>6, ReplyOthers, OneRequest
<1>7. CASE GetFromRedis(r)
  <2>1. UNCHANGED <<rows, redis, issued, events, now>>
    BY <1>7 DEF GetFromRedis
  <2>2. StoresOK' /\ Monotone
    BY <2>1, StoresFrame
  <2>3. req[r].pc = "redisGet" /\ req[r].kind = "getInfo"
    BY <1>2, <1>7 DEF GetFromRedis, Sent, RequestOK, KindOK
  <2>4. CASE Reply(r, "null")
    <3>1. RequestOK(r)'
      BY <2>2, <2>3, <2>4, ReplyRequest
    <3>2. QED
      BY <1>1, <1>2, <2>2, <2>4, <3>1, ReplyOthers, OneRequest
  <2>5. CASE \E h \in redis :
               /\ h.key = lookupKey(req[r].token)
               /\ req' = [req EXCEPT ![r] = [@ EXCEPT !.reply = "found",
                                                      !.owner = h.user_id.body]]
    <3>1. PICK h \in redis :
            /\ h.key = lookupKey(req[r].token)
            /\ req' = [req EXCEPT ![r] = [@ EXCEPT !.reply = "found",
                                                   !.owner = h.user_id.body]]
      BY <2>5
    <3>2. /\ req'[r].pc = req[r].pc /\ req'[r].reply = "found"
          /\ req'[r].owner = h.user_id.body
          /\ req'[r].status = req[r].status /\ req'[r].kind = req[r].kind
          /\ req'[r].user = req[r].user /\ req'[r].token = req[r].token
          /\ req'[r].validated = req[r].validated
          /\ req'[r].answered = req[r].answered
      BY <1>2, <3>1 DEF TypeOK, Request
    <3>3. PICK g \in issued : h.key = savedKey(g.token) /\ h.user_id.body = g.user
      BY <1>2 DEF StoresOK, HashFollowsRow
    <3>4. g.token = req[r].token /\ Client = "Contract"
      <4>1. CASE Client = "RedisUtils"
        <5>1. lookupKey(req[r].token).prefix = "token"
          BY <4>1 DEF lookupKey, Plain
        <5>2. savedKey(g.token).prefix = "token:"
          BY DEF savedKey, evalScriptArg, Plain
        <5>3. QED
          BY <3>1, <3>3, <5>1, <5>2
      <4>2. CASE Client = "Contract"
        BY <3>1, <3>3, <4>2 DEF lookupKey, savedKey, evalScriptArg, Plain
      <4>3. QED
        BY <4>1, <4>2, ConstantsOK DEF ConstantsOK, ClientKinds
    <3>5. FoundOK(r)'
      BY <2>2, <2>3, <3>2, <3>3, <3>4 DEF FoundOK, Back, Monotone
    <3>6. KindOK(r)' /\ LoginOK(r)' /\ OwnerOK(r)'
      BY <1>2, <2>2, <2>3, <3>2
         DEF RequestOK, KindOK, LoginOK, OwnerOK, Back, Answered, Monotone
    <3>7. AnsweredOK(r)'
      BY <1>2, <2>2, <3>2 DEF RequestOK, AnsweredOK, Back, Monotone
    <3>8. \A q \in Reqs : q # r => req'[q] = req[q]
      BY <1>2, <3>1 DEF TypeOK
    <3>9. QED
      BY <1>1, <2>2, <3>5, <3>6, <3>7, <3>8, OneRequest DEF RequestOK
  <2>6. QED
    BY <1>7, <2>4, <2>5 DEF GetFromRedis
<1>8. QED
  BY <1>3, <1>4, <1>5, <1>6, <1>7 DEF StoreStep

-----------------------------------------------------------------------------
(* Faults, crashes, expiry, cleanup and time. *)

\* A request lost in flight claims nothing any more that it did not already know.
LEMMA LostRequest ==
  ASSUME IInv, Monotone, NEW q \in Reqs, req[q].pc \in Waits,
         req'[q] = [req[q] EXCEPT !.pc = "lost", !.reply = "none"]
  PROVE  RequestOK(q)'
<1>1. req[q] \in Request
  BY DEF IInv, TypeOK
<1>2. /\ req'[q].pc = "lost" /\ req'[q].reply = "none"
      /\ req'[q].status = req[q].status /\ req'[q].kind = req[q].kind
      /\ req'[q].user = req[q].user /\ req'[q].token = req[q].token
      /\ req'[q].validated = req[q].validated
      /\ req'[q].answered = req[q].answered
  BY <1>1 DEF Request
<1>3. RequestOK(q)
  BY DEF IInv
<1>4. req[q].status = 0
  BY <1>3 DEF RequestOK, KindOK, Waits
<1>5. KindOK(q)' /\ LoginOK(q)' /\ FoundOK(q)'
  BY <1>2, <1>3, <1>4 DEF RequestOK, KindOK, LoginOK, FoundOK, Back, Answered
<1>6. AnsweredOK(q)' /\ OwnerOK(q)'
  BY <1>2, <1>3, <1>4 DEF RequestOK, AnsweredOK, OwnerOK, Back, Monotone
<1>7. QED
  BY <1>5, <1>6 DEF RequestOK

\* Losing the requests in flight, or messages, or hashes takes nothing back.
LEMMA LossInv ==
  ASSUME IInv, TypeOK', UNCHANGED <<rows, issued, now>>,
         redis' \subseteq redis, events' \subseteq events,
         \A q \in Reqs : \/ req'[q] = req[q]
                         \/ /\ req[q].pc \in Waits
                            /\ req'[q] = [req[q] EXCEPT !.pc = "lost", !.reply = "none"]
  PROVE  IInv'
<1>1. Monotone
  BY DEF Monotone, OnRecord
<1>2. StoresOK'
  BY DEF IInv, StoresOK, TokensUnique, RowsIssued, LifetimesBounded, HashFollowsRow,
         EventLate, OnRecord
<1>3. ASSUME NEW q \in Reqs
      PROVE  RequestOK(q)'
  <2>1. CASE req'[q] = req[q]
    BY <1>1, <2>1, RequestFrame
  <2>2. CASE /\ req[q].pc \in Waits
             /\ req'[q] = [req[q] EXCEPT !.pc = "lost", !.reply = "none"]
    BY <1>1, <2>2, LostRequest
  <2>3. QED
    BY <2>1, <2>2
<1>4. QED
  BY <1>2, <1>3 DEF IInv

LEMMA StoreFaultInv ==
  ASSUME IInv, NEW r \in Reqs, StoreFault(r)
  PROVE  IInv'
<1> USE DEF stores, server, env
<1>1. TypeOK'
  BY StoreFaultType DEF IInv
<1>2. TypeOK
  BY DEF IInv
<1>3. ASSUME UNCHANGED <<rows, redis, issued, events, now>>,
             NEW what \in {"error", "null"}, Reply(r, what)
      PROVE  IInv'
  <2>1. StoresOK' /\ Monotone
    BY <1>3, StoresFrame
  <2>2. RequestOK(r)'
    BY <1>3, <2>1, ReplyRequest
  <2>3. QED
    BY <1>1, <1>2, <1>3, <2>1, <2>2, ReplyOthers, OneRequest
<1>4. CASE DatabaseFails(r)
  BY <1>3, <1>4 DEF DatabaseFails
<1>5. CASE RedisFails(r)
  BY <1>3, <1>5 DEF RedisFails
<1>6. CASE NullResultCrash(r)
  BY <1>1, <1>6, LossInv DEF NullResultCrash, ServerDies
<1>7. QED
  BY <1>4, <1>5, <1>6 DEF StoreFault

\* The cleanup deletes no row whose time is not over.
LEMMA CleanupIsLate ==
  ASSUME IInv, NEW m \in events, NEW row \in expiredRows(m)
  PROVE  row.expiresAt < now
<1>1. PICK g \in issued : m = savedKey(g.token) /\ g.expiresAt < now
  BY DEF IInv, StoresOK, EventLate
<1>2. row \in issued /\ row.token = m.body
  BY DEF IInv, StoresOK, RowsIssued, expiredRows, normalizeMessage, savedKey,
         evalScriptArg, Plain, TypeOK, Keys
<1>3. m.body = g.token
  BY <1>1 DEF savedKey, evalScriptArg, Plain
<1>4. row = g
  BY <1>2, <1>3 DEF IInv, StoresOK, TokensUnique
<1>5. QED
  BY <1>1, <1>4

LEMMA WorldInv ==
  ASSUME IInv, WorldStep
  PROVE  IInv'
<1> USE DEF stores, server, env
<1>1. TypeOK'
  BY WorldType DEF IInv
<1>2. StoresOK /\ TypeOK
  BY DEF IInv
<1>3. ASSUME UNCHANGED req, Monotone, StoresOK'
      PROVE  IInv'
  BY <1>1, <1>3, RequestFrame DEF IInv
<1>4. CASE Expiry
  <2>1. PICK h \in redis : ExpireKey(h)
    BY <1>4 DEF Expiry
  <2>2. Monotone
    BY <2>1 DEF ExpireKey, Monotone, OnRecord
  <2>3. EventLate(h.key)
    <3>1. PICK g \in issued : h.key = savedKey(g.token) /\ g.expiresAt <= h.deadline
      BY <1>2 DEF StoresOK, HashFollowsRow
    <3>2. h.deadline < now
      BY <1>2, <2>1 DEF ExpireKey, Live, TypeOK, Hash, Times
    <3>3. g.expiresAt < now
      BY <1>2, <3>1, <3>2 DEF TypeOK, Hash, Row, Times
    <3>4. QED
      BY <3>1, <3>3 DEF EventLate
  <2>4. StoresOK'
    <3>1. \A m \in events' : EventLate(m)'
      BY <1>2, <2>1, <2>3 DEF ExpireKey, StoresOK, EventLate
    <3>2. \A k \in redis' : HashFollowsRow(k)'
      BY <1>2, <2>1 DEF ExpireKey, StoresOK, HashFollowsRow, OnRecord
    <3>3. QED
      BY <1>2, <2>1, <3>1, <3>2
         DEF ExpireKey, StoresOK, TokensUnique, RowsIssued, LifetimesBounded
  <2>5. QED
    BY <1>3, <2>1, <2>2, <2>4 DEF ExpireKey
<1>5. CASE Cleanup
  <2>1. PICK m \in events : HandleExpiration(m)
    BY <1>5 DEF Cleanup
  <2>2. Monotone
    BY <2>1, CleanupIsLate DEF HandleExpiration, Monotone, OnRecord
  <2>3. StoresOK'
    <3>1. \A h \in redis' : HashFollowsRow(h)'
      BY <1>2, <2>1, <2>2 DEF HandleExpiration, StoresOK, HashFollowsRow, Monotone
    <3>2. QED
      BY <1>2, <2>1, <3>1
         DEF HandleExpiration, StoresOK, TokensUnique, RowsIssued, LifetimesBounded,
             EventLate, expiredRows
  <2>4. QED
    BY <1>3, <2>1, <2>2, <2>3 DEF HandleExpiration
<1>6. CASE \E m \in events : CleanupFails(m)
  BY <1>1, <1>6, LossInv DEF CleanupFails
<1>7. CASE Subscribe
  BY <1>1, <1>7, LossInv DEF Subscribe
<1>8. CASE Crash
  BY <1>1, <1>8, LossInv DEF Crash, ServerDies
<1>9. CASE Restart
  BY <1>1, <1>9, LossInv DEF Restart
<1>10. CASE SubscriptionLost
  BY <1>1, <1>10, LossInv DEF SubscriptionLost
<1>11. CASE RedisRestart
  BY <1>1, <1>11, LossInv DEF RedisRestart
<1>12. CASE \E u \in Users : AccountChanges(u)
  BY <1>1, <1>12, LossInv DEF AccountChanges
<1>13. CASE Tick
  <2>1. /\ now' = now + 1 /\ now \in Nat
        /\ UNCHANGED <<rows, redis, issued, events, req>>
    BY <1>2, <1>13, ConstantsOK DEF Tick, TypeOK, ConstantsOK
  <2>2. \A g \in issued : g.expiresAt \in Nat
    BY <1>2, ConstantsOK DEF TypeOK, Row, Times, ConstantsOK
  <2>3. Monotone
    BY <2>1, <2>2 DEF Monotone, OnRecord
  <2>4. StoresOK'
    <3>1. \A h \in redis' : HashFollowsRow(h)'
      BY <1>2, <2>1, <2>3 DEF StoresOK, HashFollowsRow, Monotone
    <3>2. \A m \in events' : EventLate(m)'
      BY <1>2, <2>1, <2>3 DEF StoresOK, EventLate, Monotone
    <3>3. LifetimesBounded'
      BY <1>2, <2>1, <2>2, ConstantsOK DEF StoresOK, LifetimesBounded, ConstantsOK
    <3>4. QED
      BY <1>2, <2>1, <3>1, <3>2, <3>3 DEF StoresOK, TokensUnique, RowsIssued
  <2>5. QED
    BY <1>3, <2>1, <2>3, <2>4
<1>14. QED
  BY <1>4, <1>5, <1>6, <1>7, <1>8, <1>9, <1>10, <1>11, <1>12, <1>13 DEF WorldStep

\* The invariant holds of every behaviour.
THEOREM Invariance == Spec => []IInv
<1>1. Init => IInv
  BY InitInv
<1>2. IInv /\ [Next]_vars => IInv'
  <2> SUFFICES ASSUME IInv, [Next]_vars PROVE IInv'
    OBVIOUS
  <2>1. CASE UNCHANGED vars
    <3>1. TypeOK'
      BY <2>1 DEF IInv, TypeOK, vars
    <3>2. QED
      BY <2>1, <3>1, LossInv DEF vars
  <2>2. CASE Next
    BY <2>2, NextSplit, StartInv, CallbackInv, StoreStepInv, StoreFaultInv, WorldInv
  <2>3. QED
    BY <2>1, <2>2
<1>3. QED
  BY <1>1, <1>2, PTL DEF Spec

-----------------------------------------------------------------------------
(* What follows from the invariant. *)

\* A login's answer outlives everything but its own expiry: crashes, Redis restarts
\* and lost messages take no answered token away.
THEOREM AnsweredTokensAreDurable == Spec => []AnsweredTokenIsDurable
<1>1. IInv => AnsweredTokenIsDurable
  BY DEF IInv, RequestOK, LoginOK, AnsweredTokenIsDurable, OnRecord, tokenOf
<1>2. QED
  BY <1>1, Invariance, PTL

\* Redis never vouches for a token the database does not have.
THEOREM RedisIsBackedByRows == Spec => []RedisBackedByRow
<1>1. IInv => RedisBackedByRow
  BY DEF IInv, StoresOK, HashFollowsRow, OnRecord, RedisBackedByRow
<1>2. QED
  BY <1>1, Invariance, PTL

\* validateToken never refuses a live token to the client a login gave it to.
THEOREM AnsweredTokensAreAccepted == Spec => []AnsweredTokenAccepted
<1>1. IInv => AnsweredTokenAccepted
  <2> SUFFICES ASSUME IInv, NEW r \in Reqs, req[r].answered,
                      NEW row \in issued, row.token = req[r].token
               PROVE  /\ req[r].status = 401 => row.expiresAt < now
                      /\ req[r].status = 403 => row.user # req[r].user
    BY DEF AnsweredTokenAccepted
  <2>1. PICK g \in issued : /\ g.token = req[r].token
                            /\ req[r].status = 401 => g.expiresAt < now
                            /\ req[r].status = 403 => g.user # req[r].user
    BY DEF IInv, RequestOK, AnsweredOK
  <2>2. g = row
    BY <2>1 DEF IInv, StoresOK, TokensUnique
  <2>3. QED
    BY <2>1, <2>2
<1>2. QED
  BY <1>1, Invariance, PTL

\* User information goes only to the user the token was issued to.
THEOREM InfoGoesToOwners == Spec => []InfoOnlyToOwner
<1>1. IInv => InfoOnlyToOwner
  BY DEF IInv, RequestOK, OwnerOK, InfoOnlyToOwner
<1>2. QED
  BY <1>1, Invariance, PTL

\* Only HandleExpiration deletes rows.
LEMMA OnlyCleanupDeletes ==
  ASSUME Next, NEW row \in rows, row \notin rows'
  PROVE  \E m \in events : HandleExpiration(m)
<1> USE DEF stores, server, env
<1>1. CASE \E r \in Reqs : Start(r)
  BY <1>1 DEF Start, Login, GetInfo
<1>2. CASE \E r \in Reqs : Callback(r)
  BY <1>2 DEF Callback, AuthenticationFails, CreateToken, OnRowSaved, OnRowSaveFailed,
     OnRedisSaved, OnRedisHit, OnRedisMiss, OnTokenFound, OnTokenRefused, OnUserInfo
<1>3. CASE \E r \in Reqs : StoreStep(r)
  BY <1>3 DEF StoreStep, FindUser, SaveRow, FindToken, SaveToRedis, GetFromRedis
<1>4. CASE \E r \in Reqs : StoreFault(r)
  BY <1>4 DEF StoreFault, DatabaseFails, RedisFails, NullResultCrash
<1>5. CASE WorldStep
  BY <1>5 DEF WorldStep, Expiry, ExpireKey, Cleanup, CleanupFails, Subscribe, Crash,
     Restart, SubscriptionLost, RedisRestart, AccountChanges, Tick
<1>6. QED
  BY <1>1, <1>2, <1>3, <1>4, <1>5, NextSplit

\* The cleanup never deletes a row whose time is not over.
THEOREM CleanupIsNeverPremature == Spec => NoPrematureCleanup
<1>1. IInv /\ [Next]_vars =>
        [\A row \in rows : row \in rows' \/ row.expiresAt < now]_vars
  <2> SUFFICES ASSUME IInv, Next, NEW row \in rows, row \notin rows'
               PROVE  row.expiresAt < now
    OBVIOUS
  <2>1. PICK m \in events : HandleExpiration(m)
    BY OnlyCleanupDeletes
  <2>2. row \in expiredRows(m)
    BY <2>1 DEF HandleExpiration
  <2>3. QED
    BY <2>2, CleanupIsLate
<1>2. QED
  BY <1>1, Invariance, PTL DEF Spec, NoPrematureCleanup

-----------------------------------------------------------------------------
(* The other half of the cleanup: what is to be deleted is not forgotten. *)

\* A server that is down hears nothing.
DownIsDeaf == ~up => ~subscribed /\ events = {}

\* The steps of the requests and of the stores, without the server's death: they write
\* keys of Redis anew, and neither publish nor read a message.
LEMMA RequestStepKeepsCleanup ==
  ASSUME NEW r \in Reqs,
         Start(r) \/ Callback(r) \/ StoreStep(r) \/ DatabaseFails(r) \/ RedisFails(r)
  PROVE  /\ UNCHANGED server
         /\ \A h \in redis : \E g \in redis' : g.key = h.key
<1> USE DEF stores
<1>1. CASE SaveToRedis(r)
  BY <1>1 DEF SaveToRedis
<1>2. CASE Start(r)
  BY <1>2 DEF Start, Login, GetInfo
<1>3. CASE Callback(r)
  BY <1>3 DEF Callback, AuthenticationFails, CreateToken, OnRowSaved, OnRowSaveFailed,
     OnRedisSaved, OnRedisHit, OnRedisMiss, OnTokenFound, OnTokenRefused, OnUserInfo
<1>4. CASE FindUser(r) \/ SaveRow(r) \/ FindToken(r) \/ GetFromRedis(r)
  BY <1>4 DEF FindUser, SaveRow, FindToken, GetFromRedis
<1>5. CASE DatabaseFails(r) \/ RedisFails(r)
  BY <1>5 DEF DatabaseFails, RedisFails
<1>6. QED
  BY <1>1, <1>2, <1>3, <1>4, <1>5 DEF StoreStep

LEMMA DeafInvariance == Spec => []DownIsDeaf
<1>1. Init => DownIsDeaf
  BY DEF Init, DownIsDeaf
<1>2. TypeOK /\ DownIsDeaf /\ [Next]_vars => DownIsDeaf'
  <2> SUFFICES ASSUME TypeOK, DownIsDeaf, [Next]_vars PROVE DownIsDeaf'
    OBVIOUS
  <2> USE DEF stores, server, env
  <2>1. CASE UNCHANGED vars
    BY <2>1 DEF vars, DownIsDeaf
  <2>2. CASE \E r \in Reqs : \/ Start(r) \/ Callback(r) \/ StoreStep(r)
                             \/ DatabaseFails(r) \/ RedisFails(r)
    BY <2>2, RequestStepKeepsCleanup DEF DownIsDeaf
  <2>3. CASE \E r \in Reqs : NullResultCrash(r)
    BY <2>3 DEF NullResultCrash, ServerDies, DownIsDeaf
  <2>4. CASE WorldStep
    BY <2>4 DEF WorldStep, Expiry, ExpireKey, Cleanup, HandleExpiration, CleanupFails,
       Subscribe, Crash, ServerDies, Restart, SubscriptionLost, RedisRestart, AccountChanges,
       Tick, DownIsDeaf
  <2>5. QED
    BY <2>1, <2>2, <2>3, <2>4, NextSplit DEF StoreFault
<1>3. QED
  BY <1>1, <1>2, TypeCorrect, PTL DEF Spec

\* The message of a token's key, its quotes stripped, names every row of the token.
LEMMA MessageNamesItsRows ==
  ASSUME NEW t \in Tokens
  PROVE  \A row \in rows : row.token = t => row \in expiredRows(savedKey(t))
<1>1. savedKey(t) = [quoted |-> (Client = "RedisUtils"), prefix |-> "token:", body |-> t]
  BY DEF savedKey, evalScriptArg, Plain
<1>2. LET key == normalizeMessage(savedKey(t)) IN
      ~key.quoted /\ key.prefix = "token:" /\ key.body = t
  BY <1>1 DEF normalizeMessage
<1>3. QED
  BY <1>2 DEF expiredRows

\* Until a token's rows are gone their deletion stays under way; only a step that fails, or
\* the death of the server, can put an end to it.
THEOREM CleanupIsNeverForgotten == Spec => CleanupNeverForgotten
<1>1. TypeOK /\ DownIsDeaf /\ [Next]_vars =>
        [\A t \in Tokens :
           awaitsCleanup(t) =>
             \/ awaitsCleanup(t)'
             \/ \A row \in rows' : row.token # t
             \/ faults' # faults
             \/ up /\ ~up']_vars
  <2> SUFFICES ASSUME TypeOK, DownIsDeaf, Next, NEW t \in Tokens, awaitsCleanup(t),
                      UNCHANGED faults
               PROVE  \/ awaitsCleanup(t)'
                      \/ \A row \in rows' : row.token # t
                      \/ up /\ ~up'
    OBVIOUS
  <2> USE DEF stores, server, env
  <2>1. ~Fault
    BY DEF Fault, TypeOK
  <2>2. up
    BY DEF DownIsDeaf, awaitsCleanup
  <2>3. CASE \E r \in Reqs : \/ Start(r) \/ Callback(r) \/ StoreStep(r)
                             \/ DatabaseFails(r) \/ RedisFails(r)
    BY <2>3, RequestStepKeepsCleanup DEF awaitsCleanup
  <2>4. CASE \E r \in Reqs : NullResultCrash(r)
    BY <2>2, <2>4 DEF NullResultCrash, ServerDies
  <2>5. CASE Expiry
    <3>1. PICK h \in redis : ExpireKey(h)
      BY <2>5 DEF Expiry
    <3>2. QED
      BY <3>1 DEF ExpireKey, awaitsCleanup
  <2>6. CASE Cleanup
    <3>1. PICK m \in events : HandleExpiration(m)
      BY <2>6 DEF Cleanup
    <3>2. CASE m = savedKey(t)
      BY <3>1, <3>2, MessageNamesItsRows DEF HandleExpiration
    <3>3. CASE m # savedKey(t)
      BY <3>1, <3>3 DEF HandleExpiration, awaitsCleanup
    <3>4. QED
      BY <3>2, <3>3
  <2>7. CASE Subscribe \/ Restart \/ Tick \/ \E u \in Users : AccountChanges(u)
    BY <2>7 DEF Subscribe, Restart, Tick, AccountChanges, awaitsCleanup
  <2>8. CASE \/ \E m \in events : CleanupFails(m)
             \/ Crash \/ SubscriptionLost \/ RedisRestart
    BY <2>1, <2>8 DEF CleanupFails, Crash, SubscriptionLost, RedisRestart
  <2>9. QED
    BY <2>3, <2>4, <2>5, <2>6, <2>7, <2>8, NextSplit DEF StoreFault, WorldStep
<1>2. QED
  BY <1>1, DeafInvariance, TypeCorrect, PTL DEF Spec, CleanupNeverForgotten

-----------------------------------------------------------------------------
(* The safety half of EveryRequestSettled: no request waits for an answer that its callback
   has no branch for, and none can go on for ever.  What is left to liveness is that the
   stores and the event loops keep taking steps. *)

\* Each callback has a branch for every answer its store can give.
Expected(q) ==
  /\ q.pc \in {"findUser", "getUser"} => q.reply \in UserStates \union {"pending", "error"}
  /\ q.pc = "insertToken" => q.reply \in {"pending", "saved", "error"}
  /\ q.pc = "findToken" => q.reply \in {"pending", "found", "absent", "error"}
  /\ q.pc = "redisSave" => q.reply \in {"pending", "saved", "null"}
  /\ q.pc = "redisGet" => q.reply \in {"pending", "found", "null"}

AnswersExpected == \A r \in Reqs : Expected(req[r])

\* How many links of its chain of callbacks a request at pc has before it at most, and how
\* many steps: the store's and the callback's.
linksLeft(pc) ==
  IF pc = "idle" THEN 4
  ELSE IF pc \in {"findUser", "redisGet"} THEN 3
  ELSE IF pc \in {"insertToken", "findToken"} THEN 2
  ELSE IF pc \in {"redisSave", "getUser"} THEN 1
  ELSE 0

stepsLeft(q) == 2 * linksLeft(q.pc) + (IF q.reply = "pending" THEN 1 ELSE 0)

Advances(r) == Expected(req'[r]) /\ stepsLeft(req'[r]) < stepsLeft(req[r])

RequestsOnlyAdvance == \A r \in Reqs : req'[r] = req[r] \/ Advances(r)

LEMMA AwaitAdvances ==
  ASSUME TypeOK, NEW r \in Reqs, NEW pc \in Waits, req'[r].pc = pc,
         req'[r].reply = "pending", linksLeft(pc) < linksLeft(req[r].pc)
  PROVE  Advances(r)
BY DEF Advances, Expected, stepsLeft, linksLeft

LEMMA RespondAdvances ==
  ASSUME TypeOK, NEW r \in Reqs, req[r].pc \in Waits, NEW code, Respond(r, code)
  PROVE  RequestsOnlyAdvance
<1>1. ASSUME NEW q \in Reqs, q # r
      PROVE  req'[q] = req[q]
  BY <1>1 DEF Respond, TypeOK
<1>2. req'[r].pc = "done" /\ req'[r].reply = "none"
  BY DEF Respond, TypeOK, Request
<1>3. Advances(r)
  BY <1>2 DEF Advances, Expected, stepsLeft, linksLeft, Waits
<1>4. QED
  BY <1>1, <1>3 DEF RequestsOnlyAdvance

LEMMA SendAdvances ==
  ASSUME TypeOK, NEW r \in Reqs, NEW pc \in Waits, NEW new,
         req' = [req EXCEPT ![r] = new], new.pc = pc, new.reply = "pending",
         linksLeft(pc) < linksLeft(req[r].pc)
  PROVE  RequestsOnlyAdvance
<1>1. ASSUME NEW q \in Reqs, q # r
      PROVE  req'[q] = req[q]
  BY <1>1 DEF TypeOK
<1>2. req'[r].pc = pc /\ req'[r].reply = "pending"
  BY DEF TypeOK
<1>3. QED
  BY <1>1, <1>2, AwaitAdvances DEF RequestsOnlyAdvance

\* A store's answer, or an error in its place.
LEMMA ReplyAdvances ==
  ASSUME TypeOK, NEW r \in Reqs, req[r].pc \in Waits, req[r].reply = "pending",
         \A q \in Reqs : q # r => req'[q] = req[q],
         req'[r].pc = req[r].pc, req'[r].reply # "pending", Expected(req'[r])
  PROVE  RequestsOnlyAdvance
BY DEF RequestsOnlyAdvance, Advances, stepsLeft, linksLeft, Waits

LEMMA StartAdvances ==
  ASSUME TypeOK, NEW r \in Reqs, Start(r)
  PROVE  RequestsOnlyAdvance
<1>1. CASE \E u \in Users, p \in Passwords : Login(r, u, p)
  <2>1. PICK u \in Users, p \in Passwords : Login(r, u, p)
    BY <1>1
  <2> DEFINE new == [Await(r, "findUser") EXCEPT !.kind = "login", !.user = u, !.password = p]
  <2>2. new.pc = "findUser" /\ new.reply = "pending"
    BY DEF Await, TypeOK, Request
  <2>3. req' = [req EXCEPT ![r] = new]
    BY <2>1 DEF Login
  <2> HIDE DEF new
  <2>4. "findUser" \in Waits /\ linksLeft("findUser") < linksLeft(req[r].pc)
    BY <2>1 DEF Login, linksLeft, Waits
  <2>5. QED
    BY <2>2, <2>3, <2>4, SendAdvances
<1>2. CASE \E u \in Users, t \in Tokens : GetInfo(r, u, t)
  <2>1. PICK u \in Users, t \in Tokens : GetInfo(r, u, t)
    BY <1>2
  <2> DEFINE new == [Await(r, "redisGet") EXCEPT !.kind = "getInfo", !.user = u, !.token = t,
                                                 !.answered = AnsweredToken(t)]
  <2>2. new.pc = "redisGet" /\ new.reply = "pending"
    BY DEF Await, TypeOK, Request
  <2>3. req' = [req EXCEPT ![r] = new]
    BY <2>1 DEF GetInfo
  <2> HIDE DEF new
  <2>4. "redisGet" \in Waits /\ linksLeft("redisGet") < linksLeft(req[r].pc)
    BY <2>1 DEF GetInfo, linksLeft, Waits
  <2>5. QED
    BY <2>2, <2>3, <2>4, SendAdvances
<1>3. QED
  BY <1>1, <1>2 DEF Start

LEMMA CallbackAdvances ==
  ASSUME TypeOK, NEW r \in Reqs, Callback(r)
  PROVE  RequestsOnlyAdvance
<1>1. ASSUME NEW code, Respond(r, code), req[r].pc \in Waits
      PROVE  RequestsOnlyAdvance
  BY <1>1, RespondAdvances
<1>2. ASSUME Validated(r), req[r].pc \in {"redisGet", "findToken"}
      PROVE  RequestsOnlyAdvance
  <2> DEFINE new == [Await(r, "getUser") EXCEPT !.validated = TRUE]
  <2>1. new.pc = "getUser" /\ new.reply = "pending"
    BY DEF Await, TypeOK, Request
  <2>2. req' = [req EXCEPT ![r] = new]
    BY <1>2 DEF Validated
  <2> HIDE DEF new
  <2>3. "getUser" \in Waits /\ linksLeft("getUser") < linksLeft(req[r].pc)
    BY <1>2 DEF linksLeft, Waits
  <2>4. QED
    BY <2>1, <2>2, <2>3, SendAdvances
<1>3. ASSUME NEW pc \in Waits, req' = [req EXCEPT ![r] = Await(r, pc)],
             linksLeft(pc) < linksLeft(req[r].pc)
      PROVE  RequestsOnlyAdvance
  <2>1. Await(r, pc).pc = pc /\ Await(r, pc).reply = "pending"
    BY DEF Await, TypeOK, Request
  <2>2. QED
    BY <1>3, <2>1, SendAdvances
<1>4. CASE \E t \in Tokens : CreateToken(r, t)
  <2>1. PICK t \in Tokens : CreateToken(r, t)
    BY <1>4
  <2> DEFINE new == [Await(r, "insertToken") EXCEPT !.token = t,
                                                    !.expiresAt = expiresAfter(now)]
  <2>2. new.pc = "insertToken" /\ new.reply = "pending"
    BY DEF Await, TypeOK, Request
  <2>3. req' = [req EXCEPT ![r] = new]
    BY <2>1 DEF CreateToken
  <2> HIDE DEF new
  <2>4. "insertToken" \in Waits /\ linksLeft("insertToken") < linksLeft(req[r].pc)
    BY <2>1 DEF CreateToken, Back, linksLeft, Waits
  <2>5. QED
    BY <2>2, <2>3, <2>4, SendAdvances
<1>5. CASE OnRowSaved(r)
  BY <1>3, <1>5 DEF OnRowSaved, Back, linksLeft, Waits
<1>6. CASE OnRedisMiss(r)
  BY <1>3, <1>6 DEF OnRedisMiss, Back, linksLeft, Waits
<1>7. CASE OnRedisHit(r)
  BY <1>1, <1>2, <1>7 DEF OnRedisHit, Back, Waits
<1>8. CASE OnTokenFound(r)
  BY <1>1, <1>2, <1>8 DEF OnTokenFound, Back, Waits
<1>9. CASE AuthenticationFails(r)
  BY <1>1, <1>9 DEF AuthenticationFails, Waits
<1>10. CASE OnRowSaveFailed(r) \/ OnRedisSaved(r) \/ OnTokenRefused(r) \/ OnUserInfo(r)
  BY <1>1, <1>10 DEF OnRowSaveFailed, OnRedisSaved, OnTokenRefused, OnUserInfo, Back, Waits
<1>11. QED
  BY <1>4, <1>5, <1>6, <1>7, <1>8, <1>9, <1>10 DEF Callback

LEMMA StoreAdvances ==
  ASSUME TypeOK, NEW r \in Reqs, StoreStep(r) \/ DatabaseFails(r) \/ RedisFails(r)
  PROVE  RequestsOnlyAdvance
<1>1. ASSUME NEW what, Reply(r, what)
      PROVE  /\ \A q \in Reqs : q # r => req'[q] = req[q]
             /\ req'[r].pc = req[r].pc /\ req'[r].reply = what
  BY <1>1 DEF Reply, TypeOK, Request
<1> DEFINE Found == /\ \A q \in Reqs : q # r => req'[q] = req[q]
                    /\ req'[r].pc = req[r].pc /\ req'[r].reply = "found"
<1>2. req \in [Reqs -> Request]
  BY DEF TypeOK
<1>3. ASSUME NEW owner,
              req' = [req EXCEPT ![r] = [@ EXCEPT !.reply = "found", !.owner = owner]]
       PROVE  Found
  BY <1>2, <1>3 DEF Request
<1>4. ASSUME NEW owner, NEW expiry,
              req' = [req EXCEPT ![r] = [@ EXCEPT !.reply = "found", !.owner = owner,
                                                  !.expiresAt = expiry]]
       PROVE  Found
  <2> DEFINE new == [req[r] EXCEPT !.reply = "found", !.owner = owner, !.expiresAt = expiry]
  <2>1. new.pc = req[r].pc /\ new.reply = "found"
    BY <1>2, ZenonT(60) DEF Request
  <2>2. req' = [req EXCEPT ![r] = new]
    BY <1>4
  <2> HIDE DEF new
  <2>3. QED
    BY <1>2, <2>1, <2>2
<1> HIDE DEF Found
<1>5. CASE FindUser(r)
  <2>1. users[req[r].user] \in UserStates
    BY DEF TypeOK, Request
  <2>2. Expected(req'[r])
    BY <1>1, <1>5, <2>1 DEF FindUser, Sent, Expected
  <2>3. QED
    BY <1>1, <1>5, <2>1, <2>2, ReplyAdvances DEF FindUser, Sent, UserStates, Waits
<1>6. CASE SaveRow(r)
  BY <1>1, <1>6, ReplyAdvances DEF SaveRow, Sent, Expected, Waits
<1>7. CASE FindToken(r)
  <2>1. Found \/ Reply(r, "absent")
    BY <1>7, <1>4 DEF FindToken
  <2>2. /\ \A q \in Reqs : q # r => req'[q] = req[q]
        /\ req'[r].pc = req[r].pc /\ req'[r].reply \in {"found", "absent"}
    BY <1>1, <2>1 DEF Found
  <2>3. QED
    BY <1>7, <2>2, ReplyAdvances DEF FindToken, Sent, Expected, Waits
<1>8. CASE SaveToRedis(r)
  BY <1>1, <1>8, ReplyAdvances DEF SaveToRedis, Sent, Expected, Waits
<1>9. CASE GetFromRedis(r)
  <2>1. Found \/ Reply(r, "null")
    BY <1>9, <1>3 DEF GetFromRedis
  <2>2. /\ \A q \in Reqs : q # r => req'[q] = req[q]
        /\ req'[r].pc = req[r].pc /\ req'[r].reply \in {"found", "null"}
    BY <1>1, <2>1 DEF Found
  <2>3. QED
    BY <1>9, <2>2, ReplyAdvances DEF GetFromRedis, Sent, Expected, Waits
<1>10. CASE DatabaseFails(r)
  BY <1>1, <1>10, ReplyAdvances DEF DatabaseFails, Sent, Expected, Waits
<1>11. CASE RedisFails(r)
  BY <1>1, <1>11, ReplyAdvances DEF RedisFails, Sent, Expected, Waits
<1>12. QED
  BY <1>5, <1>6, <1>7, <1>8, <1>9, <1>10, <1>11 DEF StoreStep

\* With the server, the requests in flight end.
LEMMA DeathAdvances ==
  ASSUME TypeOK, ServerDies
  PROVE  RequestsOnlyAdvance
<1> SUFFICES ASSUME NEW r \in Reqs, req[r].pc \in Waits PROVE Advances(r)
  BY DEF ServerDies, RequestsOnlyAdvance
<1>1. req'[r].pc = "lost" /\ req'[r].reply = "none"
  BY DEF ServerDies, TypeOK, Request
<1>2. QED
  BY <1>1 DEF Advances, Expected, stepsLeft, linksLeft, Waits

\* Every request comes to its end in eight steps of its own or fewer: each one either answers
\* it or takes it further down its chain of callbacks, whatever fails, and every answer
\* a store may give has a branch in the callback that is waiting (LoginHandler,
\* GetInfoHandler, UserService).
THEOREM RequestsRunOut == Spec => []AnswersExpected /\ [][RequestsOnlyAdvance]_vars
<1>1. Init => AnswersExpected
  BY DEF Init, NewRequest, AnswersExpected, Expected
<1>2. TypeOK /\ Next => RequestsOnlyAdvance
  <2> SUFFICES ASSUME TypeOK, Next PROVE RequestsOnlyAdvance
    OBVIOUS
  <2>1. CASE \E r \in Reqs : Start(r) \/ Callback(r) \/ StoreStep(r) \/ StoreFault(r)
    BY <2>1, StartAdvances, CallbackAdvances, StoreAdvances, DeathAdvances
       DEF StoreFault, NullResultCrash
  <2>2. CASE WorldStep
    <3>1. CASE Crash
      BY <3>1, DeathAdvances DEF Crash
    <3>2. CASE ~Crash
      BY <2>2, <3>2 DEF WorldStep, Expiry, ExpireKey, Cleanup, HandleExpiration,
        CleanupFails, Subscribe, Restart, SubscriptionLost, RedisRestart, AccountChanges,
        Tick, server, RequestsOnlyAdvance
    <3>3. QED
      BY <3>1, <3>2
  <2>3. QED
    BY <2>1, <2>2, NextSplit
<1>3. TypeOK /\ AnswersExpected /\ [Next]_vars => AnswersExpected'
  BY <1>2 DEF vars, AnswersExpected, RequestsOnlyAdvance, Advances
<1>4. TypeOK /\ [Next]_vars => [RequestsOnlyAdvance]_vars
  BY <1>2
<1>5. QED
  BY <1>1, <1>3, <1>4, TypeCorrect, PTL DEF Spec

-----------------------------------------------------------------------------
(* TokenLifecycle implements TokenRegistry. *)

\* Nobody new is admitted by a step after which every request stands where it stood
\* towards validation.
SameAdmissions ==
  \A r \in Reqs :
    /\ req'[r].validated = req[r].validated
    /\ req[r].validated => req'[r].user = req[r].user /\ req'[r].token = req[r].token

LEMMA AdmissionsKept ==
  ASSUME SameAdmissions
  PROVE  admissions' = admissions
BY DEF SameAdmissions, admissions

\* The requests' records change in one of these ways.
LEMMA RespondAdmissions ==
  ASSUME TypeOK, NEW r \in Reqs, NEW code, Respond(r, code)
  PROVE  SameAdmissions
BY DEF SameAdmissions, Respond, TypeOK, Request

LEMMA ReplyAdmissions ==
  ASSUME TypeOK, NEW r \in Reqs, NEW what, Reply(r, what)
  PROVE  SameAdmissions
BY DEF SameAdmissions, Reply, TypeOK, Request

LEMMA AwaitAdmissions ==
  ASSUME TypeOK, NEW r \in Reqs, NEW pc, req' = [req EXCEPT ![r] = Await(r, pc)]
  PROVE  SameAdmissions
BY DEF SameAdmissions, Await, TypeOK, Request

LEMMA ServerDiesAdmissions ==
  ASSUME TypeOK, ServerDies
  PROVE  SameAdmissions
BY DEF SameAdmissions, ServerDies, TypeOK, Request

\* Validation admits one more visitor, whose token is on record and alive.
LEMMA AdmitStep ==
  ASSUME IInv, NEW r \in Reqs, Back(r, "findToken", "found"),
         ~isExpired(r), req[r].owner = req[r].user, Validated(r),
         UNCHANGED <<issued, rows, now>>
  PROVE  Registry!Next
<1>1. PICK g \in issued : /\ g.token = req[r].token
                          /\ g.user = req[r].user
                          /\ g.expiresAt = req[r].expiresAt
                          /\ OnRecord(g)
  BY DEF IInv, RequestOK, FoundOK
<1>2. g.expiresAt \in Nat /\ now \in Nat
  BY ConstantsOK DEF IInv, TypeOK, Row, Times, ConstantsOK
<1>3. g \in rows /\ now <= g.expiresAt
  BY <1>1, <1>2 DEF OnRecord, isExpired
<1>4. /\ req'[r].validated /\ req'[r].user = req[r].user /\ req'[r].token = req[r].token
      /\ \A q \in Reqs : q # r => req'[q] = req[q]
  BY DEF Validated, Await, IInv, TypeOK, Request
<1>5. admissions' = admissions \union {<<r, g.user, g.token>>}
  BY <1>1, <1>4 DEF admissions
<1>6. Registry!Admit(r, g)
  BY <1>3, <1>5 DEF Registry!Admit
<1>7. QED
  BY <1>3, <1>6 DEF Registry!Next

\* Starting a request admits nobody: it has validated nothing yet.
LEMMA StartRefines ==
  ASSUME IInv, NEW r \in Reqs, Start(r)
  PROVE  UNCHANGED Registry!vars
<1>1. UNCHANGED <<issued, rows, now>>
  BY DEF Start, Login, GetInfo, stores, env
<1>2. ~req[r].validated
  BY DEF Start, Login, GetInfo, IInv, RequestOK, KindOK
<1>3. SameAdmissions
  <2>1. \A q \in Reqs : q # r => req'[q] = req[q]
    BY DEF Start, Login, GetInfo, IInv, TypeOK
  <2>2. req'[r].validated = req[r].validated
    <3>1. req[r] \in Request
      BY DEF IInv, TypeOK
    <3>2. CASE \E u \in Users, p \in Passwords : Login(r, u, p)
      BY <3>1, <3>2 DEF Login, Await, IInv, TypeOK, Request
    <3>3. CASE \E u \in Users, t \in Tokens : GetInfo(r, u, t)
      <4>1. PICK u \in Users, t \in Tokens : GetInfo(r, u, t)
        BY <3>3
      <4>2. QED
        BY <3>1, <4>1 DEF GetInfo, Await, IInv, TypeOK, Request
    <3>4. QED
      BY <3>2, <3>3 DEF Start
  <2>3. QED
    BY <1>2, <2>1, <2>2 DEF SameAdmissions
<1>4. QED
  BY <1>1, <1>3, AdmissionsKept DEF Registry!vars

\* A callback makes a token, admits a visitor, or changes nothing the registry sees.
LEMMA CallbackRefines ==
  ASSUME IInv, Client = "RedisUtils", NEW r \in Reqs, Callback(r)
  PROVE  Registry!Next \/ UNCHANGED Registry!vars
<1> USE DEF stores, env
<1>1. TypeOK /\ RequestOK(r)
  BY DEF IInv
<1>2. ASSUME UNCHANGED <<issued, rows, now>>, SameAdmissions
      PROVE  UNCHANGED Registry!vars
  BY <1>2, AdmissionsKept DEF Registry!vars
<1>3. CASE AuthenticationFails(r)
  BY <1>1, <1>2, <1>3, RespondAdmissions DEF AuthenticationFails
<1>4. CASE \E t \in Tokens : CreateToken(r, t)
  <2>1. PICK t \in Tokens : CreateToken(r, t)
    BY <1>4
  <2>2. /\ ~req[r].validated
        /\ req'[r].validated = req[r].validated
        /\ \A q \in Reqs : q # r => req'[q] = req[q]
    <3>1. req[r].kind = "login" /\ ~req[r].validated
      BY <1>1, <2>1 DEF CreateToken, Back, RequestOK, KindOK
    <3>2. req'[r].validated = req[r].validated
      BY <1>1, <2>1 DEF CreateToken, Await, TypeOK, Request
    <3>3. \A q \in Reqs : q # r => req'[q] = req[q]
      BY <1>1, <2>1 DEF CreateToken, TypeOK
    <3>4. QED
      BY <3>1, <3>2, <3>3
  <2>3. admissions' = admissions
    BY <2>2, AdmissionsKept DEF SameAdmissions
  <2>4. req[r].user \in Users /\ \A g \in issued : g.token # t
    BY <1>1, <2>1 DEF CreateToken, freshTokens, TypeOK, Request
  <2>5. Registry!Make(t, req[r].user)
    BY <2>1, <2>3, <2>4 DEF CreateToken, Registry!Make, expiresAfter
  <2>6. QED
    BY <2>4, <2>5 DEF Registry!Next
<1>5. CASE OnRowSaved(r)
  BY <1>1, <1>2, <1>5, AwaitAdmissions DEF OnRowSaved
<1>6. CASE OnRowSaveFailed(r)
  BY <1>1, <1>2, <1>6, RespondAdmissions DEF OnRowSaveFailed
<1>7. CASE OnRedisSaved(r)
  BY <1>1, <1>2, <1>7, RespondAdmissions DEF OnRedisSaved
<1>8. CASE OnRedisHit(r)
  BY <1>1, <1>8 DEF OnRedisHit, RequestOK, FoundOK
<1>9. CASE OnRedisMiss(r)
  BY <1>1, <1>2, <1>9, AwaitAdmissions DEF OnRedisMiss
<1>10. CASE OnTokenFound(r)
  <2>1. CASE \E code \in {401, 403} : Respond(r, code)
    BY <1>1, <1>2, <1>10, <2>1, RespondAdmissions DEF OnTokenFound
  <2>2. CASE ~isExpired(r) /\ req[r].owner = req[r].user /\ Validated(r)
    BY <1>10, <2>2, AdmitStep DEF OnTokenFound
  <2>3. QED
    BY <1>10, <2>1, <2>2 DEF OnTokenFound
<1>11. CASE OnTokenRefused(r)
  BY <1>1, <1>2, <1>11, RespondAdmissions DEF OnTokenRefused
<1>12. CASE OnUserInfo(r)
  BY <1>1, <1>2, <1>12, RespondAdmissions DEF OnUserInfo
<1>13. QED
  BY <1>3, <1>4, <1>5, <1>6, <1>7, <1>8, <1>9, <1>10, <1>11, <1>12 DEF Callback

\* The INSERT grants a token that was made; the other commands grant nothing.
LEMMA StoreStepRefines ==
  ASSUME IInv, NEW r \in Reqs, StoreStep(r)
  PROVE  Registry!Next \/ UNCHANGED Registry!vars
<1> USE DEF stores, env
<1>1. TypeOK /\ RequestOK(r)
  BY DEF IInv
<1>2. ASSUME UNCHANGED <<issued, rows, now>>, SameAdmissions
      PROVE  UNCHANGED Registry!vars
  BY <1>2, AdmissionsKept DEF Registry!vars
<1>3. CASE FindUser(r)
  BY <1>1, <1>2, <1>3, ReplyAdmissions DEF FindUser
<1>4. CASE SaveRow(r)
  <2>1. tokenOf(r) \in issued
    BY <1>1, <1>4 DEF SaveRow, Sent, RequestOK, LoginOK
  <2>2. admissions' = admissions
    BY <1>1, <1>4, ReplyAdmissions, AdmissionsKept DEF SaveRow
  <2>3. Registry!Grant(tokenOf(r))
    BY <1>4, <2>2 DEF SaveRow, Registry!Grant
  <2>4. QED
    BY <2>1, <2>3 DEF Registry!Next
<1>5. CASE FindToken(r)
  <2>1. CASE Reply(r, "absent")
    BY <1>1, <1>2, <1>5, <2>1, ReplyAdmissions DEF FindToken
  <2>2. CASE \E owner \in Users, expiry \in Times :
               req' = [req EXCEPT ![r] = [@ EXCEPT !.reply = "found",
                                                   !.owner = owner,
                                                   !.expiresAt = expiry]]
    <3>1. SameAdmissions
      BY <1>1, <2>2 DEF SameAdmissions, TypeOK, Request
    <3>2. QED
      BY <1>2, <1>5, <3>1 DEF FindToken
  <2>3. QED
    BY <1>1, <1>5, <2>1, <2>2 DEF FindToken, TypeOK, Row
<1>6. CASE SaveToRedis(r)
  BY <1>1, <1>2, <1>6, ReplyAdmissions DEF SaveToRedis
<1>7. CASE GetFromRedis(r)
  <2>1. CASE Reply(r, "null")
    BY <1>1, <1>2, <1>7, <2>1, ReplyAdmissions DEF GetFromRedis
  <2>2. CASE \E owner \in Users :
               req' = [req EXCEPT ![r] = [@ EXCEPT !.reply = "found",
                                                   !.owner = owner]]
    <3>1. SameAdmissions
      BY <1>1, <2>2 DEF SameAdmissions, TypeOK, Request
    <3>2. QED
      BY <1>2, <1>7, <3>1 DEF GetFromRedis
  <2>3. QED
    BY <1>1, <1>7, <2>1, <2>2 DEF GetFromRedis, TypeOK, Hash, Values
<1>8. QED
  BY <1>3, <1>4, <1>5, <1>6, <1>7 DEF StoreStep

LEMMA StoreFaultRefines ==
  ASSUME IInv, NEW r \in Reqs, StoreFault(r)
  PROVE  UNCHANGED Registry!vars
<1>1. UNCHANGED <<issued, rows, now>>
  BY DEF StoreFault, DatabaseFails, RedisFails, NullResultCrash, stores, env
<1>2. SameAdmissions
  BY ReplyAdmissions, ServerDiesAdmissions
     DEF StoreFault, DatabaseFails, RedisFails, NullResultCrash, IInv
<1>3. QED
  BY <1>1, <1>2, AdmissionsKept DEF Registry!vars

\* The cleanup withdraws at most one row, whose time is over; the clock ticks.
LEMMA WorldRefines ==
  ASSUME IInv, WorldStep
  PROVE  Registry!Next \/ UNCHANGED Registry!vars
<1> USE DEF stores, env
<1>1. ASSUME UNCHANGED <<issued, rows, now>>, SameAdmissions
      PROVE  UNCHANGED Registry!vars
  BY <1>1, AdmissionsKept DEF Registry!vars
<1>2. ASSUME UNCHANGED req
      PROVE  admissions' = admissions
  BY <1>2 DEF admissions
<1>3. CASE Cleanup
  <2>1. PICK m \in events : HandleExpiration(m)
    BY <1>3 DEF Cleanup
  <2>2. admissions' = admissions
    BY <1>2, <2>1 DEF HandleExpiration
  <2>3. CASE expiredRows(m) = {}
    BY <2>1, <2>2, <2>3 DEF HandleExpiration, Registry!vars
  <2>4. CASE expiredRows(m) # {}
    <3>1. PICK row \in expiredRows(m) : TRUE
      BY <2>4
    <3>2. \A other \in expiredRows(m) : other = row
      BY <3>1 DEF expiredRows, IInv, StoresOK, TokensUnique, RowsIssued
    <3>3. rows' = rows \ {row}
      BY <2>1, <3>1, <3>2 DEF HandleExpiration
    <3>4. row \in rows /\ row.expiresAt < now
      BY <3>1, CleanupIsLate DEF expiredRows
    <3>5. Registry!Withdraw(row)
      BY <2>1, <2>2, <3>3, <3>4 DEF HandleExpiration, Registry!Withdraw
    <3>6. QED
      BY <3>4, <3>5 DEF Registry!Next
  <2>5. QED
    BY <2>3, <2>4
<1>4. CASE Tick
  <2>1. Registry!Tick
    BY <1>2, <1>4 DEF Tick, Registry!Tick
  <2>2. QED
    BY <2>1 DEF Registry!Next
<1>5. CASE Crash
  <2>1. SameAdmissions
    BY <1>5, ServerDiesAdmissions DEF Crash, IInv
  <2>2. QED
    BY <1>1, <1>5, <2>1 DEF Crash
<1>6. CASE \/ Expiry \/ (\E m \in events : CleanupFails(m))
           \/ Subscribe \/ Restart \/ SubscriptionLost \/ RedisRestart
           \/ (\E u \in Users : AccountChanges(u))
  <2>1. UNCHANGED <<issued, rows, now, req>>
    BY <1>6 DEF Expiry, ExpireKey, CleanupFails, Subscribe, Restart, SubscriptionLost,
       RedisRestart, AccountChanges
  <2>2. QED
    BY <1>2, <2>1 DEF Registry!vars
<1>7. QED
  BY <1>3, <1>4, <1>5, <1>6 DEF WorldStep

\* With the server's own Redis client, UserService, its stores and the cleanup
\* together implement the token registry.
THEOREM ImplementsRegistry ==
  ASSUME Client = "RedisUtils"
  PROVE  Spec => RegistrySpec
<1>1. Init => Registry!Init
  BY DEF Init, Registry!Init, admissions, NewRequest
<1>2. IInv /\ [Next]_vars => [Registry!Next]_(Registry!vars)
  <2> SUFFICES ASSUME IInv, [Next]_vars
               PROVE  Registry!Next \/ UNCHANGED Registry!vars
    OBVIOUS
  <2>1. CASE UNCHANGED vars
    BY <2>1 DEF vars, Registry!vars, admissions
  <2>2. CASE Next
    BY <2>2, NextSplit, StartRefines, CallbackRefines, StoreStepRefines,
       StoreFaultRefines, WorldRefines
  <2>3. QED
    BY <2>1, <2>2
<1>3. QED
  BY <1>1, <1>2, Invariance, PTL DEF Spec, Registry!Spec, RegistrySpec

=============================================================================
