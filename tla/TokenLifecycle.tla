--------------------------- MODULE TokenLifecycle ---------------------------
(***************************************************************************)
(* The life of a user token in 20-mtcbb/httpserver: LoginHandler issues it *)
(* through UserService, PostgreSQL keeps it as a user_tokens row, Redis    *)
(* keeps a copy that expires, GetInfoHandler presents it, and              *)
(* TokenCleanupService deletes the row when Redis reports that the copy    *)
(* expired.                                                                *)
(*                                                                         *)
(* Every call to a store is asynchronous: a request first waits with reply *)
(* "pending", the store executes the command, and only later does the      *)
(* callback run with what the store saw.  The three are separate actions,  *)
(* so that other requests, the cleanup thread, the clock, a crash or an    *)
(* error can come between any two of them.                                 *)
(***************************************************************************)
EXTENDS Naturals

CONSTANTS
  Users,        \* user ids
  Passwords,    \* passwords a client may send
  PasswordOf,   \* user id -> the password behind its password_hash
  Tokens,       \* values drogon::utils::getUuid may return
  Reqs,         \* HTTP requests, each handled once
  Ttl,          \* the 60 of expiresAt and of expireSeconds
  MaxTime,      \* bound: the last instant of the clock
  MaxFaults,    \* bound: how many faults happen in a behaviour
  Client        \* which IRedisClient UserService was given

\* "RedisUtils" is the server's client (through RedisClientAdapter); "Contract"
\* finds a token under the key it was saved with, as IRedisClient's other
\* implementation in the repository, tests/mocks/MockRedisClient, does.
ClientKinds == {"RedisUtils", "Contract"}

ASSUME ConstantsOK ==
  /\ Users # {} /\ Tokens # {} /\ Passwords # {}
  /\ PasswordOf \in [Users -> Passwords]
  /\ Ttl \in Nat \ {0}
  /\ MaxTime \in Nat
  /\ MaxFaults \in Nat
  /\ Client \in ClientKinds

VARIABLES
  users,        \* the users table: what findUserById finds
  rows,         \* the user_tokens table
  redis,        \* the hashes Redis holds for tokens
  events,       \* expired-key messages published to the subscriber, unread
  subscribed,   \* the subscription to __keyevent@0__:expired is in force
  up,           \* the server process is running
  req,          \* the requests
  issued,       \* history: every UserTokens object createUserToken built
  now,          \* the clock, shared by the server, PostgreSQL and Redis
  faults        \* how many faults happened

vars == <<users, rows, redis, events, subscribed, up, req, issued, now, faults>>

-----------------------------------------------------------------------------
(* Data. *)

Times == 0 .. (MaxTime + Ttl)

\* What the users table has for a user id.
UserStates == {"absent", "inactive", "active"}

\* models::UserTokens
Row == [token : Tokens, user : Users, expiresAt : Times]

(* A Redis string: its text, and whether literal quotes surround it. *)
Plain(prefix, body) == [quoted |-> FALSE, prefix |-> prefix, body |-> body]

\* evalScript wraps every key and argument in quotes, which hiredis sends on.
evalScriptArg(text) == [text EXCEPT !.quoted = (Client = "RedisUtils")]

\* The key saveToken writes, and the key getTokenInfo reads.
savedKey(token) == evalScriptArg(Plain("token:", token))
lookupKey(token) ==
  IF Client = "RedisUtils" THEN Plain("token", token) ELSE savedKey(token)

\* Mutant: the message is taken as it comes, quotes included.
messageAsItCame(message) == message

\* trim, unescape and strip the quotes of an expired-key message.
normalizeMessage(message) == [message EXCEPT !.quoted = FALSE]

Keys == [quoted : BOOLEAN, prefix : {"token:", "token"}, body : Tokens]
Values == [quoted : BOOLEAN, prefix : {""}, body : Users]
Hash == [key : Keys, user_id : Values, deadline : Times]

savedHash(row, deadline) ==
  [ key      |-> savedKey(row.token),
    user_id  |-> evalScriptArg(Plain("", row.user)),
    deadline |-> deadline ]

\* Redis answers no read from a key whose deadline has passed.
Live(hash) == hash.deadline >= now

-----------------------------------------------------------------------------
(* Requests. *)

\* The callback a request waits for, or "done" (answered), or "lost" (the
\* server crashed while the request was in flight).
Waits == {"findUser", "insertToken", "redisSave",
          "redisGet", "findToken", "getUser"}
Pcs == Waits \union {"idle", "done", "lost"}
Replies == {"none", "pending", "error", "null", "saved", "found"} \union UserStates
Statuses == {0, 200, 401, 403, 404, 500}
AnyUser == CHOOSE u \in Users : TRUE
AnyToken == CHOOSE t \in Tokens : TRUE
AnyPassword == CHOOSE p \in Passwords : TRUE

Request ==
  [ pc        : Pcs,
    kind      : {"login", "getInfo"},
    user      : Users,
    password  : Passwords,
    token     : Tokens,      \* the token being created, or presented
    expiresAt : Times,       \* of the row being created, or found
    owner     : Users,       \* user id found in Redis or in the row
    reply     : Replies,     \* what the store answered
    status    : Statuses,    \* of the HTTP response, 0 before
    validated : BOOLEAN,     \* onTokenValidated ran
    answered  : BOOLEAN ]    \* a login had answered this token at the start

NewRequest ==
  [ pc |-> "idle", kind |-> "login", user |-> AnyUser, password |-> AnyPassword,
    token |-> AnyToken, expiresAt |-> 0, owner |-> AnyUser, reply |-> "none",
    status |-> 0, validated |-> FALSE, answered |-> FALSE ]

tokenOf(r) ==
  [token |-> req[r].token, user |-> req[r].user, expiresAt |-> req[r].expiresAt]

\* The client knows token t: a login answered it.
Answered(r) == req[r].kind = "login" /\ req[r].status = 200
AnsweredToken(t) == \E r \in Reqs : Answered(r) /\ req[r].token = t

\* The request waits at pc for a store that has not executed its command yet,
\* or whose answer is there for the callback to run.
Sent(r, pc) == req[r].pc = pc /\ req[r].reply = "pending"
Back(r, pc, reply) == req[r].pc = pc /\ req[r].reply = reply

\* Call a store, answer the client, or note what the store answered.
Await(r, pc) == [req[r] EXCEPT !.pc = pc, !.reply = "pending"]
Respond(r, code) ==
  req' = [req EXCEPT ![r] = [@ EXCEPT !.pc = "done", !.reply = "none",
                                      !.status = code]]
Reply(r, what) == req' = [req EXCEPT ![r] = [@ EXCEPT !.reply = what]]

stores == <<users, rows, redis, issued>>
server == <<events, subscribed, up>>
env == <<now, faults>>

Fault == faults < MaxFaults /\ faults' = faults + 1

-----------------------------------------------------------------------------
(* LoginHandler, UserService::authenticateUser and createUserToken. *)

\* LoginHandler::handle builds the handler, start calls authenticateUser.
Login(r, u, p) ==
  /\ up
  /\ req[r].pc = "idle"
  /\ req' = [req EXCEPT ![r] = [Await(r, "findUser") EXCEPT
                                  !.kind = "login", !.user = u, !.password = p]]
  /\ UNCHANGED <<stores, server, env>>

verifyPassword(password, u) == PasswordOf[u] = password

\* The callback of authenticateUser: database error, no such user, inactive, or
\* a wrong password.
AuthenticationFails(r) ==
  /\ req[r].pc = "findUser"
  /\ \/ req[r].reply = "error" /\ Respond(r, 500)
     \/ req[r].reply = "absent" /\ Respond(r, 401)
     \/ req[r].reply = "inactive" /\ Respond(r, 403)
     \/ /\ req[r].reply = "active"
        /\ ~verifyPassword(req[r].password, req[r].user)
        /\ Respond(r, 401)
  /\ UNCHANGED <<stores, server, env>>

\* getUuid never repeats itself; expiresAt = now + 60 seconds.
freshTokens == Tokens \ {g.token : g \in issued}

\* Mutant: the lifetime is added twice.
expiresTwiceAfter(t) == t + Ttl + Ttl

expiresAfter(t) == t + Ttl

\* Mutant: Redis before the database.
CreateTokenInRedis(r, token) ==
  LET newToken == [token |-> token, user |-> req[r].user,
                   expiresAt |-> expiresAfter(now)] IN
  /\ Back(r, "findUser", "active")
  /\ verifyPassword(req[r].password, req[r].user)
  /\ token \in freshTokens
  /\ issued' = issued \union {newToken}
  /\ req' = [req EXCEPT ![r] = [Await(r, "redisSave") EXCEPT
                                  !.token = token,
                                  !.expiresAt = newToken.expiresAt]]
  /\ UNCHANGED <<users, rows, redis, server, env>>

\* onUserAuthenticated: createUserToken draws a token, fixes its expiry and sends
\* the INSERT.
CreateToken(r, token) ==
  LET newToken == [token |-> token, user |-> req[r].user,
                   expiresAt |-> expiresAfter(now)] IN
  /\ Back(r, "findUser", "active")
  /\ verifyPassword(req[r].password, req[r].user)
  /\ token \in freshTokens
  /\ issued' = issued \union {newToken}
  /\ req' = [req EXCEPT ![r] = [Await(r, "insertToken") EXCEPT
                                  !.token = token,
                                  !.expiresAt = newToken.expiresAt]]
  /\ UNCHANGED <<users, rows, redis, server, env>>

\* The row is in the database: send EVALSHA batch_set_hash.
OnRowSaved(r) ==
  /\ Back(r, "insertToken", "saved")
  /\ req' = [req EXCEPT ![r] = Await(r, "redisSave")]
  /\ UNCHANGED <<stores, server, env>>

\* Mutant: a failed INSERT is answered as a success.
OnRowSaveIgnored(r) ==
  /\ Back(r, "insertToken", "error")
  /\ Respond(r, 200)
  /\ UNCHANGED <<stores, server, env>>

\* onTokenCreationFailed: the INSERT reported an error.
OnRowSaveFailed(r) ==
  /\ Back(r, "insertToken", "error")
  /\ Respond(r, 500)
  /\ UNCHANGED <<stores, server, env>>

\* The callback of saveToken calls onSuccess whatever Redis answered.
OnRedisSaved(r) ==
  /\ req[r].pc = "redisSave"
  /\ req[r].reply \in {"saved", "null"}
  /\ Respond(r, 200)
  /\ UNCHANGED <<stores, server, env>>

-----------------------------------------------------------------------------
(* GetInfoHandler, UserService::validateToken and getUserInfo. *)

\* GetInfoHandler::handle, start: validateToken asks Redis first.
GetInfo(r, u, t) ==
  /\ up
  /\ req[r].pc = "idle"
  /\ req' = [req EXCEPT ![r] = [Await(r, "redisGet") EXCEPT
                                  !.kind = "getInfo", !.user = u, !.token = t,
                                  !.answered = AnsweredToken(t)]]
  /\ UNCHANGED <<stores, server, env>>

\* onTokenValidated calls getUserInfo.
Validated(r) ==
  req' = [req EXCEPT ![r] = [Await(r, "getUser") EXCEPT !.validated = TRUE]]

\* Mutant: the user id found in Redis is not compared with the one presented.
OnRedisHitUnowned(r) ==
  /\ Back(r, "redisGet", "found")
  /\ Validated(r)
  /\ UNCHANGED <<stores, server, env>>

\* Redis has the token: it decides alone.
OnRedisHit(r) ==
  /\ Back(r, "redisGet", "found")
  /\ \/ req[r].owner = req[r].user /\ Validated(r)
     \/ req[r].owner # req[r].user /\ Respond(r, 403)
  /\ UNCHANGED <<stores, server, env>>

\* Mutant: what Redis does not have is refused, without a look at the database.
OnRedisMissRefused(r) ==
  /\ Back(r, "redisGet", "null")
  /\ Respond(r, 401)
  /\ UNCHANGED <<stores, server, env>>

\* Redis has no such key (or failed, which looks the same): ask the database.
OnRedisMiss(r) ==
  /\ Back(r, "redisGet", "null")
  /\ req' = [req EXCEPT ![r] = Await(r, "findToken")]
  /\ UNCHANGED <<stores, server, env>>

\* Mutants: the last instant of the lifetime is refused; nothing is ever expired.
isExpiredAtDeadline(r) == req[r].expiresAt <= now
neverExpired(r) == FALSE

\* The callback of findTokenByValue compares expiresAt with the clock it reads
\* itself, then the owner.
isExpired(r) == req[r].expiresAt < now

OnTokenFound(r) ==
  /\ Back(r, "findToken", "found")
  /\ \/ isExpired(r) /\ Respond(r, 401)
     \/ ~isExpired(r) /\ req[r].owner # req[r].user /\ Respond(r, 403)
     \/ ~isExpired(r) /\ req[r].owner = req[r].user /\ Validated(r)
  /\ UNCHANGED <<stores, server, env>>

\* Mutant: the database failed and nobody is told.
OnTokenErrorUnanswered(r) ==
  /\ Back(r, "findToken", "absent")
  /\ Respond(r, 401)
  /\ UNCHANGED <<stores, server, env>>

OnTokenRefused(r) ==
  /\ req[r].pc = "findToken"
  /\ \/ req[r].reply = "absent" /\ Respond(r, 401)
     \/ req[r].reply = "error" /\ Respond(r, 500)
  /\ UNCHANGED <<stores, server, env>>

\* onUserInfoRetrieved or onUserInfoFailed; is_active is not looked at.
OnUserInfo(r) ==
  /\ req[r].pc = "getUser"
  /\ \/ req[r].reply \in {"active", "inactive"} /\ Respond(r, 200)
     \/ req[r].reply = "absent" /\ Respond(r, 404)
     \/ req[r].reply = "error" /\ Respond(r, 500)
  /\ UNCHANGED <<stores, server, env>>

-----------------------------------------------------------------------------
(* The stores execute the commands sent to them. *)

\* UserRepository::findUserById
FindUser(r) ==
  /\ Sent(r, "findUser") \/ Sent(r, "getUser")
  /\ Reply(r, users[req[r].user])
  /\ UNCHANGED <<stores, server, env>>

\* UserRepository::saveToken.  The answer may be lost after the row is in.
SaveRow(r) ==
  /\ Sent(r, "insertToken")
  /\ rows' = rows \union {tokenOf(r)}
  /\ \/ Reply(r, "saved") /\ UNCHANGED faults
     \/ Reply(r, "error") /\ Fault
  /\ UNCHANGED <<users, redis, issued, server, now>>

\* UserRepository::findTokenByValue: the first row with that token.
FindToken(r) ==
  /\ Sent(r, "findToken")
  /\ \/ \E row \in rows :
          /\ row.token = req[r].token
          /\ req' = [req EXCEPT ![r] = [@ EXCEPT !.reply = "found",
                                                 !.owner = row.user,
                                                 !.expiresAt = row.expiresAt]]
     \/ /\ \A row \in rows : row.token # req[r].token
        /\ Reply(r, "absent")
  /\ UNCHANGED <<stores, server, env>>

\* A command to the database fails and has no effect.
DatabaseFails(r) ==
  /\ \E pc \in {"findUser", "insertToken", "findToken", "getUser"} : Sent(r, pc)
  /\ Reply(r, "error")
  /\ Fault
  /\ UNCHANGED <<stores, server, now>>

\* Mutant: the Redis key dies a second before the row.
expireSecondsShort == Ttl - 1

\* RedisUtils::saveToken: HSET and EXPIRE in one script.  The answer may be lost
\* after the script ran; evalScript turns every error into RedisResult(nullptr).
expireSeconds == Ttl

SaveToRedis(r) ==
  LET hash == savedHash(tokenOf(r), now + expireSeconds) IN
  /\ Sent(r, "redisSave")
  /\ redis' = {h \in redis : h.key # hash.key} \union {hash}
  /\ \/ Reply(r, "saved") /\ UNCHANGED faults
     \/ Reply(r, "null") /\ Fault
  /\ UNCHANGED <<users, rows, issued, server, now>>

\* RedisUtils::getTokenInfo: HGET <key> user_id.
GetFromRedis(r) ==
  /\ Sent(r, "redisGet")
  /\ \/ \E h \in redis :
          /\ Live(h) /\ h.key = lookupKey(req[r].token)
          /\ req' = [req EXCEPT ![r] = [@ EXCEPT !.reply = "found",
                                                 !.owner = h.user_id.body]]
     \/ /\ \A h \in redis : ~(Live(h) /\ h.key = lookupKey(req[r].token))
        /\ Reply(r, "null")
  /\ UNCHANGED <<stores, server, env>>

\* A command to Redis fails and has no effect; getTokenInfo maps that to nullopt.
RedisFails(r) ==
  /\ Sent(r, "redisSave") \/ Sent(r, "redisGet")
  /\ Reply(r, "null")
  /\ Fault
  /\ UNCHANGED <<stores, server, now>>

-----------------------------------------------------------------------------
(* Expiry in Redis, and the cleanup that follows from it. *)

\* Redis removes an expired key at some time after its deadline and publishes it
\* to whoever is subscribed then.
ExpireKey(h) ==
  /\ h \in redis
  /\ ~Live(h)
  /\ redis' = redis \ {h}
  /\ events' = IF subscribed THEN events \union {h.key} ELSE events
  /\ UNCHANGED <<users, rows, issued, subscribed, up, req, env>>

\* The message, freed of its quotes, must start with "token:"; what follows is the
\* token whose rows deleteBy deletes.
expiredRows(message) ==
  LET key == normalizeMessage(message) IN
  {row \in rows : ~key.quoted /\ key.prefix = "token:" /\ row.token = key.body}

\* The subscriber's callback: handleTokenExpiration and the synchronous delete.
HandleExpiration(message) ==
  /\ up
  /\ message \in events
  /\ events' = events \ {message}
  /\ rows' = rows \ expiredRows(message)
  /\ UNCHANGED <<users, redis, issued, subscribed, up, req, env>>

\* deleteBy throws: the exception is logged and the message is gone.
CleanupFails(message) ==
  /\ up
  /\ message \in events
  /\ events' = events \ {message}
  /\ Fault
  /\ UNCHANGED <<stores, subscribed, up, req, now>>

-----------------------------------------------------------------------------
(* The process, its subscription, and the world around it. *)

\* The SUBSCRIBE that TokenCleanupService::initialize sent takes effect; drogon
\* sends it again when the connection comes back.
Subscribe ==
  /\ up
  /\ ~subscribed
  /\ subscribed' = TRUE
  /\ UNCHANGED <<stores, events, up, req, env>>

\* Requests in flight are gone with the process.  A command a store executes
\* after the crash is one it executed just before it.
ServerDies ==
  /\ up' = FALSE
  /\ subscribed' = FALSE
  /\ events' = {}
  /\ req' = [r \in Reqs |-> IF req[r].pc \in Waits
                              THEN [req[r] EXCEPT !.pc = "lost", !.reply = "none"]
                              ELSE req[r]]

Crash ==
  /\ up
  /\ ServerDies
  /\ Fault
  /\ UNCHANGED <<stores, now>>

\* batchSetHash calls asInteger on RedisResult(nullptr): undefined behaviour.  The
\* other outcome, a number, is OnRedisSaved.
NullResultCrash(r) ==
  /\ Client = "RedisUtils"
  /\ Back(r, "redisSave", "null")
  /\ ServerDies
  /\ UNCHANGED <<stores, env>>

Restart ==
  /\ ~up
  /\ up' = TRUE
  /\ UNCHANGED <<stores, events, subscribed, req, env>>

\* The subscriber's connection breaks; what was published on it is lost.
SubscriptionLost ==
  /\ subscribed
  /\ subscribed' = FALSE
  /\ events' = {}
  /\ Fault
  /\ UNCHANGED <<stores, up, req, now>>

\* Redis restarts without its data: no expired-key message is published for it.
RedisRestart ==
  /\ redis' = {}
  /\ subscribed' = FALSE
  /\ events' = {}
  /\ Fault
  /\ UNCHANGED <<users, rows, issued, up, req, now>>

\* An administrator deactivates or removes an account.
AccountChanges(u) ==
  /\ users[u] = "active"
  /\ \E s \in {"inactive", "absent"} : users' = [users EXCEPT ![u] = s]
  /\ UNCHANGED <<rows, redis, issued, server, req, env>>

Tick ==
  /\ now < MaxTime
  /\ now' = now + 1
  /\ UNCHANGED <<stores, server, req, faults>>

-----------------------------------------------------------------------------

Init ==
  /\ users \in [Users -> UserStates]
  /\ rows = {}
  /\ redis = {}
  /\ events = {}
  /\ subscribed = FALSE
  /\ up = TRUE
  /\ req = [r \in Reqs |-> NewRequest]
  /\ issued = {}
  /\ now = 0
  /\ faults = 0

StoreStep(r) ==
  \/ FindUser(r) \/ SaveRow(r) \/ FindToken(r)
  \/ SaveToRedis(r) \/ GetFromRedis(r)

Callback(r) ==
  \/ AuthenticationFails(r) \/ (\E t \in Tokens : CreateToken(r, t))
  \/ OnRowSaved(r) \/ OnRowSaveFailed(r) \/ OnRedisSaved(r)
  \/ OnRedisHit(r) \/ OnRedisMiss(r)
  \/ OnTokenFound(r) \/ OnTokenRefused(r) \/ OnUserInfo(r)

Start(r) ==
  \/ \E u \in Users, p \in Passwords : Login(r, u, p)
  \/ \E u \in Users, t \in Tokens : GetInfo(r, u, t)

StoreFault(r) == DatabaseFails(r) \/ RedisFails(r) \/ NullResultCrash(r)

Cleanup == \E m \in events : HandleExpiration(m)
Expiry == \E h \in redis : ExpireKey(h)

Next ==
  \/ \E r \in Reqs : Start(r) \/ Callback(r) \/ StoreStep(r) \/ StoreFault(r)
  \/ Expiry \/ Cleanup \/ (\E m \in events : CleanupFails(m))
  \/ Subscribe \/ Crash \/ Restart \/ SubscriptionLost \/ RedisRestart
  \/ (\E u \in Users : AccountChanges(u))
  \/ Tick

Spec == Init /\ [][Next]_vars

\* The stores answer, the event loops run their callbacks, Redis' active expiry
\* cycle finds every expired key, the subscriber reads its messages, the
\* supervisor restarts the server, and time passes.
Fairness ==
  /\ \A r \in Reqs : WF_vars(StoreStep(r)) /\ WF_vars(Callback(r))
  /\ WF_vars(Expiry) /\ WF_vars(Cleanup)
  /\ WF_vars(Subscribe) /\ WF_vars(Restart) /\ WF_vars(Tick)

FairSpec == Spec /\ Fairness

-----------------------------------------------------------------------------
(* Properties. *)

\* Type correctness of the tables, the Redis keyspace and the requests.
TypeOK ==
  /\ users \in [Users -> UserStates]
  /\ rows \subseteq Row
  /\ redis \subseteq Hash
  /\ events \subseteq Keys
  /\ subscribed \in BOOLEAN
  /\ up \in BOOLEAN
  /\ req \in [Reqs -> Request]
  /\ issued \subseteq Row
  /\ now \in 0 .. MaxTime
  /\ faults \in 0 .. MaxFaults

\* The cleanup deletes a user_tokens row only after its expires_at: Redis' TTL is
\* set after expires_at was computed and counts as many seconds, so the message
\* cannot come before the row is dead (TokenCleanupService, createUserToken).
NoPrematureCleanup ==
  [][\A row \in rows : row \in rows' \/ row.expiresAt < now]_vars

\* A token a login answered stays valid in the database until it expires, through
\* crashes, Redis restarts, lost messages and Redis failures: createUserToken
\* answers only after the row is in.
AnsweredTokenIsDurable ==
  \A r \in Reqs : Answered(r) => tokenOf(r) \in rows \/ req[r].expiresAt < now

\* Redis never vouches for a token whose row the database does not have, except
\* past its expiry: the row is written first and outlives no key it should not.
RedisBackedByRow ==
  \A h \in redis :
    \E row \in issued :
      /\ h.key = savedKey(row.token)
      /\ h.user_id.body = row.user
      /\ row \in rows \/ row.expiresAt < now

\* A client that holds an answered token is never told 401 while the token is
\* valid, and 403 only if it is not the token's owner, whichever of Redis and the
\* database answers validateToken and whatever the cleanup does meanwhile.
AnsweredTokenAccepted ==
  \A r \in Reqs :
    req[r].kind = "getInfo" /\ req[r].answered =>
      \A row \in issued :
        row.token = req[r].token =>
          /\ req[r].status = 401 => row.expiresAt < now
          /\ req[r].status = 403 => row.user # req[r].user

\* User information is given out only for a token that createUserToken issued to
\* that very user (GetInfoHandler::onTokenValidated).
InfoOnlyToOwner ==
  \A r \in Reqs :
    req[r].validated => \E row \in issued : /\ row.token = req[r].token
                                            /\ row.user = req[r].user

\* The specification this one implements: the tokens made are those createUserToken
\* built, the grants on record are the rows, and a visit is admitted when
\* onTokenValidated runs.
admissions ==
  {<<r, req[r].user, req[r].token>> : r \in {q \in Reqs : req[q].validated}}

Registry == INSTANCE TokenRegistry
  WITH Visits <- Reqs, Lifetime <- Ttl, made <- issued, grants <- rows,
       admitted <- admissions, time <- now

\* With the server's own Redis client, in which every validation is decided by the
\* database, UserService implements the registry: no early withdrawal, no admission
\* of a stranger or after the expiry, whatever interleaves, fails or crashes.
RegistrySpec == Registry!Spec

\* Whatever fails, a request that started is answered, or dies with the server after
\* something failed: each path of the nested callbacks ends in one of the two.
EveryRequestSettled ==
  \A r \in Reqs :
    req[r].pc # "idle" ~> \/ req[r].pc = "done"
                          \/ req[r].pc = "lost" /\ faults > 0

\* A token that is in Redis when the subscription is in force has its row deleted
\* once its time is over, unless something fails.
SavedTokenCleanedUp ==
  \A t \in Tokens :
    (\E h \in redis : h.key = savedKey(t) /\ h.deadline < MaxTime /\ subscribed)
      ~> \/ \A row \in rows : row.token # t
         \/ faults > 0

\* The deletion of token t's rows is under way: its key is in Redis and its expiry will be
\* heard of, or the message waits to be read.
awaitsCleanup(t) ==
  \/ subscribed /\ \E h \in redis : h.key = savedKey(t)
  \/ savedKey(t) \in events

\* It stays under way until the rows are gone, whoever saves, reads, expires or
\* deletes what meanwhile, except in a step that fails or in which the server dies
\* (RedisUtils' subscription, TokenCleanupService::handleTokenExpiration).
CleanupNeverForgotten ==
  [][\A t \in Tokens :
       awaitsCleanup(t) =>
         \/ awaitsCleanup(t)'
         \/ \A row \in rows' : row.token # t
         \/ faults' # faults
         \/ up /\ ~up']_vars

\* A token in Redis is found there (tests/test_user_service.cpp, "from Redis"), unless
\* the command fails.
SavedTokenFoundInRedis ==
  [][\A r \in Reqs :
       /\ Sent(r, "redisGet")
       /\ \E h \in redis : Live(h) /\ h.key = savedKey(req[r].token)
       /\ req'[r].reply = "null"
       => faults' # faults]_vars

\* A failing Redis does not take the server down when it saves a token: the login
\* is answered all the same (tests/test_user_service.cpp, "even if Redis fails").
RedisFailureSurvived ==
  [][\A r \in Reqs :
       Back(r, "redisSave", "null") /\ req'[r].pc = "lost" => faults' # faults]_vars

=============================================================================
