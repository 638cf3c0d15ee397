---------------------------- MODULE SystemSession ----------------------------
(***************************************************************************)
(* The sessions of 20-mtcbb/httpserver: SystemController and SystemService *)
(* exchange a software licence for an account token and, with it, a user's *)
(* password for an SSO cookie; keepAlive refreshes both; AuthFilter lets a *)
(* request through when token and cookie belong together.                  *)
(*                                                                         *)
(* All that lasts is in Redis, under account_token:<token> and             *)
(* sso:<cookie>.  A request waits for one Redis or database command at a   *)
(* time; sending it, its execution and its callback are separate steps.    *)
(***************************************************************************)
EXTENDS Naturals

CONSTANTS
  Consumers,      \* oauth_consumer_key values
  Secrets,        \* oauth_consumer_secret values
  Licenses,       \* licenses_: the pairs that registerLicense accepts
  Users,          \* user names
  Passwords,      \* passwords a client may send
  PasswordOf,     \* user name -> the password behind its password_hash
  Tokens,         \* values generateToken may return for an account token
  Cookies,        \* values generateToken may return for an SSO cookie
  Reqs,           \* HTTP requests, each handled once
  AccountTtl,     \* kAccountTokenTTL
  SsoTtl,         \* kSsoCookieTTL
  MaxTime,        \* bound: the last instant of the clock
  MaxFaults,      \* bound: how many faults happen in a behaviour
  Client          \* which IRedisClient SystemService was given

\* "RedisUtils" is the server's client; "Contract" is one whose get reads the key
\* it is asked for, as IRedisClient's other implementation,
\* tests/mocks/MockRedisClient, does.
ClientKinds == {"RedisUtils", "Contract"}

ASSUME ConstantsOK ==
  /\ Users # {} /\ Passwords # {} /\ Tokens # {} /\ Cookies # {}
  /\ Licenses \subseteq Consumers \X Secrets
  /\ PasswordOf \in [Users -> Passwords]
  /\ SsoTtl \in Nat \ {0}
  /\ AccountTtl \in Nat /\ AccountTtl > SsoTtl
  /\ MaxTime \in Nat
  /\ MaxFaults \in Nat
  /\ Client \in ClientKinds

VARIABLES
  filtered,   \* config.json puts AuthFilter in front of the login route
  users,      \* the users table: what findUserById finds
  redis,      \* the strings Redis holds
  up,         \* the server process is running
  req,        \* the requests
  licensed,   \* history: account tokens registerLicense made, and for what licence
  opened,     \* history: cookies loginUser made, for whom and when
  now,        \* the clock of the server and of Redis
  faults      \* how many faults happened

vars == <<filtered, users, redis, up, req, licensed, opened, now, faults>>

-----------------------------------------------------------------------------
(* Data. *)

Times == 0 .. (MaxTime + AccountTtl)
UserStates == {"absent", "inactive", "active"}

accountTokenKey(token) == [space |-> "account_token", name |-> token]
ssoKey(cookie) == [space |-> "sso", name |-> cookie]
Keys == {accountTokenKey(t) : t \in Tokens} \union {ssoKey(c) : c \in Cookies}

\* The value of an account token is its consumer key, the value of a cookie is
\* "accountToken:username".
Consumer(c) == [colon |-> FALSE, consumer |-> c]
ssoValue(token, user) == [colon |-> TRUE, token |-> token, user |-> user]
Values == {Consumer(c) : c \in Consumers}
            \union {ssoValue(t, u) : t \in Tokens, u \in Users}

Entry == [key : Keys, value : Values, deadline : Times]

\* Redis answers no read from a key whose deadline has passed.
Live(entry) == entry.deadline >= now

-----------------------------------------------------------------------------
(* Requests. *)

\* The callback a request waits for.
Gets == {"validateSession", "loginUser", "keepAccount", "keepSession"}
Sets == {"registerLicense", "openSession", "refreshAccount", "refreshSession"}
Waits == Gets \union Sets \union {"findUser"}
Pcs == Waits \union {"idle", "done", "lost"}
Kinds == {"token", "login", "keepAlive", "guarded"}
Replies == {"none", "pending", "ok", "failed", "found", "null", "error"}
             \union UserStates

\* 200 and the error codes of SystemService, of the controller (1000) and of
\* AuthFilter (401).
Codes == {0, 200, 401, 500} \union 1000 .. 1006

AnyUser == CHOOSE u \in Users : TRUE
AnyPassword == CHOOSE p \in Passwords : TRUE
AnyToken == CHOOSE t \in Tokens : TRUE
AnyCookie == CHOOSE c \in Cookies : TRUE

Request ==
  [ pc       : Pcs,
    kind     : Kinds,
    token    : Tokens,    \* account_token: presented, or being made
    cookie   : Cookies,   \* SSO_COOKIE_KEY: presented, or being made
    user     : Users,
    password : Passwords,
    key      : Keys,      \* of the Redis command
    value    : Values,    \* what a SET writes, or a GET found
    reply    : Replies,
    code     : Codes,     \* of the answer, 0 before
    admitted : BOOLEAN,   \* AuthFilter called the rest of the chain
    entitled : BOOLEAN ]  \* a login had answered the cookie it presents

NewRequest ==
  [ pc |-> "idle", kind |-> "token", token |-> AnyToken, cookie |-> AnyCookie,
    user |-> AnyUser, password |-> AnyPassword,
    key |-> accountTokenKey(AnyToken), value |-> ssoValue(AnyToken, AnyUser),
    reply |-> "none", code |-> 0, admitted |-> FALSE, entitled |-> FALSE ]

Sent(r, pc) == req[r].pc = pc /\ req[r].reply = "pending"
Back(r, pc, reply) == req[r].pc = pc /\ req[r].reply = reply

\* Send a command, in a request whose record is q otherwise.
SendGet(q, pc, key) == [q EXCEPT !.pc = pc, !.key = key, !.reply = "pending"]
SendSet(q, pc, key, value) ==
  [q EXCEPT !.pc = pc, !.key = key, !.value = value, !.reply = "pending"]

Respond(r, code) ==
  req' = [req EXCEPT ![r] = [@ EXCEPT !.pc = "done", !.reply = "none",
                                      !.code = code]]
Reply(r, what) == req' = [req EXCEPT ![r] = [@ EXCEPT !.reply = what]]

stores == <<filtered, users, redis, licensed, opened>>
env == <<up, now, faults>>

Fault == faults < MaxFaults /\ faults' = faults + 1

\* A login answered this token and this cookie to its client.
LoggedIn(token, cookie) ==
  \E r \in Reqs : /\ req[r].kind = "login" /\ req[r].code = 200
                  /\ req[r].token = token /\ req[r].cookie = cookie

-----------------------------------------------------------------------------
(* SystemController::getAccountToken, SystemService::registerLicense. *)

\* A parameter or the cookie is missing: the handler answers 1000, the filter 401.
MissingParameters(r) ==
  /\ up /\ req[r].pc = "idle"
  /\ \E kind \in {"token", "login", "guarded"} :
       req' = [req EXCEPT ![r] =
         [@ EXCEPT !.pc = "done", !.kind = kind,
                   !.code = IF kind = "guarded" \/ (kind = "login" /\ filtered)
                              THEN 401 ELSE 1000]]
  /\ UNCHANGED <<stores, env>>

GetAccountToken(r, consumer, secret, token) ==
  /\ up /\ req[r].pc = "idle"
  /\ \/ /\ <<consumer, secret>> \notin Licenses
        /\ req' = [req EXCEPT ![r] = [@ EXCEPT !.pc = "done", !.code = 1001]]
        /\ UNCHANGED licensed
     \/ /\ <<consumer, secret>> \in Licenses
        /\ \A a \in licensed : a.token # token
        /\ licensed' = licensed \union
             {[token |-> token, consumer |-> consumer, secret |-> secret]}
        /\ req' = [req EXCEPT ![r] =
             SendSet([@ EXCEPT !.token = token], "registerLicense",
                     accountTokenKey(token), Consumer(consumer))]
  /\ UNCHANGED <<filtered, users, redis, opened, env>>

\* Mutant: a failed SET is not answered.
OnLastSetFailedSilently(r) ==
  /\ \E pc \in {"registerLicense", "openSession", "refreshSession"} :
       req[r].pc = pc
  /\ req[r].reply = "ok"
  /\ Respond(r, 200)
  /\ UNCHANGED <<stores, env>>

\* The callback of a SET that ends the operation.
OnLastSet(r) ==
  /\ \E pc \in {"registerLicense", "openSession", "refreshSession"} :
       req[r].pc = pc
  /\ \/ req[r].reply = "ok" /\ Respond(r, 200)
     \/ req[r].reply = "failed" /\ Respond(r, 500)
  /\ UNCHANGED <<stores, env>>

-----------------------------------------------------------------------------
(* SystemController::login, SystemService::loginUser. *)

AskForAccount(q) == SendGet(q, "loginUser", accountTokenKey(q.token))
AskForSession(q) == SendGet(q, "validateSession", ssoKey(q.cookie))

\* Mutant: the filter lets the login route pass.
LoginUnfiltered(r, token, cookie, user, password) ==
  /\ up /\ req[r].pc = "idle"
  /\ req' = [req EXCEPT ![r] =
       AskForAccount([@ EXCEPT !.kind = "login", !.token = token, !.user = user,
                               !.password = password])]
  /\ UNCHANGED <<stores, env>>

\* The login route.  With AuthFilter in front of it the request also brings a
\* cookie, and loginUser has to wait for validateSession: SessionAccepted goes on with
\* the handler's own check of the user name and the password.
Login(r, token, cookie, user, password) ==
  LET q == [req[r] EXCEPT !.kind = "login", !.token = token, !.cookie = cookie,
                          !.user = user, !.password = password] IN
  /\ up /\ req[r].pc = "idle"
  /\ req' = [req EXCEPT ![r] = IF filtered THEN AskForSession(q)
                                           ELSE AskForAccount(q)]
  /\ UNCHANGED <<stores, env>>

\* Any value under account_token:<token> will do.
OnAccountFound(r) ==
  /\ req[r].pc = "loginUser"
  /\ \/ req[r].reply = "null" /\ Respond(r, 1002)
     \/ /\ req[r].reply = "found"
        /\ req' = [req EXCEPT ![r] = [@ EXCEPT !.pc = "findUser",
                                               !.reply = "pending"]]
  /\ UNCHANGED <<stores, env>>

verifyPassword(password, user) == PasswordOf[user] = password

LoginRefused(r) ==
  /\ req[r].pc = "findUser"
  /\ \/ req[r].reply = "absent" /\ Respond(r, 1003)
     \/ req[r].reply = "inactive" /\ Respond(r, 1004)
     \/ /\ req[r].reply = "active"
        /\ ~verifyPassword(req[r].password, req[r].user)
        /\ Respond(r, 1005)
     \/ req[r].reply = "error" /\ Respond(r, 500)
  /\ UNCHANGED <<stores, env>>

\* The password is right: draw a cookie and write it.
OpenSession(r, cookie) ==
  /\ Back(r, "findUser", "active")
  /\ verifyPassword(req[r].password, req[r].user)
  /\ \A s \in opened : s.cookie # cookie
  /\ opened' = opened \union
       {[cookie |-> cookie, token |-> req[r].token, user |-> req[r].user,
         password |-> req[r].password, since |-> now]}
  /\ req' = [req EXCEPT ![r] =
       SendSet([@ EXCEPT !.cookie = cookie], "openSession", ssoKey(cookie),
               ssoValue(req[r].token, req[r].user))]
  /\ UNCHANGED <<filtered, users, redis, licensed, env>>

-----------------------------------------------------------------------------
(* SystemService::keepAlive: read and write back one key, then the other. *)

KeepAlive(r, token, cookie) ==
  /\ up /\ req[r].pc = "idle"
  /\ req' = [req EXCEPT ![r] =
       SendGet([@ EXCEPT !.kind = "keepAlive", !.token = token, !.cookie = cookie],
               "keepAccount", accountTokenKey(token))]
  /\ UNCHANGED <<stores, env>>

OnKeepAccount(r) ==
  /\ req[r].pc = "keepAccount"
  /\ \/ req[r].reply = "null" /\ Respond(r, 1002)
     \/ /\ req[r].reply = "found"
        /\ req' = [req EXCEPT ![r] =
             SendSet(@, "refreshAccount", accountTokenKey(@.token), @.value)]
  /\ UNCHANGED <<stores, env>>

\* Mutant: the cookie's key is written without being read.
OnAccountRefreshedBlindly(r) ==
  /\ req[r].pc = "refreshAccount"
  /\ \/ req[r].reply = "failed" /\ Respond(r, 500)
     \/ /\ req[r].reply = "ok"
        /\ req' = [req EXCEPT ![r] =
             SendSet(@, "refreshSession", ssoKey(@.cookie), @.value)]
  /\ UNCHANGED <<stores, env>>

OnAccountRefreshed(r) ==
  /\ req[r].pc = "refreshAccount"
  /\ \/ req[r].reply = "failed" /\ Respond(r, 500)
     \/ /\ req[r].reply = "ok"
        /\ req' = [req EXCEPT ![r] = SendGet(@, "keepSession", ssoKey(@.cookie))]
  /\ UNCHANGED <<stores, env>>

OnKeepSession(r) ==
  /\ req[r].pc = "keepSession"
  /\ \/ req[r].reply = "null" /\ Respond(r, 1006)
     \/ /\ req[r].reply = "found"
        /\ req' = [req EXCEPT ![r] =
             SendSet(@, "refreshSession", ssoKey(@.cookie), @.value)]
  /\ UNCHANGED <<stores, env>>

-----------------------------------------------------------------------------
(* AuthFilter::doFilter and SystemService::validateSession. *)

\* A request to any other route behind the filter.
Guarded(r, token, cookie) ==
  /\ up /\ req[r].pc = "idle"
  /\ req' = [req EXCEPT ![r] =
       AskForSession([@ EXCEPT !.kind = "guarded", !.token = token,
                               !.cookie = cookie,
                               !.entitled = LoggedIn(token, cookie)])]
  /\ UNCHANGED <<stores, env>>

\* Mutant: any value under the cookie's key will do.
sessionFound(r) == req[r].value.colon

\* The cookie's value starts with the account token that was presented.
sessionMatches(r) == req[r].value.colon /\ req[r].value.token = req[r].token

\* The session is good: fccb goes on with the request.  A login may lack what the filter
\* does not look at, the user name or the password.
SessionAccepted(r) ==
  /\ Back(r, "validateSession", "found")
  /\ sessionMatches(r)
  /\ \E complete \in BOOLEAN :
       req' = [req EXCEPT ![r] =
         IF @.kind = "login" /\ complete
           THEN AskForAccount([@ EXCEPT !.admitted = TRUE])
           ELSE [@ EXCEPT !.pc = "done", !.reply = "none",
                          !.code = IF req[r].kind = "login" THEN 1000 ELSE 200,
                          !.admitted = TRUE]]
  /\ UNCHANGED <<stores, env>>

\* No session, a corrupted one or another token's: the filter answers 401 to all.
SessionRefused(r) ==
  /\ req[r].pc = "validateSession"
  /\ \/ req[r].reply = "null"
     \/ req[r].reply = "found" /\ ~sessionMatches(r)
  /\ Respond(r, 401)
  /\ UNCHANGED <<stores, env>>

-----------------------------------------------------------------------------
(* Redis and the database execute the commands sent to them. *)

\* Mutants: the two lifetimes are added; every key lives a second less.
ttlSum(pc) == AccountTtl + SsoTtl
ttlShort(pc) == IF pc \in {"registerLicense", "refreshAccount"} THEN AccountTtl
                                                               ELSE SsoTtl - 1

ttlOf(pc) == IF pc \in {"registerLicense", "refreshAccount"} THEN AccountTtl
                                                             ELSE SsoTtl

\* RedisUtils::set.  The answer may be lost after the key is written.
SetKey(r) ==
  LET entry == [key |-> req[r].key, value |-> req[r].value,
                deadline |-> now + ttlOf(req[r].pc)] IN
  /\ \E pc \in Sets : Sent(r, pc)
  /\ redis' = {e \in redis : e.key # entry.key} \union {entry}
  /\ \/ Reply(r, "ok") /\ UNCHANGED faults
     \/ Reply(r, "failed") /\ Fault
  /\ UNCHANGED <<filtered, users, licensed, opened, up, now>>

\* A client that reads the key it is asked for finds one entry or none.
\* RedisUtils::get sends "GET %s" without the key: what the command names is
\* undefined, so it finds any string of Redis or none.
readable(r) ==
  {e \in redis : Live(e) /\ (Client = "Contract" => e.key = req[r].key)}

GetKey(r) ==
  /\ \E pc \in Gets : Sent(r, pc)
  /\ \/ \E e \in readable(r) :
          req' = [req EXCEPT ![r] = [@ EXCEPT !.reply = "found",
                                              !.value = e.value]]
     \/ /\ Client = "RedisUtils" \/ readable(r) = {}
        /\ Reply(r, "null")
  /\ UNCHANGED <<stores, env>>

\* An error: set answers false, get answers nullopt.
RedisFails(r) ==
  /\ \/ (\E pc \in Sets : Sent(r, pc)) /\ Reply(r, "failed")
     \/ (\E pc \in Gets : Sent(r, pc)) /\ Reply(r, "null")
  /\ Fault
  /\ UNCHANGED <<stores, up, now>>

\* UserRepository::findUserById
FindUser(r) ==
  /\ Sent(r, "findUser")
  /\ \/ Reply(r, users[req[r].user]) /\ UNCHANGED faults
     \/ Reply(r, "error") /\ Fault
  /\ UNCHANGED <<stores, up, now>>

\* Redis drops a key after its deadline.
ExpireKey ==
  \E e \in redis :
    /\ ~Live(e)
    /\ redis' = redis \ {e}
    /\ UNCHANGED <<filtered, users, licensed, opened, req, env>>

RedisRestart ==
  /\ redis # {}
  /\ redis' = {}
  /\ Fault
  /\ UNCHANGED <<filtered, users, licensed, opened, up, req, now>>

-----------------------------------------------------------------------------
(* The process and the world around it. *)

ServerDies ==
  /\ up' = FALSE
  /\ req' = [r \in Reqs |-> IF req[r].pc \in Waits
                              THEN [req[r] EXCEPT !.pc = "lost", !.reply = "none"]
                              ELSE req[r]]

Crash ==
  /\ up
  /\ ServerDies
  /\ Fault
  /\ UNCHANGED <<stores, now>>

\* hiredis formats the missing argument of RedisUtils::get: undefined behaviour.
FormatCrash(r) ==
  /\ Client = "RedisUtils"
  /\ \E pc \in Gets : Sent(r, pc)
  /\ ServerDies
  /\ UNCHANGED <<stores, now, faults>>

Restart ==
  /\ ~up
  /\ up' = TRUE
  /\ UNCHANGED <<stores, req, now, faults>>

\* An administrator deactivates or removes an account.
AccountChanges(u) ==
  /\ users[u] = "active"
  /\ \E s \in {"inactive", "absent"} : users' = [users EXCEPT ![u] = s]
  /\ UNCHANGED <<filtered, redis, licensed, opened, req, env>>

Tick ==
  /\ now < MaxTime
  /\ now' = now + 1
  /\ UNCHANGED <<stores, up, req, faults>>

-----------------------------------------------------------------------------

Init ==
  /\ filtered \in BOOLEAN
  /\ users \in [Users -> UserStates]
  /\ redis = {}
  /\ up = TRUE
  /\ req = [r \in Reqs |-> NewRequest]
  /\ licensed = {}
  /\ opened = {}
  /\ now = 0
  /\ faults = 0

Start(r) ==
  \/ MissingParameters(r)
  \/ \E k \in Consumers, s \in Secrets, t \in Tokens : GetAccountToken(r, k, s, t)
  \/ \E t \in Tokens, c \in Cookies :
       \/ KeepAlive(r, t, c)
       \/ Guarded(r, t, c)
       \/ \E u \in Users, p \in Passwords : Login(r, t, c, u, p)

Callback(r) ==
  \/ OnLastSet(r)
  \/ OnAccountFound(r) \/ LoginRefused(r) \/ (\E c \in Cookies : OpenSession(r, c))
  \/ OnKeepAccount(r) \/ OnAccountRefreshed(r) \/ OnKeepSession(r)
  \/ SessionAccepted(r) \/ SessionRefused(r)

StoreStep(r) == SetKey(r) \/ GetKey(r) \/ FindUser(r)

Next ==
  \/ \E r \in Reqs :
       Start(r) \/ Callback(r) \/ StoreStep(r) \/ RedisFails(r) \/ FormatCrash(r)
  \/ ExpireKey \/ RedisRestart \/ Crash \/ Restart
  \/ (\E u \in Users : AccountChanges(u))
  \/ Tick

Spec == Init /\ [][Next]_vars

\* The stores answer and the event loops run the callbacks.
Fairness == \A r \in Reqs : WF_vars(StoreStep(r)) /\ WF_vars(Callback(r))

FairSpec == Spec /\ Fairness

-----------------------------------------------------------------------------
(* Properties. *)

\* Type correctness of the tables, the Redis keyspace and the requests.
TypeOK ==
  /\ filtered \in BOOLEAN
  /\ users \in [Users -> UserStates]
  /\ redis \subseteq Entry
  /\ up \in BOOLEAN
  /\ req \in [Reqs -> Request]
  /\ licensed \subseteq [token : Tokens, consumer : Consumers, secret : Secrets]
  /\ opened \subseteq [cookie : Cookies, token : Tokens, user : Users,
                       password : Passwords, since : 0 .. MaxTime]
  /\ now \in 0 .. MaxTime
  /\ faults \in 0 .. MaxFaults

\* A request gets through AuthFilter only with a cookie that loginUser made, for
\* the account token it presents and for a user who gave the right password, and
\* that token comes from registerLicense and a licence it accepts.
AdmissionTraced ==
  \A q \in Reqs :
    req[q].admitted =>
      \E s \in opened, a \in licensed :
        /\ req[q].kind = "guarded" => s.cookie = req[q].cookie
        /\ s.token = req[q].token
        /\ PasswordOf[s.user] = s.password
        /\ a.token = s.token
        /\ <<a.consumer, a.secret>> \in Licenses

\* A client that logged in is not told 401 while its session, counted from before
\* it was written, is within kSsoCookieTTL, whatever keepAlive does to the two keys
\* meanwhile; a fault excuses it (AuthFilter.hpp, the three conditions).
AnsweredSessionAccepted ==
  \A q \in Reqs :
    req[q].entitled /\ req[q].code = 401 =>
      \/ faults > 0
      \/ \E s \in opened : s.cookie = req[q].cookie /\ s.since + SsoTtl < now

\* A cookie belongs to one login for ever: the key it names in Redis holds that
\* login's token and user, also when keepAlive has written it back.
CookieNamesItsLogin ==
  \A e \in redis :
    e.key.space = "sso" =>
      \E s \in opened : /\ e.key = ssoKey(s.cookie)
                        /\ e.value = ssoValue(s.token, s.user)

\* With AuthFilter in front of the login route nobody ever gets a session: the login
\* asks for the cookie that only a login gives out (config.json, AuthFilter).
NoSessionBehindFilter == filtered => opened = {}

\* Whatever fails, a request that started is answered, or dies with the server after
\* something failed: a GET without its key counts as such.
EveryRequestSettled ==
  \A r \in Reqs :
    req[r].pc # "idle" ~>
      \/ req[r].pc = "done"
      \/ req[r].pc = "lost" /\ (faults > 0 \/ Client = "RedisUtils")

\* When AuthFilter finds the session it asks Redis for, the account token is in
\* Redis too (AuthFilter.hpp, condition 1).
AdmittedTokenAlive ==
  [][\A r \in Reqs :
       /\ Sent(r, "validateSession")
       /\ req'[r].reply = "found"
       /\ req'[r].value = ssoValue(req[r].token, req[r].user)
       => \E e \in redis : Live(e) /\ e.key = accountTokenKey(req[r].token)]_vars

\* Refinement mapping: a session on record is a cookie's key, a visit is decided when
\* GetKey found the session it asked for and let in when SessionAccepted went on with it.
issuedTokens == {a.token : a \in licensed}
madeSessions == {[cookie |-> s.cookie, token |-> s.token, user |-> s.user] : s \in opened}
onRecord ==
  {[cookie |-> e.key.name, token |-> e.value.token, user |-> e.value.user,
    until |-> e.deadline] : e \in {x \in redis : x.key.space = "sso"}}
pass(r) == [visit |-> r, cookie |-> req[r].cookie, token |-> req[r].token]
goodFound(r) == Back(r, "validateSession", "found") /\ sessionMatches(r)

Registry == INSTANCE SessionRegistry
  WITH Visits <- Reqs, Lifetime <- SsoTtl, time <- now,
       issued <- issuedTokens, made <- madeSessions, sessions <- onRecord,
       decided <- {pass(r) : r \in {q \in Reqs : goodFound(q)}},
       admitted <- {pass(r) : r \in {q \in Reqs : req[q].admitted}}

\* With a client that reads the key it is asked for, the session service and the filter
\* implement the registry: whatever keepAlive writes back late and whatever fails, no
\* session changes hands, lives longer than a write gives it or goes alone before its end,
\* and nobody is let in whose session was not on record, alive, after he asked.
SessionRegistrySpec == Registry!Spec

=============================================================================
