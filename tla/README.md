# Verification of h323server

The repository is a C++ project around H.323 video conferencing. Its own code is
the HTTP server in `20-mtcbb/httpserver` (Drogon, PostgreSQL, Redis) with the Lua
scripts it runs in Redis, `10-common/version/config/luascript`. Everything else is
vendored headers, build scripts, generated ORM classes and two small demos. Paths
below are relative to `20-mtcbb/httpserver/` unless they start at the repository
root (`10-common/`, `20-mtcbb/`).

## The system

| Component | State it keeps | Operations | Talks to |
|---|---|---|---|
| `LoginHandler`, `GetInfoHandler` | one object per request: user id, password or token, the HTTP callback | `handle`, then one method per callback | `UserService` |
| `UserService` | none of its own | `authenticateUser`, `createUserToken`, `validateToken`, `getUserInfo` | `IUserRepository`, `IRedisClient` |
| `UserRepository` | PostgreSQL tables `users`, `user_tokens` | `findUserById`, `saveToken`, `findTokenByValue`, `deleteToken` (no caller) | PostgreSQL, asynchronously |
| `RedisUtils` behind `RedisClientAdapter` | the Redis keyspace, the client and subscriber connections, "initialized" | `set`, `get`, `del`, hashes, `saveToken`, `getTokenInfo`, `evalScript` and the scripts' wrappers, the subscription to expired keys | Redis, `LuaScriptManager` |
| `LuaScriptManager` | script sources, script digests | load from files, look up, record a digest | files |
| Lua scripts | keys in Redis | token, lock, counter, rate-limit and hash operations, each atomic | Redis |
| `TokenCleanupService` | none | subscribes to expired keys; deletes the row of an expired token | `RedisUtils`, PostgreSQL |
| `SystemService`, `SystemController`, `AuthFilter` | Redis keys `account_token:*` and `sso:*` | licence to account token, login to SSO cookie, keep-alive, session check in front of every other route | `IRedisClient`, `IUserRepository` |
| `ApiLevelFilter` | an attribute of the request | parses the `API-Level` header | - |
| `ServiceContainer`, `main` | which services exist | start-up in Drogon's beginning advice | all |

All stores are called asynchronously: the caller gives two callbacks, goes on,
and one of eight event loops runs one of the callbacks later. So every request is
a chain of callbacks; between two links anything can happen: other requests, the
clock, the cleanup, an error, a crash.

### What must hold, and what is hard

* **User tokens** (`UserService`, `TokenCleanupService`). A token lives in two
  stores with two clocks, is written to them one after the other, and is deleted
  from one because the other expired it. A token the client was given must work
  until it expires, no other may, the cleanup must not take a living one, and every
  request must be answered once. Hard: the order row - Redis - expiry message -
  delete against validations that ask Redis first and the database later; errors
  and crashes between the two writes; messages that are lost; the two expiry
  comparisons at the last instant.
* **Sessions** (`SystemService`, `AuthFilter`). Two Redis keys with different
  lifetimes must agree. Hard: keep-alive reads a key and writes it back, and the key
  can expire between.
* **Scripts** (`RedisUtils`, `LuaScriptManager`). A script known by digest can
  vanish from Redis at any time; each call must end in exactly one callback. Hard: the
  reload and retry, eight loads counted down by callbacks, null results.
* **Script operations.** Locks, counters and windows must be right under concurrent
  callers and expiry.
* **Start-up.** A request must not meet a service that does not exist yet.

## Modules

| Module | What it is |
|---|---|
| `TokenRegistry` | what `UserService` promises about tokens: make, grant, withdraw after expiry, admit the owner while alive |
| `TokenLifecycle` | `LoginHandler`, `GetInfoHandler`, `UserService`, `UserRepository`, the token half of `RedisUtils`, `batch_set_hash.lua`, `TokenCleanupService` |
| `TokenLifecycleProofs` | theorems about `TokenLifecycle`, and that it implements `TokenRegistry` |
| `SessionRegistry` | what `SystemService` and `AuthFilter` promise about sessions: issue a token, make a session, write it with its lifetime, drop it after, let in whom a living session was found for |
| `SystemSession` | `SystemController`, `SystemService`, `AuthFilter`, the string half of `RedisUtils` |
| `SystemSessionProofs` | theorems about `SystemSession` |
| `SessionRegistryProofs` | that `SystemSession` implements `SessionRegistry` |
| `ScriptCalls` | what `evalScript` promises its callers: a script runs at most once per call, a call gets one answer, a result only if it ran |
| `ScriptRegistry` | `LuaScriptManager`, `preloadAllScripts`, `loadScriptToRedis`, `evalScript`; has `ScriptCalls` as a property |
| `ScriptRegistryProofs` | theorems about `ScriptRegistry` |
| `ApiLevel` | `ApiLevelFilter`: the level of a header, as an operator |
| `ServerStart` | `main`, `ServiceContainer`, and the requests that may come too early; extends `ScriptRegistry` and `ApiLevel`, has `ScriptRegistry` and `ScriptCalls` as properties |
| `ServerStartProofs` | theorems about `ServerStart` and `ApiLevel`, and what carries over from `ScriptRegistryProofs` |
| `LuaScripts` | seven of the eight scripts, and the wrappers of `RedisUtils` that call them |
| `LuaScriptsProofs` | theorems about `LuaScripts` |
| `FiniteSums` | lemmas about sums over finite sets, for the counters |
| `MCTokenLifecycle`, `MCSystemSession`, `MCServerStart`, `MCLuaScripts` | the instances for TLC |

The models meet at the Redis client. `TokenLifecycle` and `LuaScripts` take one script
call as one command that runs at most once and has one answer; that this is what nested
loads and retries come to is what `ScriptRegistry` and `ScriptCalls` show. That requests
find a loaded `RedisUtils`, which `ScriptRegistry` takes for granted, is what
`ServerStart` shows. Tokens and sessions use disjoint keys and no common table row is
written by the services, so they are modelled apart.

### TokenLifecycle

`users` and `rows` are the two tables, `redis` the hashes of tokens with their
deadlines, `events` the expiry messages published to the subscriber, `req` the
handler objects. `issued` is a history variable: every `UserTokens` object
`createUserToken` built. `now` is one clock for the server, PostgreSQL and Redis.

A request is at a `pc` named for the callback it waits for. Three kinds of actions
move it:

* the code that sends a command sets `pc` and reply `"pending"` (`Login`,
  `CreateToken`, `OnRowSaved`, `GetInfo`, `OnRedisMiss`, `Validated`);
* the store executes the command and fixes the reply (`FindUser`, `SaveRow`,
  `FindToken`, `SaveToRedis`, `GetFromRedis`), or fails without effect
  (`DatabaseFails`, `RedisFails`); a write may take effect and its answer be lost;
* the callback runs on that reply (`AuthenticationFails`, `CreateToken`,
  `OnRowSaved`, `OnRowSaveFailed`, `OnRedisSaved`, `OnRedisHit`, `OnRedisMiss`,
  `OnTokenFound`, `OnTokenRefused`, `OnUserInfo`) and answers or sends the next
  command.

`ExpireKey` is Redis' active expiry, any time after the deadline;
`HandleExpiration` is the subscriber's callback with the synchronous `deleteBy`, which may
fail (`CleanupFails`).
`Crash`, `Restart`, `SubscriptionLost` and `RedisRestart` are what happens to the
processes and connections.

The constant `Client` says which `IRedisClient` the service was given.
`"RedisUtils"` is the server's: `evalScript` wraps every key and argument in
literal quotes, and `getTokenInfo` asks for `token<t>` where `saveToken` wrote
`"token:<t>"`, so Redis never has an answer and the database decides every
validation. `"Contract"` is a client that finds what it saved, as the mock of the
unit tests does; it makes the Redis half of `validateToken` reachable. Where the
code is undefined - `asInteger` on a null `RedisResult` in `batchSetHash` - the
model has both outcomes: `NullResultCrash`, and `OnRedisSaved` with a false answer.

Neither handler has a route in the repository; they are reached through their static
`handle` functions, so `Login` and `GetInfo` may be called at any time with any input.

### SystemSession

`redis` holds the two kinds of strings, `account_token:<token>` (a consumer key) and
`sso:<cookie>` (`<token>:<user>`), with their deadlines; only the presence of the
colon and the token in front of it matter to `validateSession`. `users` is the
table as `findUserById` sees it. `licensed` and `opened` are history variables: the
account tokens `registerLicense` made and the cookies `loginUser` made.

Again `pc` is the callback a request waits for: `registerLicense`; `loginUser`,
`findUser`, `openSession`; `keepAccount`, `refreshAccount`, `keepSession`,
`refreshSession` for the four links of `keepAlive`; `validateSession` for
`AuthFilter`. `SetKey`, `GetKey` and `FindUser` are the stores; `entitled` notes, when
a guarded request arrives, whether some login had answered its token and cookie.

* `Client = "RedisUtils"` is the server's. `RedisUtils::get` passes the format
  `"GET %s"` without an argument, so the key it reads is undefined: `GetKey` may find
  any live string or none, and `FormatCrash` is the third outcome.
  `Client = "Contract"` reads the key it is asked for.
* `filtered`, fixed at the start, says whether `AuthFilter` stands in front of the login
  route. `config.json` lists the filter, and neither its pattern nor `isWhitelisted`
  exempts that route; that Drogon creates and applies it is Drogon's doing and external to
  this repository, so a behaviour may have it either way.
* As a `SessionRegistry`: the tokens issued are those of `licensed`, the sessions made
  those of `opened`, the ones on record the strings under `sso:` with their deadlines. A
  visit is decided between the `GET` that found its session and `SessionAccepted`, which
  lets it in. No session goes off the record before its end but with all the others, when
  Redis restarts.

### ScriptRegistry

`script` and `scriptShas` are the manager's two maps, `cache` is what Redis knows.
`preload`, `counter`, `allSuccess` and `report` are `preloadAllScripts`; `call` holds
the calls of `evalScript`, `pc` `"load"` or `"eval"` for the command each one waits on.

* A script file may be missing; `loadScriptToRedis` then fails at once, in the loop.
* The callbacks of the preload may end in any order and, being on the Redis client's
  thread, between any two steps of a call. `OnPreloaded` and `CountDown` are apart
  because `setScriptSha` and the countdown are.
* The maps have no lock. A look-up while another thread inserts may miss a digest that
  is there (`Inserting`); the model does not have the look-up crash or return another
  script's digest, which the standard would also permit.
* `evalScript` starts over whenever Redis answers `NOSCRIPT`, with no limit of its own.
  The model has none either: `MaxFaults` bounds how often Redis loses its scripts.
* `NullResultCrash` is the wrappers' `asInteger`/`asArray` on `RedisResult(nullptr)`. It is
  the end of the process, and counts as a fault.
* `Crash` and `Stop` (the process ends with no call in flight) take the manager's maps and
  the preload with them; `Initialize` begins anew, and Redis may still have the scripts.

### ServerStart and ApiLevel

`ServerStart` adds to `ScriptRegistry` where `main`'s beginning advice is (`stage`),
whether `ServiceContainer` has its services, and whether the advice gave up (`failed`).
`InitializeRedis`, `InitializeCleanup` and `InitializeServices` are its three `try`
blocks; the first and third give up on an exception, the second goes on. `quit` only asks
Drogon's loop to stop, so `Quit` is a step of its own and requests may come before it.
Drogon versions differ in whether they listen before the advice or after it: requests may
come from `Run` on. One that comes before the services calls through a null pointer
(`NullService`), which at a virtual function ends the process; that it might read a
half-assigned pointer while `initialize` runs is not modelled.

`ApiLevel` is `doFilter` as an operator from a header to a level: white space, a sign,
digits and a rest are all `std::stoi` tells apart. The level is put into an attribute
of the request which nothing reads, so there is no state to follow.

### LuaScripts

`redis` is the keyspace: each key's value and the seconds it has left, `-1` for a key
without a lifetime. A wrapper sends its call (`acquireLock`, `checkAndUpdate`, ...), the
script runs at one instant (`acquire_lock`, `check_and_update`, ...) and fixes the reply,
the wrapper's lambda reads it (`OnInteger`, `OnArray`, `OnToken`, `OnRateLimit`). In
between a command or an answer may be lost, the caller die with its script still to run,
Redis restart and seconds pass. `lease`, `due`, `applied`, `failed` and `era` are history:
how long a lock is still its taker's or a token, whose user was told, can be counted on;
what the script's header has it return; whether the present counter has its effect, or its
id was given; whether a fault hit the call; how often Redis had lost its data when its
script ran, the variable `era` being how often it has by now. A restart ends counters and
leases, but that an id was given stays true, so that ids of different eras are compared.

None of `acquireLock`, `releaseLock`, `atomicIncrement`, `checkAndUpdate`, `getNextId`,
`checkRateLimit` and `validateTokenAndGetUser` has a caller in the repository. So nothing
is assumed of callers but that each key serves one purpose: any call may come at any time,
and a counter's brings its own amount, limit and lifetime, which are integers of either
sign. The lifetimes of locks and of tokens are constants, `LockTtl` and `TokenTtl`. `Plans`
bounds for TLC which scripts appear together in a behaviour; the theorems hold for any.

* `Client = "RedisUtils"` sends the arguments in literal quotes, as `evalScript` does, so
  `tonumber` of one is nil: what uses it as a number ends in an error.
  `Client = "Contract"` sends what the headers of the scripts list.
* `rate_limit` always ends in an error, since it uses the name `windos` that nothing
  assigns, and its wrapper's lambda has no `else`: `OnRateLimit` calls nobody. The
  properties name this exception.
* `batch_set_hash` is `SaveToRedis` of `TokenLifecycle`.

## Runs

| Run | Client | Bounds | Question |
|---|---|---|---|
| `server` | RedisUtils | 2 users, 2 tokens, 2 requests, Ttl 1, 4 instants, 1 fault | is an answered token durable and accepted, is Redis backed by the database, is a cleanup under way ever forgotten, does the service implement `TokenRegistry` |
| `contract` | Contract | the same | the same question where Redis decides validations too: owners, strangers, no early cleanup |
| `settles` | RedisUtils | 1 user, 3 instants | is every request answered; is every saved token cleaned up |
| `redis_hit` | RedisUtils | 1 user | *violated*: a saved token is found in Redis |
| `redis_down` | RedisUtils | 1 user | *violated*: a failing Redis does not take the login down |
| `sessions` | Contract | 2 tokens, 1 cookie, 4 requests, 3 instants, no fault | can anybody be admitted without login, password and licence; is everybody admitted who should be; does keep-alive keep a session alive and nothing else; do service and filter implement `SessionRegistry` |
| `session_settles` | RedisUtils | 2 cookies, 2 requests, 3 instants, 2 faults | is every request answered; can anybody log in behind the filter |
| `token_expired` | Contract | 3 requests, 4 instants | *violated*: an admitted session's account token is alive |
| `get_unkeyed` | RedisUtils | 3 requests, no fault | *violated*: an answered session is accepted |
| `scripts` | - | 2 scripts, 2 calls, 1 fault, `int` up to 2 | from the start of the server: are scripts run at most once, recovered, reported; is every call answered; does start-up keep its order and come to an end; is every level legal |
| `lua` | Contract | 3 calls of one purpose (of counters 2), 1 key of each kind, 2 tags, amounts 2 and -1, limits 0 and 3, lifetimes 0 and 1, `LockTtl` 1, `TokenTtl` 2, 1 fault | are locks exclusive and honoured, refreshed tokens kept, counters bounded and exact, ids increasing, callers told the truth; do locks and counters expire |
| `quoted` | RedisUtils | the same | *violated*: scripts end as their headers say |

The bounds: a request is handled once and requests do not wait for each other, so what
one request can disturb shows with two (token: a login and a validation, or two of
either) and, for the four operations on a session, with one request for each. Locks take
three calls: a taker whose lock runs out, the next taker, and the late release. Two
tokens, or two cookies where two logins may end, let a fresh one be drawn beside one in
use; draws are fresh because
`generateToken` reads 16 random bytes (that `RAND_bytes` may fail, unchecked, is left out)
and `createUserToken` draws a UUID. Lifetimes of 1 and 2 give every clock position
around a deadline - before it, at it, past it - and `MaxTime` goes past the last
deadline of something made at the start. One fault puts an error, a lost answer, a
crash or a restart at every step; where not two, recovery from two is left to the
theorems. `sessions` has none, for the sake of its fourth request: what it checks, the
registry's `LoseAll` and `Abandon` included, is proved for any number of faults, or, like
`AnsweredSessionAccepted`, is about behaviours without one. Nor has it a wrong password or licence: such a request writes nothing, and
`session_settles` has them. In `session_settles` two requests are enough: with `RedisUtils` a `GET` finds
any string, so the second gets through every operation on what the first wrote. An `int`
that ends at 2 has every kind of number. Scripts of different purposes have no key in
common, so in `lua` a behaviour has calls of one purpose only. Of counters two calls are
enough, since each runs at one instant: a limit of 3 with amounts of 2 lets a change that
fits meet one that does not, -1 is an amount a caller should not give, a limit of 0 is none
and a lifetime of 0 is none. A `TokenTtl` of 2 lets a second pass between two validations.
Runs may stop (`CHECK_DEADLOCK FALSE`): requests are handled once
and the clock is bounded. Symmetry over request ids is used in runs without liveness.

### Fairness

Weak fairness of each store's step and of each request's callbacks. The Redis client is
created with no timeout and queues commands until they are answered; connection errors
and database errors reach the error callback, so "no answer" is a fault step that
answers; Drogon's event loops run what is posted to them. In `TokenLifecycle`,
for `SavedTokenCleanedUp`, also of the clock, of Redis' active expiry, of the delivery
of published messages, of the subscription at start and of a restart after a crash (a
supervisor's doing). In `LuaScripts` also of Redis' clock (`Tick`), which is what
`LockFreesItself` and `CounterExpires` rest on. In `ServerStart` also of the advice's steps
and of `Quit`: Drogon runs the advice to its end, and a loop told to quit quits. Crashes, faults and the arrival of requests have no fairness.

## What is proved

The theorems hold for every finite or infinite set of users, tokens, cookies, requests,
every lifetime and number of faults. Assumptions are the modules' `ConstantsOK`:
non-empty sets, lifetimes that are naturals, `AccountTtl > SsoTtl`, scripts finite.

**TokenLifecycleProofs.** `TypeCorrect`; then `Invariance`, the inductive invariant
`IInv`. The properties are not inductive: whether the row of an answered token is
there depends on what every request in flight has done, on each Redis hash expiring no
earlier than its row, and on each expiry message naming a dead row. `IInv` says these
three things (`RequestOK`, `StoresOK`, with one conjunct per kind of request). From it follow
`AnsweredTokensAreDurable`, `RedisIsBackedByRows`, `AnsweredTokensAreAccepted`,
`InfoGoesToOwners`, `CleanupIsNeverPremature` and, with `Client = "RedisUtils"`,
`ImplementsRegistry`: initial states map to initial states and each step to a step of
`TokenRegistry` or a stutter.
`CleanupIsNeverForgotten` is about steps: every one that takes a token's hash out of Redis
puts its message in its place, and the one that takes the message out deletes the rows, for
which the server must be up (`DownIsDeaf`: a server that is down has neither a
subscription nor messages) and the message, stripped of its quotes, must name the token.

**SystemSessionProofs.** `TypeCorrect`. `FilteredLoginOpensNothing` for either client:
behind the filter no value with a colon is ever written, because only a login writes
one and a login needs one; the invariant is that there is none in Redis nor in any
request. `AdmissionsAreTraced` and `CookiesNameTheirLogin`, with
`Client = "Contract"`, from the invariant of `SessionsAlwaysTraced`: every value under
a cookie's key, and every value a request has read or is about to write back, is that of the
login that made the cookie. `AnsweredSessionsAreAccepted` adds, while nothing has failed,
that a session a login answered is in Redis with a deadline no earlier than two hours
after it began (`SessionsServed`): a refresh writes a later one, and expiry does not come
sooner.

**SessionRegistryProofs.** `ImplementsSessionRegistry`, with `Client = "Contract"`: every
step is one of the registry or changes nothing the registry sees. Its invariant joins four
facts, each of which some step needs. Values are traced (`SessionsTraced`), so that what
`refreshSession` writes back is a session that was made and not another's. No login finds a
session where the filter stands before it (`LoginUnreachable`), so that a visit let in is
a request that has ended; a login let through would go on and draw a new cookie, under which
it was never let in. A request let in is done, and the keyspace a `SET` writes is that of its
callback (`GateOK`), so that the lifetime Redis gives it is the session's and not the
account token's.

**ScriptRegistryProofs.** `TypeCorrect`, with the countdown it needs: while the server is
up `counter` is the number of loads not yet counted, so that it never passes zero.
`Invariance`, the invariant `IInv` of the calls: at each point of a call, how often its
script has run (`RunsOK`), that a failure comes from a missing source or an error
(`SourceOK`), and that what was loaded is in Redis' cache unless the scripts have been lost
since, a loss that pays for the next load (`LoadsOK`). From it `LossesAreRecovered`,
`ReloadsAreReasoned` and `ImplementsCalls`. `PreloadReportsTruly` has an invariant of its
own, on top: no load is counted, while no failure is noted, whose digest is missing.
With it, and with the countdown, `PreloadReportsOnce`.

**ServerStartProofs.** `StartUpInOrder`: the stages keep what they stand on, down to no
call in flight without services. With it every step of the server is one of
`ScriptRegistry` or a stutter (`ImplementsRegistry`), so its theorems hold of the server
as `main` starts it (`ServerRunsScriptsWell`). `LevelsAreLegal` is about the operator
alone, for an `int` of any width and all headers, where the run's `LevelIsLegal` has those
up to `IntMax + 2`.

**LuaScriptsProofs.** Besides `TypeCorrect`, for either client: `LocksAreExclusive`,
`LeasesAreHonoured` and `RefreshesAreHonoured` from one invariant, that a key with a lease
is in Redis for at least as long, a lock in its taker's name, and that no two calls have a
lease on a lock; `IdsDoIncrease` from the invariant that an id's key has reached every id
given from it in the present era. With `Client = "Contract"`: `CallersAreToldTruly` from the
invariant that a reply says what the script did. `CountersAreBounded` is an induction over
the calls a counter holds (`AppliedTo`), since each has a limit of its own: an increment
that is carried out is itself one whose limit the counter respects, and a decrement leaves
in place the one there was.
`CountersAreAccounted` compares a counter with a sum over the set of calls carried out on it.
The invariant adds that this set is finite, and empty when the counter is gone: a step either
leaves both sides alone, or is one script that writes the counter and joins the set, or
ends both. What the sum does when the set grows by one is proved in `FiniteSums` by induction
over finite sets; since the prover cannot instantiate an induction theorem, each
induction is spelled out as a counterexample with no smaller one, which the
well-foundedness of the strict subsets of a finite set provides.

**Safety halves of the liveness properties.** Liveness itself is beyond the prover, but
what it rests on besides fairness is not. `RequestsRunOut` (of tokens and of sessions): every
answer a store can give has a branch in the callback that waits for it, and each step
of a request strictly lowers a number that starts at 8, or 10. `PreloadReportsOnce`: the report
is there once the last load is counted, stands, and a load takes four steps.
`ReloadsAreReasoned` bounds the loops of `evalScript`. `CleanupIsNeverForgotten`: a cleanup
under way stays so. `LocksRunOut` and `CountersRunOut`: a lock has a lifetime that no call
adds to and each second shortens; a counter has a lifetime that a call it holds gave it,
unless it holds a decrement, or an increment without one.
What TLC alone shows is that fair stores, loops and clocks then get to the end.

Only model-checked: the nine liveness properties (`EveryRequestSettled` twice,
`SavedTokenCleanedUp`, `EveryCallSettled` twice, `PreloadReported`, `StartUpEnds`,
`LockFreesItself`, `CounterExpires`) and the five violations. Every other property of a
passing run is stated by a theorem, `LevelIsLegal` excepted: it quantifies over headers and
follows, for all of them, from `LevelsAreLegal`.

## Findings

* `redis_hit`: `getTokenInfo` asks for `token<t>`, `saveToken` wrote `"token:<t>"`.
  Redis never answers a validation; the database fallback hides it.
* `redis_down`: `batchSetHash` reads an integer from `RedisResult(nullptr)` when the
  script failed; the unit test says the login then still succeeds.
* `token_expired`: `validateSession` looks at the cookie's key only, so a session goes
  on admitting after its account token expired.
* `get_unkeyed`: `RedisUtils::get` names no key.
* `quoted`: the arguments `evalScript` quotes are no numbers to a script; a free lock
  cannot be taken. Only `batch_set_hash.lua` strips the quotes.

Seen while modelling, without a run of their own: with the filter of `config.json` in
front of it, login cannot succeed (`NoSessionBehindFilter`, a theorem); `keepAlive` can
bring a key back that expired between its read and its write; a row whose copy never
reached Redis is never deleted, since only an expiry message deletes rows;
`rate_limit.lua` names its time window `windos` in one place, and the caller of
`checkRateLimit` then hears nothing; `get_next_id.lua:2` promises a "monotonically
increasing unique ID", but a Redis that restarts without its data begins again and gives
ids a second time (`IdsIncrease` and its theorem name this exception: the data was lost in
between); `check_and_update.lua` writes without `KEEPTTL`, so
a counter with a lifetime loses it at its first decrement; `RedisUtils::deleteToken`
deletes the key `<token>` where `saveToken` wrote `token:<token>`; requests that come
before the beginning advice has ended, or between its failure and the end of the process,
meet null services.

## Not modelled

* The vendored headers of h323plus and PTLib (`10-common/include`) are nearly all of the
  repository's lines: some 500 files of declarations whose sources are submodules that
  are not in the tree. No code here includes or calls them, and a declaration has no
  behaviour to model, so the share of all lines that the models stand for stays small.
  The project's own code, without its tests and generated classes, is some 2500 lines of
  C++ and 200 of Lua; whatever in it changes state and has a caller is modelled, and so are
  the wrappers of the Lua scripts, which have none: what they promise is the scripts' work.
* The ORM classes that `drogon_ctl` generated from the tables: a row is a record.
* `RedisUtils`' operations without a caller (`del`, `hset`, `hgetall`, `deleteToken`) and
  `UserRepository::deleteToken`: how they would interleave is their future callers' doing.
* `mtlog` and its demo, which print; the empty `GetTokenHandler`; tests, whose mock of the
  Redis client is the `Contract` of the models; build scripts.
* Request parsing, JSON, logging and wording; token entropy and password hashing, which
  are taken to be fresh and exact; connection pools; races on the pointers of
  `ServiceContainer` while it is initialised.

`PROJECT.json` lists every component.

## Plan

1. What is left of `StartUpEnds` besides fairness: that each stage of the advice has a way on.
2. `RedisUtils`' remaining operations, once they have callers.
3. The two clocks apart: PostgreSQL's, Redis' and the server's are one in the models, and
   the order of their deadlines rests on it.
