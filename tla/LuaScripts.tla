----------------------------- MODULE LuaScripts -----------------------------
(***************************************************************************)
(* The Lua scripts of 10-common/version/config/luascript and the wrappers  *)
(* of RedisUtils that call them: locks that expire, counters with a limit, *)
(* ids, the refresh of a token, the rate limiter.  (batch_set_hash is in   *)
(* TokenLifecycle.)                                                        *)
(*                                                                         *)
(* A script runs in Redis at one instant.  The call that asked for it may  *)
(* have died by then, or its answer may be lost; that a script runs at     *)
(* most once per call is what ScriptCalls says of evalScript.              *)
(***************************************************************************)
EXTENDS Integers, Functions

CONSTANTS
  Locks, Counters, Ids, Tokens,   \* the keys callers use, each for one purpose
  Tags,        \* lock values
  Users,       \* what a token key holds
  Calls,       \* calls of the wrappers, numbered in the order they are made
  Amounts,     \* increments and decrements
  Limits,      \* maxValue, 0 for none, and minValue
  Lifetimes,   \* the expireSeconds of atomicIncrement, 0 for none
  LockTtl, TokenTtl,    \* those of acquireLock and of validateTokenAndGetUser
  Plans,       \* bound: which calls may be of which scripts in one behaviour
  MaxFaults,   \* bound: how many faults happen in a behaviour
  Client       \* how the arguments of a script reach it

\* RedisUtils puts literal quotes around each argument; "Contract" hands a script the
\* arguments its header lists.
ClientKinds == {"RedisUtils", "Contract"}

ASSUME ConstantsOK ==
  /\ Locks \intersect Counters = {} /\ Locks \intersect Ids = {}
  /\ Locks \intersect Tokens = {} /\ Counters \intersect Ids = {}
  /\ Counters \intersect Tokens = {} /\ Ids \intersect Tokens = {}
  /\ Calls \subseteq Nat
  /\ Tags # {} /\ Users # {} /\ Locks # {}
  /\ Amounts \subseteq Int /\ Limits \subseteq Int /\ Lifetimes \subseteq Int
  /\ LockTtl \in Nat \ {0} /\ TokenTtl \in Nat \ {0}
  /\ MaxFaults \in Nat
  /\ Client \in ClientKinds

VARIABLES
  redis,    \* key -> its value and the time it has left
  call,     \* the calls
  era,      \* history: how often Redis lost its data
  faults    \* how many faults happened

vars == <<redis, call, era, faults>>

-----------------------------------------------------------------------------
(* The keyspace. *)

Keys == Locks \union Counters \union Ids \union Tokens
Values == Tags \union Users \union Int
Entry == [value : Values, ttl : Int]

\* As in Redis, a key without a lifetime has the ttl -1.  A key with none left is gone.
Forever == -1
Absent == [value |-> 0, ttl |-> 0]
Live(k) == redis[k].ttl # 0

\* tonumber(redis.call('GET', key)) or 0
current(k) == IF Live(k) THEN redis[k].value ELSE 0

-----------------------------------------------------------------------------
(* Calls. *)

LockScripts == {"acquire_lock", "release_lock"}
CountScripts == {"atomic_increment", "check_and_update"}
ScriptNames == LockScripts \union CountScripts
                 \union {"get_next_id", "validate_token", "rate_limit"}

\* RedisResult.  "error" is the null result evalScript makes of a failed script.
Reply ==
  [ type : {"none", "pending", "error", "nil", "string", "integer", "array"},
    flag : {0, 1}, value : Int ]
Plain(type) == [type |-> type, flag |-> 0, value |-> 0]
Integer(n) == [type |-> "integer", flag |-> 0, value |-> n]
Array(flag, n) == [type |-> "array", flag |-> flag, value |-> n]

AnyTag == CHOOSE t \in Tags : TRUE
AnyLock == CHOOSE k \in Locks : TRUE

Call ==
  [ pc      : {"idle", "sent", "done", "lost", "dropped"},
    script  : ScriptNames,
    key     : Keys,
    tag     : Tags,
    amount  : Int,
    limit   : Int,       \* maxValue or minValue
    expire  : Int,       \* expireSeconds of a counter
    reply   : Reply,
    ok      : BOOLEAN,   \* what the caller was told
    due     : BOOLEAN,   \* history: what its header has the script return
    lease   : Nat,       \* history: how long it can count on its lock, or its token
    applied : BOOLEAN,   \* history: its id was given, or the present counter has it
    era     : Nat,       \* history: the era its script ran in
    failed  : BOOLEAN ]  \* history: a fault hit it

NewCall ==
  [ pc |-> "idle", script |-> "rate_limit", key |-> AnyLock, tag |-> AnyTag,
    amount |-> 0, limit |-> 0, expire |-> 0, reply |-> Plain("none"), ok |-> FALSE,
    due |-> FALSE, lease |-> 0, applied |-> FALSE, era |-> 0, failed |-> FALSE ]

Planned(c, script) ==
  \E plan \in Plans :
    /\ <<c, script>> \in plan
    /\ \A d \in Calls : call[d].pc # "idle" => <<d, call[d].script>> \in plan

Send(c, q) ==
  /\ call[c].pc = "idle" /\ \A d \in Calls : d < c => call[d].pc # "idle"
  /\ Planned(c, q.script)
  /\ call' = [call EXCEPT ![c] = [q EXCEPT !.pc = "sent", !.reply = Plain("pending")]]
  /\ UNCHANGED <<redis, era, faults>>

acquireLock(c, k, tag) ==
  Send(c, [call[c] EXCEPT !.script = "acquire_lock", !.key = k, !.tag = tag])
releaseLock(c, k, tag) ==
  Send(c, [call[c] EXCEPT !.script = "release_lock", !.key = k, !.tag = tag])
atomicIncrement(c, k, increment, maxValue, expireSeconds) ==
  Send(c, [call[c] EXCEPT !.script = "atomic_increment", !.key = k,
             !.amount = increment, !.limit = maxValue, !.expire = expireSeconds])
checkAndUpdate(c, k, minValue, decrement) ==
  Send(c, [call[c] EXCEPT !.script = "check_and_update", !.key = k,
             !.amount = decrement, !.limit = minValue])
getNextId(c, k) == Send(c, [call[c] EXCEPT !.script = "get_next_id", !.key = k])
validateTokenAndGetUser(c, k) ==
  Send(c, [call[c] EXCEPT !.script = "validate_token", !.key = k])
checkRateLimit(c) == Send(c, [call[c] EXCEPT !.script = "rate_limit"])

-----------------------------------------------------------------------------
(* The scripts. *)

\* Mutant: a call that failed is run again.
RunningOrFailed(c, script) ==
  call[c].reply.type \in {"pending", "error"} /\ call[c].script = script

Running(c, script) == call[c].reply.type = "pending" /\ call[c].script = script

\* Mutants: no NX; a DEL without the GET; the increment left out of the comparison; no
\* EX; no EXPIRE of a counter or a token; ids with a lifetime.
alwaysFree(k) == TRUE
ownsAnything(c, k) == Live(k)
exceedsBefore(c, k) == call[c].limit > 0 /\ current(k) > call[c].limit
lockForever == Forever
counterForever(c) == Forever
tokenUnrefreshed(k) == redis[k].ttl
idLifetime(k) == 1

\* tonumber of an argument in quotes is nil, and whatever uses it ends in an error.
numeric == Client = "Contract"

Ran(q, due, reply) == [q EXCEPT !.due = due, !.reply = reply, !.era = era]
Return(c, due, reply) == call' = [call EXCEPT ![c] = Ran(@, due, reply)]
Refuse(c, reply) == Return(c, FALSE, reply) /\ UNCHANGED redis
Fail(c, due) == Return(c, due, Plain("error")) /\ UNCHANGED redis
Store(k, value, ttl) ==
  redis' = [redis EXCEPT ![k] = [value |-> value, ttl |-> ttl]]
Apply(c, reply) ==
  call' = [call EXCEPT ![c] = [Ran(@, TRUE, reply) EXCEPT !.applied = TRUE]]

free(k) == ~Live(k)
owns(c, k) == Live(k) /\ redis[k].value = call[c].tag
exceeds(c, k) ==
  call[c].limit > 0 /\ current(k) + call[c].amount > call[c].limit
enough(c, k) == current(k) >= call[c].limit + call[c].amount
lockLifetime == LockTtl
tokenLifetime(k) == TokenTtl
counterLifetime(c) == IF call[c].expire > 0 THEN call[c].expire ELSE Forever
idTtl(k) == IF Live(k) THEN redis[k].ttl ELSE Forever

\* SET key value NX EX expire
acquire_lock(c) ==
  LET k == call[c].key IN
  /\ Running(c, "acquire_lock")
  /\ \/ ~numeric /\ Fail(c, ~Live(k))
     \/ numeric /\ ~free(k) /\ Refuse(c, Integer(0))
     \/ /\ numeric /\ free(k)
        /\ Store(k, call[c].tag, lockLifetime)
        /\ call' = [call EXCEPT ![c] = [Ran(@, TRUE, Integer(1))
                                          EXCEPT !.lease = LockTtl]]
  /\ UNCHANGED <<era, faults>>

\* The lock is given back by whoever names its tag.
release_lock(c) ==
  LET k == call[c].key IN
  /\ Running(c, "release_lock")
  /\ \/ ~owns(c, k) /\ Refuse(c, Integer(0))
     \/ /\ owns(c, k)
        /\ redis' = [redis EXCEPT ![k] = Absent]
        /\ call' = [d \in Calls |->
             IF d = c THEN Ran(call[c], TRUE, Integer(1))
             ELSE IF call[d].key = k /\ call[d].tag = call[c].tag
             THEN [call[d] EXCEPT !.lease = 0]
             ELSE call[d]]
  /\ UNCHANGED <<era, faults>>

\* The SET drops the lifetime and EXPIRE, if one is asked for, gives a new one.
atomic_increment(c) ==
  LET k == call[c].key
      new_value == current(k) + call[c].amount IN
  /\ Running(c, "atomic_increment")
  /\ \/ ~numeric /\ Fail(c, ~exceeds(c, k))
     \/ numeric /\ exceeds(c, k) /\ Refuse(c, Array(0, current(k)))
     \/ /\ numeric /\ ~exceeds(c, k)
        /\ Store(k, new_value, counterLifetime(c))
        /\ Apply(c, Array(1, new_value))
  /\ UNCHANGED <<era, faults>>

\* The SET drops the lifetime.
check_and_update(c) ==
  LET k == call[c].key
      new_value == current(k) - call[c].amount IN
  /\ Running(c, "check_and_update")
  /\ \/ ~Live(k) /\ Refuse(c, Array(0, -1))
     \/ Live(k) /\ ~numeric /\ Fail(c, enough(c, k))
     \/ Live(k) /\ numeric /\ ~enough(c, k) /\ Refuse(c, Array(0, current(k)))
     \/ /\ Live(k) /\ numeric /\ enough(c, k)
        /\ Store(k, new_value, Forever)
        /\ Apply(c, Array(1, new_value))
  /\ UNCHANGED <<era, faults>>

\* INCR
get_next_id(c) ==
  LET k == call[c].key IN
  /\ Running(c, "get_next_id")
  /\ Store(k, current(k) + 1, idTtl(k))
  /\ Apply(c, Integer(current(k) + 1))
  /\ UNCHANGED <<era, faults>>

validate_token(c) ==
  LET k == call[c].key IN
  /\ Running(c, "validate_token")
  /\ \/ ~Live(k) /\ Refuse(c, Plain("nil"))
     \/ Live(k) /\ ~numeric /\ Fail(c, TRUE)
     \/ /\ Live(k) /\ numeric
        /\ Store(k, redis[k].value, tokenLifetime(k))
        /\ call' = [call EXCEPT ![c] = [Ran(@, TRUE, Plain("string"))
                                          EXCEPT !.lease = TokenTtl]]
  /\ UNCHANGED <<era, faults>>

\* Its time window is the undefined name windos: it ends in an error at once.
rate_limit(c) == Running(c, "rate_limit") /\ Fail(c, TRUE) /\ UNCHANGED <<era, faults>>

-----------------------------------------------------------------------------
(* The callbacks of the wrappers. *)

Back(c, scripts, type) ==
  call[c].pc = "sent" /\ call[c].script \in scripts /\ call[c].reply.type = type

Tell(c, ok) == call' = [call EXCEPT ![c] = [@ EXCEPT !.pc = "done", !.ok = ok]]

\* Mutant: the wrong field of the array is compared.
saidYesByValue(reply) == reply.value = 1

saidYes(reply) == IF reply.type = "array" THEN reply.flag = 1 ELSE reply.value = 1

\* asInteger.  Of the null result it reads some number, taken to be 0, or see
\* NullResultCrash.
OnInteger(c) ==
  /\ \/ Back(c, LockScripts, "integer") /\ Tell(c, saidYes(call[c].reply))
     \/ Back(c, {"get_next_id"}, "integer") /\ Tell(c, TRUE)
     \/ Back(c, LockScripts \union {"get_next_id"}, "error") /\ Tell(c, FALSE)
  /\ UNCHANGED <<redis, era, faults>>

\* Mutant: no else.
OnArrayOnly(c) ==
  /\ Back(c, CountScripts, "array") /\ Tell(c, saidYes(call[c].reply))
  /\ UNCHANGED <<redis, era, faults>>

OnArray(c) ==
  /\ \/ Back(c, CountScripts, "array") /\ Tell(c, saidYes(call[c].reply))
     \/ Back(c, CountScripts, "error") /\ Tell(c, FALSE)
  /\ UNCHANGED <<redis, era, faults>>

OnToken(c) ==
  /\ \/ Back(c, {"validate_token"}, "string") /\ Tell(c, TRUE)
     \/ Back(c, {"validate_token"}, "nil") /\ Tell(c, FALSE)
     \/ Back(c, {"validate_token"}, "error") /\ Tell(c, FALSE)
  /\ UNCHANGED <<redis, era, faults>>

\* The lambda of checkRateLimit has no else: without an array nobody is called.
OnRateLimit(c) ==
  /\ Back(c, {"rate_limit"}, "error")
  /\ call' = [call EXCEPT ![c] = [@ EXCEPT !.pc = "dropped"]]
  /\ UNCHANGED <<redis, era, faults>>

\* type() or asInteger() of RedisResult(nullptr): undefined behaviour.
NullResultCrash(c) ==
  /\ Back(c, ScriptNames, "error")
  /\ call' = [call EXCEPT ![c] = [@ EXCEPT !.pc = "lost"]]
  /\ UNCHANGED <<redis, era, faults>>

-----------------------------------------------------------------------------
(* Faults and time. *)

Fault == faults < MaxFaults /\ faults' = faults + 1

\* The command does not reach Redis, or its answer does not come back.
CommandFails(c) ==
  /\ call[c].pc = "sent" /\ call[c].reply.type \notin {"none", "error"}
  /\ call' = [call EXCEPT ![c] = [@ EXCEPT !.reply.type = "error", !.failed = TRUE]]
  /\ Fault
  /\ UNCHANGED <<redis, era>>

\* The caller's process dies.  What it sent may still run.
CallerDies(c) ==
  /\ call[c].pc = "sent"
  /\ call' = [call EXCEPT ![c] = [@ EXCEPT !.pc = "lost", !.failed = TRUE]]
  /\ Fault
  /\ UNCHANGED <<redis, era>>

\* Redis keeps nothing over a restart: locks, counters and what ids were given are gone.
\* That an id was given stays true.
RedisRestart ==
  /\ \E k \in Keys : Live(k)
  /\ redis' = [k \in Keys |-> Absent]
  /\ call' = [c \in Calls |->
       [call[c] EXCEPT !.lease = 0, !.applied = @ /\ call[c].key \notin Counters]]
  /\ era' = era + 1
  /\ Fault

\* A second passes in Redis.  Mutant: what is over goes on.
PastZero(n) == n - 1
Older(n) == IF n > 0 THEN n - 1 ELSE n
Tick ==
  /\ \E k \in Keys : redis[k].ttl > 0
  /\ redis' = [k \in Keys |-> IF redis[k].ttl = 1 THEN Absent
                              ELSE [redis[k] EXCEPT !.ttl = Older(@)]]
  /\ call' = [c \in Calls |->
       [call[c] EXCEPT !.lease = Older(@),
                       !.applied = @ /\ ~(call[c].key \in Counters
                                          /\ redis[call[c].key].ttl = 1)]]
  /\ UNCHANGED <<era, faults>>

-----------------------------------------------------------------------------

Init ==
  /\ redis \in [Keys -> {Absent} \union [value : Users, ttl : {TokenTtl}]]
  /\ \A k \in Keys : Live(k) => k \in Tokens
  /\ call = [c \in Calls |-> NewCall]
  /\ era = 0 /\ faults = 0

Ask(c) ==
  \/ \E k \in Locks, t \in Tags : acquireLock(c, k, t) \/ releaseLock(c, k, t)
  \/ \E k \in Counters, n \in Amounts, m \in Limits :
       \/ \E expire \in Lifetimes : atomicIncrement(c, k, n, m, expire)
       \/ checkAndUpdate(c, k, m, n)
  \/ \E k \in Ids : getNextId(c, k)
  \/ \E k \in Tokens : validateTokenAndGetUser(c, k)
  \/ checkRateLimit(c)

RunScript(c) ==
  \/ acquire_lock(c) \/ release_lock(c) \/ atomic_increment(c) \/ check_and_update(c)
  \/ get_next_id(c) \/ validate_token(c) \/ rate_limit(c)

Callback(c) ==
  OnInteger(c) \/ OnArray(c) \/ OnToken(c) \/ OnRateLimit(c)

Next ==
  \/ \E c \in Calls :
       \/ Ask(c) \/ RunScript(c) \/ Callback(c)
       \/ NullResultCrash(c) \/ CommandFails(c) \/ CallerDies(c)
  \/ RedisRestart \/ Tick

Spec == Init /\ [][Next]_vars

\* Redis answers, the loops run the callbacks, and time passes.
Fairness ==
  /\ \A c \in Calls : WF_vars(RunScript(c)) /\ WF_vars(Callback(c))
  /\ WF_vars(Tick)

FairSpec == Spec /\ Fairness

-----------------------------------------------------------------------------
(* Properties. *)

\* Type correctness of the keyspace and the calls.
TypeOK ==
  /\ redis \in [Keys -> Entry]
  /\ \A k \in Counters \union Ids : redis[k].value \in Int
  /\ call \in [Calls -> Call]
  /\ era \in Nat /\ faults \in 0 .. MaxFaults

\* While a lock that a call took has not run out, been given back or been lost with
\* Redis, no other call has it: neither an expiry nor a late release lets two in.
MutualExclusion ==
  \A c, d \in Calls :
    /\ call[c].lease > 0 /\ call[d].lease > 0
    /\ call[c].key = call[d].key /\ call[c].key \in Locks
    => c = d

\* And for as long Redis holds the lock in its taker's name: the release of a former
\* owner, whose lock ran out, does not take it away.
LeaseHonoured ==
  \A c \in Calls :
    call[c].lease > 0 /\ call[c].key \in Locks =>
      /\ redis[call[c].key].value = call[c].tag
      /\ redis[call[c].key].ttl >= call[c].lease \/ redis[call[c].key].ttl = Forever

\* Whoever was told the user of a token can count on it for expireSeconds from then on:
\* its running out, and others that validate it meanwhile, take nothing from that, unless
\* Redis loses its data.
RefreshHonoured ==
  \A c \in Calls :
    call[c].lease > 0 /\ call[c].key \in Tokens =>
      redis[call[c].key].ttl >= call[c].lease

\* A caller that is told of success was due it by the header of its script, for the state
\* the script met; so a lost answer may hide a success and never feigns one.  If nothing
\* failed it is told of every success (rate_limit.lua aside).
ToldTruly ==
  \A c \in Calls :
    call[c].pc = "done" =>
      /\ call[c].ok => call[c].due
      /\ call[c].due => call[c].ok \/ call[c].failed

\* Whatever its header lists, a script that ran and was not disturbed returns that, and
\* does not end in an error (rate_limit.lua aside, which is known to).
ScriptsEndAsDocumented ==
  \A c \in Calls :
    call[c].reply.type = "error" => call[c].failed \/ call[c].script = "rate_limit"

Delta(q) == IF q.script = "atomic_increment" THEN q.amount ELSE - q.amount
Deltas == [c \in Calls |-> Delta(call[c])]
AppliedTo(k) == {c \in Calls : call[c].applied /\ call[c].key = k}

\* Nothing is counted twice or forgotten, whatever is lost on the way to the caller: a
\* counter is the sum of the calls that changed it since it came to be.
CounterAccounted ==
  \A k \in Counters :
    Live(k) => redis[k].value = SumFunctionOnSet(Deltas, AppliedTo(k))

\* As callers mean it: amounts and minima are not negative.
Sensible(q) == q.amount >= 0 /\ (q.script = "check_and_update" => q.limit >= 0)

\* Concurrent calls, each with limits of its own, do not carry a counter below zero, nor
\* above the largest maximum among the increments it holds.
CounterBounded ==
  \A k \in Counters :
    Live(k) /\ (\A c \in AppliedTo(k) : Sensible(call[c])) =>
      /\ redis[k].value >= 0
      /\ \E c \in AppliedTo(k) :
           /\ call[c].script = "atomic_increment"
           /\ call[c].limit > 0 => redis[k].value <= call[c].limit

GivenId(q) == q.script = "get_next_id" /\ q.applied

\* An id that is given out is larger than all that were given out before it from its key,
\* whether or not their callers heard of them, unless Redis has lost its data since:
\* then, against get_next_id.lua:2, ids are given again.
IdsIncrease ==
  [][\A c, d \in Calls :
       /\ ~GivenId(call[d]) /\ GivenId(call'[d])
       /\ GivenId(call[c]) /\ call[c].key = call[d].key
       => call'[d].reply.value > call[c].reply.value \/ call[c].era < era]_vars

\* The callback of every call is called, or its process dies; of a rate limiter's call
\* it never is.
EveryCallSettled ==
  \A c \in Calls :
    call[c].pc # "idle" ~>
      \/ call[c].pc = "done"
      \/ call[c].pc = "lost" /\ (call[c].failed \/ call[c].script = "rate_limit")
      \/ call[c].pc = "dropped" /\ call[c].script = "rate_limit"

\* Whoever took a lock and died, before or after the script ran, the lock gets free.
LockFreesItself == \A k \in Locks : Live(k) ~> ~Live(k)

\* Such a call leaves a counter without a lifetime.
Timeless(q) == q.script = "check_and_update" \/ q.expire <= 0

\* A counter is gone some time, unless a decrement, or an increment that gives none, has
\* taken its lifetime.
CounterExpires ==
  \A k \in Counters :
    Live(k) ~> ~Live(k) \/ \E c \in AppliedTo(k) : Timeless(call[c])

=============================================================================
