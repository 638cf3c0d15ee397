-------------------------- MODULE LuaScriptsProofs --------------------------
(***************************************************************************)
(* What the Lua scripts and their wrappers guarantee for every set of keys *)
(* and calls, every limit and lifetime, and every number of faults.        *)
(***************************************************************************)
EXTENDS LuaScripts, FiniteSums, TLAPS

-----------------------------------------------------------------------------
(* Type correctness.  Keys have one purpose each, and a call names a key of its
   script's purpose. *)

PurposeOK(q) ==
  /\ q.script \in LockScripts => q.key \in Locks
  /\ q.script \in CountScripts => q.key \in Counters
  /\ q.script = "get_next_id" => q.key \in Ids
  /\ q.script = "validate_token" => q.key \in Tokens

Typed == TypeOK /\ \A c \in Calls : PurposeOK(call[c])

LEMMA ReplyType ==
  /\ \A type \in {"none", "pending", "error", "nil", "string"} : Plain(type) \in Reply
  /\ \A n \in Int : Integer(n) \in Reply
  /\ \A flag \in {0, 1}, n \in Int : Array(flag, n) \in Reply
BY DEF Plain, Integer, Array, Reply

LEMMA CallUpdate ==
  ASSUME call \in [Calls -> Call], NEW c \in Calls, NEW q \in Call,
         call' = [call EXCEPT ![c] = q]
  PROVE  /\ call' \in [Calls -> Call]
         /\ call'[c] = q
         /\ \A d \in Calls : d # c => call'[d] = call[d]
OBVIOUS

\* A call as it is sent.
LEMMA SentFields ==
  ASSUME NEW q \in Call
  PROVE  LET s == [q EXCEPT !.pc = "sent", !.reply = Plain("pending")] IN
         /\ s \in Call
         /\ s.pc = "sent" /\ s.reply = Plain("pending")
         /\ s.script = q.script /\ s.key = q.key /\ s.tag = q.tag
         /\ s.lease = q.lease /\ s.applied = q.applied /\ s.era = q.era
         /\ s.ok = q.ok /\ s.due = q.due /\ s.failed = q.failed
<1>1. Plain("pending") \in Reply
  BY ReplyType
<1>2. QED
  BY <1>1, ZenonT(60) DEF Call

\* A call that has run.
LEMMA RanFields ==
  ASSUME Typed, NEW q \in Call, NEW due \in BOOLEAN, NEW reply \in Reply
  PROVE  LET s == Ran(q, due, reply) IN
         /\ s \in Call
         /\ s.pc = q.pc /\ s.reply = reply /\ s.due = due
         /\ s.script = q.script /\ s.key = q.key /\ s.tag = q.tag
         /\ s.lease = q.lease /\ s.applied = q.applied /\ s.era = era
         /\ s.ok = q.ok /\ s.failed = q.failed
<1>1. era \in Nat
  BY DEF Typed, TypeOK
<1>2. QED
  BY <1>1, ZenonT(60) DEF Call, Ran

\* What asking changes.
LEMMA AskFacts ==
  ASSUME Typed, NEW c \in Calls, Ask(c)
  PROVE  /\ Typed' /\ UNCHANGED <<redis, era, faults>>
         /\ \A d \in Calls : d # c => call'[d] = call[d]
         /\ call[c].pc = "idle"
         /\ call'[c].pc = "sent" /\ call'[c].reply = Plain("pending")
         /\ call'[c].lease = call[c].lease /\ call'[c].applied = call[c].applied
         /\ call'[c].era = call[c].era /\ call'[c].failed = call[c].failed
<1> DEFINE P(q) == /\ q \in Call /\ PurposeOK(q)
                   /\ q.lease = call[c].lease /\ q.applied = call[c].applied
                   /\ q.era = call[c].era /\ q.failed = call[c].failed
<1>0. call[c] \in Call /\ call \in [Calls -> Call]
  BY DEF Typed, TypeOK
<1>1. ASSUME NEW q, P(q), Send(c, q)
      PROVE  /\ Typed' /\ UNCHANGED <<redis, era, faults>>
             /\ \A d \in Calls : d # c => call'[d] = call[d]
             /\ call[c].pc = "idle"
             /\ call'[c].pc = "sent" /\ call'[c].reply = Plain("pending")
             /\ call'[c].lease = call[c].lease /\ call'[c].applied = call[c].applied
             /\ call'[c].era = call[c].era /\ call'[c].failed = call[c].failed
  <2> DEFINE s == [q EXCEPT !.pc = "sent", !.reply = Plain("pending")]
  <2>1. s \in Call /\ s.script = q.script /\ s.key = q.key /\ s.lease = q.lease
        /\ s.applied = q.applied /\ s.era = q.era /\ s.failed = q.failed
        /\ s.pc = "sent" /\ s.reply = Plain("pending")
    BY <1>1, SentFields
  <2>2. PurposeOK(s)
    BY <1>1, <2>1 DEF PurposeOK
  <2> HIDE DEF s
  <2>3. call' = [call EXCEPT ![c] = s] /\ UNCHANGED <<redis, era, faults>>
        /\ call[c].pc = "idle"
    BY <1>1 DEF Send, s
  <2>4. /\ call' \in [Calls -> Call] /\ call'[c] = s
        /\ \A d \in Calls : d # c => call'[d] = call[d]
    BY <1>0, <2>1, <2>3, CallUpdate
  <2>5. \A d \in Calls : PurposeOK(call'[d])
    BY <2>2, <2>4 DEF Typed
  <2>6. Typed'
    BY <2>3, <2>4, <2>5 DEF Typed, TypeOK, PurposeOK
  <2>7. QED
    BY <1>1, <2>1, <2>3, <2>4, <2>6
<1>2. ASSUME NEW k \in Locks, NEW t \in Tags
      PROVE  /\ P([call[c] EXCEPT !.script = "acquire_lock", !.key = k, !.tag = t])
             /\ P([call[c] EXCEPT !.script = "release_lock", !.key = k, !.tag = t])
  BY <1>0, ZenonT(60) DEF Call, PurposeOK, ScriptNames, LockScripts, CountScripts, Keys
<1>3. ASSUME NEW k \in Counters, NEW n \in Amounts, NEW m \in Limits
      PROVE  /\ \A e \in Lifetimes :
                  P([call[c] EXCEPT !.script = "atomic_increment", !.key = k,
                                    !.amount = n, !.limit = m, !.expire = e])
             /\ P([call[c] EXCEPT !.script = "check_and_update", !.key = k,
                                  !.amount = n, !.limit = m])
  <2>1. n \in Int /\ m \in Int /\ \A e \in Lifetimes : e \in Int
    BY ConstantsOK DEF ConstantsOK
  <2>2. QED
    BY <1>0, <2>1, ZenonT(60)
    DEF Call, PurposeOK, ScriptNames, LockScripts, CountScripts, Keys
<1>4. ASSUME NEW k \in Ids
      PROVE  P([call[c] EXCEPT !.script = "get_next_id", !.key = k])
  BY <1>0, ZenonT(60) DEF Call, PurposeOK, ScriptNames, LockScripts, CountScripts, Keys
<1>5. ASSUME NEW k \in Tokens
      PROVE  P([call[c] EXCEPT !.script = "validate_token", !.key = k])
  BY <1>0, ZenonT(60) DEF Call, PurposeOK, ScriptNames, LockScripts, CountScripts, Keys
<1>6. P([call[c] EXCEPT !.script = "rate_limit"])
  BY <1>0, ZenonT(60) DEF Call, PurposeOK, ScriptNames, LockScripts, CountScripts, Keys
<1> HIDE DEF P
<1>7. \E q : P(q) /\ Send(c, q)
  BY <1>2, <1>3, <1>4, <1>5, <1>6 DEF Ask, acquireLock, releaseLock, atomicIncrement,
    checkAndUpdate, getNextId, validateTokenAndGetUser, checkRateLimit
<1>8. QED
  BY <1>1, <1>7 DEF P

-----------------------------------------------------------------------------
(* What the scripts' building blocks change. *)

\* How a call looks to which something happened, and what stays.
LEMMA ReturnFacts ==
  ASSUME Typed, NEW c \in Calls, NEW due \in BOOLEAN, NEW reply \in Reply,
         Return(c, due, reply)
  PROVE  /\ call' \in [Calls -> Call] /\ \A d \in Calls : PurposeOK(call'[d])
         /\ \A d \in Calls : d # c => call'[d] = call[d]
         /\ call'[c] = Ran(call[c], due, reply)
<1> DEFINE s == Ran(call[c], due, reply)
<1>0. call[c] \in Call /\ call \in [Calls -> Call]
  BY DEF Typed, TypeOK
<1>1. s \in Call /\ s.script = call[c].script /\ s.key = call[c].key
  BY <1>0, RanFields
<1> HIDE DEF s
<1>2. call' = [call EXCEPT ![c] = s]
  BY DEF Return, s
<1>3. call' \in [Calls -> Call] /\ call'[c] = s
      /\ \A d \in Calls : d # c => call'[d] = call[d]
  BY <1>0, <1>1, <1>2, CallUpdate
<1>4. \A d \in Calls : PurposeOK(call'[d])
  BY <1>1, <1>3 DEF Typed, PurposeOK
<1>5. QED
  BY <1>3, <1>4 DEF s

LEMMA ApplyFacts ==
  ASSUME Typed, NEW c \in Calls, NEW reply \in Reply, Apply(c, reply)
  PROVE  /\ call' \in [Calls -> Call] /\ \A d \in Calls : PurposeOK(call'[d])
         /\ \A d \in Calls : d # c => call'[d] = call[d]
         /\ call'[c] = [Ran(call[c], TRUE, reply) EXCEPT !.applied = TRUE]
<1> DEFINE r == Ran(call[c], TRUE, reply)
           s == [r EXCEPT !.applied = TRUE]
<1>0. call[c] \in Call /\ call \in [Calls -> Call]
  BY DEF Typed, TypeOK
<1>1. r \in Call /\ r.script = call[c].script /\ r.key = call[c].key
  BY <1>0, RanFields
<1> HIDE DEF r
<1>2. s \in Call /\ s.script = r.script /\ s.key = r.key
  BY <1>1, ZenonT(60) DEF Call
<1> HIDE DEF s
<1>3. call' = [call EXCEPT ![c] = s]
  BY DEF Apply, r, s
<1>4. call' \in [Calls -> Call] /\ call'[c] = s
      /\ \A d \in Calls : d # c => call'[d] = call[d]
  BY <1>0, <1>2, <1>3, CallUpdate
<1>5. \A d \in Calls : PurposeOK(call'[d])
  BY <1>1, <1>2, <1>4 DEF Typed, PurposeOK
<1>6. QED
  BY <1>4, <1>5 DEF r, s

LEMMA AppliedFields ==
  ASSUME NEW q \in Call, NEW reply \in Reply
  PROVE  LET s == [Ran(q, TRUE, reply) EXCEPT !.applied = TRUE] IN
         /\ s.pc = q.pc /\ s.reply = reply /\ s.due = TRUE
         /\ s.script = q.script /\ s.key = q.key /\ s.tag = q.tag
         /\ s.lease = q.lease /\ s.applied = TRUE /\ s.era = era
         /\ s.ok = q.ok /\ s.failed = q.failed
BY ZenonT(60) DEF Call, Ran

KeyspaceOK ==
  redis \in [Keys -> Entry] /\ \A k \in Counters \union Ids : redis[k].value \in Int

LEMMA StoreFacts ==
  ASSUME Typed, NEW k \in Keys, NEW v \in Values, NEW ttl \in Int,
         k \in Counters \union Ids => v \in Int, Store(k, v, ttl)
  PROVE  /\ KeyspaceOK'
         /\ redis'[k].value = v /\ redis'[k].ttl = ttl
         /\ \A j \in Keys : j # k => redis'[j] = redis[j]
<1> DEFINE e == [value |-> v, ttl |-> ttl]
<1>1. e \in Entry /\ e.value = v /\ e.ttl = ttl
  BY DEF Entry
<1> HIDE DEF e
<1>2. redis' = [redis EXCEPT ![k] = e] /\ redis \in [Keys -> Entry]
  BY DEF Store, e, Typed, TypeOK
<1>3. redis' \in [Keys -> Entry] /\ redis'[k] = e
      /\ \A j \in Keys : j # k => redis'[j] = redis[j]
  BY <1>1, <1>2
<1>4. \A j \in Counters \union Ids : redis'[j].value \in Int
  BY <1>1, <1>3 DEF Typed, TypeOK, Keys
<1>5. QED
  BY <1>1, <1>3, <1>4 DEF KeyspaceOK

LEMMA CurrentType ==
  ASSUME Typed, NEW k \in Counters \union Ids
  PROVE  current(k) \in Int
BY DEF Typed, TypeOK, current

LEMMA Disjoint ==
  /\ Locks \subseteq Keys /\ Counters \subseteq Keys /\ Ids \subseteq Keys
  /\ Tokens \subseteq Keys
  /\ \A k \in Locks : k \notin Counters /\ k \notin Ids /\ k \notin Tokens
  /\ \A k \in Counters : k \notin Ids /\ k \notin Tokens
  /\ \A k \in Ids : k \notin Tokens
BY ConstantsOK DEF ConstantsOK, Keys

-----------------------------------------------------------------------------
(* The inductive invariant: what a call is at each point, and what its effect on a
   key is worth. *)

CallOK(q) ==
  /\ q.pc = "idle" => q.reply.type = "none"
  /\ q.reply.type \in {"none", "pending"} => q.lease = 0 /\ ~q.applied
  /\ q.lease > 0 => \/ q.script = "acquire_lock"
                    \/ q.script = "validate_token" /\ q.lease <= TokenTtl

\* A lock is in the name of the call that has it, and a lock or a token is there for as
\* long at least as a call counts on it.
LeasesOK ==
  /\ \A c \in Calls :
       call[c].lease > 0 =>
         /\ redis[call[c].key].ttl >= call[c].lease
         /\ call[c].key \in Locks => redis[call[c].key].value = call[c].tag
  /\ MutualExclusion

\* An id counter never runs out and has reached every id that was given in its era.
IdsOK ==
  /\ \A k \in Ids : redis[k].ttl \in {0, -1}
  /\ \A c \in Calls :
       /\ call[c].era <= era
       /\ GivenId(call[c]) /\ call[c].era = era =>
            /\ Live(call[c].key)
            /\ call[c].reply.value <= redis[call[c].key].value

KeysOK == LeasesOK /\ IdsOK

IInv == Typed /\ (\A c \in Calls : CallOK(call[c])) /\ KeysOK

\* Most steps leave the keys, and the calls that have an effect on one, alone.
Quiet ==
  /\ UNCHANGED <<redis, era>>
  /\ \A d \in Calls :
       /\ call'[d].lease = call[d].lease /\ call'[d].applied = call[d].applied
       /\ call'[d].era <= era
       /\ call[d].lease > 0 \/ call[d].applied =>
            /\ call'[d].script = call[d].script /\ call'[d].key = call[d].key
            /\ call'[d].tag = call[d].tag /\ call'[d].era = call[d].era
            /\ call'[d].reply.value = call[d].reply.value

LEMMA QuietKeepsKeys ==
  ASSUME KeysOK, Quiet
  PROVE  KeysOK'
<1>1. LeasesOK'
  BY DEF KeysOK, LeasesOK, MutualExclusion, Quiet
<1>2. IdsOK'
  BY DEF KeysOK, IdsOK, Quiet, Live, GivenId
<1>3. QED
  BY <1>1, <1>2 DEF KeysOK

LEMMA InitInv == Init => IInv
<1> SUFFICES ASSUME Init PROVE IInv
  OBVIOUS
<1>1. AnyTag \in Tags /\ AnyLock \in Locks
  BY ConstantsOK DEF ConstantsOK, AnyTag, AnyLock
<1>2. Plain("none") \in Reply
  BY ReplyType
<1>3. NewCall \in Call
  <2>1. 0 \in Int /\ 0 \in Nat
    OBVIOUS
  <2>2. QED
    BY <1>1, <1>2, <2>1, Disjoint, ZenonT(60) DEF NewCall, Call, ScriptNames
<1>4. /\ NewCall.pc = "idle" /\ NewCall.reply.type = "none" /\ NewCall.lease = 0
      /\ ~NewCall.applied /\ NewCall.era = 0 /\ NewCall.script = "rate_limit"
  BY DEF NewCall, Plain
<1> HIDE DEF NewCall
<1>5. \A c \in Calls : call[c] = NewCall
  BY DEF Init
<1>6. Absent \in Entry /\ Absent.value = 0 /\ Absent.ttl = 0
  BY DEF Absent, Entry, Values
<1>7. /\ redis \in [Keys -> Entry]
      /\ \A k \in Keys : k \notin Tokens => redis[k] = Absent
  <2>1. [value : Users, ttl : {TokenTtl}] \subseteq Entry
    BY ConstantsOK DEF ConstantsOK, Entry, Values
  <2>2. \A k \in Keys : redis[k] \in {Absent} \union [value : Users, ttl : {TokenTtl}]
    BY DEF Init
  <2>3. \A k \in Keys : k \notin Tokens => redis[k].ttl = 0
    BY DEF Init, Live
  <2>4. \A e \in [value : Users, ttl : {TokenTtl}] : e.ttl # 0
    BY ConstantsOK DEF ConstantsOK
  <2>5. QED
    BY <1>6, <2>1, <2>2, <2>3, <2>4 DEF Init
<1>8. Typed
  BY <1>3, <1>4, <1>5, <1>6, <1>7, Disjoint, ConstantsOK
  DEF Init, Typed, TypeOK, PurposeOK, ConstantsOK, LockScripts, CountScripts
<1>9. \A c \in Calls : CallOK(call[c])
  BY <1>4, <1>5 DEF CallOK
<1>10. KeysOK
  BY <1>4, <1>5, <1>6, <1>7, Disjoint
  DEF Init, KeysOK, LeasesOK, MutualExclusion, IdsOK, Live, GivenId
<1>11. QED
  BY <1>8, <1>9, <1>10 DEF IInv

LEMMA AskKeeps ==
  ASSUME IInv, NEW c \in Calls, Ask(c)
  PROVE  IInv'
<1>1. Typed /\ CallOK(call[c])
  BY DEF IInv
<1> DEFINE q == call'[c]
<1>2. /\ Typed' /\ UNCHANGED <<redis, era>>
      /\ \A d \in Calls : d # c => call'[d] = call[d]
      /\ call[c].pc = "idle" /\ q.pc = "sent" /\ q.reply = Plain("pending")
      /\ q.lease = call[c].lease /\ q.applied = call[c].applied /\ q.era = call[c].era
  BY <1>1, AskFacts
<1>3. call[c].lease = 0 /\ ~call[c].applied
  BY <1>1, <1>2 DEF CallOK
<1>4. CallOK(q)
  BY <1>2, <1>3 DEF CallOK, Plain
<1>5. Quiet
  BY <1>2, <1>3 DEF Quiet, IInv, KeysOK, IdsOK
<1>6. \A d \in Calls : CallOK(call'[d])
  BY <1>2, <1>4 DEF IInv
<1>7. KeysOK'
  BY <1>5, QuietKeepsKeys DEF IInv
<1>8. QED
  BY <1>2, <1>6, <1>7 DEF IInv, CallOK

-----------------------------------------------------------------------------
(* The scripts keep the invariant. *)

\* A script that changes nothing: it refuses or fails.
LEMMA ReturnKeeps ==
  ASSUME IInv, NEW c \in Calls, NEW due \in BOOLEAN, NEW reply \in Reply,
         call[c].reply.type = "pending", reply.type \notin {"none", "pending"},
         Return(c, due, reply), UNCHANGED <<redis, era, faults>>
  PROVE  IInv'
<1> DEFINE q == Ran(call[c], due, reply)
<1>0. Typed /\ CallOK(call[c]) /\ call[c] \in Call
  BY DEF IInv, Typed, TypeOK
<1>1. /\ q \in Call /\ q.pc = call[c].pc /\ q.reply = reply
      /\ q.lease = call[c].lease /\ q.applied = call[c].applied
      /\ q.script = call[c].script /\ q.era = era
  BY <1>0, RanFields
<1> HIDE DEF q
<1>2. /\ call' \in [Calls -> Call] /\ \A d \in Calls : PurposeOK(call'[d])
      /\ \A d \in Calls : d # c => call'[d] = call[d]
      /\ call'[c] = q
  BY <1>0, ReturnFacts DEF q
<1>3. call[c].lease = 0 /\ ~call[c].applied
  BY <1>0 DEF CallOK
<1>4. CallOK(q)
  BY <1>0, <1>1, <1>3 DEF CallOK
<1>5. \A d \in Calls : CallOK(call'[d])
  BY <1>2, <1>4 DEF IInv
<1>6. Typed'
  BY <1>0, <1>2 DEF Typed, TypeOK
<1>7. Quiet
  <2>1. era <= era
    BY <1>0 DEF Typed, TypeOK
  <2>2. QED
    BY <1>1, <1>2, <1>3, <2>1 DEF Quiet, IInv, KeysOK, IdsOK
<1>8. KeysOK'
  BY <1>7, QuietKeepsKeys DEF IInv
<1>9. QED
  BY <1>5, <1>6, <1>8 DEF IInv, CallOK

\* The lock was free, so nobody has it.
LEMMA AcquireKeeps ==
  ASSUME IInv, NEW c \in Calls, acquire_lock(c)
  PROVE  IInv'
<1> DEFINE k == call[c].key
<1>0. Typed /\ CallOK(call[c]) /\ call[c] \in Call /\ k \in Locks
      /\ call[c].reply.type = "pending"
  BY DEF IInv, Typed, TypeOK, PurposeOK, acquire_lock, Running, LockScripts
<1>1. CASE ~numeric /\ Fail(c, ~Live(k))
  BY <1>0, <1>1, ReplyType, ReturnKeeps DEF Fail, acquire_lock, Plain
<1>2. CASE numeric /\ ~free(k) /\ Refuse(c, Integer(0))
  <2>1. Integer(0) \in Reply /\ Integer(0).type = "integer"
    BY ReplyType DEF Integer
  <2>2. Return(c, FALSE, Integer(0)) /\ UNCHANGED <<redis, era, faults>>
    BY <1>2 DEF Refuse, acquire_lock
  <2>3. QED
    BY <1>0, <2>1, <2>2, ReturnKeeps
<1>3. CASE /\ numeric /\ free(k) /\ Store(k, call[c].tag, lockLifetime)
           /\ call' = [call EXCEPT ![c] = [Ran(@, TRUE, Integer(1)) EXCEPT !.lease = LockTtl]]
  <2> DEFINE r == Ran(call[c], TRUE, Integer(1))
             q == [r EXCEPT !.lease = LockTtl]
  <2>1. Integer(1) \in Reply /\ Integer(1).type = "integer"
    BY ReplyType DEF Integer
  <2>2. /\ r \in Call /\ r.pc = call[c].pc /\ r.reply = Integer(1)
        /\ r.applied = call[c].applied /\ r.script = call[c].script /\ r.key = k
        /\ r.tag = call[c].tag /\ r.era = era
    BY <1>0, <2>1, RanFields
  <2> HIDE DEF r
  <2>3. /\ q \in Call /\ q.pc = r.pc /\ q.reply = r.reply /\ q.lease = LockTtl
        /\ q.applied = r.applied /\ q.script = r.script /\ q.key = r.key /\ q.tag = r.tag
        /\ q.era = r.era
    BY <2>2, ConstantsOK, ZenonT(60) DEF ConstantsOK, Call
  <2> HIDE DEF q
  <2>4. call' = [call EXCEPT ![c] = q] /\ call \in [Calls -> Call]
    BY <1>0, <1>3 DEF q, r, Typed, TypeOK
  <2>5. /\ call' \in [Calls -> Call] /\ call'[c] = q
        /\ \A d \in Calls : d # c => call'[d] = call[d]
    BY <2>3, <2>4, CallUpdate
  <2>6. k \in Keys /\ call[c].tag \in Values /\ lockLifetime \in Int
        /\ k \notin Counters /\ k \notin Ids
    BY <1>0, Disjoint, ConstantsOK DEF ConstantsOK, Call, Values, lockLifetime
  <2>7. /\ KeyspaceOK'
        /\ redis'[k].value = call[c].tag /\ redis'[k].ttl = LockTtl
        /\ \A j \in Keys : j # k => redis'[j] = redis[j]
    BY <1>0, <1>3, <2>6, StoreFacts DEF lockLifetime
  <2>8. Typed'
    <3>1. \A d \in Calls : PurposeOK(call'[d])
      BY <1>0, <2>2, <2>3, <2>5 DEF Typed, PurposeOK
    <3>2. faults' = faults /\ era' = era
      BY DEF acquire_lock
    <3>3. QED
      BY <1>0, <2>5, <2>7, <3>1, <3>2 DEF Typed, TypeOK, KeyspaceOK
  <2>9. call[c].script = "acquire_lock"
    BY DEF acquire_lock, Running
  <2>10. CallOK(q)
    BY <1>0, <2>1, <2>2, <2>3, <2>9 DEF CallOK
  <2>11. \A d \in Calls : CallOK(call'[d])
    BY <2>5, <2>10 DEF IInv
  <2>12. \A d \in Calls : call[d].lease > 0 => call[d].key # k
    BY <1>3 DEF IInv, KeysOK, LeasesOK, Typed, TypeOK, Call, free, Live
  <2>13. \A d \in Calls : call[d].key \in Keys
    BY <1>0 DEF Typed, TypeOK, Call
  <2>14. LeasesOK'
    BY <2>2, <2>3, <2>5, <2>7, <2>12, <2>13, ConstantsOK
    DEF IInv, KeysOK, LeasesOK, MutualExclusion, ConstantsOK
  <2>15. IdsOK'
    <3>1. era' = era /\ era <= era
      BY <1>0 DEF acquire_lock, Typed, TypeOK
    <3>2. QED
      BY <1>0, <2>2, <2>3, <2>5, <2>6, <2>7, <2>9, <2>13, <3>1, Disjoint
      DEF IInv, KeysOK, IdsOK, Live, Typed, PurposeOK, GivenId
  <2>16. QED
    BY <2>8, <2>11, <2>14, <2>15 DEF IInv, KeysOK, CallOK
<1>4. QED
  BY <1>1, <1>2, <1>3 DEF acquire_lock

\* The lock is the releasing call's: what it takes away is in its own name.
LEMMA ReleaseKeeps ==
  ASSUME IInv, NEW c \in Calls, release_lock(c)
  PROVE  IInv'
<1> DEFINE k == call[c].key
<1>0. Typed /\ CallOK(call[c]) /\ call[c] \in Call /\ k \in Locks
      /\ call[c].reply.type = "pending"
  BY DEF IInv, Typed, TypeOK, PurposeOK, release_lock, Running, LockScripts
<1>1. CASE ~owns(c, k) /\ Refuse(c, Integer(0))
  <2>1. Integer(0) \in Reply /\ Integer(0).type = "integer"
    BY ReplyType DEF Integer
  <2>2. Return(c, FALSE, Integer(0)) /\ UNCHANGED <<redis, era, faults>>
    BY <1>1 DEF Refuse, release_lock
  <2>3. QED
    BY <1>0, <2>1, <2>2, ReturnKeeps
<1>2. CASE owns(c, k) /\ ~(~owns(c, k) /\ Refuse(c, Integer(0)))
  <2> DEFINE r == Ran(call[c], TRUE, Integer(1))
             p(d) == [call[d] EXCEPT !.lease = 0]
             freed(d) == call[d].key = k /\ call[d].tag = call[c].tag
  <2>1. Integer(1) \in Reply /\ Integer(1).type = "integer"
    BY ReplyType DEF Integer
  <2>2. /\ r \in Call /\ r.pc = call[c].pc /\ r.reply = Integer(1)
        /\ r.lease = call[c].lease /\ r.applied = call[c].applied
        /\ r.script = call[c].script /\ r.key = k /\ r.era = era
    BY <1>0, <2>1, RanFields
  <2>3. ASSUME NEW d \in Calls
        PROVE  LET q == p(d) IN
               /\ q \in Call /\ q.pc = call[d].pc /\ q.reply = call[d].reply
               /\ q.lease = 0 /\ q.applied = call[d].applied /\ q.tag = call[d].tag
               /\ q.script = call[d].script /\ q.key = call[d].key
               /\ q.era = call[d].era
    <3>1. call[d] \in Call
      BY <1>0 DEF Typed, TypeOK
    <3>2. QED
      BY <3>1, ZenonT(60) DEF Call
  <2>4. /\ redis' = [redis EXCEPT ![k] = Absent]
        /\ call' = [d \in Calls |-> IF d = c THEN r ELSE IF freed(d) THEN p(d) ELSE call[d]]
        /\ UNCHANGED <<era, faults>>
    BY <1>2 DEF release_lock
  <2>5. call[c].lease = 0 /\ ~call[c].applied
    BY <1>0 DEF CallOK
  <2> HIDE DEF r, p
  <2>6. /\ call'[c] = r
        /\ \A d \in Calls : d # c => call'[d] = IF freed(d) THEN p(d) ELSE call[d]
    BY <2>4
  <2>7. call' \in [Calls -> Call]
    BY <1>0, <2>2, <2>3, <2>4 DEF Typed, TypeOK
  <2>8. \A d \in Calls :
          /\ PurposeOK(call'[d]) /\ CallOK(call'[d])
          /\ call'[d].script = call[d].script /\ call'[d].key = call[d].key
    BY <1>0, <2>1, <2>2, <2>3, <2>5, <2>6 DEF IInv, Typed, PurposeOK, CallOK
  <2>9. Absent \in Entry /\ Absent.value = 0 /\ Absent.ttl = 0
    BY DEF Absent, Entry, Values
  <2>10. /\ redis' \in [Keys -> Entry] /\ redis'[k] = Absent
         /\ \A j \in Keys : j # k => redis'[j] = redis[j]
    BY <1>0, <2>4, <2>9, Disjoint DEF Typed, TypeOK
  <2>11. Typed'
    BY <1>0, <2>4, <2>7, <2>8, <2>9, <2>10, Disjoint DEF Typed, TypeOK
  <2>12. \A d \in Calls : call'[d].lease > 0 =>
           /\ d # c /\ ~freed(d) /\ call'[d] = call[d]
    BY <2>2, <2>3, <2>5, <2>6
  <2>13. \A d \in Calls : call[d].lease > 0 /\ call[d].key = k => freed(d)
    BY <1>0, <1>2 DEF IInv, KeysOK, LeasesOK, owns
  <2>14. \A d \in Calls : call[d].key \in Keys
    BY <1>0 DEF Typed, TypeOK, Call
  <2>15. LeasesOK'
    BY <2>10, <2>12, <2>13, <2>14 DEF IInv, KeysOK, LeasesOK, MutualExclusion
  <2>16. \A d \in Calls : call'[d].applied =>
           /\ call[d].applied /\ call'[d].reply = call[d].reply
           /\ call'[d].era = call[d].era
    BY <2>2, <2>3, <2>5, <2>6
  <2>17. era' = era /\ \A d \in Calls : call'[d].era <= era
    BY <1>0, <2>2, <2>3, <2>4, <2>6 DEF IInv, KeysOK, IdsOK, Typed, TypeOK
  <2>18. IdsOK'
    BY <1>0, <2>8, <2>10, <2>14, <2>16, <2>17, Disjoint
    DEF IInv, KeysOK, IdsOK, Live, Typed, PurposeOK, GivenId
  <2>19. QED
    BY <2>8, <2>11, <2>15, <2>18 DEF IInv, KeysOK, CallOK
<1>3. QED
  BY <1>1, <1>2 DEF release_lock

\* A script that gives a counter or an id counter a new value.
LEMMA ApplyKeeps ==
  ASSUME IInv, NEW c \in Calls, NEW v \in Int, NEW ttl \in Int, NEW reply \in Reply,
         call[c].reply.type = "pending", reply.type \notin {"none", "pending"},
         call[c].key \in Counters \union Ids,
         call[c].key \in Ids => ttl = -1 /\ reply.value = v /\ v >= current(call[c].key),
         Store(call[c].key, v, ttl), Apply(c, reply), UNCHANGED <<era, faults>>
  PROVE  IInv'
<1> DEFINE k == call[c].key
           q == [Ran(call[c], TRUE, reply) EXCEPT !.applied = TRUE]
<1>0. Typed /\ CallOK(call[c]) /\ call[c] \in Call
  BY DEF IInv, Typed, TypeOK
<1>1. /\ q.pc = call[c].pc /\ q.reply = reply /\ q.lease = call[c].lease
      /\ q.script = call[c].script /\ q.key = k /\ q.era = era
  BY <1>0, AppliedFields
<1> HIDE DEF q
<1>2. /\ call' \in [Calls -> Call] /\ \A d \in Calls : PurposeOK(call'[d])
      /\ \A d \in Calls : d # c => call'[d] = call[d]
      /\ call'[c] = q
  BY <1>0, ApplyFacts DEF q
<1>3. k \in Keys /\ v \in Values
  BY Disjoint DEF Values
<1>4. /\ KeyspaceOK' /\ redis'[k].value = v /\ redis'[k].ttl = ttl
      /\ \A j \in Keys : j # k => redis'[j] = redis[j]
  BY <1>0, <1>3, StoreFacts
<1>5. Typed'
  BY <1>0, <1>2, <1>4 DEF Typed, TypeOK, KeyspaceOK
<1>6. call[c].lease = 0 /\ CallOK(q)
  BY <1>0, <1>1 DEF CallOK
<1>7. \A d \in Calls : CallOK(call'[d])
  BY <1>2, <1>6 DEF IInv
<1>8. \A d \in Calls : call[d].key \in Keys
  BY <1>0 DEF Typed, TypeOK, Call
<1>9. \A d \in Calls : call'[d].lease > 0 =>
        call'[d] = call[d] /\ call[d].key # k
  BY <1>0, <1>1, <1>2, <1>6, Disjoint DEF IInv, CallOK, Typed, PurposeOK, LockScripts
<1>10. LeasesOK'
  BY <1>4, <1>8, <1>9 DEF IInv, KeysOK, LeasesOK, MutualExclusion
<1>11. IdsOK'
  <2>1. \A j \in Ids : redis'[j].ttl \in {0, -1}
    BY <1>4, Disjoint DEF IInv, KeysOK, IdsOK
  <2>2. \A d \in Calls : call'[d].era <= era
    BY <1>0, <1>1, <1>2 DEF IInv, KeysOK, IdsOK, Typed, TypeOK
  <2>3. ASSUME NEW d \in Calls, GivenId(call'[d]), call'[d].era = era
        PROVE  redis'[call'[d].key].ttl # 0
               /\ call'[d].reply.value <= redis'[call'[d].key].value
    <3>1. call'[d].key \in Ids
      BY <1>2, <2>3 DEF PurposeOK, GivenId
    <3>2. CASE d = c
      BY <1>1, <1>2, <1>4, <3>1, <3>2
    <3>3. CASE d # c /\ call[d].key # k
      BY <1>2, <1>4, <1>8, <2>3, <3>3 DEF IInv, KeysOK, IdsOK, Live
    <3>4. CASE d # c /\ call[d].key = k
      <4>1. GivenId(call[d]) /\ call[d].era = era /\ call'[d] = call[d] /\ k \in Ids
        BY <1>2, <2>3, <3>1, <3>4
      <4>2. Live(k) /\ call[d].reply.value <= redis[k].value
        BY <3>4, <4>1 DEF IInv, KeysOK, IdsOK
      <4>3. call[d].reply.value \in Int /\ redis[k].value \in Int
        BY <1>0, <4>1 DEF Typed, TypeOK, Call, Reply
      <4>4. call[d].reply.value <= v
        BY <4>1, <4>2, <4>3 DEF current
      <4>5. QED
        BY <1>4, <3>4, <4>1, <4>4
    <3>5. QED
      BY <3>2, <3>3, <3>4
  <2>4. QED
    BY <2>1, <2>3, <2>2 DEF IdsOK, Live, GivenId
<1>12. QED
  BY <1>5, <1>7, <1>10, <1>11 DEF IInv, KeysOK, CallOK

LEMMA IncrementKeeps ==
  ASSUME IInv, NEW c \in Calls, atomic_increment(c)
  PROVE  IInv'
<1> DEFINE k == call[c].key
           n == current(k) + call[c].amount
<1>0. /\ Typed /\ k \in Counters /\ call[c].reply.type = "pending"
      /\ call[c].amount \in Int /\ current(k) \in Int
  BY CurrentType DEF IInv, Typed, TypeOK, Call, PurposeOK, atomic_increment, Running, CountScripts
<1>1. CASE ~numeric /\ Fail(c, ~exceeds(c, k))
  BY <1>0, <1>1, ReplyType, ReturnKeeps DEF Fail, atomic_increment, Plain, exceeds
<1>2. CASE numeric /\ exceeds(c, k) /\ Refuse(c, Array(0, current(k)))
  <2> DEFINE r == Array(0, current(k))
  <2>1. r \in Reply /\ r.type = "array"
    BY <1>0, ReplyType DEF Array
  <2>2. Return(c, FALSE, r) /\ UNCHANGED <<redis, era, faults>>
    BY <1>2 DEF Refuse, atomic_increment
  <2> HIDE DEF r
  <2>3. QED
    BY <1>0, <2>1, <2>2, ReturnKeeps
<1>3. CASE /\ numeric /\ ~exceeds(c, k) /\ Store(k, n, counterLifetime(c))
           /\ Apply(c, Array(1, n))
  <2> DEFINE r == Array(1, n)
  <2>1. n \in Int /\ counterLifetime(c) \in Int
    BY <1>0 DEF Typed, TypeOK, Call, counterLifetime, Forever
  <2>2. r \in Reply /\ r.type = "array"
    BY <2>1, ReplyType DEF Array
  <2>3. UNCHANGED <<era, faults>> /\ k \notin Ids
    BY <1>0, Disjoint DEF atomic_increment
  <2> HIDE DEF r, n
  <2>4. Store(k, n, counterLifetime(c)) /\ Apply(c, r)
    BY <1>3 DEF r
  <2>5. QED
    BY <1>0, <2>1, <2>2, <2>3, <2>4, ApplyKeeps
<1>4. QED
  BY <1>1, <1>2, <1>3 DEF atomic_increment

LEMMA UpdateKeeps ==
  ASSUME IInv, NEW c \in Calls, check_and_update(c)
  PROVE  IInv'
<1> DEFINE k == call[c].key
           n == current(k) - call[c].amount
<1>0. /\ Typed /\ k \in Counters /\ call[c].reply.type = "pending"
      /\ call[c].amount \in Int /\ current(k) \in Int
  BY CurrentType DEF IInv, Typed, TypeOK, Call, PurposeOK, check_and_update, Running, CountScripts
<1> DEFINE R(r) == r \in Reply /\ r.type \notin {"none", "pending"}
<1>1. R(Array(0, -1)) /\ R(Array(0, current(k))) /\ R(Plain("error"))
  BY <1>0, ReplyType DEF Array, Plain
<1>2. ASSUME NEW r, R(r), NEW due \in BOOLEAN, Return(c, due, r), UNCHANGED redis
      PROVE  IInv'
  <2>1. UNCHANGED <<redis, era, faults>>
    BY <1>2 DEF check_and_update
  <2>2. QED
    BY <1>0, <1>2, <2>1, ReturnKeeps
<1>3. CASE /\ Live(k) /\ numeric /\ enough(c, k) /\ Store(k, n, Forever)
           /\ Apply(c, Array(1, n))
  <2> DEFINE r == Array(1, n)
  <2>1. n \in Int /\ Forever \in Int
    BY <1>0 DEF Forever
  <2>2. r \in Reply /\ r.type = "array"
    BY <2>1, ReplyType DEF Array
  <2>3. UNCHANGED <<era, faults>> /\ k \notin Ids
    BY <1>0, Disjoint DEF check_and_update
  <2> HIDE DEF r, n
  <2>4. Store(k, n, Forever) /\ Apply(c, r)
    BY <1>3 DEF r
  <2>5. QED
    BY <1>0, <2>1, <2>2, <2>3, <2>4, ApplyKeeps
<1>4. enough(c, k) \in BOOLEAN
  BY DEF enough
<1> HIDE DEF R
<1>5. QED
  BY <1>1, <1>2, <1>3, <1>4 DEF check_and_update, Refuse, Fail

\* An id counter has no lifetime: it is where it was, and one further.
LEMMA NextIdKeeps ==
  ASSUME IInv, NEW c \in Calls, get_next_id(c)
  PROVE  IInv'
<1> DEFINE k == call[c].key
           n == current(k) + 1
           r == Integer(n)
<1>0. /\ Typed /\ k \in Ids /\ call[c].reply.type = "pending" /\ current(k) \in Int
  BY CurrentType DEF IInv, Typed, TypeOK, PurposeOK, get_next_id, Running
<1>1. r \in Reply /\ r.type = "integer" /\ r.value = n /\ n \in Int /\ n >= current(k)
  BY <1>0, ReplyType DEF Integer
<1>2. idTtl(k) = -1 /\ k \notin Counters
  BY <1>0, Disjoint DEF IInv, KeysOK, IdsOK, idTtl, Live, Forever
<1> HIDE DEF r, n
<1>3. Store(k, n, idTtl(k)) /\ Apply(c, r) /\ UNCHANGED <<era, faults>>
  BY DEF get_next_id, n, r
<1>4. -1 \in Int
  OBVIOUS
<1>5. QED
  BY <1>0, <1>1, <1>2, <1>3, <1>4, ApplyKeeps

\* The token gets the longest lifetime any call that was told its user can count on.
LEMMA ValidateKeeps ==
  ASSUME IInv, NEW c \in Calls, validate_token(c)
  PROVE  IInv'
<1> DEFINE k == call[c].key
<1>0. /\ Typed /\ k \in Tokens /\ call[c].reply.type = "pending" /\ call[c] \in Call
      /\ CallOK(call[c])
  BY DEF IInv, Typed, TypeOK, PurposeOK, validate_token, Running
<1>1. CASE ~Live(k) /\ Refuse(c, Plain("nil"))
  BY <1>0, <1>1, ReplyType, ReturnKeeps DEF Refuse, validate_token, Plain
<1>2. CASE Live(k) /\ ~numeric /\ Fail(c, TRUE)
  BY <1>0, <1>2, ReplyType, ReturnKeeps DEF Fail, validate_token, Plain
<1>3. CASE /\ Store(k, redis[k].value, tokenLifetime(k))
           /\ call' = [call EXCEPT ![c] = [Ran(@, TRUE, Plain("string"))
                                             EXCEPT !.lease = TokenTtl]]
  <2> DEFINE r == Ran(call[c], TRUE, Plain("string"))
             q == [r EXCEPT !.lease = TokenTtl]
  <2>1. Plain("string") \in Reply /\ Plain("string").type = "string"
    BY ReplyType DEF Plain
  <2>2. /\ r \in Call /\ r.pc = call[c].pc /\ r.reply = Plain("string")
        /\ r.applied = call[c].applied /\ r.script = call[c].script /\ r.key = k
        /\ r.era = era
    BY <1>0, <2>1, RanFields
  <2> HIDE DEF r
  <2>3. /\ q \in Call /\ q.pc = r.pc /\ q.reply = r.reply /\ q.lease = TokenTtl
        /\ q.applied = r.applied /\ q.script = r.script /\ q.key = r.key
        /\ q.era = r.era
    BY <2>2, ConstantsOK, ZenonT(60) DEF ConstantsOK, Call
  <2> HIDE DEF q
  <2>4. call' = [call EXCEPT ![c] = q] /\ call \in [Calls -> Call]
    BY <1>0, <1>3 DEF q, r, Typed, TypeOK
  <2>5. /\ call' \in [Calls -> Call] /\ call'[c] = q
        /\ \A d \in Calls : d # c => call'[d] = call[d]
    BY <2>3, <2>4, CallUpdate
  <2>6. /\ k \in Keys /\ redis[k].value \in Values /\ TokenTtl \in Nat \ {0}
        /\ k \notin Locks /\ k \notin Counters /\ k \notin Ids
    BY <1>0, Disjoint, ConstantsOK DEF ConstantsOK, Typed, TypeOK, Entry
  <2>7. /\ KeyspaceOK' /\ redis'[k].ttl = TokenTtl
        /\ \A j \in Keys : j # k => redis'[j] = redis[j]
    BY <1>0, <1>3, <2>6, StoreFacts DEF tokenLifetime
  <2>8. era' = era /\ faults' = faults /\ call[c].script = "validate_token"
    BY DEF validate_token, Running
  <2>9. Typed'
    <3>1. \A d \in Calls : PurposeOK(call'[d])
      BY <1>0, <2>2, <2>3, <2>5 DEF Typed, PurposeOK
    <3>2. QED
      BY <1>0, <2>5, <2>7, <2>8, <3>1 DEF Typed, TypeOK, KeyspaceOK
  <2>10. ~call[c].applied
    BY <1>0 DEF CallOK
  <2>11. CallOK(q)
    BY <1>0, <2>1, <2>2, <2>3, <2>6, <2>8 DEF CallOK
  <2>12. \A d \in Calls : CallOK(call'[d])
    BY <2>5, <2>11 DEF IInv
  <2>13. \A d \in Calls : call[d].key \in Keys
    BY <1>0 DEF Typed, TypeOK, Call
  <2>14. ASSUME NEW d \in Calls, d # c, call[d].lease > 0, call[d].key = k
         PROVE  call[d].lease <= TokenTtl
    BY <1>0, <2>6, <2>14 DEF IInv, CallOK, Typed, PurposeOK, LockScripts
  <2>15. LeasesOK'
    <3>1. ASSUME NEW d \in Calls, call'[d].lease > 0
          PROVE  /\ redis'[call'[d].key].ttl >= call'[d].lease
                 /\ call'[d].key \in Locks => redis'[call'[d].key].value = call'[d].tag
      <4>1. CASE d = c
        BY <2>2, <2>3, <2>5, <2>6, <2>7, <4>1
      <4>2. CASE d # c /\ call[d].key = k
        BY <2>5, <2>6, <2>7, <2>14, <3>1, <4>2
      <4>3. CASE d # c /\ call[d].key # k
        BY <2>5, <2>7, <2>13, <3>1, <4>3 DEF IInv, KeysOK, LeasesOK
      <4>4. QED
        BY <4>1, <4>2, <4>3
    <3>2. MutualExclusion'
      BY <2>2, <2>3, <2>5, <2>6 DEF IInv, KeysOK, LeasesOK, MutualExclusion
    <3>3. QED
      BY <3>1, <3>2 DEF LeasesOK
  <2>16. \A d \in Calls : call'[d].applied => call'[d] = call[d]
    BY <2>2, <2>3, <2>5, <2>10
  <2>17. \A j \in Ids : redis'[j] = redis[j]
    BY <2>6, <2>7, Disjoint
  <2>18. \A d \in Calls : call'[d].era <= era
    BY <1>0, <2>2, <2>3, <2>5 DEF IInv, KeysOK, IdsOK, Typed, TypeOK
  <2>19. IdsOK'
    BY <1>0, <2>8, <2>16, <2>17, <2>18
    DEF IInv, KeysOK, IdsOK, Live, Typed, PurposeOK, GivenId
  <2>20. QED
    BY <2>9, <2>12, <2>15, <2>19 DEF IInv, KeysOK, CallOK
<1>4. QED
  BY <1>1, <1>2, <1>3 DEF validate_token

LEMMA RateLimitKeeps ==
  ASSUME IInv, NEW c \in Calls, rate_limit(c)
  PROVE  IInv'
<1>1. Plain("error") \in Reply /\ Plain("error").type = "error"
  BY ReplyType DEF Plain
<1>2. Return(c, TRUE, Plain("error")) /\ UNCHANGED <<redis, era, faults>>
      /\ call[c].reply.type = "pending"
  BY DEF rate_limit, Running, Fail
<1>3. QED
  BY <1>1, <1>2, ReturnKeeps

-----------------------------------------------------------------------------
(* What happens to a call after it was sent leaves the keys alone. *)

\* q is p after its callback, its death or the failure of its command.
Settled(p, q) ==
  /\ q \in Call
  /\ q.script = p.script /\ q.key = p.key /\ q.tag = p.tag
  /\ q.lease = p.lease /\ q.applied = p.applied /\ q.era = p.era
  /\ q.reply.value = p.reply.value
  /\ q.reply.type \in {p.reply.type, "error"} /\ q.pc # "idle"

LEMMA SettledKeeps ==
  ASSUME IInv, NEW c \in Calls, NEW q, Settled(call[c], q),
         call' = [call EXCEPT ![c] = q], UNCHANGED <<redis, era>>,
         faults' \in 0 .. MaxFaults
  PROVE  IInv'
<1>1. Typed /\ call \in [Calls -> Call] /\ q \in Call
  BY DEF IInv, Typed, TypeOK, Settled
<1>2. /\ call' \in [Calls -> Call] /\ call'[c] = q
      /\ \A d \in Calls : d # c => call'[d] = call[d]
  BY <1>1, CallUpdate
<1>3. \A d \in Calls : PurposeOK(call'[d])
  BY <1>1, <1>2 DEF Typed, PurposeOK, Settled
<1>4. Typed'
  BY <1>1, <1>2, <1>3 DEF Typed, TypeOK
<1>5. CallOK(q)
  BY DEF IInv, CallOK, Settled
<1>6. \A d \in Calls : CallOK(call'[d])
  BY <1>2, <1>5 DEF IInv
<1>7. Quiet
  BY <1>2 DEF Quiet, Settled, IInv, KeysOK, IdsOK
<1>8. KeysOK'
  BY <1>7, QuietKeepsKeys DEF IInv
<1>9. QED
  BY <1>4, <1>6, <1>8 DEF IInv, CallOK

\* The fields of a call that its callback, its death or a failed command leave alone.
LEMMA SettledFields ==
  ASSUME NEW p \in Call, NEW pc \in {"done", "lost", "dropped"}, NEW ok \in BOOLEAN
  PROVE  /\ Settled(p, [p EXCEPT !.pc = pc, !.ok = ok])
         /\ Settled(p, [p EXCEPT !.pc = pc])
         /\ Settled(p, [p EXCEPT !.pc = pc, !.failed = TRUE])
         /\ p.pc # "idle" => Settled(p, [p EXCEPT !.reply.type = "error", !.failed = TRUE])
<1> USE DEF Call, Settled
<1>1. Settled(p, [p EXCEPT !.pc = pc, !.ok = ok])
  BY ZenonT(60)
<1>2. Settled(p, [p EXCEPT !.pc = pc])
  BY ZenonT(60)
<1>3. Settled(p, [p EXCEPT !.pc = pc, !.failed = TRUE])
  BY ZenonT(60)
<1>4. ASSUME p.pc # "idle"
      PROVE  Settled(p, [p EXCEPT !.reply.type = "error", !.failed = TRUE])
  <2> DEFINE r == [p.reply EXCEPT !.type = "error"]
  <2>1. r \in Reply /\ r.value = p.reply.value /\ r.type = "error"
    BY DEF Reply
  <2>2. [p EXCEPT !.reply.type = "error", !.failed = TRUE]
          = [p EXCEPT !.reply = r, !.failed = TRUE]
    OBVIOUS
  <2> HIDE DEF r
  <2>3. Settled(p, [p EXCEPT !.reply = r, !.failed = TRUE])
    BY <1>4, <2>1, ZenonT(60)
  <2>4. QED
    BY <2>2, <2>3
<1>5. QED
  BY <1>1, <1>2, <1>3, <1>4

LEMMA AfterwardsKeeps ==
  ASSUME IInv, NEW c \in Calls,
         Callback(c) \/ NullResultCrash(c) \/ CommandFails(c) \/ CallerDies(c)
  PROVE  IInv'
<1>0. call[c] \in Call /\ faults \in 0 .. MaxFaults /\ MaxFaults \in Nat
  BY ConstantsOK DEF ConstantsOK, IInv, Typed, TypeOK
<1>1. CASE OnInteger(c) \/ OnArray(c) \/ OnToken(c)
  <2>1. saidYes(call[c].reply) \in BOOLEAN
    BY DEF saidYes
  <2>2. \E ok \in BOOLEAN : Tell(c, ok)
    BY <1>1, <2>1 DEF OnInteger, OnArray, OnToken
  <2>3. PICK ok \in BOOLEAN : Tell(c, ok)
    BY <2>2
  <2> DEFINE q == [call[c] EXCEPT !.pc = "done", !.ok = ok]
  <2>4. Settled(call[c], q)
    BY <1>0, SettledFields
  <2>5. call' = [call EXCEPT ![c] = q] /\ UNCHANGED <<redis, era>> /\ faults' = faults
    BY <1>1, <2>3 DEF Tell, OnInteger, OnArray, OnToken
  <2> HIDE DEF q
  <2>6. QED
    BY <1>0, <2>4, <2>5, SettledKeeps
<1>2. CASE OnRateLimit(c)
  <2> DEFINE q == [call[c] EXCEPT !.pc = "dropped"]
  <2>1. Settled(call[c], q)
    BY <1>0, SettledFields
  <2>2. call' = [call EXCEPT ![c] = q] /\ UNCHANGED <<redis, era>> /\ faults' = faults
    BY <1>2 DEF OnRateLimit
  <2> HIDE DEF q
  <2>3. QED
    BY <1>0, <2>1, <2>2, SettledKeeps
<1>3. CASE NullResultCrash(c)
  <2> DEFINE q == [call[c] EXCEPT !.pc = "lost"]
  <2>1. Settled(call[c], q)
    BY <1>0, SettledFields
  <2>2. call' = [call EXCEPT ![c] = q] /\ UNCHANGED <<redis, era>> /\ faults' = faults
    BY <1>3 DEF NullResultCrash
  <2> HIDE DEF q
  <2>3. QED
    BY <1>0, <2>1, <2>2, SettledKeeps
<1>4. CASE CommandFails(c)
  <2> DEFINE q == [call[c] EXCEPT !.reply.type = "error", !.failed = TRUE]
  <2>1. Settled(call[c], q)
    BY <1>0, <1>4, SettledFields DEF CommandFails
  <2>2. call' = [call EXCEPT ![c] = q]
    BY <1>4 DEF CommandFails
  <2>3. UNCHANGED <<redis, era>> /\ faults' \in 0 .. MaxFaults
    BY <1>0, <1>4 DEF CommandFails, Fault
  <2> HIDE DEF q
  <2>4. QED
    BY <1>0, <2>1, <2>2, <2>3, SettledKeeps
<1>5. CASE CallerDies(c)
  <2> DEFINE q == [call[c] EXCEPT !.pc = "lost", !.failed = TRUE]
  <2>1. Settled(call[c], q)
    BY <1>0, SettledFields
  <2>2. call' = [call EXCEPT ![c] = q]
    BY <1>5 DEF CallerDies
  <2>3. UNCHANGED <<redis, era>> /\ faults' \in 0 .. MaxFaults
    BY <1>0, <1>5 DEF CallerDies, Fault
  <2> HIDE DEF q
  <2>4. QED
    BY <1>0, <2>1, <2>2, <2>3, SettledKeeps
<1>6. QED
  BY <1>1, <1>2, <1>3, <1>4, <1>5 DEF Callback

-----------------------------------------------------------------------------
(* A restart of Redis and the passing of time. *)

LEMMA RestartKeeps ==
  ASSUME IInv, RedisRestart
  PROVE  IInv'
<1> DEFINE q(d) == [call[d] EXCEPT !.lease = 0, !.applied = @ /\ call[d].key \notin Counters]
<1>0. Typed /\ MaxFaults \in Nat
  BY ConstantsOK DEF ConstantsOK, IInv
<1>1. ASSUME NEW d \in Calls
      PROVE  /\ q(d) \in Call /\ q(d).lease = 0 /\ (q(d).applied => call[d].applied)
             /\ q(d).pc = call[d].pc /\ q(d).reply = call[d].reply
             /\ q(d).script = call[d].script /\ q(d).key = call[d].key
             /\ q(d).era = call[d].era
  <2>1. call[d] \in Call
    BY <1>0 DEF Typed, TypeOK
  <2>2. QED
    BY <2>1, ZenonT(60) DEF Call
<1>2. call' = [d \in Calls |-> q(d)]
  BY DEF RedisRestart
<1> HIDE DEF q
<1>3. call' \in [Calls -> Call] /\ \A d \in Calls : call'[d] = q(d)
  BY <1>1, <1>2
<1>4. \A k \in Keys : redis'[k].ttl = 0 /\ redis'[k].value = 0
  BY DEF RedisRestart, Absent
<1>5. redis' \in [Keys -> Entry]
  <2>1. Absent \in Entry
    BY DEF Absent, Entry, Values
  <2>2. redis' = [k \in Keys |-> Absent]
    BY DEF RedisRestart
  <2>3. QED
    BY <2>1, <2>2
<1>6. faults' \in 0 .. MaxFaults
  <2>1. faults < MaxFaults /\ faults' = faults + 1
    BY DEF RedisRestart, Fault
  <2>2. QED
    BY <1>0, <2>1 DEF Typed, TypeOK
<1>7. \A d \in Calls : PurposeOK(call'[d]) /\ CallOK(call'[d])
  BY <1>0, <1>1, <1>3 DEF IInv, Typed, PurposeOK, CallOK
<1>8. Typed'
  <2>1. era' = era + 1 /\ era \in Nat
    BY <1>0 DEF RedisRestart, Typed, TypeOK
  <2>2. QED
    BY <1>3, <1>4, <1>5, <1>6, <1>7, <2>1, Disjoint DEF Typed, TypeOK
<1>9. LeasesOK'
  BY <1>1, <1>3 DEF LeasesOK, MutualExclusion
<1>10. IdsOK'
  <2>1. era' = era + 1 /\ era \in Nat
    BY <1>0 DEF RedisRestart, Typed, TypeOK
  <2>2. ASSUME NEW d \in Calls
        PROVE  call'[d].era <= era' /\ call'[d].era # era'
    <3>1. call'[d].era = call[d].era /\ call[d].era <= era
      BY <1>1, <1>3 DEF IInv, KeysOK, IdsOK
    <3>2. call[d].era \in Nat
      BY <1>0 DEF Typed, TypeOK, Call
    <3>3. QED
      BY <2>1, <3>1, <3>2
  <2>3. QED
    BY <1>4, <2>2, Disjoint DEF IdsOK
<1>11. QED
  BY <1>7, <1>8, <1>9, <1>10 DEF IInv, KeysOK, CallOK

\* A lease gets shorter with the lifetime of its lock and is over no later.
LEMMA TickKeeps ==
  ASSUME IInv, Tick
  PROVE  IInv'
<1> DEFINE over(d) == call[d].key \in Counters /\ redis[call[d].key].ttl = 1
           q(d) == [call[d] EXCEPT !.lease = Older(@), !.applied = @ /\ ~over(d)]
           e(k) == IF redis[k].ttl = 1 THEN Absent ELSE [redis[k] EXCEPT !.ttl = Older(@)]
<1>0. Typed /\ \A d \in Calls : call[d] \in Call
  BY DEF IInv, Typed, TypeOK
<1>1. ASSUME NEW d \in Calls
      PROVE  /\ q(d) \in Call /\ q(d).lease = Older(call[d].lease)
             /\ q(d).applied <=> (call[d].applied /\ ~over(d))
             /\ q(d).pc = call[d].pc /\ q(d).reply = call[d].reply /\ q(d).tag = call[d].tag
             /\ q(d).script = call[d].script /\ q(d).key = call[d].key
             /\ q(d).era = call[d].era
  <2> HIDE DEF over
  <2> DEFINE n == Older(call[d].lease)
             b == call[d].applied /\ ~over(d)
  <2>1. call[d] \in Call /\ n \in Nat /\ b \in BOOLEAN
    BY <1>0 DEF Older, Call
  <2>2. q(d) = [call[d] EXCEPT !.lease = n, !.applied = b]
    OBVIOUS
  <2> HIDE DEF n, b, q
  <2>3. /\ q(d) \in Call /\ q(d).lease = n /\ q(d).applied = b
        /\ q(d).pc = call[d].pc /\ q(d).reply = call[d].reply /\ q(d).tag = call[d].tag
        /\ q(d).script = call[d].script /\ q(d).key = call[d].key
        /\ q(d).era = call[d].era
    BY <2>1, <2>2, ZenonT(60) DEF Call
  <2>4. QED
    BY <2>3 DEF n, b
<1>2. ASSUME NEW k \in Keys
      PROVE  /\ e(k) \in Entry
             /\ redis[k].ttl = 1 => e(k).value = 0 /\ e(k).ttl = 0
             /\ redis[k].ttl # 1 => e(k).value = redis[k].value /\ e(k).ttl = Older(redis[k].ttl)
  <2>1. redis[k] \in Entry /\ Older(redis[k].ttl) \in Int
    BY <1>0 DEF Typed, TypeOK, Entry, Older
  <2>2. QED
    BY <2>1 DEF Entry, Absent, Values
<1>3. /\ redis' = [k \in Keys |-> e(k)] /\ call' = [d \in Calls |-> q(d)]
      /\ era' = era /\ faults' = faults
  BY DEF Tick
<1> HIDE DEF q, e
<1>4. /\ call' \in [Calls -> Call] /\ \A d \in Calls : call'[d] = q(d)
      /\ redis' \in [Keys -> Entry] /\ \A k \in Keys : redis'[k] = e(k)
  BY <1>1, <1>2, <1>3
<1>5. \A d \in Calls : PurposeOK(call'[d])
  BY <1>0, <1>1, <1>4 DEF Typed, PurposeOK
<1>6. ASSUME NEW d \in Calls
      PROVE  CallOK(call'[d])
  <2> DEFINE n == call[d].lease
  <2>1. n \in Nat /\ CallOK(call[d]) /\ TokenTtl \in Nat
    BY <1>0, ConstantsOK DEF ConstantsOK, IInv, Call
  <2>2. Older(n) <= n /\ Older(n) \in Nat
    BY <2>1 DEF Older
  <2>3. call'[d].lease = Older(n)
    BY <1>1, <1>4
  <2>4. /\ call'[d].pc = call[d].pc /\ call'[d].reply = call[d].reply
        /\ call'[d].script = call[d].script /\ (call'[d].applied => call[d].applied)
    BY <1>1, <1>4
  <2>5. QED
    BY <2>1, <2>2, <2>3, <2>4 DEF CallOK
<1>7. Typed'
  BY <1>0, <1>2, <1>3, <1>4, <1>5, Disjoint DEF Typed, TypeOK
<1>8. ASSUME NEW d \in Calls
      PROVE  call[d].lease \in Nat /\ call[d].key \in Keys /\ redis[call[d].key].ttl \in Int
  BY <1>0 DEF Typed, TypeOK, Call, Entry
<1>9. LeasesOK'
  BY <1>1, <1>2, <1>4, <1>8 DEF IInv, KeysOK, LeasesOK, MutualExclusion, Older
<1>10. IdsOK'
  BY <1>0, <1>1, <1>2, <1>3, <1>4, <1>8, Disjoint
  DEF IInv, KeysOK, IdsOK, Live, Typed, PurposeOK, Older, GivenId
<1>11. QED
  BY <1>6, <1>7, <1>9, <1>10 DEF IInv, KeysOK, CallOK

-----------------------------------------------------------------------------
(* The theorems. *)

LEMMA NextKeeps == IInv /\ [Next]_vars => IInv'
<1> SUFFICES ASSUME IInv, [Next]_vars PROVE IInv'
  OBVIOUS
<1>1. CASE UNCHANGED vars
  BY <1>1 DEF vars, IInv, Typed, TypeOK, PurposeOK, CallOK, KeysOK, LeasesOK,
    MutualExclusion, IdsOK, Live, GivenId
<1>2. ASSUME NEW c \in Calls, Ask(c) PROVE IInv'
  BY <1>2, AskKeeps
<1>3. ASSUME NEW c \in Calls, RunScript(c) PROVE IInv'
  BY <1>3, AcquireKeeps, ReleaseKeeps, IncrementKeeps, UpdateKeeps, NextIdKeeps,
    ValidateKeeps, RateLimitKeeps DEF RunScript
<1>4. ASSUME NEW c \in Calls,
             Callback(c) \/ NullResultCrash(c) \/ CommandFails(c) \/ CallerDies(c)
      PROVE  IInv'
  BY <1>4, AfterwardsKeeps
<1>5. QED
  BY <1>1, <1>2, <1>3, <1>4, RestartKeeps, TickKeeps DEF Next

LEMMA Invariance == Spec => []IInv
BY InitInv, NextKeeps, PTL DEF Spec

\* The keyspace and the calls keep their types (RedisUtils.cpp and the scripts).
THEOREM TypeCorrect == Spec => []TypeOK
<1>1. IInv => TypeOK
  BY DEF IInv, Typed
<1>2. QED
  BY <1>1, Invariance, PTL

\* Whatever dies, is lost or expires, no two calls have a lock at a time
\* (acquire_lock.lua, release_lock.lua).
THEOREM LocksAreExclusive == Spec => []MutualExclusion
<1>1. IInv => MutualExclusion
  BY DEF IInv, KeysOK, LeasesOK
<1>2. QED
  BY <1>1, Invariance, PTL

\* A lock stays in its taker's name until it runs out or is given back
\* (acquire_lock.lua, release_lock.lua).
THEOREM LeasesAreHonoured == Spec => []LeaseHonoured
<1>1. IInv => LeaseHonoured
  BY DEF IInv, KeysOK, LeasesOK, LeaseHonoured
<1>2. QED
  BY <1>1, Invariance, PTL

\* Whoever was told the user of a token can count on it for TokenTtl, whoever else
\* validates it and however close to its end it was (validate_token.lua).
THEOREM RefreshesAreHonoured == Spec => []RefreshHonoured
<1>1. IInv => RefreshHonoured
  BY DEF IInv, KeysOK, LeasesOK, RefreshHonoured
<1>2. QED
  BY <1>1, Invariance, PTL

\* Only the scripts that write a number have an effect that lasts.
LEMMA EffectsAreTheScripts ==
  ASSUME IInv, Next, NEW d \in Calls, ~call[d].applied, call'[d].applied
  PROVE  atomic_increment(d) \/ check_and_update(d) \/ get_next_id(d)
<1>0. Typed /\ call[d] \in Call /\ call \in [Calls -> Call]
  BY DEF IInv, Typed, TypeOK
<1> DEFINE same == call'[d].applied => call[d].applied
<1>1. ASSUME NEW c \in Calls, Ask(c) PROVE same
  BY <1>0, <1>1, AskFacts
<1>2. ASSUME NEW c \in Calls, NEW due, NEW reply, Return(c, due, reply) PROVE same
  BY <1>0, <1>2, ZenonT(60) DEF Call, Return, Ran
<1>3. ASSUME NEW c \in Calls, acquire_lock(c) PROVE same
  <2>1. CASE \E due, reply : Return(c, due, reply)
    BY <1>2, <2>1
  <2>2. CASE call' = [call EXCEPT ![c] = [Ran(@, TRUE, Integer(1)) EXCEPT !.lease = LockTtl]]
    BY <1>0, <2>2, ZenonT(60) DEF Call, Ran
  <2>3. QED
    BY <1>3, <2>1, <2>2 DEF acquire_lock, Refuse, Fail
<1>4. ASSUME NEW c \in Calls, release_lock(c) PROVE same
  <2>1. CASE \E due, reply : Return(c, due, reply)
    BY <1>2, <2>1
  <2>2. CASE call' = [e \in Calls |->
             IF e = c THEN Ran(call[c], TRUE, Integer(1))
             ELSE IF call[e].key = call[c].key /\ call[e].tag = call[c].tag
             THEN [call[e] EXCEPT !.lease = 0]
             ELSE call[e]]
    BY <1>0, <2>2, ZenonT(60) DEF Call, Ran
  <2>3. QED
    BY <1>4, <2>1, <2>2 DEF release_lock, Refuse
<1>5. ASSUME NEW c \in Calls, validate_token(c) \/ rate_limit(c) PROVE same
  <2>1. CASE \E due, reply : Return(c, due, reply)
    BY <1>2, <2>1
  <2>2. CASE call' = [call EXCEPT ![c] = [Ran(@, TRUE, Plain("string"))
                                            EXCEPT !.lease = TokenTtl]]
    BY <1>0, <2>2, ZenonT(60) DEF Call, Ran
  <2>3. QED
    BY <1>5, <2>1, <2>2 DEF validate_token, rate_limit, Refuse, Fail
<1>6. ASSUME NEW c \in Calls,
             atomic_increment(c) \/ check_and_update(c) \/ get_next_id(c), c # d
      PROVE  same
  <2>1. CASE \E due, reply : Return(c, due, reply)
    BY <1>2, <2>1
  <2>2. CASE \E reply : Apply(c, reply)
    BY <1>0, <1>6, <2>2 DEF Apply
  <2>3. QED
    BY <1>6, <2>1, <2>2 DEF atomic_increment, check_and_update, get_next_id, Refuse, Fail
<1>7. ASSUME NEW c \in Calls, Callback(c) PROVE same
  <2>1. CASE \E ok : Tell(c, ok)
    BY <1>0, <2>1, ZenonT(60) DEF Call, Tell
  <2>2. CASE OnRateLimit(c)
    BY <1>0, <2>2, ZenonT(60) DEF Call, OnRateLimit
  <2>3. QED
    BY <1>7, <2>1, <2>2 DEF Callback, OnInteger, OnArray, OnToken
<1>8. ASSUME NEW c \in Calls, NullResultCrash(c) \/ CommandFails(c) \/ CallerDies(c)
      PROVE  same
  BY <1>0, <1>8, ZenonT(60) DEF Call, NullResultCrash, CommandFails, CallerDies
<1>9. CASE RedisRestart
  BY <1>0, <1>9, ZenonT(60) DEF Call, RedisRestart
<1>10. CASE Tick
  <2>1. call' = [c \in Calls |->
          [call[c] EXCEPT !.lease = Older(@),
                          !.applied = @ /\ ~(call[c].key \in Counters
                                             /\ redis[call[c].key].ttl = 1)]]
    BY <1>10 DEF Tick
  <2>2. QED
    BY <1>0, <2>1, ZenonT(60) DEF Call
<1> HIDE DEF same
<1>11. same \/ \E c \in Calls : c = d /\
           (atomic_increment(c) \/ check_and_update(c) \/ get_next_id(c))
  BY <1>1, <1>3, <1>4, <1>5, <1>6, <1>7, <1>8, <1>9, <1>10 DEF Next, RunScript
<1>12. QED
  BY <1>11 DEF same

\* What a call asked for does not change once it is in a key's value, and it is in it
\* until the key is gone.
Booked(p, q) ==
  p.applied =>
    /\ q.applied /\ q.script = p.script /\ q.key = p.key
    /\ q.amount = p.amount /\ q.limit = p.limit /\ q.expire = p.expire

LEMMA BookedStays ==
  ASSUME IInv, Next, ~RedisRestart, ~Tick, NEW d \in Calls
  PROVE  Booked(call[d], call'[d])
<1> DEFINE kept == Booked(call[d], call'[d])
<1>0. Typed /\ call[d] \in Call /\ call \in [Calls -> Call] /\ CallOK(call[d])
  BY DEF IInv, Typed, TypeOK
<1>10. ASSUME NEW c \in Calls, NEW q, call' = [call EXCEPT ![c] = q],
              call[c] \in Call => Booked(call[c], q)
       PROVE  kept
  BY <1>0, <1>10 DEF Booked
<1>1. ASSUME NEW c \in Calls, Ask(c) PROVE kept
  <2>1. call[c].pc = "idle" /\ \A e \in Calls : e # c => call'[e] = call[e]
    BY <1>0, <1>1, AskFacts
  <2>2. QED
    BY <1>0, <2>1 DEF Booked, CallOK
<1>2. ASSUME NEW c \in Calls, NEW due, NEW reply, Return(c, due, reply) PROVE kept
  BY <1>0, <1>2, ZenonT(60) DEF Call, Return, Ran, Booked
<1>3. ASSUME NEW c \in Calls, acquire_lock(c) PROVE kept
  <2>1. CASE \E due, reply : Return(c, due, reply)
    BY <1>2, <2>1
  <2>2. CASE call' = [call EXCEPT ![c] = [Ran(@, TRUE, Integer(1)) EXCEPT !.lease = LockTtl]]
    BY <1>0, <2>2, ZenonT(60) DEF Call, Ran, Booked
  <2>3. QED
    BY <1>3, <2>1, <2>2 DEF acquire_lock, Refuse, Fail
<1>4. ASSUME NEW c \in Calls, release_lock(c) PROVE kept
  <2>1. CASE \E due, reply : Return(c, due, reply)
    BY <1>2, <2>1
  <2>2. CASE call' = [e \in Calls |->
             IF e = c THEN Ran(call[c], TRUE, Integer(1))
             ELSE IF call[e].key = call[c].key /\ call[e].tag = call[c].tag
             THEN [call[e] EXCEPT !.lease = 0]
             ELSE call[e]]
    BY <1>0, <2>2, ZenonT(60) DEF Call, Ran, Booked
  <2>3. QED
    BY <1>4, <2>1, <2>2 DEF release_lock, Refuse
<1>5. ASSUME NEW c \in Calls, validate_token(c) \/ rate_limit(c) PROVE kept
  <2>1. CASE \E due, reply : Return(c, due, reply)
    BY <1>2, <2>1
  <2>2. CASE call' = [call EXCEPT ![c] = [Ran(@, TRUE, Plain("string"))
                                            EXCEPT !.lease = TokenTtl]]
    BY <1>0, <2>2, ZenonT(60) DEF Call, Ran, Booked
  <2>3. QED
    BY <1>5, <2>1, <2>2 DEF validate_token, rate_limit, Refuse, Fail
<1>6. ASSUME NEW c \in Calls, atomic_increment(c) \/ check_and_update(c) \/ get_next_id(c)
      PROVE  kept
  <2>1. CASE \E due, reply : Return(c, due, reply)
    BY <1>2, <2>1
  <2>2. CASE \E reply : Apply(c, reply)
    <3>1. PICK reply : Apply(c, reply)
      BY <2>2
    <3> DEFINE q == [Ran(call[c], TRUE, reply) EXCEPT !.applied = TRUE]
    <3>2. call[c] \in Call => Booked(call[c], q)
      BY ZenonT(60) DEF Call, Ran, Booked
    <3>3. call' = [call EXCEPT ![c] = q]
      BY <3>1 DEF Apply
    <3> HIDE DEF q
    <3>4. QED
      BY <1>10, <3>2, <3>3
  <2>3. QED
    BY <1>6, <2>1, <2>2 DEF atomic_increment, check_and_update, get_next_id, Refuse, Fail
<1>7. ASSUME NEW c \in Calls, Callback(c) PROVE kept
  <2>1. CASE \E ok : Tell(c, ok)
    <3>1. PICK ok : Tell(c, ok)
      BY <2>1
    <3> DEFINE q == [call[c] EXCEPT !.pc = "done", !.ok = ok]
    <3>2. call[c] \in Call => Booked(call[c], q)
      BY ZenonT(60) DEF Call, Booked
    <3>3. call' = [call EXCEPT ![c] = q]
      BY <3>1 DEF Tell
    <3> HIDE DEF q
    <3>4. QED
      BY <1>10, <3>2, <3>3
  <2>2. CASE OnRateLimit(c)
    BY <1>0, <2>2, ZenonT(60) DEF Call, OnRateLimit, Booked
  <2>3. QED
    BY <1>7, <2>1, <2>2 DEF Callback, OnInteger, OnArray, OnToken
<1>8. ASSUME NEW c \in Calls, NullResultCrash(c) \/ CommandFails(c) \/ CallerDies(c)
      PROVE  kept
  <2>1. CASE NullResultCrash(c)
    BY <1>0, <2>1, ZenonT(60) DEF Call, NullResultCrash, Booked
  <2>2. CASE CommandFails(c)
    <3> DEFINE r == [call[c].reply EXCEPT !.type = "error"]
               q == [call[c] EXCEPT !.reply = r, !.failed = TRUE]
    <3>1. call' = [call EXCEPT ![c] = q]
      BY <2>2 DEF CommandFails
    <3> HIDE DEF r
    <3>2. call[c] \in Call => Booked(call[c], q)
      BY ZenonT(60) DEF Call, Booked
    <3> HIDE DEF q
    <3>3. QED
      BY <1>10, <3>1, <3>2
  <2>3. CASE CallerDies(c)
    BY <1>0, <2>3, ZenonT(60) DEF Call, CallerDies, Booked
  <2>4. QED
    BY <1>8, <2>1, <2>2, <2>3
<1> HIDE DEF kept
<1>9. kept
  BY <1>1, <1>3, <1>4, <1>5, <1>6, <1>7, <1>8 DEF Next, RunScript
<1>11. QED
  BY <1>9 DEF kept

LEMMA AppliedScriptStays ==
  ASSUME IInv, Next, NEW d \in Calls, call[d].applied
  PROVE  call'[d].script = call[d].script
<1>0. call[d] \in Call
  BY DEF IInv, Typed, TypeOK
<1>1. ASSUME NEW n, NEW b, call'[d] = [call[d] EXCEPT !.lease = n, !.applied = b]
      PROVE  call'[d].script = call[d].script
  BY <1>0, <1>1, ZenonT(60) DEF Call
<1>2. CASE RedisRestart
  <2> DEFINE b == call[d].applied /\ call[d].key \notin Counters
  <2>1. call'[d] = [call[d] EXCEPT !.lease = 0, !.applied = b]
    BY <1>2 DEF RedisRestart
  <2> HIDE DEF b
  <2>2. QED
    BY <1>1, <2>1
<1>3. CASE Tick
  <2> DEFINE n == Older(call[d].lease)
             b == call[d].applied /\ ~(call[d].key \in Counters
                                       /\ redis[call[d].key].ttl = 1)
  <2>1. call'[d] = [call[d] EXCEPT !.lease = n, !.applied = b]
    BY <1>3 DEF Tick
  <2> HIDE DEF n, b
  <2>2. QED
    BY <1>1, <2>1
<1>4. CASE ~RedisRestart /\ ~Tick
  BY <1>4, BookedStays DEF Booked
<1>5. QED
  BY <1>2, <1>3, <1>4

\* An id is larger than all that were given before it from its key, whatever became of the
\* calls that got them.  Only a loss of Redis's data, which forgets what a counter had
\* reached, comes between: ids of before and after one may be the same (get_next_id.lua).
THEOREM IdsDoIncrease == Spec => IdsIncrease
<1> DEFINE A(c, d) ==
      /\ ~GivenId(call[d]) /\ GivenId(call'[d])
      /\ GivenId(call[c]) /\ call[c].key = call[d].key
      => call'[d].reply.value > call[c].reply.value \/ call[c].era < era
<1>1. ASSUME IInv, Next, NEW c \in Calls, NEW d \in Calls,
             ~GivenId(call[d]), GivenId(call'[d]),
             GivenId(call[c]), call[c].key = call[d].key, ~(call[c].era < era)
      PROVE  call'[d].reply.value > call[c].reply.value
  <2> DEFINE n == current(call[d].key) + 1
             r == Integer(n)
  <2>1. /\ Typed /\ call[d] \in Call /\ call[c] \in Call /\ call[d].key \in Ids
        /\ call[c].era = era
    <3>1. Typed /\ call[d] \in Call /\ call[c] \in Call /\ era \in Nat
      BY <1>1 DEF IInv, Typed, TypeOK
    <3>2. call[d].key \in Ids
      BY <1>1, <3>1 DEF Typed, PurposeOK, GivenId
    <3>3. call[c].era \in Nat /\ call[c].era <= era
      BY <1>1, <3>1 DEF IInv, KeysOK, IdsOK, Call
    <3>4. QED
      BY <1>1, <3>1, <3>2, <3>3
  <2>2. get_next_id(d)
    <3>1. ~call[d].applied
      <4>1. CASE call[d].applied
        BY <1>1, <4>1, AppliedScriptStays DEF GivenId
      <4>2. QED
        BY <4>1
    <3>2. atomic_increment(d) \/ check_and_update(d) \/ get_next_id(d)
      BY <1>1, <3>1, EffectsAreTheScripts DEF GivenId
    <3>3. call[d].script \notin CountScripts
      BY <2>1, Disjoint DEF Typed, PurposeOK
    <3>4. QED
      BY <3>2, <3>3 DEF atomic_increment, check_and_update, Running, CountScripts
  <2>3. n \in Int /\ r \in Reply /\ r.value = n
    BY <2>1, CurrentType, ReplyType DEF Integer
  <2> HIDE DEF r
  <2>4. Apply(d, r)
    BY <2>2 DEF get_next_id, r
  <2>5. call'[d].reply = r
    <3> DEFINE q == [Ran(call[d], TRUE, r) EXCEPT !.applied = TRUE]
    <3>1. call'[d] = q
      BY <2>1, <2>3, <2>4, ApplyFacts
    <3>2. q.reply = r
      BY <2>1, <2>3, AppliedFields
    <3>3. QED
      BY <3>1, <3>2
  <2>6. call[c].reply.value <= current(call[d].key) /\ call[c].reply.value \in Int
    BY <1>1, <2>1 DEF IInv, KeysOK, IdsOK, current, Typed, TypeOK, Call, Reply
  <2>7. QED
    BY <2>1, <2>3, <2>5, <2>6, CurrentType
<1>2. IInv /\ [Next]_vars => [\A c, d \in Calls : A(c, d)]_vars
  BY <1>1
<1>3. QED
  BY <1>2, Invariance, PTL DEF Spec, IdsIncrease

-----------------------------------------------------------------------------
(* What callers are told, if scripts get the arguments their headers list. *)

AnswerOK(q) ==
  /\ q.pc \in {"idle", "done"} => q.reply.type # "pending"
  /\ q.reply.type = "integer" =>
       IF q.script \in LockScripts THEN (q.reply.value = 1 <=> q.due) ELSE q.due
  /\ q.reply.type = "array" => (q.reply.flag = 1 <=> q.due)
  /\ q.reply.type = "string" => q.due
  /\ q.reply.type = "nil" => ~q.due
  /\ q.reply.type = "error" => q.failed \/ q.script = "rate_limit"
  /\ q.pc = "done" => (q.ok => q.due) /\ (q.due => q.ok \/ q.failed)

AnswersOK == \A c \in Calls : AnswerOK(call[c])

\* Nothing of q that AnswerOK speaks of differs from p.
SameAnswer(p, q) ==
  /\ q.pc = p.pc /\ q.script = p.script /\ q.reply = p.reply
  /\ q.ok = p.ok /\ q.due = p.due /\ q.failed = p.failed

\* q is p after its script ran.
RanWith(p, q, due, reply) ==
  /\ q.pc = p.pc /\ q.script = p.script /\ q.failed = p.failed
  /\ q.reply = reply /\ q.due = due

LEMMA RanAnswers ==
  ASSUME IInv, AnswersOK, NEW c \in Calls, NEW due \in BOOLEAN, NEW reply \in Reply,
         call[c].reply.type = "pending", reply.type # "pending",
         RanWith(call[c], call'[c], due, reply),
         \A d \in Calls : d # c => SameAnswer(call[d], call'[d]),
         LET script == call[c].script IN
         /\ reply.type = "integer" =>
              IF script \in LockScripts THEN (reply.value = 1 <=> due) ELSE due
         /\ reply.type = "array" => (reply.flag = 1 <=> due)
         /\ reply.type = "string" => due
         /\ reply.type = "nil" => ~due
         /\ reply.type = "error" => script = "rate_limit"
  PROVE  AnswersOK'
<1>1. AnswerOK(call'[c])
  BY DEF IInv, AnswersOK, AnswerOK, RanWith
<1>2. ASSUME NEW d \in Calls, d # c
      PROVE  AnswerOK(call'[d])
  BY <1>2 DEF AnswersOK, AnswerOK, SameAnswer
<1>3. QED
  BY <1>1, <1>2 DEF AnswersOK, AnswerOK

\* The same for a script that only returns.
LEMMA ReturnAnswers ==
  ASSUME IInv, AnswersOK, NEW c \in Calls, NEW due \in BOOLEAN, NEW reply \in Reply,
         call[c].reply.type = "pending", reply.type # "pending", Return(c, due, reply),
         LET script == call[c].script IN
         /\ reply.type = "integer" =>
              IF script \in LockScripts THEN (reply.value = 1 <=> due) ELSE due
         /\ reply.type = "array" => (reply.flag = 1 <=> due)
         /\ reply.type = "string" => due
         /\ reply.type = "nil" => ~due
         /\ reply.type = "error" => script = "rate_limit"
  PROVE  AnswersOK'
<1>1. Typed /\ call[c] \in Call
  BY DEF IInv, Typed, TypeOK
<1>2. /\ call'[c] = Ran(call[c], due, reply)
      /\ \A d \in Calls : d # c => SameAnswer(call[d], call'[d])
  BY <1>1, ReturnFacts DEF SameAnswer
<1>3. RanWith(call[c], call'[c], due, reply)
  BY <1>1, <1>2, RanFields DEF RanWith
<1>4. QED
  BY <1>2, <1>3, RanAnswers

\* And for one that changes a counter or an id counter.
LEMMA ApplyAnswers ==
  ASSUME IInv, AnswersOK, NEW c \in Calls, NEW reply \in Reply,
         call[c].reply.type = "pending", Apply(c, reply),
         \/ reply.type = "integer" /\ call[c].script \notin LockScripts
         \/ reply.type = "array" /\ reply.flag = 1
  PROVE  AnswersOK'
<1>1. Typed /\ call[c] \in Call
  BY DEF IInv, Typed, TypeOK
<1>2. /\ call'[c] = [Ran(call[c], TRUE, reply) EXCEPT !.applied = TRUE]
      /\ \A d \in Calls : d # c => SameAnswer(call[d], call'[d])
  BY <1>1, ApplyFacts DEF SameAnswer
<1>3. RanWith(call[c], call'[c], TRUE, reply)
  <2> DEFINE q == [Ran(call[c], TRUE, reply) EXCEPT !.applied = TRUE]
  <2>1. q.pc = call[c].pc /\ q.script = call[c].script /\ q.failed = call[c].failed
        /\ q.reply = reply /\ q.due = TRUE
    BY <1>1, AppliedFields
  <2>2. call'[c] = q
    BY <1>2
  <2> HIDE DEF q
  <2>3. QED
    BY <2>1, <2>2 DEF RanWith
<1>4. QED
  BY <1>2, <1>3, RanAnswers

\* What the script answers is what its header has it answer.
LEMMA ScriptsAnswer ==
  ASSUME IInv, AnswersOK, numeric, NEW c \in Calls, RunScript(c)
  PROVE  AnswersOK'
<1> DEFINE k == call[c].key
           R(reply, due) == reply \in Reply /\ Return(c, due, reply)
<1>0. /\ Typed /\ call[c] \in Call /\ call \in [Calls -> Call]
      /\ call[c].reply.type = "pending"
      /\ k \in Counters \union Ids => current(k) \in Int
      /\ call[c].amount \in Int
  BY CurrentType DEF IInv, Typed, TypeOK, Call, RunScript, Running, acquire_lock, release_lock,
    atomic_increment, check_and_update, get_next_id, validate_token, rate_limit
<1>1. CASE acquire_lock(c)
  <2>1. CASE Refuse(c, Integer(0))
    <3>1. Integer(0) \in Reply /\ Integer(0).type = "integer" /\ Integer(0).value # 1
      BY ReplyType DEF Integer
    <3>2. Return(c, FALSE, Integer(0)) /\ call[c].script \in LockScripts
      BY <1>1, <2>1 DEF Refuse, acquire_lock, Running, LockScripts
    <3>3. QED
      BY <1>0, <3>1, <3>2, ReturnAnswers
  <2>2. CASE call' = [call EXCEPT ![c] = [Ran(@, TRUE, Integer(1)) EXCEPT !.lease = LockTtl]]
    <3> DEFINE r == Ran(call[c], TRUE, Integer(1))
               q == [r EXCEPT !.lease = LockTtl]
    <3>1. /\ Integer(1) \in Reply /\ Integer(1).type = "integer" /\ Integer(1).value = 1
          /\ call[c].script \in LockScripts
      BY <1>1, ReplyType DEF Integer, acquire_lock, Running, LockScripts
    <3>2. /\ r \in Call /\ r.pc = call[c].pc /\ r.script = call[c].script
          /\ r.failed = call[c].failed /\ r.reply = Integer(1) /\ r.due = TRUE
      BY <1>0, <3>1, RanFields
    <3>3. /\ call'[c] = q
          /\ \A d \in Calls : d # c => SameAnswer(call[d], call'[d])
      BY <1>0, <2>2 DEF SameAnswer
    <3> HIDE DEF r
    <3>4. /\ q.pc = r.pc /\ q.script = r.script /\ q.failed = r.failed
          /\ q.reply = r.reply /\ q.due = r.due
      BY <3>2, ZenonT(60) DEF Call
    <3> HIDE DEF q
    <3>5. RanWith(call[c], call'[c], TRUE, Integer(1))
      BY <3>2, <3>3, <3>4 DEF RanWith
    <3>6. QED
      BY <1>0, <3>1, <3>3, <3>5, RanAnswers
  <2>3. QED
    BY <1>1, <2>1, <2>2 DEF acquire_lock
<1>2. CASE release_lock(c)
  <2>1. CASE Refuse(c, Integer(0))
    <3>1. Integer(0) \in Reply /\ Integer(0).type = "integer" /\ Integer(0).value # 1
      BY ReplyType DEF Integer
    <3>2. Return(c, FALSE, Integer(0)) /\ call[c].script \in LockScripts
      BY <1>2, <2>1 DEF Refuse, release_lock, Running, LockScripts
    <3>3. QED
      BY <1>0, <3>1, <3>2, ReturnAnswers
  <2>2. CASE ~Refuse(c, Integer(0))
    <3> DEFINE r == Ran(call[c], TRUE, Integer(1))
               p(d) == [call[d] EXCEPT !.lease = 0]
               freed(d) == call[d].key = k /\ call[d].tag = call[c].tag
    <3>1. /\ Integer(1) \in Reply /\ Integer(1).type = "integer" /\ Integer(1).value = 1
          /\ call[c].script \in LockScripts
      BY <1>2, ReplyType DEF Integer, release_lock, Running, LockScripts
    <3>2. /\ r.pc = call[c].pc /\ r.script = call[c].script
          /\ r.failed = call[c].failed /\ r.reply = Integer(1) /\ r.due = TRUE
      BY <1>0, <3>1, RanFields
    <3>3. ASSUME NEW d \in Calls
          PROVE  SameAnswer(call[d], p(d))
      <4>1. call[d] \in Call
        BY <1>0
      <4>2. QED
        BY <4>1, ZenonT(60) DEF Call, SameAnswer
    <3> HIDE DEF r, p
    <3>4. call' = [d \in Calls |-> IF d = c THEN r ELSE IF freed(d) THEN p(d) ELSE call[d]]
      BY <1>2, <2>2 DEF release_lock, r, p
    <3>5. /\ call'[c] = r
          /\ \A d \in Calls : d # c => SameAnswer(call[d], call'[d])
      BY <3>3, <3>4 DEF SameAnswer
    <3>6. RanWith(call[c], call'[c], TRUE, Integer(1))
      BY <3>2, <3>5 DEF RanWith
    <3>7. QED
      BY <1>0, <3>1, <3>5, <3>6, RanAnswers
  <2>3. QED
    BY <2>1, <2>2
<1>3. CASE atomic_increment(c)
  <2> DEFINE n == current(k) + call[c].amount
  <2>0. k \in Counters /\ current(k) \in Int /\ n \in Int
    BY <1>0, <1>3 DEF Typed, PurposeOK, atomic_increment, Running, CountScripts
  <2>1. CASE Refuse(c, Array(0, current(k)))
    <3> DEFINE r == Array(0, current(k))
    <3>1. r \in Reply /\ r.type = "array" /\ r.flag # 1
      BY <2>0, ReplyType DEF Array
    <3>2. Return(c, FALSE, r)
      BY <2>1 DEF Refuse
    <3> HIDE DEF r
    <3>3. QED
      BY <1>0, <3>1, <3>2, ReturnAnswers
  <2>2. CASE Apply(c, Array(1, n))
    <3> DEFINE r == Array(1, n)
    <3>1. r \in Reply /\ r.type = "array" /\ r.flag = 1
      BY <2>0, ReplyType DEF Array
    <3>2. Apply(c, r)
      BY <2>2
    <3> HIDE DEF r, n
    <3>3. QED
      BY <1>0, <3>1, <3>2, ApplyAnswers
  <2>3. QED
    BY <1>3, <2>1, <2>2 DEF atomic_increment
<1>4. CASE check_and_update(c)
  <2> DEFINE n == current(k) - call[c].amount
  <2>0. k \in Counters /\ current(k) \in Int /\ n \in Int
    BY <1>0, <1>4 DEF Typed, PurposeOK, check_and_update, Running, CountScripts
  <2>1. CASE \E m \in {-1, current(k)} : Refuse(c, Array(0, m))
    <3>1. PICK m \in {-1, current(k)} : Refuse(c, Array(0, m))
      BY <2>1
    <3> DEFINE r == Array(0, m)
    <3>2. r \in Reply /\ r.type = "array" /\ r.flag # 1
      <4>1. m \in Int
        BY <2>0, <3>1
      <4>2. QED
        BY <4>1, ReplyType DEF Array
    <3>3. Return(c, FALSE, r)
      BY <3>1 DEF Refuse
    <3> HIDE DEF r
    <3>4. QED
      BY <1>0, <3>2, <3>3, ReturnAnswers
  <2>2. CASE Apply(c, Array(1, n))
    <3> DEFINE r == Array(1, n)
    <3>1. r \in Reply /\ r.type = "array" /\ r.flag = 1
      BY <2>0, ReplyType DEF Array
    <3>2. Apply(c, r)
      BY <2>2
    <3> HIDE DEF r, n
    <3>3. QED
      BY <1>0, <3>1, <3>2, ApplyAnswers
  <2>3. QED
    BY <1>4, <2>1, <2>2 DEF check_and_update
<1>5. CASE get_next_id(c)
  <2> DEFINE n == current(k) + 1
             r == Integer(n)
  <2>1. /\ k \in Ids /\ current(k) \in Int /\ call[c].script \notin LockScripts
    BY <1>0, <1>5 DEF Typed, PurposeOK, get_next_id, Running, LockScripts
  <2>2. n \in Int
    BY <2>1
  <2>3. r \in Reply /\ r.type = "integer"
    BY <2>2, ReplyType DEF Integer
  <2>4. Apply(c, r)
    BY <1>5 DEF get_next_id
  <2> HIDE DEF n, r
  <2>5. QED
    BY <1>0, <2>1, <2>3, <2>4, ApplyAnswers
<1>6. CASE validate_token(c)
  <2>1. CASE Return(c, FALSE, Plain("nil"))
    <3>1. Plain("nil") \in Reply /\ Plain("nil").type = "nil"
      BY ReplyType DEF Plain
    <3>2. QED
      BY <1>0, <2>1, <3>1, ReturnAnswers
  <2>2. CASE call' = [call EXCEPT ![c] = [Ran(@, TRUE, Plain("string"))
                                            EXCEPT !.lease = TokenTtl]]
    <3> DEFINE r == Ran(call[c], TRUE, Plain("string"))
               q == [r EXCEPT !.lease = TokenTtl]
    <3>1. Plain("string") \in Reply /\ Plain("string").type = "string"
      BY ReplyType DEF Plain
    <3>2. /\ r \in Call /\ r.pc = call[c].pc /\ r.script = call[c].script
          /\ r.failed = call[c].failed /\ r.reply = Plain("string") /\ r.due = TRUE
      BY <1>0, <3>1, RanFields
    <3>3. /\ call'[c] = q
          /\ \A d \in Calls : d # c => SameAnswer(call[d], call'[d])
      BY <1>0, <2>2 DEF SameAnswer
    <3> HIDE DEF r
    <3>4. /\ q.pc = r.pc /\ q.script = r.script /\ q.failed = r.failed
          /\ q.reply = r.reply /\ q.due = r.due
      BY <3>2, ZenonT(60) DEF Call
    <3> HIDE DEF q
    <3>5. RanWith(call[c], call'[c], TRUE, Plain("string"))
      BY <3>2, <3>3, <3>4 DEF RanWith
    <3>6. QED
      BY <1>0, <3>1, <3>3, <3>5, RanAnswers
  <2>3. QED
    BY <1>0, <1>6, <2>1, <2>2 DEF validate_token, Refuse
<1>7. CASE rate_limit(c)
  <2>1. /\ Plain("error") \in Reply /\ Plain("error").type = "error"
        /\ Return(c, TRUE, Plain("error")) /\ call[c].script = "rate_limit"
    BY <1>7, ReplyType DEF Plain, rate_limit, Running, Fail
  <2>2. QED
    BY <1>0, <2>1, ReturnAnswers
<1>8. QED
  BY <1>1, <1>2, <1>3, <1>4, <1>5, <1>6, <1>7 DEF RunScript

\* A callback tells what the answer says; a fault only marks the call it hits.
LEMMA AfterwardsAnswers ==
  ASSUME IInv, AnswersOK, NEW c \in Calls,
         Callback(c) \/ NullResultCrash(c) \/ CommandFails(c) \/ CallerDies(c)
  PROVE  AnswersOK'
<1>0. call[c] \in Call /\ call \in [Calls -> Call] /\ AnswerOK(call[c])
  BY DEF IInv, Typed, TypeOK, AnswersOK
<1>1. ASSUME NEW q, call' = [call EXCEPT ![c] = q], AnswerOK(q)
      PROVE  AnswersOK'
  <2>1. \A d \in Calls : call'[d] = IF d = c THEN q ELSE call[d]
    BY <1>0, <1>1
  <2>2. \A d \in Calls : AnswerOK(call'[d])
    BY <1>1, <2>1 DEF AnswersOK
  <2>3. QED
    BY <2>2 DEF AnswersOK, AnswerOK
<1> DEFINE ended(pc) == [call[c] EXCEPT !.pc = pc]
<1>2. ASSUME NEW pc \in {"lost", "dropped"}
      PROVE  AnswerOK(ended(pc))
  <2>1. /\ ended(pc).pc = pc /\ ended(pc).script = call[c].script
        /\ ended(pc).reply = call[c].reply /\ ended(pc).ok = call[c].ok
        /\ ended(pc).due = call[c].due /\ ended(pc).failed = call[c].failed
    BY <1>0, ZenonT(60) DEF Call
  <2> HIDE DEF ended
  <2>2. QED
    BY <1>0, <2>1 DEF AnswerOK
<1>3. CASE OnInteger(c) \/ OnArray(c) \/ OnToken(c)
  <2> DEFINE told(ok) == [call[c] EXCEPT !.pc = "done", !.ok = ok]
  <2>1. ASSUME NEW ok \in BOOLEAN
        PROVE  /\ told(ok).pc = "done" /\ told(ok).script = call[c].script
               /\ told(ok).reply = call[c].reply /\ told(ok).ok = ok
               /\ told(ok).due = call[c].due /\ told(ok).failed = call[c].failed
    BY <1>0, ZenonT(60) DEF Call
  <2> HIDE DEF told
  <2>2. ASSUME NEW ok \in BOOLEAN, call[c].reply.type # "pending",
               ok => call[c].due, call[c].due => ok \/ call[c].failed
        PROVE  AnswerOK(told(ok))
    BY <1>0, <2>1, <2>2 DEF AnswerOK
  <2>3. \E ok \in BOOLEAN :
          /\ Tell(c, ok) /\ call[c].reply.type # "pending"
          /\ ok => call[c].due
          /\ call[c].due => ok \/ call[c].failed
    BY <1>0, <1>3 DEF OnInteger, OnArray, OnToken, Back, saidYes, AnswerOK, LockScripts, CountScripts
  <2>4. PICK ok \in BOOLEAN :
          /\ Tell(c, ok) /\ call[c].reply.type # "pending"
          /\ ok => call[c].due
          /\ call[c].due => ok \/ call[c].failed
    BY <2>3
  <2>5. call' = [call EXCEPT ![c] = told(ok)]
    BY <2>4 DEF Tell, told
  <2>6. QED
    BY <1>1, <2>2, <2>4, <2>5
<1>4. CASE OnRateLimit(c)
  <2>1. call' = [call EXCEPT ![c] = ended("dropped")]
    BY <1>4 DEF OnRateLimit
  <2> HIDE DEF ended
  <2>2. QED
    BY <1>1, <1>2, <2>1
<1>5. CASE NullResultCrash(c)
  <2>1. call' = [call EXCEPT ![c] = ended("lost")]
    BY <1>5 DEF NullResultCrash
  <2> HIDE DEF ended
  <2>2. QED
    BY <1>1, <1>2, <2>1
<1>6. CASE CommandFails(c)
  <2> DEFINE r == [call[c].reply EXCEPT !.type = "error"]
             q == [call[c] EXCEPT !.reply = r, !.failed = TRUE]
  <2>1. r.type = "error"
    BY <1>0 DEF Call, Reply
  <2>2. call' = [call EXCEPT ![c] = q]
    BY <1>6 DEF CommandFails
  <2> HIDE DEF r
  <2>3. /\ q.pc = call[c].pc /\ q.reply = r /\ q.failed = TRUE
    BY <1>0, ZenonT(60) DEF Call
  <2> HIDE DEF q
  <2>4. AnswerOK(q)
    BY <1>6, <2>1, <2>3 DEF CommandFails, AnswerOK
  <2>5. QED
    BY <1>1, <2>2, <2>4
<1>7. CASE CallerDies(c)
  <2> DEFINE q == [call[c] EXCEPT !.pc = "lost", !.failed = TRUE]
  <2>1. /\ q.pc = "lost" /\ q.script = call[c].script /\ q.reply = call[c].reply
        /\ q.ok = call[c].ok /\ q.due = call[c].due /\ q.failed = TRUE
    BY <1>0, ZenonT(60) DEF Call
  <2>2. call' = [call EXCEPT ![c] = q]
    BY <1>7 DEF CallerDies
  <2> HIDE DEF q
  <2>3. AnswerOK(q)
    BY <1>0, <2>1 DEF AnswerOK
  <2>4. QED
    BY <1>1, <2>2, <2>3
<1>8. QED
  BY <1>3, <1>4, <1>5, <1>6, <1>7 DEF Callback

\* Neither asking, nor a restart of Redis, nor time changes an answer.
LEMMA OthersAnswer ==
  ASSUME IInv, AnswersOK, (\E c \in Calls : Ask(c)) \/ RedisRestart \/ Tick
  PROVE  AnswersOK'
<1>0. Typed /\ \A d \in Calls : call[d] \in Call
  BY DEF IInv, Typed, TypeOK
<1>1. ASSUME NEW c \in Calls, Ask(c)
      PROVE  AnswersOK'
  <2>1. AnswerOK(call'[c])
    BY <1>0, <1>1, AskFacts DEF AnswerOK, Plain
  <2>2. \A d \in Calls : d # c => call'[d] = call[d]
    BY <1>0, <1>1, AskFacts
  <2>3. QED
    BY <2>1, <2>2 DEF AnswersOK, AnswerOK
<1>2. ASSUME \A d \in Calls : SameAnswer(call[d], call'[d])
      PROVE  AnswersOK'
  BY <1>2 DEF AnswersOK, AnswerOK, SameAnswer
<1>3. CASE RedisRestart
  <2>1. ASSUME NEW d \in Calls PROVE SameAnswer(call[d], call'[d])
    <3> DEFINE b == call[d].applied /\ call[d].key \notin Counters
               q == [call[d] EXCEPT !.lease = 0, !.applied = b]
    <3>1. call'[d] = q
      BY <1>3 DEF RedisRestart
    <3> HIDE DEF b
    <3>2. SameAnswer(call[d], q)
      BY <1>0, ZenonT(60) DEF Call, SameAnswer
    <3> HIDE DEF q
    <3>3. QED
      BY <3>1, <3>2
  <2>2. QED
    BY <1>2, <2>1
<1>4. CASE Tick
  <2>1. ASSUME NEW d \in Calls PROVE SameAnswer(call[d], call'[d])
    <3> DEFINE n == Older(call[d].lease)
               b == call[d].applied /\ ~(call[d].key \in Counters
                                         /\ redis[call[d].key].ttl = 1)
               q == [call[d] EXCEPT !.lease = n, !.applied = b]
    <3>1. call'[d] = q
      BY <1>4 DEF Tick
    <3> HIDE DEF n, b
    <3>2. SameAnswer(call[d], q)
      BY <1>0, ZenonT(60) DEF Call, SameAnswer
    <3> HIDE DEF q
    <3>3. QED
      BY <3>1, <3>2
  <2>2. QED
    BY <1>2, <2>1
<1>5. QED
  BY <1>1, <1>3, <1>4

LEMMA AnswersInvariance == ASSUME Client = "Contract" PROVE Spec => []AnswersOK
<1>0. numeric
  BY DEF numeric
<1>1. Init => AnswersOK
  <2>1. ASSUME Init, NEW c \in Calls PROVE AnswerOK(call[c])
    <3>1. call[c] = NewCall
      BY <2>1 DEF Init
    <3>2. NewCall.pc = "idle" /\ NewCall.reply.type = "none"
      BY DEF NewCall, Plain
    <3> HIDE DEF NewCall
    <3>3. QED
      BY <3>1, <3>2 DEF AnswerOK
  <2>2. QED
    BY <2>1 DEF AnswersOK
<1>2. ASSUME IInv, AnswersOK, [Next]_vars PROVE AnswersOK'
  <2>1. CASE UNCHANGED vars
    BY <1>2, <2>1 DEF vars, AnswersOK, AnswerOK
  <2>2. CASE Next
    BY <1>0, <1>2, <2>2, ScriptsAnswer, AfterwardsAnswers, OthersAnswer DEF Next
  <2>3. QED
    BY <1>2, <2>1, <2>2
<1>3. QED
  BY <1>1, <1>2, Invariance, PTL DEF Spec

\* A caller is told of success only if its script had it, and of every success unless
\* something failed (the wrappers of RedisUtils.cpp).
THEOREM CallersAreToldTruly ==
  ASSUME Client = "Contract" PROVE Spec => []ToldTruly
<1>1. IInv /\ AnswersOK => ToldTruly
  BY DEF AnswersOK, AnswerOK, ToldTruly, IInv, Typed, TypeOK, Call
<1>2. QED
  BY <1>1, Invariance, AnswersInvariance, PTL

-----------------------------------------------------------------------------
(* The books of a counter.  Finitely many calls are in its value at a time, none of
   them once it is gone. *)

CountersOK ==
  \A k \in Counters :
    /\ IsFiniteSet(AppliedTo(k))
    /\ current(k) = SumFunctionOnSet(Deltas, AppliedTo(k))
    /\ ~Live(k) => AppliedTo(k) = {}

\* A script that changes a counter: what is written, and that the call, and no other,
\* is booked.
Counts(c, k) ==
  /\ call[c].key = k /\ ~call[c].applied
  /\ call'[c].applied /\ call'[c].key = k
  /\ call'[c].script = call[c].script /\ call'[c].amount = call[c].amount
  /\ call'[c].limit = call[c].limit /\ call'[c].expire = call[c].expire
  /\ \A d \in Calls : d # c => call'[d] = call[d]
  /\ redis'[k].value = current(k) + Delta(call[c])
  /\ redis'[k].ttl # 0
  /\ \/ /\ call[c].script = "atomic_increment" /\ ~exceeds(c, k)
        /\ redis'[k].ttl = counterLifetime(c)
     \/ call[c].script = "check_and_update" /\ Live(k) /\ enough(c, k)

LEMMA CountingScript ==
  ASSUME IInv, NEW c \in Calls, atomic_increment(c) \/ check_and_update(c)
  PROVE  \/ Counts(c, call[c].key)
         \/ UNCHANGED redis /\ \E due, reply : Return(c, due, reply)
<1> DEFINE k == call[c].key
<1>0. /\ Typed /\ call[c] \in Call /\ CallOK(call[c]) /\ k \in Counters /\ k \in Keys
      /\ call[c].amount \in Int /\ current(k) \in Int
      /\ call[c].reply.type = "pending" /\ ~call[c].applied
  BY CurrentType, Disjoint
  DEF IInv, Typed, TypeOK, Call, CallOK, PurposeOK, atomic_increment, check_and_update,
    Running, CountScripts
<1>1. ASSUME NEW v \in Int, NEW ttl \in Int, ttl # 0, NEW reply \in Reply,
             v = current(k) + Delta(call[c]), Store(k, v, ttl), Apply(c, reply),
             \/ call[c].script = "atomic_increment" /\ ~exceeds(c, k) /\ ttl = counterLifetime(c)
             \/ call[c].script = "check_and_update" /\ Live(k) /\ enough(c, k)
      PROVE  Counts(c, k)
  <2> DEFINE q == [Ran(call[c], TRUE, reply) EXCEPT !.applied = TRUE]
  <2>1. /\ q.applied /\ q.key = k /\ q.script = call[c].script
        /\ q.amount = call[c].amount /\ q.limit = call[c].limit
        /\ q.expire = call[c].expire
    BY <1>0, ZenonT(60) DEF Call, Ran
  <2> HIDE DEF q
  <2>2. call'[c] = q /\ \A d \in Calls : d # c => call'[d] = call[d]
    BY <1>0, <1>1, ApplyFacts DEF q
  <2>3. redis'[k].value = v /\ redis'[k].ttl = ttl
    <3>1. v \in Values /\ (k \in Counters \union Ids => v \in Int)
      BY DEF Values
    <3>2. QED
      BY <1>0, <1>1, <3>1, StoreFacts
  <2>4. QED
    BY <1>0, <1>1, <2>1, <2>2, <2>3 DEF Counts
<1>2. CASE atomic_increment(c)
  <2> DEFINE n == current(k) + call[c].amount
  <2>1. CASE ~exceeds(c, k) /\ Store(k, n, counterLifetime(c)) /\ Apply(c, Array(1, n))
    <3>1. n \in Int /\ counterLifetime(c) \in Int /\ counterLifetime(c) # 0
      BY <1>0 DEF Call, counterLifetime, Forever
    <3>2. Array(1, n) \in Reply
      BY <3>1, ReplyType
    <3>3. n = current(k) + Delta(call[c]) /\ call[c].script = "atomic_increment"
      BY <1>2 DEF Delta, atomic_increment, Running
    <3> HIDE DEF n
    <3>4. QED
      BY <1>1, <2>1, <3>1, <3>2, <3>3
  <2>2. QED
    BY <1>2, <2>1 DEF atomic_increment, Refuse, Fail
<1>3. CASE check_and_update(c)
  <2> DEFINE n == current(k) - call[c].amount
  <2>1. CASE /\ Live(k) /\ enough(c, k) /\ Store(k, n, Forever)
             /\ Apply(c, Array(1, n))
    <3>1. n \in Int /\ Forever \in Int /\ Forever # 0
      BY <1>0 DEF Forever
    <3>2. Array(1, n) \in Reply
      BY <3>1, ReplyType
    <3>3. n = current(k) + Delta(call[c]) /\ call[c].script = "check_and_update"
      BY <1>0, <1>3 DEF Delta, check_and_update, Running
    <3> HIDE DEF n
    <3>4. QED
      BY <1>1, <2>1, <3>1, <3>2, <3>3
  <2>2. QED
    BY <1>3, <2>1 DEF check_and_update, Refuse, Fail
<1>4. QED
  BY <1>2, <1>3

\* Nothing else writes a counter.
LEMMA CountersElsewhere ==
  ASSUME IInv, Next, ~RedisRestart, ~Tick, NEW k \in Counters
  PROVE  redis'[k] = redis[k] \/ \E c \in Calls : Counts(c, k)
<1> DEFINE still == redis'[k] = redis[k]
<1>0. Typed /\ redis \in [Keys -> Entry] /\ k \in Keys
  BY Disjoint DEF IInv, Typed, TypeOK
<1>1. ASSUME NEW j \in Locks \union Ids \union Tokens, NEW e, redis' = [redis EXCEPT ![j] = e]
      PROVE  still
  BY <1>0, <1>1, Disjoint
<1>2. ASSUME NEW c \in Calls, Ask(c) PROVE still
  BY <1>0, <1>2, AskFacts
<1>3. ASSUME NEW c \in Calls, acquire_lock(c) PROVE still
  <2>1. call[c].key \in Locks
    BY <1>0, <1>3 DEF Typed, PurposeOK, acquire_lock, Running, LockScripts
  <2>2. QED
    BY <1>1, <1>3, <2>1 DEF acquire_lock, Refuse, Fail, Store
<1>4. ASSUME NEW c \in Calls, release_lock(c) PROVE still
  <2>1. call[c].key \in Locks
    BY <1>0, <1>4 DEF Typed, PurposeOK, release_lock, Running, LockScripts
  <2>2. QED
    BY <1>1, <1>4, <2>1 DEF release_lock, Refuse
<1>5. ASSUME NEW c \in Calls, get_next_id(c) PROVE still
  <2>1. call[c].key \in Ids
    BY <1>0, <1>5 DEF Typed, PurposeOK, get_next_id, Running
  <2>2. QED
    BY <1>1, <1>5, <2>1 DEF get_next_id, Store
<1>6. ASSUME NEW c \in Calls, validate_token(c) PROVE still
  <2>1. call[c].key \in Tokens
    BY <1>0, <1>6 DEF Typed, PurposeOK, validate_token, Running
  <2>2. QED
    BY <1>1, <1>6, <2>1 DEF validate_token, Refuse, Fail, Store
<1>7. ASSUME NEW c \in Calls, atomic_increment(c) \/ check_and_update(c)
      PROVE  still \/ Counts(c, k)
  <2>1. CASE Counts(c, call[c].key) /\ call[c].key # k
    <3>1. \E v, ttl : Store(call[c].key, v, ttl) \/ UNCHANGED redis
      BY <1>7 DEF atomic_increment, check_and_update, Refuse, Fail
    <3>2. QED
      BY <1>0, <2>1, <3>1 DEF Store
  <2>2. QED
    BY <1>7, <2>1, CountingScript
<1>8. ASSUME NEW c \in Calls,
             \/ rate_limit(c) \/ Callback(c)
             \/ NullResultCrash(c) \/ CommandFails(c) \/ CallerDies(c)
      PROVE  still
  BY <1>8 DEF rate_limit, Fail, Callback, OnInteger, OnArray, OnToken, OnRateLimit,
    NullResultCrash, CommandFails, CallerDies
<1> HIDE DEF still
<1>9. still \/ \E c \in Calls : Counts(c, k)
  BY <1>2, <1>3, <1>4, <1>5, <1>6, <1>7, <1>8 DEF Next, RunScript
<1>10. QED
  BY <1>9 DEF still

LEMMA DeltaType ==
  ASSUME Typed
  PROVE  \A c \in Calls : Deltas[c] \in Int /\ Deltas[c] = Delta(call[c])
BY DEF Typed, TypeOK, Call, Deltas, Delta

\* Outside a restart and the passing of time the books of a counter change by the one
\* call whose script writes it.
LEMMA StepKeepsBooks ==
  ASSUME IInv, CountersOK, Next, ~RedisRestart, ~Tick
  PROVE  CountersOK'
<1> SUFFICES ASSUME NEW k \in Counters
             PROVE  /\ IsFiniteSet(AppliedTo(k)')
                    /\ current(k)' = SumFunctionOnSet(Deltas', AppliedTo(k)')
                    /\ ~Live(k)' => AppliedTo(k)' = {}
  BY DEF CountersOK
<1> DEFINE S == AppliedTo(k)
<1>0. /\ Typed /\ IsFiniteSet(S) /\ S \subseteq Calls
      /\ current(k) = SumFunctionOnSet(Deltas, S)
      /\ Live(k) \/ S = {}
  BY DEF CountersOK, IInv, AppliedTo
<1>1. \A c \in Calls : Booked(call[c], call'[c])
  BY BookedStays
<1>2. S \subseteq AppliedTo(k)'
  BY <1>1 DEF AppliedTo, Booked
<1>3. SumFunctionOnSet(Deltas', S) = SumFunctionOnSet(Deltas, S)
  <2>1. \A c \in S : Deltas'[c] = Deltas[c]
    BY <1>1 DEF AppliedTo, Booked, Deltas, Delta
  <2>2. QED
    BY <1>0, <2>1, SumsAgree
<1>4. CASE \E d \in Calls : Counts(d, k)
  <2>1. PICK d \in Calls : Counts(d, k)
    BY <1>4
  <2>2. d \notin S /\ AppliedTo(k)' = S \union {d}
    BY <2>1 DEF Counts, AppliedTo
  <2>3. \A c \in Calls : Deltas'[c] = Deltas[c]
    BY <2>1 DEF Counts, Deltas, Delta
  <2>4. \A c \in Calls : Deltas'[c] \in Int
    BY <1>0, <2>3, DeltaType
  <2>5. Deltas'[d] = Delta(call[d])
    BY <1>0, <2>3, DeltaType
  <2>6. SumFunctionOnSet(Deltas', S \union {d}) = SumFunctionOnSet(Deltas', S) + Deltas'[d]
    BY <1>0, <2>2, <2>4, SumWithOneMore
  <2>7. current(k)' = current(k) + Delta(call[d]) /\ Live(k)'
    BY <2>1 DEF Counts, current, Live
  <2>8. IsFiniteSet(S \union {d})
    BY <1>0, FS_AddElement
  <2> HIDE DEF S
  <2>9. QED
    BY <1>0, <1>3, <2>2, <2>5, <2>6, <2>7, <2>8
<1>5. CASE ~ \E d \in Calls : Counts(d, k)
  <2>1. redis'[k] = redis[k]
    BY <1>5, CountersElsewhere
  <2>2. ASSUME NEW d \in AppliedTo(k)', d \notin S
        PROVE  FALSE
    <3>1. d \in Calls /\ call'[d].applied /\ call'[d].key = k
      BY <2>2 DEF AppliedTo
    <3>2. ~call[d].applied
      BY <1>1, <2>2, <3>1 DEF Booked, AppliedTo
    <3>3. atomic_increment(d) \/ check_and_update(d) \/ get_next_id(d)
      BY <3>1, <3>2, EffectsAreTheScripts
    <3>4. call[d] \in Call /\ call \in [Calls -> Call]
      BY <1>0, <3>1 DEF Typed, TypeOK
    <3>5. ASSUME NEW due, NEW reply, Return(d, due, reply) PROVE FALSE
      BY <3>1, <3>2, <3>4, <3>5, ZenonT(60) DEF Call, Return, Ran
    <3>6. CASE atomic_increment(d) \/ check_and_update(d)
      BY <1>5, <3>1, <3>5, <3>6, CountingScript DEF Counts
    <3>7. CASE get_next_id(d)
      <4>1. call[d].key \in Ids
        BY <1>0, <3>1, <3>7 DEF Typed, PurposeOK, get_next_id, Running
      <4>2. call'[d].key = call[d].key
        <5>1. PICK reply : Apply(d, reply)
          BY <3>7 DEF get_next_id
        <5> DEFINE q == [Ran(call[d], TRUE, reply) EXCEPT !.applied = TRUE]
        <5>2. q.key = call[d].key
          BY <3>4, ZenonT(60) DEF Call, Ran
        <5>3. call' = [call EXCEPT ![d] = q]
          BY <5>1 DEF Apply
        <5> HIDE DEF q
        <5>4. QED
          BY <3>1, <3>4, <5>2, <5>3
      <4>3. QED
        BY <3>1, <4>1, <4>2, Disjoint
    <3>8. QED
      BY <3>3, <3>6, <3>7
  <2>3. AppliedTo(k)' = S
    BY <1>2, <2>2
  <2>4. QED
    BY <1>0, <1>3, <2>1, <2>3 DEF current, Live
<1>6. QED
  BY <1>4, <1>5

\* A restart clears the books; a second clears those of the counters it ends.
LEMMA RestartClearsBooks ==
  ASSUME IInv, RedisRestart, NEW k \in Counters
  PROVE  AppliedTo(k)' = {}
<1>1. ASSUME NEW c \in Calls
      PROVE  call'[c].key = call[c].key /\ (call'[c].applied => call[c].key \notin Counters)
  <2> DEFINE b == call[c].applied /\ call[c].key \notin Counters
             q == [call[c] EXCEPT !.lease = 0, !.applied = b]
  <2>1. call'[c] = q /\ call[c] \in Call
    BY DEF RedisRestart, IInv, Typed, TypeOK
  <2> HIDE DEF b
  <2>2. q.key = call[c].key /\ q.applied = b
    BY <2>1, ZenonT(60) DEF Call
  <2> HIDE DEF q
  <2>3. QED
    BY <2>1, <2>2 DEF b
<1>2. QED
  BY <1>1 DEF AppliedTo

RunsOut(q) == q.key \in Counters /\ redis[q.key].ttl = 1

LEMMA TickBooks ==
  ASSUME IInv, Tick, NEW c \in Calls
  PROVE  /\ call'[c].applied <=> call[c].applied /\ ~RunsOut(call[c])
         /\ call'[c].key = call[c].key /\ call'[c].script = call[c].script
         /\ call'[c].amount = call[c].amount /\ call'[c].limit = call[c].limit
         /\ call'[c].expire = call[c].expire
<1> DEFINE n == Older(call[c].lease)
           b == call[c].applied /\ ~RunsOut(call[c])
           q == [call[c] EXCEPT !.lease = n, !.applied = b]
<1>1. call'[c] = q /\ call[c] \in Call
  BY DEF Tick, IInv, Typed, TypeOK, RunsOut
<1> HIDE DEF n, b
<1>2. /\ q.applied = b /\ q.key = call[c].key /\ q.script = call[c].script
      /\ q.amount = call[c].amount /\ q.limit = call[c].limit /\ q.expire = call[c].expire
  BY <1>1, ZenonT(60) DEF Call
<1> HIDE DEF q
<1>3. QED
  BY <1>1, <1>2 DEF b

\* Redis loses a counter and its books at the same time.
LEMMA LossKeepsBooks ==
  ASSUME IInv, CountersOK, RedisRestart \/ Tick
  PROVE  CountersOK'
<1> SUFFICES ASSUME NEW k \in Counters
             PROVE  /\ IsFiniteSet(AppliedTo(k)')
                    /\ current(k)' = SumFunctionOnSet(Deltas', AppliedTo(k)')
                    /\ ~Live(k)' => AppliedTo(k)' = {}
  BY DEF CountersOK
<1> DEFINE S == AppliedTo(k)
           gone == AppliedTo(k)' = {} /\ ~Live(k)'
<1>0. /\ Typed /\ redis \in [Keys -> Entry] /\ k \in Keys /\ call \in [Calls -> Call]
      /\ \A c \in Calls : call[c] \in Call
      /\ IsFiniteSet(S) /\ S \subseteq Calls
      /\ current(k) = SumFunctionOnSet(Deltas, S) /\ (~Live(k) => S = {})
  BY Disjoint DEF CountersOK, IInv, Typed, TypeOK, AppliedTo
<1>1. CASE gone
  BY <1>1, SumOfNothing, FS_EmptySet DEF current, Live
<1>2. CASE RedisRestart
  <2>1. AppliedTo(k)' = {}
    BY <1>2, RestartClearsBooks
  <2>2. ~Live(k)'
    BY <1>0, <1>2 DEF RedisRestart, Live, Absent
  <2>3. QED
    BY <1>1, <2>1, <2>2
<1>3. CASE Tick
  <2>3. ASSUME NEW c \in Calls
        PROVE  /\ call'[c].applied <=> call[c].applied /\ ~RunsOut(call[c])
               /\ call'[c].key = call[c].key
               /\ Deltas'[c] = Deltas[c]
    BY <1>0, <1>3, TickBooks DEF Deltas, Delta
  <2>4. redis' = [j \in Keys |-> IF redis[j].ttl = 1 THEN Absent
                                 ELSE [redis[j] EXCEPT !.ttl = Older(@)]]
    BY <1>3 DEF Tick
  <2>5. CASE redis[k].ttl = 1
    <3>1. AppliedTo(k)' = {}
      BY <2>3, <2>5 DEF AppliedTo, RunsOut
    <3>2. ~Live(k)'
      BY <1>0, <2>4, <2>5 DEF Live, Absent
    <3>3. QED
      BY <1>1, <3>1, <3>2
  <2>6. CASE redis[k].ttl # 1
    <3>1. AppliedTo(k)' = S
      BY <2>3, <2>6 DEF AppliedTo, RunsOut
    <3>2. SumFunctionOnSet(Deltas', S) = SumFunctionOnSet(Deltas, S)
      BY <1>0, <2>3, SumsAgree
    <3>3. current(k)' = current(k) /\ (Live(k)' <=> Live(k))
      <4>1. redis[k] \in Entry /\ redis'[k] = [redis[k] EXCEPT !.ttl = Older(@)]
        BY <1>0, <2>4, <2>6
      <4>2. redis'[k].value = redis[k].value /\ redis'[k].ttl = Older(redis[k].ttl)
        BY <4>1 DEF Entry
      <4>3. redis[k].ttl \in Int
        BY <4>1 DEF Entry
      <4>4. QED
        BY <2>6, <4>2, <4>3 DEF Older, current, Live
    <3>4. QED
      BY <1>0, <3>1, <3>2, <3>3
  <2>7. QED
    BY <2>5, <2>6
<1>4. QED
  BY <1>2, <1>3

LEMMA BooksInvariance == Spec => []CountersOK
<1>1. Init => CountersOK
  <2> SUFFICES ASSUME Init, NEW k \in Counters
               PROVE  AppliedTo(k) = {} /\ ~Live(k)
    BY SumOfNothing, FS_EmptySet DEF CountersOK, current
  <2>1. ~NewCall.applied
    BY DEF NewCall
  <2> HIDE DEF NewCall
  <2>2. AppliedTo(k) = {}
    BY <2>1 DEF Init, AppliedTo
  <2>3. QED
    BY <2>2, Disjoint DEF Init
<1>2. ASSUME IInv, CountersOK, [Next]_vars PROVE CountersOK'
  <2>1. CASE UNCHANGED vars
    BY <1>2, <2>1 DEF vars, CountersOK, AppliedTo, Deltas, current, Live
  <2>2. CASE Next
    BY <1>2, <2>2, StepKeepsBooks, LossKeepsBooks
  <2>3. QED
    BY <1>2, <2>1, <2>2
<1>3. QED
  BY <1>1, <1>2, Invariance, PTL DEF Spec

\* Whatever is lost on the way to the callers, a counter is the sum of the calls that
\* changed it since it came to be (atomic_increment.lua, check_and_update.lua).
THEOREM CountersAreAccounted == Spec => []CounterAccounted
<1>1. CountersOK => CounterAccounted
  BY DEF CountersOK, CounterAccounted, current
<1>2. QED
  BY <1>1, BooksInvariance, PTL

-----------------------------------------------------------------------------
(* The limits of a counter. *)

\* The comparison and the write are one step: what is written keeps the limits of the
\* call that writes it, and a decrement those of the increment before.
LEMMA CountKeepsBounds ==
  ASSUME IInv, CountersOK, CounterBounded, NEW k \in Counters, NEW d \in Calls,
         Counts(d, k), \A c \in Calls : Booked(call[c], call'[c]),
         \A c \in AppliedTo(k)' : Sensible(call'[c])
  PROVE  /\ redis'[k].value >= 0
         /\ \E c \in AppliedTo(k)' :
              /\ call'[c].script = "atomic_increment"
              /\ call'[c].limit > 0 => redis'[k].value <= call'[c].limit
<1>1. /\ call[d].amount \in Int /\ call[d].limit \in Int /\ current(k) \in Int
      /\ \A c \in Calls : call[c].limit \in Int
  BY CurrentType DEF IInv, Typed, TypeOK, Call
<1>2. /\ d \in AppliedTo(k)' /\ call'[d].limit = call[d].limit
      /\ call'[d].script = call[d].script /\ call'[d].amount = call[d].amount
  BY DEF Counts, AppliedTo
<1>3. \A c \in AppliedTo(k) :
        /\ c \in AppliedTo(k)' /\ call'[c].script = call[c].script
        /\ call'[c].amount = call[c].amount /\ call'[c].limit = call[c].limit
  BY DEF AppliedTo, Booked
<1>4. \A c \in AppliedTo(k) : Sensible(call[c])
  BY <1>3 DEF Sensible
<1>5. call[d].amount >= 0 /\ (call[d].script = "check_and_update" => call[d].limit >= 0)
  BY <1>2 DEF Sensible
<1>6. CASE call[d].script = "atomic_increment"
  <2>1. ~exceeds(d, k) /\ redis'[k].value = current(k) + call[d].amount
    BY <1>6 DEF Counts, Delta
  <2>2. current(k) >= 0
    BY <1>4 DEF CounterBounded, current
  <2>3. QED
    BY <1>1, <1>2, <1>5, <1>6, <2>1, <2>2 DEF exceeds
<1>7. CASE call[d].script = "check_and_update"
  <2>1. Live(k) /\ enough(d, k) /\ redis'[k].value = current(k) - call[d].amount
    BY <1>1, <1>7 DEF Counts, Delta
  <2>2. PICK c \in AppliedTo(k) :
          /\ call[c].script = "atomic_increment"
          /\ call[c].limit > 0 => redis[k].value <= call[c].limit
    BY <1>4, <2>1 DEF CounterBounded
  <2>3. redis'[k].value <= current(k) /\ redis'[k].value >= 0 /\ redis'[k].value \in Int
    BY <1>1, <1>5, <1>7, <2>1 DEF enough
  <2>4. call[c].limit > 0 => redis'[k].value <= call[c].limit
    BY <1>1, <2>1, <2>2, <2>3 DEF current, AppliedTo
  <2>5. QED
    BY <1>3, <2>2, <2>3, <2>4
<1>8. QED
  BY <1>6, <1>7 DEF Counts

LEMMA BoundsStep ==
  ASSUME IInv, CountersOK, CounterBounded, Next
  PROVE  CounterBounded'
<1> SUFFICES ASSUME NEW k \in Counters, Live(k)',
                    \A c \in AppliedTo(k)' : Sensible(call'[c])
             PROVE  /\ redis'[k].value >= 0
                    /\ \E c \in AppliedTo(k)' :
                         /\ call'[c].script = "atomic_increment"
                         /\ call'[c].limit > 0 => redis'[k].value <= call'[c].limit
  BY DEF CounterBounded
<1>0. /\ k \in Keys /\ redis[k] \in Entry
  BY Disjoint DEF IInv, Typed, TypeOK
<1>1. ASSUME Live(k), redis'[k].value = redis[k].value,
             \A c \in AppliedTo(k) :
               /\ c \in AppliedTo(k)' /\ call'[c].script = call[c].script
               /\ call'[c].amount = call[c].amount /\ call'[c].limit = call[c].limit
      PROVE  /\ redis'[k].value >= 0
             /\ \E c \in AppliedTo(k)' :
                  /\ call'[c].script = "atomic_increment"
                  /\ call'[c].limit > 0 => redis'[k].value <= call'[c].limit
  <2>1. \A c \in AppliedTo(k) : Sensible(call[c])
    BY <1>1 DEF Sensible
  <2>2. QED
    BY <1>1, <2>1 DEF CounterBounded
<1>2. CASE RedisRestart
  BY <1>0, <1>2 DEF RedisRestart, Live, Absent
<1>3. CASE Tick
  <2>1. redis'[k] = IF redis[k].ttl = 1 THEN Absent ELSE [redis[k] EXCEPT !.ttl = Older(@)]
    BY <1>0, <1>3 DEF Tick
  <2>2. redis[k].ttl # 1
    BY <2>1 DEF Live, Absent
  <2>3. redis'[k].value = redis[k].value /\ redis'[k].ttl = Older(redis[k].ttl)
    BY <1>0, <2>1, <2>2 DEF Entry
  <2>4. Live(k)
    BY <1>0, <2>3 DEF Live, Older, Entry
  <2>5. ASSUME NEW c \in AppliedTo(k)
        PROVE  /\ c \in AppliedTo(k)' /\ call'[c].script = call[c].script
               /\ call'[c].amount = call[c].amount /\ call'[c].limit = call[c].limit
    BY <1>3, <2>2, <2>5, TickBooks DEF AppliedTo, RunsOut
  <2>6. QED
    BY <1>1, <2>3, <2>4, <2>5
<1>4. CASE ~RedisRestart /\ ~Tick
  <2>1. \A c \in Calls : Booked(call[c], call'[c])
    BY <1>4, BookedStays
  <2>2. CASE redis'[k] = redis[k]
    <3>1. Live(k)
      BY <2>2 DEF Live
    <3>2. QED
      BY <1>1, <2>1, <2>2, <3>1 DEF AppliedTo, Booked
  <2>3. CASE \E d \in Calls : Counts(d, k)
    BY <2>1, <2>3, CountKeepsBounds
  <2>4. QED
    BY <1>4, <2>2, <2>3, CountersElsewhere
<1>5. QED
  BY <1>2, <1>3, <1>4

\* Calls with limits of their own, in any order, carry no counter below zero, nor above
\* the largest maximum among the increments it holds (atomic_increment.lua,
\* check_and_update.lua).
THEOREM CountersAreBounded == Spec => []CounterBounded
<1>1. Init => CounterBounded
  BY Disjoint DEF Init, CounterBounded
<1>2. IInv /\ CountersOK /\ CounterBounded /\ [Next]_vars => CounterBounded'
  BY BoundsStep DEF vars, CounterBounded, AppliedTo, Live
<1>3. QED
  BY <1>1, <1>2, Invariance, BooksInvariance, PTL DEF Spec

-----------------------------------------------------------------------------
(* The safety half of LockFreesItself: a lock has a lifetime from the first, and no step
   gives it more of it.  What is left to liveness is that time passes. *)

LocksOnTheClock == \A k \in Locks : redis[k].ttl \in 0 .. LockTtl

LocksWindDown ==
  \A k \in Locks :
    Live(k) => /\ redis'[k] = redis[k] \/ redis'[k].ttl < redis[k].ttl
               /\ Tick => redis'[k].ttl < redis[k].ttl

\* Only acquire_lock, of a free lock, and release_lock write a lock.
LEMMA LocksElsewhere ==
  ASSUME IInv, Next, ~RedisRestart, ~Tick, NEW k \in Locks
  PROVE  \/ redis'[k] = redis[k]
         \/ redis'[k].ttl = 0
         \/ ~Live(k) /\ redis'[k].ttl = LockTtl
<1> DEFINE still == redis'[k] = redis[k]
           right == still \/ redis'[k].ttl = 0 \/ (~Live(k) /\ redis'[k].ttl = LockTtl)
<1>0. Typed /\ redis \in [Keys -> Entry] /\ k \in Keys
  BY Disjoint DEF IInv, Typed, TypeOK
<1>1. ASSUME NEW j \in Counters \union Ids \union Tokens, NEW e,
             redis' = [redis EXCEPT ![j] = e]
      PROVE  still
  BY <1>0, <1>1, Disjoint
<1>2. ASSUME NEW c \in Calls, Ask(c) PROVE still
  BY <1>0, <1>2, AskFacts
<1>3. ASSUME NEW c \in Calls, acquire_lock(c) PROVE right
  <2>1. CASE free(call[c].key) /\ Store(call[c].key, call[c].tag, lockLifetime)
    <3> DEFINE e == [value |-> call[c].tag, ttl |-> LockTtl]
    <3>1. redis' = [redis EXCEPT ![call[c].key] = e] /\ e.ttl = LockTtl
      BY <2>1 DEF Store, lockLifetime
    <3> HIDE DEF e
    <3>2. QED
      BY <1>0, <2>1, <3>1 DEF free
  <2>2. QED
    BY <1>3, <2>1 DEF acquire_lock, Refuse, Fail
<1>4. ASSUME NEW c \in Calls, release_lock(c) PROVE right
  <2>1. UNCHANGED redis \/ redis' = [redis EXCEPT ![call[c].key] = Absent]
    BY <1>4 DEF release_lock, Refuse
  <2>2. Absent.ttl = 0
    BY DEF Absent
  <2>3. QED
    BY <1>0, <2>1, <2>2
<1>5. ASSUME NEW c \in Calls, atomic_increment(c) \/ check_and_update(c) PROVE still
  <2>1. call[c].key \in Counters
    BY <1>0, <1>5 DEF Typed, PurposeOK, atomic_increment, check_and_update, Running, CountScripts
  <2>2. QED
    BY <1>1, <1>5, <2>1 DEF atomic_increment, check_and_update, Refuse, Fail, Store
<1>6. ASSUME NEW c \in Calls, get_next_id(c) \/ validate_token(c) PROVE still
  <2>1. call[c].key \in Ids \union Tokens
    BY <1>0, <1>6 DEF Typed, PurposeOK, get_next_id, validate_token, Running
  <2>2. QED
    BY <1>1, <1>6, <2>1 DEF get_next_id, validate_token, Refuse, Fail, Store
<1>7. ASSUME NEW c \in Calls,
             \/ rate_limit(c) \/ Callback(c)
             \/ NullResultCrash(c) \/ CommandFails(c) \/ CallerDies(c)
      PROVE  still
  BY <1>7 DEF rate_limit, Fail, Callback, OnInteger, OnArray, OnToken, OnRateLimit,
    NullResultCrash, CommandFails, CallerDies
<1> HIDE DEF still
<1> SUFFICES right
  BY DEF still
<1> HIDE DEF right
<1>8. still => right
  BY DEF right
<1>9. QED
  BY <1>2, <1>3, <1>4, <1>5, <1>6, <1>7, <1>8 DEF Next, RunScript

LEMMA LockStep ==
  ASSUME IInv, LocksOnTheClock, Next
  PROVE  LocksOnTheClock' /\ LocksWindDown
<1>0. LockTtl \in Nat \ {0} /\ redis \in [Keys -> Entry]
  BY ConstantsOK DEF ConstantsOK, IInv, Typed, TypeOK
<1>1. CASE RedisRestart
  <2>1. \A k \in Locks : redis'[k].ttl = 0
    BY <1>1, Disjoint DEF RedisRestart, Absent
  <2>2. QED
    BY <1>0, <2>1 DEF LocksOnTheClock, LocksWindDown, Live
<1>2. CASE Tick
  <2>1. ASSUME NEW k \in Locks
        PROVE  redis'[k].ttl = Older(redis[k].ttl)
    <3>1. k \in Keys /\ redis[k] \in Entry
      BY <1>0, Disjoint
    <3>2. redis'[k] = IF redis[k].ttl = 1 THEN Absent
                      ELSE [redis[k] EXCEPT !.ttl = Older(@)]
      BY <1>2, <3>1 DEF Tick
    <3>3. [redis[k] EXCEPT !.ttl = Older(@)].ttl = Older(redis[k].ttl)
      BY <3>1 DEF Entry
    <3>4. Absent.ttl = 0
      BY DEF Absent
    <3>5. QED
      BY <3>2, <3>3, <3>4 DEF Older
  <2>2. QED
    BY <1>0, <2>1 DEF LocksOnTheClock, LocksWindDown, Live, Older
<1>3. CASE ~RedisRestart /\ ~Tick
  BY <1>0, <1>3, LocksElsewhere DEF LocksOnTheClock, LocksWindDown, Live
<1>4. QED
  BY <1>1, <1>2, <1>3

\* Whoever took a lock, and whatever became of him: the lock was given a lifetime of
\* LockTtl at most, no step adds to it, and each second takes from it (acquire_lock.lua,
\* release_lock.lua).
THEOREM LocksRunOut == Spec => []LocksOnTheClock /\ [][LocksWindDown]_vars
<1>1. Init => LocksOnTheClock
  <2> SUFFICES ASSUME Init, NEW k \in Locks PROVE redis[k].ttl = 0
    BY ConstantsOK DEF ConstantsOK, LocksOnTheClock
  <2>1. QED
    BY Disjoint DEF Init, Live
<1>2. IInv /\ LocksOnTheClock /\ [Next]_vars => LocksOnTheClock'
  BY LockStep DEF vars, LocksOnTheClock
<1>3. IInv /\ LocksOnTheClock /\ [Next]_vars => [LocksWindDown]_vars
  BY LockStep
<1>4. QED
  BY <1>1, <1>2, <1>3, Invariance, PTL DEF Spec

-----------------------------------------------------------------------------
(* The safety half of CounterExpires: only calls that give none take a counter's
   lifetime, and no call leaves more of it than it asks for. *)

CounterTimed(k) ==
  \/ redis[k].ttl = 0
  \/ \E c \in AppliedTo(k) :
       Timeless(call[c]) \/ (redis[k].ttl > 0 /\ redis[k].ttl <= call[c].expire)

CountersOnTheClock == \A k \in Counters : CounterTimed(k)

LEMMA StepKeepsClocks ==
  ASSUME IInv, CountersOnTheClock, Next, ~RedisRestart, ~Tick
  PROVE  CountersOnTheClock'
<1> SUFFICES ASSUME NEW k \in Counters PROVE CounterTimed(k)'
  BY DEF CountersOnTheClock
<1>1. CASE \E d \in Calls : Counts(d, k)
  <2>1. PICK d \in Calls : Counts(d, k)
    BY <1>1
  <2>2. /\ d \in AppliedTo(k)' /\ call'[d].script = call[d].script
        /\ call'[d].expire = call[d].expire
    BY <2>1 DEF Counts, AppliedTo
  <2>3. call[d].expire \in Int
    BY DEF IInv, Typed, TypeOK, Call
  <2>4. \/ Timeless(call[d])
        \/ redis'[k].ttl = call[d].expire /\ call[d].expire > 0
    BY <2>1, <2>3 DEF Counts, counterLifetime, Timeless
  <2>5. QED
    BY <2>2, <2>3, <2>4 DEF CounterTimed, Timeless
<1>2. CASE redis'[k] = redis[k]
  <2>1. \A c \in Calls : Booked(call[c], call'[c])
    BY BookedStays
  <2>2. \A c \in AppliedTo(k) :
          /\ c \in AppliedTo(k)' /\ call'[c].script = call[c].script
          /\ call'[c].expire = call[c].expire
    BY <2>1 DEF AppliedTo, Booked
  <2>3. QED
    BY <1>2, <2>2 DEF CountersOnTheClock, CounterTimed, Timeless
<1>3. QED
  BY <1>1, <1>2, CountersElsewhere

LEMMA LossKeepsClocks ==
  ASSUME IInv, CountersOnTheClock, RedisRestart \/ Tick
  PROVE  CountersOnTheClock'
<1> SUFFICES ASSUME NEW k \in Counters PROVE CounterTimed(k)'
  BY DEF CountersOnTheClock
<1>0. k \in Keys /\ redis[k] \in Entry
  BY Disjoint DEF IInv, Typed, TypeOK
<1>1. Absent.ttl = 0
  BY DEF Absent
<1>2. CASE RedisRestart
  <2>1. redis'[k].ttl = 0
    BY <1>0, <1>1, <1>2 DEF RedisRestart
  <2>2. QED
    BY <2>1 DEF CounterTimed
<1>3. CASE Tick
  <2>1. redis'[k] = IF redis[k].ttl = 1 THEN Absent ELSE [redis[k] EXCEPT !.ttl = Older(@)]
    BY <1>0, <1>3 DEF Tick
  <2>2. redis'[k].ttl = Older(redis[k].ttl) /\ redis[k].ttl \in Int
    BY <1>0, <1>1, <2>1 DEF Entry, Older
  <2>3. CASE redis[k].ttl \in {0, 1}
    BY <2>2, <2>3 DEF CounterTimed, Older
  <2>4. CASE redis[k].ttl \notin {0, 1}
    <3>1. PICK c \in AppliedTo(k) :
            Timeless(call[c]) \/ (redis[k].ttl > 0 /\ redis[k].ttl <= call[c].expire)
      BY <2>4 DEF CountersOnTheClock, CounterTimed
    <3>2. /\ c \in AppliedTo(k)' /\ call'[c].script = call[c].script
          /\ call'[c].expire = call[c].expire
      BY <1>3, <2>4, TickBooks DEF AppliedTo, RunsOut
    <3>3. call[c].expire \in Int
      BY DEF IInv, Typed, TypeOK, Call, AppliedTo
    <3>4. QED
      BY <2>2, <2>4, <3>1, <3>2, <3>3 DEF CounterTimed, Timeless, Older
  <2>5. QED
    BY <2>3, <2>4
<1>4. QED
  BY <1>2, <1>3

\* A counter has the lifetime that some call it holds gave it, or less, through every
\* lost answer, unless a decrement, or an increment that gives none, was carried out on
\* it (atomic_increment.lua; check_and_update.lua writes without KEEPTTL).
THEOREM CountersRunOut == Spec => []CountersOnTheClock
<1>1. Init => CountersOnTheClock
  <2> SUFFICES ASSUME Init, NEW k \in Counters PROVE redis[k].ttl = 0
    BY DEF CountersOnTheClock, CounterTimed
  <2>1. QED
    BY Disjoint DEF Init, Live
<1>2. IInv /\ CountersOnTheClock /\ [Next]_vars => CountersOnTheClock'
  BY StepKeepsClocks, LossKeepsClocks
  DEF vars, CountersOnTheClock, CounterTimed, AppliedTo
<1>3. QED
  BY <1>1, <1>2, Invariance, PTL DEF Spec

=============================================================================
