------------------------- MODULE ScriptRegistryProofs -------------------------
(***************************************************************************)
(* What ScriptRegistry guarantees for every set of scripts and calls and   *)
(* every number of faults.                                                 *)
(***************************************************************************)
EXTENDS ScriptRegistry, FiniteSetTheorems, TLAPS

-----------------------------------------------------------------------------
(* Type correctness, and the countdown that it depends on. *)

Unfinished == {s \in Scripts : preload[s] # "done"}

\* While the server is up the counter is the number of loads not yet counted; a
\* call waits only while it is up; only faults lose the scripts.
Counted ==
  /\ up => counter = Cardinality(Unfinished)
  /\ ~up => \A s \in Scripts : preload[s] = "done"
  /\ \A c \in Calls : call[c].pc \in {"load", "eval"} => up
  /\ forgotten <= faults

LEMMA UnfinishedFinite ==
  /\ IsFiniteSet(Unfinished)
  /\ Cardinality(Unfinished) \in Nat
  /\ Cardinality(Unfinished) <= Cardinality(Scripts)
  /\ Cardinality(Scripts) \in Nat
BY ConstantsOK, FS_Subset, FS_CardinalityType DEF ConstantsOK, Unfinished

LEMMA InitTypeOK == Init => TypeOK /\ Counted
<1> SUFFICES ASSUME Init PROVE TypeOK /\ Counted
  OBVIOUS
<1>1. NewCall \in Call
  BY ConstantsOK DEF ConstantsOK, NewCall, Call
<1>2. 0 \in 0 .. Cardinality(Scripts) /\ 0 \in 0 .. MaxFaults
  BY ConstantsOK, FS_CardinalityType DEF ConstantsOK
<1>3. TypeOK
  BY <1>1, <1>2 DEF Init, TypeOK
<1>4. Counted
  BY DEF Init, Counted, NewCall
<1>5. QED
  BY <1>3, <1>4

\* The steps of the preload, of a call, and of the world.
PreloadStep(s) == PreloadCallback(s) \/ PreloadInRedis(s) \/ PreloadFails(s)

CallStep(c) ==
  \/ \E s \in Scripts : EvalScript(c, s)
  \/ Callback(c) \/ RedisStep(c) \/ CommandFails(c)

Death == ServerDies /\ (Fault \/ UNCHANGED faults)

LEMMA NextSplit ==
  ASSUME Next
  PROVE  \/ Initialize \/ Death \/ ScriptsForgotten
         \/ \E s \in Scripts : PreloadStep(s)
         \/ \E c \in Calls : CallStep(c)
BY DEF Next, Crash, Stop, NullResultCrash, Death, PreloadStep, CallStep

LEMMA FaultType ==
  ASSUME TypeOK, Fault
  PROVE  faults' \in 0 .. MaxFaults
BY ConstantsOK DEF ConstantsOK, TypeOK, Fault

LEMMA InitializeType ==
  ASSUME TypeOK, Counted, Initialize
  PROVE  TypeOK' /\ Counted'
<1> USE DEF manager, redis, preloading
<1>1. Unfinished' = Scripts
  BY DEF Initialize, Unfinished
<1>2. Counted'
  BY <1>1 DEF Initialize, Counted
<1>3. counter' \in 0 .. Cardinality(Scripts)
  BY UnfinishedFinite DEF Initialize
<1>4. TypeOK'
  BY <1>3 DEF Initialize, TypeOK, loadScriptsFromDirectory
<1>5. QED
  BY <1>2, <1>4

LEMMA DeathType ==
  ASSUME TypeOK, Counted, Death
  PROVE  TypeOK' /\ Counted'
<1> USE DEF manager, redis, preloading
<1>1. ASSUME NEW c \in Calls
      PROVE  [call[c] EXCEPT !.pc = "lost", !.reply = "none"] \in Call
  BY ZenonT(60) DEF TypeOK, Call
<1>2. call' \in [Calls -> Call]
  BY <1>1 DEF Death, ServerDies, InFlight, TypeOK
<1>3. \A c \in Calls : call'[c].pc \notin {"load", "eval"}
  BY DEF Death, ServerDies, InFlight, TypeOK, Call
<1>4. faults' \in 0 .. MaxFaults
  BY FaultType DEF Death, TypeOK
<1>5. Counted'
  <2>a. faults \in 0 .. MaxFaults
    BY DEF TypeOK
  <2>b. (faults' = faults + 1 \/ faults' = faults) /\ forgotten' = forgotten /\ ~up'
    BY DEF Death, ServerDies, InFlight, Fault
  <2>1. faults <= faults' /\ forgotten' = forgotten /\ ~up'
    BY <2>a, <2>b, ConstantsOK DEF ConstantsOK
  <2>2. (forgotten <= faults)'
    BY <2>1, <1>4 DEF Counted, TypeOK
  <2>3. \A s \in Scripts : preload'[s] = "done"
    BY DEF Death, ServerDies, InFlight
  <2>4. QED
    BY <1>3, <2>1, <2>2, <2>3 DEF Counted
<1>6. TypeOK'
  <2>1. counter' = 0
    BY DEF Death, ServerDies, InFlight
  <2>2. counter' \in 0 .. Cardinality(Scripts)
    BY <2>1, UnfinishedFinite
  <2>3. /\ up' = FALSE /\ script' = {} /\ scriptShas' = {} /\ allSuccess' = TRUE
        /\ report' = "none" /\ preload' = [s \in Scripts |-> "done"]
        /\ UNCHANGED <<cache, forgotten>>
    BY DEF Death, ServerDies, InFlight
  <2>4. preload' \in [Scripts -> {"unsent", "pending", "ok", "error", "counting", "done"}]
    BY ONLY <2>3
  <2>5. cache' \subseteq Scripts /\ forgotten' \in 0 .. MaxFaults
    BY <2>3 DEF TypeOK
  <2>6. up' \in BOOLEAN /\ allSuccess' \in BOOLEAN
    BY ONLY <2>3, Zenon
  <2>7. script' \subseteq Scripts /\ scriptShas' \subseteq Scripts /\ report' = "none"
    BY ONLY <2>3
  <2>8. QED
    BY <1>2, <1>4, <2>2, <2>4, <2>5, <2>6, <2>7, Zenon DEF TypeOK
<1>7. QED
  BY <1>5, <1>6

LEMMA ForgottenType ==
  ASSUME TypeOK, Counted, ScriptsForgotten
  PROVE  TypeOK' /\ Counted'
<1> USE DEF manager, redis, preloading
<1>1. faults' \in 0 .. MaxFaults /\ forgotten' \in 0 .. MaxFaults
  BY ConstantsOK DEF ConstantsOK, ScriptsForgotten, Fault, TypeOK, Counted
<1>2. Unfinished' = Unfinished
  BY DEF ScriptsForgotten, Unfinished
<1>3. TypeOK'
  BY <1>1 DEF ScriptsForgotten, TypeOK
<1>4. Counted'
  BY <1>2 DEF ScriptsForgotten, Fault, TypeOK, Counted
<1>5. QED
  BY <1>3, <1>4

\* Where the preload has not been touched the countdown still holds.
LEMMA PreloadType ==
  ASSUME TypeOK, Counted, NEW s \in Scripts, PreloadStep(s)
  PROVE  TypeOK' /\ Counted'
<1> USE DEF manager, redis, preloading
<1> DEFINE States == {"unsent", "pending", "ok", "error", "counting", "done"}
<1>1. preload[s] # "done" => up
  BY DEF Counted
<1>2. ASSUME NEW state \in States, state # "done", preload[s] # "done",
             preload' = [preload EXCEPT ![s] = state]
      PROVE  Unfinished' = Unfinished /\ preload' \in [Scripts -> States]
  BY <1>2 DEF Unfinished, TypeOK
<1>3. CASE Preload(s)
  <2>1. PICK state \in {"pending", "error"} : preload' = [preload EXCEPT ![s] = state]
    BY <1>3 DEF Preload
  <2>2. Unfinished' = Unfinished /\ preload' \in [Scripts -> States]
    BY <1>2, <1>3, <2>1 DEF Preload
  <2>3. QED
    BY <1>3, <2>2 DEF Preload, TypeOK, Counted
<1>4. CASE OnPreloaded(s) \/ OnPreloadFailed(s)
  <2>1. Unfinished' = Unfinished /\ preload' \in [Scripts -> States]
    BY <1>2, <1>4 DEF OnPreloaded, OnPreloadFailed
  <2>2. scriptShas' \subseteq Scripts /\ allSuccess' \in BOOLEAN
    BY <1>4 DEF OnPreloaded, OnPreloadFailed, TypeOK
  <2>3. TypeOK'
    BY <1>4, <2>1, <2>2 DEF OnPreloaded, OnPreloadFailed, TypeOK
  <2>4. Counted'
    BY <1>4, <2>1 DEF OnPreloaded, OnPreloadFailed, Counted
  <2>5. QED
    BY <2>3, <2>4
<1>5. CASE CountDown(s)
  <2>1. Unfinished' = Unfinished \ {s} /\ s \in Unfinished
    BY <1>5 DEF CountDown, Unfinished, TypeOK
  <2>2. /\ Cardinality(Unfinished') = Cardinality(Unfinished) - 1
        /\ Cardinality(Unfinished') \in Nat
    BY <2>1, UnfinishedFinite, FS_RemoveElement, FS_CardinalityType
  <2>3. Counted'
    BY <1>5, <2>2 DEF CountDown, Counted
  <2>4. counter' \in 0 .. Cardinality(Scripts)
    BY <1>5, <2>2, UnfinishedFinite DEF CountDown, Counted
  <2>5. /\ preload' \in [Scripts -> States]
        /\ report' \in {"none", "all", "some"}
    BY <1>5 DEF CountDown, TypeOK
  <2>6. TypeOK'
    BY <1>5, <2>4, <2>5 DEF CountDown, TypeOK
  <2>7. QED
    BY <2>3, <2>6
<1>6. CASE PreloadInRedis(s) \/ PreloadFails(s)
  <2>1. PICK state \in {"ok", "error"} : preload' = [preload EXCEPT ![s] = state]
    BY <1>6 DEF PreloadInRedis, PreloadFails
  <2>2. Unfinished' = Unfinished /\ preload' \in [Scripts -> States]
    BY <1>2, <1>6, <2>1 DEF PreloadInRedis, PreloadFails
  <2>3. /\ cache' \subseteq Scripts
        /\ faults' \in 0 .. MaxFaults /\ faults <= faults'
        /\ UNCHANGED <<up, script, scriptShas, forgotten, counter, allSuccess, report, call>>
    BY <1>6, ConstantsOK
       DEF ConstantsOK, PreloadInRedis, PreloadFails, Fault, TypeOK
  <2>4. \A o \in Scripts : preload[o] # "done" => preload'[o] # "done"
    BY <2>2 DEF Unfinished
  <2>5. TypeOK'
    BY <2>2, <2>3 DEF TypeOK
  <2>6. Counted'
    BY <1>1, <1>6, <2>2, <2>3 DEF Counted, TypeOK, PreloadInRedis, PreloadFails
  <2>7. QED
    BY <2>5, <2>6
<1>7. QED
  BY <1>3, <1>4, <1>5, <1>6 DEF PreloadStep, PreloadCallback

\* What the steps of a call make of its record.
LEMMA CallTypes ==
  ASSUME NEW q \in Call
  PROVE  /\ SendEval(q) \in Call
         /\ LoadScript(q) \in Call
         /\ \A what \in {"result", "null"} : Answered(q, what) \in Call
         /\ [q EXCEPT !.reply = "ok"] \in Call
         /\ [q EXCEPT !.reply = "noscript"] \in Call
         /\ [q EXCEPT !.reply = "error", !.failed = TRUE] \in Call
         /\ Executed(q) \subseteq Call
<1>1. q.loads + 1 \in Nat /\ q.runs + 1 \in Nat
  BY DEF Call
<1>2. SendEval(q) \in Call
  BY DEF Call, SendEval
<1>3. LoadScript(q) \in Call
  <2>1. [q EXCEPT !.pc = "load", !.reply = "pending", !.loads = @ + 1] \in Call
    BY <1>1, ZenonT(60) DEF Call
  <2>2. [q EXCEPT !.pc = "load", !.reply = "error"] \in Call
    BY DEF Call
  <2>3. QED
    BY <2>1, <2>2 DEF LoadScript
<1>4. \A what \in {"result", "null"} : Answered(q, what) \in Call
  BY DEF Call, Answered
<1>5. /\ [q EXCEPT !.reply = "ok"] \in Call
      /\ [q EXCEPT !.reply = "noscript"] \in Call
      /\ [q EXCEPT !.reply = "error", !.failed = TRUE] \in Call
  BY DEF Call
<1>6. [q EXCEPT !.reply = "ok", !.runs = @ + 1] \in Call
  BY <1>1, ZenonT(60) DEF Call
<1>7. [q EXCEPT !.reply = "error", !.runs = @ + 1, !.failed = TRUE] \in Call
  BY <1>1, ZenonT(60) DEF Call
<1>8. Executed(q) \subseteq Call
  BY <1>6, <1>7 DEF Executed
<1>9. QED
  BY <1>2, <1>3, <1>4, <1>5, <1>8

\* A step of one call leaves the preload alone.
LEMMA OneCallType ==
  ASSUME TypeOK, Counted, up, NEW c \in Calls, NEW q \in Call,
         call' = [call EXCEPT ![c] = q],
         scriptShas' \subseteq Scripts, cache' \subseteq Scripts,
         faults' \in 0 .. MaxFaults, faults <= faults',
         UNCHANGED <<up, script, forgotten, preloading>>
  PROVE  TypeOK' /\ Counted'
<1> USE DEF preloading
<1>1. call' \in [Calls -> Call]
  BY DEF TypeOK
<1>2. Unfinished' = Unfinished
  BY DEF Unfinished
<1>3. TypeOK'
  BY <1>1 DEF TypeOK
<1>4. Counted'
  BY <1>2 DEF Counted, TypeOK
<1>5. QED
  BY <1>3, <1>4

\* A step of one call that does not touch anything else.
LEMMA QuietCallType ==
  ASSUME TypeOK, Counted, up, NEW c \in Calls, NEW q \in Call,
         call' = [call EXCEPT ![c] = q],
         UNCHANGED <<up, manager, redis, preloading, faults>>
  PROVE  TypeOK' /\ Counted'
<1>1. /\ scriptShas' \subseteq Scripts /\ cache' \subseteq Scripts
      /\ faults' \in 0 .. MaxFaults /\ faults <= faults'
  BY ConstantsOK DEF ConstantsOK, TypeOK, manager, redis
<1>2. QED
  BY <1>1, OneCallType DEF manager, redis

LEMMA CallStepType ==
  ASSUME TypeOK, Counted, NEW c \in Calls, CallStep(c)
  PROVE  TypeOK' /\ Counted'
<1>1. call[c] \in Call
  BY DEF TypeOK
<1>2. up
  BY DEF CallStep, EvalScript, Ask, Callback, OnLoaded, OnLoadFailed, OnResult, OnEvalError,
         RedisStep, LoadInRedis, RunInRedis, CommandFails, Sent, Back, Counted
<1>3. CASE \E s \in Scripts : EvalScript(c, s)
  <2>1. PICK s \in Scripts : EvalScript(c, s)
    BY <1>3
  <2> DEFINE q == [call[c] EXCEPT !.script = s, !.source = (s \in script),
                                  !.since = forgotten]
  <2>2. q \in Call
    <3>1. forgotten \in Nat /\ (s \in script) \in BOOLEAN
      BY ConstantsOK DEF ConstantsOK, TypeOK
    <3>2. QED
      BY <1>1, <3>1, ZenonT(60) DEF Call
  <2>3. SendEval(q) \in Call /\ LoadScript(q) \in Call
    BY <2>2, CallTypes
  <2>4. PICK p \in Call : call' = [call EXCEPT ![c] = p]
    BY <2>1, <2>3 DEF EvalScript, Ask
  <2>5. QED
    BY <1>2, <2>1, <2>4, QuietCallType DEF EvalScript, Ask
<1>4. CASE Callback(c)
  <2>1. CASE OnLoaded(c)
    <3>a. SendEval(call[c]) \in Call
      BY <1>1, CallTypes
    <3>b. call[c].script \in Scripts
      BY <1>1 DEF Call
    <3>1. SendEval(call[c]) \in Call /\ call[c].script \in Scripts
      BY <3>a, <3>b
    <3>2. /\ call' = [call EXCEPT ![c] = SendEval(call[c])]
          /\ UNCHANGED <<up, script, cache, forgotten, preloading, faults>>
          /\ scriptShas' \subseteq Scripts
      BY <2>1, <3>1 DEF OnLoaded, TypeOK, redis
    <3>3. cache' \subseteq Scripts /\ faults' \in 0 .. MaxFaults /\ faults <= faults'
      BY <3>2, ConstantsOK DEF ConstantsOK, TypeOK
    <3>4. QED
      BY <1>2, <3>1, <3>2, <3>3, OneCallType
  <2>2. CASE OnLoadFailed(c) \/ OnResult(c) \/ OnEvalError(c)
    <3>1. PICK p \in Call : call' = [call EXCEPT ![c] = p]
      BY <1>1, <2>2, CallTypes DEF OnLoadFailed, OnResult, OnEvalError
    <3>2. UNCHANGED <<up, manager, redis, preloading, faults>>
      BY <2>2 DEF OnLoadFailed, OnResult, OnEvalError
    <3>3. QED
      BY <1>2, <3>1, <3>2, QuietCallType
  <2>3. QED
    BY <1>4, <2>1, <2>2 DEF Callback
<1>5. CASE LoadInRedis(c) \/ CommandFails(c)
  <2>1. PICK p \in Call : call' = [call EXCEPT ![c] = p]
    BY <1>1, <1>5, CallTypes DEF LoadInRedis, CommandFails
  <2>2. call[c].script \in Scripts
    BY <1>1 DEF Call
  <2>3. /\ UNCHANGED <<up, script, scriptShas, forgotten, preloading>>
        /\ cache' \subseteq Scripts
        /\ faults' = faults \/ Fault
    BY <1>5, <2>2 DEF LoadInRedis, CommandFails, TypeOK, manager, redis
  <2>4. faults' \in 0 .. MaxFaults /\ faults <= faults' /\ scriptShas' \subseteq Scripts
    BY <2>3, ConstantsOK DEF ConstantsOK, Fault, TypeOK
  <2>5. QED
    BY <1>2, <2>1, <2>3, <2>4, OneCallType
<1>6. CASE RunInRedis(c)
  <2>1. PICK p \in Call : call' = [call EXCEPT ![c] = p]
    <3>1. [call[c] EXCEPT !.reply = "noscript"] \in Call /\ Executed(call[c]) \subseteq Call
      BY <1>1, CallTypes
    <3>2. QED
      BY <1>6, <3>1 DEF RunInRedis
  <2>2. QED
    BY <1>2, <1>6, <2>1, QuietCallType DEF RunInRedis
<1>7. QED
  BY <1>3, <1>4, <1>5, <1>6 DEF CallStep, RedisStep

LEMMA TypeStep ==
  ASSUME TypeOK, Counted, [Next]_vars
  PROVE  TypeOK' /\ Counted'
<1>1. CASE Next
  BY <1>1, NextSplit, InitializeType, DeathType, ForgottenType, PreloadType, CallStepType
<1>2. CASE UNCHANGED vars
  BY <1>2 DEF vars, TypeOK, Counted, Unfinished
<1>3. QED
  BY <1>1, <1>2

\* The manager, the preload and the calls always have the types of the code's
\* objects; in particular the countdown of the preload never passes zero.
THEOREM TypeCorrect == Spec => [](TypeOK /\ Counted)
<1>1. TypeOK /\ Counted /\ [Next]_vars => (TypeOK /\ Counted)'
  BY TypeStep
<1>2. QED
  BY InitTypeOK, <1>1, PTL DEF Spec

-----------------------------------------------------------------------------
(* The calls of evalScript. *)

\* A script runs while its EVALSHA is in Redis, and only then.
RunsOK(c) ==
  /\ call[c].runs \in {0, 1}
  /\ call[c].pc # "done" => call[c].answer = "none"
  /\ call[c].pc \in {"idle", "load"} => call[c].runs = 0
  /\ call[c].pc = "eval" /\ call[c].reply \in {"pending", "noscript"} => call[c].runs = 0
  /\ call[c].pc = "eval" /\ call[c].reply = "ok" => call[c].runs = 1

\* What the manager has does not change while a call waits, and a failure has a cause.
SourceOK(c) ==
  /\ call[c].pc \in {"load", "eval"} => (call[c].source <=> call[c].script \in script)
  /\ call[c].reply = "error" \/ call[c].answer = "null" =>
       call[c].failed \/ ~call[c].source

\* A load is in the cache until the scripts are lost, and a lost script has paid for
\* the next load.
LoadsOK(c) ==
  /\ call[c].pc = "idle" => call[c].loads = 0
  /\ call[c].since <= forgotten
  /\ call[c].loads + call[c].since <= forgotten + 1
  /\ call[c].reply = "noscript" => call[c].loads + call[c].since <= forgotten
  /\ \/ call[c].pc = "load" /\ call[c].reply = "ok"
     \/ call[c].pc = "eval" /\ call[c].reply = "pending"
     => \/ call[c].script \in cache
        \/ call[c].loads + call[c].since <= forgotten

CallOK(c) == RunsOK(c) /\ SourceOK(c) /\ LoadsOK(c)

IInv == TypeOK /\ Counted /\ \A c \in Calls : CallOK(c)

\* The fields that the steps of a call set.
LEMMA Fields ==
  ASSUME NEW q \in Call
  PROVE  /\ SendEval(q).pc = "eval" /\ SendEval(q).reply = "pending"
         /\ \A f \in {"script", "answer", "source", "failed", "since", "loads", "runs"} :
              SendEval(q)[f] = q[f]
         /\ LoadScript(q).pc = "load"
         /\ \A f \in {"script", "answer", "source", "failed", "since", "runs"} :
              LoadScript(q)[f] = q[f]
         /\ q.script \in script =>
              LoadScript(q).reply = "pending" /\ LoadScript(q).loads = q.loads + 1
         /\ q.script \notin script =>
              LoadScript(q).reply = "error" /\ LoadScript(q).loads = q.loads
         /\ \A what \in {"result", "null"} :
              /\ Answered(q, what).pc = "done" /\ Answered(q, what).reply = "none"
              /\ Answered(q, what).answer = what
              /\ \A f \in {"script", "source", "failed", "since", "loads", "runs"} :
                   Answered(q, what)[f] = q[f]
BY DEF Call, SendEval, LoadScript, Answered

\* A call that does not take the step keeps what is known of it.
LEMMA BystanderOK ==
  ASSUME TypeOK, NEW o \in Calls, CallOK(o), call'[o] = call[o],
         script' = script, forgotten' = forgotten, cache \subseteq cache'
  PROVE  CallOK(o)'
BY DEF CallOK, RunsOK, SourceOK, LoadsOK

\* A call whose record becomes p.
LEMMA EvalScriptOK ==
  ASSUME IInv, NEW c \in Calls, NEW s \in Scripts, EvalScript(c, s)
  PROVE  CallOK(c)'
<1> DEFINE q == [call[c] EXCEPT !.script = s, !.source = (s \in script),
                                !.since = forgotten]
<1> USE DEF manager, redis, preloading
<1>1. call[c] \in Call /\ c \in DOMAIN call
  BY DEF IInv, TypeOK
<1>2. /\ q \in Call
      /\ q.script = s /\ (q.source <=> s \in script) /\ q.since = forgotten
      /\ q.pc = "idle" /\ q.answer = "none" /\ q.failed = call[c].failed
      /\ q.loads = 0 /\ q.runs = 0
  <2>1. forgotten \in Nat /\ (s \in script) \in BOOLEAN
    BY ConstantsOK DEF ConstantsOK, IInv, TypeOK
  <2>2. q \in Call
    BY <1>1, <2>1, ZenonT(60) DEF Call
  <2>3. /\ call[c].pc = "idle" /\ call[c].answer = "none"
        /\ call[c].loads = 0 /\ call[c].runs = 0
    BY DEF EvalScript, Ask, IInv, CallOK, RunsOK, LoadsOK
  <2>4. QED
    BY <1>1, <2>2, <2>3 DEF Call
<1>3. /\ script' = script /\ cache' = cache /\ forgotten' = forgotten
      /\ call'[c] = SendEval(q) \/ call'[c] = LoadScript(q)
  BY <1>1 DEF EvalScript, Ask
<1>4. forgotten \in Nat
  BY ConstantsOK DEF ConstantsOK, IInv, TypeOK
<1> HIDE DEF q
<1>5. CASE call'[c] = SendEval(q)
  <2>1. /\ call'[c].pc = "eval" /\ call'[c].reply = "pending"
        /\ call'[c].script = s /\ call'[c].source = q.source
        /\ call'[c].since = forgotten /\ call'[c].answer = "none"
        /\ call'[c].loads = 0 /\ call'[c].runs = 0
    BY <1>2, <1>5, Fields
  <2>2. QED
    BY <1>2, <1>3, <1>4, <2>1 DEF CallOK, RunsOK, SourceOK, LoadsOK
<1>6. CASE call'[c] = LoadScript(q)
  <2>1. /\ call'[c].pc = "load" /\ call'[c].reply \in {"pending", "error"}
        /\ call'[c].reply = "error" => s \notin script
        /\ call'[c].script = s /\ call'[c].source = q.source
        /\ call'[c].since = forgotten /\ call'[c].answer = "none"
        /\ call'[c].loads \in {0, 1} /\ call'[c].runs = 0
    BY <1>2, <1>6, Fields
  <2>2. QED
    BY <1>2, <1>3, <1>4, <2>1 DEF CallOK, RunsOK, SourceOK, LoadsOK
<1>7. QED
  BY <1>3, <1>5, <1>6

LEMMA CallbackOK ==
  ASSUME IInv, NEW c \in Calls, Callback(c)
  PROVE  CallOK(c)'
<1> USE DEF manager, redis, preloading
<1>1. call[c] \in Call /\ c \in DOMAIN call
  BY DEF IInv, TypeOK
<1>2. script' = script /\ cache' = cache /\ forgotten' = forgotten
  BY DEF Callback, OnLoaded, OnLoadFailed, OnResult, OnEvalError
<1>3. /\ forgotten \in Nat
      /\ call[c].loads \in Nat /\ call[c].since \in Nat /\ call[c].runs \in Nat
  BY <1>1, ConstantsOK DEF ConstantsOK, IInv, TypeOK, Call
<1>4. RunsOK(c) /\ SourceOK(c) /\ LoadsOK(c)
  BY DEF IInv, CallOK
<1>5. CASE OnLoaded(c)
  <2>1. Back(c, "load", "ok") /\ call'[c] = SendEval(call[c])
    BY <1>1, <1>5 DEF OnLoaded
  <2>2. /\ call'[c].pc = "eval" /\ call'[c].reply = "pending"
        /\ call'[c].script = call[c].script /\ call'[c].answer = call[c].answer
        /\ call'[c].source = call[c].source /\ call'[c].failed = call[c].failed
        /\ call'[c].since = call[c].since /\ call'[c].loads = call[c].loads
        /\ call'[c].runs = call[c].runs
    BY <1>1, <2>1, Fields
  <2>3. QED
    BY <1>2, <1>3, <1>4, <2>1, <2>2 DEF Back, CallOK, RunsOK, SourceOK, LoadsOK
<1>6. CASE \E what \in {"result", "null"} : call'[c] = Answered(call[c], what)
  <2>1. PICK what \in {"result", "null"} : call'[c] = Answered(call[c], what)
    BY <1>6
  <2>2. /\ call'[c].pc = "done" /\ call'[c].reply = "none"
        /\ call'[c].answer = what
        /\ call'[c].script = call[c].script
        /\ call'[c].source = call[c].source /\ call'[c].failed = call[c].failed
        /\ call'[c].since = call[c].since /\ call'[c].loads = call[c].loads
        /\ call'[c].runs = call[c].runs
    BY <1>1, <2>1, Fields
  <2>3. what = "null" => call[c].reply = "error"
    <3>1. what = "null" => call'[c].answer # "result"
      BY <2>2
    <3>2. CASE OnResult(c)
      <4>1. call'[c] = Answered(call[c], "result")
        BY <1>1, <3>2 DEF OnResult
      <4>2. QED
        BY <1>1, <3>1, <4>1, Fields
    <3>3. CASE OnLoadFailed(c)
      BY <3>3 DEF OnLoadFailed, Back
    <3>4. CASE OnEvalError(c)
      <4>1. CASE call'[c] = LoadScript(call[c])
        <5>1. call'[c].pc = "load"
          BY <1>1, <4>1, Fields
        <5>2. QED
          BY <2>2, <5>1
      <4>2. QED
        BY <1>1, <3>4, <4>1 DEF OnEvalError, Back
    <3>5. CASE OnLoaded(c)
      <4>1. call'[c] = SendEval(call[c])
        BY <1>1, <3>5 DEF OnLoaded
      <4>2. call'[c].pc = "eval"
        BY <1>1, <4>1, Fields
      <4>3. QED
        BY <2>2, <4>2
    <3>6. QED
      BY <3>2, <3>3, <3>4, <3>5 DEF Callback
  <2>4. QED
    BY <1>2, <1>3, <1>4, <2>2, <2>3 DEF CallOK, RunsOK, SourceOK, LoadsOK
<1>7. CASE Back(c, "eval", "noscript") /\ call'[c] = LoadScript(call[c])
  <2>1. /\ call'[c].pc = "load" /\ call'[c].reply \in {"pending", "error"}
        /\ call'[c].reply = "error" => call[c].script \notin script
        /\ call'[c].script = call[c].script /\ call'[c].answer = call[c].answer
        /\ call'[c].source = call[c].source /\ call'[c].failed = call[c].failed
        /\ call'[c].since = call[c].since /\ call'[c].runs = call[c].runs
        /\ call'[c].loads \in {call[c].loads, call[c].loads + 1}
    BY <1>1, <1>7, Fields
  <2>2. QED
    BY <1>2, <1>3, <1>4, <1>7, <2>1 DEF Back, CallOK, RunsOK, SourceOK, LoadsOK
<1>8. QED
  BY <1>1, <1>5, <1>6, <1>7 DEF Callback, OnLoadFailed, OnResult, OnEvalError

\* The fields that running the script sets.
LEMMA ExecutedFields ==
  ASSUME NEW q \in Call, NEW p \in Executed(q)
  PROVE  /\ p.pc = q.pc /\ p.script = q.script /\ p.answer = q.answer
         /\ p.source = q.source /\ p.since = q.since /\ p.loads = q.loads
         /\ p.runs = q.runs + 1
         /\ \/ p.reply = "ok" /\ p.failed = q.failed
            \/ p.reply = "error" /\ p.failed
<1>1. CASE p = [q EXCEPT !.reply = "ok", !.runs = @ + 1]
  BY <1>1 DEF Call
<1>2. CASE p = [q EXCEPT !.reply = "error", !.runs = @ + 1, !.failed = TRUE]
  BY <1>2 DEF Call
<1>3. QED
  BY <1>1, <1>2 DEF Executed

\* Redis fixes the reply of the command, and notes its own failures.
LEMMA ReplyOK ==
  ASSUME IInv, NEW c \in Calls, RedisStep(c) \/ CommandFails(c)
  PROVE  CallOK(c)'
<1> USE DEF manager, redis, preloading
<1>1. call[c] \in Call /\ c \in DOMAIN call
  BY DEF IInv, TypeOK
<1>2. script' = script /\ forgotten' = forgotten /\ cache \subseteq cache'
  BY DEF RedisStep, LoadInRedis, RunInRedis, CommandFails
<1>3. /\ forgotten \in Nat
      /\ call[c].loads \in Nat /\ call[c].since \in Nat /\ call[c].runs \in Nat
  BY <1>1, ConstantsOK DEF ConstantsOK, IInv, TypeOK, Call
<1>4. RunsOK(c) /\ SourceOK(c) /\ LoadsOK(c)
  BY DEF IInv, CallOK
<1>5. /\ call'[c].pc = call[c].pc /\ call'[c].script = call[c].script
      /\ call'[c].answer = call[c].answer /\ call'[c].source = call[c].source
      /\ call'[c].since = call[c].since /\ call'[c].loads = call[c].loads
  <2>1. CASE LoadInRedis(c)
    BY <1>1, <2>1 DEF LoadInRedis, Call
  <2>2. CASE RunInRedis(c)
    <3>1. CASE call' = [call EXCEPT ![c] = [call[c] EXCEPT !.reply = "noscript"]]
      BY <1>1, <3>1 DEF Call
    <3>2. CASE \E q \in Executed(call[c]) : call' = [call EXCEPT ![c] = q]
      <4>1. call'[c] \in Executed(call[c])
        BY <1>1, <3>2
      <4>2. QED
        BY <1>1, <4>1, ExecutedFields
    <3>3. QED
      BY <2>2, <3>1, <3>2 DEF RunInRedis
  <2>3. CASE CommandFails(c)
    BY <1>1, <2>3 DEF CommandFails, Call
  <2>4. QED
    BY <2>1, <2>2, <2>3 DEF RedisStep
<1>6. CASE LoadInRedis(c)
  <2>1. /\ Sent(c, "load") /\ call[c].script \in cache'
        /\ call'[c].runs = call[c].runs
        /\ \/ call'[c].reply = "ok" /\ call'[c].failed = call[c].failed
           \/ call'[c].reply = "error" /\ call'[c].failed
    BY <1>1, <1>6 DEF LoadInRedis, Call
  <2>2. QED
    BY <1>2, <1>3, <1>4, <1>5, <2>1 DEF Sent, CallOK, RunsOK, SourceOK, LoadsOK
<1>7. CASE RunInRedis(c)
  <2>1. /\ Sent(c, "eval")
        /\ \/ /\ call[c].script \notin cache
              /\ call'[c].reply = "noscript" /\ call'[c].failed = call[c].failed
              /\ call'[c].runs = call[c].runs
           \/ /\ call'[c].reply = "ok" /\ call'[c].failed = call[c].failed
              /\ call'[c].runs = call[c].runs + 1
           \/ /\ call'[c].reply = "error" /\ call'[c].failed
              /\ call'[c].runs = call[c].runs + 1
    <3>1. CASE /\ call[c].script \notin cache
               /\ call' = [call EXCEPT ![c] = [call[c] EXCEPT !.reply = "noscript"]]
      BY <1>1, <1>7, <3>1 DEF RunInRedis, Call
    <3>2. CASE \E q \in Executed(call[c]) : call' = [call EXCEPT ![c] = q]
      <4>1. call'[c] \in Executed(call[c]) /\ Sent(c, "eval")
        BY <1>1, <1>7, <3>2 DEF RunInRedis
      <4>2. QED
        BY <1>1, <4>1, ExecutedFields
    <3>3. QED
      BY <1>7, <3>1, <3>2 DEF RunInRedis
  <2>2. QED
    BY <1>2, <1>3, <1>4, <1>5, <2>1 DEF Sent, CallOK, RunsOK, SourceOK, LoadsOK
<1>8. CASE CommandFails(c)
  <2>1. /\ call'[c].reply = "error" /\ call'[c].failed
        /\ call'[c].runs = call[c].runs /\ call[c].pc \in {"load", "eval"}
    BY <1>1, <1>8 DEF CommandFails, Sent, Call
  <2>2. QED
    BY <1>2, <1>3, <1>4, <1>5, <2>1 DEF CallOK, RunsOK, SourceOK, LoadsOK
<1>9. QED
  BY <1>6, <1>7, <1>8 DEF RedisStep

LEMMA CallStepOK ==
  ASSUME IInv, NEW c \in Calls, CallStep(c)
  PROVE  \A o \in Calls : CallOK(o)'
<1> USE DEF manager, redis, preloading
<1>1. /\ script' = script /\ forgotten' = forgotten /\ cache \subseteq cache'
      /\ \A o \in Calls \ {c} : call'[o] = call[o]
  <2>1. CASE \E s \in Scripts : EvalScript(c, s)
    BY <2>1 DEF EvalScript, Ask, IInv, TypeOK
  <2>2. CASE Callback(c)
    BY <2>2 DEF Callback, OnLoaded, OnLoadFailed, OnResult, OnEvalError, IInv, TypeOK
  <2>3. CASE RedisStep(c) \/ CommandFails(c)
    BY <2>3 DEF RedisStep, LoadInRedis, RunInRedis, CommandFails, IInv, TypeOK
  <2>4. QED
    BY <2>1, <2>2, <2>3 DEF CallStep
<1>2. CallOK(c)'
  BY EvalScriptOK, CallbackOK, ReplyOK DEF CallStep
<1>3. ASSUME NEW o \in Calls, o # c PROVE CallOK(o)'
  BY <1>1, <1>3, BystanderOK DEF IInv
<1>4. QED
  BY <1>2, <1>3

\* The calls a dying server takes with it, and those it had ended.
LEMMA DeathOK ==
  ASSUME IInv, Death
  PROVE  \A c \in Calls : CallOK(c)'
<1> USE DEF manager, redis, preloading
<1> SUFFICES ASSUME NEW c \in Calls PROVE CallOK(c)'
  OBVIOUS
<1>1. call[c] \in Call /\ c \in DOMAIN call /\ CallOK(c)
  BY DEF IInv, TypeOK
<1>2. forgotten' = forgotten /\ cache' = cache
  BY DEF Death, ServerDies, InFlight
<1>3. CASE call[c].pc \notin {"load", "eval"}
  <2>1. call'[c] = call[c]
    BY <1>1, <1>3 DEF Death, ServerDies, InFlight
  <2>2. QED
    BY <1>1, <1>2, <1>3, <2>1 DEF CallOK, RunsOK, SourceOK, LoadsOK
<1>4. CASE call[c].pc \in {"load", "eval"}
  <2>1. /\ call'[c].pc = "lost" /\ call'[c].reply = "none"
        /\ call'[c].script = call[c].script /\ call'[c].answer = call[c].answer
        /\ call'[c].source = call[c].source /\ call'[c].failed = call[c].failed
        /\ call'[c].since = call[c].since /\ call'[c].loads = call[c].loads
        /\ call'[c].runs = call[c].runs
    BY <1>1, <1>4 DEF Death, ServerDies, InFlight, Call
  <2>2. QED
    BY <1>1, <1>2, <1>4, <2>1 DEF CallOK, RunsOK, SourceOK, LoadsOK
<1>5. QED
  BY <1>3, <1>4

\* When Redis loses its scripts every waiting call may load once more.
LEMMA ForgottenOK ==
  ASSUME IInv, ScriptsForgotten
  PROVE  \A c \in Calls : CallOK(c)'
<1> USE DEF manager, redis, preloading
<1> SUFFICES ASSUME NEW c \in Calls PROVE CallOK(c)'
  OBVIOUS
<1>1. /\ forgotten \in Nat
      /\ call[c].loads \in Nat /\ call[c].since \in Nat
      /\ CallOK(c)
  BY ConstantsOK DEF ConstantsOK, IInv, TypeOK, Call
<1>2. call' = call /\ script' = script /\ forgotten' = forgotten + 1
  BY DEF ScriptsForgotten
<1>3. QED
  BY <1>1, <1>2 DEF CallOK, RunsOK, SourceOK, LoadsOK

\* A new process finds no call of the old one waiting.
LEMMA InitializeOK ==
  ASSUME IInv, Initialize
  PROVE  \A c \in Calls : CallOK(c)'
<1> USE DEF manager, redis, preloading
<1> SUFFICES ASSUME NEW c \in Calls PROVE CallOK(c)'
  OBVIOUS
<1>1. call[c].pc \notin {"load", "eval"} /\ CallOK(c)
  BY DEF IInv, Counted, Initialize
<1>2. call' = call /\ forgotten' = forgotten /\ cache' = cache
  BY DEF Initialize
<1>3. QED
  BY <1>1, <1>2 DEF CallOK, RunsOK, SourceOK, LoadsOK

\* The invariant holds of every behaviour.
THEOREM Invariance == Spec => []IInv
<1>1. Init => IInv
  <2> SUFFICES ASSUME Init PROVE IInv
    OBVIOUS
  <2>1. \A c \in Calls : CallOK(c)
    BY DEF Init, NewCall, CallOK, RunsOK, SourceOK, LoadsOK
  <2>2. QED
    BY <2>1, InitTypeOK DEF IInv
<1>2. IInv /\ [Next]_vars => IInv'
  <2> SUFFICES ASSUME IInv, [Next]_vars PROVE IInv'
    OBVIOUS
  <2>1. CASE Next
    <3>1. (TypeOK /\ Counted)'
      BY <2>1, NextSplit, InitializeType, DeathType, ForgottenType, PreloadType,
         CallStepType DEF IInv
    <3>2. \A c \in Calls : CallOK(c)'
      <4>1. ASSUME NEW s \in Scripts, PreloadStep(s), NEW o \in Calls PROVE CallOK(o)'
        <5>1. /\ script' = script /\ forgotten' = forgotten /\ cache \subseteq cache'
              /\ call' = call
          BY <4>1 DEF PreloadStep, PreloadCallback, Preload, OnPreloaded,
             OnPreloadFailed, CountDown, PreloadInRedis, PreloadFails, manager, redis
        <5>2. QED
          BY <5>1, BystanderOK DEF IInv
      <4>2. QED
        BY <2>1, <4>1, NextSplit, InitializeOK, DeathOK, ForgottenOK, CallStepOK
    <3>3. QED
      BY <3>1, <3>2 DEF IInv
  <2>2. CASE UNCHANGED vars
    BY <2>2 DEF vars, IInv, TypeOK, Counted, Unfinished, CallOK, RunsOK, SourceOK, LoadsOK
  <2>3. QED
    BY <2>1, <2>2
<1>3. QED
  BY <1>1, <1>2, PTL DEF Spec

\* However often Redis loses its scripts, no caller gets the null result for it.
THEOREM LossesAreRecovered == Spec => []LossIsRecovered
<1>1. IInv => LossIsRecovered
  BY DEF IInv, CallOK, SourceOK, LossIsRecovered
<1>2. QED
  BY <1>1, Invariance, PTL

\* evalScript loads once, and once more for each loss: it never goes round on its own.
THEOREM ReloadsAreReasoned == Spec => []ReloadsHaveReason
<1>1. IInv => ReloadsHaveReason
  BY DEF IInv, CallOK, LoadsOK, ReloadsHaveReason
<1>2. QED
  BY <1>1, Invariance, PTL

-----------------------------------------------------------------------------
(* The calls of evalScript keep the promise of ScriptCalls. *)

AskedNow == {c \in Calls : call[c].pc # "idle"}
RunsNow == [c \in Calls |-> call[c].runs]
AnswersNow == [c \in Calls |-> call[c].answer]

LEMMA StutterOfCalls ==
  ASSUME AskedNow' = AskedNow, RunsNow' = RunsNow, AnswersNow' = AnswersNow
  PROVE  [CallsOf!Next]_CallsOf!vars
BY DEF AskedNow, RunsNow, AnswersNow, CallsOf!vars

\* A step that leaves these three fields of every call alone is none of ScriptCalls.
LEMMA QuietStep ==
  ASSUME \A c \in Calls : /\ call'[c].pc = "idle" <=> call[c].pc = "idle"
                          /\ call'[c].runs = call[c].runs
                          /\ call'[c].answer = call[c].answer
  PROVE  [CallsOf!Next]_CallsOf!vars
<1>1. AskedNow' = AskedNow
  BY DEF AskedNow
<1>2. RunsNow' = RunsNow
  BY DEF RunsNow
<1>3. AnswersNow' = AnswersNow
  BY DEF AnswersNow
<1>4. QED
  BY <1>1, <1>2, <1>3, StutterOfCalls

\* The three ways in which one call can move.
LEMMA OneCallMoves ==
  ASSUME NEW c \in Calls, \A o \in Calls \ {c} : call'[o] = call[o],
         \/ /\ call[c].pc = "idle" /\ call'[c].pc # "idle"
            /\ call'[c].runs = call[c].runs /\ call'[c].answer = call[c].answer
         \/ /\ call[c].pc # "idle" /\ call'[c].pc # "idle"
            /\ call[c].runs = 0 /\ call'[c].runs = 1
            /\ call[c].answer = "none" /\ call'[c].answer = "none"
         \/ /\ call[c].pc # "idle" /\ call'[c].pc # "idle"
            /\ call'[c].runs = call[c].runs /\ call[c].answer = "none"
            /\ \/ call'[c].answer = "null"
               \/ call'[c].answer = "result" /\ call[c].runs = 1
  PROVE  [CallsOf!Next]_CallsOf!vars
<1>1. CASE /\ call[c].pc = "idle" /\ call'[c].pc # "idle"
           /\ call'[c].runs = call[c].runs /\ call'[c].answer = call[c].answer
  <2>1. c \notin AskedNow /\ AskedNow' = AskedNow \union {c}
    BY <1>1 DEF AskedNow
  <2>2. RunsNow' = RunsNow /\ AnswersNow' = AnswersNow
    BY <1>1 DEF RunsNow, AnswersNow
  <2>3. CallsOf!Ask(c)
    BY <2>1, <2>2 DEF CallsOf!Ask, AskedNow, RunsNow, AnswersNow
  <2>4. QED
    BY <2>3 DEF CallsOf!Next
<1>2. CASE /\ call[c].pc # "idle" /\ call'[c].pc # "idle"
           /\ call[c].runs = 0 /\ call'[c].runs = 1
           /\ call[c].answer = "none" /\ call'[c].answer = "none"
  <2>1. c \in AskedNow /\ AskedNow' = AskedNow
    BY <1>2 DEF AskedNow
  <2>2. RunsNow[c] = 0 /\ RunsNow' = [RunsNow EXCEPT ![c] = 1]
    BY <1>2 DEF RunsNow
  <2>3. AnswersNow[c] = "none" /\ AnswersNow' = AnswersNow
    BY <1>2 DEF AnswersNow
  <2>4. CallsOf!Run(c)
    BY <2>1, <2>2, <2>3 DEF CallsOf!Run, AskedNow, RunsNow, AnswersNow
  <2>5. QED
    BY <2>4 DEF CallsOf!Next
<1>3. CASE /\ call[c].pc # "idle" /\ call'[c].pc # "idle"
           /\ call'[c].runs = call[c].runs /\ call[c].answer = "none"
           /\ \/ call'[c].answer = "null"
              \/ call'[c].answer = "result" /\ call[c].runs = 1
  <2>1. c \in AskedNow /\ AskedNow' = AskedNow
    BY <1>3 DEF AskedNow
  <2>2. RunsNow' = RunsNow /\ RunsNow[c] = call[c].runs
    BY <1>3 DEF RunsNow
  <2>3. AnswersNow[c] = "none" /\ AnswersNow' = [AnswersNow EXCEPT ![c] = call'[c].answer]
    BY <1>3 DEF AnswersNow
  <2>4. CallsOf!Answer(c)
    BY <1>3, <2>1, <2>2, <2>3 DEF CallsOf!Answer, AskedNow, RunsNow, AnswersNow
  <2>5. QED
    BY <2>4 DEF CallsOf!Next
<1>4. QED
  BY <1>1, <1>2, <1>3

\* One step of one call asks, runs or answers, or is none of ScriptCalls.
LEMMA CallStepMaps ==
  ASSUME IInv, NEW c \in Calls, CallStep(c)
  PROVE  [CallsOf!Next]_CallsOf!vars
<1> USE DEF manager, redis, preloading
<1>1. call[c] \in Call /\ c \in DOMAIN call /\ RunsOK(c)
  BY DEF IInv, TypeOK, CallOK
<1>2. \A o \in Calls \ {c} : call'[o] = call[o]
  <2>1. CASE \E s \in Scripts : EvalScript(c, s)
    BY <2>1 DEF EvalScript, Ask, IInv, TypeOK
  <2>2. CASE Callback(c)
    BY <2>2 DEF Callback, OnLoaded, OnLoadFailed, OnResult, OnEvalError, IInv, TypeOK
  <2>3. CASE RedisStep(c) \/ CommandFails(c)
    BY <2>3 DEF RedisStep, LoadInRedis, RunInRedis, CommandFails, IInv, TypeOK
  <2>4. QED
    BY <2>1, <2>2, <2>3 DEF CallStep
<1>3. CASE \E s \in Scripts : EvalScript(c, s)
  <2>1. PICK s \in Scripts : EvalScript(c, s)
    BY <1>3
  <2> DEFINE q == [call[c] EXCEPT !.script = s, !.source = (s \in script),
                                  !.since = forgotten]
  <2>2. q \in Call /\ q.runs = call[c].runs /\ q.answer = call[c].answer
    <3>1. forgotten \in Nat /\ (s \in script) \in BOOLEAN
      BY ConstantsOK DEF ConstantsOK, IInv, TypeOK
    <3>2. q \in Call
      BY <1>1, <3>1, ZenonT(60) DEF Call
    <3>3. QED
      BY <1>1, <3>2 DEF Call
  <2>3. call[c].pc = "idle" /\ (call'[c] = SendEval(q) \/ call'[c] = LoadScript(q))
    BY <1>1, <2>1 DEF EvalScript, Ask
  <2> HIDE DEF q
  <2>4. /\ call'[c].pc # "idle"
        /\ call'[c].runs = call[c].runs /\ call'[c].answer = call[c].answer
    BY <2>2, <2>3, Fields
  <2>5. QED
    BY <1>2, <2>3, <2>4, OneCallMoves
<1>4. CASE \E p \in {SendEval(call[c]), LoadScript(call[c])} :
             call'[c] = p /\ call[c].pc # "idle"
  <2>1. /\ call'[c].pc # "idle"
        /\ call'[c].runs = call[c].runs /\ call'[c].answer = call[c].answer
    BY <1>1, <1>4, Fields
  <2>2. QED
    BY <1>2, <1>4, <2>1, QuietStep
<1>5. CASE \/ OnResult(c) \/ OnLoadFailed(c)
           \/ Back(c, "eval", "error") /\ call'[c] = Answered(call[c], "null")
  <2>1. /\ call[c].pc \in {"load", "eval"} /\ call[c].answer = "none"
    BY <1>1, <1>5 DEF OnResult, OnLoadFailed, Back, RunsOK
  <2>2. \/ call'[c] = Answered(call[c], "null")
        \/ call'[c] = Answered(call[c], "result") /\ call[c].runs = 1
    BY <1>1, <1>5 DEF OnResult, OnLoadFailed, Back, RunsOK
  <2>3. /\ call'[c].pc # "idle" /\ call'[c].runs = call[c].runs
        /\ \/ call'[c].answer = "null"
           \/ call'[c].answer = "result" /\ call[c].runs = 1
    BY <1>1, <2>2, Fields
  <2>4. QED
    BY <1>2, <2>1, <2>3, OneCallMoves
<1>6. CASE RedisStep(c) \/ CommandFails(c)
  <2>1. call[c].pc \in {"load", "eval"} /\ call[c].answer = "none"
    BY <1>1, <1>6 DEF RedisStep, LoadInRedis, RunInRedis, CommandFails, Sent, RunsOK
  <2>2. CASE LoadInRedis(c) \/ CommandFails(c)
    <3>1. /\ call'[c].pc = call[c].pc
          /\ call'[c].runs = call[c].runs /\ call'[c].answer = call[c].answer
      BY <1>1, <2>2 DEF LoadInRedis, CommandFails, Call
    <3>2. QED
      BY <1>2, <3>1, QuietStep
  <2>3. CASE RunInRedis(c)
    <3>1. CASE call' = [call EXCEPT ![c] = [call[c] EXCEPT !.reply = "noscript"]]
      <4>1. /\ call'[c].pc = call[c].pc
            /\ call'[c].runs = call[c].runs /\ call'[c].answer = call[c].answer
        BY <1>1, <3>1 DEF Call
      <4>2. QED
        BY <1>2, <4>1, QuietStep
    <3>2. CASE \E q \in Executed(call[c]) : call' = [call EXCEPT ![c] = q]
      <4>1. call'[c] \in Executed(call[c]) /\ call[c].runs = 0
        BY <1>1, <2>3, <3>2 DEF RunInRedis, Sent, RunsOK
      <4>2. /\ call'[c].pc = call[c].pc /\ call'[c].answer = call[c].answer
            /\ call'[c].runs = 1
        BY <1>1, <4>1, ExecutedFields
      <4>3. QED
        BY <1>2, <2>1, <4>1, <4>2, OneCallMoves
    <3>3. QED
      BY <2>3, <3>1, <3>2 DEF RunInRedis
  <2>4. QED
    BY <1>6, <2>2, <2>3 DEF RedisStep
<1>7. QED
  <2>1. CASE OnLoaded(c)
    BY <1>1, <1>4, <2>1 DEF OnLoaded, Back
  <2>2. CASE OnEvalError(c)
    BY <1>1, <1>4, <1>5, <2>2 DEF OnEvalError, Back
  <2>3. QED
    BY <1>3, <1>5, <1>6, <2>1, <2>2 DEF CallStep, Callback

\* Loads, losses and repetitions are invisible to the callers: ScriptRegistry
\* implements ScriptCalls.
THEOREM ImplementsCalls == Spec => CallsSpec
<1>1. Init => CallsOf!Init
  BY DEF Init, NewCall, CallsOf!Init
<1>2. IInv /\ [Next]_vars => [CallsOf!Next]_CallsOf!vars
  <2> SUFFICES ASSUME IInv, [Next]_vars PROVE [CallsOf!Next]_CallsOf!vars
    OBVIOUS
  <2>1. CASE Death
    <3>1. \A c \in Calls : /\ call'[c].pc = "idle" <=> call[c].pc = "idle"
                           /\ call'[c].runs = call[c].runs
                           /\ call'[c].answer = call[c].answer
      BY <2>1 DEF Death, ServerDies, InFlight, IInv, TypeOK, Call
    <3>2. QED
      BY <3>1, QuietStep
  <2>2. CASE call' = call
    BY <2>2, QuietStep
  <2>3. CASE \E c \in Calls : CallStep(c)
    BY <2>3, CallStepMaps
  <2>4. ASSUME NEW s \in Scripts, PreloadStep(s) PROVE call' = call
    BY <2>4 DEF PreloadStep, PreloadCallback, Preload, OnPreloaded, OnPreloadFailed,
       CountDown, PreloadInRedis, PreloadFails, manager, redis
  <2>5. Initialize \/ ScriptsForgotten \/ UNCHANGED vars => call' = call
    BY DEF Initialize, ScriptsForgotten, vars
  <2>6. QED
    BY <2>1, <2>2, <2>3, <2>4, <2>5, NextSplit
<1>3. QED
  BY <1>1, <1>2, Invariance, PTL DEF Spec, CallsSpec, CallsOf!Spec

-----------------------------------------------------------------------------
(* The report of the preload. *)

\* There is a report once every load is counted, and while no failure is noted the
\* digests of those counted are on record.
PreloadOK ==
  up => /\ report # "none" => \A s \in Scripts : preload[s] = "done"
        /\ allSuccess =>
             \A s \in Scripts : preload[s] \in {"counting", "done"} => s \in scriptShas
        /\ report = "all" => scriptShas = Scripts

\* The last load to count down finds them all counted.
LEMMA CountDownOK ==
  ASSUME TypeOK, Counted, PreloadOK, NEW s \in Scripts, CountDown(s)
  PROVE  PreloadOK'
<1>1. Unfinished' = Unfinished \ {s} /\ s \in Unfinished
  BY DEF CountDown, Unfinished, TypeOK
<1>2. up /\ counter = Cardinality(Unfinished)
  BY DEF CountDown, Counted
<1>3. /\ scriptShas' = scriptShas /\ allSuccess' = allSuccess /\ up' = up
      /\ preload' = [preload EXCEPT ![s] = "done"] /\ preload[s] = "counting"
  BY DEF CountDown, manager
<1>4. report = "none"
  BY <1>2, <1>3 DEF PreloadOK
<1>5. allSuccess =>
        \A o \in Scripts : preload'[o] \in {"counting", "done"} => o \in scriptShas
  BY <1>2, <1>3 DEF PreloadOK, TypeOK
<1>6. CASE counter = 1
  <2>1. Cardinality(Unfinished') = 0 /\ IsFiniteSet(Unfinished')
    <3>1. IsFiniteSet(Unfinished) /\ Cardinality(Unfinished) = 1
      BY <1>2, <1>6, UnfinishedFinite
    <3>2. /\ IsFiniteSet(Unfinished \ {s})
          /\ Cardinality(Unfinished \ {s}) = Cardinality(Unfinished) - 1
      BY <1>1, <3>1, FS_RemoveElement
    <3>3. QED
      BY <1>1, <3>1, <3>2
  <2>2. \A o \in Scripts : preload'[o] = "done"
    BY <2>1, FS_EmptySet DEF Unfinished
  <2>3. report' = "all" => allSuccess
    BY <1>6 DEF CountDown
  <2>4. scriptShas \subseteq Scripts
    BY DEF TypeOK
  <2>5. report' = "all" => scriptShas' = Scripts
    BY <1>3, <1>5, <2>2, <2>3, <2>4
  <2>6. QED
    BY <1>3, <1>5, <2>2, <2>5 DEF PreloadOK
<1>7. CASE counter # 1
  <2>1. report' = "none"
    BY <1>4, <1>7 DEF CountDown
  <2>2. QED
    BY <1>3, <1>5, <2>1 DEF PreloadOK
<1>8. QED
  BY <1>6, <1>7

\* The other steps of the preload do not reach what is counted.
LEMMA PreloadStepOK ==
  ASSUME TypeOK, Counted, PreloadOK, NEW s \in Scripts, PreloadStep(s)
  PROVE  PreloadOK'
<1> USE DEF manager, redis
<1>1. CASE Preload(s) \/ PreloadInRedis(s) \/ PreloadFails(s)
  <2>1. up /\ UNCHANGED <<up, scriptShas, allSuccess, report>>
    BY <1>1 DEF Preload, PreloadInRedis, PreloadFails, Counted
  <2>2. PICK state \in {"pending", "ok", "error"} :
          preload' = [preload EXCEPT ![s] = state]
    BY <1>1 DEF Preload, PreloadInRedis, PreloadFails
  <2>3. preload[s] # "done"
    BY <1>1 DEF Preload, PreloadInRedis, PreloadFails
  <2>4. QED
    BY <2>1, <2>2, <2>3 DEF PreloadOK, TypeOK
<1>2. CASE OnPreloaded(s)
  BY <1>2 DEF OnPreloaded, PreloadOK, TypeOK
<1>3. CASE OnPreloadFailed(s)
  BY <1>3 DEF OnPreloadFailed, PreloadOK, TypeOK
<1>4. QED
  BY <1>1, <1>2, <1>3, CountDownOK DEF PreloadStep, PreloadCallback

\* Calls only ever add digests.
LEMMA CallStepKeepsPreload ==
  ASSUME TypeOK, TypeOK', PreloadOK, NEW c \in Calls, CallStep(c)
  PROVE  PreloadOK'
<1> USE DEF manager, redis, preloading
<1>1. UNCHANGED <<up, preload, allSuccess, report>> /\ scriptShas \subseteq scriptShas'
  BY DEF CallStep, EvalScript, Ask, Callback, OnLoaded, OnLoadFailed, OnResult, OnEvalError,
         RedisStep, LoadInRedis, RunInRedis, CommandFails
<1>2. QED
  BY <1>1 DEF PreloadOK, TypeOK

LEMMA PreloadInvariance == Spec => []PreloadOK
<1>1. Init => PreloadOK
  BY DEF Init, PreloadOK
<1>2. IInv /\ IInv' /\ PreloadOK /\ [Next]_vars => PreloadOK'
  <2> SUFFICES ASSUME IInv, IInv', PreloadOK, [Next]_vars PROVE PreloadOK'
    OBVIOUS
  <2>1. CASE Initialize
    BY <2>1 DEF Initialize, PreloadOK
  <2>2. CASE Death
    BY <2>2 DEF Death, ServerDies, InFlight, PreloadOK
  <2>3. CASE ScriptsForgotten
    BY <2>3 DEF ScriptsForgotten, manager, preloading, PreloadOK
  <2>4. CASE UNCHANGED vars
    BY <2>4 DEF vars, PreloadOK
  <2>5. QED
    BY <2>1, <2>2, <2>3, <2>4, NextSplit, PreloadStepOK, CallStepKeepsPreload DEF IInv
<1>3. QED
  BY <1>1, <1>2, Invariance, PTL DEF Spec

\* preloadAllScripts reports once all its loads have ended, and reports success only
\* when every digest is there, whatever else uses the manager meanwhile.
THEOREM PreloadReportsTruly == Spec => []PreloadReportedTruly
<1>1. PreloadOK => PreloadReportedTruly
  BY DEF PreloadOK, PreloadReportedTruly
<1>2. QED
  BY <1>1, PreloadInvariance, PTL

-----------------------------------------------------------------------------
(* The safety half of PreloadReported: the report is due when the last load ends, is made
   then and not a second time, and no load can go on for ever. *)

ReportMade == up /\ (\A s \in Scripts : preload[s] = "done") => report # "none"

ReportStands == up /\ up' /\ report # "none" => report' = report

\* How many steps a load has before it at most: the loop's, Redis', the callback's two.
stepsLeft(state) ==
  IF state = "unsent" THEN 4
  ELSE IF state = "pending" THEN 3
  ELSE IF state \in {"ok", "error"} THEN 2
  ELSE IF state = "counting" THEN 1
  ELSE 0

LoadsOnlyAdvance ==
  up /\ up' => \A s \in Scripts : \/ preload'[s] = preload[s]
                                 \/ stepsLeft(preload'[s]) < stepsLeft(preload[s])

\* The loads still to be counted are those the countdown has not reached: the step that
\* counts the last of them is the one that finds the counter at 1.
LEMMA LastLoadReports ==
  ASSUME TypeOK, Counted, NEW s \in Scripts, CountDown(s),
         \A o \in Scripts : preload'[o] = "done"
  PROVE  report' # "none"
<1>1. Unfinished = {s}
  BY DEF CountDown, Unfinished, TypeOK
<1>2. Cardinality({s}) = 1
  BY FS_Singleton
<1>3. counter = 1
  BY <1>1, <1>2 DEF CountDown, Counted
<1>4. QED
  BY <1>3 DEF CountDown

LEMMA PreloadStepReports ==
  ASSUME TypeOK, Counted, PreloadOK, NEW s \in Scripts, PreloadStep(s)
  PROVE  ReportMade' /\ ReportStands /\ LoadsOnlyAdvance
<1> USE DEF manager, redis
<1>1. up
  BY DEF PreloadStep, PreloadCallback, Preload, OnPreloaded, OnPreloadFailed, CountDown,
    PreloadInRedis, PreloadFails, Counted
<1>2. CASE CountDown(s)
  <2>1. preload' = [preload EXCEPT ![s] = "done"] /\ preload[s] = "counting"
    BY <1>2 DEF CountDown
  <2>2. report = "none"
    BY <1>1, <2>1 DEF PreloadOK
  <2>3. LoadsOnlyAdvance
    BY <2>1 DEF LoadsOnlyAdvance, stepsLeft, TypeOK
  <2>4. QED
    BY <1>2, <2>2, <2>3, LastLoadReports DEF ReportMade, ReportStands
<1>3. CASE ~CountDown(s)
  <2>1. report' = report
    BY <1>3 DEF PreloadStep, PreloadCallback, Preload, OnPreloaded, OnPreloadFailed,
      PreloadInRedis, PreloadFails
  <2>2. PICK state \in {"pending", "ok", "error", "counting"} :
          /\ preload' = [preload EXCEPT ![s] = state]
          /\ stepsLeft(state) < stepsLeft(preload[s])
    BY <1>3 DEF PreloadStep, PreloadCallback, Preload, OnPreloaded, OnPreloadFailed,
      PreloadInRedis, PreloadFails, stepsLeft
  <2>3. preload'[s] = state /\ \A o \in Scripts : o # s => preload'[o] = preload[o]
    BY <2>2 DEF TypeOK
  <2>4. QED
    BY <2>1, <2>2, <2>3 DEF ReportMade, ReportStands, LoadsOnlyAdvance
<1>4. QED
  BY <1>2, <1>3

\* preloadAllScripts calls back exactly once: when its last load has ended the report has
\* been made, it is not made again, and each load has ended after four steps
\* (RedisUtils::preloadAllScripts; the countdown runs on Redis' thread).
THEOREM PreloadReportsOnce ==
  Spec => []ReportMade /\ [][ReportStands /\ LoadsOnlyAdvance]_vars
<1>1. Init => ReportMade
  BY DEF Init, ReportMade
<1>2. IInv /\ PreloadOK /\ Next /\ ReportMade
        => ReportMade' /\ ReportStands /\ LoadsOnlyAdvance
  <2> SUFFICES ASSUME IInv, PreloadOK, Next, ReportMade
               PROVE  ReportMade' /\ ReportStands /\ LoadsOnlyAdvance
    OBVIOUS
  <2> USE DEF manager, redis, preloading
  <2>1. CASE Initialize
    <3>1. ~up /\ \A s \in Scripts : preload'[s] = "unsent"
      BY <2>1 DEF Initialize
    <3>2. QED
      BY <3>1, ConstantsOK DEF ConstantsOK, ReportMade, ReportStands, LoadsOnlyAdvance
  <2>2. CASE Death
    BY <2>2 DEF Death, ServerDies, ReportMade, ReportStands, LoadsOnlyAdvance
  <2>3. CASE UNCHANGED <<up, preload, report>>
    BY <2>3 DEF ReportMade, ReportStands, LoadsOnlyAdvance
  <2>4. CASE ScriptsForgotten
    BY <2>3, <2>4 DEF ScriptsForgotten
  <2>5. CASE \E c \in Calls : CallStep(c)
    BY <2>3, <2>5 DEF CallStep, EvalScript, Ask, Callback, OnLoaded, OnLoadFailed, OnResult,
      OnEvalError, RedisStep, LoadInRedis, RunInRedis, CommandFails
  <2>6. CASE \E s \in Scripts : PreloadStep(s)
    BY <2>6, PreloadStepReports DEF IInv
  <2>7. QED
    BY <2>1, <2>2, <2>4, <2>5, <2>6, NextSplit
<1>3. IInv /\ PreloadOK /\ ReportMade /\ [Next]_vars => ReportMade'
  BY <1>2 DEF vars, ReportMade
<1>4. IInv /\ PreloadOK /\ ReportMade /\ [Next]_vars => [ReportStands /\ LoadsOnlyAdvance]_vars
  BY <1>2
<1>5. QED
  BY <1>1, <1>3, <1>4, Invariance, PreloadInvariance, PTL DEF Spec

=============================================================================
