--------------------------- MODULE ScriptRegistry ---------------------------
(***************************************************************************)
(* How 20-mtcbb/httpserver runs Lua scripts in Redis: LuaScriptManager     *)
(* holds their sources and digests, RedisUtils::Initialize preloads them,  *)
(* and evalScript calls a script by its digest, loads it when there is no  *)
(* digest or when Redis has lost it, and starts over.                      *)
(*                                                                         *)
(* What a script does to its keys is not in here, only that it ran.        *)
(***************************************************************************)
EXTENDS Naturals, FiniteSets

CONSTANTS
  Scripts,    \* the scripts preloadAllScripts names
  Calls,      \* calls of evalScript, each made once
  MaxFaults   \* bound: how many faults happen in a behaviour

ASSUME ConstantsOK ==
  /\ IsFiniteSet(Scripts) /\ Scripts # {}
  /\ MaxFaults \in Nat

VARIABLES
  up,          \* Initialize has run in the server process
  script,      \* script_: the scripts whose file could be read
  scriptShas,  \* scriptShas_: the scripts whose digest is recorded
  cache,       \* the scripts Redis knows
  preload,     \* where preloadAllScripts is with each script
  counter,     \* its countdown
  allSuccess,  \* its flag
  report,      \* what it reported when the countdown ended
  call,        \* the calls of evalScript
  forgotten,   \* how often Redis lost its scripts
  faults       \* how many faults happened

vars == <<up, script, scriptShas, cache, preload, counter, allSuccess, report,
          call, forgotten, faults>>

-----------------------------------------------------------------------------
(* Calls. *)

Call ==
  [ pc     : {"idle", "load", "eval", "done", "lost"},
    script : Scripts,
    reply  : {"none", "pending", "ok", "error", "noscript"},
    answer : {"none", "result", "null"},
    source : BOOLEAN,   \* the manager had the script when the call was made
    failed : BOOLEAN,   \* Redis answered an error, other than NOSCRIPT
    since  : Nat,       \* forgotten, when the call was made
    loads  : Nat,       \* how often it sent SCRIPT LOAD
    runs   : Nat ]      \* how often its script ran

NewCall ==
  [ pc |-> "idle", script |-> CHOOSE s \in Scripts : TRUE, reply |-> "none",
    answer |-> "none", source |-> FALSE, failed |-> FALSE, since |-> 0,
    loads |-> 0, runs |-> 0 ]

Sent(c, pc) == call[c].pc = pc /\ call[c].reply = "pending"
Back(c, pc, reply) == call[c].pc = pc /\ call[c].reply = reply

Answered(q, what) == [q EXCEPT !.pc = "done", !.reply = "none", !.answer = what]

\* EVALSHA with the digest on record.
SendEval(q) == [q EXCEPT !.pc = "eval", !.reply = "pending"]

\* loadScriptToRedis: without a source it calls back with a failure, unasked.
LoadScript(q) ==
  IF q.script \in script
    THEN [q EXCEPT !.pc = "load", !.reply = "pending", !.loads = @ + 1]
    ELSE [q EXCEPT !.pc = "load", !.reply = "error"]

preloading == <<preload, counter, allSuccess, report>>
manager == <<script, scriptShas>>
redis == <<cache, forgotten>>

Fault == faults < MaxFaults /\ faults' = faults + 1

-----------------------------------------------------------------------------
(* RedisUtils::Initialize and preloadAllScripts. *)

\* Any of the files may be missing.
loadScriptsFromDirectory == SUBSET Scripts

\* The loop of preloadAllScripts has sent nothing yet.
Initialize ==
  /\ ~up
  /\ up' = TRUE
  /\ script' \in loadScriptsFromDirectory
  /\ scriptShas' = {}
  /\ preload' = [s \in Scripts |-> "unsent"]
  /\ counter' = Cardinality(Scripts)
  /\ allSuccess' = TRUE
  /\ report' = "none"
  /\ UNCHANGED <<redis, call, faults>>

\* One turn of the loop, in whatever order.  A script without a source fails in it.
Preload(s) ==
  /\ up /\ preload[s] = "unsent"
  /\ preload' = [preload EXCEPT ![s] = IF s \in script THEN "pending" ELSE "error"]
  /\ UNCHANGED <<up, manager, redis, counter, allSuccess, report, call, faults>>

\* The callback after SCRIPT LOAD records the digest.
OnPreloaded(s) ==
  /\ up /\ preload[s] = "ok"
  /\ scriptShas' = scriptShas \union {s}
  /\ preload' = [preload EXCEPT ![s] = "counting"]
  /\ UNCHANGED <<up, script, redis, counter, allSuccess, report, call, faults>>

\* Mutant: the failure is not noted.
OnPreloadFailedUnnoted(s) ==
  /\ up /\ preload[s] = "error"
  /\ preload' = [preload EXCEPT ![s] = "counting"]
  /\ UNCHANGED <<up, manager, redis, counter, allSuccess, report, call, faults>>

OnPreloadFailed(s) ==
  /\ up /\ preload[s] = "error"
  /\ allSuccess' = FALSE
  /\ preload' = [preload EXCEPT ![s] = "counting"]
  /\ UNCHANGED <<up, manager, redis, counter, report, call, faults>>

\* Mutants of CountDown: one load is counted again and again; the last one is not
\* recognised.
CountDownAgain(s) ==
  /\ up /\ preload[s] = "counting"
  /\ counter' = counter - 1
  /\ report' = IF counter = 1 THEN (IF allSuccess THEN "all" ELSE "some")
                              ELSE report
  /\ UNCHANGED <<up, manager, redis, preload, allSuccess, call, faults>>

CountDownPastTheEnd(s) ==
  /\ up /\ preload[s] = "counting"
  /\ preload' = [preload EXCEPT ![s] = "done"]
  /\ counter' = counter - 1
  /\ report' = IF counter = 0 THEN (IF allSuccess THEN "all" ELSE "some")
                              ELSE report
  /\ UNCHANGED <<up, manager, redis, allSuccess, call, faults>>

\* The callback ends with the countdown; the last one reports.
CountDown(s) ==
  /\ up /\ preload[s] = "counting"
  /\ preload' = [preload EXCEPT ![s] = "done"]
  /\ counter' = counter - 1
  /\ report' = IF counter = 1 THEN (IF allSuccess THEN "all" ELSE "some")
                              ELSE report
  /\ UNCHANGED <<up, manager, redis, allSuccess, call, faults>>

-----------------------------------------------------------------------------
(* RedisUtils::evalScript. *)

\* A digest is on its way into scriptShas_.  The map has no lock: a look-up by
\* another thread meanwhile may miss a digest that is there.
Inserting ==
  \/ \E s \in Scripts \ scriptShas : preload[s] = "ok"
  \/ \E c \in Calls : Back(c, "load", "ok") /\ call[c].script \notin scriptShas

\* evalScript looks the digest up and sends EVALSHA or SCRIPT LOAD.
Ask(c, s) ==
  LET q == [call[c] EXCEPT !.script = s, !.source = (s \in script),
                           !.since = forgotten] IN
  /\ call[c].pc = "idle"
  /\ \/ s \in scriptShas /\ call' = [call EXCEPT ![c] = SendEval(q)]
     \/ /\ s \notin scriptShas \/ Inserting
        /\ call' = [call EXCEPT ![c] = LoadScript(q)]
  /\ UNCHANGED <<up, manager, redis, preloading, faults>>

\* Requests come after the loop of preloadAllScripts: ServerStart says why.
EvalScript(c, s) == up /\ (\A o \in Scripts : preload[o] # "unsent") /\ Ask(c, s)

OnLoaded(c) ==
  /\ Back(c, "load", "ok")
  /\ scriptShas' = scriptShas \union {call[c].script}
  /\ call' = [call EXCEPT ![c] = SendEval(@)]
  /\ UNCHANGED <<up, script, redis, preloading, faults>>

OnLoadFailed(c) ==
  /\ Back(c, "load", "error")
  /\ call' = [call EXCEPT ![c] = Answered(@, "null")]
  /\ UNCHANGED <<up, manager, redis, preloading, faults>>

OnResult(c) ==
  /\ Back(c, "eval", "ok")
  /\ call' = [call EXCEPT ![c] = Answered(@, "result")]
  /\ UNCHANGED <<up, manager, redis, preloading, faults>>

\* Mutants of OnEvalError: every error is one to start over from; a script that
\* Redis lost is an error like any other; nobody hears of an error.
OnEvalErrorAlwaysReloads(c) ==
  /\ Back(c, "eval", "noscript") \/ Back(c, "eval", "error")
  /\ call' = [call EXCEPT ![c] = LoadScript(@)]
  /\ UNCHANGED <<up, manager, redis, preloading, faults>>

OnEvalErrorNeverReloads(c) ==
  /\ Back(c, "eval", "noscript") \/ Back(c, "eval", "error")
  /\ call' = [call EXCEPT ![c] = Answered(@, "null")]
  /\ UNCHANGED <<up, manager, redis, preloading, faults>>

OnEvalErrorUnanswered(c) ==
  /\ Back(c, "eval", "noscript")
  /\ call' = [call EXCEPT ![c] = LoadScript(@)]
  /\ UNCHANGED <<up, manager, redis, preloading, faults>>

\* Redis does not know the digest: load the script again and start over.
OnEvalError(c) ==
  /\ \/ /\ Back(c, "eval", "noscript")
        /\ call' = [call EXCEPT ![c] = LoadScript(@)]
     \/ /\ Back(c, "eval", "error")
        /\ call' = [call EXCEPT ![c] = Answered(@, "null")]
  /\ UNCHANGED <<up, manager, redis, preloading, faults>>

-----------------------------------------------------------------------------
(* Redis executes the commands. *)

PreloadInRedis(s) ==
  /\ preload[s] = "pending"
  /\ cache' = cache \union {s}
  /\ \/ preload' = [preload EXCEPT ![s] = "ok"] /\ UNCHANGED faults
     \/ preload' = [preload EXCEPT ![s] = "error"] /\ Fault
  /\ UNCHANGED <<up, manager, forgotten, counter, allSuccess, report, call>>

LoadInRedis(c) ==
  /\ Sent(c, "load")
  /\ cache' = cache \union {call[c].script}
  /\ \/ /\ call' = [call EXCEPT ![c] = [@ EXCEPT !.reply = "ok"]]
        /\ UNCHANGED faults
     \/ /\ call' = [call EXCEPT ![c] = [@ EXCEPT !.reply = "error", !.failed = TRUE]]
        /\ Fault
  /\ UNCHANGED <<up, manager, forgotten, preloading>>

\* A script runs to its end or to an error of its own.
Executed(q) ==
  { [q EXCEPT !.reply = "ok", !.runs = @ + 1],
    [q EXCEPT !.reply = "error", !.runs = @ + 1, !.failed = TRUE] }

RunInRedis(c) ==
  /\ Sent(c, "eval")
  /\ \/ /\ call[c].script \notin cache
        /\ call' = [call EXCEPT ![c] = [@ EXCEPT !.reply = "noscript"]]
     \/ /\ call[c].script \in cache
        /\ \E q \in Executed(call[c]) : call' = [call EXCEPT ![c] = q]
  /\ UNCHANGED <<up, manager, redis, preloading, faults>>

\* A command fails without effect.
PreloadFails(s) ==
  /\ preload[s] = "pending"
  /\ preload' = [preload EXCEPT ![s] = "error"]
  /\ Fault
  /\ UNCHANGED <<up, manager, redis, counter, allSuccess, report, call>>

CommandFails(c) ==
  /\ Sent(c, "load") \/ Sent(c, "eval")
  /\ call' = [call EXCEPT ![c] = [@ EXCEPT !.reply = "error", !.failed = TRUE]]
  /\ Fault
  /\ UNCHANGED <<up, manager, redis, preloading>>

\* Redis restarts, or somebody flushes its scripts.
ScriptsForgotten ==
  /\ cache # {}
  /\ cache' = {}
  /\ forgotten' = forgotten + 1
  /\ Fault
  /\ UNCHANGED <<up, manager, preloading, call>>

-----------------------------------------------------------------------------
(* The process. *)

InFlight(c) == call[c].pc \in {"load", "eval"}

\* What it knew of the scripts goes with it.
ServerDies ==
  /\ up' = FALSE
  /\ script' = {} /\ scriptShas' = {}
  /\ preload' = [s \in Scripts |-> "done"]
  /\ counter' = 0 /\ allSuccess' = TRUE /\ report' = "none"
  /\ call' = [c \in Calls |-> IF InFlight(c)
                                THEN [call[c] EXCEPT !.pc = "lost", !.reply = "none"]
                                ELSE call[c]]
  /\ UNCHANGED redis

Crash == up /\ ServerDies /\ Fault

\* The process gives up before it has taken a request.
Stop == up /\ (\A c \in Calls : ~InFlight(c)) /\ ServerDies /\ UNCHANGED faults

\* The wrappers read a number or an array out of RedisResult(nullptr): undefined
\* behaviour.  The other outcome, some value, is OnLoadFailed or OnEvalError.
NullResultCrash(c) ==
  /\ Back(c, "load", "error") \/ Back(c, "eval", "error")
  /\ ServerDies
  /\ Fault

-----------------------------------------------------------------------------

Init ==
  /\ up = FALSE
  /\ script = {} /\ scriptShas = {} /\ cache = {}
  /\ preload = [s \in Scripts |-> "done"]
  /\ counter = 0 /\ allSuccess = TRUE /\ report = "none"
  /\ call = [c \in Calls |-> NewCall]
  /\ forgotten = 0 /\ faults = 0

PreloadCallback(s) ==
  Preload(s) \/ OnPreloaded(s) \/ OnPreloadFailed(s) \/ CountDown(s)
Callback(c) == OnLoaded(c) \/ OnLoadFailed(c) \/ OnResult(c) \/ OnEvalError(c)
RedisStep(c) == LoadInRedis(c) \/ RunInRedis(c)

Next ==
  \/ Initialize \/ Crash \/ Stop \/ ScriptsForgotten
  \/ \E s \in Scripts : PreloadCallback(s) \/ PreloadInRedis(s) \/ PreloadFails(s)
  \/ \E c \in Calls :
       \/ \E s \in Scripts : EvalScript(c, s)
       \/ Callback(c) \/ RedisStep(c) \/ CommandFails(c) \/ NullResultCrash(c)

Spec == Init /\ [][Next]_vars

\* Redis answers, and the loops run the callbacks.
Fairness ==
  /\ \A s \in Scripts : WF_vars(PreloadCallback(s)) /\ WF_vars(PreloadInRedis(s))
  /\ \A c \in Calls : WF_vars(Callback(c)) /\ WF_vars(RedisStep(c))

FairSpec == Spec /\ Fairness

-----------------------------------------------------------------------------
(* Properties. *)

\* Type correctness of the manager, the preload and the calls.
TypeOK ==
  /\ up \in BOOLEAN
  /\ script \subseteq Scripts /\ scriptShas \subseteq Scripts
  /\ cache \subseteq Scripts
  /\ preload \in [Scripts -> {"unsent", "pending", "ok", "error", "counting", "done"}]
  /\ counter \in 0 .. Cardinality(Scripts)
  /\ allSuccess \in BOOLEAN
  /\ report \in {"none", "all", "some"}
  /\ call \in [Calls -> Call]
  /\ forgotten \in 0 .. MaxFaults /\ faults \in 0 .. MaxFaults

\* preloadAllScripts reports after the last of its loads, in whatever order and on
\* whichever threads they end, and reports success only if every script's digest is
\* on record.
PreloadReportedTruly ==
  up /\ report # "none" =>
    /\ \A s \in Scripts : preload[s] = "done"
    /\ report = "all" => scriptShas = Scripts

\* A script that Redis lost, however often, costs no call its answer: only a missing
\* source or an error of Redis or of the script gives a caller the null result.
LossIsRecovered ==
  \A c \in Calls : call[c].answer = "null" => call[c].failed \/ ~call[c].source

\* evalScript does not load and repeat for ever on its own account: it loads once,
\* and once more for every time Redis lost its scripts since the call was made.
ReloadsHaveReason ==
  \A c \in Calls : call[c].loads + call[c].since <= forgotten + 1

CallsOf == INSTANCE ScriptCalls
  WITH asked <- {c \in Calls : call[c].pc # "idle"},
       runs <- [c \in Calls |-> call[c].runs],
       answers <- [c \in Calls |-> call[c].answer]

\* Whatever is lost, repeated or delayed, a script runs at most once per call and a
\* call gets one answer, a result only if its script ran.
CallsSpec == CallsOf!Spec

\* And it does report, unless the server dies first.
PreloadReported == up ~> report # "none" \/ ~up

\* Each path of the nested callbacks of evalScript and loadScriptToRedis ends in the
\* caller's callback, or the server dies.
EveryCallSettled ==
  \A c \in Calls : call[c].pc # "idle" ~> call[c].pc \in {"done", "lost"}

=============================================================================
