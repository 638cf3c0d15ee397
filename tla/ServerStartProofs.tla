-------------------------- MODULE ServerStartProofs --------------------------
(***************************************************************************)
(* That the start-up keeps ScriptRegistry's assumptions, so that whatever  *)
(* is proved of ScriptRegistry holds of the server as it is started.       *)
(***************************************************************************)
EXTENDS ServerStart, ScriptRegistryProofs

-----------------------------------------------------------------------------
(* Every step is one of ScriptRegistry's. *)

\* The steps of the advice, of a process' end, and of the scripts.
End == Killed \/ Quit \/ NullService \/ \E c \in Calls : NullResult(c)

ScriptStep ==
  /\ UNCHANGED start
  /\ \/ ScriptsForgotten
     \/ \E s \in Scripts : PreloadCallback(s) \/ PreloadInRedis(s) \/ PreloadFails(s)
     \/ \E c \in Calls : Callback(c) \/ RedisStep(c) \/ CommandFails(c)

LEMMA ServerSplit ==
  ASSUME ServerNext
  PROVE  \/ Run \/ Advice \/ End \/ ScriptStep
         \/ \E c \in Calls, s \in Scripts : Request(c, s)
BY DEF ServerNext, End, ScriptStep, PreloadAdvances, RedisPreloads, CallAdvances,
       RedisAnswers

LEMMA EndMaps ==
  ASSUME End
  PROVE  [Next]_vars
<1>1. Killed \/ Quit \/ NullService => Crash \/ Stop \/ UNCHANGED vars
  BY DEF Killed, Quit, NullService, GoesDown
<1>2. QED
  BY <1>1 DEF End, NullResult, Next

LEMMA StepMaps ==
  ASSUME TypeOK, StartOK, [ServerNext]_allVars
  PROVE  [Next]_vars
<1>1. CASE Run
  BY <1>1 DEF Run
<1>2. CASE Advice
  BY <1>2 DEF Advice, InitializeRedis, InitializeCleanup, InitializeServices, Next
<1>3. CASE End
  BY <1>3, EndMaps
<1>4. CASE ScriptStep
  BY <1>4 DEF ScriptStep, Next
<1>5. CASE \E c \in Calls, s \in Scripts : Request(c, s)
  BY <1>5 DEF Request, EvalScript, StartOK, Looped, Next
<1>6. CASE UNCHANGED allVars
  BY <1>6 DEF allVars
<1>7. QED
  BY <1>1, <1>2, <1>3, <1>4, <1>5, <1>6, ServerSplit

-----------------------------------------------------------------------------
(* The start-up. *)

LEMMA EndOK ==
  ASSUME TypeOK, StartOK, End
  PROVE  StartOK'
<1>1. Ends /\ (ServerDies \/ (~up /\ UNCHANGED vars))
  <2>1. Killed => Ends /\ (Crash \/ (~up /\ UNCHANGED vars))
    BY ZenonT(30) DEF Killed
  <2>2. Quit \/ NullService => Ends /\ (Stop \/ (~up /\ UNCHANGED vars))
    BY ZenonT(30) DEF Quit, NullService, GoesDown
  <2>3. (\E c \in Calls : NullResult(c)) => Ends /\ ServerDies
    BY ZenonT(30) DEF NullResult, NullResultCrash
  <2>4. Crash \/ Stop => ServerDies
    BY ZenonT(30) DEF Crash, Stop
  <2>5. QED
    BY <2>1, <2>2, <2>3, <2>4, ZenonT(30) DEF End
<1>2. /\ stage' = "down" /\ ~up' /\ ~services' /\ ~failed'
      /\ services' \in BOOLEAN /\ failed' \in BOOLEAN
  <2>1. stage' = "down" /\ services' = FALSE /\ failed' = FALSE
    BY <1>1 DEF Ends
  <2>2. ~up'
    BY <1>1 DEF ServerDies, vars
  <2>3. QED
    BY ONLY <2>1, <2>2, Zenon
<1>3. \A s \in Scripts : preload'[s] = "done"
  BY <1>1 DEF ServerDies, vars, StartOK
<1>4. \A c \in Calls : ~InFlight(c)'
  <2>1. CASE ServerDies
    BY <2>1 DEF ServerDies, InFlight, TypeOK, Call
  <2>2. CASE ~up /\ UNCHANGED vars
    BY <2>2 DEF vars, InFlight, StartOK
  <2>3. QED
    BY <1>1, <2>1, <2>2
<1>5. QED
  BY <1>2, <1>3, <1>4 DEF StartOK

LEMMA TrueIsBoolean == TRUE \in BOOLEAN /\ FALSE \in BOOLEAN
OBVIOUS

LEMMA AdviceOK ==
  ASSUME TypeOK, Counted, StartOK, Advice
  PROVE  StartOK'
<1>1. CASE InitializeRedis
  <2>1. /\ ~up /\ ~services /\ ~failed /\ \A s \in Scripts : preload[s] = "done"
        /\ \A c \in Calls : ~InFlight(c)
    BY <1>1 DEF InitializeRedis, StartOK
  <2>2. CASE Initialize /\ stage' = "cleanup" /\ UNCHANGED <<services, failed>>
    BY <2>1, <2>2 DEF Initialize, StartOK, InFlight
  <2>3. CASE GiveUp /\ UNCHANGED vars
    BY <2>1, <2>3, TrueIsBoolean DEF GiveUp, StartOK, Looped, InFlight, vars
  <2>4. QED
    BY <1>1, <2>2, <2>3 DEF InitializeRedis
<1>2. CASE InitializeCleanup
  BY <1>2 DEF InitializeCleanup, StartOK, Looped, InFlight, vars
<1>3. CASE InitializeServices
  <2>1. /\ up /\ Looped /\ ~services /\ ~failed /\ \A c \in Calls : ~InFlight(c)
        /\ services \in BOOLEAN /\ failed \in BOOLEAN /\ stage' = "over"
        /\ UNCHANGED vars
    BY <1>3 DEF InitializeServices, GiveUp, StartOK
  <2>2. CASE services' = TRUE /\ UNCHANGED failed
    BY <2>1, <2>2, TrueIsBoolean DEF StartOK, Looped, InFlight, vars
  <2>3. CASE GiveUp
    BY <2>1, <2>3, TrueIsBoolean DEF GiveUp, StartOK, Looped, InFlight, vars
  <2>4. QED
    BY <1>3, <2>2, <2>3 DEF InitializeServices
<1>4. QED
  BY <1>1, <1>2, <1>3 DEF Advice

LEMMA ScriptStepOK ==
  ASSUME TypeOK, Counted, StartOK, ScriptStep
  PROVE  StartOK'
<1>1. UNCHANGED <<stage, services, failed>>
  BY DEF ScriptStep, start
<1>2. up' = up /\ (Looped => Looped') /\ (~up => preload' = preload)
  <2>1. CASE ScriptsForgotten
    BY <2>1 DEF ScriptsForgotten, manager, preloading, Looped
  <2>2. CASE \E s \in Scripts : PreloadCallback(s) \/ PreloadInRedis(s) \/ PreloadFails(s)
    BY <2>2 DEF PreloadCallback, Preload, OnPreloaded, OnPreloadFailed, CountDown,
       PreloadInRedis, PreloadFails, TypeOK, Looped, StartOK
  <2>3. CASE \E c \in Calls : Callback(c) \/ RedisStep(c) \/ CommandFails(c)
    BY <2>3 DEF Callback, OnLoaded, OnLoadFailed, OnResult, OnEvalError, RedisStep,
       LoadInRedis, RunInRedis, CommandFails, preloading, Looped
  <2>4. QED
    BY <2>1, <2>2, <2>3 DEF ScriptStep
<1>3. (\A c \in Calls : ~InFlight(c)) => call' = call
  <2>1. CASE ScriptsForgotten
    BY <2>1 DEF ScriptsForgotten
  <2>2. CASE \E s \in Scripts : PreloadCallback(s) \/ PreloadInRedis(s) \/ PreloadFails(s)
    BY <2>2 DEF PreloadCallback, Preload, OnPreloaded, OnPreloadFailed, CountDown,
       PreloadInRedis, PreloadFails
  <2>3. ASSUME NEW c \in Calls, Callback(c) \/ RedisStep(c) \/ CommandFails(c)
        PROVE  InFlight(c)
    BY <2>3 DEF Callback, OnLoaded, OnLoadFailed, OnResult, OnEvalError, RedisStep,
       LoadInRedis, RunInRedis, CommandFails, Back, Sent, InFlight
  <2>4. QED
    BY <2>1, <2>2, <2>3 DEF ScriptStep
<1>4. QED
  BY <1>1, <1>2, <1>3 DEF StartOK, InFlight

LEMMA RequestOK ==
  ASSUME TypeOK, StartOK, NEW c \in Calls, NEW s \in Scripts, Request(c, s)
  PROVE  StartOK'
<1>1. services /\ UNCHANGED start /\ UNCHANGED <<up, preload>>
  BY DEF Request, Ask, preloading
<1>2. QED
  BY <1>1 DEF StartOK, start, Looped

StartInv == TypeOK /\ Counted /\ StartOK

LEMMA StartInvariance == ServerSpec => []StartInv
<1>1. ServerInit => StartInv
  <2> SUFFICES ASSUME ServerInit PROVE StartInv
    OBVIOUS
  <2>1. /\ up = FALSE /\ stage = "down" /\ services = FALSE /\ failed = FALSE
        /\ Init /\ \A s \in Scripts : preload[s] = "done"
    BY DEF ServerInit, Init
  <2>2. \A c \in Calls : ~InFlight(c)
    BY <2>1 DEF Init, NewCall, InFlight
  <2>3. QED
    BY <2>1, <2>2, InitTypeOK, TrueIsBoolean DEF StartInv, StartOK
<1>2. StartInv /\ [ServerNext]_allVars => StartInv'
  <2> SUFFICES ASSUME StartInv, [ServerNext]_allVars PROVE StartInv'
    OBVIOUS
  <2>1. TypeOK' /\ Counted'
    BY StepMaps, TypeStep DEF StartInv
  <2>2. StartOK'
    <3>1. CASE Run
      BY <3>1 DEF Run, StartInv, StartOK, Looped, InFlight, vars
    <3>2. CASE UNCHANGED allVars
      BY <3>2 DEF allVars, start, StartInv, StartOK, Looped, InFlight, vars
    <3>3. QED
      BY <3>1, <3>2, ServerSplit, EndOK, AdviceOK, ScriptStepOK, RequestOK DEF StartInv
  <2>3. QED
    BY <2>1, <2>2 DEF StartInv
<1>3. QED
  BY <1>1, <1>2, PTL DEF ServerSpec

\* The stages of main's advice keep the order in which they build on one another, and the
\* services are there once it is over, unless it has failed.
THEOREM StartUpInOrder == ServerSpec => []StartOK
<1>1. StartInv => StartOK
  BY DEF StartInv
<1>2. QED
  BY <1>1, StartInvariance, PTL

\* However main is started, stopped or interrupted, ScriptRegistry's assumptions about
\* its surroundings are met.
THEOREM ImplementsRegistry == ServerSpec => RegistrySpec
<1>1. ServerInit => Init
  BY DEF ServerInit
<1>2. StartInv /\ [ServerNext]_allVars => [Next]_vars
  BY StepMaps DEF StartInv
<1>3. QED
  BY <1>1, <1>2, StartInvariance, PTL DEF ServerSpec, RegistrySpec, Spec

\* So the server, as main starts it, runs scripts as its callers are promised.
COROLLARY ServerRunsScriptsWell ==
  ServerSpec => /\ CallsSpec
                /\ [](PreloadReportedTruly /\ LossIsRecovered /\ ReloadsHaveReason)
BY ImplementsRegistry, ImplementsCalls, PreloadReportsTruly, LossesAreRecovered,
   ReloadsAreReasoned, PTL DEF RegistrySpec

-----------------------------------------------------------------------------
(* The level of the API. *)

\* For an int of any width and any header: a positive int, the header's own number when it
\* is a plain one, never more than the platform's in effect.
THEOREM LevelsAreLegal ==
  ASSUME NEW h \in Header(Nat)
  PROVE  /\ Level(h) \in 1 .. IntMax
         /\ Plain(h) /\ h.digits \in 1 .. IntMax => Level(h) = h.digits
         /\ effectiveLevel(Level(h)) = kPlatformLevel
<1>1. h.digits \in Int /\ h.sign \in {"none", "plus", "minus"}
  <2>1. h.sign \in {"none", "plus", "minus"} /\ (h.digits \in Nat \/ h.digits = NoDigits)
    BY ZenonT(30) DEF Header
  <2>2. NoDigits \in Int /\ \A n \in Nat : n \in Int
    BY DEF NoDigits
  <2>3. QED
    BY <2>1, <2>2, ZenonT(30)
<1> DEFINE value == IF h.sign = "minus" THEN -h.digits ELSE h.digits
<1>2. stoi(h) = {n \in -IntMax - 1 .. IntMax : h.digits # NoDigits /\ n = value}
  BY DEF stoi
<1>3. IntMax \in Nat /\ 1 <= IntMax /\ value \in Int
  <2>1. -h.digits \in Int
    BY <1>1
  <2>2. QED
    BY <1>1, <2>1, IntMaxOK
<1>4. CASE \E n \in stoi(h) : n > 0
  <2>1. stoi(h) = {value} /\ value \in 1 .. IntMax
    BY <1>2, <1>3, <1>4
  <2>2. Level(h) = value
    BY <1>4, <2>1 DEF Level
  <2>3. Plain(h) => value = h.digits
    BY DEF Plain
  <2>4. effectiveLevel(value) = kPlatformLevel
    BY <1>3, <2>1 DEF effectiveLevel, kPlatformLevel
  <2>5. QED
    BY <2>1, <2>2, <2>3, <2>4
<1>5. CASE ~ \E n \in stoi(h) : n > 0
  <2>1. Level(h) = 1
    BY <1>5 DEF Level, kDefaultLevel
  <2>2. ~(Plain(h) /\ h.digits \in 1 .. IntMax)
    <3>1. SUFFICES ASSUME Plain(h), h.digits \in 1 .. IntMax PROVE FALSE
      OBVIOUS
    <3>2. value = h.digits /\ h.digits # NoDigits
      BY <3>1 DEF Plain
    <3>3. h.digits \in stoi(h) /\ h.digits > 0
      BY <1>2, <1>3, <3>1, <3>2
    <3>4. QED
      BY <1>5, <3>3
  <2>3. QED
    BY <1>3, <2>1, <2>2 DEF effectiveLevel, kPlatformLevel
<1>6. QED
  BY <1>4, <1>5

=============================================================================
