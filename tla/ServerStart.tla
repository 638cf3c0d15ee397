----------------------------- MODULE ServerStart -----------------------------
(***************************************************************************)
(* main of 20-mtcbb/httpserver: the beginning advice that initialises      *)
(* RedisUtils, TokenCleanupService and ServiceContainer, and the requests  *)
(* that call a script through the services, or meet none.                  *)
(*                                                                         *)
(* ScriptRegistry takes for granted that requests come after the preload.  *)
(* Here that follows from the order of the advice's steps.                 *)
(***************************************************************************)
EXTENDS ScriptRegistry, ApiLevel

VARIABLES
  stage,      \* where the advice is
  services,   \* ServiceContainer has its services
  failed      \* the advice gave up and told Drogon to quit

start == <<stage, services, failed>>
allVars == <<vars, start>>

-----------------------------------------------------------------------------
(* main. *)

\* run.  Versions of Drogon differ in whether they listen before they run the advice, so
\* requests may come from now on.
Run ==
  /\ stage = "down"
  /\ stage' = "redis"
  /\ UNCHANGED <<vars, services, failed>>

\* Mutant: the failure is logged and no more.
GiveUpQuietly == stage' = "over" /\ UNCHANGED <<services, failed>>

\* quit is only noted: the advice returns to Drogon, which goes on for now.
GiveUp == stage' = "over" /\ failed' = TRUE /\ UNCHANGED services

\* Initialize gets its Redis client and begins the preload, or throws.
InitializeRedis ==
  /\ stage = "redis"
  /\ \/ /\ Initialize
        /\ stage' = "cleanup"
        /\ UNCHANGED <<services, failed>>
     \/ GiveUp /\ UNCHANGED vars

\* The loop of preloadAllScripts has ended.
Looped == \A s \in Scripts : preload[s] # "unsent"

\* Mutant: without the cleanup the advice ends, and nobody quits.
InitializeCleanupOrReturn ==
  /\ stage = "cleanup" /\ Looped
  /\ stage' \in {"container", "over"}
  /\ UNCHANGED <<vars, services, failed>>

\* TokenCleanupService subscribes or throws: main logs that and goes on.
InitializeCleanup ==
  /\ stage = "cleanup" /\ Looped
  /\ stage' = "container"
  /\ UNCHANGED <<vars, services, failed>>

\* Mutant: the services come first.
InitializeServicesFirst ==
  /\ stage # "down" /\ ~services
  /\ services' = TRUE
  /\ stage' = IF stage = "container" THEN "over" ELSE stage
  /\ UNCHANGED <<vars, failed>>

\* ServiceContainer::initialize throws, if at all, before it has made a service.
InitializeServices ==
  /\ stage = "container"
  /\ \/ stage' = "over" /\ services' = TRUE /\ UNCHANGED failed
     \/ GiveUp
  /\ UNCHANGED vars

-----------------------------------------------------------------------------
(* The end of the process. *)

Ends ==
  /\ stage # "down" /\ stage' = "down"
  /\ services' = FALSE /\ failed' = FALSE

\* It ends without a fault of the world's.  Where it does there are no services, and so
\* no call is in flight (StartOK).
GoesDown == Ends /\ IF up THEN Stop ELSE UNCHANGED vars

Killed == Ends /\ IF up THEN Crash ELSE UNCHANGED vars

\* quit is carried out by the loop, when the advice has returned to it.
Quit == failed /\ GoesDown

\* getService hands out a null pointer and the controller calls through it: undefined
\* behaviour, and at a virtual function the end of the process.
NullService == ~services /\ GoesDown

NullResult(c) == NullResultCrash(c) /\ Ends

-----------------------------------------------------------------------------

\* A request finds its service, which calls a script.
Request(c, s) == services /\ Ask(c, s) /\ UNCHANGED start

PreloadAdvances(s) == PreloadCallback(s) /\ UNCHANGED start
CallAdvances(c) == Callback(c) /\ UNCHANGED start
RedisPreloads(s) == PreloadInRedis(s) /\ UNCHANGED start
RedisAnswers(c) == RedisStep(c) /\ UNCHANGED start

ServerInit ==
  /\ Init
  /\ stage = "down" /\ services = FALSE
  /\ failed = FALSE

Advice == InitializeRedis \/ InitializeCleanup \/ InitializeServices

ServerNext ==
  \/ Run \/ Advice \/ Killed \/ Quit \/ NullService
  \/ ScriptsForgotten /\ UNCHANGED start
  \/ \E s \in Scripts :
       \/ PreloadAdvances(s) \/ RedisPreloads(s)
       \/ PreloadFails(s) /\ UNCHANGED start
  \/ \E c \in Calls :
       \/ \E s \in Scripts : Request(c, s)
       \/ CallAdvances(c) \/ RedisAnswers(c) \/ NullResult(c)
       \/ CommandFails(c) /\ UNCHANGED start

ServerSpec == ServerInit /\ [][ServerNext]_allVars

\* Drogon runs the advice and carries a quit out; Redis and the loops as before.
ServerFairness ==
  /\ WF_allVars(Advice) /\ WF_allVars(Quit)
  /\ \A s \in Scripts : WF_allVars(PreloadAdvances(s)) /\ WF_allVars(RedisPreloads(s))
  /\ \A c \in Calls : WF_allVars(CallAdvances(c)) /\ WF_allVars(RedisAnswers(c))

FairServerSpec == ServerSpec /\ ServerFairness

-----------------------------------------------------------------------------
(* Properties. *)

\* Type correctness of the start-up, and what its stages stand on: services on a
\* RedisUtils whose preload has been sent, loads in flight on that RedisUtils, calls in
\* flight on services.  SystemController relies on the advice being over when a request
\* asks for a service: once it is, there are services, or the start-up has failed and the
\* process is about to quit.
StartOK ==
  /\ services \in BOOLEAN /\ failed \in BOOLEAN
  /\ stage \in {"down", "redis", "cleanup", "container", "over"}
  /\ stage \in {"down", "redis"} => ~up
  /\ stage \in {"cleanup", "container"} \/ services => up
  /\ stage \in {"container", "over"} => Looped
  /\ services \/ failed <=> stage = "over"
  /\ ~services \/ ~failed
  /\ ~up => \A s \in Scripts : preload[s] = "done"
  /\ ~services => \A c \in Calls : ~InFlight(c)

\* Whatever main does and whenever requests come, ScriptRegistry's own assumptions about
\* its surroundings are met: a call of a script comes after RedisUtils::Initialize and
\* the loop of its preload, in this process.
RegistrySpec == Spec

\* Whichever of the three initialisations fails, the process ends up serving, or down.
StartUpEnds == stage # "down" ~> stage = "down" \/ services

\* From the first request, which may come before anything is initialised, and whatever its
\* header says: the level is a positive int, a plain number within range is taken as it
\* stands, and it comes to the platform's level.
LevelIsLegal ==
  stage = "redis" =>
    \A h \in Header(0 .. IntMax + 2) :
      /\ Level(h) \in 1 .. IntMax
      /\ Plain(h) /\ h.digits \in 1 .. IntMax => Level(h) = h.digits
      /\ effectiveLevel(Level(h)) = kPlatformLevel

=============================================================================
