----------------------------- MODULE ScriptCalls -----------------------------
(***************************************************************************)
(* What RedisUtils::evalScript promises its callers: a script runs at most *)
(* once per call, a call is answered at most once, and a result is only    *)
(* answered after the script ran.  ScriptRegistry, with its digests, loads *)
(* and repetitions, implements this specification.                         *)
(***************************************************************************)
EXTENDS Naturals

CONSTANT Calls

VARIABLES
  asked,      \* the calls that were made
  runs,       \* how often the script of a call ran
  answers     \* what a call was answered

vars == <<asked, runs, answers>>

Init ==
  /\ asked = {}
  /\ runs = [c \in Calls |-> 0]
  /\ answers = [c \in Calls |-> "none"]

Ask(c) ==
  /\ c \notin asked
  /\ asked' = asked \union {c}
  /\ UNCHANGED <<runs, answers>>

Run(c) ==
  /\ c \in asked /\ runs[c] = 0 /\ answers[c] = "none"
  /\ runs' = [runs EXCEPT ![c] = 1]
  /\ UNCHANGED <<asked, answers>>

Answer(c) ==
  /\ c \in asked /\ answers[c] = "none"
  /\ \/ runs[c] = 1 /\ answers' = [answers EXCEPT ![c] = "result"]
     \/ answers' = [answers EXCEPT ![c] = "null"]
  /\ UNCHANGED <<asked, runs>>

Next == \E c \in Calls : Ask(c) \/ Run(c) \/ Answer(c)

Spec == Init /\ [][Next]_vars

=============================================================================
