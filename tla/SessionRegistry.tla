--------------------------- MODULE SessionRegistry ---------------------------
(***************************************************************************)
(* What SystemService and AuthFilter promise together about SSO sessions,  *)
(* with no keys, commands or callbacks in it: a session is made once, for  *)
(* one user and under an account token that was issued; every write of it  *)
(* gives it one lifetime from that moment; it goes off the record when     *)
(* that is over, or with all others; and a visit is let in only after its  *)
(* session was found on record and alive.  Between the two the session may *)
(* end and the visit may be abandoned.  SystemSession implements this      *)
(* specification.                                                          *)
(***************************************************************************)
EXTENDS Naturals

CONSTANTS
  Users,      \* user names
  Tokens,     \* account tokens
  Cookies,    \* what a session is known by
  Visits,     \* the requests a session is presented in
  Lifetime,   \* how long a session lives from the last time it is written
  MaxTime     \* bound: the last instant of the clock

VARIABLES
  issued,     \* the account tokens
  made,       \* every session ever made
  sessions,   \* the ones on record, with their ends
  decided,    \* visits whose session was found alive, still to be let in
  admitted,   \* visits that were let in
  time

vars == <<issued, made, sessions, decided, admitted, time>>

Session == [cookie : Cookies, token : Tokens, user : Users]
Pass == [visit : Visits, cookie : Cookies, token : Tokens]

\* A session as it is on record.
Until(s, end) == [cookie |-> s.cookie, token |-> s.token, user |-> s.user, until |-> end]

PassFor(v, g) == [visit |-> v, cookie |-> g.cookie, token |-> g.token]

TypeOK ==
  /\ issued \subseteq Tokens
  /\ made \subseteq Session
  /\ sessions \subseteq {Until(s, end) : s \in made, end \in 0 .. (MaxTime + Lifetime)}
  /\ decided \subseteq Pass /\ admitted \subseteq Pass
  /\ time \in 0 .. MaxTime

Init ==
  /\ issued = {} /\ made = {} /\ sessions = {}
  /\ decided = {} /\ admitted = {}
  /\ time = 0

Issue(t) ==
  /\ t \notin issued
  /\ issued' = issued \union {t}
  /\ UNCHANGED <<made, sessions, decided, admitted, time>>

Make(s) ==
  /\ s.token \in issued
  /\ \A m \in made : m.cookie # s.cookie
  /\ made' = made \union {s}
  /\ UNCHANGED <<issued, sessions, decided, admitted, time>>

Write(s) ==
  /\ sessions' = {g \in sessions : g.cookie # s.cookie} \union {Until(s, time + Lifetime)}
  /\ UNCHANGED <<issued, made, decided, admitted, time>>

Drop(g) ==
  /\ g.until < time
  /\ sessions' = sessions \ {g}
  /\ UNCHANGED <<issued, made, decided, admitted, time>>

LoseAll ==
  /\ sessions' = {}
  /\ UNCHANGED <<issued, made, decided, admitted, time>>

Decide(v, g) ==
  /\ time <= g.until
  /\ decided' = decided \union {PassFor(v, g)}
  /\ UNCHANGED <<issued, made, sessions, admitted, time>>

Admit(p) ==
  /\ decided' = decided \ {p}
  /\ admitted' = admitted \union {p}
  /\ UNCHANGED <<issued, made, sessions, time>>

Abandon ==
  /\ decided' = {}
  /\ UNCHANGED <<issued, made, sessions, admitted, time>>

Tick ==
  /\ time < MaxTime
  /\ time' = time + 1
  /\ UNCHANGED <<issued, made, sessions, decided, admitted>>

Next ==
  \/ \E t \in Tokens : Issue(t)
  \/ \E s \in Session : Make(s)
  \/ \E s \in made : Write(s)
  \/ \E g \in sessions : Drop(g)
  \/ LoseAll
  \/ \E v \in Visits, g \in sessions : Decide(v, g)
  \/ \E p \in decided : Admit(p)
  \/ Abandon
  \/ Tick

Spec == Init /\ [][Next]_vars

=============================================================================
