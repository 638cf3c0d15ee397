---------------------------- MODULE TokenRegistry ----------------------------
(***************************************************************************)
(* What UserService promises about user tokens, with no stores, callbacks, *)
(* faults or crashes in it: a token is made once, for one user and one     *)
(* lifetime; only a granted token admits, only its user, only while it is  *)
(* alive; and a grant is withdrawn only when its lifetime is over.         *)
(* TokenLifecycle implements this specification.                           *)
(***************************************************************************)
EXTENDS Naturals

CONSTANTS
  Users,      \* user ids
  Tokens,     \* token values
  Visits,     \* the requests a token is presented in
  Lifetime,   \* how long a token lives from the moment it is made
  MaxTime     \* bound: the last instant of the clock

VARIABLES
  made,       \* every token ever made, with its user and its expiry
  grants,     \* the ones that are on record
  admitted,   \* who was let in, in which visit and with which token
  time

vars == <<made, grants, admitted, time>>

Grants == [token : Tokens, user : Users, expiresAt : 0 .. (MaxTime + Lifetime)]

TypeOK ==
  /\ made \subseteq Grants
  /\ grants \subseteq made
  /\ admitted \subseteq Visits \X Users \X Tokens
  /\ time \in 0 .. MaxTime

Init ==
  /\ made = {}
  /\ grants = {}
  /\ admitted = {}
  /\ time = 0

Make(token, user) ==
  /\ \A g \in made : g.token # token
  /\ made' = made \union
       {[token |-> token, user |-> user, expiresAt |-> time + Lifetime]}
  /\ UNCHANGED <<grants, admitted, time>>

Grant(g) ==
  /\ grants' = grants \union {g}
  /\ UNCHANGED <<made, admitted, time>>

Withdraw(g) ==
  /\ g.expiresAt < time
  /\ grants' = grants \ {g}
  /\ UNCHANGED <<made, admitted, time>>

Admit(visit, g) ==
  /\ time <= g.expiresAt
  /\ admitted' = admitted \union {<<visit, g.user, g.token>>}
  /\ UNCHANGED <<made, grants, time>>

Tick ==
  /\ time < MaxTime
  /\ time' = time + 1
  /\ UNCHANGED <<made, grants, admitted>>

Next ==
  \/ \E t \in Tokens, u \in Users : Make(t, u)
  \/ \E g \in made : Grant(g)
  \/ \E g \in grants : Withdraw(g)
  \/ \E v \in Visits, g \in grants : Admit(v, g)
  \/ Tick

Spec == Init /\ [][Next]_vars

=============================================================================
