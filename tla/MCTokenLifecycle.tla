-------------------------- MODULE MCTokenLifecycle --------------------------
(***************************************************************************)
(* TokenLifecycle for TLC.  Each user's password is the one model value    *)
(* paired with it here; request ids are interchangeable.                   *)
(***************************************************************************)
EXTENDS TokenLifecycle, TLC

CONSTANT right

\* Two users with the same password: what tells them apart is the owner of the
\* token, not what they type.
MCPasswordOf == [u \in Users |-> right]

ReqSymmetry == Permutations(Reqs)

=============================================================================
