---------------------------- MODULE MCSystemSession ----------------------------
(***************************************************************************)
(* SystemSession for TLC.  There is one licence and every user has the same *)
(* password; request ids are interchangeable.                              *)
(***************************************************************************)
EXTENDS SystemSession, TLC

CONSTANTS key, secret, right

MCLicenses == {<<key, secret>>}
MCPasswordOf == [u \in Users |-> right]

ReqSymmetry == Permutations(Reqs)

=============================================================================
