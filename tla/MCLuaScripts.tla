---------------------------- MODULE MCLuaScripts ----------------------------
(***************************************************************************)
(* LuaScripts for TLC.  Scripts of different purposes have no key in       *)
(* common, so a behaviour has calls of one purpose.  Locks take three: a    *)
(* taker, the next taker and a release; and so do ids and tokens.          *)
(***************************************************************************)
EXTENDS LuaScripts

MCAmounts == {2, -1}

MCPlans ==
  { Calls \X LockScripts, {1, 2} \X CountScripts, Calls \X {"get_next_id"},
    Calls \X {"validate_token"}, {1} \X {"rate_limit"} }

=============================================================================
