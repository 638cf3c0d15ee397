---------------------------- MODULE MCServerStart ----------------------------
(***************************************************************************)
(* ServerStart, and with it ScriptRegistry and ApiLevel, for TLC.          *)
(***************************************************************************)
EXTENDS ServerStart

=============================================================================
