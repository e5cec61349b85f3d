-------------------------- MODULE MCHandleMessage --------------------------
(***************************************************************************)
(* TLC instance of HandleMessage against its most general surroundings.    *)
(***************************************************************************)
EXTENDS HandleMessage, TLC
=============================================================================
