------------------------------- MODULE MCPeer -------------------------------
(***************************************************************************)
(* TLC instance of one Peer with its subtasks.                             *)
(***************************************************************************)
EXTENDS Peer, TLC
=============================================================================
