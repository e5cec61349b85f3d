------------------------------- MODULE MCNode -------------------------------
(***************************************************************************)
(* TLC instances of the whole node.                                        *)
(***************************************************************************)
EXTENDS Node, TLC

(* The supervisors leave the node alone: no termination.                   *)
MCServing == tn_to_pm = "open" /\ ll_up /\ tp_to_hm = "open"

(* PeerManager has at most one reason to terminate.                        *)
MCOneCause == Cardinality({r \in Reason : ShutdownReason(r)}) <= 1

(* One of three remotes stays silent.                                      *)
MCTwoSpeak == Cardinality({c \in Conns : read[c] # << >>}) <= 2

MCServingSpec ==
    NodeInit /\ [][NodeNext /\ MCServing' /\ MCTwoSpeak']_nodeVars /\ Fairness

(* Remotes that follow the protocol, while no supervisor acts.             *)
MCHonest == \A c \in Conns : IsPrefixOf(read[c], << "version", "verack" >>)

MCHonestSpec ==
    NodeInit /\ [][NodeNext /\ MCServing' /\ MCHonest']_nodeVars /\ Fairness

MCSymmetry == Permutations(Incoming)
=============================================================================
