----------------------------- MODULE PeerActor -----------------------------
(***************************************************************************)
(* A Peer task as PeerManager sees it (src/src/network/peer.rs with its    *)
(* subtasks TaskRead and TaskWrite): it forwards what the remote sends,    *)
(* hands what it is told to send to the socket, and returns when it is     *)
(* told to, when its channel closes or when a subtask ends.  The variables *)
(* cover every connection; each operator is about one of them.             *)
(*                                                                         *)
(* Peer.tla has the subtasks and their channels and implements this.       *)
(***************************************************************************)
EXTENDS Channels

CONSTANT
    MaxMessages     \* a bound of the model: a remote sends at most this many
                    \* messages, and PASpec gives a Peer at most as many

ASSUME MaxMessagesAssumption == MaxMessages \in Nat

VARIABLES
    peer,   \* where the Peer of each connection is
    read,   \* the commands it received from its remote, in order
    wrote   \* the messages it took to hand to the socket, in order

peerOwn  == << peer, read, wrote >>
peerVars == << peerOwn, chanVars >>

PeerLoop    == [at |-> "loop"]
Forward(m)  == [at |-> "to_pm", message |-> m]
PeerClosing == [at |-> "closing"]   \* waits for its subtasks to end

PeerOwnInit ==
    /\ peer = [c \in Conns |-> PeerLoop]
    /\ read = [c \in Conns |-> << >>]
    /\ wrote = [c \in Conns |-> << >>]

PeerOwnTypeOK ==
    /\ peer \in [Conns -> {PeerLoop, PeerClosing} \cup [at : {"to_pm"}, message : Message]]
    /\ read \in [Conns -> Seq(Command)]
    /\ wrote \in [Conns -> Seq(Message)]

(* The variables have their types, and neither the channel all Peers share *)
(* nor one to a Peer ever holds more than its bound: whoever sends to a    *)
(* full one waits, whichever task it is and whatever else is waiting.      *)
PeerTypeOK ==
    /\ PeerOwnTypeOK
    /\ Len(peer_to_pm) <= Capacity
    /\ \A c \in Conns : Len(pm_to_peer[c]) <= Capacity

AtLoop(c) == c \in running_peers /\ peer[c] = PeerLoop

Become(c, state) == peer' = [peer EXCEPT ![c] = state]

(* TaskRead delivers the next message of the remote.                       *)
PeerReads(c, cmd) ==
    /\ AtLoop(c) /\ Len(read[c]) < MaxMessages
    /\ read' = [read EXCEPT ![c] = Append(@, cmd)]
    /\ Become(c, Forward([cmd |-> cmd, conn |-> c]))
    /\ UNCHANGED << wrote, chanVars >>

(* Mutant of PeerForwards: the channel is taken for an unbounded one.      *)
PeerForwardsAtOnce(c) ==
    /\ c \in running_peers /\ peer[c].at = "to_pm"
    /\ \/ /\ pm_up
          /\ peer_to_pm' = Append(peer_to_pm, ReadyMessage(set_id_peers[c], peer[c].message))
          /\ Become(c, PeerLoop)
       \/ /\ ~pm_up
          /\ Become(c, PeerClosing)
          /\ UNCHANGED peer_to_pm
    /\ UNCHANGED << read, wrote, pm_to_hm, hm_to_pm, pm_to_peer,
                    pm_up, hm_up, running_peers, set_all_peers, set_id_peers >>

PeerForwards(c) ==
    /\ c \in running_peers /\ peer[c].at = "to_pm"
    /\ \/ /\ pm_up /\ HasRoom(peer_to_pm)
          /\ peer_to_pm' = Append(peer_to_pm, ReadyMessage(set_id_peers[c], peer[c].message))
          /\ Become(c, PeerLoop)
       \/ /\ ~pm_up
          /\ Become(c, PeerClosing)
          /\ UNCHANGED peer_to_pm
    /\ UNCHANGED << read, wrote, pm_to_hm, hm_to_pm, pm_to_peer,
                    pm_up, hm_up, running_peers, set_all_peers, set_id_peers >>

(* The next event of PeerManager.                                          *)
PeerReceives(c) ==
    /\ AtLoop(c) /\ pm_to_peer[c] # << >>
    /\ pm_to_peer' = [pm_to_peer EXCEPT ![c] = Tail(@)]
    /\ LET e == Head(pm_to_peer[c]) IN
       \/ /\ e # Shutdown
          /\ wrote' = [wrote EXCEPT ![c] = Append(@, e.message)]
          /\ UNCHANGED peer
       \/ /\ e = Shutdown
          /\ Become(c, PeerClosing)
          /\ UNCHANGED wrote
    /\ UNCHANGED << read, pm_to_hm, hm_to_pm, peer_to_pm, pm_up, hm_up,
                    running_peers, set_all_peers, set_id_peers >>

(* Its registry entry was removed or overwritten: recv returns None.       *)
(* Mutant of PeerOrphaned: the None is passed over.                        *)
PeerStaysUp(c) ==
    /\ AtLoop(c) /\ SenderDropped(c)
    /\ UNCHANGED peerVars

PeerOrphaned(c) ==
    /\ AtLoop(c) /\ SenderDropped(c)
    /\ Become(c, PeerClosing)
    /\ UNCHANGED << read, wrote, chanVars >>

(* The remote closed, or sent what cannot be parsed, or the socket failed. *)
PeerSubtaskEnds(c) ==
    /\ AtLoop(c)
    /\ Become(c, PeerClosing)
    /\ UNCHANGED << read, wrote, chanVars >>

PeerReturns(c) ==
    /\ c \in running_peers /\ peer[c] = PeerClosing
    /\ running_peers' = running_peers \ {c}
    /\ pm_to_peer' = [pm_to_peer EXCEPT ![c] = << >>]
    /\ UNCHANGED << peerOwn, pm_to_hm, hm_to_pm, peer_to_pm, pm_up, hm_up,
                    set_all_peers, set_id_peers >>

(* What a Peer does without the remote's help.                             *)
PeerTurn(c) == PeerForwards(c) \/ PeerReceives(c) \/ PeerOrphaned(c) \/ PeerReturns(c)

PeerNext(c) ==
    \/ \E cmd \in Command : PeerReads(c, cmd)
    \/ PeerSubtaskEnds(c)
    \/ PeerTurn(c)
-----------------------------------------------------------------------------
(* The surroundings: a PeerManager that may do anything the channels allow,*)
(* also return while Peers run.  None of it touches peerOwn.               *)

EnvSpawns(c) ==
    /\ pm_up /\ c \notin DOMAIN set_id_peers
    /\ \E p \in 1..Cardinality(Conns) :
          /\ set_id_peers' = Insert(set_id_peers, c, p)
          /\ set_all_peers' = Insert(set_all_peers, p, c)
    /\ running_peers' = running_peers \cup {c}
    /\ UNCHANGED << peerOwn, channels, pm_up, hm_up >>

EnvTells(c, e) ==
    /\ c \in Range(set_all_peers) /\ c \in running_peers /\ HasRoom(pm_to_peer[c])
    /\ e # Shutdown => Len(wrote[c]) + Len(pm_to_peer[c]) < MaxMessages
    /\ pm_to_peer' = [pm_to_peer EXCEPT ![c] = Append(@, e)]
    /\ UNCHANGED << peerOwn, pm_to_hm, hm_to_pm, peer_to_pm, pm_up, hm_up,
                    running_peers, set_all_peers, set_id_peers >>

EnvDrops(p) ==
    /\ p \in DOMAIN set_all_peers
    /\ set_all_peers' = Remove(set_all_peers, p)
    /\ UNCHANGED << peerOwn, channels, pm_up, hm_up, running_peers, set_id_peers >>

EnvListens ==
    /\ pm_up /\ peer_to_pm # << >>
    /\ peer_to_pm' = Tail(peer_to_pm)
    /\ UNCHANGED << peerOwn, pm_to_hm, hm_to_pm, pm_to_peer, pm_up, hm_up,
                    running_peers, set_all_peers, set_id_peers >>

EnvLeaves ==
    /\ pm_up /\ pm_up' = FALSE
    /\ peer_to_pm' = << >> /\ set_all_peers' = << >>
    /\ UNCHANGED << peerOwn, pm_to_hm, hm_to_pm, pm_to_peer, hm_up,
                    running_peers, set_id_peers >>

PAEnv ==
    \/ \E c \in Conns : EnvSpawns(c) \/ \E e \in EventsToPeer : EnvTells(c, e)
    \/ \E p \in DOMAIN set_all_peers : EnvDrops(p)
    \/ EnvListens \/ EnvLeaves

PAInit == ChanInit /\ PeerOwnInit

PANext == PAEnv \/ \E c \in Conns : PeerNext(c)

PASpec == PAInit /\ [][PANext]_peerVars
=============================================================================
