------------------------------ MODULE Channels ------------------------------
(***************************************************************************)
(* What PeerManager, HandleMessage and the Peer tasks share: the tokio     *)
(* mpsc channels between them, the events those carry, and who still holds *)
(* which end.  A channel is the sequence of events sent and not yet        *)
(* received; `send(..).await` waits while it holds Capacity of them        *)
(* (mpsc::channel(1024)), fails once the receiver is dropped, and          *)
(* `recv().await` returns None once it is empty and every sender is        *)
(* dropped.                                                                *)
(*                                                                         *)
(* A connection (an element of Conns) is one TCP socket for the whole of   *)
(* its life; the program names it by a PeerId, which it may use again.     *)
(* The field conn of a message and of a Violent event is a ghost: it says  *)
(* which connection the event is really about, and no guard reads it.      *)
(***************************************************************************)
EXTENDS Naturals, Sequences, FiniteSets, Functions

CONSTANTS
    Incoming,   \* connections LoopListen accepts
    Outgoing,   \* connections made on an OutgoingConnection event
    Capacity,   \* the bound of every channel, 1024 in the code
    Command     \* the kinds of message the remotes send

ASSUME ConnsAssumption ==
    /\ IsFiniteSet(Incoming)
    /\ IsFiniteSet(Outgoing)
    /\ Incoming \cap Outgoing = {}

ASSUME CapacityAssumption == Capacity \in Nat \ {0}

(* A Version is abstracted to the answer validation_version_message gives  *)
(* for it.                                                                 *)
ASSUME CommandAssumption == Command \subseteq {"version", "invalid_version", "verack"}

Conns == Incoming \cup Outgoing

(* pub type PeerId = u64; PeerManager::create starts at 1.                 *)
PeerId == Nat \ {0}

(* A parsed message: what a remote sends or HandleMessage replies.         *)
Message == [cmd : Command \cup {"version", "verack"}, conn : Conns]

-----------------------------------------------------------------------------
(* Events, one record shape for each variant.                              *)

NewConnection(p, c)   == [type |-> "NewConnection", peerid |-> p, conn |-> c]
ReadyMessage(p, m)    == [type |-> "ReadyMessage", peerid |-> p, message |-> m]
CompletedPeer(p)      == [type |-> "CompletedPeer", peerid |-> p]
CompletedAllPeer      == [type |-> "CompletedAllPeer"]
Violent(p, c)         == [type |-> "Violent", peerid |-> p, conn |-> c]
ReadyLowMessage(m)    == [type |-> "ReadyLowMessage", message |-> m]
Shutdown              == [type |-> "Shutdown"]

ReadyMessageEvent == [type : {"ReadyMessage"}, peerid : PeerId, message : Message]

EventsToHandleMessage ==
    ReadyMessageEvent
    \cup [type : {"NewConnection"}, peerid : PeerId, conn : Conns]
    \cup [type : {"CompletedPeer"}, peerid : PeerId]
    \cup {CompletedAllPeer}

EventsToPeerManager ==
    ReadyMessageEvent \cup [type : {"Violent"}, peerid : PeerId, conn : Conns]

EventsToPeer == [type : {"ReadyLowMessage"}, message : Message] \cup {Shutdown}

-----------------------------------------------------------------------------
VARIABLES
    pm_to_hm,       \* PeerManager -> HandleMessage
    hm_to_pm,       \* HandleMessage -> PeerManager
    peer_to_pm,     \* every Peer -> PeerManager, one channel
    pm_to_peer,     \* PeerManager -> Peer, a channel for each connection
    pm_up,          \* PeerManager holds its ends of the channels
    hm_up,          \* HandleMessage holds its ends of the channels
    running_peers,  \* Peer tasks that have not returned: they hold their ends
    set_all_peers,  \* PeerId -> the connection whose only sender is stored there
    set_id_peers    \* Peer task -> the PeerId it was spawned with, kept for ever

channels == << pm_to_hm, hm_to_pm, peer_to_pm, pm_to_peer >>
chanVars == << channels, pm_up, hm_up, running_peers, set_all_peers,
               set_id_peers >>

(* A HashMap from (some of) the keys K to V.                               *)
HashMap(f, K, V) == f \in [DOMAIN f -> V] /\ DOMAIN f \subseteq K

(* HashMap::insert replaces the value of a key that is already there.      *)
Insert(f, k, v) == [x \in DOMAIN f \cup {k} |-> IF x = k THEN v ELSE f[x]]

(* HashMap::remove does nothing when the key is not there.                 *)
Remove(f, k) == Restrict(f, DOMAIN f \ {k})

(* Mutant of HasRoom: one event too many.                                  *)
HasRoomForOneMore(q) == Len(q) <= Capacity

HasRoom(q) == Len(q) < Capacity

(* The Peer of c sees its channel closed: nothing is queued and the        *)
(* registry, which owns the only sender, holds no entry for c any more.    *)
SenderDropped(c) == pm_to_peer[c] = << >> /\ c \notin Range(set_all_peers)

ChanInit ==
    /\ pm_to_hm = << >>
    /\ hm_to_pm = << >>
    /\ peer_to_pm = << >>
    /\ pm_to_peer = [c \in Conns |-> << >>]
    /\ pm_up = TRUE
    /\ hm_up = TRUE
    /\ running_peers = {}
    /\ set_all_peers = << >>
    /\ set_id_peers = << >>

ChanTypeOK ==
    /\ pm_to_hm \in Seq(EventsToHandleMessage)
    /\ hm_to_pm \in Seq(EventsToPeerManager)
    /\ peer_to_pm \in Seq(ReadyMessageEvent)
    /\ pm_to_peer \in [Conns -> Seq(EventsToPeer)]
    /\ pm_up \in BOOLEAN
    /\ hm_up \in BOOLEAN
    /\ running_peers \subseteq Conns
    /\ HashMap(set_all_peers, PeerId, Conns)
    /\ HashMap(set_id_peers, Conns, PeerId)
=============================================================================
