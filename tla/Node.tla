-------------------------------- MODULE Node --------------------------------
(***************************************************************************)
(* The whole node: PeerManager, the Peer tasks and HandleMessage, run      *)
(* concurrently and joined by their channels.  The tasks of the network    *)
(* thread interleave at their awaits, HandleMessage runs on a thread of    *)
(* its own.  What is left of the surroundings is the two supervisors       *)
(* (ThreadNetwork and ThreadProtocol), LoopListen and the remotes.         *)
(***************************************************************************)
EXTENDS PeerManager, HandleMessage, PeerActor

nodeVars == << pmOwn, pmEnv, hmOwn, tp_to_hm, peerOwn, chanVars >>

NodeInit == PMInit /\ HMOwnInit /\ PeerOwnInit

NodePM == PMNext /\ UNCHANGED << hmOwn, tp_to_hm, peerOwn >>

NodeHM == HMNext /\ UNCHANGED << peerid, set_task_peers, pm, pmEnv, peerOwn >>

NodePeer(c) ==
    PeerNext(c) /\ UNCHANGED << peerid, set_task_peers, pm, pmEnv, hmOwn, tp_to_hm >>

(* ThreadNetwork, LoopListen and ThreadProtocol.                           *)
NodeSupervisors ==
    \/ EnvSupervisor /\ UNCHANGED << hmOwn, tp_to_hm, peerOwn >>
    \/ EnvThreadProtocol /\ UNCHANGED << peerid, set_task_peers, pm, pmEnv, peerOwn >>

(* Both actors are done and every Peer has been joined.                    *)
Ended == pm.at = "done" /\ hm = Returned

NodeNext ==
    \/ NodePM \/ NodeHM \/ NodeSupervisors
    \/ \E c \in Conns : NodePeer(c)
    \/ Ended /\ UNCHANGED nodeVars

NodeSpec == NodeInit /\ [][NodeNext]_nodeVars

-----------------------------------------------------------------------------
(* Fairness: a task that can run does run.  Nothing is asked of the        *)
(* remotes, of new connections or of the supervisors.  That a Peer which   *)
(* is ending returns asks that its TaskWrite is not held in write_all for  *)
(* ever by a remote that has stopped reading.                              *)

PMWork ==
    /\ \/ \E c \in Conns : JoinPeer(c) \/ DrainPeer(c)
       \/ ReceiveFromProtocol \/ SendPeer \/ ReceiveFromPeer \/ SendProtocol
       \/ \E r \in Reason : Terminate(r)
       \/ \E p \in DOMAIN set_all_peers : BulkPick(p)
       \/ BulkSend \/ BulkEnd \/ PMReturn
    /\ UNCHANGED << hmOwn, tp_to_hm, peerOwn >>

PeerWork(c) ==
    /\ PeerTurn(c)
    /\ UNCHANGED << peerid, set_task_peers, pm, pmEnv, hmOwn, tp_to_hm >>

Fairness ==
    /\ WF_nodeVars(PMWork)
    /\ WF_nodeVars(NodeHM)
    /\ \A c \in Conns : WF_nodeVars(PeerWork(c))

NodeLiveSpec == NodeSpec /\ Fairness
-----------------------------------------------------------------------------
(* Properties.                                                             *)

Holders(p) == {c \in DOMAIN set_id_peers : set_id_peers[c] = p}

(* PeerManager has handed out p once only, so far.                         *)
Fresh(p) == Cardinality(Holders(p)) = 1

Serving == pm.at \in {"loop", "to_protocol", "to_peer"}

(* HandleMessage keeps the state of a handshake only while a connection    *)
(* announced with that id has not been joined, or until the event that     *)
(* removes it, already sent, is handled: whatever the reuse of ids, it     *)
(* does not leak entries.                                                  *)
NoLeak ==
    Serving /\ hm_up =>
        \A p \in DOMAIN set_context_peers :
            \/ \E c \in set_task_peers : set_id_peers[c] = p
            \/ CompletedPeer(p) \in Range(pm_to_hm)
            \/ pm = ToProtocol(CompletedPeer(p))

VersionTo(c) == [cmd |-> "version", conn |-> c]
VerackTo(c)  == [cmd |-> "verack", conn |-> c]

IsPrefixOf(s, t) == Len(s) <= Len(t) /\ \A i \in 1..Len(s) : s[i] = t[i]

(* As long as no other connection was given its id, a connection is        *)
(* written one Version and then one Verack at most, both built for itself, *)
(* although they pass four tasks and three channels and are sent from two  *)
(* awaits of the handler.                                                  *)
SocketOrder ==
    \A c \in DOMAIN set_id_peers :
        Fresh(set_id_peers[c]) => IsPrefixOf(wrote[c], << VersionTo(c), VerackTo(c) >>)

(* As long as its id is its own, a remote that has sent nothing but a      *)
(* valid Version and then a Verack is not reported as violent, however     *)
(* early its messages come, as long as the replies can be built and        *)
(* PeerManager is there to take them: after a reply that failed its flag   *)
(* is not raised, and the remote is blamed for what it says next.          *)
InnocentNotReported ==
    LET Innocent(c) == IsPrefixOf(read[c], << "version", "verack" >>)
    IN  /\ \A i \in DOMAIN hm_to_pm :
             LET e == hm_to_pm[i] IN
             e.type = "Violent" /\ Fresh(e.peerid) => ~Innocent(e.conn)
        /\ hm.at = "violent" /\ Fresh(hm.peerid) => ~Innocent(hm.conn)

(* m is on its way from HandleMessage to the socket of c, or written.      *)
OnItsWay(p, c, m) ==
    \/ ReadyMessage(p, m) \in Range(hm_to_pm)
    \/ pm = ToPeer(p, ReadyLowMessage(m))
    \/ ReadyLowMessage(m) \in Range(pm_to_peer[c])
    \/ m \in Range(wrote[c])

(* As long as an id is one connection's own, the flags kept under it agree *)
(* with the traffic of that connection: a received flag answers a message  *)
(* it read, the handshake is complete only after a Version and a later     *)
(* Verack, and what a sent flag says was sent is on its way while the Peer *)
(* is there to write it.                                                   *)
FlagsMatchTraffic ==
    \A p \in DOMAIN set_context_peers : Fresh(p) =>
        LET c     == set_context_peers[p]
            flags == set_state_peers[p]
            alive == Serving /\ c \in running_peers /\ peer[c] # PeerClosing
        IN  /\ "recv_version" \in flags => "version" \in Range(read[c])
            /\ "completed_handshake" \in flags =>
                  \E j \in DOMAIN read[c] : \E i \in 1..(j - 1) :
                      read[c][i] = "version" /\ read[c][j] = "verack"
            /\ alive /\ "send_version" \in flags => OnItsWay(p, c, VersionTo(c))
            /\ alive /\ "send_verack" \in flags => OnItsWay(p, c, VerackTo(c))

(* Once PeerManager only waits for its Peers to end, each that still runs  *)
(* is already ending, has Shutdown in its queue, or has lost the sender    *)
(* that would keep its channel open: none was left out of the mass         *)
(* disconnection because its registry entry went to another connection.    *)
DrainedPeersAreTold ==
    pm.at = "drain" =>
        \A c \in running_peers :
            \/ peer[c] = PeerClosing
            \/ Shutdown \in Range(pm_to_peer[c])
            \/ c \notin Range(set_all_peers)

(* The two circular waits full channels can close: PeerManager and         *)
(* HandleMessage each wait for the other to receive, or PeerManager waits  *)
(* for a Peer while the Peers' channel to PeerManager is full.             *)
ActorsWaitForEachOther ==
    /\ pm.at = "to_protocol" /\ ~HasRoom(pm_to_hm)
    /\ hm.at \in Sends /\ ~HasRoom(hm_to_pm)

PeersWaitForPM ==
    pm.at \in {"to_peer", "bulk_to", "drain"} /\ ~HasRoom(peer_to_pm)

Wedged == ActorsWaitForEachOther \/ PeersWaitForPM

(* A Peer whose registry entry was lost to another connection is not left  *)
(* running for ever: it ends by itself, unless a circular wait is closed   *)
(* for good.                                                               *)
OrphansEnd ==
    \A c \in Conns :
        \/ c \in running_peers /\ c \notin Range(set_all_peers) ~> c \notin running_peers
        \/ <>[]Wedged

(* A connection whose id is its own and whose remote has sent a Version    *)
(* and a Verack is recorded as having completed the handshake, or ends, if *)
(* no circular wait stays closed: no order in which the messages, the      *)
(* announcement and the replies pass the three tasks loses a step.         *)
Completed(p) == p \in DOMAIN set_state_peers /\ "completed_handshake" \in set_state_peers[p]

HandshakeCompletes ==
    \A c \in Conns :
        \/ c \in running_peers /\ read[c] = << "version", "verack" >>
              ~> \/ c \notin running_peers \/ peer[c] = PeerClosing
                 \/ Completed(set_id_peers[c])
                 \/ ~Fresh(set_id_peers[c])
        \/ <>[]Wedged

(* A report of a violent peer that PeerManager will act on is about the    *)
(* connection it will end (the log of the handler says the peer with that  *)
(* id misbehaved).                                                         *)
ReportHitsOffender ==
    \A i \in DOMAIN hm_to_pm :
        LET e == hm_to_pm[i] IN
        e.type = "Violent" /\ e.peerid \in DOMAIN set_all_peers
            => set_all_peers[e.peerid] = e.conn
=============================================================================
