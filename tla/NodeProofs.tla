----------------------------- MODULE NodeProofs -----------------------------
(***************************************************************************)
(* Theorems about the whole node, for any number of connections, any       *)
(* Capacity and whatever the remotes and the supervisors do.               *)
(*                                                                         *)
(* PeerManager and HandleMessage were proved correct against surroundings  *)
(* stated in their own modules.  Here the node is shown to be no worse     *)
(* than those surroundings (NodeSpec => PMSpec, NodeSpec => HMSpec), so    *)
(* that what was proved of each actor holds of the node.  It needs that    *)
(* every event on its way names the connection it is about by the id that  *)
(* connection was given (Named), which no actor can know by itself.        *)
(*                                                                         *)
(* Then come the invariants of the whole: NoLeak, DrainedPeersAreTold, and *)
(* the traffic of a connection whose id is its own (SocketOrder,           *)
(* FlagsMatchTraffic, InnocentNotReported).                                *)
(***************************************************************************)
EXTENDS Node, PeerManagerProofs, HandleMessageProofs

(* p is the id the Peer of c was spawned with; it stays so for ever.       *)
Owned(p, c) == c \in DOMAIN set_id_peers /\ set_id_peers[c] = p

(* The event names the connection it is about by that connection's id.     *)
OwnedEvent(e) ==
    \/ e.type \in {"NewConnection", "Violent"} /\ Owned(e.peerid, e.conn)
    \/ e.type = "ReadyMessage" /\ Owned(e.peerid, e.message.conn)
    \/ e.type = "CompletedPeer" /\ \E c \in Conns : Owned(e.peerid, c)

Named ==
    /\ \A e \in Range(pm_to_hm) : OwnedEvent(e)
    /\ \A e \in Range(hm_to_pm) : OwnedEvent(e)
    /\ \A e \in Range(peer_to_pm) : OwnedEvent(e)
    /\ pm.at = "to_protocol" => OwnedEvent(pm.event)
    /\ hm.at \in Sends => Owned(hm.peerid, hm.conn)
    /\ \A p \in DOMAIN set_context_peers : Owned(p, set_context_peers[p])
    /\ \A c \in Conns : peer[c].at = "to_pm" => peer[c].message.conn = c

(* The ids given out are bounded by the number of connections.             *)
IdsBounded == \A c \in DOMAIN set_id_peers : set_id_peers[c] <= Cardinality(Conns)

(* PeerManager gives its ends of the channels up when it is done.          *)
UpUntilDone == pm_up = (pm.at # "done")

NodeInv ==
    /\ PMInv
    /\ HMInv
    /\ PeerOwnTypeOK
    /\ Named
    /\ IdsBounded
    /\ UpUntilDone

-----------------------------------------------------------------------------
(* What each of the two further invariants needs to be inductive.          *)

(* What follows an announcement of p in HandleMessage's queue removes it   *)
(* again, unless a connection with that id has not been joined.            *)
Awaited(p, i) ==
    \/ \E c \in set_task_peers : set_id_peers[c] = p
    \/ \E j \in DOMAIN pm_to_hm : j > i /\ pm_to_hm[j] = CompletedPeer(p)
    \/ pm = ToProtocol(CompletedPeer(p))

NoLeakInv ==
    Serving /\ hm_up =>
        /\ \A p \in DOMAIN set_context_peers : Awaited(p, 0)
        /\ \A i \in DOMAIN pm_to_hm :
              pm_to_hm[i].type = "NewConnection" => Awaited(pm_to_hm[i].peerid, i)
        /\ pm.at = "to_protocol" /\ pm.event.type = "NewConnection" =>
              pm.event.conn \in set_task_peers

(* The registry entries bulk_peer_disconnection has not come to.           *)
StillToTell ==
    CASE pm.at = "bulk" -> pm.todo
      [] pm.at = "bulk_to" -> pm.todo \cup {pm.peerid}
      [] OTHER -> {}

Told(c) ==
    c \in running_peers => peer[c] = PeerClosing \/ Shutdown \in Range(pm_to_peer[c])

ToldSoFar ==
    pm.at \in {"bulk", "bulk_to", "drain"} =>
        \A p \in DOMAIN set_all_peers \ StillToTell : Told(set_all_peers[p])

-----------------------------------------------------------------------------
(* Facts of a state of the node.                                           *)

USE DEF channels, chanVars, pmEnv, pmOwn, hmOwn, peerOwn, peerChannels

(* The parts of the invariant, by the variables they are about.            *)
LEMMA NodeFacts ==
    ASSUME NodeInv
    PROVE  /\ PMTypeOK /\ Bookkeeping
           /\ pm_to_hm \in Seq(EventsToHandleMessage)
           /\ hm_to_pm \in Seq(EventsToPeerManager)
           /\ peer_to_pm \in Seq(ReadyMessageEvent)
           /\ pm_to_peer \in [Conns -> Seq(EventsToPeer)]
           /\ HashMap(set_context_peers, PeerId, Conns)
           /\ HashMap(set_id_peers, Conns, PeerId)
           /\ HashMap(set_all_peers, PeerId, Conns)
           /\ running_peers \subseteq DOMAIN set_id_peers
           /\ set_task_peers \subseteq DOMAIN set_id_peers
           /\ hm_up = (hm # Returned)
           /\ hm = Select => hm_up
           /\ pm_up = (pm.at # "done")
           /\ pm = Loop => pm_up
<1>1. PMTypeOK /\ Bookkeeping /\ HMOwnTypeOK /\ UpUntilReturned /\ UpUntilDone
    BY DEF NodeInv, PMInv, HMInv
<1>2. ChanTypeOK /\ TasksKnown
    BY <1>1 DEF PMTypeOK, Bookkeeping
<1>3. /\ hm_up = (hm # Returned)
      /\ pm_up = (pm.at # "done")
    BY <1>1 DEF UpUntilReturned, UpUntilDone
<1>4. Loop.at # "done" /\ Select # Returned
    BY DEF Loop, Select, Returned
<1>5. (hm = Select => hm_up) /\ (pm = Loop => pm_up)
    BY <1>3, <1>4
<1>6. QED
    BY <1>1, <1>2, <1>3, <1>5 DEF ChanTypeOK, TasksKnown, HMOwnTypeOK

(* What the Peer of a connection forwards is a message of its remote.      *)
LEMMA PeerHand ==
    ASSUME NodeInv, NEW c \in Conns, peer[c].at = "to_pm"
    PROVE  peer[c].message \in Message /\ peer[c].message.conn = c
<1>1. peer[c] \in [at : {"to_pm"}, message : Message]
    BY DEF NodeInv, PeerOwnTypeOK, PeerLoop, PeerClosing
<1>2. QED
    BY <1>1 DEF NodeInv, Named

(* A connection has an id between 1 and the number of connections.         *)
LEMMA IdRange ==
    ASSUME NodeInv, NEW p, NEW c, Owned(p, c)
    PROVE  c \in Conns /\ p \in 1..Cardinality(Conns)
<1>1. HashMap(set_id_peers, Conns, PeerId) /\ Cardinality(Conns) \in Nat
    BY NodeFacts, ConnsAssumption, FS_Union, FS_CardinalityType DEF Conns
<1>2. c \in Conns /\ p \in PeerId /\ p <= Cardinality(Conns)
    BY <1>1 DEF Owned, HashMap, NodeInv, IdsBounded
<1>3. QED
    BY <1>1, <1>2 DEF PeerId

-----------------------------------------------------------------------------
(* The node as the surroundings of PeerManager.                            *)

(* HandleMessage does nothing PMEnv does not allow: it answers under the   *)
(* id that connection was given.                                           *)
LEMMA HandleMessageAsEnv ==
    ASSUME NodeInv, NodeHM
    PROVE  PMEnv \/ UNCHANGED pmVars
<1>0. UNCHANGED << peerid, set_task_peers, pm, pmEnv >> /\ HMInv /\ HMNext
    BY DEF NodeHM, NodeInv
<1>1. ASSUME NEW type, Receive(type) PROVE PMEnv
    BY <1>0, <1>1, NodeFacts DEF Receive, PMEnv, EnvHandleMessageReceives
<1>2. ASSUME hm.at \in Sends, NEW cmd \in {"version", "verack"}, SendToPM(Reply(cmd))
      PROVE  PMEnv
  <2> DEFINE m == [cmd |-> cmd, conn |-> set_context_peers[hm.peerid]]
  <2>1. hm.peerid \in DOMAIN set_context_peers /\ hm_up
      BY <1>0, <1>2, HandFields
  <2>2. Owned(hm.peerid, set_context_peers[hm.peerid]) /\ set_context_peers[hm.peerid] \in Conns
      BY <2>1, NodeFacts DEF NodeInv, Named, HashMap
  <2>3. m \in Message
      BY <2>2 DEF Message
  <2>4. EnvHandleMessageSends(m)
      BY <1>0, <1>2, <2>1, <2>2 DEF EnvHandleMessageSends, SendToPM, Reply, Owned
  <2>5. QED
      BY <2>3, <2>4 DEF PMEnv
<1>3. ASSUME hm.at \in Sends, SendToPM(Violent(hm.peerid, hm.conn))
      PROVE  PMEnv
  <2> DEFINE m == [cmd |-> "version", conn |-> hm.conn]
  <2>1. hm.conn \in Conns /\ hm_up
      BY <1>0, <1>3, HandFields
  <2>2. Owned(hm.peerid, hm.conn)
      BY <1>3 DEF NodeInv, Named
  <2>3. m \in Message
      BY <2>1 DEF Message
  <2>4. EnvHandleMessageSends(m)
      BY <1>0, <1>3, <2>1, <2>2 DEF EnvHandleMessageSends, SendToPM, Owned
  <2>5. QED
      BY <2>3, <2>4 DEF PMEnv
<1>4. ASSUME Return, hm_up PROVE PMEnv
    BY <1>0, <1>4 DEF Return, PMEnv, EnvHandleMessageReturns
<1>5. CASE \/ ReceiveNewConnection \/ ReceiveReadyMessage
           \/ ReceiveCompletedPeer \/ ReceiveCompletedAllPeer
    BY <1>1, <1>5 DEF ReceiveNewConnection, ReceiveReadyMessage, ReceiveCompletedPeer,
                      ReceiveCompletedAllPeer
<1>6. CASE SendNewVersion \/ SendReplyVersion \/ SendReplyVerack
    BY <1>2, <1>6 DEF SendNewVersion, SendReplyVersion, SendReplyVerack, Sends
<1>7. CASE SendViolent
    BY <1>3, <1>7 DEF SendViolent, Sends
<1>8. CASE SendFails
    BY <1>0, <1>4, <1>8, HandFields DEF SendFails, pmVars
<1>9. CASE Stop
    BY <1>4, <1>9, NodeFacts DEF Stop
<1>10. QED
    BY <1>0, <1>5, <1>6, <1>7, <1>8, <1>9 DEF HMNext

(* No more does a Peer: it forwards under its own id.                      *)
LEMMA PeersAsEnv ==
    ASSUME NodeInv, NEW c \in Conns, NodePeer(c)
    PROVE  PMEnv \/ UNCHANGED pmVars
<1>0. UNCHANGED << peerid, set_task_peers, pm, pmEnv >> /\ PeerNext(c)
    BY DEF NodePeer
<1>1. CASE (\E cmd \in Command : PeerReads(c, cmd)) \/ PeerSubtaskEnds(c) \/ PeerOrphaned(c)
    BY <1>0, <1>1 DEF PeerReads, PeerSubtaskEnds, PeerOrphaned, pmVars
<1>2. CASE PeerForwards(c)
  <2>1. peer[c].message \in Message /\ peer[c].message.conn = c
      BY <1>2, PeerHand DEF PeerForwards
  <2>2. EnvPeerSends(peer[c].message) \/ UNCHANGED pmVars
      BY <1>0, <1>2, <2>1 DEF PeerForwards, EnvPeerSends, pmVars
  <2>3. QED
      BY <2>1, <2>2 DEF PMEnv
<1>3. CASE PeerReceives(c)
    BY <1>0, <1>3 DEF PeerReceives, AtLoop, PMEnv, EnvPeerReceives
<1>4. CASE PeerReturns(c)
    BY <1>0, <1>4 DEF PeerReturns, PMEnv, EnvPeerReturns
<1>5. QED
    BY <1>0, <1>1, <1>2, <1>3, <1>4 DEF PeerNext, PeerTurn

(* A step of the node is one of PeerManager or of its surroundings.        *)
LEMMA NodeStepIsPM ==
    ASSUME NodeInv, [NodeNext]_nodeVars
    PROVE  [PMNext \/ PMEnv]_pmVars
<1>1. CASE NodePM
    BY <1>1 DEF NodePM
<1>2. CASE NodeHM
    BY <1>2, HandleMessageAsEnv
<1>3. CASE NodeSupervisors
    BY <1>3 DEF NodeSupervisors, PMEnv, EnvThreadProtocol, pmVars
<1>4. ASSUME NEW c \in Conns, NodePeer(c) PROVE [PMNext \/ PMEnv]_pmVars
    BY <1>4, PeersAsEnv
<1>5. CASE UNCHANGED nodeVars
    BY <1>5 DEF nodeVars, pmVars
<1>6. QED
    BY <1>1, <1>2, <1>3, <1>4, <1>5 DEF NodeNext

-----------------------------------------------------------------------------
(* The node as the surroundings of HandleMessage.                          *)

(* What PeerManager forwards is an event those surroundings may send.      *)
LEMMA ForwardedByEnv ==
    ASSUME NodeInv, NEW e \in EventsToHandleMessage, OwnedEvent(e), EnvPeerManagerSends(e)
    PROVE  HMEnv
<1>1. /\ e.type = "NewConnection" => e = NewConnection(e.peerid, e.conn)
      /\ e.type = "ReadyMessage" => e = ReadyMessage(e.peerid, e.message) /\ e.message \in Message
      /\ e.type = "CompletedPeer" => e = CompletedPeer(e.peerid)
      /\ e.type # "Violent"
    BY DEF EventsToHandleMessage, ReadyMessageEvent, NewConnection, ReadyMessage,
           CompletedPeer, CompletedAllPeer
<1>2. CASE e.type = "NewConnection"
  <2>1. e.conn \in Conns /\ e.peerid \in 1..Cardinality(Conns)
      BY <1>2, IdRange DEF OwnedEvent
  <2>2. QED
      BY <1>1, <1>2, <2>1 DEF HMEnv
<1>3. CASE e.type = "ReadyMessage"
  <2>1. e.peerid \in 1..Cardinality(Conns)
      BY <1>3, IdRange DEF OwnedEvent
  <2>2. QED
      BY <1>1, <1>3, <2>1 DEF HMEnv
<1>4. CASE e.type = "CompletedPeer"
  <2>1. e.peerid \in 1..Cardinality(Conns)
      BY <1>4, IdRange DEF OwnedEvent
  <2>2. QED
      BY <1>1, <1>4, <2>1 DEF HMEnv
<1>5. QED
    BY <1>1, <1>2, <1>3, <1>4 DEF OwnedEvent

(* PeerManager does nothing HMEnv does not allow.                          *)
LEMMA PeerManagerAsEnv ==
    ASSUME NodeInv, NodePM
    PROVE  HMEnv \/ UNCHANGED hmVars
<1> USE DEF hmVars
<1>0. UNCHANGED << hmOwn, tp_to_hm >> /\ PMNext
    BY DEF NodePM
<1>1. ASSUME NEW c \in Conns,
             IncomingConnection(c) \/ OutgoingConnection(c) \/ CreateFails(c)
      PROVE  UNCHANGED hmVars
    BY <1>0, <1>1 DEF IncomingConnection, OutgoingConnection, CreateFails, AddPeer
<1>2. ASSUME NEW c \in Conns, JoinPeer(c) \/ DrainPeer(c) PROVE UNCHANGED hmVars
    BY <1>0, <1>2 DEF JoinPeer, DrainPeer, Join
<1>3. CASE ReceiveFromProtocol
    BY <1>0, <1>3, NodeFacts DEF ReceiveFromProtocol, HMEnv, EnvPeerManagerReceives
<1>4. CASE SendPeer \/ ReceiveFromPeer \/ BulkSend \/ BulkEnd
    BY <1>0, <1>4 DEF SendPeer, ReceiveFromPeer, BulkSend, BulkEnd
<1>5. CASE SendProtocol
  <2>1. pm.event \in EventsToHandleMessage /\ OwnedEvent(pm.event) /\ pm_up
      BY <1>5, NodeFacts, ControlFields DEF SendProtocol, PMTypeOK, NodeInv, Named
  <2>2. EnvPeerManagerSends(pm.event) \/ UNCHANGED hmVars
      BY <1>0, <1>5, <2>1 DEF SendProtocol, EnvPeerManagerSends
  <2>3. QED
      BY <2>1, <2>2, ForwardedByEnv
<1>6. ASSUME NEW r \in Reason, Terminate(r) PROVE UNCHANGED hmVars
    BY <1>0, <1>6 DEF Terminate
<1>7. ASSUME NEW p \in DOMAIN set_all_peers, BulkPick(p) PROVE UNCHANGED hmVars
    BY <1>0, <1>7 DEF BulkPick
<1>8. CASE PMReturn
  <2>1. pm_up
      BY <1>8, NodeFacts DEF PMReturn
  <2>2. QED
      BY <1>0, <1>8, <2>1 DEF PMReturn, HMEnv, EnvPeerManagerReturns
<1>9. QED
    BY <1>0, <1>1, <1>2, <1>3, <1>4, <1>5, <1>6, <1>7, <1>8 DEF PMNext

(* A step of the node is one of HandleMessage or of its surroundings.      *)
LEMMA NodeStepIsHM ==
    ASSUME NodeInv, [NodeNext]_nodeVars
    PROVE  [HMNext \/ HMEnv]_hmVars
<1>1. CASE NodePM
    BY <1>1, PeerManagerAsEnv
<1>2. CASE NodeHM
    BY <1>2 DEF NodeHM
<1>3. CASE NodeSupervisors
    BY <1>3 DEF NodeSupervisors, HMEnv, EnvSupervisor, hmVars
<1>4. ASSUME NEW c \in Conns, NodePeer(c) PROVE UNCHANGED hmVars
    BY <1>4 DEF NodePeer, PeerNext, PeerTurn, PeerReads, PeerSubtaskEnds, PeerForwards,
                PeerReceives, PeerOrphaned, PeerReturns, hmVars
<1>5. CASE UNCHANGED nodeVars
    BY <1>5 DEF nodeVars, hmVars
<1>6. QED
    BY <1>1, <1>2, <1>3, <1>4, <1>5 DEF NodeNext

-----------------------------------------------------------------------------
(* The names of connections.                                               *)

(* An id once given stays given, and ids stay bounded.                     *)
LEMMA OwnedStays ==
    ASSUME NodeInv, [PMNext \/ PMEnv]_pmVars
    PROVE  (\A p, c : Owned(p, c) => Owned(p, c)') /\ IdsBounded'
<1>1. CASE UNCHANGED set_id_peers
    BY <1>1 DEF Owned, NodeInv, IdsBounded
<1>2. ASSUME NEW c \in Conns, NotSeen(c), AddPeer(c)
      PROVE  (\A p, d : Owned(p, d) => Owned(p, d)') /\ IdsBounded'
  <2>1. /\ PMTypeOK /\ Bookkeeping /\ peerid \in Nat
        /\ set_id_peers' = Insert(set_id_peers, c, peerid)
      BY <1>2, NodeFacts DEF AddPeer, NextNumber, PMTypeOK, PeerId
  <2>2. /\ DOMAIN set_id_peers' = DOMAIN set_id_peers \cup {c}
        /\ set_id_peers'[c] = peerid
        /\ \A d \in DOMAIN set_id_peers \ {c} : set_id_peers'[d] = set_id_peers[d]
      BY <2>1 DEF Insert
  <2>3. \A p, d : Owned(p, d) => Owned(p, d)'
      BY <1>2, <2>2 DEF Owned, NotSeen
  <2>4. peerid <= Cardinality(Conns)
    <3>1. c \notin set_task_peers /\ peerid = 1 + Cardinality(set_task_peers)
        BY <1>2, <2>1, NodeFacts DEF NotSeen, Bookkeeping, PeeridCountsTasks
    <3>2. IsFiniteSet(Conns) /\ set_task_peers \subseteq Conns \ {c}
        BY <2>1, <3>1, ConnsAssumption, FS_Union DEF Conns, PMTypeOK
    <3>3. /\ IsFiniteSet(Conns \ {c}) /\ Cardinality(Conns) \in Nat
          /\ Cardinality(Conns \ {c}) = Cardinality(Conns) - 1
        BY <3>2, FS_RemoveElement, FS_CardinalityType
    <3>4. /\ Cardinality(set_task_peers) \in Nat
          /\ Cardinality(set_task_peers) <= Cardinality(Conns \ {c})
        BY <3>2, <3>3, FS_Subset, FS_CardinalityType
    <3>5. QED
        BY <3>1, <3>3, <3>4
  <2>5. IdsBounded'
      BY <2>2, <2>4 DEF NodeInv, IdsBounded
  <2>6. QED
      BY <2>3, <2>5
<1>3. ASSUME NEW c \in Conns, IncomingConnection(c) \/ OutgoingConnection(c)
      PROVE  NotSeen(c) /\ AddPeer(c)
    BY <1>3 DEF IncomingConnection, OutgoingConnection
<1>4. ASSUME PMNext, \A c \in Conns : ~(IncomingConnection(c) \/ OutgoingConnection(c))
      PROVE  UNCHANGED set_id_peers
    BY <1>4 DEF PMNext, CreateFails, JoinPeer, DrainPeer, Join, ReceiveFromProtocol, SendPeer,
                ReceiveFromPeer, SendProtocol, Terminate, BulkPick, BulkSend, BulkEnd, PMReturn
<1>5. ASSUME PMEnv PROVE UNCHANGED set_id_peers
    BY <1>5 DEF PMEnv, EnvHandleMessageReceives, EnvHandleMessageReturns, EnvSupervisor,
                EnvHandleMessageSends, EnvPeerSends, EnvPeerReceives, EnvPeerReturns
<1>6. QED
    BY <1>1, <1>2, <1>3, <1>4, <1>5 DEF pmVars

(* A step keeps the names right when whatever is new in a queue, in a hand *)
(* or in a context is named right.                                         *)
LEMMA NamesKept ==
    ASSUME Named, \A p, c : Owned(p, c) => Owned(p, c)',
           \A e \in Range(pm_to_hm') : e \in Range(pm_to_hm) \/ OwnedEvent(e)',
           \A e \in Range(hm_to_pm') : e \in Range(hm_to_pm) \/ OwnedEvent(e)',
           \A e \in Range(peer_to_pm') : e \in Range(peer_to_pm) \/ OwnedEvent(e)',
           pm'.at = "to_protocol" => pm' = pm \/ OwnedEvent(pm.event)',
           hm'.at \in Sends => hm' = hm \/ Owned(hm.peerid, hm.conn)',
           \A p \in DOMAIN set_context_peers' :
              \/ p \in DOMAIN set_context_peers /\ set_context_peers'[p] = set_context_peers[p]
              \/ Owned(p, set_context_peers[p])',
           \A c \in Conns :
              peer'[c].at = "to_pm" => peer'[c] = peer[c] \/ peer'[c].message.conn = c
    PROVE  Named'
<1>1. \A e : OwnedEvent(e) => OwnedEvent(e)'
    BY DEF OwnedEvent
<1>2. /\ \A e \in Range(pm_to_hm)' : OwnedEvent(e)'
      /\ \A e \in Range(hm_to_pm)' : OwnedEvent(e)'
      /\ \A e \in Range(peer_to_pm)' : OwnedEvent(e)'
    BY <1>1 DEF Named, Range
<1>3. pm'.at = "to_protocol" => OwnedEvent(pm.event)'
  <2> SUFFICES ASSUME pm'.at = "to_protocol", pm' = pm PROVE OwnedEvent(pm.event)'
      OBVIOUS
  <2>1. OwnedEvent(pm.event)
      BY DEF Named
  <2>2. QED
      BY <2>1 DEF OwnedEvent
<1>4. hm'.at \in Sends => Owned(hm.peerid, hm.conn)'
  <2> SUFFICES ASSUME hm'.at \in Sends, hm' = hm PROVE Owned(hm.peerid, hm.conn)'
      OBVIOUS
  <2>1. Owned(hm.peerid, hm.conn)
      BY DEF Named
  <2>2. QED
      BY <2>1 DEF Owned
<1>5. \A p \in DOMAIN set_context_peers' : Owned(p, set_context_peers[p])'
  <2> SUFFICES ASSUME NEW p \in DOMAIN set_context_peers', p \in DOMAIN set_context_peers,
                      set_context_peers'[p] = set_context_peers[p]
               PROVE  Owned(p, set_context_peers[p])'
      OBVIOUS
  <2>1. Owned(p, set_context_peers[p])
      BY DEF Named
  <2>2. QED
      BY <2>1 DEF Owned
<1>6. QED
    BY <1>2, <1>3, <1>4, <1>5 DEF Named

(* The head of a queue is named right.                                     *)
LEMMA HeadsOwned ==
    ASSUME NodeInv
    PROVE  /\ pm_to_hm # << >> =>
                 /\ Head(pm_to_hm) \in EventsToHandleMessage /\ OwnedEvent(Head(pm_to_hm))
                 /\ Range(Tail(pm_to_hm)) \subseteq Range(pm_to_hm)
           /\ hm_to_pm # << >> =>
                 /\ Head(hm_to_pm) \in EventsToPeerManager /\ OwnedEvent(Head(hm_to_pm))
                 /\ Range(Tail(hm_to_pm)) \subseteq Range(hm_to_pm)
           /\ peer_to_pm # << >> =>
                 /\ Head(peer_to_pm) \in ReadyMessageEvent /\ OwnedEvent(Head(peer_to_pm))
                 /\ Range(Tail(peer_to_pm)) \subseteq Range(peer_to_pm)
<1>1. CASE pm_to_hm # << >>
    BY <1>1, NodeFacts, RangeOfTail DEF NodeInv, Named
<1>2. CASE hm_to_pm # << >>
    BY <1>2, NodeFacts, RangeOfTail DEF NodeInv, Named
<1>3. CASE peer_to_pm # << >>
    BY <1>3, NodeFacts, RangeOfTail DEF NodeInv, Named
<1>4. QED
    BY <1>1, <1>2, <1>3

(* PeerManager names every event it builds or forwards right.              *)
LEMMA PeerManagerNames ==
    ASSUME NodeInv, NodePM, \A p, c : Owned(p, c) => Owned(p, c)'
    PROVE  Named'
<1>0. UNCHANGED << hmOwn, tp_to_hm, peerOwn >> /\ PMNext /\ Named
    BY DEF NodePM, NodeInv
<1>1. ASSUME NEW c \in Conns, AddPeer(c) PROVE Named'
  <2>1. c \in DOMAIN set_id_peers' /\ set_id_peers'[c] = peerid
      BY <1>1 DEF AddPeer, NextNumber, Insert
  <2>2. /\ pm'.event.type = "NewConnection"
        /\ pm'.event.peerid = peerid /\ pm'.event.conn = c
      BY <1>1 DEF AddPeer, NextNumber, ToProtocol, NewConnection
  <2>3. OwnedEvent(pm.event)'
      BY <2>1, <2>2 DEF OwnedEvent, Owned
  <2>4. QED
      BY <1>0, <1>1, <2>3, NamesKept DEF AddPeer
<1>2. ASSUME NEW c \in Conns, Join(c), UNCHANGED pm \/ pm' = ToProtocol(CompletedPeer(set_id_peers[c]))
      PROVE Named'
  <2>1. Owned(set_id_peers[c], c)
      BY <1>2, NodeFacts DEF Join, Owned
  <2>2. CASE pm' = ToProtocol(CompletedPeer(set_id_peers[c]))
    <3>1. pm'.event.type = "CompletedPeer" /\ pm'.event.peerid = set_id_peers[c]
        BY <2>2 DEF ToProtocol, CompletedPeer
    <3>2. OwnedEvent(pm.event)'
        BY <1>2, <2>1, <3>1 DEF OwnedEvent, Owned, Join
    <3>3. QED
        BY <1>0, <1>2, <3>2, NamesKept DEF Join
  <2>3. CASE UNCHANGED pm
      BY <1>0, <1>2, <2>3, NamesKept DEF Join
  <2>4. QED
      BY <1>2, <2>2, <2>3
<1>3. CASE ReceiveFromProtocol
  <2>1. Range(hm_to_pm') \subseteq Range(hm_to_pm) /\ pm'.at # "to_protocol"
      BY <1>3, HeadsOwned DEF ReceiveFromProtocol, Loop, ToPeer
  <2>2. QED
      BY <1>0, <1>3, <2>1, NamesKept DEF ReceiveFromProtocol
<1>4. CASE ReceiveFromPeer
  <2>1. Range(peer_to_pm') \subseteq Range(peer_to_pm) /\ OwnedEvent(Head(peer_to_pm))
      BY <1>4, HeadsOwned DEF ReceiveFromPeer
  <2>2. pm'.event = Head(peer_to_pm)
      BY <1>4 DEF ReceiveFromPeer, ToProtocol
  <2>3. OwnedEvent(pm.event)'
      BY <2>1, <2>2 DEF OwnedEvent
  <2>4. QED
      BY <1>0, <1>4, <2>1, <2>3, NamesKept DEF ReceiveFromPeer
<1>5. CASE SendProtocol
  <2>1. pm.event \in EventsToHandleMessage /\ OwnedEvent(pm.event)
      BY <1>5, NodeFacts, ControlFields DEF SendProtocol, PMTypeOK, NodeInv, Named
  <2>2. \A e \in Range(pm_to_hm') : e \in Range(pm_to_hm) \/ e = pm.event
    <3>1. Range(Append(pm_to_hm, pm.event)) = Range(pm_to_hm) \cup {pm.event}
        BY <2>1, NodeFacts, RangeOfAppend
    <3>2. pm_to_hm' = Append(pm_to_hm, pm.event) \/ pm_to_hm' = pm_to_hm
        BY <1>5 DEF SendProtocol
    <3>3. QED
        BY <3>1, <3>2
  <2>3. OwnedEvent(pm.event) => \A e : e = pm.event => OwnedEvent(e)'
      BY <1>5 DEF SendProtocol, OwnedEvent, Owned
  <2>4. pm'.at # "to_protocol"
      BY <1>5 DEF SendProtocol, Loop, Bulk
  <2>5. QED
      BY <1>0, <1>5, <2>1, <2>2, <2>3, <2>4, NamesKept DEF SendProtocol
<1>6. ASSUME UNCHANGED << pm_to_hm, hm_to_pm, peer_to_pm >>, pm'.at # "to_protocol" PROVE Named'
    BY <1>0, <1>6, NamesKept
<1>7. CASE SendPeer \/ BulkSend \/ BulkEnd
    BY <1>6, <1>7 DEF SendPeer, BulkSend, BulkEnd, Loop, Bulk, Drain
<1>8. ASSUME NEW r \in Reason, Terminate(r) PROVE Named'
    BY <1>6, <1>8 DEF Terminate, Bulk
<1>9. ASSUME NEW p \in DOMAIN set_all_peers, BulkPick(p) PROVE Named'
    BY <1>6, <1>9 DEF BulkPick, BulkTo
<1>10. CASE PMReturn
  <2>1. Range(hm_to_pm') = {} /\ Range(peer_to_pm') = {} /\ pm'.at # "to_protocol"
      BY <1>10, RangeOfEmpty DEF PMReturn, Done
  <2>2. QED
      BY <1>0, <1>10, <2>1, NamesKept DEF PMReturn
<1>11. ASSUME NEW c \in Conns, CreateFails(c) PROVE Named'
    BY <1>0, <1>11, NamesKept DEF CreateFails
<1>12. QED
    BY <1>0, <1>1, <1>2, <1>3, <1>4, <1>5, <1>7, <1>8, <1>9, <1>10, <1>11
    DEF PMNext, IncomingConnection, OutgoingConnection, JoinPeer, DrainPeer

(* So does a Peer.                                                         *)
LEMMA PeerNames ==
    ASSUME NodeInv, NEW c \in Conns, NodePeer(c), \A p, d : Owned(p, d) => Owned(p, d)'
    PROVE  Named'
<1>0. /\ UNCHANGED << peerid, set_task_peers, pm, pmEnv, hmOwn, tp_to_hm >>
      /\ PeerNext(c) /\ Named
      /\ peer \in [Conns -> {PeerLoop, PeerClosing} \cup [at : {"to_pm"}, message : Message]]
    BY DEF NodePeer, NodeInv, PeerOwnTypeOK
<1>1. ASSUME NEW cmd \in Command, PeerReads(c, cmd) PROVE Named'
  <2>1. \A d \in Conns : d # c => peer'[d] = peer[d]
      BY <1>0, <1>1 DEF PeerReads, Become
  <2>2. peer'[c].message.conn = c
      BY <1>0, <1>1 DEF PeerReads, Become, Forward
  <2>3. QED
      BY <1>0, <1>1, <2>1, <2>2, NamesKept DEF PeerReads
<1>2. ASSUME peer' = [peer EXCEPT ![c] = PeerClosing] \/ peer' = [peer EXCEPT ![c] = PeerLoop] \/ peer' = peer
      PROVE  \A d \in Conns : peer'[d].at = "to_pm" => peer'[d] = peer[d]
    BY <1>0, <1>2 DEF PeerClosing, PeerLoop
<1>3. CASE PeerForwards(c)
  <2>1. /\ peer[c].message \in Message /\ peer[c].message.conn = c
        /\ Owned(set_id_peers[c], c)
      BY <1>3, PeerHand, NodeFacts DEF PeerForwards, Owned
  <2> DEFINE e == ReadyMessage(set_id_peers[c], peer[c].message)
  <2>2. e \in ReadyMessageEvent
    <3>1. set_id_peers[c] \in PeerId
        BY <2>1, NodeFacts DEF Owned, HashMap
    <3>2. QED
        BY <2>1, <3>1 DEF ReadyMessage, ReadyMessageEvent
  <2>3. \A f \in Range(peer_to_pm') : f \in Range(peer_to_pm) \/ f = e
    <3>1. Range(Append(peer_to_pm, e)) = Range(peer_to_pm) \cup {e}
        BY <2>2, NodeFacts, RangeOfAppend
    <3>2. peer_to_pm' = Append(peer_to_pm, e) \/ peer_to_pm' = peer_to_pm
        BY <1>3 DEF PeerForwards
    <3>3. QED
        BY <3>1, <3>2
  <2>4. \A f : f = e => OwnedEvent(f)'
      BY <1>3, <2>1 DEF PeerForwards, OwnedEvent, Owned, ReadyMessage
  <2>5. \A d \in Conns : peer'[d].at = "to_pm" => peer'[d] = peer[d]
      BY <1>2, <1>3 DEF PeerForwards, Become
  <2>6. QED
      BY <1>0, <1>3, <2>3, <2>4, <2>5, NamesKept DEF PeerForwards
<1>4. CASE PeerReceives(c) \/ PeerOrphaned(c) \/ PeerSubtaskEnds(c) \/ PeerReturns(c)
  <2>1. \A d \in Conns : peer'[d].at = "to_pm" => peer'[d] = peer[d]
      BY <1>2, <1>4 DEF PeerReceives, PeerOrphaned, PeerSubtaskEnds, PeerReturns, Become
  <2>2. UNCHANGED << pm_to_hm, hm_to_pm, peer_to_pm, set_id_peers >>
      BY <1>4 DEF PeerReceives, PeerOrphaned, PeerSubtaskEnds, PeerReturns
  <2>3. QED
      BY <1>0, <2>1, <2>2, NamesKept
<1>5. QED
    BY <1>0, <1>1, <1>3, <1>4 DEF PeerNext, PeerTurn

(* So does HandleMessage, although it answers from its own map.            *)
LEMMA HandleMessageNames ==
    ASSUME NodeInv, NodeHM
    PROVE  Named'
<1>0. /\ UNCHANGED << peerid, set_task_peers, pm, pmEnv, peerOwn >> /\ HMNext /\ Named /\ HMInv
    BY DEF NodeHM, NodeInv
<1>1. UNCHANGED << peer_to_pm, set_id_peers >>
    BY <1>0 DEF HMNext, ReceiveNewConnection, ReceiveReadyMessage, ReceiveCompletedPeer,
                ReceiveCompletedAllPeer, Receive, SendNewVersion, SendReplyVersion,
                SendReplyVerack, SendViolent, SendToPM, SendFails, Stop, Return
<1>2. \A p, c : Owned(p, c) = Owned(p, c)'
    BY <1>1 DEF Owned
<1>3. ASSUME NEW type, Receive(type)
      PROVE  /\ Range(pm_to_hm') \subseteq Range(pm_to_hm) /\ hm_to_pm' = hm_to_pm
             /\ Head(pm_to_hm) \in EventsToHandleMessage /\ OwnedEvent(Head(pm_to_hm))
             /\ Head(pm_to_hm).type = type /\ hm = Select
    BY <1>3, HeadsOwned DEF Receive
<1>4. CASE ReceiveNewConnection
  <2> DEFINE e == Head(pm_to_hm)
  <2>1. /\ Range(pm_to_hm') \subseteq Range(pm_to_hm) /\ hm_to_pm' = hm_to_pm
        /\ OwnedEvent(e) /\ e.type = "NewConnection" /\ hm = Select
      BY <1>3, <1>4 DEF ReceiveNewConnection
  <2>2. Owned(e.peerid, e.conn)
      BY <2>1 DEF OwnedEvent
  <2>3. hm' = Select \/ hm' = Sending("new_version", e.peerid, e.conn)
      BY <1>4 DEF ReceiveNewConnection
  <2>4. hm'.at \in Sends => Owned(hm'.peerid, hm'.conn)
      BY <2>2, <2>3 DEF Select, Sending, Sends
  <2>5. hm'.at \in Sends => Owned(hm.peerid, hm.conn)'
      BY <1>1, <2>4 DEF Owned
  <2>6. \A p \in DOMAIN set_context_peers' :
           \/ p \in DOMAIN set_context_peers /\ set_context_peers'[p] = set_context_peers[p]
           \/ Owned(p, set_context_peers'[p])
      BY <1>4, <2>2 DEF ReceiveNewConnection, InsertIfAbsent, Insert
  <2>7. \A p \in DOMAIN set_context_peers' :
           \/ p \in DOMAIN set_context_peers /\ set_context_peers'[p] = set_context_peers[p]
           \/ Owned(p, set_context_peers[p])'
      BY <1>1, <2>6 DEF Owned
  <2>8. QED
      BY <1>0, <1>1, <1>2, <2>1, <2>5, <2>7, NamesKept
<1>5. CASE ReceiveReadyMessage
  <2> DEFINE e == Head(pm_to_hm)
  <2>1. /\ Range(pm_to_hm') \subseteq Range(pm_to_hm) /\ hm_to_pm' = hm_to_pm
        /\ OwnedEvent(e) /\ e.type = "ReadyMessage" /\ hm = Select
      BY <1>3, <1>5 DEF ReceiveReadyMessage
  <2>2. Owned(e.peerid, e.message.conn) /\ UNCHANGED set_context_peers
      BY <1>5, <2>1 DEF OwnedEvent, ReceiveReadyMessage
  <2>3. hm' = Select \/ \E w \in Sends : hm' = Sending(w, e.peerid, e.message.conn)
      BY <1>5, <2>1 DEF ReceiveReadyMessage, OnVersion, OnVerack, Sends
  <2>4. hm'.at \in Sends => Owned(hm'.peerid, hm'.conn)
      BY <2>2, <2>3 DEF Select, Sending, Sends
  <2>5. hm'.at \in Sends => Owned(hm.peerid, hm.conn)'
      BY <1>1, <2>4 DEF Owned
  <2>6. QED
      BY <1>0, <1>1, <1>2, <2>1, <2>2, <2>5, NamesKept
<1>6. CASE ReceiveCompletedPeer \/ ReceiveCompletedAllPeer
  <2>1. /\ Range(pm_to_hm') \subseteq Range(pm_to_hm) /\ hm_to_pm' = hm_to_pm /\ hm' = hm
      BY <1>3, <1>6 DEF ReceiveCompletedPeer, ReceiveCompletedAllPeer
  <2>2. \A p \in DOMAIN set_context_peers' :
           p \in DOMAIN set_context_peers /\ set_context_peers'[p] = set_context_peers[p]
    <3>1. CASE ReceiveCompletedPeer
        BY <3>1 DEF ReceiveCompletedPeer, Remove, Restrict
    <3>2. CASE ReceiveCompletedAllPeer
        BY <3>2, EmptyIsHashMap DEF ReceiveCompletedAllPeer
    <3>3. QED
        BY <1>6, <3>1, <3>2
  <2>3. QED
      BY <1>0, <1>1, <1>2, <2>1, <2>2, NamesKept
<1>7. ASSUME hm.at \in Sends, NEW e \in EventsToPeerManager, OwnedEvent(e), SendToPM(e),
             hm' = Select \/ \E w \in Sends : hm' = Sending(w, hm.peerid, hm.conn)
      PROVE  Named'
  <2>1. Range(Append(hm_to_pm, e)) = Range(hm_to_pm) \cup {e}
      BY <1>7, NodeFacts, RangeOfAppend
  <2>2. OwnedEvent(e)'
      BY <1>2, <1>7 DEF OwnedEvent
  <2>3. hm'.at \in Sends => Owned(hm'.peerid, hm'.conn)
      BY <1>7 DEF Select, Sending, Sends, NodeInv, Named
  <2>4. hm'.at \in Sends => Owned(hm.peerid, hm.conn)'
      BY <1>1, <2>3 DEF Owned
  <2>5. hm_to_pm' = Append(hm_to_pm, e) /\ UNCHANGED << set_context_peers, pm_to_hm >>
      BY <1>7 DEF SendToPM
  <2>6. \A f \in Range(hm_to_pm') : f \in Range(hm_to_pm) \/ OwnedEvent(f)'
      BY <2>1, <2>2, <2>5
  <2>7. QED
      BY <1>0, <1>1, <1>2, <2>4, <2>5, <2>6, NamesKept
<1>8. ASSUME hm.at \in Sends, NEW cmd \in {"version", "verack"}
      PROVE  Reply(cmd) \in EventsToPeerManager /\ OwnedEvent(Reply(cmd))
  <2>1. Reply(cmd) \in EventsToPeerManager /\ hm.peerid \in DOMAIN set_context_peers
      BY <1>0, <1>8, HandFields
  <2>2. Owned(hm.peerid, set_context_peers[hm.peerid])
      BY <1>0, <2>1 DEF Named
  <2>3. QED
      BY <2>1, <2>2 DEF Reply, ReadyMessage, OwnedEvent
<1>9. CASE SendNewVersion \/ SendReplyVersion \/ SendReplyVerack
    BY <1>7, <1>8, <1>9 DEF SendNewVersion, SendReplyVersion, SendReplyVerack, Sends
<1>10. CASE SendViolent
  <2>1. hm.at \in Sends /\ Violent(hm.peerid, hm.conn) \in EventsToPeerManager
      BY <1>0, <1>10, HandFields DEF SendViolent, Sends
  <2>2. OwnedEvent(Violent(hm.peerid, hm.conn))
      BY <1>0, <2>1 DEF Named, OwnedEvent, Violent
  <2>3. QED
      BY <1>7, <1>10, <2>1, <2>2 DEF SendViolent
<1>11. CASE SendFails \/ Stop
  <2>1. /\ hm'.at \notin Sends /\ hm_to_pm' = hm_to_pm /\ UNCHANGED set_context_peers
        /\ Range(pm_to_hm') \subseteq Range(pm_to_hm)
      BY <1>11, RangeOfEmpty DEF SendFails, Stop, Return, Select, Returned, Sends
  <2>2. QED
      BY <1>0, <1>1, <1>2, <2>1, NamesKept
<1>12. QED
    BY <1>0, <1>4, <1>5, <1>6, <1>9, <1>10, <1>11 DEF HMNext

(* Every step of the node names events right and keeps ids bounded.        *)
LEMMA NodeNames ==
    ASSUME NodeInv, [NodeNext]_nodeVars
    PROVE  Named' /\ IdsBounded'
<1>1. (\A p, c : Owned(p, c) => Owned(p, c)') /\ IdsBounded'
    BY NodeStepIsPM, OwnedStays
<1>2. CASE NodePM
    BY <1>1, <1>2, PeerManagerNames
<1>3. CASE NodeHM
    BY <1>1, <1>3, HandleMessageNames
<1>4. ASSUME NEW c \in Conns, NodePeer(c) PROVE Named'
    BY <1>1, <1>4, PeerNames
<1>5. CASE NodeSupervisors \/ UNCHANGED nodeVars
  <2>1. UNCHANGED << pm_to_hm, hm_to_pm, peer_to_pm, pm, hm, set_context_peers, peer >>
      BY <1>5 DEF NodeSupervisors, EnvSupervisor, EnvThreadProtocol, nodeVars
  <2>2. QED
      BY <1>1, <2>1, NamesKept DEF NodeInv
<1>6. QED
    BY <1>1, <1>2, <1>3, <1>4, <1>5 DEF NodeNext

-----------------------------------------------------------------------------
(* The Peers.                                                              *)

(* A step of a Peer keeps the types of what it has read, written and in    *)
(* its hand.                                                               *)
LEMMA PeerStepTypes ==
    ASSUME PeerOwnTypeOK, pm_to_peer \in [Conns -> Seq(EventsToPeer)],
           NEW c \in Conns, PeerNext(c)
    PROVE  PeerOwnTypeOK' /\ pm_to_peer' \in [Conns -> Seq(EventsToPeer)]
<1> DEFINE States == {PeerLoop, PeerClosing} \cup [at : {"to_pm"}, message : Message]
<1>0. /\ peer \in [Conns -> States]
      /\ read \in [Conns -> Seq(Command)]
      /\ wrote \in [Conns -> Seq(Message)]
    BY DEF PeerOwnTypeOK
<1>1. ASSUME NEW s \in States PROVE [peer EXCEPT ![c] = s] \in [Conns -> States]
    BY <1>0, <1>1
<1>2. PeerLoop \in States /\ PeerClosing \in States
    OBVIOUS
<1>3. ASSUME NEW cmd \in Command, PeerReads(c, cmd)
      PROVE  PeerOwnTypeOK' /\ UNCHANGED pm_to_peer
  <2>1. Forward([cmd |-> cmd, conn |-> c]) \in States
      BY DEF Forward, Message
  <2>2. peer' \in [Conns -> States]
      BY <1>1, <1>3, <2>1 DEF PeerReads, Become
  <2>3. read' \in [Conns -> Seq(Command)]
      BY <1>0, <1>3, AppendToOne DEF PeerReads
  <2>4. QED
      BY <1>0, <1>3, <2>2, <2>3 DEF PeerReads, PeerOwnTypeOK
<1>4. CASE PeerSubtaskEnds(c) \/ PeerOrphaned(c)
    BY <1>0, <1>1, <1>2, <1>4 DEF PeerSubtaskEnds, PeerOrphaned, Become, PeerOwnTypeOK
<1>5. CASE PeerForwards(c)
  <2>1. peer' \in [Conns -> States]
      BY <1>1, <1>2, <1>5 DEF PeerForwards, Become
  <2>2. QED
      BY <1>0, <1>5, <2>1 DEF PeerForwards, PeerOwnTypeOK
<1>6. CASE PeerReceives(c)
  <2> DEFINE e == Head(pm_to_peer[c])
  <2>1. e \in EventsToPeer /\ Tail(pm_to_peer[c]) \in Seq(EventsToPeer)
    <3>1. pm_to_peer[c] \in Seq(EventsToPeer) /\ pm_to_peer[c] # << >>
        BY <1>6 DEF PeerReceives
    <3>2. QED
        BY <3>1, RangeOfTail
  <2>2. pm_to_peer' \in [Conns -> Seq(EventsToPeer)]
      BY <1>6, <2>1 DEF PeerReceives
  <2>3. wrote' \in [Conns -> Seq(Message)]
    <3>1. CASE e # Shutdown /\ wrote' = [wrote EXCEPT ![c] = Append(@, e.message)]
      <4>1. e.message \in Message
          BY <2>1, <3>1 DEF EventsToPeer
      <4>2. QED
          BY <1>0, <3>1, <4>1, AppendToOne
    <3>2. QED
        BY <1>0, <1>6, <3>1 DEF PeerReceives
  <2>4. peer' \in [Conns -> States]
      BY <1>0, <1>1, <1>2, <1>6 DEF PeerReceives, Become
  <2>5. QED
      BY <1>0, <1>6, <2>2, <2>3, <2>4 DEF PeerReceives, PeerOwnTypeOK
<1>7. CASE PeerReturns(c)
  <2>1. << >> \in Seq(EventsToPeer)
      OBVIOUS
  <2>2. pm_to_peer' \in [Conns -> Seq(EventsToPeer)]
      BY <1>7, <2>1 DEF PeerReturns
  <2>3. QED
      BY <1>0, <1>7, <2>2 DEF PeerReturns, PeerOwnTypeOK
<1>8. PeerOwnTypeOK' /\ (UNCHANGED pm_to_peer \/ pm_to_peer' \in [Conns -> Seq(EventsToPeer)])
  <2>1. CASE PeerReceives(c) \/ PeerReturns(c)
      BY <1>6, <1>7, <2>1
  <2>2. QED
      BY <1>3, <1>4, <1>5, <2>1 DEF PeerNext, PeerTurn
<1>9. QED
    BY <1>8

(* Every step of the node keeps the types of what the Peers hold.          *)
LEMMA NodePeerTypes ==
    ASSUME NodeInv, [NodeNext]_nodeVars
    PROVE  PeerOwnTypeOK'
<1>1. PeerOwnTypeOK /\ pm_to_peer \in [Conns -> Seq(EventsToPeer)]
    BY NodeFacts DEF NodeInv
<1>2. ASSUME NEW c \in Conns, NodePeer(c) PROVE PeerOwnTypeOK'
    BY <1>1, <1>2, PeerStepTypes DEF NodePeer
<1>3. CASE NodePM \/ NodeHM \/ NodeSupervisors \/ UNCHANGED nodeVars
    BY <1>1, <1>3 DEF NodePM, NodeHM, NodeSupervisors, nodeVars, PeerOwnTypeOK
<1>4. QED
    BY <1>2, <1>3 DEF NodeNext

(* PeerManager's ends of the channels are given up by its return alone.    *)
LEMMA NodeUpUntilDone ==
    ASSUME NodeInv, [NodeNext]_nodeVars
    PROVE  UpUntilDone'
<1>1. CASE UNCHANGED << pm, pm_up >>
    BY <1>1 DEF NodeInv, UpUntilDone
<1>2. CASE pm_up /\ UNCHANGED pm_up /\ pm'.at # "done"
    BY <1>2 DEF UpUntilDone
<1>3. CASE pm_up' = FALSE /\ pm'.at = "done"
    BY <1>3 DEF UpUntilDone
<1>4. CASE NodePM
  <2>1. PMNext /\ (pm.at # "done" => pm_up) /\ Loop.at # "done"
      BY <1>4, NodeFacts DEF NodePM, Loop
  <2>2. ASSUME NEW c \in Conns, AddPeer(c), pm = Loop PROVE UpUntilDone'
      BY <1>2, <2>1, <2>2 DEF AddPeer, ToProtocol
  <2>3. ASSUME NEW c \in Conns, CreateFails(c) \/ DrainPeer(c) PROVE UpUntilDone'
      BY <1>1, <2>3 DEF CreateFails, DrainPeer, Join
  <2>4. ASSUME NEW c \in Conns, JoinPeer(c) PROVE UpUntilDone'
      BY <1>2, <2>1, <2>4 DEF JoinPeer, Join, ToProtocol
  <2>5. CASE ReceiveFromProtocol \/ SendPeer \/ ReceiveFromPeer \/ SendProtocol
      BY <1>2, <2>1, <2>5 DEF ReceiveFromProtocol, SendPeer, ReceiveFromPeer, SendProtocol,
                              Loop, ToPeer, ToProtocol, Bulk
  <2>6. ASSUME NEW r \in Reason, Terminate(r) PROVE UpUntilDone'
      BY <1>2, <2>1, <2>6 DEF Terminate, Bulk
  <2>7. ASSUME NEW p \in DOMAIN set_all_peers, BulkPick(p) PROVE UpUntilDone'
      BY <1>2, <2>1, <2>7 DEF BulkPick, BulkTo
  <2>8. CASE BulkSend \/ BulkEnd
      BY <1>2, <2>1, <2>8 DEF BulkSend, BulkEnd, Bulk, Drain
  <2>9. CASE PMReturn
      BY <1>3, <2>9 DEF PMReturn, Done
  <2>10. QED
      BY <2>1, <2>2, <2>3, <2>4, <2>5, <2>6, <2>7, <2>8, <2>9
      DEF PMNext, IncomingConnection, OutgoingConnection
<1>5. CASE NodeHM
    BY <1>1, <1>5 DEF NodeHM, HMNext, ReceiveNewConnection, ReceiveReadyMessage,
       ReceiveCompletedPeer, ReceiveCompletedAllPeer, Receive, SendNewVersion,
       SendReplyVersion, SendReplyVerack, SendViolent, SendToPM, SendFails, Stop, Return
<1>6. ASSUME NEW c \in Conns, NodePeer(c) PROVE UpUntilDone'
    BY <1>1, <1>6 DEF NodePeer, PeerNext, PeerTurn, PeerReads, PeerSubtaskEnds, PeerForwards,
                PeerReceives, PeerOrphaned, PeerReturns
<1>7. CASE NodeSupervisors \/ UNCHANGED nodeVars
    BY <1>1, <1>7 DEF NodeSupervisors, EnvSupervisor, EnvThreadProtocol, nodeVars
<1>8. QED
    BY <1>4, <1>5, <1>6, <1>7 DEF NodeNext

(* The invariant holds at the start.                                       *)
LEMMA NodeInitInv ==
    ASSUME NodeInit
    PROVE  NodeInv
<1>1. PMInv /\ HMInv
    BY PMInitInv, HMInitInv DEF NodeInit, PMInit, HMInit
<1>2. PeerOwnTypeOK
    BY DEF NodeInit, PeerOwnInit, PeerOwnTypeOK
<1>3. Named
    BY RangeOfEmpty, EmptyIsHashMap DEF NodeInit, PMInit, ChanInit, HMOwnInit, PeerOwnInit,
       Named, Loop, Select, Sends, PeerLoop
<1>4. IdsBounded /\ UpUntilDone
    BY EmptyIsHashMap DEF NodeInit, PMInit, ChanInit, IdsBounded, UpUntilDone, Loop
<1>5. QED
    BY <1>1, <1>2, <1>3, <1>4 DEF NodeInv

(* Every step of the node keeps the invariant.                             *)
LEMMA NodeNextInv ==
    ASSUME NodeInv, [NodeNext]_nodeVars
    PROVE  NodeInv'
<1>1. PMInv'
    BY NodeStepIsPM, PMNextInv DEF NodeInv
<1>2. HMInv'
    BY NodeStepIsHM, HMNextStep DEF NodeInv, HMStep
<1>3. QED
    BY <1>1, <1>2, NodeNames, NodePeerTypes, NodeUpUntilDone DEF NodeInv

(* NodeInv is an invariant of the node.                                    *)
THEOREM NodeInvariance == NodeSpec => []NodeInv
<1>1. NodeInit => NodeInv
    BY NodeInitInv
<1>2. NodeInv /\ [NodeNext]_nodeVars => NodeInv'
    BY NodeNextInv
<1>3. QED
    BY <1>1, <1>2, PTL DEF NodeSpec

(* The node is one of the surroundings PeerManager was proved correct in:  *)
(* every theorem about PMSpec holds of the node.                           *)
THEOREM NodeImplementsPM == NodeSpec => PMSpec
<1>1. NodeInit => PMInit
    BY DEF NodeInit
<1>2. NodeInv /\ [NodeNext]_nodeVars => [PMNext \/ PMEnv]_pmVars
    BY NodeStepIsPM
<1>3. QED
    BY <1>1, <1>2, NodeInvariance, PTL DEF NodeSpec, PMSpec

(* So it is with HandleMessage.                                            *)
THEOREM NodeImplementsHM == NodeSpec => HMSpec
<1>1. NodeInit => HMInit
    BY DEF NodeInit, PMInit, HMInit
<1>2. NodeInv /\ [NodeNext]_nodeVars => [HMNext \/ HMEnv]_hmVars
    BY NodeStepIsHM
<1>3. QED
    BY <1>1, <1>2, NodeInvariance, PTL DEF NodeSpec, HMSpec

(* The handshakes of the whole node keep to the road of their direction,   *)
(* whatever the remotes send and however ids are used again.               *)
THEOREM NodeImplementsHandshake == NodeSpec => ImplementsHandshake
BY NodeImplementsHM, HMImplementsHandshake, PTL

(* No entry of the registry of the running node leads to a joined Peer.    *)
THEOREM NodeRegistrySound == NodeSpec => []RegistrySound
BY NodeImplementsPM, PMRegistrySound, PTL

(* The bounds of the channels of the Peers.                                *)
PeerChannelsBounded ==
    /\ Len(peer_to_pm) <= Capacity
    /\ \A c \in Conns : Len(pm_to_peer[c]) <= Capacity

(* A channel that takes an event only while it has room keeps its bound.   *)
LEMMA BoundKept ==
    ASSUME NEW S, NEW q \in Seq(S), Len(q) <= Capacity
    PROVE  /\ \A e : HasRoom(q) => Len(Append(q, e)) <= Capacity
           /\ q # << >> => Len(Tail(q)) <= Capacity
           /\ Len(<< >>) <= Capacity
<1>1. Len(q) \in Nat /\ Capacity \in Nat
    BY CapacityAssumption
<1>2. \A e : Len(Append(q, e)) = Len(q) + 1
    OBVIOUS
<1>3. q # << >> => Len(Tail(q)) = Len(q) - 1
    OBVIOUS
<1>4. QED
    BY <1>1, <1>2, <1>3 DEF HasRoom

(* No step of the node sends to a full channel of a Peer.                  *)
LEMMA PeerBoundsKept ==
    ASSUME NodeInv, PeerChannelsBounded, [NodeNext]_nodeVars
    PROVE  PeerChannelsBounded'
<1>0. /\ peer_to_pm \in Seq(ReadyMessageEvent)
      /\ pm_to_peer \in [Conns -> Seq(EventsToPeer)]
      /\ \A c \in Conns : pm_to_peer[c] \in Seq(EventsToPeer) /\ Len(pm_to_peer[c]) <= Capacity
      /\ Len(peer_to_pm) <= Capacity
    BY NodeFacts DEF PeerChannelsBounded
<1>1. ASSUME \/ peer_to_pm' = peer_to_pm
             \/ peer_to_pm' = << >>
             \/ peer_to_pm # << >> /\ peer_to_pm' = Tail(peer_to_pm)
             \/ HasRoom(peer_to_pm) /\ \E e : peer_to_pm' = Append(peer_to_pm, e)
      PROVE  Len(peer_to_pm') <= Capacity
    BY <1>0, <1>1, BoundKept
<1>2. ASSUME \/ pm_to_peer' = pm_to_peer
             \/ \E c \in Conns :
                   \/ pm_to_peer' = [pm_to_peer EXCEPT ![c] = << >>]
                   \/ pm_to_peer[c] # << >> /\ pm_to_peer' = [pm_to_peer EXCEPT ![c] = Tail(@)]
                   \/ /\ HasRoom(pm_to_peer[c])
                      /\ \E e : pm_to_peer' = [pm_to_peer EXCEPT ![c] = Append(@, e)]
      PROVE  \A d \in Conns : Len(pm_to_peer'[d]) <= Capacity
  <2>1. CASE pm_to_peer' = pm_to_peer
      BY <1>0, <2>1
  <2>2. ASSUME NEW c \in Conns, NEW q, Len(q) <= Capacity, pm_to_peer' = [pm_to_peer EXCEPT ![c] = q]
        PROVE  \A d \in Conns : Len(pm_to_peer'[d]) <= Capacity
      BY <1>0, <2>2
  <2>3. ASSUME NEW c \in Conns, pm_to_peer' = [pm_to_peer EXCEPT ![c] = << >>]
        PROVE  \A d \in Conns : Len(pm_to_peer'[d]) <= Capacity
    <3>1. Len(<< >>) <= Capacity
        BY <1>0, BoundKept
    <3>2. QED
        BY <2>2, <2>3, <3>1
  <2>4. ASSUME NEW c \in Conns, pm_to_peer[c] # << >>,
               pm_to_peer' = [pm_to_peer EXCEPT ![c] = Tail(@)]
        PROVE  \A d \in Conns : Len(pm_to_peer'[d]) <= Capacity
    <3>1. Len(Tail(pm_to_peer[c])) <= Capacity
        BY <1>0, <2>4, BoundKept
    <3>2. QED
        BY <2>2, <2>4, <3>1
  <2>5. ASSUME NEW c \in Conns, HasRoom(pm_to_peer[c]), NEW e,
               pm_to_peer' = [pm_to_peer EXCEPT ![c] = Append(@, e)]
        PROVE  \A d \in Conns : Len(pm_to_peer'[d]) <= Capacity
    <3>1. Len(Append(pm_to_peer[c], e)) <= Capacity
        BY <1>0, <2>5, BoundKept
    <3>2. QED
        BY <2>2, <2>5, <3>1
  <2>6. QED
      BY <1>2, <2>1, <2>3, <2>4, <2>5
<1>3. CASE NodePM
  <2>1. PMNext
      BY <1>3 DEF NodePM
  <2>2. CASE SendPeer \/ BulkSend
    <3>1. PICK c : c = set_all_peers[pm.peerid]
        OBVIOUS
    <3>2. /\ UNCHANGED peer_to_pm
          /\ \/ UNCHANGED pm_to_peer
             \/ /\ c \in running_peers /\ HasRoom(pm_to_peer[c])
                /\ \E e : pm_to_peer' = [pm_to_peer EXCEPT ![c] = Append(@, e)]
        BY <2>2, <3>1 DEF SendPeer, BulkSend
    <3>3. running_peers \subseteq Conns
        BY NodeFacts DEF HashMap
    <3>4. QED
        BY <1>1, <1>2, <3>2, <3>3 DEF PeerChannelsBounded
  <2>3. CASE ReceiveFromPeer \/ PMReturn
      BY <1>1, <1>2, <2>3 DEF ReceiveFromPeer, PMReturn, PeerChannelsBounded
  <2>4. CASE ~(SendPeer \/ BulkSend \/ ReceiveFromPeer \/ PMReturn)
    <3>1. UNCHANGED << peer_to_pm, pm_to_peer >>
        BY <2>1, <2>4 DEF PMNext, IncomingConnection, OutgoingConnection, AddPeer, CreateFails,
           JoinPeer, DrainPeer, Join, ReceiveFromProtocol, SendProtocol, Terminate, BulkPick,
           BulkEnd
    <3>2. QED
        BY <1>1, <1>2, <3>1 DEF PeerChannelsBounded
  <2>5. QED
      BY <2>2, <2>3, <2>4
<1>4. ASSUME NEW c \in Conns, NodePeer(c) PROVE PeerChannelsBounded'
  <2>1. PeerNext(c)
      BY <1>4 DEF NodePeer
  <2>2. CASE PeerForwards(c)
      BY <1>1, <1>2, <2>2 DEF PeerForwards, PeerChannelsBounded
  <2>3. CASE PeerReceives(c) \/ PeerReturns(c)
      BY <1>1, <1>2, <2>3 DEF PeerReceives, PeerReturns, PeerChannelsBounded
  <2>4. ASSUME NEW cmd \in Command, PeerReads(c, cmd) PROVE PeerChannelsBounded'
      BY <1>1, <1>2, <2>4 DEF PeerReads, PeerChannelsBounded
  <2>5. CASE PeerSubtaskEnds(c) \/ PeerOrphaned(c)
      BY <1>1, <1>2, <2>5 DEF PeerSubtaskEnds, PeerOrphaned, PeerChannelsBounded
  <2>6. QED
      BY <2>1, <2>2, <2>3, <2>4, <2>5 DEF PeerNext, PeerTurn
<1>5. CASE NodeHM \/ NodeSupervisors \/ UNCHANGED nodeVars
  <2>1. UNCHANGED << peer_to_pm, pm_to_peer >>
      BY <1>5 DEF NodeHM, HMNext, ReceiveNewConnection, ReceiveReadyMessage,
         ReceiveCompletedPeer, ReceiveCompletedAllPeer, Receive, SendNewVersion,
         SendReplyVersion, SendReplyVerack, SendViolent, SendToPM, SendFails, Stop, Return,
         NodeSupervisors, EnvSupervisor, EnvThreadProtocol, nodeVars
  <2>2. QED
      BY <1>1, <1>2, <2>1 DEF PeerChannelsBounded
<1>6. QED
    BY <1>3, <1>4, <1>5 DEF NodeNext

(* What the Peers have read, written and in hand has its type, and no      *)
(* channel from or to them ever holds more than its bound.                 *)
THEOREM NodePeerTypeCorrect == NodeSpec => []PeerTypeOK
<1>1. NodeInit => PeerChannelsBounded
    BY CapacityAssumption DEF NodeInit, PMInit, ChanInit, PeerChannelsBounded
<1>2. NodeInv /\ PeerChannelsBounded /\ [NodeNext]_nodeVars => PeerChannelsBounded'
    BY PeerBoundsKept
<1>3. NodeInv /\ PeerChannelsBounded => PeerTypeOK
    BY DEF NodeInv, PeerChannelsBounded, PeerTypeOK
<1>4. QED
    BY <1>1, <1>2, <1>3, NodeInvariance, PTL DEF NodeSpec

-----------------------------------------------------------------------------
(* HandleMessage leaks no entry.                                           *)

(* What is awaited stays so while nothing is received, sent or joined.     *)
LEMMA AwaitedStays ==
    ASSUME UNCHANGED pm_to_hm,
           \A c \in set_task_peers : c \in set_task_peers' /\ set_id_peers'[c] = set_id_peers[c],
           NEW p, NEW i, Awaited(p, i),
           pm = ToProtocol(CompletedPeer(p)) => pm' = pm
    PROVE  Awaited(p, i)'
BY DEF Awaited

(* A receive brings what is awaited nearer.                                *)
LEMMA AwaitedNearer ==
    ASSUME NodeInv, pm_to_hm # << >>, pm_to_hm' = Tail(pm_to_hm),
           UNCHANGED << set_task_peers, set_id_peers, pm >>,
           NEW p, NEW i \in Nat,
           \/ Awaited(p, i + 1)
           \/ i = 0 /\ Awaited(p, 0) /\ Head(pm_to_hm) # CompletedPeer(p)
    PROVE  Awaited(p, i)'
<1>1. /\ pm_to_hm \in Seq(EventsToHandleMessage) /\ Len(pm_to_hm) \in Nat
      /\ DOMAIN pm_to_hm = 1..Len(pm_to_hm) /\ Head(pm_to_hm) = pm_to_hm[1]
      /\ DOMAIN pm_to_hm' = 1..(Len(pm_to_hm) - 1)
      /\ \A k \in DOMAIN pm_to_hm' : pm_to_hm'[k] = pm_to_hm[k + 1]
    BY NodeFacts
<1>2. ASSUME NEW j \in DOMAIN pm_to_hm, j - 1 > i, pm_to_hm[j] = CompletedPeer(p)
      PROVE  Awaited(p, i)'
  <2>1. j - 1 \in DOMAIN pm_to_hm' /\ (j - 1) + 1 = j
      BY <1>1, <1>2
  <2>2. pm_to_hm'[j - 1] = CompletedPeer(p)
      BY <1>1, <1>2, <2>1
  <2>3. QED
      BY <1>2, <2>1, <2>2 DEF Awaited
<1>3. ASSUME NEW j \in DOMAIN pm_to_hm, pm_to_hm[j] = CompletedPeer(p),
             j > i + 1 \/ (i = 0 /\ j > 0 /\ Head(pm_to_hm) # CompletedPeer(p))
      PROVE  j - 1 > i
    BY <1>1, <1>3
<1>4. QED
    BY <1>2, <1>3 DEF Awaited

(* What PeerManager has in hand is awaited once it is sent.                *)
LEMMA AwaitedSent ==
    ASSUME NodeInv, pm.at = "to_protocol", pm_to_hm' = Append(pm_to_hm, pm.event),
           UNCHANGED << set_task_peers, set_id_peers >>,
           NEW p, NEW i \in 0..Len(pm_to_hm), Awaited(p, i)
    PROVE  Awaited(p, i)'
<1>1. /\ pm_to_hm \in Seq(EventsToHandleMessage) /\ Len(pm_to_hm) \in Nat
      /\ DOMAIN pm_to_hm = 1..Len(pm_to_hm)
    BY NodeFacts
<1>2. /\ DOMAIN pm_to_hm' = 1..(Len(pm_to_hm) + 1)
      /\ pm_to_hm'[Len(pm_to_hm) + 1] = pm.event
      /\ \A j \in DOMAIN pm_to_hm : pm_to_hm'[j] = pm_to_hm[j]
    BY <1>1
<1>3. CASE pm = ToProtocol(CompletedPeer(p))
  <2>1. pm.event = CompletedPeer(p)
      BY <1>3 DEF ToProtocol
  <2>2. Len(pm_to_hm) + 1 \in DOMAIN pm_to_hm' /\ Len(pm_to_hm) + 1 > i
      BY <1>1, <1>2
  <2>3. QED
      BY <1>2, <2>1, <2>2 DEF Awaited
<1>4. CASE \E c \in set_task_peers : set_id_peers[c] = p
    BY <1>4 DEF Awaited
<1>5. ASSUME NEW j \in DOMAIN pm_to_hm, j > i, pm_to_hm[j] = CompletedPeer(p)
      PROVE  Awaited(p, i)'
  <2>1. j \in DOMAIN pm_to_hm' /\ pm_to_hm'[j] = CompletedPeer(p)
      BY <1>1, <1>2, <1>5
  <2>2. QED
      BY <1>5, <2>1 DEF Awaited
<1>6. QED
    BY <1>3, <1>4, <1>5 DEF Awaited

(* The parts of NoLeakInv.                                                 *)
ContextsAwaited == \A p \in DOMAIN set_context_peers : Awaited(p, 0)

NewsAwaited ==
    \A i \in DOMAIN pm_to_hm :
        pm_to_hm[i].type = "NewConnection" => Awaited(pm_to_hm[i].peerid, i)

NewsInHand ==
    pm.at = "to_protocol" /\ pm.event.type = "NewConnection" => pm.event.conn \in set_task_peers

(* The invariant by its parts, before a step and after it.                 *)
LEMMA NoLeakParts ==
    /\ NoLeakInv <=> (Serving /\ hm_up => ContextsAwaited /\ NewsAwaited /\ NewsInHand)
    /\ NoLeakInv' <=> (Serving' /\ hm_up' => ContextsAwaited' /\ NewsAwaited' /\ NewsInHand')
BY DEF NoLeakInv, ContextsAwaited, NewsAwaited, NewsInHand

(* A step that leaves queue and contexts alone and joins no Peer, or       *)
(* announces the one it joins.                                             *)
LEMMA NoLeakQuiet ==
    ASSUME NodeInv, ContextsAwaited, NewsAwaited, UNCHANGED << pm_to_hm, set_context_peers >>,
           \A c \in set_task_peers : c \in set_task_peers' /\ set_id_peers'[c] = set_id_peers[c],
           pm' = pm \/ pm.at # "to_protocol"
    PROVE  ContextsAwaited' /\ NewsAwaited'
<1>1. \A p : pm = ToProtocol(CompletedPeer(p)) => pm' = pm
    BY DEF ToProtocol
<1>2. \A p, i : Awaited(p, i) => Awaited(p, i)'
    BY <1>1, AwaitedStays
<1>3. ContextsAwaited'
    BY <1>2 DEF ContextsAwaited
<1>4. ASSUME NEW i \in DOMAIN pm_to_hm, pm_to_hm[i].type = "NewConnection"
      PROVE  Awaited(pm_to_hm[i].peerid, i)'
  <2>1. PICK p : p = pm_to_hm[i].peerid
      OBVIOUS
  <2>2. Awaited(p, i)'
      BY <1>2, <1>4, <2>1 DEF NewsAwaited
  <2>3. QED
      BY <2>1, <2>2 DEF Awaited
<1>5. QED
    BY <1>3, <1>4 DEF NewsAwaited

(* A Peer is joined: what awaited it awaits the CompletedPeer in           *)
(* PeerManager's hand.                                                     *)
LEMMA NoLeakJoin ==
    ASSUME NodeInv, ContextsAwaited, NewsAwaited, UNCHANGED << pm_to_hm, set_context_peers >>,
           NEW c \in Conns, JoinPeer(c)
    PROVE  ContextsAwaited' /\ NewsAwaited' /\ NewsInHand'
<1>0. /\ pm = Loop /\ pm' = ToProtocol(CompletedPeer(set_id_peers[c]))
      /\ set_task_peers' = set_task_peers \ {c} /\ UNCHANGED << set_id_peers, pm_to_hm >>
    BY DEF JoinPeer, Join
<1>1. \A p, i : Awaited(p, i) => Awaited(p, i)'
  <2> SUFFICES ASSUME NEW p, NEW i, Awaited(p, i) PROVE Awaited(p, i)'
      OBVIOUS
  <2>1. CASE p = set_id_peers[c]
      BY <1>0, <2>1 DEF Awaited
  <2>2. CASE p # set_id_peers[c]
    <3>1. pm # ToProtocol(CompletedPeer(p))
        BY <1>0 DEF Loop, ToProtocol
    <3>2. QED
        BY <1>0, <2>2, <3>1 DEF Awaited
  <2>3. QED
      BY <2>1, <2>2
<1>2. ContextsAwaited'
    BY <1>1 DEF ContextsAwaited
<1>3. NewsAwaited'
  <2> SUFFICES ASSUME NEW i \in DOMAIN pm_to_hm, pm_to_hm[i].type = "NewConnection"
               PROVE  Awaited(pm_to_hm[i].peerid, i)'
      BY <1>0 DEF NewsAwaited
  <2>1. PICK p : p = pm_to_hm[i].peerid
      OBVIOUS
  <2>2. Awaited(p, i)'
      BY <1>1, <2>1 DEF NewsAwaited
  <2>3. QED
      BY <1>0, <2>1, <2>2 DEF Awaited
<1>4. NewsInHand'
    BY <1>0 DEF NewsInHand, ToProtocol, CompletedPeer
<1>5. QED
    BY <1>2, <1>3, <1>4

(* The event in PeerManager's hand is queued behind all the others.        *)
LEMMA NoLeakSend ==
    ASSUME NodeInv, ContextsAwaited, NewsAwaited, NewsInHand, UNCHANGED set_context_peers,
           SendProtocol, pm' = Loop, pm_to_hm' = Append(pm_to_hm, pm.event)
    PROVE  ContextsAwaited' /\ NewsAwaited' /\ NewsInHand'
<1>0. /\ pm.at = "to_protocol" /\ UNCHANGED << set_task_peers, set_id_peers >>
      /\ pm_to_hm \in Seq(EventsToHandleMessage) /\ Len(pm_to_hm) \in Nat
      /\ DOMAIN pm_to_hm = 1..Len(pm_to_hm)
    BY NodeFacts DEF SendProtocol
<1>1. /\ DOMAIN pm_to_hm' = 1..(Len(pm_to_hm) + 1)
      /\ pm_to_hm'[Len(pm_to_hm) + 1] = pm.event
      /\ \A j \in DOMAIN pm_to_hm : pm_to_hm'[j] = pm_to_hm[j]
    BY <1>0
<1>2. \A p : \A i \in 0..Len(pm_to_hm) : Awaited(p, i) => Awaited(p, i)'
    BY <1>0, AwaitedSent
<1>3. ContextsAwaited'
  <2>1. 0 \in 0..Len(pm_to_hm)
      BY <1>0
  <2>2. QED
      BY <1>2, <2>1 DEF ContextsAwaited
<1>4. NewsAwaited'
  <2> SUFFICES ASSUME NEW i \in DOMAIN pm_to_hm', pm_to_hm'[i].type = "NewConnection",
                      NEW p, p = pm_to_hm'[i].peerid
               PROVE  Awaited(p, i)'
      BY DEF NewsAwaited, Awaited
  <2>1. CASE i \in DOMAIN pm_to_hm
    <3>1. pm_to_hm'[i] = pm_to_hm[i] /\ i \in 0..Len(pm_to_hm)
        BY <1>0, <1>1, <2>1
    <3>2. Awaited(p, i)
        BY <2>1, <3>1 DEF NewsAwaited
    <3>3. QED
        BY <1>2, <3>1, <3>2
  <2>2. CASE i \notin DOMAIN pm_to_hm
    <3>1. pm_to_hm'[i] = pm.event
        BY <1>0, <1>1, <2>2
    <3>2. pm.event.conn \in set_task_peers /\ Owned(p, pm.event.conn)
        BY <1>0, <3>1 DEF NewsInHand, NodeInv, Named, OwnedEvent
    <3>3. QED
        BY <1>0, <3>2 DEF Awaited, Owned
  <2>3. QED
      BY <2>1, <2>2
<1>5. NewsInHand'
    BY DEF NewsInHand, Loop
<1>6. QED
    BY <1>3, <1>4, <1>5

(* PeerManager keeps every entry awaited.                                  *)
LEMMA NoLeakPM ==
    ASSUME NodeInv, NoLeakInv, NodePM
    PROVE  NoLeakInv'
<1>0. /\ UNCHANGED << set_context_peers, hm >> /\ PMNext /\ hm_up' = hm_up
  <2>1. PMNext /\ UNCHANGED << set_context_peers, hm >>
      BY DEF NodePM
  <2>2. QED
      BY <2>1 DEF PMNext, IncomingConnection, OutgoingConnection, AddPeer, CreateFails, JoinPeer,
         DrainPeer, Join, ReceiveFromProtocol, SendPeer, ReceiveFromPeer, SendProtocol,
         Terminate, BulkPick, BulkSend, BulkEnd, PMReturn
<1> DEFINE Goal == ContextsAwaited' /\ NewsAwaited' /\ NewsInHand'
<1> SUFFICES ASSUME Serving', hm_up' PROVE Goal
    BY NoLeakParts
<1>1. Serving => ContextsAwaited /\ NewsAwaited /\ NewsInHand
    BY <1>0, NoLeakParts
<1>2. pm = Loop => Serving
    BY DEF Loop, Serving
<1>3. ASSUME NEW c \in Conns, AddPeer(c), NotSeen(c), pm = Loop PROVE Goal
  <2>1. \A d \in set_task_peers : d \in set_task_peers' /\ set_id_peers'[d] = set_id_peers[d]
      BY <1>3, NodeFacts DEF AddPeer, NextNumber, NotSeen, Insert
  <2>2. ContextsAwaited' /\ NewsAwaited'
      BY <1>0, <1>1, <1>2, <1>3, <2>1, NoLeakQuiet DEF AddPeer, Loop
  <2>3. NewsInHand'
      BY <1>3 DEF AddPeer, NewsInHand, ToProtocol, NewConnection
  <2>4. QED
      BY <2>2, <2>3
<1>4. ASSUME NEW c \in Conns, CreateFails(c) PROVE Goal
    BY <1>0, <1>1, <1>2, <1>4, NoLeakQuiet DEF CreateFails, NewsInHand, Loop
<1>5. ASSUME NEW c \in Conns, JoinPeer(c) PROVE Goal
    BY <1>0, <1>1, <1>2, <1>5, NoLeakJoin DEF JoinPeer, Join
<1>6. ASSUME NEW c \in Conns, DrainPeer(c) PROVE FALSE
    BY <1>6 DEF DrainPeer, Serving
<1>7. CASE ReceiveFromProtocol \/ SendPeer
  <2>1. Serving /\ pm.at # "to_protocol" /\ UNCHANGED << pm_to_hm, set_task_peers, set_id_peers >>
    <3>1. CASE ReceiveFromProtocol
        BY <1>2, <3>1 DEF ReceiveFromProtocol, Loop
    <3>2. CASE SendPeer
        BY <3>2 DEF SendPeer, Serving
    <3>3. QED
        BY <1>7, <3>1, <3>2
  <2>2. pm'.at # "to_protocol"
    <3>1. CASE ReceiveFromProtocol
      <4>1. \/ pm' = Loop
            \/ pm' = ToPeer(Head(hm_to_pm).peerid, ReadyLowMessage(Head(hm_to_pm).message))
            \/ pm' = ToPeer(Head(hm_to_pm).peerid, Shutdown)
          BY <3>1 DEF ReceiveFromProtocol
      <4>2. QED
          BY <4>1 DEF Loop, ToPeer
    <3>2. CASE SendPeer
      <4>1. pm' = Loop
          BY <3>2 DEF SendPeer
      <4>2. QED
          BY <4>1 DEF Loop
    <3>3. QED
        BY <1>7, <3>1, <3>2
  <2>3. ContextsAwaited' /\ NewsAwaited'
      BY <1>0, <1>1, <2>1, NoLeakQuiet
  <2>4. QED
      BY <2>2, <2>3 DEF NewsInHand
<1>8. CASE ReceiveFromPeer
  <2>1. ContextsAwaited' /\ NewsAwaited'
      BY <1>0, <1>1, <1>2, <1>8, NoLeakQuiet DEF ReceiveFromPeer, Loop
  <2>2. Head(peer_to_pm) \in ReadyMessageEvent /\ pm'.event = Head(peer_to_pm)
      BY <1>8, HeadsOwned DEF ReceiveFromPeer, ToProtocol
  <2>3. NewsInHand'
      BY <2>2 DEF NewsInHand, ReadyMessageEvent
  <2>4. QED
      BY <2>1, <2>3
<1>9. CASE SendProtocol
  <2>1. pm' = Loop /\ pm_to_hm' = Append(pm_to_hm, pm.event)
      BY <1>0, <1>9 DEF SendProtocol
  <2>2. QED
      BY <1>0, <1>1, <1>9, <2>1, NoLeakSend DEF SendProtocol, Serving
<1>10. ASSUME NEW r \in Reason, Terminate(r) PROVE FALSE
    BY <1>10 DEF Terminate, Serving, Bulk
<1>11. ASSUME NEW p \in DOMAIN set_all_peers, BulkPick(p) PROVE FALSE
    BY <1>11 DEF BulkPick, Serving, BulkTo
<1>12. ~(BulkSend \/ BulkEnd \/ PMReturn)
  <2>1. CASE BulkSend
      BY <2>1 DEF BulkSend, Serving, Bulk
  <2>2. CASE BulkEnd
      BY <2>2 DEF BulkEnd, Serving, Drain
  <2>3. CASE PMReturn
      BY <2>3 DEF PMReturn, Serving, Done
  <2>4. QED
      BY <2>1, <2>2, <2>3
<1>13. QED
    BY <1>0, <1>3, <1>4, <1>5, <1>6, <1>7, <1>8, <1>9, <1>10, <1>11, <1>12
    DEF PMNext, IncomingConnection, OutgoingConnection

(* HandleMessage takes an event: a context it stores was awaited as news,  *)
(* and one that lost its CompletedPeer is removed with it.                 *)
LEMMA NoLeakReceive ==
    ASSUME NodeInv, ContextsAwaited, NewsAwaited, NewsInHand,
           UNCHANGED << pm, set_task_peers, set_id_peers >>,
           \/ ReceiveNewConnection \/ ReceiveReadyMessage
           \/ ReceiveCompletedPeer \/ ReceiveCompletedAllPeer
    PROVE  ContextsAwaited' /\ NewsAwaited' /\ NewsInHand'
<1> DEFINE e == Head(pm_to_hm)
<1>0. /\ pm_to_hm # << >> /\ pm_to_hm' = Tail(pm_to_hm)
      /\ e \in EventsToHandleMessage /\ OwnedEvent(e)
    BY HeadsOwned DEF ReceiveNewConnection, ReceiveReadyMessage, ReceiveCompletedPeer,
                      ReceiveCompletedAllPeer, Receive
<1>1. /\ pm_to_hm \in Seq(EventsToHandleMessage) /\ Len(pm_to_hm) \in Nat
      /\ DOMAIN pm_to_hm = 1..Len(pm_to_hm) /\ e = pm_to_hm[1] /\ 1 \in DOMAIN pm_to_hm
      /\ DOMAIN pm_to_hm' = 1..(Len(pm_to_hm) - 1)
      /\ \A k \in DOMAIN pm_to_hm' : pm_to_hm'[k] = pm_to_hm[k + 1]
    BY <1>0, NodeFacts
<1>2. \A p : Awaited(p, 1) \/ (Awaited(p, 0) /\ e # CompletedPeer(p)) => Awaited(p, 0)'
  <2>1. 0 \in Nat /\ 0 + 1 = 1
      OBVIOUS
  <2>2. QED
      BY <1>0, <2>1, AwaitedNearer
<1>3. NewsAwaited'
  <2> SUFFICES ASSUME NEW i \in DOMAIN pm_to_hm', pm_to_hm'[i].type = "NewConnection",
                      NEW p, p = pm_to_hm'[i].peerid
               PROVE  Awaited(p, i)'
      BY DEF NewsAwaited, Awaited
  <2>1. i \in Nat /\ i + 1 \in DOMAIN pm_to_hm /\ pm_to_hm'[i] = pm_to_hm[i + 1]
      BY <1>1
  <2>2. Awaited(p, i + 1)
      BY <2>1 DEF NewsAwaited
  <2>3. QED
      BY <1>0, <2>1, <2>2, AwaitedNearer
<1>4. ContextsAwaited'
  <2> SUFFICES ASSUME NEW p \in DOMAIN set_context_peers' PROVE Awaited(p, 0)'
      BY DEF ContextsAwaited
  <2>1. CASE ReceiveNewConnection
    <3>1. p \in DOMAIN set_context_peers \/ p = e.peerid
        BY <2>1 DEF ReceiveNewConnection, InsertIfAbsent, Insert
    <3>2. e.type = "NewConnection" /\ e # CompletedPeer(p)
        BY <2>1 DEF ReceiveNewConnection, Receive, CompletedPeer
    <3>3. Awaited(e.peerid, 1)
        BY <1>1, <3>2 DEF NewsAwaited
    <3>4. QED
        BY <1>2, <3>1, <3>2, <3>3 DEF ContextsAwaited
  <2>2. CASE ReceiveReadyMessage
    <3>1. p \in DOMAIN set_context_peers /\ e # CompletedPeer(p)
        BY <2>2 DEF ReceiveReadyMessage, Receive, CompletedPeer
    <3>2. QED
        BY <1>2, <3>1 DEF ContextsAwaited
  <2>3. CASE ReceiveCompletedPeer
    <3>1. p \in DOMAIN set_context_peers /\ p # e.peerid
        BY <2>3 DEF ReceiveCompletedPeer, Remove, Restrict
    <3>2. e # CompletedPeer(p)
        BY <3>1 DEF CompletedPeer
    <3>3. QED
        BY <1>2, <3>1, <3>2 DEF ContextsAwaited
  <2>4. CASE ReceiveCompletedAllPeer
      BY <2>4, EmptyIsHashMap DEF ReceiveCompletedAllPeer
  <2>5. QED
      BY <2>1, <2>2, <2>3, <2>4
<1>5. QED
    BY <1>3, <1>4 DEF NewsInHand

(* Every step of the node keeps every entry awaited.                       *)
LEMMA NoLeakStep ==
    ASSUME NodeInv, NoLeakInv, [NodeNext]_nodeVars
    PROVE  NoLeakInv'
<1> DEFINE Goal == ContextsAwaited' /\ NewsAwaited' /\ NewsInHand'
<1>1. CASE NodePM
    BY <1>1, NoLeakPM
<1>2. ASSUME UNCHANGED << pm, pm_to_hm, set_task_peers, set_id_peers, set_context_peers >>,
             hm_up' => hm_up
      PROVE  NoLeakInv'
  <2> SUFFICES ASSUME Serving', hm_up' PROVE Goal
      BY NoLeakParts
  <2>1. ContextsAwaited /\ NewsAwaited /\ NewsInHand
      BY <1>2, NoLeakParts DEF Serving
  <2>2. QED
      BY <1>2, <2>1, NoLeakQuiet DEF NewsInHand
<1>3. CASE NodeHM
  <2>0. UNCHANGED << pm, set_task_peers >> /\ HMNext
      BY <1>3 DEF NodeHM
  <2>1. CASE \/ ReceiveNewConnection \/ ReceiveReadyMessage
             \/ ReceiveCompletedPeer \/ ReceiveCompletedAllPeer
    <3>1. UNCHANGED << set_id_peers, hm_up >>
        BY <2>1 DEF ReceiveNewConnection, ReceiveReadyMessage, ReceiveCompletedPeer,
                    ReceiveCompletedAllPeer, Receive
    <3> SUFFICES ASSUME Serving', hm_up' PROVE Goal
        BY NoLeakParts
    <3>2. ContextsAwaited /\ NewsAwaited /\ NewsInHand
        BY <2>0, <3>1, NoLeakParts DEF Serving
    <3>3. QED
        BY <2>0, <2>1, <3>1, <3>2, NoLeakReceive
  <2>2. CASE SendNewVersion \/ SendReplyVersion \/ SendReplyVerack \/ SendViolent
      BY <1>2, <2>0, <2>2 DEF SendNewVersion, SendReplyVersion, SendReplyVerack, SendViolent,
                              SendToPM
  <2>3. ASSUME Return PROVE NoLeakInv'
      BY <2>3, NoLeakParts DEF Return
  <2>4. CASE SendFails \/ Stop
      BY <1>2, <2>0, <2>3, <2>4 DEF SendFails, Stop
  <2>5. QED
      BY <2>0, <2>1, <2>2, <2>4 DEF HMNext
<1>4. ASSUME NEW c \in Conns, NodePeer(c) PROVE NoLeakInv'
    BY <1>2, <1>4 DEF NodePeer, PeerNext, PeerTurn, PeerReads, PeerSubtaskEnds, PeerForwards,
                PeerReceives, PeerOrphaned, PeerReturns
<1>5. CASE NodeSupervisors \/ UNCHANGED nodeVars
    BY <1>2, <1>5 DEF NodeSupervisors, EnvSupervisor, EnvThreadProtocol, nodeVars
<1>6. QED
    BY <1>1, <1>3, <1>4, <1>5 DEF NodeNext

(* No context is kept that nothing will remove.                            *)
LEMMA NoLeakFollows ==
    ASSUME NodeInv, NoLeakInv
    PROVE  NoLeak
<1> SUFFICES ASSUME Serving, hm_up, NEW p \in DOMAIN set_context_peers
             PROVE  \/ \E c \in set_task_peers : set_id_peers[c] = p
                    \/ CompletedPeer(p) \in Range(pm_to_hm)
                    \/ pm = ToProtocol(CompletedPeer(p))
    BY DEF NoLeak
<1>1. Awaited(p, 0)
    BY DEF NoLeakInv
<1>2. QED
    BY <1>1 DEF Awaited, Range

(* However ids are used again, HandleMessage keeps no context but of an id *)
(* whose holder is not joined or whose removal is on its way.              *)
THEOREM NodeNoLeak == NodeSpec => []NoLeak
<1>1. NodeInit => NoLeakInv
    BY EmptyIsHashMap DEF NodeInit, PMInit, ChanInit, HMOwnInit, NoLeakInv, Loop
<1>2. NodeInv /\ NoLeakInv /\ [NodeNext]_nodeVars => NoLeakInv'
    BY NoLeakStep
<1>3. NodeInv /\ NoLeakInv => NoLeak
    BY NoLeakFollows
<1>4. QED
    BY <1>1, <1>2, <1>3, NodeInvariance, PTL DEF NodeSpec

-----------------------------------------------------------------------------
(* Every Peer is told.                                                     *)

(* A Peer that has been told stays so while others act.                    *)
LEMMA ToldStays ==
    ASSUME NEW c, UNCHANGED peer, running_peers' \subseteq running_peers,
           c \in running_peers => Range(pm_to_peer[c]) \subseteq Range(pm_to_peer'[c]),
           Told(c)
    PROVE  Told(c)'
BY DEF Told

(* It stays so while Peers act: Shutdown is not lost but by being handled, *)
(* and a Peer that is closing opens no more.                               *)
LEMMA ToldByPeer ==
    ASSUME NodeInv, NEW d \in Conns, PeerNext(d), NEW c \in Conns, Told(c)
    PROVE  Told(c)'
<1>0. /\ pm_to_peer \in [Conns -> Seq(EventsToPeer)] /\ peer \in [Conns -> {peer[x] : x \in Conns}]
      /\ DOMAIN peer = Conns
    BY NodeFacts DEF NodeInv, PeerOwnTypeOK
<1>1. CASE c # d
  <2>1. peer'[c] = peer[c] /\ pm_to_peer'[c] = pm_to_peer[c] /\ running_peers' \subseteq running_peers
    <3>1. CASE PeerReceives(d)
        BY <1>0, <1>1, <3>1 DEF PeerReceives, Become
    <3>2. CASE PeerReturns(d)
        BY <1>0, <1>1, <3>2 DEF PeerReturns
    <3>3. CASE (\E cmd \in Command : PeerReads(d, cmd)) \/ PeerSubtaskEnds(d) \/ PeerOrphaned(d)
        BY <1>0, <1>1, <3>3 DEF PeerReads, PeerSubtaskEnds, PeerOrphaned, Become
    <3>4. CASE PeerForwards(d)
        BY <1>0, <1>1, <3>4 DEF PeerForwards, Become
    <3>5. QED
        BY <3>1, <3>2, <3>3, <3>4 DEF PeerNext, PeerTurn
  <2>2. QED
      BY <2>1 DEF Told
<1>2. ASSUME c = d, c \in running_peers', NEW s, Become(c, s), s # PeerClosing,
             peer[c] # PeerClosing, UNCHANGED << pm_to_peer, running_peers >>
      PROVE  Told(c)'
    BY <1>0, <1>2 DEF Told
<1>3. ASSUME c = d, Become(c, PeerClosing) PROVE Told(c)'
    BY <1>0, <1>3 DEF Told, Become
<1>4. CASE c = d /\ PeerReceives(d)
  <2> DEFINE q == pm_to_peer[c]
  <2>1. /\ q \in Seq(EventsToPeer) /\ q # << >> /\ pm_to_peer'[c] = Tail(q)
        /\ c \in running_peers /\ peer[c] = PeerLoop
      BY <1>0, <1>4 DEF PeerReceives, AtLoop
  <2>2. Range(q) = {Head(q)} \cup Range(Tail(q))
      BY <2>1, RangeOfTail
  <2>3. Shutdown \in Range(q)
      BY <2>1 DEF Told, PeerLoop, PeerClosing
  <2>4. CASE Head(q) = Shutdown
      BY <1>3, <1>4, <2>4 DEF PeerReceives
  <2>5. CASE Head(q) # Shutdown
      BY <2>1, <2>2, <2>3, <2>5 DEF Told
  <2>6. QED
      BY <2>4, <2>5
<1>5. CASE c = d /\ PeerReturns(d)
    BY <1>5 DEF PeerReturns, Told
<1>6. CASE c = d /\ (PeerSubtaskEnds(d) \/ PeerOrphaned(d))
    BY <1>3, <1>6 DEF PeerSubtaskEnds, PeerOrphaned
<1>7. ASSUME NEW cmd \in Command, PeerReads(d, cmd), c = d PROVE Told(c)'
  <2>1. peer[c] # PeerClosing /\ c \in running_peers
      BY <1>7 DEF PeerReads, AtLoop, PeerLoop, PeerClosing
  <2>2. UNCHANGED << pm_to_peer, running_peers >>
      BY <1>7 DEF PeerReads
  <2>3. QED
      BY <2>1, <2>2 DEF Told
<1>8. CASE c = d /\ PeerForwards(d)
  <2>1. peer[c] # PeerClosing /\ c \in running_peers
      BY <1>8 DEF PeerForwards, PeerClosing
  <2>2. UNCHANGED << pm_to_peer, running_peers >>
      BY <1>8 DEF PeerForwards
  <2>3. QED
      BY <2>1, <2>2 DEF Told
<1>9. QED
    BY <1>1, <1>4, <1>5, <1>6, <1>7, <1>8 DEF PeerNext, PeerTurn

(* A step of PeerManager tells those it has come to.                       *)
LEMMA ToldByPM ==
    ASSUME NodeInv, ToldSoFar, NodePM
    PROVE  ToldSoFar'
<1> DEFINE Telling == pm.at \in {"bulk", "bulk_to", "drain"}
<1>0. /\ PMNext /\ UNCHANGED peer
      /\ pm_to_peer \in [Conns -> Seq(EventsToPeer)]
      /\ HashMap(set_all_peers, PeerId, Conns)
      /\ running_peers \subseteq Conns
    BY NodeFacts DEF NodePM, HashMap
<1>1. ASSUME ~Telling' PROVE ToldSoFar'
    BY <1>1 DEF ToldSoFar
<1>2. ASSUME Telling, StillToTell \subseteq StillToTell', UNCHANGED << pm_to_peer, running_peers >>,
             DOMAIN set_all_peers' \subseteq DOMAIN set_all_peers,
             \A p \in DOMAIN set_all_peers' : set_all_peers'[p] = set_all_peers[p]
      PROVE  ToldSoFar'
    BY <1>0, <1>2 DEF ToldSoFar, Told
<1>3. ASSUME NEW c \in Conns, AddPeer(c) \/ CreateFails(c) \/ JoinPeer(c), pm = Loop
      PROVE  ToldSoFar'
    BY <1>1, <1>3 DEF AddPeer, CreateFails, JoinPeer, ToProtocol, Loop
<1>4. CASE ReceiveFromProtocol \/ SendPeer \/ ReceiveFromPeer
    BY <1>1, <1>4 DEF ReceiveFromProtocol, SendPeer, ReceiveFromPeer, ToPeer, ToProtocol, Loop
<1>5. ASSUME NEW r, pm' = Bulk(r, DOMAIN set_all_peers), UNCHANGED set_all_peers
      PROVE  ToldSoFar'
  <2>1. StillToTell' = DOMAIN set_all_peers'
      BY <1>5 DEF StillToTell, Bulk
  <2>2. QED
      BY <2>1 DEF ToldSoFar
<1>6. CASE SendProtocol
    BY <1>1, <1>5, <1>6 DEF SendProtocol, Loop
<1>7. ASSUME NEW r \in Reason, Terminate(r) PROVE ToldSoFar'
    BY <1>5, <1>7 DEF Terminate
<1>8. ASSUME NEW p \in DOMAIN set_all_peers, BulkPick(p) PROVE ToldSoFar'
  <2>1. StillToTell = pm.todo /\ StillToTell' = (pm.todo \ {p}) \cup {p}
      BY <1>8 DEF BulkPick, BulkTo, StillToTell
  <2>2. QED
      BY <1>2, <1>8, <2>1 DEF BulkPick
<1>9. CASE BulkSend
  <2> DEFINE d == set_all_peers[pm.peerid]
  <2>1. /\ StillToTell = pm.todo \cup {pm.peerid} /\ StillToTell' = pm.todo
        /\ Telling /\ UNCHANGED << running_peers, set_all_peers >>
      BY <1>9 DEF BulkSend, Bulk, StillToTell
  <2> SUFFICES ASSUME NEW p \in DOMAIN set_all_peers, p \notin pm.todo
               PROVE  Told(set_all_peers[p])'
      BY <2>1 DEF ToldSoFar
  <2> DEFINE c == set_all_peers[p]
  <2>2. c \in Conns
      BY <1>0 DEF HashMap
  <2>3. CASE d \in running_peers /\ pm_to_peer' = [pm_to_peer EXCEPT ![d] = Append(@, Shutdown)]
    <3>1. d \in Conns /\ Shutdown \in EventsToPeer
        BY <1>0, <2>3 DEF EventsToPeer
    <3>2. Range(Append(pm_to_peer[d], Shutdown)) = Range(pm_to_peer[d]) \cup {Shutdown}
        BY <1>0, <3>1, RangeOfAppend
    <3>3. pm_to_peer'[d] = Append(pm_to_peer[d], Shutdown) /\ (c # d => pm_to_peer'[c] = pm_to_peer[c])
        BY <1>0, <2>2, <2>3, <3>1
    <3>4. c # d => Told(c)
        BY <2>1 DEF ToldSoFar
    <3>5. QED
        BY <1>0, <2>1, <3>2, <3>3, <3>4 DEF Told
  <2>4. CASE d \notin running_peers /\ UNCHANGED pm_to_peer
    <3>1. Told(c)
        BY <2>1, <2>4 DEF ToldSoFar, Told
    <3>2. QED
        BY <1>0, <2>1, <2>4, <3>1 DEF Told
  <2>5. QED
      BY <1>9, <2>3, <2>4 DEF BulkSend
<1>10. CASE BulkEnd
  <2>1. StillToTell = {} /\ StillToTell' = {}
      BY <1>10 DEF BulkEnd, Drain, StillToTell
  <2>2. QED
      BY <1>2, <1>10, <2>1 DEF BulkEnd
<1>11. ASSUME NEW c \in Conns, DrainPeer(c) PROVE ToldSoFar'
  <2>1. StillToTell' = StillToTell /\ Telling /\ UNCHANGED << pm_to_peer, running_peers >>
      BY <1>11 DEF DrainPeer, Join, StillToTell
  <2>2. set_all_peers' = Remove(set_all_peers, set_id_peers[c])
      BY <1>11 DEF DrainPeer, Join, RegistryWithout
  <2>3. /\ DOMAIN set_all_peers' \subseteq DOMAIN set_all_peers
        /\ \A p \in DOMAIN set_all_peers' : set_all_peers'[p] = set_all_peers[p]
      BY <2>2 DEF Remove, Restrict
  <2>4. QED
      BY <1>2, <2>1, <2>3
<1>12. CASE PMReturn
    BY <1>1, <1>12 DEF PMReturn, Done
<1>13. QED
    BY <1>0, <1>3, <1>4, <1>6, <1>7, <1>8, <1>9, <1>10, <1>11, <1>12
    DEF PMNext, IncomingConnection, OutgoingConnection, CreateFails, JoinPeer

(* Every step of the node keeps told whoever the mass disconnection has    *)
(* passed.                                                                 *)
LEMMA ToldStep ==
    ASSUME NodeInv, ToldSoFar, [NodeNext]_nodeVars
    PROVE  ToldSoFar'
<1>1. CASE NodePM
    BY <1>1, ToldByPM
<1>2. CASE NodeHM \/ NodeSupervisors \/ UNCHANGED nodeVars
  <2>1. UNCHANGED << pm, peer, running_peers, pm_to_peer, set_all_peers >>
    <3>1. CASE NodeHM
        BY <3>1 DEF NodeHM, HMNext, ReceiveNewConnection, ReceiveReadyMessage,
           ReceiveCompletedPeer, ReceiveCompletedAllPeer, Receive, SendNewVersion,
           SendReplyVersion, SendReplyVerack, SendViolent, SendToPM, SendFails, Stop, Return
    <3>2. QED
        BY <1>2, <3>1 DEF NodeSupervisors, EnvSupervisor, EnvThreadProtocol, nodeVars
  <2>2. QED
      BY <2>1 DEF ToldSoFar, StillToTell, Told
<1>3. ASSUME NEW d \in Conns, NodePeer(d) PROVE ToldSoFar'
  <2>1. UNCHANGED << pm, set_all_peers >> /\ PeerNext(d)
      BY <1>3 DEF NodePeer, PeerNext, PeerTurn, PeerReads, PeerSubtaskEnds, PeerForwards,
                  PeerReceives, PeerOrphaned, PeerReturns
  <2>2. \A p \in DOMAIN set_all_peers : set_all_peers[p] \in Conns
      BY NodeFacts DEF HashMap
  <2>3. \A c \in Conns : Told(c) => Told(c)'
      BY <2>1, ToldByPeer
  <2>4. StillToTell' = StillToTell
      BY <2>1 DEF StillToTell
  <2> SUFFICES ASSUME pm.at \in {"bulk", "bulk_to", "drain"},
                      NEW p \in DOMAIN set_all_peers \ StillToTell
               PROVE  Told(set_all_peers[p])'
      BY <2>1, <2>4 DEF ToldSoFar
  <2>5. PICK c : c = set_all_peers[p]
      OBVIOUS
  <2>6. c \in Conns /\ Told(c)
      BY <2>2, <2>5 DEF ToldSoFar
  <2>7. Told(c)'
      BY <2>3, <2>6
  <2>8. QED
      BY <2>1, <2>5, <2>7 DEF Told
<1>4. QED
    BY <1>1, <1>2, <1>3 DEF NodeNext

(* Nobody is left out.                                                     *)
LEMMA ToldFollows ==
    ASSUME NodeInv, ToldSoFar
    PROVE  DrainedPeersAreTold
<1> SUFFICES ASSUME pm.at = "drain",
                    NEW c \in running_peers, c \in Range(set_all_peers)
             PROVE  peer[c] = PeerClosing \/ Shutdown \in Range(pm_to_peer[c])
    BY DEF DrainedPeersAreTold
<1>1. PICK p \in DOMAIN set_all_peers : set_all_peers[p] = c
    BY DEF Range
<1>2. Told(c)
    BY <1>1 DEF ToldSoFar, StillToTell
<1>3. QED
    BY <1>2 DEF Told

(* Once PeerManager only waits, each Peer that the registry leads to is    *)
(* ending or has Shutdown in its queue; any other has lost its sender.     *)
THEOREM NodeDrainedPeersAreTold == NodeSpec => []DrainedPeersAreTold
<1>1. NodeInit => ToldSoFar
    BY DEF NodeInit, PMInit, ToldSoFar, Loop
<1>2. NodeInv /\ ToldSoFar /\ [NodeNext]_nodeVars => ToldSoFar'
    BY ToldStep
<1>3. NodeInv /\ ToldSoFar => DrainedPeersAreTold
    BY ToldFollows
<1>4. QED
    BY <1>1, <1>2, <1>3, NodeInvariance, PTL DEF NodeSpec

-----------------------------------------------------------------------------
(* The traffic of a connection whose id is its own.                        *)
(*                                                                         *)
(* SocketOrder, FlagsMatchTraffic and InnocentNotReported follow messages  *)
(* through three channels, two hands and the flags.  The invariant is two  *)
(* lines of places, one for each direction, and says of each place which   *)
(* stretch of the line's news it holds: what a place holds begins where    *)
(* the next one, nearer to the goal, ends.                                 *)

(* c has an id, and shares it with nobody.                                 *)
Alone(c) ==
    /\ c \in DOMAIN set_id_peers
    /\ \A d \in DOMAIN set_id_peers : set_id_peers[d] = set_id_peers[c] => d = c

IdOf(c) == set_id_peers[c]

(* From the remote to HandleMessage: the announcement of the connection,   *)
(* then what was read from it.                                             *)
AboutId(p) ==
    {e \in EventsToHandleMessage : e.type \in {"NewConnection", "ReadyMessage"} /\ e.peerid = p}

MessageOf(c, k) == [cmd |-> read[c][k], conn |-> c]

News(c) ==
    [k \in 1..(Len(read[c]) + 1) |->
        IF k = 1 THEN NewConnection(IdOf(c), c) ELSE ReadyMessage(IdOf(c), MessageOf(c, k - 1))]

(* The first news are in HandleMessage's books, the last is on its way to  *)
(* PeerManager in the hand of the Peer.                                    *)
InHand(c, x, y) ==
    IF pm.at = "to_protocol" /\ pm.event \in AboutId(IdOf(c))
    THEN y = x + 1 /\ pm.event = News(c)[y]
    ELSE y = x

InPeersHand(c, z) ==
    IF peer[c].at = "to_pm" THEN z = Len(read[c]) /\ z > 0 /\ peer[c].message = MessageOf(c, z)
    ELSE z = Len(read[c]) + 1

UpPlaces(c, h, x, y, z) ==
    hm_up =>
        /\ Carries(pm_to_hm, AboutId(IdOf(c)), News(c), h, x)
        /\ Serving => /\ InHand(c, x, y)
                      /\ Carries(peer_to_pm, AboutId(IdOf(c)), News(c), y, z)
                      /\ InPeersHand(c, z)

(* What the flags say once the first h of the news were handled.           *)
HeardFlags(c, h) ==
    IdOf(c) \in DOMAIN set_context_peers =>
        /\ h # 0
        /\ "recv_version" \in set_state_peers[IdOf(c)] =>
              \E i \in 1..(h - 1) : read[c][i] = "version"
        /\ "completed_handshake" \in set_state_peers[IdOf(c)] =>
              \E j \in 1..(h - 1) : \E i \in 1..(j - 1) :
                  read[c][i] = "version" /\ read[c][j] = "verack"

Busy(p) == hm.at \in Sends /\ hm.peerid = p

StartsFlagless(p) == Busy(p) /\ hm.at = "new_version" => set_state_peers[p] = {}

(* So far the remote has kept to the protocol; the handshake then is at    *)
(* the stage the number of its messages says, or about to be.              *)
AsExpected(c, h) ==
    /\ h <= 3
    /\ h >= 2 => read[c][1] = "version"
    /\ h = 3 => read[c][2] = "verack"

StageAfter(p, h) ==
    IF h = 1 THEN (IF TypeConnect(p) = "in" THEN 0 ELSE 1) ELSE IF h = 2 THEN 3 ELSE 4

InStep(p, h) ==
    IF Busy(p) THEN \/ h = 1 /\ hm.at = "new_version"
                    \/ h = 2 /\ hm.at \in {"reply_version", "reply_verack"}
    ELSE AtStage(p, StageAfter(p, h))

HeardInStep(c, h) ==
    /\ pm_up /\ hm_up /\ VersionBuilds = {TRUE}
    /\ IdOf(c) \in DOMAIN set_context_peers /\ AsExpected(c, h)
    => InStep(IdOf(c), h)

Heard(c, h) == HeardFlags(c, h) /\ StartsFlagless(IdOf(c)) /\ HeardInStep(c, h)

Ordered(h, x, y, z, n) == h <= x /\ x <= y /\ y <= z /\ z <= n

UpLine(c) ==
    \E h, x, y, z \in Nat :
        Ordered(h, x, y, z, Len(read[c]) + 1) /\ Heard(c, h) /\ UpPlaces(c, h, x, y, z)

(* A connection is not seen before it has an id.                           *)
Unseen ==
    \A c \in Conns \ DOMAIN set_id_peers :
        /\ read[c] = << >> /\ wrote[c] = << >> /\ pm_to_peer[c] = << >>
        /\ peer[c] = PeerLoop

-----------------------------------------------------------------------------
(* An id of one connection only is what Fresh says.                        *)
LEMMA FreshIsAlone ==
    ASSUME NodeInv, NEW c \in DOMAIN set_id_peers
    PROVE  Fresh(IdOf(c)) <=> Alone(c)
<1> DEFINE S == Holders(IdOf(c))
<1>1. HashMap(set_id_peers, Conns, PeerId) /\ IsFiniteSet(Conns)
    BY NodeFacts, ConnsAssumption, FS_Union DEF Conns
<1>2. IsFiniteSet(S) /\ c \in S
    BY <1>1, FS_Subset DEF Holders, HashMap, IdOf
<1>3. Cardinality(S) = 1 <=> \E x : S = {x}
    BY <1>2, FS_Singleton
<1>4. (\E x : S = {x}) <=> S = {c}
    BY <1>2
<1>5. S = {c} <=> Alone(c)
    BY <1>2 DEF Holders, Alone, IdOf
<1>6. QED
    BY <1>3, <1>4, <1>5 DEF Fresh

(* What bears the id of a connection that is alone is about it.            *)
LEMMA AloneOwns ==
    ASSUME NodeInv, NEW c, Alone(c)
    PROVE  /\ c \in Conns /\ IdOf(c) \in PeerId
           /\ \A d : Owned(IdOf(c), d) => d = c
           /\ IdOf(c) \in DOMAIN set_context_peers => set_context_peers[IdOf(c)] = c
<1>1. HashMap(set_id_peers, Conns, PeerId) /\ c \in DOMAIN set_id_peers
    BY NodeFacts DEF Alone
<1>2. c \in Conns /\ IdOf(c) \in PeerId
    BY <1>1 DEF HashMap, IdOf
<1>3. \A d : Owned(IdOf(c), d) => d = c
    BY DEF Alone, Owned, IdOf
<1>4. IdOf(c) \in DOMAIN set_context_peers => set_context_peers[IdOf(c)] = c
    BY <1>3 DEF NodeInv, Named
<1>5. QED
    BY <1>2, <1>3, <1>4

(* Who is alone after a step, and had an id, was alone, with the same id.  *)
LEMMA AloneBefore ==
    ASSUME NodeInv, [NodeNext]_nodeVars, NEW c \in DOMAIN set_id_peers, Alone(c)'
    PROVE  Alone(c) /\ IdOf(c)' = IdOf(c)
<1>1. \A p, d : Owned(p, d) => Owned(p, d)'
    BY NodeStepIsPM, OwnedStays
<1>2. \A d \in DOMAIN set_id_peers : d \in DOMAIN set_id_peers' /\ set_id_peers'[d] = set_id_peers[d]
    BY <1>1 DEF Owned
<1>3. QED
    BY <1>2 DEF Alone, IdOf

(* The news are events HandleMessage knows, about the connection's id.     *)
LEMMA NewsFacts ==
    ASSUME NodeInv, NEW c, Alone(c)
    PROVE  /\ Len(read[c]) \in Nat /\ read[c] \in Seq(Command)
           /\ \A k \in 1..(Len(read[c]) + 1) :
                 /\ News(c)[k] \in AboutId(IdOf(c))
                 /\ News(c)[k].type = "NewConnection" <=> k = 1
                 /\ k > 1 => News(c)[k] = ReadyMessage(IdOf(c), MessageOf(c, k - 1))
           /\ News(c)[1] = NewConnection(IdOf(c), c)
<1>1. c \in Conns /\ IdOf(c) \in PeerId
    BY AloneOwns
<1>2. read[c] \in Seq(Command)
    BY <1>1 DEF NodeInv, PeerOwnTypeOK
<1>3. Len(read[c]) \in Nat /\ \A k \in 1..Len(read[c]) : read[c][k] \in Command
    BY <1>2
<1>4. NewConnection(IdOf(c), c) \in AboutId(IdOf(c))
    BY <1>1 DEF NewConnection, AboutId, EventsToHandleMessage
<1>5. \A m \in Message : ReadyMessage(IdOf(c), m) \in AboutId(IdOf(c))
    BY <1>1 DEF ReadyMessage, AboutId, EventsToHandleMessage, ReadyMessageEvent
<1>6. \A k \in 1..Len(read[c]) : MessageOf(c, k) \in Message
    BY <1>1, <1>3 DEF MessageOf, Message
<1>7. /\ News(c)[1] = NewConnection(IdOf(c), c) /\ 1 \in 1..(Len(read[c]) + 1)
      /\ \A k \in 1..(Len(read[c]) + 1) : k # 1 =>
            /\ News(c)[k] = ReadyMessage(IdOf(c), MessageOf(c, k - 1))
            /\ k - 1 \in 1..Len(read[c])
    BY <1>3 DEF News
<1>8. \A k \in 1..(Len(read[c]) + 1) : k # 1 =>
        News(c)[k] \in AboutId(IdOf(c)) /\ News(c)[k].type # "NewConnection"
  <2> SUFFICES ASSUME NEW k \in 1..(Len(read[c]) + 1), k # 1
               PROVE  News(c)[k] \in AboutId(IdOf(c)) /\ News(c)[k].type # "NewConnection"
      OBVIOUS
  <2>1. PICK m \in Message : News(c)[k] = ReadyMessage(IdOf(c), m)
      BY <1>6, <1>7
  <2>2. ReadyMessage(IdOf(c), m).type # "NewConnection"
      BY DEF ReadyMessage
  <2>3. QED
      BY <1>5, <2>1, <2>2
<1>9. News(c)[1].type = "NewConnection"
    BY <1>7 DEF NewConnection
<1>10. QED
    BY <1>2, <1>3, <1>4, <1>7, <1>8, <1>9

-----------------------------------------------------------------------------
(* From the remote to HandleMessage.                                       *)

(* As long as the line is what it was, so are its news.                    *)
LEMMA NewsKept ==
    ASSUME NEW c, IdOf(c)' = IdOf(c), read'[c] = read[c]
    PROVE  /\ News(c)' = News(c)
           /\ \A k : MessageOf(c, k)' = MessageOf(c, k)
<1>1. \A k : MessageOf(c, k)' = MessageOf(c, k)
    BY DEF MessageOf
<1>2. QED
    BY <1>1 DEF News

(* The Peers and PeerManager leave alone what HandleMessage has heard.     *)
LEMMA HeardKept ==
    ASSUME NEW c, IdOf(c)' = IdOf(c), Len(read[c]) \in Nat,
           \A i \in 1..Len(read[c]) : read'[c][i] = read[c][i],
           UNCHANGED << set_context_peers, set_state_peers, hm, hm_up >>, pm_up' => pm_up,
           NEW h \in Nat, h <= Len(read[c]) + 1, Heard(c, h)
    PROVE  Heard(c, h)'
<1>1. /\ \A i \in 1..(h - 1) : read'[c][i] = read[c][i]
      /\ \A j \in 1..(h - 1) : \A i \in 1..(j - 1) : read'[c][i] = read[c][i]
  <2>1. \A i \in 1..(h - 1) : i \in 1..Len(read[c])
      OBVIOUS
  <2>2. \A j \in 1..(h - 1) : \A i \in 1..(j - 1) : i \in 1..(h - 1)
      OBVIOUS
  <2>3. QED
      BY <2>1, <2>2
<1>2. HeardFlags(c, h)'
    BY <1>1 DEF Heard, HeardFlags
<1>3. StartsFlagless(IdOf(c))'
    BY DEF Heard, StartsFlagless, Busy
<1>4. AsExpected(c, h)' => AsExpected(c, h)
    BY <1>1 DEF AsExpected
<1>5. \A p, k : AtStage(p, k)' = AtStage(p, k)
    BY DEF AtStage, TypeConnect
<1>6. \A p : InStep(p, h)' = InStep(p, h)
    BY <1>5 DEF InStep, Busy, StageAfter, TypeConnect
<1>7. HeardInStep(c, h)'
    BY <1>4, <1>6 DEF Heard, HeardInStep
<1>8. QED
    BY <1>2, <1>3, <1>7 DEF Heard

HandAbout(c) == pm.at = "to_protocol" /\ pm.event \in AboutId(IdOf(c))

(* A step that has nothing to do with the line.                            *)
LEMMA UpQuiet ==
    ASSUME NodeInv, NEW c, Alone(c), UpLine(c), IdOf(c)' = IdOf(c),
           UNCHANGED << set_context_peers, set_state_peers, hm, hm_up >>, read'[c] = read[c],
           pm_up' => pm_up, UNCHANGED pm_to_hm, Serving' => Serving /\ UNCHANGED peer_to_pm,
           pm' = pm \/ (~HandAbout(c) /\ ~HandAbout(c)'),
           \/ peer'[c] = peer[c] \/ ~Serving'
           \/ peer[c].at # "to_pm" /\ peer'[c].at # "to_pm"
    PROVE  UpLine(c)'
<1>0. Len(read[c]) \in Nat /\ News(c)' = News(c) /\ \A k : MessageOf(c, k)' = MessageOf(c, k)
    BY NewsFacts, NewsKept
<1>1. PICK h, x, y, z \in Nat :
          Ordered(h, x, y, z, Len(read[c]) + 1) /\ Heard(c, h) /\ UpPlaces(c, h, x, y, z)
    BY DEF UpLine
<1>2. Heard(c, h)'
    BY <1>0, <1>1, HeardKept DEF Ordered
<1>3. Serving' /\ InHand(c, x, y) => InHand(c, x, y)'
    BY <1>0 DEF InHand, HandAbout
<1>4. Serving' /\ InPeersHand(c, z) => InPeersHand(c, z)'
    BY <1>0 DEF InPeersHand
<1>5. UpPlaces(c, h, x, y, z)'
    BY <1>0, <1>1, <1>3, <1>4 DEF UpPlaces
<1>6. QED
    BY <1>1, <1>2, <1>5 DEF UpLine

(* A connection gets an id: its announcement is in PeerManager's hand.     *)
LEMMA UpNew ==
    ASSUME NodeInv, Unseen, NEW c \in Conns, NotSeen(c), AddPeer(c), Alone(c)',
           UNCHANGED << set_context_peers, set_state_peers, hm, peer, read >>
    PROVE  UpLine(c)'
<1>1. /\ set_id_peers' = Insert(set_id_peers, c, peerid) /\ peerid \in PeerId
      /\ pm' = ToProtocol(NewConnection(peerid, c))
      /\ UNCHANGED << pm_to_hm, peer_to_pm, hm_up >>
    BY NodeFacts DEF AddPeer, NextNumber, PMTypeOK
<1>2. /\ IdOf(c)' = peerid
      /\ \A d \in DOMAIN set_id_peers : set_id_peers[d] # peerid
    BY <1>1 DEF Alone, NotSeen, Insert, IdOf
<1>3. \A d : ~Owned(peerid, d)
    BY <1>2 DEF Owned
<1>4. read[c] = << >> /\ peer[c] = PeerLoop
    BY DEF Unseen, NotSeen
<1>5. News(c)' = [k \in 1..1 |-> NewConnection(peerid, c)] /\ Len(read'[c]) = 0
    BY <1>2, <1>4 DEF News
<1>6. \A e : e \in AboutId(peerid) => ~OwnedEvent(e)
    BY <1>3 DEF AboutId, OwnedEvent
<1>7. /\ \A e \in Range(pm_to_hm) : e \notin AboutId(peerid)
      /\ \A e \in Range(peer_to_pm) : e \notin AboutId(peerid)
    BY <1>6 DEF NodeInv, Named
<1>8. /\ Carries(pm_to_hm, AboutId(peerid), News(c)', 0, 0)
      /\ Carries(peer_to_pm, AboutId(peerid), News(c)', 1, 1)
    BY <1>7, CarriesNothing
<1>9. peerid \notin DOMAIN set_context_peers
    BY <1>3 DEF NodeInv, Named
<1>10. ~Busy(peerid)
    BY <1>3 DEF NodeInv, Named, Busy
<1>11. Heard(c, 0)'
    BY <1>2, <1>9, <1>10 DEF Heard, HeardFlags, StartsFlagless, HeardInStep, Busy
<1>12. InHand(c, 0, 1)'
  <2>1. pm'.at = "to_protocol" /\ pm'.event = NewConnection(peerid, c)
      BY <1>1 DEF ToProtocol
  <2>2. News(c)'[1] = NewConnection(peerid, c)
      BY <1>5
  <2>3. NewConnection(peerid, c) \in AboutId(peerid)
      BY <1>1 DEF NewConnection, AboutId, EventsToHandleMessage
  <2>4. QED
      BY <1>2, <2>1, <2>2, <2>3 DEF InHand
<1>13. InPeersHand(c, 1)'
    BY <1>4 DEF InPeersHand, PeerLoop
<1>14. UpPlaces(c, 0, 0, 1, 1)'
    BY <1>1, <1>2, <1>8, <1>12, <1>13 DEF UpPlaces
<1>15. Ordered(0, 0, 1, 1, Len(read'[c]) + 1)
    BY <1>5 DEF Ordered
<1>16. QED
    BY <1>11, <1>14, <1>15 DEF UpLine

(* PeerManager takes a message of a Peer into its hand.                    *)
LEMMA UpReceived ==
    ASSUME NodeInv, NEW c, Alone(c), UpLine(c), IdOf(c)' = IdOf(c), ReceiveFromPeer,
           UNCHANGED << set_context_peers, set_state_peers, hm, peer, read >>
    PROVE  UpLine(c)'
<1>0. /\ Len(read[c]) \in Nat /\ News(c)' = News(c)
      /\ \A k : MessageOf(c, k)' = MessageOf(c, k)
    BY NewsFacts, NewsKept
<1>1. /\ pm = Loop /\ peer_to_pm # << >> /\ peer_to_pm' = Tail(peer_to_pm)
      /\ pm' = ToProtocol(Head(peer_to_pm)) /\ UNCHANGED << pm_to_hm, hm_up, pm_up >>
      /\ Serving /\ peer_to_pm \in Seq(ReadyMessageEvent)
    BY NodeFacts DEF ReceiveFromPeer, Serving, Loop
<1>2. PICK h, x, y, z \in Nat :
          Ordered(h, x, y, z, Len(read[c]) + 1) /\ Heard(c, h) /\ UpPlaces(c, h, x, y, z)
    BY DEF UpLine
<1>3. Heard(c, h)'
    BY <1>0, <1>1, <1>2, HeardKept DEF Ordered
<1>4. InPeersHand(c, z) => InPeersHand(c, z)'
    BY <1>0 DEF InPeersHand
<1>5. CASE ~hm_up
  <2>1. UpPlaces(c, h, x, y, z)'
      BY <1>1, <1>5 DEF UpPlaces
  <2>2. QED
      BY <1>2, <1>3, <2>1 DEF UpLine
<1>6. CASE hm_up
  <2> DEFINE e == Head(peer_to_pm)
  <2>1. /\ Carries(pm_to_hm, AboutId(IdOf(c)), News(c), h, x)
        /\ InHand(c, x, y) /\ InPeersHand(c, z)
        /\ Carries(peer_to_pm, AboutId(IdOf(c)), News(c), y, z)
      BY <1>1, <1>2, <1>6 DEF UpPlaces
  <2>2. y = x /\ pm'.at = "to_protocol" /\ pm'.event = e
      BY <1>1, <2>1 DEF InHand, Loop, ToProtocol
  <2>3. CASE e \in AboutId(IdOf(c))
    <3>1. /\ y < z /\ e = News(c)[y + 1]
          /\ Carries(Tail(peer_to_pm), AboutId(IdOf(c)), News(c), y + 1, z)
        BY <1>1, <2>1, <2>3, CarriesTailFirst
    <3>2. InHand(c, x, y + 1)'
        BY <1>0, <2>2, <2>3, <3>1 DEF InHand
    <3>3. UpPlaces(c, h, x, y + 1, z)'
        BY <1>0, <1>1, <1>4, <2>1, <3>1, <3>2 DEF UpPlaces
    <3>4. Ordered(h, x, y + 1, z, Len(read'[c]) + 1) /\ y + 1 \in Nat
        BY <1>2, <3>1 DEF Ordered
    <3>5. QED
        BY <1>2, <1>3, <3>3, <3>4 DEF UpLine
  <2>4. CASE e \notin AboutId(IdOf(c))
    <3>1. Carries(Tail(peer_to_pm), AboutId(IdOf(c)), News(c), y, z)
        BY <1>1, <2>1, <2>4, CarriesTailOther
    <3>2. InHand(c, x, y)'
        BY <2>2, <2>4 DEF InHand
    <3>3. UpPlaces(c, h, x, y, z)'
        BY <1>0, <1>1, <1>4, <2>1, <3>1, <3>2 DEF UpPlaces
    <3>4. QED
        BY <1>2, <1>3, <3>3 DEF UpLine
  <2>5. QED
      BY <2>3, <2>4
<1>7. QED
    BY <1>5, <1>6

(* PeerManager sends what it holds to HandleMessage.                       *)
LEMMA UpSent ==
    ASSUME NodeInv, NEW c, Alone(c), UpLine(c), IdOf(c)' = IdOf(c), SendProtocol,
           UNCHANGED << set_context_peers, set_state_peers, hm, peer, read >>
    PROVE  UpLine(c)'
<1>0. /\ Len(read[c]) \in Nat /\ News(c)' = News(c)
      /\ \A k : MessageOf(c, k)' = MessageOf(c, k)
    BY NewsFacts, NewsKept
<1>1. /\ pm.at = "to_protocol" /\ UNCHANGED << hm_up, pm_up, peer_to_pm >>
      /\ pm.event \in EventsToHandleMessage /\ pm_to_hm \in Seq(EventsToHandleMessage)
      /\ Serving
    BY NodeFacts, ControlFields DEF SendProtocol, Serving, PMTypeOK
<1>2. PICK h, x, y, z \in Nat :
          Ordered(h, x, y, z, Len(read[c]) + 1) /\ Heard(c, h) /\ UpPlaces(c, h, x, y, z)
    BY DEF UpLine
<1>3. Heard(c, h)'
    BY <1>0, <1>1, <1>2, HeardKept DEF Ordered
<1>4. InPeersHand(c, z) => InPeersHand(c, z)'
    BY <1>0 DEF InPeersHand
<1>5. CASE ~hm_up
  <2>1. UpPlaces(c, h, x, y, z)'
      BY <1>1, <1>5 DEF UpPlaces
  <2>2. QED
      BY <1>2, <1>3, <2>1 DEF UpLine
<1>6. CASE hm_up
  <2> DEFINE e == pm.event
  <2>1. /\ Carries(pm_to_hm, AboutId(IdOf(c)), News(c), h, x)
        /\ InHand(c, x, y) /\ InPeersHand(c, z)
        /\ Carries(peer_to_pm, AboutId(IdOf(c)), News(c), y, z)
      BY <1>1, <1>2, <1>6 DEF UpPlaces
  <2>2. pm_to_hm' = Append(pm_to_hm, e) /\ pm'.at # "to_protocol"
      BY <1>6 DEF SendProtocol, Loop
  <2>3. \A n : InHand(c, n, n)'
      BY <2>2 DEF InHand
  <2>4. CASE e \in AboutId(IdOf(c))
    <3>1. y = x + 1 /\ e = News(c)[x + 1] /\ h <= x
        BY <1>1, <1>2, <2>1, <2>4 DEF InHand, Ordered
    <3>2. Carries(pm_to_hm', AboutId(IdOf(c)), News(c), h, x + 1)
        BY <1>1, <2>1, <2>2, <2>4, <3>1, CarriesAppendNext
    <3>3. UpPlaces(c, h, y, y, z)'
        BY <1>0, <1>1, <1>4, <2>1, <2>3, <3>1, <3>2 DEF UpPlaces
    <3>4. Ordered(h, y, y, z, Len(read'[c]) + 1)
        BY <1>2, <3>1 DEF Ordered
    <3>5. QED
        BY <1>2, <1>3, <3>3, <3>4 DEF UpLine
  <2>5. CASE e \notin AboutId(IdOf(c))
    <3>1. Carries(pm_to_hm', AboutId(IdOf(c)), News(c), h, x)
        BY <1>1, <1>2, <2>1, <2>2, <2>5, CarriesAppendOther
    <3>2. y = x
        BY <2>1, <2>5 DEF InHand
    <3>3. UpPlaces(c, h, x, y, z)'
        BY <1>0, <1>1, <1>4, <2>1, <2>3, <3>1, <3>2 DEF UpPlaces
    <3>4. QED
        BY <1>2, <1>3, <3>3 DEF UpLine
  <2>6. QED
      BY <2>4, <2>5
<1>7. QED
    BY <1>5, <1>6

(* Every step of PeerManager keeps every line.                             *)
LEMMA UpByPM ==
    ASSUME NodeInv, Unseen, NodePM, NEW c \in Conns, Alone(c)',
           c \in DOMAIN set_id_peers => UpLine(c)
    PROVE  UpLine(c)'
<1>0. /\ UNCHANGED << set_context_peers, set_state_peers, hm, peer, read >> /\ PMNext
      /\ UNCHANGED hm_up
    BY DEF NodePM, PMNext, IncomingConnection, OutgoingConnection, AddPeer, CreateFails,
       JoinPeer, DrainPeer, Join, ReceiveFromProtocol, SendPeer, ReceiveFromPeer, SendProtocol,
       Terminate, BulkPick, BulkSend, BulkEnd, PMReturn
<1>1. CASE c \notin DOMAIN set_id_peers
  <2>1. c \in DOMAIN set_id_peers'
      BY DEF Alone
  <2>2. PICK d \in Conns : AddPeer(d) /\ NotSeen(d)
      BY <1>0, <1>1, <2>1
      DEF PMNext, IncomingConnection, OutgoingConnection, CreateFails, JoinPeer, DrainPeer, Join,
          ReceiveFromProtocol, SendPeer, ReceiveFromPeer, SendProtocol, Terminate, BulkPick,
          BulkSend, BulkEnd, PMReturn
  <2>3. d = c
      BY <1>1, <2>1, <2>2 DEF AddPeer, Insert
  <2>4. QED
      BY <1>0, <2>2, <2>3, UpNew
<1>2. CASE c \in DOMAIN set_id_peers
  <2>0. Alone(c) /\ IdOf(c)' = IdOf(c) /\ UpLine(c)
      BY <1>2, AloneBefore DEF NodeNext
  <2>1. ASSUME NEW d \in Conns, AddPeer(d), NotSeen(d), pm = Loop PROVE UpLine(c)'
    <3>1. /\ pm' = ToProtocol(NewConnection(peerid, d))
          /\ UNCHANGED << pm_to_hm, peer_to_pm, pm_up >>
          /\ d \in DOMAIN set_id_peers' /\ set_id_peers'[d] = peerid
        BY <2>1 DEF AddPeer, NextNumber, Insert
    <3>2. d # c
        BY <1>2, <2>1 DEF NotSeen
    <3>3. IdOf(c)' # peerid
        BY <3>1, <3>2 DEF Alone, IdOf
    <3>4. ~HandAbout(c) /\ ~HandAbout(c)'
        BY <2>0, <2>1, <3>1, <3>3 DEF HandAbout, AboutId, ToProtocol, NewConnection, Loop
    <3>5. Serving
        BY <2>1 DEF Serving, Loop
    <3>6. QED
        BY <1>0, <2>0, <3>1, <3>4, <3>5, UpQuiet
  <2>2. ASSUME NEW d \in Conns, CreateFails(d) PROVE UpLine(c)'
      BY <1>0, <2>0, <2>2, UpQuiet DEF CreateFails, Serving
  <2>3. ASSUME NEW d \in Conns, JoinPeer(d) PROVE UpLine(c)'
    <3>1. ~HandAbout(c) /\ ~HandAbout(c)' /\ Serving
        BY <2>3 DEF JoinPeer, HandAbout, AboutId, ToProtocol, CompletedPeer, Loop, Serving
    <3>2. QED
        BY <1>0, <2>0, <2>3, <3>1, UpQuiet DEF JoinPeer, Join
  <2>4. CASE ReceiveFromProtocol \/ SendPeer
    <3>1. ~HandAbout(c) /\ ~HandAbout(c)' /\ Serving
        BY <2>4 DEF ReceiveFromProtocol, SendPeer, HandAbout, Loop, ToPeer, Serving
    <3>2. QED
        BY <1>0, <2>0, <2>4, <3>1, UpQuiet DEF ReceiveFromProtocol, SendPeer
  <2>5. ASSUME UNCHANGED pm_to_hm, pm_up' => pm_up, ~Serving', pm.at # "to_protocol",
               pm'.at # "to_protocol"
        PROVE  UpLine(c)'
      BY <1>0, <2>0, <2>5, UpQuiet DEF HandAbout
  <2>6. ASSUME NEW r \in Reason, Terminate(r) PROVE UpLine(c)'
      BY <2>5, <2>6 DEF Terminate, Serving, Bulk, Loop
  <2>7. ASSUME NEW p \in DOMAIN set_all_peers, BulkPick(p) PROVE UpLine(c)'
      BY <2>5, <2>7 DEF BulkPick, Serving, BulkTo
  <2>8. CASE BulkSend \/ BulkEnd
      BY <2>5, <2>8 DEF BulkSend, BulkEnd, Serving, Bulk, Drain
  <2>9. CASE PMReturn
      BY <2>5, <2>9 DEF PMReturn, Serving, Done
  <2>10. ASSUME NEW d \in Conns, DrainPeer(d) PROVE UpLine(c)'
      BY <2>5, <2>10 DEF DrainPeer, Join, Serving
  <2>11. QED
      BY <1>0, <2>0, <2>1, <2>2, <2>3, <2>4, <2>6, <2>7, <2>8, <2>9, <2>10, UpReceived, UpSent
      DEF PMNext, IncomingConnection, OutgoingConnection
<1>3. QED
    BY <1>1, <1>2

(* The Peer of c hears from its remote: the news grow by what it holds.    *)
LEMMA UpRead ==
    ASSUME NodeInv, NEW c, Alone(c), UpLine(c), NEW cmd \in Command, PeerReads(c, cmd),
           UNCHANGED << set_context_peers, set_state_peers, hm, pm >>
    PROVE  UpLine(c)'
<1>0. c \in Conns /\ Len(read[c]) \in Nat /\ read \in [Conns -> Seq(Command)]
      /\ DOMAIN peer = Conns
    BY NewsFacts, AloneOwns DEF NodeInv, PeerOwnTypeOK
<1> DEFINE n == Len(read[c])
<1>1. /\ read'[c] = Append(read[c], cmd) /\ peer[c] = PeerLoop
      /\ peer'[c] = Forward([cmd |-> cmd, conn |-> c])
      /\ UNCHANGED << hm_up, pm_up, pm_to_hm, peer_to_pm, set_id_peers >>
    BY <1>0 DEF PeerReads, AtLoop, Become
<1>2. /\ Len(read'[c]) = n + 1 /\ read'[c][n + 1] = cmd
      /\ \A i \in 1..n : read'[c][i] = read[c][i]
  <2>1. read[c] \in Seq(Command)
      BY <1>0
  <2>2. QED
      BY <1>1, <2>1
<1>3. IdOf(c)' = IdOf(c) /\ AboutId(IdOf(c))' = AboutId(IdOf(c))
    BY <1>1 DEF IdOf
<1>4. \A k \in 1..(n + 1) : News(c)'[k] = News(c)[k]
  <2>1. News(c)' = [k \in 1..((n + 1) + 1) |->
                      IF k = 1 THEN NewConnection(IdOf(c), c)
                      ELSE ReadyMessage(IdOf(c), [cmd |-> read'[c][k - 1], conn |-> c])]
      BY <1>2, <1>3 DEF News, MessageOf
  <2>2. News(c) = [k \in 1..(n + 1) |->
                      IF k = 1 THEN NewConnection(IdOf(c), c)
                      ELSE ReadyMessage(IdOf(c), [cmd |-> read[c][k - 1], conn |-> c])]
      BY DEF News, MessageOf
  <2> SUFFICES ASSUME NEW k \in 1..(n + 1) PROVE News(c)'[k] = News(c)[k]
      OBVIOUS
  <2>3. k \in 1..((n + 1) + 1) /\ (k # 1 => k - 1 \in 1..n)
      BY <1>0
  <2>4. k # 1 => read'[c][k - 1] = read[c][k - 1]
      BY <1>2, <2>3
  <2>5. QED
      BY <2>1, <2>2, <2>3, <2>4
<1>5. PICK h, x, y, z \in Nat :
          Ordered(h, x, y, z, Len(read[c]) + 1) /\ Heard(c, h) /\ UpPlaces(c, h, x, y, z)
    BY DEF UpLine
<1>6. Heard(c, h)'
  <2>1. h <= n + 1
      BY <1>0, <1>5 DEF Ordered
  <2>2. QED
      BY <1>0, <1>1, <1>2, <1>3, <1>5, <2>1, HeardKept
<1>7. Ordered(h, x, y, z, Len(read'[c]) + 1)
    BY <1>0, <1>2, <1>5 DEF Ordered
<1>8. UpPlaces(c, h, x, y, z)'
  <2> SUFFICES ASSUME hm_up
               PROVE  /\ Carries(pm_to_hm, AboutId(IdOf(c)), News(c)', h, x)
                      /\ Serving => /\ InHand(c, x, y)'
                                    /\ Carries(peer_to_pm, AboutId(IdOf(c)), News(c)', y, z)
                                    /\ InPeersHand(c, z)'
      BY <1>1, <1>3 DEF UpPlaces, Serving
  <2>1. /\ \A k \in (h + 1)..x : k \in 1..(n + 1)
        /\ \A k \in (y + 1)..z : k \in 1..(n + 1)
        /\ y = x + 1 => y \in 1..(n + 1)
      BY <1>0, <1>5 DEF Ordered
  <2>2. Carries(pm_to_hm, AboutId(IdOf(c)), News(c)', h, x)
    <3>1. Carries(pm_to_hm, AboutId(IdOf(c)), News(c), h, x)
        BY <1>5 DEF UpPlaces
    <3>2. QED
        BY <1>4, <2>1, <3>1, CarriesSame
  <2>3. ASSUME Serving
        PROVE  /\ InHand(c, x, y)'
               /\ Carries(peer_to_pm, AboutId(IdOf(c)), News(c)', y, z)
               /\ InPeersHand(c, z)'
    <3>1. /\ InHand(c, x, y) /\ Carries(peer_to_pm, AboutId(IdOf(c)), News(c), y, z)
          /\ InPeersHand(c, z)
        BY <1>5, <2>3 DEF UpPlaces
    <3>2. InHand(c, x, y)'
        BY <1>3, <1>4, <2>1, <3>1 DEF InHand
    <3>3. Carries(peer_to_pm, AboutId(IdOf(c)), News(c)', y, z)
        BY <1>4, <2>1, <3>1, CarriesSame
    <3>4. z = n + 1
        BY <1>1, <3>1 DEF InPeersHand, PeerLoop
    <3>5. MessageOf(c, z)' = [cmd |-> cmd, conn |-> c]
        BY <1>2, <3>4 DEF MessageOf
    <3>6. InPeersHand(c, z)'
        BY <1>0, <1>1, <1>2, <3>4, <3>5 DEF InPeersHand, Forward
    <3>7. QED
        BY <3>2, <3>3, <3>6
  <2>4. QED
      BY <2>2, <2>3
<1>9. QED
    BY <1>5, <1>6, <1>7, <1>8 DEF UpLine

(* A Peer forwards what it holds, news of its own line only.               *)
LEMMA UpForwarded ==
    ASSUME NodeInv, NEW c, Alone(c), UpLine(c), NEW d \in Conns, PeerForwards(d),
           UNCHANGED << set_context_peers, set_state_peers, hm, pm >>
    PROVE  UpLine(c)'
<1>0. /\ c \in Conns /\ DOMAIN peer = Conns /\ Len(read[c]) \in Nat /\ News(c)' = News(c)
      /\ \A k : MessageOf(c, k)' = MessageOf(c, k)
      /\ IdOf(c)' = IdOf(c) /\ IdOf(c) \in PeerId
      /\ UNCHANGED << pm_to_hm, hm_up, pm_up, read, set_id_peers >>
  <2>1. c \in Conns /\ DOMAIN peer = Conns /\ Len(read[c]) \in Nat /\ IdOf(c) \in PeerId
      BY NewsFacts, AloneOwns DEF NodeInv, PeerOwnTypeOK
  <2>2. UNCHANGED << pm_to_hm, hm_up, pm_up, read, set_id_peers >>
      BY DEF PeerForwards
  <2>3. IdOf(c)' = IdOf(c)
      BY <2>2 DEF IdOf
  <2>4. QED
      BY <2>1, <2>2, <2>3, NewsKept
<1>1. CASE ~pm_up
  <2>1. ~Serving /\ ~Serving'
      BY <1>1, NodeFacts DEF Serving
  <2>2. QED
      BY <1>0, <1>1, <2>1, UpQuiet
<1>2. CASE pm_up
  <2> DEFINE e == ReadyMessage(set_id_peers[d], peer[d].message)
  <2>1. /\ peer_to_pm' = Append(peer_to_pm, e) /\ peer' = [peer EXCEPT ![d] = PeerLoop]
        /\ peer[d].at = "to_pm" /\ d \in DOMAIN set_id_peers
      BY <1>2, NodeFacts DEF PeerForwards, Become
  <2>2. e \in ReadyMessageEvent /\ peer_to_pm \in Seq(ReadyMessageEvent)
    <3>1. peer[d].message \in Message
        BY <2>1, PeerHand
    <3>2. set_id_peers[d] \in PeerId
        BY <2>1, NodeFacts DEF HashMap
    <3>3. QED
        BY <3>1, <3>2, NodeFacts DEF ReadyMessage, ReadyMessageEvent
  <2>3. PICK h, x, y, z \in Nat :
            Ordered(h, x, y, z, Len(read[c]) + 1) /\ Heard(c, h) /\ UpPlaces(c, h, x, y, z)
      BY DEF UpLine
  <2>4. Heard(c, h)'
      BY <1>0, <2>3, HeardKept DEF Ordered
  <2>5. CASE ~(hm_up /\ Serving)
    <3>1. UpPlaces(c, h, x, y, z)'
        BY <1>0, <2>3, <2>5 DEF UpPlaces, Serving
    <3>2. QED
        BY <1>0, <2>3, <2>4, <3>1 DEF UpLine
  <2>6. CASE hm_up /\ Serving /\ c # d
    <3>1. e \notin AboutId(IdOf(c))
        BY <2>1, <2>6 DEF AboutId, ReadyMessage, Alone, IdOf
    <3>2. /\ Carries(peer_to_pm, AboutId(IdOf(c)), News(c), y, z)
          /\ InHand(c, x, y) /\ InPeersHand(c, z)
        BY <2>3, <2>6 DEF UpPlaces
    <3>3. Carries(peer_to_pm', AboutId(IdOf(c)), News(c), y, z)
        BY <2>1, <2>2, <3>1, <3>2, CarriesAppendOther
    <3>4. peer'[c] = peer[c]
        BY <1>0, <2>1, <2>6
    <3>5. InHand(c, x, y)' /\ InPeersHand(c, z)'
        BY <1>0, <3>2, <3>4 DEF InHand, InPeersHand
    <3>6. UpPlaces(c, h, x, y, z)'
        BY <1>0, <2>3, <2>6, <3>3, <3>5 DEF UpPlaces
    <3>7. QED
        BY <1>0, <2>3, <2>4, <3>6 DEF UpLine
  <2>7. CASE hm_up /\ Serving /\ c = d
    <3>1. /\ Carries(peer_to_pm, AboutId(IdOf(c)), News(c), y, z)
          /\ InHand(c, x, y) /\ InPeersHand(c, z)
        BY <2>3, <2>7 DEF UpPlaces
    <3>2. z = Len(read[c]) /\ z > 0 /\ peer[c].message = MessageOf(c, z)
        BY <2>1, <2>7, <3>1 DEF InPeersHand
    <3>3. e = News(c)[z + 1] /\ e \in AboutId(IdOf(c))
      <4>1. z + 1 \in 1..(Len(read[c]) + 1) /\ z + 1 > 1 /\ (z + 1) - 1 = z
          BY <1>0, <3>2
      <4>2. News(c)[z + 1] = ReadyMessage(IdOf(c), MessageOf(c, z)) /\ News(c)[z + 1] \in AboutId(IdOf(c))
          BY <4>1, NewsFacts
      <4>3. QED
          BY <2>7, <3>2, <4>2 DEF IdOf
    <3>4. y <= z
        BY <2>3 DEF Ordered
    <3>5. Carries(peer_to_pm', AboutId(IdOf(c)), News(c), y, z + 1)
        BY <2>1, <2>2, <3>1, <3>3, <3>4, CarriesAppendNext
    <3>6. peer'[c] = PeerLoop
        BY <1>0, <2>1, <2>7
    <3>7. InHand(c, x, y)' /\ InPeersHand(c, z + 1)'
        BY <1>0, <3>1, <3>2, <3>6 DEF InHand, InPeersHand, PeerLoop
    <3>8. UpPlaces(c, h, x, y, z + 1)'
        BY <1>0, <2>3, <2>7, <3>5, <3>7 DEF UpPlaces
    <3>9. Ordered(h, x, y, z + 1, Len(read'[c]) + 1) /\ z + 1 \in Nat
        BY <1>0, <2>3, <3>2 DEF Ordered
    <3>10. QED
        BY <2>3, <2>4, <3>8, <3>9 DEF UpLine
  <2>8. QED
      BY <2>5, <2>6, <2>7
<1>3. QED
    BY <1>1, <1>2

(* Every step of a Peer keeps every line.                                  *)
LEMMA UpByPeer ==
    ASSUME NodeInv, NEW c, Alone(c), UpLine(c), NEW d \in Conns, NodePeer(d)
    PROVE  UpLine(c)'
<1>0. /\ UNCHANGED << set_context_peers, set_state_peers, hm, pm >> /\ PeerNext(d)
      /\ c \in Conns /\ DOMAIN peer = Conns /\ DOMAIN read = Conns
    BY AloneOwns DEF NodePeer, NodeInv, PeerOwnTypeOK
<1>1. ASSUME UNCHANGED << hm_up, pm_up, pm_to_hm, peer_to_pm, set_id_peers >>,
             read'[c] = read[c],
             \/ peer'[c] = peer[c]
             \/ peer[c].at # "to_pm" /\ peer'[c].at # "to_pm"
      PROVE  UpLine(c)'
  <2>1. IdOf(c)' = IdOf(c) /\ (Serving' => Serving)
      BY <1>0, <1>1 DEF IdOf, Serving
  <2>2. QED
      BY <1>0, <1>1, <2>1, UpQuiet
<1>2. ASSUME NEW cmd \in Command, PeerReads(d, cmd) PROVE UpLine(c)'
  <2>1. CASE d = c
      BY <1>0, <1>2, <2>1, UpRead
  <2>2. CASE d # c
      BY <1>0, <1>1, <1>2, <2>2 DEF PeerReads, Become
  <2>3. QED
      BY <2>1, <2>2
<1>3. CASE PeerForwards(d)
    BY <1>0, <1>3, UpForwarded
<1>4. CASE PeerReceives(d) \/ PeerSubtaskEnds(d) \/ PeerOrphaned(d)
  <2>1. CASE d = c
      BY <1>0, <1>1, <1>4, <2>1
      DEF PeerReceives, PeerSubtaskEnds, PeerOrphaned, AtLoop, Become, PeerLoop, PeerClosing
  <2>2. CASE d # c
      BY <1>0, <1>1, <1>4, <2>2 DEF PeerReceives, PeerSubtaskEnds, PeerOrphaned, Become
  <2>3. QED
      BY <2>1, <2>2
<1>5. CASE PeerReturns(d)
    BY <1>0, <1>1, <1>5 DEF PeerReturns
<1>6. QED
    BY <1>0, <1>2, <1>3, <1>4, <1>5 DEF PeerNext, PeerTurn

-----------------------------------------------------------------------------
(* The steps of HandleMessage: what it hears, and what it has heard.       *)

(* Flags that are new are explained by the messages handled meanwhile.     *)
LEMMA HeardFlagsGrow ==
    ASSUME NEW c, IdOf(c)' = IdOf(c), read'[c] = read[c],
           NEW h \in Nat, NEW k \in Nat, h <= k, HeardFlags(c, h),
           IdOf(c) \in DOMAIN set_context_peers' =>
              /\ IdOf(c) \in DOMAIN set_context_peers
              /\ "recv_version" \in set_state_peers'[IdOf(c)] =>
                    \/ "recv_version" \in set_state_peers[IdOf(c)]
                    \/ \E i \in 1..(k - 1) : read[c][i] = "version"
              /\ "completed_handshake" \in set_state_peers'[IdOf(c)] =>
                    \/ "completed_handshake" \in set_state_peers[IdOf(c)]
                    \/ \E j \in 1..(k - 1) : \E i \in 1..(j - 1) :
                          read[c][i] = "version" /\ read[c][j] = "verack"
    PROVE  HeardFlags(c, k)'
<1>1. 1..(h - 1) \subseteq 1..(k - 1) /\ (h # 0 => k # 0)
    OBVIOUS
<1>2. QED
    BY <1>1 DEF HeardFlags

(* What happens under another id is nothing heard about c.                 *)
LEMMA HeardElsewhere ==
    ASSUME NEW c, IdOf(c)' = IdOf(c), read'[c] = read[c], pm_up' => pm_up, hm_up' => hm_up,
           IdOf(c) \in DOMAIN set_context_peers' =>
              /\ IdOf(c) \in DOMAIN set_context_peers
              /\ set_context_peers'[IdOf(c)] = set_context_peers[IdOf(c)]
              /\ set_state_peers'[IdOf(c)] = set_state_peers[IdOf(c)],
           ~Busy(IdOf(c)), ~Busy(IdOf(c))', NEW h \in Nat, Heard(c, h)
    PROVE  Heard(c, h)'
<1>1. HeardFlags(c, h)'
    BY HeardFlagsGrow DEF Heard
<1>2. StartsFlagless(IdOf(c))'
    BY DEF StartsFlagless, Busy
<1>3. HeardInStep(c, h)'
    BY DEF Heard, HeardInStep, AsExpected, InStep, AtStage, StageAfter, TypeConnect, Busy
<1>4. QED
    BY <1>1, <1>2, <1>3 DEF Heard

(* HandleMessage receives: if it is about c, it is the next of its news.   *)
LEMMA UpHeard ==
    ASSUME NodeInv, NEW c, Alone(c), UpLine(c), hm_up, pm_to_hm # << >>,
           pm_to_hm' = Tail(pm_to_hm),
           UNCHANGED << pm, peer, read, set_id_peers, peer_to_pm, hm_up >>,
           Head(pm_to_hm) \notin AboutId(IdOf(c)) => \A h \in Nat : Heard(c, h) => Heard(c, h)',
           Head(pm_to_hm) \in AboutId(IdOf(c)) =>
              \A h \in Nat : h <= Len(read[c]) /\ Heard(c, h) /\ Head(pm_to_hm) = News(c)[h + 1]
                                => Heard(c, h + 1)'
    PROVE  UpLine(c)'
<1>0. /\ Len(read[c]) \in Nat /\ pm_to_hm \in Seq(EventsToHandleMessage) /\ IdOf(c)' = IdOf(c)
    BY NewsFacts, NodeFacts DEF IdOf
<1>1. News(c)' = News(c) /\ \A k : MessageOf(c, k)' = MessageOf(c, k)
    BY <1>0, NewsKept
<1>2. PICK h, x, y, z \in Nat :
          Ordered(h, x, y, z, Len(read[c]) + 1) /\ Heard(c, h) /\ UpPlaces(c, h, x, y, z)
    BY DEF UpLine
<1>3. /\ Carries(pm_to_hm, AboutId(IdOf(c)), News(c), h, x)
      /\ Serving => /\ InHand(c, x, y)
                    /\ Carries(peer_to_pm, AboutId(IdOf(c)), News(c), y, z)
                    /\ InPeersHand(c, z)
    BY <1>2 DEF UpPlaces
<1>4. Serving' = Serving /\ InHand(c, x, y)' = InHand(c, x, y) /\ InPeersHand(c, z)' = InPeersHand(c, z)
    BY <1>0, <1>1 DEF Serving, InHand, InPeersHand
<1>5. CASE Head(pm_to_hm) \notin AboutId(IdOf(c))
  <2>1. Carries(pm_to_hm', AboutId(IdOf(c)), News(c), h, x)
      BY <1>0, <1>3, <1>5, CarriesTailOther
  <2>2. UpPlaces(c, h, x, y, z)'
      BY <1>0, <1>1, <1>3, <1>4, <2>1 DEF UpPlaces
  <2>3. QED
      BY <1>2, <1>5, <2>2 DEF UpLine
<1>6. CASE Head(pm_to_hm) \in AboutId(IdOf(c))
  <2>1. /\ h < x /\ Head(pm_to_hm) = News(c)[h + 1]
        /\ Carries(pm_to_hm', AboutId(IdOf(c)), News(c), h + 1, x)
      BY <1>0, <1>3, <1>6, CarriesTailFirst
  <2>2. UpPlaces(c, h + 1, x, y, z)'
      BY <1>0, <1>1, <1>3, <1>4, <2>1 DEF UpPlaces
  <2>3. /\ h + 1 \in Nat /\ h <= Len(read[c])
        /\ Ordered(h + 1, x, y, z, Len(read[c]) + 1)
      BY <1>0, <1>2, <2>1 DEF Ordered
  <2>4. Heard(c, h + 1)'
      BY <1>2, <1>6, <2>1, <2>3
  <2>5. QED
      BY <2>2, <2>3, <2>4 DEF UpLine
<1>7. QED
    BY <1>5, <1>6

(* HandleMessage sends, or ends.                                           *)
LEMMA UpKept ==
    ASSUME NodeInv, NEW c, Alone(c), UpLine(c),
           UNCHANGED << pm, peer, read, set_id_peers, peer_to_pm >>,
           hm_up' => hm_up /\ UNCHANGED pm_to_hm,
           \A h \in Nat : Heard(c, h) => Heard(c, h)'
    PROVE  UpLine(c)'
<1>0. IdOf(c)' = IdOf(c)
    BY DEF IdOf
<1>1. News(c)' = News(c) /\ \A k : MessageOf(c, k)' = MessageOf(c, k)
    BY <1>0, NewsKept
<1>2. PICK h, x, y, z \in Nat :
          Ordered(h, x, y, z, Len(read[c]) + 1) /\ Heard(c, h) /\ UpPlaces(c, h, x, y, z)
    BY DEF UpLine
<1>3. Serving' = Serving /\ InHand(c, x, y)' = InHand(c, x, y) /\ InPeersHand(c, z)' = InPeersHand(c, z)
    BY <1>0, <1>1 DEF Serving, InHand, InPeersHand
<1>4. UpPlaces(c, h, x, y, z)'
    BY <1>0, <1>1, <1>2, <1>3 DEF UpPlaces
<1>5. QED
    BY <1>2, <1>4 DEF UpLine

(* The announcement of c is handled: its handshake starts without flags.   *)
LEMMA HeardAnnounced ==
    ASSUME NodeInv, NEW c, Alone(c), ReceiveNewConnection, UNCHANGED read,
           Head(pm_to_hm).peerid = IdOf(c),
           NEW h \in Nat, h <= Len(read[c]), Heard(c, h), Head(pm_to_hm) = News(c)[h + 1]
    PROVE  Heard(c, h + 1)'
<1> DEFINE e == Head(pm_to_hm)
<1>0. PICK p : p = IdOf(c)
    OBVIOUS
<1>1. /\ hm = Select /\ e.type = "NewConnection" /\ c \in Conns
      /\ IdOf(c)' = p /\ UNCHANGED << pm_up, hm_up >>
      /\ DOMAIN set_context_peers = DOMAIN set_state_peers
    BY <1>0, AloneOwns DEF ReceiveNewConnection, Receive, IdOf, NodeInv, HMInv, MapsAgree
<1>2. h = 0 /\ e = NewConnection(p, c)
  <2>1. Len(read[c]) \in Nat /\ h + 1 \in 1..(Len(read[c]) + 1)
      BY NewsFacts
  <2>2. h + 1 = 1
      BY <1>1, <2>1, NewsFacts
  <2>3. h = 0
      BY <2>2
  <2>4. QED
      BY <1>0, <2>3, NewsFacts
<1>3. p \notin DOMAIN set_context_peers
    BY <1>0, <1>2 DEF Heard, HeardFlags
<1>4. /\ set_context_peers' = Insert(set_context_peers, p, c)
      /\ set_state_peers' = Insert(set_state_peers, p, {})
    BY <1>1, <1>2, <1>3 DEF ReceiveNewConnection, InsertIfAbsent, NewConnection
<1>5. set_context_peers'[p] = c /\ set_state_peers'[p] = {}
    BY <1>4 DEF Insert
<1>6. HeardFlags(c, 1)'
    BY <1>1, <1>5 DEF HeardFlags
<1>7. StartsFlagless(p)'
    BY <1>5 DEF StartsFlagless
<1>8. ASSUME VersionBuilds = {TRUE} PROVE InStep(p, 1)'
  <2>1. InsertIfAbsent(set_context_peers, e.peerid, e.conn)[e.peerid] = c
      BY <1>2, <1>3, <1>4, <1>5 DEF InsertIfAbsent, NewConnection
  <2>2. CASE TypeConnection(c) = "in"
    <3>1. hm' = Select
        BY <2>1, <2>2 DEF ReceiveNewConnection
    <3>2. ~Busy(p)'
        BY <3>1 DEF Busy, Select, Sends
    <3>3. Reached("in", 0) = {} /\ TypeConnect(p)' = "in"
        BY <1>5, <2>2, StagesOfRoad DEF Way, TypeConnect
    <3>4. AtStage(p, 0)'
        BY <1>5, <3>3 DEF AtStage, TypeConnect
    <3>5. QED
        BY <3>2, <3>3, <3>4 DEF InStep, StageAfter
  <2>3. CASE TypeConnection(c) # "in"
    <3>1. hm' = Sending("new_version", p, c)
        BY <1>2, <1>8, <2>1, <2>3 DEF ReceiveNewConnection, NewConnection
    <3>2. QED
        BY <3>1 DEF Sending, InStep, Busy, Sends
  <2>4. QED
      BY <2>2, <2>3
<1>9. HeardInStep(c, 1)'
    BY <1>1, <1>8 DEF HeardInStep
<1>10. Heard(c, 1)'
    BY <1>1, <1>6, <1>7, <1>9 DEF Heard
<1>11. QED
    BY <1>2, <1>10

(* What is next after messages that kept to the protocol, and keeps to it. *)
LEMMA ExpectedNext ==
    ASSUME NEW c, NEW h \in Nat, h # 0, AsExpected(c, h + 1)
    PROVE  /\ read[c][h] = "verack" => h = 2 /\ AsExpected(c, 2)
           /\ read[c][h] # "verack" => h = 1 /\ read[c][1] = "version" /\ AsExpected(c, 1)
<1>1. h = 1 \/ h = 2
    BY DEF AsExpected
<1>2. read[c][1] = "version" /\ (h = 2 => read[c][2] = "verack")
    BY <1>1 DEF AsExpected
<1>3. AsExpected(c, 1) /\ AsExpected(c, 2)
    BY <1>2 DEF AsExpected
<1>4. QED
    BY <1>1, <1>2, <1>3

(* A message of c is handled: a flag it raises it also explains, and if    *)
(* the remote has kept to the protocol the message is due.                 *)
LEMMA HeardMessage ==
    ASSUME NodeInv, NEW c, Alone(c), ReceiveReadyMessage, UNCHANGED << read, pm_up >>,
           Head(pm_to_hm).peerid = IdOf(c),
           NEW h \in Nat, h <= Len(read[c]), Heard(c, h), Head(pm_to_hm) = News(c)[h + 1]
    PROVE  Heard(c, h + 1)'
<1>0. PICK p, m : p = IdOf(c) /\ m = Head(pm_to_hm).message
    OBVIOUS
<1>1. /\ hm = Select /\ Head(pm_to_hm).type = "ReadyMessage"
      /\ IdOf(c)' = p /\ UNCHANGED << hm_up, set_context_peers >>
      /\ HandshakesOK /\ DOMAIN set_context_peers = DOMAIN set_state_peers
    BY <1>0, HMInvParts
    DEF ReceiveReadyMessage, Receive, IdOf, NodeInv, HMInv, MapsAgree
<1>2. h # 0 /\ m.cmd = read[c][h]
  <2>1. Len(read[c]) \in Nat /\ h + 1 \in 1..(Len(read[c]) + 1)
      BY NewsFacts
  <2>2. h + 1 > 1 /\ (h + 1) - 1 = h
      BY <1>1, <2>1, NewsFacts
  <2>3. Head(pm_to_hm) = ReadyMessage(IdOf(c), MessageOf(c, h))
      BY <2>1, <2>2, NewsFacts
  <2>4. QED
      BY <1>0, <2>2, <2>3 DEF ReadyMessage, MessageOf
<1>3. h \in 1..((h + 1) - 1) /\ h <= h + 1 /\ h + 1 \in Nat /\ (h + 1) - 1 = h
    BY <1>2
<1>4. ASSUME NEW k, AtStage(p, k), UNCHANGED set_state_peers PROVE AtStage(p, k)'
    BY <1>1, <1>4 DEF AtStage, TypeConnect
<1>5. CASE p \notin DOMAIN set_context_peers
  <2>1. hm' = Select
      BY <1>0, <1>1, <1>5 DEF ReceiveReadyMessage
  <2>2. HeardFlags(c, h + 1)' /\ HeardInStep(c, h + 1)'
      BY <1>1, <1>5 DEF HeardFlags, HeardInStep
  <2>3. StartsFlagless(p)'
      BY <2>1 DEF StartsFlagless, Select
  <2>4. QED
      BY <1>1, <2>2, <2>3 DEF Heard
<1>6. ASSUME p \in DOMAIN set_context_peers, UNCHANGED set_state_peers,
             hm'.at # "new_version",
             pm_up /\ hm_up /\ VersionBuilds = {TRUE} => ~AsExpected(c, h + 1)
      PROVE  Heard(c, h + 1)'
  <2>1. HeardFlags(c, h + 1)'
      BY <1>0, <1>1, <1>3, <1>6, HeardFlagsGrow DEF Heard
  <2>2. StartsFlagless(p)'
      BY <1>6 DEF StartsFlagless
  <2>3. AsExpected(c, h + 1)' = AsExpected(c, h + 1)
      BY DEF AsExpected
  <2>4. HeardInStep(c, h + 1)'
      BY <1>1, <1>6, <2>3 DEF HeardInStep
  <2>5. QED
      BY <1>1, <2>1, <2>2, <2>4 DEF Heard
<1>7. ASSUME p \in DOMAIN set_context_peers, pm_up, hm_up, VersionBuilds = {TRUE},
             AsExpected(c, h)
      PROVE  AtStage(p, StageAfter(p, h))
    BY <1>0, <1>1, <1>7 DEF Heard, HeardInStep, InStep, Busy, Select, Sends
<1>8. CASE p \in DOMAIN set_context_peers /\ m.cmd = "verack"
  <2>0. OnVerack(p, m)
      BY <1>0, <1>1, <1>8 DEF ReceiveReadyMessage
  <2>1. ASSUME AsExpected(c, h + 1) PROVE h = 2 /\ AsExpected(c, 2)
      BY <1>2, <1>8, <2>1, ExpectedNext
  <2>2. CASE VerackInOrder(p)
    <3>1. AtStage(p, 3) /\ TypeConnect(p) \in Way
        BY <1>1, <1>8, <2>2, FlagsShowStage, WayOfConnection
    <3>2. /\ set_state_peers' = [set_state_peers EXCEPT ![p] = @ \cup VerackFlags]
          /\ hm' = Select
        BY <1>1, <2>0, <2>2 DEF OnVerack
    <3>3. set_state_peers'[p] = set_state_peers[p] \cup {"recv_verack", "completed_handshake"}
        BY <1>1, <1>8, <3>2 DEF VerackFlags
    <3>4. "recv_version" \in set_state_peers[p]
        BY <3>1, StagesOfRoad DEF AtStage
    <3>5. \E i \in 1..(h - 1) : read[c][i] = "version"
        BY <1>0, <1>8, <3>4 DEF Heard, HeardFlags
    <3>6. \E j \in 1..((h + 1) - 1) : \E i \in 1..(j - 1) :
              read[c][i] = "version" /\ read[c][j] = "verack"
        BY <1>2, <1>3, <1>8, <3>5
    <3>7. HeardFlags(c, h + 1)'
        BY <1>0, <1>1, <1>3, <3>3, <3>6, HeardFlagsGrow DEF Heard
    <3>8. StartsFlagless(p)'
        BY <3>2 DEF StartsFlagless, Select
    <3>9. ASSUME AsExpected(c, h + 1) PROVE InStep(p, h + 1)'
      <4>1. h + 1 = 3
          BY <2>1, <3>9
      <4>2. set_state_peers'[p] = Reached(TypeConnect(p), 4)
          BY <3>1, <3>3, StagesOfRoad DEF AtStage
      <4>3. AtStage(p, 4)' /\ ~Busy(p)'
          BY <1>1, <3>2, <4>2 DEF AtStage, TypeConnect, Busy, Select, Sends
      <4>4. StageAfter(p, 3)' = 4
          BY DEF StageAfter
      <4>5. QED
          BY <4>1, <4>3, <4>4 DEF InStep
    <3>10. AsExpected(c, h + 1)' = AsExpected(c, h + 1)
        BY DEF AsExpected
    <3>11. HeardInStep(c, h + 1)'
        BY <1>1, <3>9, <3>10 DEF HeardInStep
    <3>12. QED
        BY <1>1, <3>7, <3>8, <3>11 DEF Heard
  <2>3. CASE ~VerackInOrder(p)
    <3>1. UNCHANGED set_state_peers /\ hm'.at # "new_version"
        BY <2>0, <2>3 DEF OnVerack, Sending
    <3>2. ASSUME pm_up, hm_up, VersionBuilds = {TRUE}, AsExpected(c, h + 1) PROVE FALSE
      <4>1. h = 2 /\ AsExpected(c, h)
          BY <2>1, <3>2
      <4>2. AtStage(p, 3)
          BY <1>7, <1>8, <3>2, <4>1 DEF StageAfter
      <4>3. set_state_peers[p] = {"recv_version", "send_version", "send_verack"}
          BY <4>2, StagesOfRoad, WayOfConnection DEF AtStage
      <4>4. QED
          BY <2>3, <4>3 DEF VerackInOrder, FourFlags
    <3>3. QED
        BY <1>6, <1>8, <3>1, <3>2
  <2>4. QED
      BY <2>2, <2>3
<1>9. CASE p \in DOMAIN set_context_peers /\ m.cmd # "verack"
  <2>0. OnVersion(p, m)
      BY <1>0, <1>1, <1>9 DEF ReceiveReadyMessage
  <2>1. ASSUME AsExpected(c, h + 1) PROVE h = 1 /\ m.cmd = "version" /\ AsExpected(c, 1)
      BY <1>2, <1>9, <2>1, ExpectedNext
  <2>2. CASE VersionInOrder(p) /\ m.cmd = "version"
    <3>1. /\ set_state_peers' = [set_state_peers EXCEPT ![p] = @ \cup {"recv_version"}]
          /\ \/ TypeConnect(p) = "out" /\ hm' = Sending("reply_verack", p, m.conn)
             \/ \E ok \in VersionBuilds :
                    hm' = IF ok THEN Sending("reply_version", p, m.conn) ELSE Select
        BY <1>1, <2>0, <2>2 DEF OnVersion
    <3>2. set_state_peers'[p] = set_state_peers[p] \cup {"recv_version"}
        BY <1>1, <1>9, <3>1
    <3>3. \E i \in 1..((h + 1) - 1) : read[c][i] = "version"
        BY <1>2, <1>3, <2>2
    <3>4. HeardFlags(c, h + 1)'
        BY <1>0, <1>1, <1>3, <3>2, <3>3, HeardFlagsGrow DEF Heard
    <3>5. hm'.at # "new_version"
        BY <3>1 DEF Sending, Select
    <3>6. StartsFlagless(p)'
        BY <3>5 DEF StartsFlagless
    <3>7. ASSUME VersionBuilds = {TRUE}, AsExpected(c, h + 1) PROVE InStep(p, h + 1)'
      <4>1. h + 1 = 2
          BY <2>1, <3>7
      <4>2. hm' = Sending("reply_verack", p, m.conn) \/ hm' = Sending("reply_version", p, m.conn)
          BY <3>1, <3>7
      <4>3. hm'.at \in {"reply_version", "reply_verack"} /\ Busy(p)'
          BY <4>2 DEF Sending, Busy, Sends
      <4>4. QED
          BY <4>1, <4>3 DEF InStep
    <3>8. AsExpected(c, h + 1)' = AsExpected(c, h + 1)
        BY DEF AsExpected
    <3>9. HeardInStep(c, h + 1)'
        BY <1>1, <3>7, <3>8 DEF HeardInStep
    <3>10. QED
        BY <1>1, <3>4, <3>6, <3>9 DEF Heard
  <2>3. CASE ~(VersionInOrder(p) /\ m.cmd = "version")
    <3>1. UNCHANGED set_state_peers /\ hm'.at # "new_version"
        BY <1>1, <2>0, <2>3 DEF OnVersion, Sending, Select
    <3>2. ASSUME pm_up, hm_up, VersionBuilds = {TRUE}, AsExpected(c, h + 1) PROVE FALSE
      <4>1. h = 1 /\ AsExpected(c, h) /\ m.cmd = "version"
          BY <2>1, <3>2
      <4>2. AtStage(p, IF TypeConnect(p) = "in" THEN 0 ELSE 1) /\ TypeConnect(p) \in Way
          BY <1>7, <1>9, <3>2, <4>1, WayOfConnection DEF StageAfter
      <4>3. set_state_peers[p] = IF TypeConnect(p) = "in" THEN {} ELSE {"send_version"}
          BY <4>2, StagesOfRoad DEF AtStage
      <4>4. VersionInOrder(p)
          BY <4>3 DEF VersionInOrder, FourFlags
      <4>5. QED
          BY <2>3, <4>1, <4>4
    <3>3. QED
        BY <1>6, <1>9, <3>1, <3>2
  <2>4. QED
      BY <2>2, <2>3
<1>10. QED
    BY <1>5, <1>8, <1>9

(* Every step of HandleMessage keeps every line.                           *)
LEMMA UpByHM ==
    ASSUME NodeInv, NEW c, Alone(c), UpLine(c), NodeHM
    PROVE  UpLine(c)'
<1>0. /\ UNCHANGED << pm, peer, read >> /\ HMNext /\ HMInv
      /\ DOMAIN set_context_peers = DOMAIN set_state_peers
    BY DEF NodeHM, NodeInv, HMInv, MapsAgree
<1>1. PICK p : p = IdOf(c)
    OBVIOUS
<1>2. ASSUME UNCHANGED << set_id_peers, pm_up, hm_up >>,
             p \in DOMAIN set_context_peers' =>
                /\ p \in DOMAIN set_context_peers
                /\ set_context_peers'[p] = set_context_peers[p]
                /\ set_state_peers'[p] = set_state_peers[p],
             ~Busy(p), ~Busy(p)'
      PROVE  \A h \in Nat : Heard(c, h) => Heard(c, h)'
  <2>1. IdOf(c)' = IdOf(c)
      BY <1>2 DEF IdOf
  <2>2. ~Busy(IdOf(c)) /\ ~Busy(IdOf(c))'
      BY <1>1, <1>2, <2>1
  <2>3. QED
      BY <1>0, <1>1, <1>2, <2>1, <2>2, HeardElsewhere
<1>3. CASE \/ ReceiveNewConnection \/ ReceiveReadyMessage
           \/ ReceiveCompletedPeer \/ ReceiveCompletedAllPeer
  <2> DEFINE e == Head(pm_to_hm)
  <2>1. PICK q : q = e.peerid
      OBVIOUS
  <2>2. /\ pm_to_hm # << >> /\ pm_to_hm' = Tail(pm_to_hm) /\ hm = Select /\ hm_up
        /\ UNCHANGED << set_id_peers, peer_to_pm, pm_up, hm_up >>
        /\ e \in EventsToHandleMessage
      BY <1>3, HeadsOwned, NodeFacts
      DEF ReceiveNewConnection, ReceiveReadyMessage, ReceiveCompletedPeer,
          ReceiveCompletedAllPeer, Receive
  <2>3. ~Busy(p)
      BY <2>2 DEF Busy, Select, Sends
  <2>4. CASE ReceiveCompletedPeer \/ ReceiveCompletedAllPeer
    <3>1. e \notin AboutId(IdOf(c))
        BY <2>4 DEF ReceiveCompletedPeer, ReceiveCompletedAllPeer, Receive, AboutId
    <3>2. hm' = Select
        BY <2>2, <2>4 DEF ReceiveCompletedPeer, ReceiveCompletedAllPeer
    <3>3. ~Busy(p)'
        BY <3>2 DEF Busy, Select, Sends
    <3>4. CASE ReceiveCompletedAllPeer
      <4>1. p \notin DOMAIN set_context_peers'
          BY <3>4, EmptyIsHashMap DEF ReceiveCompletedAllPeer
      <4>2. QED
          BY <1>0, <1>2, <2>2, <2>3, <3>1, <3>3, <4>1, UpHeard
    <3>5. CASE ReceiveCompletedPeer
      <4>1. p \in DOMAIN set_context_peers' =>
                /\ p \in DOMAIN set_context_peers
                /\ set_context_peers'[p] = set_context_peers[p]
                /\ set_state_peers'[p] = set_state_peers[p]
          BY <1>0, <3>5 DEF ReceiveCompletedPeer, Remove, Restrict
      <4>2. QED
          BY <1>0, <1>2, <2>2, <2>3, <3>1, <3>3, <4>1, UpHeard
    <3>6. QED
        BY <2>4, <3>4, <3>5
  <2>5. CASE ReceiveNewConnection \/ ReceiveReadyMessage
    <3>1. e.type \in {"NewConnection", "ReadyMessage"}
        BY <2>5 DEF ReceiveNewConnection, ReceiveReadyMessage, Receive
    <3>2. e \in AboutId(IdOf(c)) <=> p = q
        BY <1>1, <2>1, <2>2, <3>1 DEF AboutId
    <3>3. CASE p = q
      <4>1. \A h \in Nat : h <= Len(read[c]) /\ Heard(c, h) /\ Head(pm_to_hm) = News(c)[h + 1]
                                => Heard(c, h + 1)'
          BY <1>0, <1>1, <2>1, <2>2, <2>5, <3>3, HeardAnnounced, HeardMessage
      <4>2. QED
          BY <1>0, <2>2, <3>2, <3>3, <4>1, UpHeard
    <3>4. CASE p # q
      <4>1. CASE ReceiveNewConnection
        <5>1. hm' = Select \/ hm' = Sending("new_version", q, e.conn)
            BY <2>1, <2>2, <4>1 DEF ReceiveNewConnection
        <5>2. ~Busy(p)'
            BY <3>4, <5>1 DEF Busy, Select, Sending, Sends
        <5>3. p \in DOMAIN set_context_peers' =>
                /\ p \in DOMAIN set_context_peers
                /\ set_context_peers'[p] = set_context_peers[p]
                /\ set_state_peers'[p] = set_state_peers[p]
            BY <1>0, <2>1, <3>4, <4>1 DEF ReceiveNewConnection, InsertIfAbsent, Insert
        <5>4. QED
            BY <1>0, <1>2, <2>2, <2>3, <3>2, <3>4, <5>2, <5>3, UpHeard
      <4>2. CASE ReceiveReadyMessage
        <5>1. PICK m : m = e.message
            OBVIOUS
        <5>2. \/ UNCHANGED << hm, set_state_peers >>
              \/ OnVerack(q, m) \/ OnVersion(q, m)
            BY <2>1, <4>2, <5>1 DEF ReceiveReadyMessage
        <5>3. \/ hm' = Select \/ hm' = Sending("violent", q, m.conn)
              \/ hm' = Sending("reply_verack", q, m.conn)
              \/ hm' = Sending("reply_version", q, m.conn)
            BY <2>2, <5>2 DEF OnVerack, OnVersion
        <5>4. ~Busy(p)'
            BY <3>4, <5>3 DEF Busy, Select, Sending, Sends
        <5>5. \/ UNCHANGED set_state_peers
              \/ \E new : set_state_peers' = [set_state_peers EXCEPT ![q] = new]
            BY <5>2 DEF OnVerack, OnVersion
        <5>6. /\ UNCHANGED set_context_peers
              /\ p \in DOMAIN set_context_peers => set_state_peers'[p] = set_state_peers[p]
            BY <1>0, <3>4, <4>2, <5>5 DEF ReceiveReadyMessage
        <5>7. QED
            BY <1>0, <1>2, <2>2, <2>3, <3>2, <3>4, <5>4, <5>6, UpHeard
      <4>3. QED
          BY <2>5, <4>1, <4>2
    <3>5. QED
        BY <3>3, <3>4
  <2>6. QED
      BY <1>3, <2>4, <2>5
<1>4. CASE SendNewVersion \/ SendReplyVersion \/ SendReplyVerack \/ SendViolent
  <2>1. PICK q : q = hm.peerid
      OBVIOUS
  <2>2. /\ hm.at \in Sends /\ hm.at \in {"new_version", "reply_version", "reply_verack", "violent"}
        /\ UNCHANGED << set_context_peers, pm_to_hm, peer_to_pm, set_id_peers, pm_up, hm_up >>
        /\ hm' = Select \/ (hm.at = "reply_version" /\ hm' = Sending("reply_verack", q, hm.conn))
      BY <1>4, <2>1 DEF SendNewVersion, SendReplyVersion, SendReplyVerack, SendViolent, SendToPM, Sends
  <2>3. /\ q \in DOMAIN set_state_peers /\ q \in DOMAIN set_context_peers
        /\ AwaitsKnowTheirStage /\ HandshakesOK /\ hm_up
        /\ TypeConnect(q) \in Way
      BY <1>0, <2>1, <2>2, HandFields, HMInvParts, WayOfConnection
  <2>4. \/ UNCHANGED set_state_peers
        \/ \E new : set_state_peers' = [set_state_peers EXCEPT ![q] = new]
      BY <1>4, <2>1 DEF SendNewVersion, SendReplyVersion, SendReplyVerack, SendViolent, Raise
  <2>5. CASE p # q
    <3>1. ~Busy(p) /\ ~Busy(p)'
        BY <2>1, <2>2, <2>5 DEF Busy, Select, Sending, Sends
    <3>2. p \in DOMAIN set_context_peers => set_state_peers'[p] = set_state_peers[p]
        BY <1>0, <2>4, <2>5
    <3>3. QED
        BY <1>0, <1>2, <2>2, <3>1, <3>2, UpKept
  <2>6. CASE p = q
    <3>0. Busy(p) /\ IdOf(c)' = p
        BY <1>1, <2>1, <2>2, <2>6 DEF Busy, IdOf
    <3> SUFFICES ASSUME NEW h \in Nat, Heard(c, h) PROVE Heard(c, h)'
        BY <1>0, <2>2, UpKept
    <3>1. HeardFlags(c, h) /\ StartsFlagless(p) /\ HeardInStep(c, h) /\ AsExpected(c, h)' = AsExpected(c, h)
        BY <1>0, <1>1 DEF Heard, AsExpected
    <3>2. ASSUME NEW flag \in {"send_version", "send_verack"},
                 set_state_peers' = Raise(q, flag) \/ UNCHANGED set_state_peers
          PROVE  HeardFlags(c, h)'
      <4>1. /\ DOMAIN set_state_peers' = DOMAIN set_state_peers
            /\ set_state_peers'[p] = set_state_peers[p] \cup {flag} \/ UNCHANGED set_state_peers
          BY <2>3, <2>6, <3>2 DEF Raise
      <4>2. QED
          BY <1>0, <1>1, <2>2, <3>0, <3>1, <3>2, <4>1, HeardFlagsGrow
    <3>3. ASSUME InStep(p, h) => InStep(p, h)'
          PROVE  HeardInStep(c, h)'
        BY <1>1, <2>2, <3>0, <3>1, <3>3 DEF HeardInStep
    <3>4. hm'.at # "new_version"
        BY <2>2 DEF Select, Sending
    <3>5. StartsFlagless(p)'
        BY <3>4 DEF StartsFlagless
    <3>6. CASE SendNewVersion
      <4>1. set_state_peers[p] = {} /\ hm.at = "new_version" /\ TypeConnect(p) = "out"
          BY <2>1, <2>3, <2>6, <3>0, <3>1, <3>6 DEF SendNewVersion, StartsFlagless, AwaitsKnowTheirStage
      <4>2. set_state_peers' = Raise(q, "send_version")
          BY <2>1, <2>6, <3>6, <4>1 DEF SendNewVersion
      <4>3. set_state_peers'[p] = {"send_version"}
          BY <2>3, <2>6, <4>1, <4>2 DEF Raise
      <4>4. AtStage(p, 1)' /\ TypeConnect(p)' = "out"
          BY <2>2, <4>1, <4>3, StagesOfRoad DEF AtStage, TypeConnect, Way
      <4>5. hm' = Select
          BY <3>6 DEF SendNewVersion
      <4>6. ~Busy(p)'
          BY <4>5 DEF Busy, Select, Sends
      <4>7. InStep(p, h) => h = 1
          BY <3>0, <4>1 DEF InStep
      <4>8. StageAfter(p, 1)' = 1
          BY <4>4 DEF StageAfter
      <4>9. InStep(p, h) => InStep(p, h)'
          BY <4>4, <4>6, <4>7, <4>8 DEF InStep
      <4>10. QED
          BY <3>0, <3>2, <3>3, <3>5, <4>2, <4>9 DEF Heard
    <3>7. CASE SendReplyVersion
      <4>1. /\ set_state_peers' = Raise(q, "send_version") /\ hm.at = "reply_version"
            /\ hm' = Sending("reply_verack", q, hm.conn)
          BY <2>1, <3>7 DEF SendReplyVersion
      <4>2. Busy(p)' /\ hm'.at = "reply_verack"
          BY <2>6, <4>1 DEF Busy, Sending, Sends
      <4>3. InStep(p, h) => InStep(p, h)'
          BY <3>0, <4>1, <4>2 DEF InStep
      <4>4. QED
          BY <3>0, <3>2, <3>3, <3>5, <4>1, <4>3 DEF Heard
    <3>8. CASE SendReplyVerack
      <4>1. /\ set_state_peers' = Raise(q, "send_verack") /\ hm.at = "reply_verack"
            /\ hm' = Select
          BY <2>1, <3>8 DEF SendReplyVerack
      <4>2. set_state_peers[p] = {"recv_version", "send_version"}
          BY <2>1, <2>3, <2>6, <4>1, StagesOfRoad DEF AwaitsKnowTheirStage, AtStage
      <4>3. set_state_peers'[p] = {"recv_version", "send_version", "send_verack"}
          BY <2>3, <2>6, <4>1, <4>2 DEF Raise
      <4>4. AtStage(p, 3)'
          BY <2>2, <2>3, <2>6, <4>3, StagesOfRoad DEF AtStage, TypeConnect
      <4>5. ~Busy(p)'
          BY <4>1 DEF Busy, Select, Sends
      <4>6. InStep(p, h) => h = 2
          BY <3>0, <4>1 DEF InStep
      <4>7. StageAfter(p, 2)' = 3
          BY DEF StageAfter
      <4>8. InStep(p, h) => InStep(p, h)'
          BY <4>4, <4>5, <4>6, <4>7 DEF InStep
      <4>9. QED
          BY <3>0, <3>2, <3>3, <3>5, <4>1, <4>8 DEF Heard
    <3>9. CASE SendViolent
      <4>1. UNCHANGED set_state_peers /\ hm.at = "violent"
          BY <3>9 DEF SendViolent
      <4>2. ~InStep(p, h)
          BY <3>0, <4>1 DEF InStep
      <4>3. QED
          BY <3>0, <3>2, <3>3, <3>5, <4>1, <4>2 DEF Heard
    <3>10. QED
        BY <1>4, <3>6, <3>7, <3>8, <3>9
  <2>7. QED
      BY <2>5, <2>6
<1>5. CASE SendFails \/ Stop
  <2>1. /\ UNCHANGED << set_context_peers, set_state_peers, peer_to_pm, set_id_peers, pm_up >>
        /\ hm' \in {Select, Returned} /\ (hm_up' => hm_up /\ UNCHANGED pm_to_hm)
        /\ ~pm_up \/ ~hm_up'
      BY <1>0, <1>5 DEF SendFails, Stop, Return
  <2>2. hm'.at \notin Sends /\ IdOf(c)' = IdOf(c)
      BY <2>1 DEF Select, Returned, Sends, IdOf
  <2> SUFFICES ASSUME NEW h \in Nat, Heard(c, h) PROVE Heard(c, h)'
      BY <1>0, <2>1, UpKept
  <2>3. HeardFlags(c, h)'
      BY <1>0, <2>1, <2>2, HeardFlagsGrow DEF Heard
  <2>4. StartsFlagless(p)' /\ HeardInStep(c, h)'
      BY <2>1, <2>2 DEF StartsFlagless, Busy, HeardInStep
  <2>5. QED
      BY <1>1, <2>2, <2>3, <2>4 DEF Heard
<1>6. QED
    BY <1>0, <1>3, <1>4, <1>5 DEF HMNext

(* Every step of the node keeps the line of every connection.              *)
LEMMA UpStep ==
    ASSUME NodeInv, Unseen, [NodeNext]_nodeVars, NEW c \in Conns, Alone(c)',
           c \in DOMAIN set_id_peers => UpLine(c)
    PROVE  UpLine(c)'
<1>1. CASE NodePM
    BY <1>1, UpByPM
<1>2. ASSUME UNCHANGED set_id_peers PROVE Alone(c) /\ UpLine(c) /\ IdOf(c)' = IdOf(c)
    BY <1>2 DEF Alone, IdOf
<1>3. CASE NodeHM
  <2>1. UNCHANGED set_id_peers
      BY <1>3 DEF NodeHM, HMNext, ReceiveNewConnection, ReceiveReadyMessage, ReceiveCompletedPeer,
         ReceiveCompletedAllPeer, Receive, SendNewVersion, SendReplyVersion, SendReplyVerack,
         SendViolent, SendToPM, SendFails, Stop, Return
  <2>2. QED
      BY <1>2, <1>3, <2>1, UpByHM
<1>4. ASSUME NEW d \in Conns, NodePeer(d) PROVE UpLine(c)'
  <2>1. UNCHANGED set_id_peers
      BY <1>4 DEF NodePeer, PeerNext, PeerTurn, PeerReads, PeerForwards, PeerReceives,
         PeerOrphaned, PeerSubtaskEnds, PeerReturns
  <2>2. QED
      BY <1>2, <1>4, <2>1, UpByPeer
<1>5. CASE NodeSupervisors \/ UNCHANGED nodeVars
  <2>1. UNCHANGED << set_id_peers, set_context_peers, set_state_peers, hm, hm_up, read, pm_up,
                     pm_to_hm, peer_to_pm, pm, peer >>
      BY <1>5 DEF NodeSupervisors, EnvSupervisor, EnvThreadProtocol, nodeVars
  <2>2. Serving' = Serving
      BY <2>1 DEF Serving
  <2>3. QED
      BY <1>2, <2>1, <2>2, UpQuiet
<1>6. QED
    BY <1>1, <1>3, <1>4, <1>5 DEF NodeNext

-----------------------------------------------------------------------------
(* What the other line needs of the registry.                              *)

(* Whoever is alone under its id and runs is registered under it.          *)
Registered ==
    \A c \in running_peers : Alone(c) =>
        IdOf(c) \in DOMAIN set_all_peers /\ set_all_peers[IdOf(c)] = c

(* PeerManager waits for a Peer that is registered.                        *)
HandRegistered == pm.at = "to_peer" => pm.peerid \in DOMAIN set_all_peers

(* Only what a connection's own Peer does, or PeerManager does for a Peer  *)
(* that runs, is seen of it.                                               *)
LEMMA UnseenKept ==
    ASSUME NodeInv, Unseen, [NodeNext]_nodeVars
    PROVE  Unseen'
<1>0. /\ DOMAIN pm_to_peer = Conns /\ DOMAIN read = Conns /\ DOMAIN wrote = Conns
      /\ DOMAIN peer = Conns
      /\ running_peers \subseteq DOMAIN set_id_peers
    BY NodeFacts DEF NodeInv, PeerOwnTypeOK
<1>1. DOMAIN set_id_peers \subseteq DOMAIN set_id_peers'
  <2>1. \A p, d : Owned(p, d) => Owned(p, d)'
      BY NodeStepIsPM, OwnedStays
  <2>2. QED
      BY <2>1 DEF Owned
<1> SUFFICES ASSUME NEW c \in Conns, c \notin DOMAIN set_id_peers
             PROVE  /\ read'[c] = read[c] /\ wrote'[c] = wrote[c]
                    /\ pm_to_peer'[c] = pm_to_peer[c] /\ peer'[c] = peer[c]
    BY <1>1 DEF Unseen
<1>2. CASE NodePM
  <2>1. UNCHANGED << read, wrote, peer >>
      BY <1>2 DEF NodePM
  <2>2. \/ UNCHANGED pm_to_peer
        \/ \E d \in running_peers : \E new : pm_to_peer' = [pm_to_peer EXCEPT ![d] = new]
    <3>1. CASE SendPeer
        BY <3>1 DEF SendPeer
    <3>2. CASE BulkSend
        BY <3>2 DEF BulkSend
    <3>3. CASE ~SendPeer /\ ~BulkSend
        BY <1>2, <3>3 DEF NodePM, PMNext, IncomingConnection, OutgoingConnection, AddPeer,
           CreateFails, JoinPeer, DrainPeer, Join, ReceiveFromProtocol, ReceiveFromPeer,
           SendProtocol, Terminate, BulkPick, BulkEnd, PMReturn
    <3>4. QED
        BY <3>1, <3>2, <3>3
  <2>3. QED
      BY <1>0, <2>1, <2>2
<1>3. CASE NodeHM \/ NodeSupervisors \/ UNCHANGED nodeVars
  <2>1. CASE NodeHM
      BY <2>1 DEF NodeHM, HMNext, ReceiveNewConnection, ReceiveReadyMessage,
         ReceiveCompletedPeer, ReceiveCompletedAllPeer, Receive, SendNewVersion,
         SendReplyVersion, SendReplyVerack, SendViolent, SendToPM, SendFails, Stop, Return
  <2>2. QED
      BY <1>3, <2>1 DEF NodeSupervisors, EnvSupervisor, EnvThreadProtocol, nodeVars
<1>4. ASSUME NEW d \in Conns, NodePeer(d)
      PROVE  /\ read'[c] = read[c] /\ wrote'[c] = wrote[c]
             /\ pm_to_peer'[c] = pm_to_peer[c] /\ peer'[c] = peer[c]
  <2>0. PeerNext(d)
      BY <1>4 DEF NodePeer
  <2>1. d # c
      BY <1>0, <2>0 DEF PeerNext, PeerTurn, PeerReads, PeerForwards, PeerReceives,
         PeerOrphaned, PeerSubtaskEnds, PeerReturns, AtLoop
  <2>2. CASE PeerReceives(d)
      BY <1>0, <2>1, <2>2 DEF PeerReceives, Become
  <2>3. CASE PeerForwards(d) \/ PeerReturns(d)
      BY <1>0, <2>1, <2>3 DEF PeerForwards, PeerReturns, Become
  <2>4. CASE (\E cmd \in Command : PeerReads(d, cmd)) \/ PeerSubtaskEnds(d) \/ PeerOrphaned(d)
      BY <1>0, <2>1, <2>4 DEF PeerReads, PeerSubtaskEnds, PeerOrphaned, Become
  <2>5. QED
      BY <2>0, <2>2, <2>3, <2>4 DEF PeerNext, PeerTurn
<1>5. QED
    BY <1>2, <1>3, <1>4 DEF NodeNext

(* No step loses the entry of a Peer that is alone under its id and runs.  *)
LEMMA RegisteredKept ==
    ASSUME NodeInv, Registered, HandRegistered, [NodeNext]_nodeVars
    PROVE  Registered' /\ HandRegistered'
<1>0. /\ HashMap(set_all_peers, PeerId, Conns)
      /\ running_peers \subseteq set_task_peers
      /\ running_peers \subseteq DOMAIN set_id_peers
      /\ set_task_peers \subseteq DOMAIN set_id_peers
    BY NodeFacts DEF Bookkeeping, TasksKnown
<1>1. ASSUME running_peers' \subseteq running_peers,
             \A c \in running_peers' : Alone(c)' /\ Alone(c) /\ IdOf(c)' = IdOf(c)
                 /\ IdOf(c) \in DOMAIN set_all_peers /\ set_all_peers[IdOf(c)] = c
                 => IdOf(c) \in DOMAIN set_all_peers' /\ set_all_peers'[IdOf(c)] = c
      PROVE  Registered'
  <2> SUFFICES ASSUME NEW c \in running_peers', Alone(c)'
               PROVE  IdOf(c)' \in DOMAIN set_all_peers' /\ set_all_peers'[IdOf(c)'] = c
      BY DEF Registered
  <2>1. c \in running_peers /\ c \in DOMAIN set_id_peers
      BY <1>0, <1>1
  <2>2. Alone(c) /\ IdOf(c)' = IdOf(c)
      BY <2>1, AloneBefore
  <2>3. QED
      BY <1>1, <2>1, <2>2 DEF Registered
<1>2. CASE UNCHANGED << set_all_peers, pm >> /\ running_peers' \subseteq running_peers
    BY <1>1, <1>2 DEF HandRegistered
<1>3. CASE NodePM
  <2>0. PMNext
      BY <1>3 DEF NodePM
  <2>1. ASSUME NEW d \in Conns, AddPeer(d), NotSeen(d) PROVE Registered' /\ HandRegistered'
    <3>1. /\ set_all_peers' = Insert(set_all_peers, peerid, d)
          /\ set_id_peers' = Insert(set_id_peers, d, peerid)
          /\ running_peers' = running_peers \cup {d} /\ pm'.at = "to_protocol"
        BY <2>1 DEF AddPeer, NextNumber, ToProtocol
    <3>2. set_id_peers'[d] = peerid /\ d \in DOMAIN set_id_peers' /\ set_all_peers'[peerid] = d
        BY <3>1 DEF Insert
    <3>3. ASSUME NEW c \in running_peers', Alone(c)'
          PROVE  IdOf(c)' \in DOMAIN set_all_peers' /\ set_all_peers'[IdOf(c)'] = c
      <4>1. CASE c = d
          BY <3>1, <3>2, <4>1 DEF IdOf, Insert
      <4>2. CASE c # d
        <5>1. c \in running_peers /\ c \in DOMAIN set_id_peers
            BY <1>0, <3>1, <3>3, <4>2
        <5>2. Alone(c) /\ IdOf(c)' = IdOf(c)
            BY <3>3, <5>1, AloneBefore
        <5>3. IdOf(c) # peerid
            BY <3>2, <3>3, <4>2, <5>2 DEF Alone, IdOf
        <5>4. IdOf(c) \in DOMAIN set_all_peers /\ set_all_peers[IdOf(c)] = c
            BY <5>1, <5>2 DEF Registered
        <5>5. QED
            BY <3>1, <5>2, <5>3, <5>4 DEF Insert
      <4>3. QED
          BY <4>1, <4>2
    <3>4. QED
        BY <3>1, <3>3 DEF Registered, HandRegistered
  <2>2. ASSUME NEW d \in Conns, Join(d), pm' = pm \/ pm'.at # "to_peer", pm.at # "to_peer"
        PROVE  Registered' /\ HandRegistered'
    <3>1. /\ d \in set_task_peers \ running_peers /\ running_peers' = running_peers
          /\ set_all_peers' = Remove(set_all_peers, set_id_peers[d])
        BY <2>2 DEF Join, RegistryWithout
    <3>2. ASSUME NEW c \in running_peers, Alone(c) PROVE IdOf(c) # set_id_peers[d]
        BY <1>0, <3>1, <3>2 DEF Alone, IdOf
    <3>3. Registered'
        BY <1>1, <3>1, <3>2 DEF Remove, Restrict
    <3>4. QED
        BY <2>2, <3>3 DEF HandRegistered
  <2>3. ASSUME NEW d \in Conns, JoinPeer(d) \/ DrainPeer(d) PROVE Registered' /\ HandRegistered'
      BY <2>2, <2>3 DEF JoinPeer, DrainPeer, ToProtocol, Loop
  <2>4. ASSUME NEW d \in Conns, CreateFails(d) PROVE Registered' /\ HandRegistered'
      BY <1>2, <2>4 DEF CreateFails
  <2>5. CASE ReceiveFromProtocol
    <3>1. Registered'
        BY <1>1, <2>5 DEF ReceiveFromProtocol
    <3>2. HandRegistered'
        BY <2>5 DEF ReceiveFromProtocol, HandRegistered, ToPeer, Loop
    <3>3. QED
        BY <3>1, <3>2
  <2>6. CASE SendPeer
    <3>1. Registered'
      <4>1. ASSUME NEW c \in running_peers, IdOf(c) \in DOMAIN set_all_peers,
                   set_all_peers[IdOf(c)] = c
            PROVE  IdOf(c) \in DOMAIN set_all_peers' /\ set_all_peers'[IdOf(c)] = c
        <5>1. CASE UNCHANGED set_all_peers
            BY <4>1, <5>1
        <5>2. CASE /\ set_all_peers[pm.peerid] \notin running_peers
                   /\ set_all_peers' = Remove(set_all_peers, pm.peerid)
          <6>1. IdOf(c) # pm.peerid
              BY <4>1, <5>2
          <6>2. QED
              BY <4>1, <5>2, <6>1 DEF Remove, Restrict
        <5>3. QED
            BY <2>6, <5>1, <5>2 DEF SendPeer
      <4>2. UNCHANGED running_peers
          BY <2>6 DEF SendPeer
      <4>3. QED
          BY <1>1, <4>1, <4>2
    <3>2. HandRegistered'
        BY <2>6 DEF SendPeer, HandRegistered, Loop
    <3>3. QED
        BY <3>1, <3>2
  <2>7. ASSUME UNCHANGED << set_all_peers, running_peers >>, pm'.at # "to_peer"
        PROVE  Registered' /\ HandRegistered'
      BY <1>1, <2>7 DEF HandRegistered
  <2>8. CASE ReceiveFromPeer \/ SendProtocol \/ BulkSend \/ BulkEnd
      BY <2>7, <2>8 DEF ReceiveFromPeer, SendProtocol, BulkSend, BulkEnd, ToProtocol, Loop, Bulk, Drain
  <2>9. ASSUME NEW r \in Reason, Terminate(r) PROVE Registered' /\ HandRegistered'
      BY <2>7, <2>9 DEF Terminate, Bulk
  <2>10. ASSUME NEW p \in DOMAIN set_all_peers, BulkPick(p) PROVE Registered' /\ HandRegistered'
      BY <2>7, <2>10 DEF BulkPick, BulkTo
  <2>11. CASE PMReturn
    <3>1. running_peers' = {} /\ pm'.at = "done"
        BY <1>0, <2>11 DEF PMReturn, Done
    <3>2. QED
        BY <3>1 DEF Registered, HandRegistered
  <2>12. QED
      BY <2>0, <2>1, <2>3, <2>4, <2>5, <2>6, <2>8, <2>9, <2>10, <2>11
      DEF PMNext, IncomingConnection, OutgoingConnection
<1>4. CASE NodeHM
    BY <1>2, <1>4 DEF NodeHM, HMNext, ReceiveNewConnection, ReceiveReadyMessage,
       ReceiveCompletedPeer, ReceiveCompletedAllPeer, Receive, SendNewVersion,
       SendReplyVersion, SendReplyVerack, SendViolent, SendToPM, SendFails, Stop, Return
<1>5. ASSUME NEW d \in Conns, NodePeer(d) PROVE Registered' /\ HandRegistered'
    BY <1>2, <1>5 DEF NodePeer, PeerNext, PeerTurn, PeerReads, PeerForwards, PeerReceives,
       PeerOrphaned, PeerSubtaskEnds, PeerReturns
<1>6. CASE NodeSupervisors \/ UNCHANGED nodeVars
    BY <1>2, <1>6 DEF NodeSupervisors, EnvSupervisor, EnvThreadProtocol, nodeVars
<1>7. QED
    BY <1>3, <1>4, <1>5, <1>6 DEF NodeNext

-----------------------------------------------------------------------------
(* From HandleMessage to the socket: one Version, then one Verack.         *)

Answers(c) == << VersionTo(c), VerackTo(c) >>

ReadyAnswers(c) == [k \in 1..2 |-> ReadyMessage(IdOf(c), Answers(c)[k])]

LowAnswers(c) == [k \in 1..2 |-> ReadyLowMessage(Answers(c)[k])]

ReadyFor(p) == {e \in EventsToPeerManager : e.type = "ReadyMessage" /\ e.peerid = p}

LowMessages == [type : {"ReadyLowMessage"}, message : Message]

ToItsPeer(c) == pm.at = "to_peer" /\ pm.peerid = IdOf(c) /\ pm.event # Shutdown

InPMsHand(c, b, d) ==
    IF ToItsPeer(c) THEN d = b + 1 /\ pm.event = LowAnswers(c)[d] ELSE d = b

DownPlaces(c, b, d, e) ==
    /\ Carries(pm_to_peer[c], LowMessages, LowAnswers(c), Len(wrote[c]), b)
    /\ InPMsHand(c, b, d)
    /\ Carries(hm_to_pm, ReadyFor(IdOf(c)), ReadyAnswers(c), d, e)

(* HandleMessage has not come to the announcement of c yet.                *)
Unannounced(c) ==
    \/ NewConnection(IdOf(c), c) \in Range(pm_to_hm)
    \/ pm = ToProtocol(NewConnection(IdOf(c), c))

(* How many answers the flags say were sent.                               *)
Sent(p) ==
    IF "send_verack" \in set_state_peers[p] THEN 2
    ELSE IF "send_version" \in set_state_peers[p] THEN 1 ELSE 0

Said(c, e) ==
    /\ IdOf(c) \in DOMAIN set_context_peers => e = Sent(IdOf(c))
    /\ Unannounced(c) => e = 0

DownLine(c) ==
    /\ IsPrefixOf(wrote[c], Answers(c))
    /\ c \in running_peers =>
          \E b, d, e \in 0..2 :
              Len(wrote[c]) <= b /\ b <= d /\ d <= e /\ DownPlaces(c, b, d, e) /\ Said(c, e)

(* The answers are events the channels carry.                              *)
LEMMA AnswersFacts ==
    ASSUME NodeInv, NEW c, Alone(c)
    PROVE  \A k \in 1..2 :
              /\ ReadyAnswers(c)[k] \in ReadyFor(IdOf(c)) /\ LowAnswers(c)[k] \in LowMessages
              /\ ReadyAnswers(c)[k] = ReadyMessage(IdOf(c), Answers(c)[k])
              /\ LowAnswers(c)[k] = ReadyLowMessage(Answers(c)[k])
              /\ Answers(c)[k] \in Message
<1>1. c \in Conns /\ IdOf(c) \in PeerId
    BY AloneOwns
<1>2. \A k \in 1..2 : Answers(c)[k] \in {VersionTo(c), VerackTo(c)}
    BY DEF Answers
<1>3. \A k \in 1..2 : Answers(c)[k] \in Message
    BY <1>1, <1>2 DEF VersionTo, VerackTo, Message
<1>4. \A m \in Message : /\ ReadyMessage(IdOf(c), m) \in ReadyFor(IdOf(c))
                         /\ ReadyLowMessage(m) \in LowMessages
    BY <1>1 DEF ReadyMessage, ReadyFor, EventsToPeerManager, ReadyMessageEvent, ReadyLowMessage,
                LowMessages
<1>5. \A k \in 1..2 : /\ ReadyAnswers(c)[k] = ReadyMessage(IdOf(c), Answers(c)[k])
                      /\ LowAnswers(c)[k] = ReadyLowMessage(Answers(c)[k])
    BY DEF ReadyAnswers, LowAnswers
<1>6. QED
    BY <1>3, <1>4, <1>5

(* A connection whose announcement is still to come has no context.        *)
LEMMA UnannouncedHasNoContext ==
    ASSUME NodeInv, NEW c, Alone(c), UpLine(c), hm_up, Unannounced(c)
    PROVE  IdOf(c) \notin DOMAIN set_context_peers
<1>1. PICK h, x, y, z \in Nat :
          Ordered(h, x, y, z, Len(read[c]) + 1) /\ Heard(c, h) /\ UpPlaces(c, h, x, y, z)
    BY DEF UpLine
<1> DEFINE e == NewConnection(IdOf(c), c)
<1>2. e = News(c)[1] /\ e \in AboutId(IdOf(c)) /\ Len(read[c]) \in Nat
      /\ \A k \in 1..(Len(read[c]) + 1) : News(c)[k] = e => k = 1
  <2>1. Len(read[c]) \in Nat /\ 1 \in 1..(Len(read[c]) + 1)
      BY NewsFacts
  <2>2. e.type = "NewConnection"
      BY DEF NewConnection
  <2>3. QED
      BY <2>1, <2>2, NewsFacts
<1>3. h = 0
  <2>1. CASE e \in Range(pm_to_hm)
    <3>1. Carries(pm_to_hm, AboutId(IdOf(c)), News(c), h, x)
        BY <1>1 DEF UpPlaces
    <3>2. PICK k \in (h + 1)..x : e = News(c)[k]
        BY <1>2, <2>1, <3>1, CarriedIsThere
    <3>3. k \in 1..(Len(read[c]) + 1)
        BY <1>1, <1>2 DEF Ordered
    <3>4. k = 1
        BY <1>2, <3>2, <3>3
    <3>5. QED
        BY <3>4
  <2>2. CASE pm = ToProtocol(e)
    <3>1. pm.at = "to_protocol" /\ pm.event = e /\ Serving
        BY <2>2 DEF ToProtocol, Serving
    <3>2. y = x + 1 /\ e = News(c)[y]
        BY <1>1, <1>2, <3>1 DEF UpPlaces, InHand
    <3>3. y \in 1..(Len(read[c]) + 1)
        BY <1>1, <1>2, <3>2 DEF Ordered
    <3>4. y = 1
        BY <1>2, <3>2, <3>3
    <3>5. QED
        BY <1>1, <3>2, <3>4 DEF Ordered
  <2>3. QED
      BY <2>1, <2>2 DEF Unannounced
<1>4. QED
    BY <1>1, <1>3 DEF Heard, HeardFlags

(* A step that has nothing to do with the line.                            *)
LEMMA DownQuiet ==
    ASSUME NEW c, DownLine(c), IdOf(c)' = IdOf(c), UNCHANGED hm_to_pm,
           wrote'[c] = wrote[c], pm_to_peer'[c] = pm_to_peer[c],
           c \in running_peers' => c \in running_peers,
           pm' = pm \/ (~ToItsPeer(c) /\ ~ToItsPeer(c)'),
           Unannounced(c)' => Unannounced(c),
           IdOf(c) \in DOMAIN set_context_peers' =>
              \/ IdOf(c) \in DOMAIN set_context_peers /\ Sent(IdOf(c))' = Sent(IdOf(c))
              \/ Unannounced(c) /\ Sent(IdOf(c))' = 0
    PROVE  DownLine(c)'
<1>1. /\ Answers(c)' = Answers(c) /\ LowAnswers(c)' = LowAnswers(c)
      /\ ReadyAnswers(c)' = ReadyAnswers(c)
    BY DEF Answers, LowAnswers, ReadyAnswers, VersionTo, VerackTo
<1>2. \A b, d : InPMsHand(c, b, d) => InPMsHand(c, b, d)'
    BY <1>1 DEF InPMsHand, ToItsPeer
<1>3. \A b, d, e : DownPlaces(c, b, d, e) => DownPlaces(c, b, d, e)'
    BY <1>1, <1>2 DEF DownPlaces
<1>4. \A e : Said(c, e) => Said(c, e)'
    BY DEF Said
<1>5. QED
    BY <1>1, <1>3, <1>4 DEF DownLine

(* Where the answers are after a step.                                     *)
LEMMA DownMoves ==
    ASSUME NEW c, IdOf(c)' = IdOf(c), IsPrefixOf(wrote'[c], Answers(c)),
           NEW b \in 0..2, NEW d \in 0..2, NEW e \in 0..2,
           Len(wrote'[c]) <= b, b <= d, d <= e,
           Carries(pm_to_peer'[c], LowMessages, LowAnswers(c), Len(wrote'[c]), b),
           InPMsHand(c, b, d)',
           Carries(hm_to_pm', ReadyFor(IdOf(c)), ReadyAnswers(c), d, e),
           Said(c, e)'
    PROVE  DownLine(c)'
<1>1. /\ Answers(c)' = Answers(c) /\ LowAnswers(c)' = LowAnswers(c)
      /\ ReadyAnswers(c)' = ReadyAnswers(c)
    BY DEF Answers, LowAnswers, ReadyAnswers, VersionTo, VerackTo
<1>2. DownPlaces(c, b, d, e)'
    BY <1>1 DEF DownPlaces
<1>3. QED
    BY <1>1, <1>2 DEF DownLine

(* A Peer starts: nothing was sent under its id.                           *)
LEMMA DownNew ==
    ASSUME NodeInv, Unseen, NEW c \in Conns, NotSeen(c), AddPeer(c), Alone(c)',
           UNCHANGED << set_context_peers, set_state_peers, wrote >>
    PROVE  DownLine(c)'
<1>1. /\ set_id_peers' = Insert(set_id_peers, c, peerid) /\ pm'.at = "to_protocol"
      /\ UNCHANGED << hm_to_pm, pm_to_peer >>
    BY DEF AddPeer, NextNumber, ToProtocol
<1>2. /\ IdOf(c)' = peerid
      /\ \A d \in DOMAIN set_id_peers : set_id_peers[d] # peerid
    BY <1>1 DEF Alone, NotSeen, Insert, IdOf
<1>3. \A d : ~Owned(peerid, d)
    BY <1>2 DEF Owned
<1>4. wrote'[c] = << >> /\ pm_to_peer'[c] = << >>
    BY <1>1 DEF Unseen, NotSeen
<1>5. \A e \in Range(hm_to_pm') : e \notin ReadyFor(peerid)
    BY <1>1, <1>3 DEF NodeInv, Named, OwnedEvent, ReadyFor
<1>6. peerid \notin DOMAIN set_context_peers
    BY <1>3 DEF NodeInv, Named
<1>7. Len(wrote'[c]) = 0 /\ IsPrefixOf(wrote'[c], Answers(c)')
    BY <1>4 DEF IsPrefixOf, Answers
<1>8. Carries(pm_to_peer'[c], LowMessages, LowAnswers(c)', 0, 0)
    BY <1>4, CarriesNothing, RangeOfEmpty
<1>9. Carries(hm_to_pm', ReadyFor(peerid), ReadyAnswers(c)', 0, 0)
    BY <1>5, CarriesNothing
<1>10. InPMsHand(c, 0, 0)'
    BY <1>1 DEF InPMsHand, ToItsPeer
<1>11. DownPlaces(c, 0, 0, 0)'
    BY <1>2, <1>7, <1>8, <1>9, <1>10 DEF DownPlaces
<1>12. Said(c, 0)'
    BY <1>2, <1>6 DEF Said
<1>13. 0 \in 0..2 /\ Len(wrote'[c]) <= 0 /\ 0 <= 0
    BY <1>7
<1>14. QED
    BY <1>7, <1>11, <1>12, <1>13 DEF DownLine

(* PeerManager takes an answer into its hand: the Peer is registered.      *)
LEMMA DownReceived ==
    ASSUME NodeInv, Registered, NEW c, Alone(c), DownLine(c), ReceiveFromProtocol,
           UNCHANGED << set_context_peers, set_state_peers, wrote >>
    PROVE  DownLine(c)'
<1>0. /\ IdOf(c)' = IdOf(c) /\ UNCHANGED << running_peers, pm_to_peer, pm_to_hm >>
      /\ pm = Loop /\ hm_to_pm # << >> /\ hm_to_pm' = Tail(hm_to_pm)
      /\ hm_to_pm \in Seq(EventsToPeerManager) /\ Head(hm_to_pm) \in EventsToPeerManager
    BY NodeFacts, HeadsOwned DEF ReceiveFromProtocol, IdOf
<1>1. CASE c \notin running_peers
    BY <1>0, <1>1 DEF DownLine, Answers, VersionTo, VerackTo
<1>2. CASE c \in running_peers
  <2> DEFINE ev == Head(hm_to_pm)
  <2>1. PICK b, d, e \in 0..2 :
            Len(wrote[c]) <= b /\ b <= d /\ d <= e /\ DownPlaces(c, b, d, e) /\ Said(c, e)
      BY <1>2 DEF DownLine
  <2>2. /\ Carries(pm_to_peer[c], LowMessages, LowAnswers(c), Len(wrote[c]), b)
        /\ Carries(hm_to_pm, ReadyFor(IdOf(c)), ReadyAnswers(c), d, e)
        /\ d = b
      BY <1>0, <2>1 DEF DownPlaces, InPMsHand, ToItsPeer, Loop
  <2>3. IdOf(c) \in DOMAIN set_all_peers /\ IsPrefixOf(wrote'[c], Answers(c))
      BY <1>2 DEF Registered, DownLine
  <2>4. pm'.at \in {"loop", "to_peer"}
      BY DEF ReceiveFromProtocol, Loop, ToPeer
  <2>5. Said(c, e)'
      BY <1>0, <2>1, <2>4 DEF Said, Unannounced, Sent, ToProtocol
  <2>6. CASE ev \in ReadyFor(IdOf(c))
    <3>1. /\ d < e /\ ev = ReadyAnswers(c)[d + 1]
          /\ Carries(hm_to_pm', ReadyFor(IdOf(c)), ReadyAnswers(c), d + 1, e)
      <4>1. d \in Nat /\ e \in Nat
          OBVIOUS
      <4> HIDE DEF ev
      <4>2. Head(hm_to_pm) \in ReadyFor(IdOf(c))
          BY <2>6 DEF ev
      <4>3. /\ hm_to_pm \in Seq(EventsToPeerManager) /\ hm_to_pm # << >>
            /\ Carries(hm_to_pm, ReadyFor(IdOf(c)), ReadyAnswers(c), d, e)
          BY <1>0, <2>2
      <4>4. /\ d < e /\ Head(hm_to_pm) = ReadyAnswers(c)[d + 1]
            /\ Carries(Tail(hm_to_pm), ReadyFor(IdOf(c)), ReadyAnswers(c), d + 1, e)
          BY <4>1, <4>2, <4>3, CarriesTailFirst
      <4>5. QED
          BY <1>0, <4>4 DEF ev
    <3>2. d + 1 \in 1..2 /\ d + 1 \in 0..2 /\ d + 1 <= e
        BY <3>1
    <3>3. ev.peerid = IdOf(c) /\ ev.type = "ReadyMessage" /\ ev.message = Answers(c)[d + 1]
      <4>1. ev = ReadyMessage(IdOf(c), Answers(c)[d + 1])
          BY <3>1, <3>2, AnswersFacts
      <4>2. QED
          BY <4>1 DEF ReadyMessage
    <3>4. pm' = ToPeer(IdOf(c), LowAnswers(c)[d + 1])
        BY <2>3, <3>2, <3>3, AnswersFacts DEF ReceiveFromProtocol
    <3>5. LowAnswers(c)' = LowAnswers(c) /\ LowAnswers(c)[d + 1] # Shutdown
        BY <3>2, AnswersFacts DEF LowMessages, Shutdown, LowAnswers, Answers, VersionTo, VerackTo
    <3>6. InPMsHand(c, b, d + 1)'
        BY <1>0, <2>2, <3>4, <3>5 DEF InPMsHand, ToItsPeer, ToPeer
    <3>7. b <= d + 1
        BY <2>1
    <3>8. QED
        BY <1>0, <2>1, <2>2, <2>3, <2>5, <3>1, <3>2, <3>6, <3>7, DownMoves
  <2>7. CASE ev \notin ReadyFor(IdOf(c))
    <3>1. Carries(hm_to_pm', ReadyFor(IdOf(c)), ReadyAnswers(c), d, e)
        BY <1>0, <2>2, <2>7, CarriesTailOther
    <3>2. ~ToItsPeer(c)'
        BY <1>0, <2>7 DEF ReceiveFromProtocol, ToItsPeer, ToPeer, Loop, ReadyFor
    <3>3. InPMsHand(c, b, d)'
        BY <2>2, <3>2 DEF InPMsHand
    <3>4. QED
        BY <1>0, <2>1, <2>2, <2>3, <2>5, <3>1, <3>3, DownMoves
  <2>8. QED
      BY <2>6, <2>7
<1>3. QED
    BY <1>1, <1>2

(* PeerManager hands on what it holds: to the Peer registered there.       *)
LEMMA DownSent ==
    ASSUME NodeInv, Registered, HandRegistered, NEW c, Alone(c), DownLine(c), SendPeer,
           UNCHANGED << set_context_peers, set_state_peers, wrote >>
    PROVE  DownLine(c)'
<1>0. /\ IdOf(c)' = IdOf(c) /\ UNCHANGED << running_peers, hm_to_pm, pm_to_hm >>
      /\ pm.at = "to_peer" /\ pm' = Loop /\ pm.event \in EventsToPeer
      /\ pm_to_peer \in [Conns -> Seq(EventsToPeer)] /\ c \in Conns
    BY NodeFacts, ControlFields, AloneOwns DEF SendPeer, IdOf, PMTypeOK
<1>1. CASE c \notin running_peers
    BY <1>0, <1>1 DEF DownLine, Answers, VersionTo, VerackTo
<1>2. CASE c \in running_peers
  <2>1. PICK b, d, e \in 0..2 :
            Len(wrote[c]) <= b /\ b <= d /\ d <= e /\ DownPlaces(c, b, d, e) /\ Said(c, e)
      BY <1>2 DEF DownLine
  <2>2. /\ Carries(pm_to_peer[c], LowMessages, LowAnswers(c), Len(wrote[c]), b)
        /\ Carries(hm_to_pm', ReadyFor(IdOf(c)), ReadyAnswers(c), d, e)
        /\ InPMsHand(c, b, d)
      BY <1>0, <2>1 DEF DownPlaces
  <2>3. /\ IdOf(c) \in DOMAIN set_all_peers /\ set_all_peers[IdOf(c)] = c
        /\ IsPrefixOf(wrote'[c], Answers(c)) /\ Len(wrote'[c]) = Len(wrote[c])
        /\ Len(wrote[c]) \in Nat
    <3>1. wrote[c] \in Seq(Message)
        BY <1>0 DEF NodeInv, PeerOwnTypeOK
    <3>2. Len(wrote[c]) \in Nat
        BY <3>1
    <3>3. QED
        BY <1>2, <3>2 DEF Registered, DownLine
  <2>4. Said(c, e)'
      BY <1>0, <2>1 DEF Said, Unannounced, Sent, ToProtocol, Loop
  <2>5. \A n : InPMsHand(c, n, n)'
      BY <1>0 DEF InPMsHand, ToItsPeer, Loop
  <2>6. CASE ToItsPeer(c)
    <3>1. d = b + 1 /\ pm.event = LowAnswers(c)[b + 1] /\ pm_to_peer'[c] = Append(pm_to_peer[c], pm.event)
        BY <1>0, <1>2, <2>2, <2>3, <2>6 DEF InPMsHand, ToItsPeer, SendPeer
    <3>2. pm.event \in LowMessages /\ pm_to_peer[c] \in Seq(EventsToPeer)
        BY <1>0, <2>1, <3>1, AnswersFacts
    <3>3. Carries(pm_to_peer'[c], LowMessages, LowAnswers(c), Len(wrote[c]), b + 1)
        BY <1>0, <2>1, <2>2, <2>3, <3>1, <3>2, CarriesAppendNext
    <3>4. InPMsHand(c, d, d)' /\ Len(wrote'[c]) <= d /\ d <= d
        BY <2>1, <2>3, <2>5, <3>1
    <3>5. Carries(pm_to_peer'[c], LowMessages, LowAnswers(c), Len(wrote'[c]), d)
        BY <2>3, <3>1, <3>3
    <3>6. QED
        BY <1>0, <2>1, <2>2, <2>3, <2>4, <3>4, <3>5, DownMoves
  <2>7. CASE ~ToItsPeer(c)
    <3>1. d = b /\ InPMsHand(c, b, d)'
        BY <2>2, <2>5, <2>7 DEF InPMsHand
    <3>2. \/ pm_to_peer'[c] = pm_to_peer[c]
          \/ pm.event = Shutdown /\ pm_to_peer'[c] = Append(pm_to_peer[c], Shutdown)
      <4>1. PICK to : to = set_all_peers[pm.peerid]
          OBVIOUS
      <4>2. \/ UNCHANGED pm_to_peer
            \/ pm_to_peer' = [pm_to_peer EXCEPT ![to] = Append(@, pm.event)]
          BY <4>1 DEF SendPeer
      <4>3. pm.event # Shutdown => to # c
          BY <1>0, <2>7, <4>1, NodeFacts
          DEF HandRegistered, ToItsPeer, Bookkeeping, RegistrySound, IdOf
      <4>4. QED
          BY <1>0, <4>2, <4>3
    <3>3. Carries(pm_to_peer'[c], LowMessages, LowAnswers(c), Len(wrote'[c]), b)
      <4>1. Shutdown \notin LowMessages /\ Shutdown \in EventsToPeer /\ pm_to_peer[c] \in Seq(EventsToPeer)
          BY <1>0 DEF LowMessages, Shutdown, EventsToPeer
      <4>2. b \in Nat
          BY <2>1
      <4>3. QED
          BY <2>2, <2>3, <3>2, <4>1, <4>2, CarriesAppendOther
    <3>4. QED
        BY <1>0, <2>1, <2>2, <2>3, <2>4, <3>1, <3>3, DownMoves
  <2>8. QED
      BY <2>6, <2>7
<1>3. QED
    BY <1>1, <1>2

(* Every step of PeerManager keeps every line.                             *)
LEMMA DownByPM ==
    ASSUME NodeInv, Unseen, Registered, HandRegistered, NodePM, NEW c \in Conns, Alone(c)',
           c \in DOMAIN set_id_peers => DownLine(c)
    PROVE  DownLine(c)'
<1>0. UNCHANGED << set_context_peers, set_state_peers, wrote >> /\ PMNext
    BY DEF NodePM
<1>1. CASE c \notin DOMAIN set_id_peers
  <2>1. c \in DOMAIN set_id_peers'
      BY DEF Alone
  <2>2. PICK d \in Conns : AddPeer(d) /\ NotSeen(d)
      BY <1>0, <1>1, <2>1
      DEF PMNext, IncomingConnection, OutgoingConnection, CreateFails, JoinPeer, DrainPeer, Join,
          ReceiveFromProtocol, SendPeer, ReceiveFromPeer, SendProtocol, Terminate, BulkPick,
          BulkSend, BulkEnd, PMReturn
  <2>3. d = c
      BY <1>1, <2>1, <2>2 DEF AddPeer, Insert
  <2>4. QED
      BY <1>0, <2>2, <2>3, DownNew
<1>2. CASE c \in DOMAIN set_id_peers
  <2>0. /\ Alone(c) /\ IdOf(c)' = IdOf(c) /\ DownLine(c) /\ Sent(IdOf(c))' = Sent(IdOf(c))
        /\ running_peers \subseteq set_task_peers
      BY <1>0, <1>2, AloneBefore, NodeFacts DEF NodeNext, Sent, Bookkeeping, TasksKnown
  <2>1. ASSUME UNCHANGED << hm_to_pm, pm_to_peer >>, c \in running_peers' => c \in running_peers,
               pm.at # "to_peer", pm'.at # "to_peer",
               Unannounced(c)' => Unannounced(c)
        PROVE  DownLine(c)'
      BY <1>0, <2>0, <2>1, DownQuiet DEF ToItsPeer
  <2>2. ASSUME NEW d \in Conns, AddPeer(d), NotSeen(d), pm = Loop PROVE DownLine(c)'
    <3>1. /\ pm' = ToProtocol(NewConnection(peerid, d)) /\ UNCHANGED << hm_to_pm, pm_to_peer, pm_to_hm >>
          /\ d # c /\ running_peers' = running_peers \cup {d}
        BY <1>2, <2>2 DEF AddPeer, NextNumber, NotSeen
    <3>2. Unannounced(c)' => Unannounced(c)
        BY <2>0, <3>1 DEF Unannounced, ToProtocol, NewConnection
    <3>3. pm.at # "to_peer" /\ pm'.at # "to_peer"
        BY <2>2, <3>1 DEF ToProtocol, Loop
    <3>4. QED
        BY <2>1, <3>1, <3>2, <3>3
  <2>3. ASSUME NEW d \in Conns, JoinPeer(d) PROVE DownLine(c)'
    <3>1. /\ pm' = ToProtocol(CompletedPeer(set_id_peers[d])) /\ pm = Loop
          /\ UNCHANGED << hm_to_pm, pm_to_peer, pm_to_hm, running_peers >>
        BY <2>3 DEF JoinPeer, Join
    <3>2. Unannounced(c)' => Unannounced(c)
        BY <2>0, <3>1 DEF Unannounced, ToProtocol, NewConnection, CompletedPeer
    <3>3. pm.at # "to_peer" /\ pm'.at # "to_peer"
        BY <3>1 DEF ToProtocol, Loop
    <3>4. QED
        BY <2>1, <3>1, <3>2, <3>3
  <2>4. ASSUME UNCHANGED << hm_to_pm, pm_to_peer, pm_to_hm, running_peers >>,
               pm' = pm \/ pm'.at \notin {"to_protocol", "to_peer"}, pm.at # "to_peer"
        PROVE  DownLine(c)'
    <3>1. Unannounced(c)' => Unannounced(c)
        BY <2>0, <2>4 DEF Unannounced, ToProtocol
    <3>2. QED
        BY <2>1, <2>4, <3>1
  <2>5. ASSUME NEW d \in Conns, CreateFails(d) \/ DrainPeer(d) PROVE DownLine(c)'
      BY <2>4, <2>5 DEF CreateFails, DrainPeer, Join, Loop
  <2>6. CASE ReceiveFromProtocol \/ SendPeer
      BY <1>0, <2>0, <2>6, DownReceived, DownSent
  <2>7. CASE ReceiveFromPeer
    <3>1. /\ pm' = ToProtocol(Head(peer_to_pm)) /\ Head(peer_to_pm).type = "ReadyMessage"
          /\ pm = Loop /\ UNCHANGED << hm_to_pm, pm_to_peer, pm_to_hm, running_peers >>
        BY <2>7, HeadsOwned DEF ReceiveFromPeer, ReadyMessageEvent
    <3>2. Unannounced(c)' => Unannounced(c)
        BY <2>0, <3>1 DEF Unannounced, ToProtocol, NewConnection
    <3>3. pm.at # "to_peer" /\ pm'.at # "to_peer"
        BY <3>1 DEF ToProtocol, Loop
    <3>4. QED
        BY <2>1, <3>1, <3>2, <3>3
  <2>8. CASE SendProtocol
    <3>1. /\ pm.at = "to_protocol" /\ pm'.at \notin {"to_protocol", "to_peer"}
          /\ UNCHANGED << hm_to_pm, pm_to_peer, running_peers >>
          /\ pm_to_hm \in Seq(EventsToHandleMessage) /\ pm.event \in EventsToHandleMessage
          /\ pm \in [at : {"to_protocol"}, event : EventsToHandleMessage]
      <4>1. pm.at = "to_protocol" /\ pm \in PMControl
          BY <2>8, NodeFacts DEF SendProtocol, PMTypeOK
      <4>2. pm \in [at : {"to_protocol"}, event : EventsToHandleMessage]
          BY <4>1 DEF PMControl, Loop
      <4>3. QED
          BY <2>8, <4>1, <4>2, NodeFacts DEF SendProtocol, Loop, Bulk
    <3>2. Range(pm_to_hm') \subseteq Range(pm_to_hm) \cup {pm.event}
      <4>1. CASE pm_to_hm' = Append(pm_to_hm, pm.event)
          BY <3>1, <4>1, RangeOfAppend
      <4>2. CASE UNCHANGED pm_to_hm
          BY <4>2 DEF Range
      <4>3. QED
          BY <2>8, <4>1, <4>2 DEF SendProtocol
    <3>3. Unannounced(c)' => Unannounced(c)
        BY <2>0, <3>1, <3>2 DEF Unannounced, ToProtocol
    <3>4. QED
        BY <2>1, <3>1, <3>3
  <2>9. ASSUME NEW r \in Reason, Terminate(r) PROVE DownLine(c)'
      BY <2>4, <2>9 DEF Terminate, Bulk, Loop
  <2>10. ASSUME NEW p \in DOMAIN set_all_peers, BulkPick(p) PROVE DownLine(c)'
      BY <2>4, <2>10 DEF BulkPick, BulkTo
  <2>11. CASE BulkEnd
      BY <2>4, <2>11 DEF BulkEnd, Drain
  <2>12. CASE BulkSend
    <3>1. /\ pm.at = "bulk_to" /\ pm'.at = "bulk"
          /\ UNCHANGED << hm_to_pm, running_peers, pm_to_hm >>
          /\ pm_to_peer \in [Conns -> Seq(EventsToPeer)]
        BY <2>12, NodeFacts DEF BulkSend, Bulk
    <3>2. CASE c \notin running_peers
        BY <1>0, <2>0, <3>1, <3>2 DEF DownLine, Answers, VersionTo, VerackTo
    <3>3. CASE c \in running_peers
      <4>1. PICK b, d, e \in 0..2 :
                Len(wrote[c]) <= b /\ b <= d /\ d <= e /\ DownPlaces(c, b, d, e) /\ Said(c, e)
          BY <2>0, <3>3 DEF DownLine
      <4>2. /\ Carries(pm_to_peer[c], LowMessages, LowAnswers(c), Len(wrote[c]), b)
            /\ Carries(hm_to_pm', ReadyFor(IdOf(c)), ReadyAnswers(c), d, e)
            /\ InPMsHand(c, b, d) /\ IsPrefixOf(wrote'[c], Answers(c))
          BY <1>0, <2>0, <3>1, <3>3, <4>1 DEF DownPlaces, DownLine
      <4>3. InPMsHand(c, b, d)'
          BY <3>1, <4>2 DEF InPMsHand, ToItsPeer
      <4>4. Said(c, e)'
          BY <1>0, <2>0, <3>1, <4>1 DEF Said, Unannounced, ToProtocol
      <4>5. pm_to_peer'[c] = pm_to_peer[c] \/ pm_to_peer'[c] = Append(pm_to_peer[c], Shutdown)
          BY <2>12, <3>1 DEF BulkSend
      <4>6. /\ Shutdown \notin LowMessages /\ Shutdown \in EventsToPeer
            /\ pm_to_peer[c] \in Seq(EventsToPeer)
            /\ b \in Nat /\ Len(wrote[c]) \in Nat
        <5>1. wrote[c] \in Seq(Message)
            BY DEF NodeInv, PeerOwnTypeOK
        <5>2. QED
            BY <3>1, <5>1 DEF LowMessages, Shutdown, EventsToPeer
      <4>7. Carries(pm_to_peer'[c], LowMessages, LowAnswers(c), Len(wrote[c]), b)
          BY <4>2, <4>5, <4>6, CarriesAppendOther
      <4>8. QED
          BY <1>0, <2>0, <4>1, <4>2, <4>3, <4>4, <4>7, DownMoves
    <3>4. QED
        BY <3>2, <3>3
  <2>13. CASE PMReturn
    <3>1. running_peers' = {}
        BY <2>0, <2>13 DEF PMReturn
    <3>2. QED
        BY <1>0, <2>0, <3>1 DEF DownLine, Answers, VersionTo, VerackTo
  <2>14. QED
      BY <1>0, <2>2, <2>3, <2>5, <2>6, <2>7, <2>8, <2>9, <2>10, <2>11, <2>12, <2>13
      DEF PMNext, IncomingConnection, OutgoingConnection
<1>3. QED
    BY <1>1, <1>2

(* A Peer takes what it was sent: the next answer, or its end.             *)
LEMMA DownByPeer ==
    ASSUME NodeInv, NEW c, Alone(c), DownLine(c), NEW f \in Conns, NodePeer(f)
    PROVE  DownLine(c)'
<1>0. /\ UNCHANGED << set_context_peers, set_state_peers, pm, pm_to_hm, set_id_peers, hm_to_pm >>
      /\ PeerNext(f) /\ c \in Conns /\ DOMAIN wrote = Conns /\ wrote[c] \in Seq(Message)
      /\ pm_to_peer \in [Conns -> Seq(EventsToPeer)]
    BY AloneOwns, NodeFacts DEF NodePeer, NodeInv, PeerOwnTypeOK, PeerNext, PeerTurn, PeerReads,
       PeerForwards, PeerReceives, PeerOrphaned, PeerSubtaskEnds, PeerReturns
<1>1. IdOf(c)' = IdOf(c)
    BY <1>0 DEF IdOf
<1>2. Sent(IdOf(c))' = Sent(IdOf(c)) /\ (Unannounced(c)' <=> Unannounced(c))
    BY <1>0, <1>1 DEF Sent, Unannounced
<1>3. ASSUME wrote'[c] = wrote[c], pm_to_peer'[c] = pm_to_peer[c],
             c \in running_peers' => c \in running_peers
      PROVE  DownLine(c)'
    BY <1>0, <1>1, <1>2, <1>3, DownQuiet
<1>4. CASE (\E cmd \in Command : PeerReads(f, cmd)) \/ PeerForwards(f) \/ PeerSubtaskEnds(f)
           \/ PeerOrphaned(f)
    BY <1>3, <1>4 DEF PeerReads, PeerForwards, PeerSubtaskEnds, PeerOrphaned
<1>5. CASE PeerReturns(f)
  <2>1. CASE f = c
      BY <1>1, <1>5, <2>1 DEF PeerReturns, DownLine, Answers, VersionTo, VerackTo
  <2>2. CASE f # c
      BY <1>0, <1>3, <1>5, <2>2 DEF PeerReturns
  <2>3. QED
      BY <2>1, <2>2
<1>6. CASE PeerReceives(f)
  <2>1. CASE f # c
      BY <1>0, <1>3, <1>6, <2>1 DEF PeerReceives
  <2>2. CASE f = c
    <3> DEFINE q == pm_to_peer[c]
               ev == Head(q)
               n == Len(wrote[c])
    <3>1. /\ q \in Seq(EventsToPeer) /\ q # << >> /\ pm_to_peer'[c] = Tail(q)
          /\ c \in running_peers /\ ev \in EventsToPeer
          /\ n \in Nat
        BY <1>0, <1>6, <2>2, RangeOfTail DEF PeerReceives, AtLoop
    <3>2. PICK b, d, e \in 0..2 :
              n <= b /\ b <= d /\ d <= e /\ DownPlaces(c, b, d, e) /\ Said(c, e)
        BY <3>1 DEF DownLine
    <3>3. /\ Carries(q, LowMessages, LowAnswers(c), n, b) /\ b \in Nat
          /\ Carries(hm_to_pm', ReadyFor(IdOf(c)), ReadyAnswers(c), d, e)
          /\ IsPrefixOf(wrote[c], Answers(c)) /\ InPMsHand(c, b, d)
        BY <1>0, <3>2 DEF DownPlaces, DownLine
    <3>4. InPMsHand(c, b, d)' /\ Said(c, e)'
      <4>1. LowAnswers(c)' = LowAnswers(c)
          BY DEF LowAnswers, Answers, VersionTo, VerackTo
      <4>2. InPMsHand(c, b, d)'
          BY <1>0, <1>1, <3>3, <4>1 DEF InPMsHand, ToItsPeer
      <4>3. Said(c, e)'
          BY <1>0, <1>1, <1>2, <3>2 DEF Said
      <4>4. QED
          BY <4>2, <4>3
    <3>5. CASE ev = Shutdown
      <4>1. ev \notin LowMessages
          BY <3>5 DEF LowMessages, Shutdown
      <4>2. Carries(pm_to_peer'[c], LowMessages, LowAnswers(c), n, b)
          BY <3>1, <3>3, <4>1, CarriesTailOther
      <4>3. wrote'[c] = wrote[c]
          BY <1>6, <2>2, <3>5 DEF PeerReceives
      <4>4. QED
          BY <1>1, <3>2, <3>3, <3>4, <4>2, <4>3, DownMoves
    <3>6. CASE ev # Shutdown
      <4>1. ev \in LowMessages /\ wrote'[c] = Append(wrote[c], ev.message)
          BY <1>0, <1>6, <2>2, <3>1, <3>6 DEF PeerReceives, EventsToPeer, LowMessages
      <4>2. /\ n < b /\ ev = LowAnswers(c)[n + 1]
            /\ Carries(pm_to_peer'[c], LowMessages, LowAnswers(c), n + 1, b)
        <5> HIDE DEF q, ev, n
        <5>1. Head(q) \in LowMessages
            BY <4>1 DEF ev
        <5>2. /\ n < b /\ Head(q) = LowAnswers(c)[n + 1]
              /\ Carries(Tail(q), LowMessages, LowAnswers(c), n + 1, b)
            BY <3>1, <3>3, <5>1, CarriesTailFirst
        <5>3. QED
            BY <3>1, <5>2 DEF ev
      <4>3. n + 1 \in 1..2
          BY <3>1, <3>2, <4>2
      <4>4. ev = ReadyLowMessage(Answers(c)[n + 1]) /\ Answers(c)[n + 1] \in Message
          BY <4>2, <4>3, AnswersFacts
      <4>5. ev.message = Answers(c)[n + 1]
          BY <4>4 DEF ReadyLowMessage
      <4>6. /\ Len(wrote'[c]) = n + 1 /\ wrote'[c][n + 1] = Answers(c)[n + 1]
            /\ \A i \in 1..n : wrote'[c][i] = wrote[c][i]
          BY <1>0, <4>1, <4>4, <4>5
      <4>7. IsPrefixOf(wrote'[c], Answers(c))
        <5>1. Len(Answers(c)) = 2
            BY DEF Answers
        <5>2. \A i \in 1..(n + 1) : i \in 1..n \/ i = n + 1
            BY <3>1
        <5>3. QED
            BY <3>3, <4>3, <4>6, <5>1, <5>2 DEF IsPrefixOf
      <4>8. Len(wrote'[c]) <= b
          BY <3>1, <3>2, <4>2, <4>6
      <4>9. Carries(pm_to_peer'[c], LowMessages, LowAnswers(c), Len(wrote'[c]), b)
          BY <4>2, <4>6
      <4>10. QED
          BY <1>1, <3>2, <3>3, <3>4, <4>7, <4>8, <4>9, DownMoves
    <3>7. QED
        BY <3>5, <3>6
  <2>3. QED
      BY <2>1, <2>2
<1>7. QED
    BY <1>0, <1>4, <1>5, <1>6 DEF PeerNext, PeerTurn

(* HandleMessage sends: a report, an answer to another connection, or the  *)
(* next answer of this one, which its flags say was not sent before.       *)
LEMMA DownBySend ==
    ASSUME NodeInv, NEW c, Alone(c), UpLine(c), DownLine(c), hm_up,
           UNCHANGED << pm, pm_to_hm, wrote, pm_to_peer, running_peers, set_id_peers,
                        set_context_peers >>,
           NEW ev \in EventsToPeerManager, hm_to_pm' = Append(hm_to_pm, ev),
           \/ ev \notin ReadyFor(IdOf(c))
              /\ (IdOf(c) \in DOMAIN set_context_peers => Sent(IdOf(c))' = Sent(IdOf(c)))
           \/ IdOf(c) \in DOMAIN set_context_peers
              /\ \E k \in 1..2 : /\ ev = ReadyAnswers(c)[k]
                                 /\ Sent(IdOf(c)) = k - 1 /\ Sent(IdOf(c))' = k
    PROVE  DownLine(c)'
<1>0. /\ IdOf(c)' = IdOf(c) /\ Unannounced(c)' = Unannounced(c)
      /\ hm_to_pm \in Seq(EventsToPeerManager)
    BY NodeFacts DEF IdOf, Unannounced
<1>1. CASE c \notin running_peers
    BY <1>0, <1>1 DEF DownLine, Answers, VersionTo, VerackTo
<1>2. CASE c \in running_peers
  <2>1. PICK b, d, e \in 0..2 :
            Len(wrote[c]) <= b /\ b <= d /\ d <= e /\ DownPlaces(c, b, d, e) /\ Said(c, e)
      BY <1>2 DEF DownLine
  <2>2. /\ Carries(pm_to_peer'[c], LowMessages, LowAnswers(c), Len(wrote'[c]), b)
        /\ Carries(hm_to_pm, ReadyFor(IdOf(c)), ReadyAnswers(c), d, e)
        /\ InPMsHand(c, b, d)
        /\ IsPrefixOf(wrote'[c], Answers(c)) /\ Len(wrote'[c]) <= b
        /\ d \in Nat /\ e \in Nat
      BY <2>1 DEF DownPlaces, DownLine
  <2>3. InPMsHand(c, b, d)'
    <3>1. LowAnswers(c)' = LowAnswers(c)
        BY DEF LowAnswers, Answers, VersionTo, VerackTo
    <3>2. QED
        BY <1>0, <2>2, <3>1 DEF InPMsHand, ToItsPeer
  <2>4. CASE ev \notin ReadyFor(IdOf(c))
    <3>1. Carries(hm_to_pm', ReadyFor(IdOf(c)), ReadyAnswers(c), d, e)
        BY <1>0, <2>2, <2>4, CarriesAppendOther
    <3>2. IdOf(c) \in DOMAIN set_context_peers => Sent(IdOf(c))' = Sent(IdOf(c))
      <4>1. \A k \in 1..2 : ReadyAnswers(c)[k] \in ReadyFor(IdOf(c))
          BY AnswersFacts
      <4>2. QED
          BY <2>4, <4>1
    <3>3. Said(c, e)'
        BY <1>0, <2>1, <3>2 DEF Said
    <3>4. QED
        BY <1>0, <2>1, <2>2, <2>3, <3>1, <3>3, DownMoves
  <2>5. CASE ev \in ReadyFor(IdOf(c))
    <3>1. PICK k \in 1..2 : /\ ev = ReadyAnswers(c)[k]
                            /\ Sent(IdOf(c)) = k - 1 /\ Sent(IdOf(c))' = k
        BY <2>5
    <3>2. IdOf(c) \in DOMAIN set_context_peers /\ ~Unannounced(c)
        BY <2>5, UnannouncedHasNoContext
    <3>3. e = k - 1 /\ e + 1 = k /\ e + 1 \in 0..2 /\ d <= e + 1
        BY <2>1, <3>1, <3>2 DEF Said
    <3>4. Carries(hm_to_pm', ReadyFor(IdOf(c)), ReadyAnswers(c), d, e + 1)
        BY <1>0, <2>1, <2>2, <2>5, <3>1, <3>3, CarriesAppendNext
    <3>5. Said(c, e + 1)'
        BY <1>0, <3>1, <3>2, <3>3 DEF Said
    <3>6. QED
        BY <1>0, <2>1, <2>2, <2>3, <3>3, <3>4, <3>5, DownMoves
  <2>6. QED
      BY <2>4, <2>5
<1>3. QED
    BY <1>1, <1>2

(* Every step of HandleMessage keeps every line.                           *)
LEMMA DownByHM ==
    ASSUME NodeInv, NEW c, Alone(c), UpLine(c), DownLine(c), NodeHM
    PROVE  DownLine(c)'
<1>0. /\ UNCHANGED << pm, wrote, pm_to_peer, running_peers, set_id_peers >>
      /\ HMInv /\ HMNext /\ c \in Conns
      /\ pm_to_hm \in Seq(EventsToHandleMessage) /\ (hm = Select => hm_up)
      /\ HashMap(set_context_peers, PeerId, Conns) /\ HashMap(set_state_peers, PeerId, PeerStateMetadata)
      /\ DOMAIN set_context_peers = DOMAIN set_state_peers
    <2>1. UNCHANGED << pm, wrote, pm_to_peer, running_peers, set_id_peers >>
        BY DEF NodeHM, HMNext, ReceiveNewConnection, ReceiveReadyMessage, ReceiveCompletedPeer,
           ReceiveCompletedAllPeer, Receive, SendNewVersion, SendReplyVersion, SendReplyVerack,
           SendViolent, SendToPM, SendFails, Stop, Return
    <2>2. HMInv /\ HMNext
        BY DEF NodeHM, NodeInv
    <2>3. QED
        BY <2>1, <2>2, NodeFacts, AloneOwns DEF HMInv, HMOwnTypeOK, MapsAgree
<1>1. PICK p : p = IdOf(c)
    OBVIOUS
<1>2. IdOf(c)' = p
    BY <1>0, <1>1 DEF IdOf
<1>3. ASSUME UNCHANGED hm_to_pm, Unannounced(c)' => Unannounced(c),
             p \in DOMAIN set_context_peers' =>
                \/ p \in DOMAIN set_context_peers /\ set_state_peers'[p] = set_state_peers[p]
                \/ p \in DOMAIN set_context_peers /\ Sent(p)' = Sent(p)
                \/ Unannounced(c) /\ set_state_peers'[p] = {}
      PROVE  DownLine(c)'
    BY <1>0, <1>1, <1>2, <1>3, DownQuiet DEF Sent
<1>4. ASSUME NEW type, Receive(type)
      PROVE  /\ UNCHANGED hm_to_pm /\ (Unannounced(c)' => Unannounced(c))
             /\ Head(pm_to_hm) \in EventsToHandleMessage
             /\ Head(pm_to_hm) \in Range(pm_to_hm) /\ Head(pm_to_hm).type = type /\ hm_up
  <2>1. UNCHANGED hm_to_pm /\ pm_to_hm # << >> /\ pm_to_hm' = Tail(pm_to_hm) /\ hm = Select
        /\ Head(pm_to_hm).type = type
      BY <1>4 DEF Receive
  <2>2. /\ Range(pm_to_hm) = {Head(pm_to_hm)} \cup Range(pm_to_hm')
        /\ Head(pm_to_hm) \in EventsToHandleMessage
      BY <1>0, <2>1, RangeOfTail
  <2>3. Unannounced(c)' => Unannounced(c)
      BY <1>0, <1>1, <1>2, <2>2 DEF Unannounced, ToProtocol, NewConnection
  <2>4. QED
      BY <1>0, <2>1, <2>2, <2>3
<1>5. CASE ReceiveNewConnection
  <2> DEFINE e == Head(pm_to_hm)
  <2>1. /\ UNCHANGED hm_to_pm /\ (Unannounced(c)' => Unannounced(c))
        /\ e \in EventsToHandleMessage /\ e \in Range(pm_to_hm) /\ e.type = "NewConnection" /\ hm_up
      BY <1>4, <1>5 DEF ReceiveNewConnection
  <2>2. /\ set_context_peers' = InsertIfAbsent(set_context_peers, e.peerid, e.conn)
        /\ set_state_peers' = InsertIfAbsent(set_state_peers, e.peerid, {})
      BY <1>5 DEF ReceiveNewConnection
  <2>3. CASE e.peerid # p
    <3>1. p \in DOMAIN set_context_peers' =>
             p \in DOMAIN set_context_peers /\ set_state_peers'[p] = set_state_peers[p]
        BY <1>0, <2>2, <2>3 DEF InsertIfAbsent, Insert
    <3>2. QED
        BY <1>3, <2>1, <3>1
  <2>4. CASE e.peerid = p
    <3>1. e.conn = c
        BY <1>1, <2>1, <2>4, AloneOwns DEF NodeInv, Named, OwnedEvent
    <3>2. e = NewConnection(p, c)
        BY <2>1, <2>4, <3>1
        DEF EventsToHandleMessage, ReadyMessageEvent, CompletedAllPeer, NewConnection
    <3>3. Unannounced(c)
        BY <1>1, <2>1, <3>2 DEF Unannounced
    <3>4. p \notin DOMAIN set_state_peers
        BY <1>0, <1>1, <2>1, <3>3, UnannouncedHasNoContext
    <3>5. set_state_peers'[p] = {}
        BY <2>2, <2>4, <3>4 DEF InsertIfAbsent, Insert
    <3>6. QED
        BY <1>3, <2>1, <3>3, <3>5
  <2>5. QED
      BY <2>3, <2>4
<1>6. CASE ReceiveReadyMessage
  <2>1. UNCHANGED << hm_to_pm, set_context_peers >> /\ (Unannounced(c)' => Unannounced(c))
      BY <1>4, <1>6 DEF ReceiveReadyMessage
  <2>2. \/ UNCHANGED set_state_peers
        \/ \E q : \/ set_state_peers' = [set_state_peers EXCEPT ![q] = @ \cup {"recv_version"}]
                  \/ set_state_peers' = [set_state_peers EXCEPT ![q] = @ \cup VerackFlags]
      BY <1>6 DEF ReceiveReadyMessage, OnVersion, OnVerack
  <2>3. p \in DOMAIN set_context_peers => Sent(p)' = Sent(p)
      BY <1>0, <2>2 DEF Sent, VerackFlags
  <2>4. QED
      BY <1>3, <2>1, <2>3
<1>7. CASE ReceiveCompletedPeer \/ ReceiveCompletedAllPeer
  <2>1. UNCHANGED hm_to_pm /\ (Unannounced(c)' => Unannounced(c))
      BY <1>4, <1>7 DEF ReceiveCompletedPeer, ReceiveCompletedAllPeer
  <2>2. p \in DOMAIN set_context_peers' =>
           p \in DOMAIN set_context_peers /\ set_state_peers'[p] = set_state_peers[p]
    <3>1. CASE ReceiveCompletedPeer
        BY <1>0, <3>1 DEF ReceiveCompletedPeer, Remove, Restrict
    <3>2. CASE ReceiveCompletedAllPeer
        BY <3>2 DEF ReceiveCompletedAllPeer
    <3>3. QED
        BY <1>7, <3>1, <3>2
  <2>3. QED
      BY <1>3, <2>1, <2>2
<1>8. CASE SendFails \/ Stop
  <2>1. /\ UNCHANGED << hm_to_pm, set_context_peers, set_state_peers >>
        /\ pm_to_hm' \in {pm_to_hm, << >>}
      BY <1>8 DEF SendFails, Stop, Return
  <2>2. Unannounced(c)' => Unannounced(c)
      BY <1>0, <1>1, <1>2, <2>1, RangeOfEmpty DEF Unannounced, ToProtocol, NewConnection
  <2>3. QED
      BY <1>3, <2>1, <2>2
<1>9. CASE SendNewVersion \/ SendReplyVersion \/ SendReplyVerack \/ SendViolent
  <2>1. PICK q : q = hm.peerid
      OBVIOUS
  <2>2. hm.at \in Sends /\ UNCHANGED << pm_to_hm, set_context_peers >>
      BY <1>9 DEF SendNewVersion, SendReplyVersion, SendReplyVerack, SendViolent, SendToPM, Sends
  <2>3. /\ q \in DOMAIN set_state_peers /\ hm_up /\ AwaitsKnowTheirStage /\ HandshakesOK
        /\ \A cmd \in {"version", "verack"} : Reply(cmd) \in EventsToPeerManager
        /\ Violent(q, hm.conn) \in EventsToPeerManager
        /\ TypeConnect(q) \in Way
      BY <1>0, <2>1, <2>2, HandFields, HMInvParts, WayOfConnection
  <2>4. CASE SendViolent
    <3>1. hm_to_pm' = Append(hm_to_pm, Violent(q, hm.conn)) /\ UNCHANGED set_state_peers
        BY <2>1, <2>4 DEF SendViolent, SendToPM
    <3>2. Violent(q, hm.conn) \notin ReadyFor(p) /\ Sent(p)' = Sent(p)
        BY <3>1 DEF Violent, ReadyFor, Sent
    <3>3. QED
        BY <1>0, <1>1, <1>2, <2>2, <2>3, <3>1, <3>2, DownBySend
  <2>5. CASE ~SendViolent
    <3>1. PICK cmd \in {"version", "verack"} : hm_to_pm' = Append(hm_to_pm, Reply(cmd))
        BY <1>9, <2>5 DEF SendNewVersion, SendReplyVersion, SendReplyVerack, SendToPM
    <3>2. CASE q # p
      <4>1. Reply(cmd) \notin ReadyFor(p)
          BY <2>1, <3>2 DEF Reply, ReadyMessage, ReadyFor
      <4>2. p \in DOMAIN set_context_peers => set_state_peers'[p] = set_state_peers[p]
          BY <1>0, <1>9, <2>1, <2>5, <3>2
          DEF SendNewVersion, SendReplyVersion, SendReplyVerack, Raise
      <4>3. p \in DOMAIN set_context_peers => Sent(p)' = Sent(p)
          BY <4>2 DEF Sent
      <4>4. QED
          BY <1>0, <1>1, <1>2, <2>2, <2>3, <3>1, <4>1, <4>3, DownBySend
    <3>3. CASE q = p
      <4>1. set_context_peers[p] = c /\ p \in DOMAIN set_context_peers
          BY <1>0, <1>1, <2>3, <3>3, AloneOwns
      <4>2. /\ Reply("version") = ReadyAnswers(c)[1]
            /\ Reply("verack") = ReadyAnswers(c)[2]
          BY <1>1, <2>1, <3>3, <4>1 DEF Reply, ReadyAnswers, Answers, VersionTo, VerackTo
      <4>3. ASSUME NEW k \in 1..2, hm_to_pm' = Append(hm_to_pm, ReadyAnswers(c)[k]),
                   Sent(p) = k - 1, Sent(p)' = k
            PROVE  DownLine(c)'
        <5>1. ReadyAnswers(c)[k] \in EventsToPeerManager
            BY AnswersFacts DEF ReadyFor
        <5>2. QED
            BY <1>0, <1>1, <1>2, <2>2, <2>3, <4>1, <4>3, <5>1, DownBySend
      <4>4. CASE SendNewVersion
        <5>1. set_state_peers[p] = {}
            BY <1>1, <2>1, <2>2, <3>3, <4>4
            DEF SendNewVersion, UpLine, Heard, StartsFlagless, Busy
        <5>2. set_state_peers'[p] = {"send_version"} /\ hm_to_pm' = Append(hm_to_pm, Reply("version"))
            BY <2>1, <2>3, <3>3, <4>4, <5>1 DEF SendNewVersion, Raise, SendToPM
        <5>3. Sent(p) = 1 - 1 /\ Sent(p)' = 1
            BY <5>1, <5>2 DEF Sent
        <5>4. QED
            BY <4>2, <4>3, <5>2, <5>3
      <4>5. CASE SendReplyVersion
        <5>1. set_state_peers[p] = {"recv_version"}
            BY <2>1, <2>3, <3>3, <4>5, StagesOfRoad DEF SendReplyVersion, AwaitsKnowTheirStage, AtStage
        <5>2. /\ set_state_peers'[p] = {"recv_version", "send_version"}
              /\ hm_to_pm' = Append(hm_to_pm, Reply("version"))
            BY <2>1, <2>3, <3>3, <4>5, <5>1 DEF SendReplyVersion, Raise, SendToPM
        <5>3. Sent(p) = 1 - 1 /\ Sent(p)' = 1
            BY <5>1, <5>2 DEF Sent
        <5>4. QED
            BY <4>2, <4>3, <5>2, <5>3
      <4>6. CASE SendReplyVerack
        <5>1. set_state_peers[p] = {"recv_version", "send_version"}
            BY <2>1, <2>3, <3>3, <4>6, StagesOfRoad DEF SendReplyVerack, AwaitsKnowTheirStage, AtStage
        <5>2. /\ set_state_peers'[p] = {"recv_version", "send_version", "send_verack"}
              /\ hm_to_pm' = Append(hm_to_pm, Reply("verack"))
            BY <2>1, <2>3, <3>3, <4>6, <5>1 DEF SendReplyVerack, Raise, SendToPM
        <5>3. Sent(p) = 2 - 1 /\ Sent(p)' = 2
            BY <5>1, <5>2 DEF Sent
        <5>4. QED
            BY <4>2, <4>3, <5>2, <5>3
      <4>7. QED
          BY <1>9, <2>5, <4>4, <4>5, <4>6
    <3>4. QED
        BY <3>2, <3>3
  <2>6. QED
      BY <2>4, <2>5
<1>10. QED
    BY <1>0, <1>5, <1>6, <1>7, <1>8, <1>9 DEF HMNext

(* Every step of the node keeps the line of every connection.              *)
LEMMA DownStep ==
    ASSUME NodeInv, Unseen, Registered, HandRegistered, [NodeNext]_nodeVars,
           NEW c \in Conns, Alone(c)', c \in DOMAIN set_id_peers => UpLine(c) /\ DownLine(c)
    PROVE  DownLine(c)'
<1>1. CASE NodePM
    BY <1>1, DownByPM
<1>2. ASSUME UNCHANGED set_id_peers
      PROVE  Alone(c) /\ UpLine(c) /\ DownLine(c) /\ IdOf(c)' = IdOf(c)
    BY <1>2 DEF Alone, IdOf
<1>3. CASE NodeHM
  <2>1. UNCHANGED set_id_peers
      BY <1>3 DEF NodeHM, HMNext, ReceiveNewConnection, ReceiveReadyMessage, ReceiveCompletedPeer,
         ReceiveCompletedAllPeer, Receive, SendNewVersion, SendReplyVersion, SendReplyVerack,
         SendViolent, SendToPM, SendFails, Stop, Return
  <2>2. QED
      BY <1>2, <1>3, <2>1, DownByHM
<1>4. ASSUME NEW d \in Conns, NodePeer(d) PROVE DownLine(c)'
  <2>1. UNCHANGED set_id_peers
      BY <1>4 DEF NodePeer, PeerNext, PeerTurn, PeerReads, PeerForwards, PeerReceives,
         PeerOrphaned, PeerSubtaskEnds, PeerReturns
  <2>2. QED
      BY <1>2, <1>4, <2>1, DownByPeer
<1>5. CASE NodeSupervisors \/ UNCHANGED nodeVars
  <2>1. UNCHANGED << set_id_peers, set_context_peers, set_state_peers, wrote, hm_to_pm,
                     pm_to_hm, pm_to_peer, running_peers, pm >>
      BY <1>5 DEF NodeSupervisors, EnvSupervisor, EnvThreadProtocol, nodeVars
  <2>2. IdOf(c)' = IdOf(c) /\ Unannounced(c)' = Unannounced(c) /\ Sent(IdOf(c))' = Sent(IdOf(c))
      BY <2>1 DEF Unannounced, Sent, IdOf
  <2>3. QED
      BY <1>2, <2>1, <2>2, DownQuiet
<1>6. QED
    BY <1>1, <1>3, <1>4, <1>5 DEF NodeNext

-----------------------------------------------------------------------------
(* Who is reported as violent deserved it.                                 *)

Innocent(c) == IsPrefixOf(read[c], << "version", "verack" >>)

(* The reports on their way.  PeerManager must still be there: a handler   *)
(* whose reply failed goes on without its flag, and blames the remote for  *)
(* what it says next.                                                      *)
Deserved ==
    pm_up /\ VersionBuilds = {TRUE} =>
        \A e \in Range(hm_to_pm) : e.type = "Violent" /\ Alone(e.conn) => ~Innocent(e.conn)

(* The handler is about to report only a remote that left the protocol.    *)
LEMMA ReportDeserved ==
    ASSUME NodeInv, pm_up, VersionBuilds = {TRUE}, hm.at = "violent",
           Alone(hm.conn), UpLine(hm.conn)
    PROVE  ~Innocent(hm.conn)
<1>0. PICK c : c = hm.conn
    OBVIOUS
<1>1. PICK h, x, y, z \in Nat :
          Ordered(h, x, y, z, Len(read[c]) + 1) /\ Heard(c, h) /\ UpPlaces(c, h, x, y, z)
    BY <1>0 DEF UpLine
<1>2. hm.at \in Sends /\ HMInv
    BY DEF Sends, NodeInv
<1>3. /\ IdOf(c) = hm.peerid /\ hm_up /\ IdOf(c) \in DOMAIN set_context_peers
      /\ Len(read[c]) \in Nat
    BY <1>0, <1>2, HandFields, NewsFacts DEF NodeInv, Named, Owned, IdOf
<1>4. ~InStep(IdOf(c), h)
    BY <1>2, <1>3 DEF InStep, Busy
<1>5. ~AsExpected(c, h) /\ h # 0
    BY <1>1, <1>3, <1>4 DEF Heard, HeardInStep, HeardFlags
<1>6. h <= Len(read[c]) + 1
    BY <1>1, <1>3 DEF Ordered
<1> DEFINE v == << "version", "verack" >>
<1>7. Len(v) = 2 /\ v[1] = "version" /\ v[2] = "verack"
    OBVIOUS
<1>8. ASSUME Innocent(c) PROVE FALSE
  <2>1. Len(read[c]) <= 2 /\ \A i \in 1..Len(read[c]) : read[c][i] = v[i]
      BY <1>7, <1>8 DEF Innocent, IsPrefixOf
  <2>2. h >= 2 => 1 \in 1..Len(read[c])
      BY <1>3, <1>6
  <2>3. h = 3 => 2 \in 1..Len(read[c])
      BY <1>3, <1>6
  <2>4. h <= 3
      BY <1>3, <1>6, <2>1
  <2>5. QED
      BY <1>5, <1>7, <2>1, <2>2, <2>3, <2>4 DEF AsExpected
<1>9. QED
    BY <1>0, <1>8

(* What a remote has sent it has sent.                                     *)
LEMMA GuiltStays ==
    ASSUME NodeInv, NEW c \in Conns, Innocent(c)',
           read' = read \/ \E d \in Conns : \E cmd : read' = [read EXCEPT ![d] = Append(@, cmd)]
    PROVE  Innocent(c)
<1>1. read[c] \in Seq(Command) /\ DOMAIN read = Conns
    BY DEF NodeInv, PeerOwnTypeOK
<1>2. Len(read[c]) \in Nat
    BY <1>1
<1>3. /\ Len(read'[c]) >= Len(read[c])
      /\ \A i \in 1..Len(read[c]) : read'[c][i] = read[c][i]
  <2>1. CASE read'[c] = read[c]
      BY <1>2, <2>1
  <2>2. CASE \E cmd : read'[c] = Append(read[c], cmd)
    <3>1. PICK cmd : read'[c] = Append(read[c], cmd)
        BY <2>2
    <3>2. /\ Len(Append(read[c], cmd)) = Len(read[c]) + 1
          /\ \A i \in 1..Len(read[c]) : Append(read[c], cmd)[i] = read[c][i]
        BY <1>1
    <3>3. QED
        BY <1>2, <3>1, <3>2
  <2>3. QED
      BY <1>1, <2>1, <2>2
<1> DEFINE v == << "version", "verack" >>
<1>4. Len(v) = 2 /\ Len(read'[c]) <= 2 /\ Len(read'[c]) \in Int
      /\ \A i \in 1..Len(read'[c]) : read'[c][i] = v[i]
    BY DEF Innocent, IsPrefixOf
<1>5. Len(read[c]) <= Len(v)
    BY <1>2, <1>3, <1>4
<1>6. \A i \in 1..Len(read[c]) : i \in 1..Len(read'[c])
    BY <1>2, <1>3, <1>4
<1>7. \A i \in 1..Len(read[c]) : read[c][i] = v[i]
    BY <1>3, <1>4, <1>6
<1>8. QED
    BY <1>5, <1>7 DEF Innocent, IsPrefixOf

(* How a step changes what Deserved is about.                              *)
LEMMA ReportsGrow ==
    ASSUME NodeInv, [NodeNext]_nodeVars
    PROVE  /\ pm_up' => pm_up
           /\ read' = read \/ \E d \in Conns : \E cmd : read' = [read EXCEPT ![d] = Append(@, cmd)]
           /\ \/ ~pm_up'
              \/ \A e \in Range(hm_to_pm') : \/ e \in Range(hm_to_pm) \/ e.type # "Violent"
                                             \/ hm.at = "violent" /\ e = Violent(hm.peerid, hm.conn)
<1>1. CASE NodePM
  <2>1. PMNext /\ UNCHANGED read
      BY <1>1 DEF NodePM
  <2>2. CASE PMReturn
      BY <2>1, <2>2 DEF PMReturn
  <2>3. CASE ReceiveFromProtocol
      BY <2>1, <2>3, HeadsOwned DEF ReceiveFromProtocol
  <2>4. CASE ~PMReturn /\ ~ReceiveFromProtocol
    <3>1. UNCHANGED << pm_up, hm_to_pm >>
        BY <2>1, <2>4
        DEF PMNext, IncomingConnection, OutgoingConnection, AddPeer, CreateFails, JoinPeer,
            DrainPeer, Join, SendPeer, ReceiveFromPeer, SendProtocol, Terminate, BulkPick,
            BulkSend, BulkEnd
    <3>2. QED
        BY <2>1, <3>1 DEF Range
  <2>5. QED
      BY <2>2, <2>3, <2>4
<1>2. CASE NodeHM
  <2>1. HMNext /\ HMInv /\ UNCHANGED read /\ hm_to_pm \in Seq(EventsToPeerManager)
      BY <1>2, NodeFacts DEF NodeHM, NodeInv
  <2>2. CASE UNCHANGED << pm_up, hm_to_pm >>
      BY <2>1, <2>2 DEF Range
  <2>3. CASE SendNewVersion \/ SendReplyVersion \/ SendReplyVerack \/ SendViolent
    <3>1. hm.at \in Sends /\ UNCHANGED pm_up
        BY <2>3 DEF SendNewVersion, SendReplyVersion, SendReplyVerack, SendViolent, SendToPM, Sends
    <3>2. PICK e \in EventsToPeerManager :
              /\ hm_to_pm' = Append(hm_to_pm, e)
              /\ e.type # "Violent" \/ (hm.at = "violent" /\ e = Violent(hm.peerid, hm.conn))
      <4>1. CASE SendViolent
          BY <2>1, <3>1, <4>1, HandFields DEF SendViolent, SendToPM
      <4>2. CASE ~SendViolent
        <5>1. PICK cmd \in {"version", "verack"} : hm_to_pm' = Append(hm_to_pm, Reply(cmd))
            BY <2>3, <4>2 DEF SendNewVersion, SendReplyVersion, SendReplyVerack, SendToPM
        <5>2. Reply(cmd) \in EventsToPeerManager /\ Reply(cmd).type # "Violent"
            BY <2>1, <3>1, HandFields DEF Reply, ReadyMessage
        <5>3. QED
            BY <5>1, <5>2
      <4>3. QED
          BY <4>1, <4>2
    <3>3. Range(hm_to_pm') = Range(hm_to_pm) \cup {e}
        BY <2>1, <3>2, RangeOfAppend
    <3>4. QED
        BY <2>1, <3>1, <3>2, <3>3
  <2>4. CASE \/ ReceiveNewConnection \/ ReceiveReadyMessage \/ ReceiveCompletedPeer
             \/ ReceiveCompletedAllPeer \/ SendFails \/ Stop
      BY <2>2, <2>4 DEF ReceiveNewConnection, ReceiveReadyMessage, ReceiveCompletedPeer,
         ReceiveCompletedAllPeer, Receive, SendFails, Stop, Return
  <2>5. QED
      BY <2>1, <2>3, <2>4 DEF HMNext
<1>3. ASSUME NEW c \in Conns, NodePeer(c)
      PROVE  /\ UNCHANGED << pm_up, hm_to_pm >>
             /\ read' = read \/ \E d \in Conns : \E cmd : read' = [read EXCEPT ![d] = Append(@, cmd)]
  <2>1. PeerNext(c)
      BY <1>3 DEF NodePeer
  <2>2. CASE \E cmd \in Command : PeerReads(c, cmd)
      BY <2>2 DEF PeerReads
  <2>3. CASE PeerTurn(c) \/ PeerSubtaskEnds(c)
      BY <2>3 DEF PeerTurn, PeerForwards, PeerReceives, PeerOrphaned, PeerSubtaskEnds, PeerReturns
  <2>4. QED
      BY <2>1, <2>2, <2>3 DEF PeerNext
<1>4. CASE NodeSupervisors \/ UNCHANGED nodeVars
  <2>1. UNCHANGED << pm_up, hm_to_pm, read >>
      BY <1>4 DEF NodeSupervisors, EnvSupervisor, EnvThreadProtocol, nodeVars
  <2>2. QED
      BY <2>1 DEF Range
<1>5. QED
    BY <1>1, <1>2, <1>3, <1>4 DEF NodeNext, Range

(* Every step keeps the reports deserved.                                  *)
LEMMA DeservedKept ==
    ASSUME NodeInv, Deserved, \A c \in Conns : Alone(c) => UpLine(c), [NodeNext]_nodeVars
    PROVE  Deserved'
<1> SUFFICES ASSUME pm_up', VersionBuilds = {TRUE}, NEW e \in Range(hm_to_pm'),
                    e.type = "Violent", Alone(e.conn)', Innocent(e.conn)'
             PROVE  FALSE
    BY DEF Deserved
<1>0. pm_up
    BY ReportsGrow
<1>1. \/ e \in Range(hm_to_pm)
      \/ hm.at = "violent" /\ e.conn = hm.conn
    BY ReportsGrow DEF Violent
<1>2. e.conn \in DOMAIN set_id_peers
    BY <1>1 DEF NodeInv, Named, OwnedEvent, Owned, Sends
<1>3. Alone(e.conn) /\ e.conn \in Conns
    BY <1>2, AloneBefore, AloneOwns
<1>4. Innocent(e.conn)
    BY <1>3, GuiltStays, ReportsGrow
<1>5. QED
    BY <1>0, <1>1, <1>3, <1>4, ReportDeserved DEF Deserved

-----------------------------------------------------------------------------
(* The invariant the three properties follow from.                         *)

TrafficInv ==
    /\ Unseen
    /\ Registered
    /\ HandRegistered
    /\ \A c \in Conns : Alone(c) => UpLine(c) /\ DownLine(c)
    /\ Deserved

(* Nobody has an id at first.                                              *)
LEMMA TrafficInit == NodeInit => TrafficInv
<1> SUFFICES ASSUME NodeInit PROVE TrafficInv
    OBVIOUS
<1>1. /\ set_id_peers = << >> /\ running_peers = {} /\ pm = Loop /\ hm_to_pm = << >>
      /\ read = [c \in Conns |-> << >>] /\ wrote = [c \in Conns |-> << >>]
      /\ pm_to_peer = [c \in Conns |-> << >>] /\ peer = [c \in Conns |-> PeerLoop]
    BY DEF NodeInit, PMInit, ChanInit, PeerOwnInit
<1>2. Unseen /\ Registered /\ HandRegistered
    BY <1>1 DEF Unseen, Registered, HandRegistered, Loop
<1>3. \A c \in Conns : ~Alone(c)
    BY <1>1 DEF Alone
<1>4. Deserved
    BY <1>1, RangeOfEmpty DEF Deserved
<1>5. QED
    BY <1>2, <1>3, <1>4 DEF TrafficInv

(* Every step keeps it.                                                    *)
LEMMA TrafficStep ==
    ASSUME NodeInv, TrafficInv, [NodeNext]_nodeVars
    PROVE  TrafficInv'
<1>1. Unseen' /\ Registered' /\ HandRegistered' /\ Deserved'
    BY UnseenKept, RegisteredKept, DeservedKept DEF TrafficInv
<1>2. ASSUME NEW c \in Conns, Alone(c)' PROVE UpLine(c)' /\ DownLine(c)'
  <2>1. c \in DOMAIN set_id_peers => UpLine(c) /\ DownLine(c)
      BY <1>2, AloneBefore DEF TrafficInv
  <2>2. QED
      BY <1>2, <2>1, UpStep, DownStep DEF TrafficInv
<1>3. QED
    BY <1>1, <1>2 DEF TrafficInv

(* The two lines hold in every state of the node.                          *)
THEOREM NodeTrafficInvariance == NodeSpec => []TrafficInv
<1>1. NodeSpec => []NodeInv
    BY NodeInvariance
<1>2. NodeInv /\ TrafficInv /\ [NodeNext]_nodeVars => TrafficInv'
    BY TrafficStep
<1>3. QED
    BY <1>1, <1>2, TrafficInit, PTL DEF NodeSpec

(* What is written is the beginning of the answers.                        *)
LEMMA SocketOrderFollows ==
    ASSUME NodeInv, TrafficInv
    PROVE  SocketOrder
<1> SUFFICES ASSUME NEW c \in DOMAIN set_id_peers, Fresh(set_id_peers[c])
             PROVE  IsPrefixOf(wrote[c], << VersionTo(c), VerackTo(c) >>)
    BY DEF SocketOrder
<1>1. Alone(c)
    BY FreshIsAlone DEF IdOf
<1>2. DownLine(c)
    BY <1>1, AloneOwns DEF TrafficInv
<1>3. QED
    BY <1>2 DEF DownLine, Answers

(* A connection whose id is its own is written a Version and then a        *)
(* Verack at most, both its own.                                           *)
THEOREM NodeSocketOrder == NodeSpec => []SocketOrder
<1>1. NodeInv /\ TrafficInv => SocketOrder
    BY SocketOrderFollows
<1>2. QED
    BY <1>1, NodeInvariance, NodeTrafficInvariance, PTL

(* What the flags say was sent is on its way to a Peer that runs.          *)
LEMMA SentIsOnItsWay ==
    ASSUME NodeInv, NEW c, Alone(c), DownLine(c), c \in running_peers,
           IdOf(c) \in DOMAIN set_context_peers, NEW k \in 1..2, k <= Sent(IdOf(c))
    PROVE  OnItsWay(IdOf(c), c, Answers(c)[k])
<1>1. PICK b, d, e \in 0..2 :
          Len(wrote[c]) <= b /\ b <= d /\ d <= e /\ DownPlaces(c, b, d, e) /\ Said(c, e)
    BY DEF DownLine
<1>2. k <= e /\ Len(wrote[c]) \in Nat /\ DOMAIN wrote[c] = 1..Len(wrote[c])
  <2>1. wrote[c] \in Seq(Message)
      BY AloneOwns DEF NodeInv, PeerOwnTypeOK
  <2>2. QED
      BY <1>1, <2>1 DEF Said
<1>3. /\ LowAnswers(c)[k] = ReadyLowMessage(Answers(c)[k])
      /\ ReadyAnswers(c)[k] = ReadyMessage(IdOf(c), Answers(c)[k])
    BY AnswersFacts
<1>4. CASE k <= Len(wrote[c])
  <2>1. k \in DOMAIN wrote[c] /\ wrote[c][k] = Answers(c)[k]
      BY <1>2, <1>4 DEF DownLine, IsPrefixOf
  <2>2. QED
      BY <2>1 DEF OnItsWay, Range
<1>5. CASE Len(wrote[c]) < k /\ k <= b
  <2>1. k \in (Len(wrote[c]) + 1)..b
      BY <1>2, <1>5
  <2>2. LowAnswers(c)[k] \in Range(pm_to_peer[c])
      BY <1>1, <2>1, CarriedIsThere DEF DownPlaces
  <2>3. QED
      BY <1>3, <2>2 DEF OnItsWay
<1>6. CASE b < k /\ k <= d
  <2>1. ToItsPeer(c) /\ d = b + 1 /\ pm.event = LowAnswers(c)[d]
      BY <1>1, <1>6 DEF DownPlaces, InPMsHand
  <2>2. k = d
      BY <1>6, <2>1
  <2>3. pm \in [at : {"to_peer"}, peerid : PeerId, event : EventsToPeer]
      BY <2>1, NodeFacts DEF ToItsPeer, PMTypeOK, PMControl, Loop
  <2>4. pm = ToPeer(IdOf(c), LowAnswers(c)[k])
      BY <2>1, <2>2, <2>3 DEF ToItsPeer, ToPeer
  <2>5. QED
      BY <1>3, <2>4 DEF OnItsWay
<1>7. CASE d < k
  <2>1. k \in (d + 1)..e
      BY <1>2, <1>7
  <2>2. ReadyAnswers(c)[k] \in Range(hm_to_pm)
      BY <1>1, <2>1, CarriedIsThere DEF DownPlaces
  <2>3. QED
      BY <1>3, <2>2 DEF OnItsWay
<1>8. QED
    BY <1>2, <1>4, <1>5, <1>6, <1>7

(* The received flags by the one line, the sent flags by the other.        *)
LEMMA FlagsFollow ==
    ASSUME NodeInv, TrafficInv
    PROVE  FlagsMatchTraffic
<1> SUFFICES ASSUME NEW p \in DOMAIN set_context_peers, Fresh(p)
             PROVE  LET c     == set_context_peers[p]
                        flags == set_state_peers[p]
                        alive == Serving /\ c \in running_peers /\ peer[c] # PeerClosing
                    IN  /\ "recv_version" \in flags => "version" \in Range(read[c])
                        /\ "completed_handshake" \in flags =>
                              \E j \in DOMAIN read[c] : \E i \in 1..(j - 1) :
                                  read[c][i] = "version" /\ read[c][j] = "verack"
                        /\ alive /\ "send_version" \in flags => OnItsWay(p, c, VersionTo(c))
                        /\ alive /\ "send_verack" \in flags => OnItsWay(p, c, VerackTo(c))
    BY DEF FlagsMatchTraffic
<1>1. PICK c : c = set_context_peers[p]
    OBVIOUS
<1>2. c \in DOMAIN set_id_peers /\ IdOf(c) = p
    BY <1>1 DEF NodeInv, Named, Owned, IdOf
<1>3. Alone(c) /\ UpLine(c) /\ DownLine(c)
    BY <1>2, FreshIsAlone, AloneOwns DEF TrafficInv
<1>4. PICK h \in Nat : h <= Len(read[c]) + 1 /\ HeardFlags(c, h)
  <2>1. PICK h, x, y, z \in Nat :
            Ordered(h, x, y, z, Len(read[c]) + 1) /\ Heard(c, h) /\ UpPlaces(c, h, x, y, z)
      BY <1>3 DEF UpLine
  <2>2. Len(read[c]) \in Nat
      BY <1>3, NewsFacts
  <2>3. QED
      BY <2>1, <2>2 DEF Ordered, Heard
<1>5. \A i \in 1..(h - 1) : i \in DOMAIN read[c]
  <2>1. read[c] \in Seq(Command) /\ Len(read[c]) \in Nat
      BY <1>3, NewsFacts
  <2>2. DOMAIN read[c] = 1..Len(read[c])
      BY <2>1
  <2>3. QED
      BY <1>4, <2>1, <2>2
<1>6. "recv_version" \in set_state_peers[p] => "version" \in Range(read[c])
    BY <1>2, <1>4, <1>5 DEF HeardFlags, Range
<1>7. "completed_handshake" \in set_state_peers[p] =>
         \E j \in DOMAIN read[c] : \E i \in 1..(j - 1) :
             read[c][i] = "version" /\ read[c][j] = "verack"
    BY <1>2, <1>4, <1>5 DEF HeardFlags
<1>8. Answers(c)[1] = VersionTo(c) /\ Answers(c)[2] = VerackTo(c)
    BY DEF Answers
<1>9. c \in running_peers /\ "send_version" \in set_state_peers[p] => OnItsWay(p, c, VersionTo(c))
  <2>1. "send_version" \in set_state_peers[p] => 1 <= Sent(p)
      BY DEF Sent
  <2>2. QED
      BY <1>2, <1>3, <1>8, <2>1, SentIsOnItsWay
<1>10. c \in running_peers /\ "send_verack" \in set_state_peers[p] => OnItsWay(p, c, VerackTo(c))
  <2>1. "send_verack" \in set_state_peers[p] => 2 <= Sent(p)
      BY DEF Sent
  <2>2. QED
      BY <1>2, <1>3, <1>8, <2>1, SentIsOnItsWay
<1>11. QED
    BY <1>1, <1>6, <1>7, <1>9, <1>10

(* The flags of a connection whose id is its own say what was read from it *)
(* and what is on its way to it.                                           *)
THEOREM NodeFlagsMatchTraffic == NodeSpec => []FlagsMatchTraffic
<1>1. NodeInv /\ TrafficInv => FlagsMatchTraffic
    BY FlagsFollow
<1>2. QED
    BY <1>1, NodeInvariance, NodeTrafficInvariance, PTL

(* Reports on their way and in the hand of the handler are deserved.       *)
LEMMA InnocentFollows ==
    ASSUME VersionBuilds = {TRUE}, NodeInv, TrafficInv
    PROVE  pm_up => InnocentNotReported
<1> SUFFICES ASSUME pm_up PROVE InnocentNotReported
    OBVIOUS
<1>1. ASSUME NEW p, NEW c, Owned(p, c), Fresh(p) PROVE Alone(c) /\ c \in Conns /\ UpLine(c)
  <2>1. c \in DOMAIN set_id_peers /\ IdOf(c) = p
      BY <1>1 DEF Owned, IdOf
  <2>2. QED
      BY <1>1, <2>1, FreshIsAlone, AloneOwns DEF TrafficInv
<1>2. ASSUME NEW i \in DOMAIN hm_to_pm, hm_to_pm[i].type = "Violent", Fresh(hm_to_pm[i].peerid)
      PROVE  ~Innocent(hm_to_pm[i].conn)
  <2>1. PICK e : e = hm_to_pm[i]
      OBVIOUS
  <2>2. e \in Range(hm_to_pm)
      BY <2>1 DEF Range
  <2>3. Owned(e.peerid, e.conn)
      BY <1>2, <2>1, <2>2 DEF NodeInv, Named, OwnedEvent
  <2>4. Alone(e.conn)
      BY <1>1, <1>2, <2>1, <2>3
  <2>5. QED
      BY <1>2, <2>1, <2>2, <2>4 DEF TrafficInv, Deserved
<1>3. ASSUME hm.at = "violent", Fresh(hm.peerid) PROVE ~Innocent(hm.conn)
  <2>1. Owned(hm.peerid, hm.conn)
      BY <1>3 DEF NodeInv, Named, Sends
  <2>2. QED
      BY <1>1, <1>3, <2>1, ReportDeserved
<1>4. QED
    BY <1>2, <1>3 DEF InnocentNotReported, Innocent

(* With a clock that is set right, and as long as PeerManager is there, no *)
(* remote that keeps to the protocol is reported.                          *)
THEOREM NodeInnocentNotReported ==
    ASSUME VersionBuilds = {TRUE}
    PROVE  NodeSpec => [](pm_up => InnocentNotReported)
<1>1. NodeInv /\ TrafficInv => (pm_up => InnocentNotReported)
    BY InnocentFollows
<1>2. QED
    BY <1>1, NodeInvariance, NodeTrafficInvariance, PTL
=============================================================================
