------------------------- MODULE PeerManagerProofs -------------------------
(***************************************************************************)
(* Theorems about PeerManager, for any number of connections, any          *)
(* Capacity and any surroundings PMEnv allows.                             *)
(*                                                                         *)
(* The type of the counter needs that `peerid - 1` is a PeerId, which      *)
(* needs that the counter counts the tasks; that every join finds the id   *)
(* of its task needs that a running Peer is in the JoinSet and has an id.  *)
(* So the inductive invariant PMInv is the conjunction of all of them.     *)
(***************************************************************************)
EXTENDS PeerManager, ChannelProofs

(* A Peer that runs has not been joined, and every task spawned has an id. *)
TasksKnown ==
    /\ running_peers \subseteq set_task_peers
    /\ set_task_peers \subseteq DOMAIN set_id_peers

Bookkeeping ==
    /\ TasksKnown
    /\ PeeridCountsTasks
    /\ RegistrySound
    /\ LowIdsNeverPileUp

PMInv == PMTypeOK /\ Bookkeeping

-----------------------------------------------------------------------------
(* The JoinSet is finite.                                                 *)
LEMMA FiniteTasks ==
    ASSUME PMTypeOK
    PROVE  /\ IsFiniteSet(set_task_peers)
           /\ Cardinality(set_task_peers) \in Nat
           /\ \A S \in SUBSET set_task_peers :
                 /\ IsFiniteSet(S)
                 /\ Cardinality(S) \in Nat
                 /\ Cardinality(S) <= Cardinality(set_task_peers)
<1>1. IsFiniteSet(Conns)
    BY ConnsAssumption, FS_Union DEF Conns
<1>2. IsFiniteSet(set_task_peers)
    BY <1>1, FS_Subset DEF PMTypeOK
<1>3. QED
    BY <1>2, FS_Subset, FS_CardinalityType

-----------------------------------------------------------------------------
(* A step that spawns and joins nothing, and takes nothing but entries out *)
(* of the registry, leaves the bookkeeping in order.                       *)
LEMMA QuietStep ==
    ASSUME PMTypeOK, Bookkeeping,
           UNCHANGED << peerid, set_task_peers, set_id_peers >>,
           running_peers' \subseteq running_peers,
           DOMAIN set_all_peers' \subseteq DOMAIN set_all_peers,
           \A p \in DOMAIN set_all_peers' : set_all_peers'[p] = set_all_peers[p]
    PROVE  Bookkeeping'
<1>1. TasksKnown'
    BY DEF Bookkeeping, TasksKnown
<1>2. PeeridCountsTasks'
    BY DEF Bookkeeping, PeeridCountsTasks
<1>3. RegistrySound'
    BY DEF Bookkeeping, RegistrySound
<1>4. LowIdsNeverPileUp'
    BY DEF Bookkeeping, LowIdsNeverPileUp, Carriers
<1>5. QED
    BY <1>1, <1>2, <1>3, <1>4 DEF Bookkeeping

(* A connection is added: the counter and the tasks grow by one, a low id  *)
(* is taken or a new one, and an entry that is overwritten is the id's     *)
(* only one.                                                               *)
LEMMA AddPeerStep ==
    ASSUME PMTypeOK, Bookkeeping, NEW c \in Conns, NotSeen(c), AddPeer(c)
    PROVE  Bookkeeping'
<1> USE DEF AddPeer, NextNumber
<1>1. /\ peerid \in PeerId /\ peerid \in Nat
      /\ HashMap(set_all_peers, PeerId, Conns)
      /\ HashMap(set_id_peers, Conns, PeerId)
    BY DEF PMTypeOK, ChanTypeOK, PeerId
<1>2. /\ DOMAIN set_all_peers' = DOMAIN set_all_peers \cup {peerid}
      /\ set_all_peers'[peerid] = c
      /\ \A p \in DOMAIN set_all_peers \ {peerid} : set_all_peers'[p] = set_all_peers[p]
    BY DEF Insert
<1>3. /\ DOMAIN set_id_peers' = DOMAIN set_id_peers \cup {c}
      /\ set_id_peers'[c] = peerid
      /\ \A x \in DOMAIN set_id_peers \ {c} : set_id_peers'[x] = set_id_peers[x]
    BY DEF Insert
<1>4. c \notin set_task_peers /\ c \notin DOMAIN set_id_peers
    BY DEF NotSeen, Bookkeeping, TasksKnown
<1>5. TasksKnown'
    BY <1>3 DEF Bookkeeping, TasksKnown
<1>6. /\ IsFiniteSet(set_task_peers')
      /\ Cardinality(set_task_peers') = Cardinality(set_task_peers) + 1
    BY <1>4, FiniteTasks, FS_AddElement
<1>7. PeeridCountsTasks'
    BY <1>1, <1>6, FiniteTasks DEF Bookkeeping, PeeridCountsTasks
<1>8. RegistrySound'
    BY <1>2, <1>3, <1>4 DEF Bookkeeping, RegistrySound, TasksKnown
<1>9. LowIdsNeverPileUp'
  <2> SUFFICES ASSUME NEW k \in 1..peerid'
               PROVE  Cardinality(Carriers(k)') <= k
      BY DEF LowIdsNeverPileUp
  <2>0. k \in Nat
      BY <1>1
  <2>1. CASE k < peerid
    <3>1. Carriers(k)' = Carriers(k)
        BY <1>1, <1>3, <1>4, <2>0, <2>1 DEF Carriers, Bookkeeping, TasksKnown
    <3>2. QED
        BY <1>1, <2>0, <2>1, <3>1 DEF Bookkeeping, LowIdsNeverPileUp
  <2>2. CASE ~(k < peerid)
    <3>1. Carriers(k)' \in SUBSET set_task_peers'
        BY DEF Carriers
    <3>2. Cardinality(Carriers(k)') \in Nat /\ Cardinality(Carriers(k)') <= Cardinality(set_task_peers')
        BY <1>6, <3>1, FS_Subset, FS_CardinalityType
    <3>3. Cardinality(set_task_peers') = peerid
        BY <1>1, <1>6, FiniteTasks DEF Bookkeeping, PeeridCountsTasks
    <3>4. QED
        BY <1>1, <2>0, <2>2, <3>2, <3>3
  <2>3. QED
      BY <2>1, <2>2
<1>10. QED
    BY <1>5, <1>7, <1>8, <1>9 DEF Bookkeeping

(* A Peer is joined: the counter and the tasks shrink by one, and the id   *)
(* that leaves the registry is the Peer's own.                             *)
LEMMA JoinStep ==
    ASSUME PMTypeOK, Bookkeeping, NEW c \in Conns, Join(c)
    PROVE  Bookkeeping' /\ peerid' \in PeerId /\ c \in DOMAIN set_id_peers
<1> USE DEF Join, RegistryWithout, NumberAfterJoin
<1>1. /\ peerid \in Nat
      /\ HashMap(set_all_peers, PeerId, Conns)
      /\ HashMap(set_id_peers, Conns, PeerId)
    BY DEF PMTypeOK, ChanTypeOK, PeerId
<1>2. c \in set_task_peers /\ c \in DOMAIN set_id_peers
    BY DEF Bookkeeping, TasksKnown
<1>3. /\ DOMAIN set_all_peers' = DOMAIN set_all_peers \ {set_id_peers[c]}
      /\ \A p \in DOMAIN set_all_peers' : set_all_peers'[p] = set_all_peers[p]
    BY DEF Remove, Restrict
<1>4. TasksKnown'
    BY DEF Bookkeeping, TasksKnown
<1>5. /\ Cardinality(set_task_peers') = Cardinality(set_task_peers) - 1
      /\ Cardinality(set_task_peers') \in Nat
    BY <1>2, FiniteTasks, FS_RemoveElement, FS_CardinalityType
<1>6. PeeridCountsTasks' /\ peerid' \in PeerId
    BY <1>1, <1>5, FiniteTasks DEF Bookkeeping, PeeridCountsTasks, PeerId
<1>7. RegistrySound'
    BY <1>3 DEF Bookkeeping, RegistrySound
<1>8. LowIdsNeverPileUp'
  <2> SUFFICES ASSUME NEW k \in 1..peerid'
               PROVE  Cardinality(Carriers(k)') <= k
      BY DEF LowIdsNeverPileUp
  <2>1. k \in Nat /\ k \in 1..peerid
      BY <1>1, <1>6 DEF PeerId
  <2>2. Carriers(k) \in SUBSET set_task_peers /\ Carriers(k)' \in SUBSET Carriers(k)
      BY DEF Carriers
  <2>3. /\ IsFiniteSet(Carriers(k)) /\ Cardinality(Carriers(k)) \in Nat
        /\ Cardinality(Carriers(k)') \in Nat
        /\ Cardinality(Carriers(k)') <= Cardinality(Carriers(k))
      BY <2>2, FiniteTasks, FS_Subset, FS_CardinalityType
  <2>4. QED
      BY <2>1, <2>3 DEF Bookkeeping, LowIdsNeverPileUp
<1>9. QED
    BY <1>2, <1>4, <1>6, <1>7, <1>8 DEF Bookkeeping

-----------------------------------------------------------------------------
(* Types.  The lemmas split PMTypeOK by what a step can disturb.           *)

USE DEF channels, chanVars, pmEnv, pmOwn

RegistryTypeOK ==
    /\ peerid \in PeerId
    /\ set_task_peers \subseteq Conns
    /\ running_peers \subseteq Conns
    /\ HashMap(set_all_peers, PeerId, Conns)
    /\ HashMap(set_id_peers, Conns, PeerId)

QueueTypeOK ==
    /\ pm_to_hm \in Seq(EventsToHandleMessage)
    /\ hm_to_pm \in Seq(EventsToPeerManager)
    /\ peer_to_pm \in Seq(ReadyMessageEvent)
    /\ pm_to_peer \in [Conns -> Seq(EventsToPeer)]

FlagTypeOK ==
    /\ pm_up \in BOOLEAN /\ hm_up \in BOOLEAN /\ ll_up \in BOOLEAN
    /\ tn_to_pm \in {"open", "shutdown", "closed"}

(* The type invariant, by the variables it is about.                       *)
LEMMA TypeParts ==
    PMTypeOK <=> RegistryTypeOK /\ QueueTypeOK /\ FlagTypeOK /\ pm \in PMControl
BY DEF PMTypeOK, ChanTypeOK, RegistryTypeOK, QueueTypeOK, FlagTypeOK

(* The same, after a step.                                                 *)
LEMMA PrimedTypeParts ==
    PMTypeOK' <=> (RegistryTypeOK /\ QueueTypeOK /\ FlagTypeOK /\ pm \in PMControl)'
BY DEF PMTypeOK, ChanTypeOK, RegistryTypeOK, QueueTypeOK, FlagTypeOK

(* A connection is added: types.                                           *)
LEMMA AddPeerTypes ==
    ASSUME PMTypeOK, NEW c \in Conns, AddPeer(c)
    PROVE  PMTypeOK'
<1>1. peerid' \in PeerId
    BY DEF PMTypeOK, AddPeer, NextNumber, PeerId
<1>2. HashMap(set_all_peers', PeerId, Conns)
    BY InsertIsHashMap DEF PMTypeOK, ChanTypeOK, AddPeer, NextNumber
<1>3. HashMap(set_id_peers', Conns, PeerId)
    BY InsertIsHashMap DEF PMTypeOK, ChanTypeOK, AddPeer, NextNumber
<1>4. pm' \in PMControl
    BY DEF PMTypeOK, AddPeer, NextNumber, ToProtocol, NewConnection, PMControl, EventsToHandleMessage
<1>5. QED
    BY <1>1, <1>2, <1>3, <1>4 DEF PMTypeOK, ChanTypeOK, AddPeer, NextNumber

(* A Peer is joined: types.                                                *)
LEMMA JoinTypes ==
    ASSUME PMTypeOK, Bookkeeping, NEW c \in Conns, Join(c)
    PROVE  /\ RegistryTypeOK' /\ QueueTypeOK' /\ FlagTypeOK'
           /\ set_id_peers[c] \in PeerId
<1>1. RegistryTypeOK /\ QueueTypeOK /\ FlagTypeOK
    BY TypeParts
<1>2. peerid' \in PeerId /\ c \in DOMAIN set_id_peers
    BY JoinStep
<1>3. HashMap(set_all_peers', PeerId, Conns)
    BY <1>1, RemoveIsHashMap DEF Join, RegistryWithout, RegistryTypeOK
<1>4. RegistryTypeOK'
    BY <1>1, <1>2, <1>3 DEF Join, RegistryTypeOK
<1>5. QueueTypeOK' /\ FlagTypeOK'
    BY <1>1 DEF Join, QueueTypeOK, FlagTypeOK
<1>6. set_id_peers[c] \in PeerId
    BY <1>1, <1>2 DEF RegistryTypeOK, HashMap
<1>7. QED
    BY <1>4, <1>5, <1>6

(* What PeerManager has in hand while it waits.                            *)
LEMMA ControlFields ==
    ASSUME pm \in PMControl
    PROVE  /\ pm.at = "to_protocol" => pm.event \in EventsToHandleMessage
           /\ pm.at = "to_peer" => pm.event \in EventsToPeer /\ pm.peerid \in PeerId
           /\ pm.at \in {"bulk", "bulk_to"} => pm.reason \in Reason /\ pm.todo \in SUBSET PeerId
           /\ pm.at = "bulk_to" => pm.peerid \in PeerId
           /\ pm.at = "drain" => pm.reason \in Reason
BY DEF PMControl, Loop

(* Every step of PeerManager keeps the types.                              *)
LEMMA PMStepTypes ==
    ASSUME PMTypeOK, Bookkeeping, PMNext
    PROVE  PMTypeOK'
<1>1. RegistryTypeOK /\ QueueTypeOK /\ FlagTypeOK /\ pm \in PMControl
    BY TypeParts
<1> DEFINE Goal == (RegistryTypeOK /\ QueueTypeOK /\ FlagTypeOK /\ pm \in PMControl)'
<1> SUFFICES Goal
    BY PrimedTypeParts
<1>2. ASSUME NEW c \in Conns, IncomingConnection(c) PROVE Goal
    BY <1>2, AddPeerTypes, PrimedTypeParts DEF IncomingConnection
<1>3. ASSUME NEW c \in Conns, OutgoingConnection(c) PROVE Goal
    BY <1>3, AddPeerTypes, PrimedTypeParts DEF OutgoingConnection
<1>4. ASSUME NEW c \in Conns, CreateFails(c) PROVE Goal
  <2>1. peerid' = peerid
      BY <1>1, <1>4 DEF CreateFails, NumberGivenBack, RegistryTypeOK, PeerId
  <2>2. QED
      BY <1>1, <1>4, <2>1 DEF CreateFails, RegistryTypeOK, QueueTypeOK, FlagTypeOK
<1>5. ASSUME NEW c \in Conns, JoinPeer(c) PROVE Goal
  <2>1. RegistryTypeOK' /\ QueueTypeOK' /\ FlagTypeOK' /\ set_id_peers[c] \in PeerId
      BY <1>5, JoinTypes DEF JoinPeer
  <2>2. pm' \in PMControl
      BY <1>5, <2>1 DEF JoinPeer, PMControl, ToProtocol, CompletedPeer, EventsToHandleMessage
  <2>3. QED
      BY <2>1, <2>2
<1>6. ASSUME NEW c \in Conns, DrainPeer(c) PROVE Goal
    BY <1>1, <1>6, JoinTypes DEF DrainPeer
<1>7. CASE ReceiveFromProtocol
  <2>1. Head(hm_to_pm) \in EventsToPeerManager /\ hm_to_pm' \in Seq(EventsToPeerManager)
      BY <1>1, <1>7 DEF ReceiveFromProtocol, QueueTypeOK
  <2>2. pm' \in PMControl
      BY <2>1, <1>7 DEF ReceiveFromProtocol, PMControl, ToPeer, Loop, EventsToPeerManager,
                        ReadyMessageEvent, ReadyLowMessage, Shutdown, EventsToPeer
  <2>3. QED
      BY <1>1, <1>7, <2>1, <2>2
      DEF ReceiveFromProtocol, RegistryTypeOK, QueueTypeOK, FlagTypeOK
<1>8. CASE SendPeer
  <2>1. pm_to_peer' \in [Conns -> Seq(EventsToPeer)]
    <3>1. pm.event \in EventsToPeer /\ pm_to_peer \in [Conns -> Seq(EventsToPeer)]
        BY <1>1, <1>8, ControlFields DEF SendPeer, QueueTypeOK
    <3> DEFINE c == set_all_peers[pm.peerid]
    <3>2. [pm_to_peer EXCEPT ![c] = Append(@, pm.event)] \in [Conns -> Seq(EventsToPeer)]
        BY <3>1, AppendToOne
    <3>3. \/ pm_to_peer' = pm_to_peer
          \/ pm_to_peer' = [pm_to_peer EXCEPT ![c] = Append(@, pm.event)]
        BY <1>8 DEF SendPeer
    <3>4. QED
        BY <3>1, <3>2, <3>3
  <2>2. HashMap(set_all_peers', PeerId, Conns)
    <3>1. \/ set_all_peers' = set_all_peers
          \/ set_all_peers' = Remove(set_all_peers, pm.peerid)
        BY <1>8 DEF SendPeer
    <3>2. HashMap(Remove(set_all_peers, pm.peerid), PeerId, Conns)
        BY <1>1, RemoveIsHashMap DEF RegistryTypeOK
    <3>3. QED
        BY <1>1, <3>1, <3>2 DEF RegistryTypeOK
  <2>3. QED
      BY <1>1, <1>8, <2>1, <2>2
      DEF SendPeer, PMControl, RegistryTypeOK, QueueTypeOK, FlagTypeOK
<1>9. CASE ReceiveFromPeer
  <2>1. Head(peer_to_pm) \in ReadyMessageEvent /\ peer_to_pm' \in Seq(ReadyMessageEvent)
      BY <1>1, <1>9 DEF ReceiveFromPeer, QueueTypeOK
  <2>2. pm' \in PMControl
      BY <2>1, <1>9 DEF ReceiveFromPeer, PMControl, ToProtocol, EventsToHandleMessage
  <2>3. QED
      BY <1>1, <1>9, <2>1, <2>2
      DEF ReceiveFromPeer, RegistryTypeOK, QueueTypeOK, FlagTypeOK
<1>10. CASE SendProtocol
  <2>1. pm_to_hm' \in Seq(EventsToHandleMessage)
    <3>1. pm.event \in EventsToHandleMessage /\ pm_to_hm \in Seq(EventsToHandleMessage)
        BY <1>1, <1>10, ControlFields DEF SendProtocol, QueueTypeOK
    <3>2. pm_to_hm' = pm_to_hm \/ pm_to_hm' = Append(pm_to_hm, pm.event)
        BY <1>10 DEF SendProtocol
    <3>3. QED
        BY <3>1, <3>2
  <2>2. DOMAIN set_all_peers \subseteq PeerId
      BY <1>1 DEF RegistryTypeOK, HashMap
  <2>3. pm' \in PMControl
      BY <2>2, <1>10 DEF SendProtocol, PMControl, Bulk, Reason
  <2>4. QED
      BY <1>1, <1>10, <2>1, <2>3
      DEF SendProtocol, RegistryTypeOK, QueueTypeOK, FlagTypeOK
<1>11. ASSUME NEW r \in Reason, Terminate(r) PROVE Goal
  <2>1. DOMAIN set_all_peers \subseteq PeerId
      BY <1>1 DEF RegistryTypeOK, HashMap
  <2>2. pm' \in PMControl
      BY <2>1, <1>11 DEF Terminate, PMControl, Bulk
  <2>3. QED
      BY <1>1, <1>11, <2>2 DEF Terminate, RegistryTypeOK, QueueTypeOK, FlagTypeOK
<1>12. ASSUME NEW p \in DOMAIN set_all_peers, BulkPick(p) PROVE Goal
  <2>1. p \in PeerId
      BY <1>1 DEF RegistryTypeOK, HashMap
  <2>2. pm' \in PMControl
      BY <1>1, <2>1, <1>12, ControlFields DEF BulkPick, PMControl, BulkTo
  <2>3. QED
      BY <1>1, <1>12, <2>2 DEF BulkPick, RegistryTypeOK, QueueTypeOK, FlagTypeOK
<1>13. CASE BulkSend
  <2>1. pm_to_peer' \in [Conns -> Seq(EventsToPeer)]
    <3>1. Shutdown \in EventsToPeer /\ pm_to_peer \in [Conns -> Seq(EventsToPeer)]
        BY <1>1 DEF QueueTypeOK, EventsToPeer
    <3> DEFINE c == set_all_peers[pm.peerid]
    <3>2. [pm_to_peer EXCEPT ![c] = Append(@, Shutdown)] \in [Conns -> Seq(EventsToPeer)]
        BY <3>1, AppendToOne
    <3>3. \/ pm_to_peer' = pm_to_peer
          \/ pm_to_peer' = [pm_to_peer EXCEPT ![c] = Append(@, Shutdown)]
        BY <1>13 DEF BulkSend
    <3>4. QED
        BY <3>1, <3>2, <3>3
  <2>2. pm' \in PMControl
      BY <1>1, <1>13, ControlFields DEF BulkSend, PMControl, Bulk
  <2>3. QED
      BY <1>1, <1>13, <2>1, <2>2 DEF BulkSend, RegistryTypeOK, QueueTypeOK, FlagTypeOK
<1>14. CASE BulkEnd
  <2>1. pm' \in PMControl
      BY <1>1, <1>14, ControlFields DEF BulkEnd, PMControl, Drain
  <2>2. QED
      BY <1>1, <1>14, <2>1 DEF BulkEnd, RegistryTypeOK, QueueTypeOK, FlagTypeOK
<1>15. CASE PMReturn
  <2>1. pm' \in PMControl
      BY <1>1, <1>15, ControlFields DEF PMReturn, PMControl, Done
  <2>2. HashMap(set_all_peers', PeerId, Conns)
      BY <1>15, EmptyIsHashMap DEF PMReturn
  <2>3. RegistryTypeOK'
      BY <1>1, <1>15, <2>2 DEF PMReturn, RegistryTypeOK
  <2>4. QueueTypeOK'
      BY <1>1, <1>15 DEF PMReturn, QueueTypeOK
  <2>5. FlagTypeOK'
      BY <1>1, <1>15 DEF PMReturn, FlagTypeOK
  <2>6. QED
      BY <2>1, <2>3, <2>4, <2>5
<1>16. QED
    BY <1>2, <1>3, <1>4, <1>5, <1>6, <1>7, <1>8, <1>9, <1>10, <1>11, <1>12,
       <1>13, <1>14, <1>15 DEF PMNext

(* So does every step of its surroundings.                                 *)
LEMMA PMEnvTypes ==
    ASSUME PMTypeOK, Bookkeeping, PMEnv
    PROVE  PMTypeOK'
<1>1. RegistryTypeOK /\ QueueTypeOK /\ FlagTypeOK /\ pm \in PMControl
    BY TypeParts
<1> DEFINE Goal == (RegistryTypeOK /\ QueueTypeOK /\ FlagTypeOK /\ pm \in PMControl)'
<1> SUFFICES Goal
    BY PrimedTypeParts
<1>2. CASE EnvHandleMessageReceives
  <2>1. pm_to_hm' \in Seq(EventsToHandleMessage)
      BY <1>1, <1>2 DEF EnvHandleMessageReceives, QueueTypeOK
  <2>2. QED
      BY <1>1, <1>2, <2>1
      DEF EnvHandleMessageReceives, RegistryTypeOK, QueueTypeOK, FlagTypeOK
<1>3. CASE EnvHandleMessageReturns
  <2>1. QueueTypeOK'
      BY <1>1, <1>3 DEF EnvHandleMessageReturns, QueueTypeOK
  <2>2. QED
      BY <1>1, <1>3, <2>1 DEF EnvHandleMessageReturns, RegistryTypeOK, FlagTypeOK
<1>4. CASE EnvSupervisor
    BY <1>1, <1>4 DEF EnvSupervisor, RegistryTypeOK, QueueTypeOK, FlagTypeOK
<1>5. ASSUME NEW m \in Message, EnvHandleMessageSends(m) PROVE Goal
  <2>1. set_id_peers[m.conn] \in PeerId /\ m.conn \in Conns
      BY <1>1, <1>5 DEF EnvHandleMessageSends, RegistryTypeOK, HashMap, Message
  <2>2. /\ ReadyMessage(set_id_peers[m.conn], m) \in EventsToPeerManager
        /\ Violent(set_id_peers[m.conn], m.conn) \in EventsToPeerManager
      BY <2>1 DEF ReadyMessage, Violent, EventsToPeerManager, ReadyMessageEvent
  <2>3. hm_to_pm' \in Seq(EventsToPeerManager)
    <3>1. \/ hm_to_pm' = Append(hm_to_pm, ReadyMessage(set_id_peers[m.conn], m))
          \/ hm_to_pm' = Append(hm_to_pm, Violent(set_id_peers[m.conn], m.conn))
        BY <1>5 DEF EnvHandleMessageSends
    <3>2. hm_to_pm \in Seq(EventsToPeerManager)
        BY <1>1 DEF QueueTypeOK
    <3>3. QED
        BY <2>2, <3>1, <3>2
  <2>4. QED
      BY <1>1, <1>5, <2>3
      DEF EnvHandleMessageSends, RegistryTypeOK, QueueTypeOK, FlagTypeOK
<1>6. ASSUME NEW m \in Message, EnvPeerSends(m) PROVE Goal
  <2>1. m.conn \in DOMAIN set_id_peers
      BY <1>6 DEF EnvPeerSends, Bookkeeping, TasksKnown
  <2>2. set_id_peers[m.conn] \in PeerId
      BY <1>1, <2>1 DEF RegistryTypeOK, HashMap
  <2>3. ReadyMessage(set_id_peers[m.conn], m) \in ReadyMessageEvent
      BY <2>2 DEF ReadyMessage, ReadyMessageEvent
  <2>4. peer_to_pm' \in Seq(ReadyMessageEvent)
      BY <1>1, <1>6, <2>3 DEF EnvPeerSends, QueueTypeOK
  <2>5. QED
      BY <1>1, <1>6, <2>4 DEF EnvPeerSends, RegistryTypeOK, QueueTypeOK, FlagTypeOK
<1>7. ASSUME NEW c \in Conns, EnvPeerReceives(c) PROVE Goal
  <2>1. Tail(pm_to_peer[c]) \in Seq(EventsToPeer)
    <3>1. pm_to_peer[c] \in Seq(EventsToPeer) /\ pm_to_peer[c] # << >>
        BY <1>1, <1>7 DEF EnvPeerReceives, QueueTypeOK
    <3>2. QED
        BY <3>1
  <2>2. pm_to_peer' \in [Conns -> Seq(EventsToPeer)]
      BY <1>1, <1>7, <2>1 DEF EnvPeerReceives, QueueTypeOK
  <2>3. QED
      BY <1>1, <1>7, <2>2 DEF EnvPeerReceives, RegistryTypeOK, QueueTypeOK, FlagTypeOK
<1>8. ASSUME NEW c \in Conns, EnvPeerReturns(c) PROVE Goal
  <2>1. pm_to_peer' \in [Conns -> Seq(EventsToPeer)]
      BY <1>1, <1>8 DEF EnvPeerReturns, QueueTypeOK
  <2>2. QED
      BY <1>1, <1>8, <2>1 DEF EnvPeerReturns, RegistryTypeOK, QueueTypeOK, FlagTypeOK
<1>9. QED
    BY <1>2, <1>3, <1>4, <1>5, <1>6, <1>7, <1>8 DEF PMEnv

-----------------------------------------------------------------------------
(* The bookkeeping is kept by every step.                                  *)

(* Every step of PeerManager keeps its books.                              *)
LEMMA PMStepBookkeeping ==
    ASSUME PMTypeOK, Bookkeeping, PMNext
    PROVE  Bookkeeping'
<1>1. ASSUME NEW c \in Conns, IncomingConnection(c) PROVE Bookkeeping'
    BY <1>1, AddPeerStep DEF IncomingConnection
<1>2. ASSUME NEW c \in Conns, OutgoingConnection(c) PROVE Bookkeeping'
    BY <1>2, AddPeerStep DEF OutgoingConnection
<1>3. ASSUME NEW c \in Conns, CreateFails(c) PROVE Bookkeeping'
  <2>1. peerid' = peerid
      BY <1>3 DEF CreateFails, NumberGivenBack, PMTypeOK, PeerId
  <2>2. QED
      BY <1>3, <2>1, QuietStep DEF CreateFails
<1>4. ASSUME NEW c \in Conns, JoinPeer(c) PROVE Bookkeeping'
    BY <1>4, JoinStep DEF JoinPeer
<1>5. ASSUME NEW c \in Conns, DrainPeer(c) PROVE Bookkeeping'
    BY <1>5, JoinStep DEF DrainPeer
<1>6. CASE ReceiveFromProtocol
    BY <1>6, QuietStep DEF ReceiveFromProtocol
<1>7. CASE SendPeer
  <2>1. /\ DOMAIN set_all_peers' \subseteq DOMAIN set_all_peers
        /\ \A p \in DOMAIN set_all_peers' : set_all_peers'[p] = set_all_peers[p]
      BY <1>7 DEF SendPeer, Remove, Restrict
  <2>2. QED
      BY <1>7, <2>1, QuietStep DEF SendPeer
<1>8. CASE ReceiveFromPeer
    BY <1>8, QuietStep DEF ReceiveFromPeer
<1>9. CASE SendProtocol
    BY <1>9, QuietStep DEF SendProtocol
<1>10. ASSUME NEW r \in Reason, Terminate(r) PROVE Bookkeeping'
    BY <1>10, QuietStep DEF Terminate
<1>11. ASSUME NEW p \in DOMAIN set_all_peers, BulkPick(p) PROVE Bookkeeping'
    BY <1>11, QuietStep DEF BulkPick
<1>12. CASE BulkSend
    BY <1>12, QuietStep DEF BulkSend
<1>13. CASE BulkEnd
    BY <1>13, QuietStep DEF BulkEnd
<1>14. CASE PMReturn
    BY <1>14, QuietStep, EmptyIsHashMap DEF PMReturn
<1>15. QED
    BY <1>1, <1>2, <1>3, <1>4, <1>5, <1>6, <1>7, <1>8, <1>9, <1>10, <1>11,
       <1>12, <1>13, <1>14 DEF PMNext

(* Its surroundings do not touch them.                                     *)
LEMMA PMEnvBookkeeping ==
    ASSUME PMTypeOK, Bookkeeping, PMEnv
    PROVE  Bookkeeping'
<1>1. /\ UNCHANGED << peerid, set_task_peers, set_id_peers, set_all_peers >>
      /\ running_peers' \subseteq running_peers
    BY DEF PMEnv, EnvHandleMessageReceives, EnvHandleMessageReturns, EnvSupervisor,
           EnvHandleMessageSends, EnvPeerSends, EnvPeerReceives, EnvPeerReturns
<1>2. QED
    BY <1>1, QuietStep

(* The invariant holds at the start.                                       *)
LEMMA PMInitInv ==
    ASSUME PMInit
    PROVE  PMInv
<1>1. HashMap(set_all_peers, PeerId, Conns) /\ HashMap(set_id_peers, Conns, PeerId)
    BY EmptyIsHashMap DEF PMInit, ChanInit
<1>2. PMTypeOK
    BY <1>1 DEF PMInit, ChanInit, PMTypeOK, ChanTypeOK, PeerId, PMControl, Loop
<1>3. Cardinality({}) = 0
    BY FS_EmptySet
<1>4. TasksKnown /\ RegistrySound
    BY EmptyIsHashMap DEF PMInit, ChanInit, TasksKnown, RegistrySound
<1>5. PeeridCountsTasks
    BY <1>3 DEF PMInit, PeeridCountsTasks
<1>6. LowIdsNeverPileUp
  <2>1. ASSUME NEW k \in 1..peerid PROVE Carriers(k) = {}
      BY DEF PMInit, Carriers
  <2>2. QED
      BY <1>3, <2>1 DEF LowIdsNeverPileUp
<1>7. QED
    BY <1>2, <1>4, <1>5, <1>6 DEF PMInv, Bookkeeping

(* Every step keeps the invariant.                                         *)
LEMMA PMNextInv ==
    ASSUME PMInv, [PMNext \/ PMEnv]_pmVars
    PROVE  PMInv'
<1> SUFFICES PMTypeOK' /\ Bookkeeping'
    BY DEF PMInv
<1>1. CASE PMNext
    BY <1>1, PMStepTypes, PMStepBookkeeping DEF PMInv
<1>2. CASE PMEnv
    BY <1>2, PMEnvTypes, PMEnvBookkeeping DEF PMInv
<1>3. CASE UNCHANGED pmVars
  <2>1. Bookkeeping'
      BY <1>3, QuietStep DEF pmVars, PMInv
  <2>2. PMTypeOK'
      BY <1>3 DEF pmVars, PMInv, PMTypeOK, ChanTypeOK
  <2>3. QED
      BY <2>1, <2>2
<1>4. QED
    BY <1>1, <1>2, <1>3

(* PMInv is an invariant of the actor in any surroundings.                 *)
THEOREM PMInvariance == PMSpec => []PMInv
<1>1. PMInit => PMInv
    BY PMInitInv
<1>2. PMInv /\ [PMNext \/ PMEnv]_pmVars => PMInv'
    BY PMNextInv
<1>3. QED
    BY <1>1, <1>2, PTL DEF PMSpec

(* Every variable keeps its type; of these the counter is the one that     *)
(* could fail: `peerid -= 1` on a u64 never takes it below 1.              *)
THEOREM PMTypeCorrect == PMSpec => []PMTypeOK
<1>1. PMInv => PMTypeOK
    BY DEF PMInv
<1>2. QED
    BY <1>1, PMInvariance, PTL

(* The number the next connection gets is one more than the Peer tasks     *)
(* not joined, whatever fails and in whatever order Peers return.          *)
THEOREM PMCounterCorrect == PMSpec => []PeeridCountsTasks
<1>1. PMInv => PeeridCountsTasks
    BY DEF PMInv, Bookkeeping
<1>2. QED
    BY <1>1, PMInvariance, PTL

(* Every registry entry leads to an unjoined Peer spawned under that id,   *)
(* although ids are used again and entries overwritten.                    *)
THEOREM PMRegistrySound == PMSpec => []RegistrySound
<1>1. PMInv => RegistrySound
    BY DEF PMInv, Bookkeeping
<1>2. QED
    BY <1>1, PMInvariance, PTL

(* For every k at most k unjoined tasks carry an id of k or less.          *)
THEOREM PMLowIds == PMSpec => []LowIdsNeverPileUp
<1>1. PMInv => LowIdsNeverPileUp
    BY DEF PMInv, Bookkeeping
<1>2. QED
    BY <1>1, PMInvariance, PTL
=============================================================================
