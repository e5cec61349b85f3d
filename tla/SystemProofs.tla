---------------------------- MODULE SystemProofs ----------------------------
(***************************************************************************)
(* Theorems about the process, for any number of connections, any Capacity *)
(* and any Backlog: the actors of Node under the threads of Supervision.   *)
(*                                                                         *)
(* Supervision takes for granted when PeerManager and HandleMessage may    *)
(* end, and with which result; PeerManager was proved correct in           *)
(* surroundings that may stop it at any time.  Each is shown to be right   *)
(* about the other: SystemSpec => S!SupSpec and SystemSpec => PMSpec.      *)
(***************************************************************************)
EXTENDS System, NodeProofs

(* What the handle of PeerManager's task shows is where the actor is.      *)
PMSeen ==
    IF pm_task = "none" THEN network = S!Starting /\ pm = Loop
    ELSE network # S!Starting /\ pm_task = SeenOfPM

(* So with HandleMessage, whose end a panic may be.                        *)
HMSeen ==
    /\ hm_task \in {"none", "running", "ok", "err", "panicked"}
    /\ hm_task \in {"none", "running"} <=> hm # Returned
    /\ hm_task = "none" <=> protocol = S!Starting

(* LoopListen starts with the network thread, queues nothing once it is    *)
(* over, and PeerManager sees its channel closed only then.                *)
ListenerSeen ==
    /\ ll_task # "panicked"
    /\ ll_task = "none" <=> network = S!Starting
    /\ network = S!Starting => ll_to_pm = 0
    /\ ~ll_up => ll_task # "none" /\ S!LLGone /\ ll_to_pm = 0

(* A Shutdown that was sent is what the handler finds in its channel.      *)
ToldIsQueued ==
    /\ tn_to_pm = IF "pm" \in told THEN "shutdown" ELSE "open"
    /\ tp_to_hm = IF "hm" \in told THEN "shutdown" ELSE "open"

(* The network thread is in block_on, and so polls PeerManager, until      *)
(* PeerManager has returned.                                               *)
NetworkAwaits ==
    \/ network = S!Starting
    \/ network = S!Selecting
    \/ network.at = "joining" /\ ("pm" \notin network.awaited => pm.at = "done")
    \/ network.at \in {"leaving", "returned"} /\ pm.at = "done"

(* PeerManager is done only after it has joined every Peer.                *)
DoneWithoutTasks == pm.at = "done" => set_task_peers = {}

SystemInv ==
    /\ NodeInv
    /\ PMSeen
    /\ HMSeen
    /\ ListenerSeen
    /\ ToldIsQueued
    /\ NetworkAwaits
    /\ DoneWithoutTasks

-----------------------------------------------------------------------------
USE DEF channels, chanVars, pmEnv, pmOwn, hmOwn, peerOwn, peerChannels, threadVars,
        S!tasks

(* The initial state.                                                      *)
LEMMA SystemInitInv ==
    ASSUME SystemInit
    PROVE  SystemInv
<1>1. NodeInv
    BY NodeInitInv DEF SystemInit
<1>2. /\ network = S!Starting /\ protocol = S!Starting /\ told = {} /\ ll_to_pm = 0
      /\ pm_task = "none" /\ ll_task = "none" /\ hm_task = "none"
    BY DEF SystemInit, S!SupInit
<1>3. /\ pm = Loop /\ hm = Select /\ tn_to_pm = "open" /\ ll_up = TRUE /\ tp_to_hm = "open"
      /\ set_task_peers = {}
    BY DEF SystemInit, NodeInit, PMInit, HMOwnInit
<1>4. QED
    BY <1>1, <1>2, <1>3 DEF SystemInv, PMSeen, HMSeen, ListenerSeen, ToldIsQueued,
       NetworkAwaits, DoneWithoutTasks, Select, Returned

-----------------------------------------------------------------------------
(* The steps of the process are steps of the node, but for the panic of    *)
(* HandleMessage, which the node alone does not know.                      *)
LEMMA SystemStepIsNode ==
    ASSUME SystemInv, [SystemNext]_systemVars
    PROVE  [NodeNext]_nodeVars \/ SystemHMPanics
<1> USE DEF nodeVars
<1>1. CASE SystemConnection
    BY <1>1 DEF SystemConnection, TakesConnection, NodeNext, NodePM, PMNext, Conns,
                IncomingConnection
<1>2. CASE SystemPM
    BY <1>2 DEF SystemPM, PMWork, NodeNext, NodePM, PMNext
<1>3. CASE SystemListenerGone
    BY <1>3 DEF SystemListenerGone, NodeNext, NodeSupervisors, EnvSupervisor
<1>4. CASE SystemHM
    BY <1>4 DEF SystemHM, NodeNext
<1>5. ASSUME NEW c \in Conns, SystemPeer(c) PROVE NodeNext
    BY <1>5 DEF SystemPeer, NodeNext
<1>6. CASE SystemNetwork
  <2>1. tn_to_pm' = tn_to_pm \/ (tn_to_pm = "open" /\ tn_to_pm' = "shutdown")
      BY <1>6 DEF SystemNetwork, SystemInv, ToldIsQueued
  <2>2. QED
      BY <1>6, <2>1 DEF SystemNetwork, NodeNext, NodeSupervisors, EnvSupervisor
<1>7. CASE SystemProtocol
  <2>1. tp_to_hm' = tp_to_hm \/ (tp_to_hm = "open" /\ tp_to_hm' = "shutdown")
      BY <1>7 DEF SystemProtocol, SystemInv, ToldIsQueued
  <2>2. QED
      BY <1>7, <2>1 DEF SystemProtocol, NodeNext, NodeSupervisors, EnvThreadProtocol
<1>8. CASE SystemMain \/ SystemLLWork \/ SystemLLEnvironment \/ SystemOver \/ UNCHANGED systemVars
    BY <1>8 DEF SystemMain, SystemLLWork, SystemLLEnvironment, SystemOver, systemVars
<1>9. QED
    BY <1>1, <1>2, <1>3, <1>4, <1>5, <1>6, <1>7, <1>8 DEF SystemNext

(* A panic looks like the end of HandleMessage to everyone else.           *)
LEMMA PanicStep ==
    ASSUME SystemInv, SystemHMPanics
    PROVE  EnvHandleMessageReturns /\ NodeInv'
<1>1. NodeInv /\ Return /\ UNCHANGED << peerid, set_task_peers, pm, pmEnv, peerOwn >>
    BY DEF SystemInv, SystemHMPanics
<1>2. hm_up
    BY <1>1, NodeFacts DEF SystemInv, HMSeen, SystemHMPanics
<1>3. EnvHandleMessageReturns
    BY <1>1, <1>2 DEF Return, EnvHandleMessageReturns
<1>4. PMInv'
    BY <1>1, <1>3, PMNextInv DEF PMEnv, NodeInv
<1>5. HMInv'
    BY <1>1, ReturnStep DEF NodeInv, HMStep
<1>6. PeerOwnTypeOK' /\ IdsBounded' /\ UpUntilDone'
    BY <1>1 DEF NodeInv, Return, PeerOwnTypeOK, IdsBounded, UpUntilDone
<1>7. Named'
  <2>1. \A p, c : Owned(p, c) => Owned(p, c)'
      BY <1>1 DEF Return, Owned
  <2>2. /\ UNCHANGED << hm_to_pm, peer_to_pm, pm, set_context_peers, peer >>
        /\ hm'.at \notin Sends /\ Range(pm_to_hm') \subseteq Range(pm_to_hm)
      BY <1>1, RangeOfEmpty DEF Return, Returned, Sends
  <2>3. QED
      BY <1>1, <2>1, <2>2, NamesKept DEF NodeInv
<1>8. QED
    BY <1>3, <1>4, <1>5, <1>6, <1>7 DEF NodeInv

(* So every step keeps the invariant of the node, and is one of            *)
(* PeerManager or of its surroundings.                                     *)
LEMMA SystemStepIsPM ==
    ASSUME SystemInv, [SystemNext]_systemVars
    PROVE  [PMNext \/ PMEnv]_pmVars /\ NodeInv'
<1>1. CASE [NodeNext]_nodeVars
    BY <1>1, NodeStepIsPM, NodeNextInv DEF SystemInv
<1>2. CASE SystemHMPanics
    BY <1>2, PanicStep DEF PMEnv
<1>3. QED
    BY <1>1, <1>2, SystemStepIsNode

-----------------------------------------------------------------------------
(* What PeerManager does, as its handle shows it.                          *)

(* What makes PeerManager leave its loop, and its reason for it.           *)
LeavesFor(r) ==
    IF r = "shutdown" THEN tn_to_pm = "shutdown"
    ELSE tn_to_pm = "closed" \/ ~ll_up \/ ~hm_up

(* A step of PeerManager serves on, leaves the loop, goes on terminating   *)
(* for the same reason, or returns with the JoinSet empty.                 *)
LEMMA PMMoves ==
    ASSUME PMWork
    PROVE  \/ Serving /\ Serving'
           \/ Serving /\ pm'.at = "bulk" /\ LeavesFor(pm'.reason)
           \/ /\ pm.at \in {"bulk", "bulk_to", "drain"}
              /\ pm'.at \in {"bulk", "bulk_to", "drain"} /\ pm'.reason = pm.reason
           \/ /\ pm.at = "drain" /\ set_task_peers = {} /\ UNCHANGED set_task_peers
              /\ pm'.at = "done" /\ pm'.reason = pm.reason
<1> USE DEF Serving, LeavesFor
<1>1. ASSUME NEW c \in Conns, JoinPeer(c) PROVE Serving /\ Serving'
    BY <1>1 DEF JoinPeer, Loop, ToProtocol
<1>2. ASSUME NEW c \in Conns, DrainPeer(c) PROVE pm.at = "drain" /\ UNCHANGED pm
    BY <1>2 DEF DrainPeer
<1>3. CASE ReceiveFromProtocol \/ SendPeer \/ ReceiveFromPeer
    BY <1>3 DEF ReceiveFromProtocol, SendPeer, ReceiveFromPeer, Loop, ToPeer, ToProtocol
<1>4. CASE SendProtocol
    BY <1>4 DEF SendProtocol, Loop, Bulk
<1>5. ASSUME NEW r \in Reason, Terminate(r)
      PROVE  Serving /\ pm'.at = "bulk" /\ LeavesFor(pm'.reason)
    BY <1>5 DEF Terminate, ShutdownReason, Loop, Bulk
<1>6. ASSUME NEW p \in DOMAIN set_all_peers, BulkPick(p)
      PROVE  pm.at = "bulk" /\ pm'.at = "bulk_to" /\ pm'.reason = pm.reason
    BY <1>6 DEF BulkPick, BulkTo
<1>7. CASE BulkSend \/ BulkEnd
    BY <1>7 DEF BulkSend, BulkEnd, Bulk, Drain
<1>8. CASE PMReturn
    BY <1>8 DEF PMReturn, Done
<1>9. QED
    BY <1>1, <1>2, <1>3, <1>4, <1>5, <1>6, <1>7, <1>8 DEF PMWork

(* While PeerManager is not done its thread polls it; once it is done its  *)
(* ends of the channels are gone.                                          *)
LEMMA PMPolled ==
    ASSUME SystemInv
    PROVE  /\ pm_task # "none" /\ pm.at # "done" => S!Polled
           /\ pm.at = "done" => S!PMGone
           /\ ~pm_up => pm.at = "done"
<1>1. ASSUME pm_task # "none", pm.at # "done" PROVE S!Polled
    BY <1>1 DEF SystemInv, PMSeen, NetworkAwaits, S!Polled, S!Selecting, S!Thread
<1>2. ASSUME pm.at = "done" PROVE S!PMGone
    BY <1>2 DEF SystemInv, PMSeen, SeenOfPM, Serving, Loop, S!PMGone, S!Alive
<1>3. QED
    BY <1>1, <1>2 DEF SystemInv, NodeInv, UpUntilDone

(* Once HandleMessage is over, its ends of the channels are gone.          *)
LEMMA HMOver ==
    ASSUME SystemInv
    PROVE  ~hm_up => S!HMGone
<1>1. ~hm_up => hm = Returned
    BY NodeFacts DEF SystemInv
<1>2. QED
    BY <1>1 DEF SystemInv, HMSeen, S!HMGone, S!Alive

(* The handle of PeerManager's task moves as Supervision says.             *)
LEMMA PMAsSupervised ==
    ASSUME SystemInv, SystemPM
    PROVE  [S!SupNext]_(S!supVars) /\ PMSeen' /\ NetworkAwaits' /\ DoneWithoutTasks'
<1> USE DEF S!supVars
<1>0. /\ PMWork /\ pm_task # "none" /\ pm_task' = SeenOfPM'
      /\ ll_to_pm' = IF pm'.at = "done" THEN 0 ELSE ll_to_pm
      /\ UNCHANGED << main, exits, network, protocol, told, ll_task, faults, hm_task >>
    BY DEF SystemPM
<1>1. /\ pm_task = SeenOfPM /\ network # S!Starting
      /\ (pm.at # "done" => S!Polled) /\ ToldIsQueued /\ ListenerSeen
      /\ (~hm_up => S!HMGone)
    BY <1>0, PMPolled, HMOver DEF SystemInv, PMSeen
<1>2. PMSeen'
    BY <1>0, <1>1 DEF PMSeen, SeenOfPM, Serving
<1>3. CASE Serving /\ Serving'
  <2>1. UNCHANGED << pm_task, ll_to_pm >> /\ pm.at # "done" /\ pm'.at # "done"
      BY <1>0, <1>1, <1>3 DEF SeenOfPM, Serving
  <2>2. QED
      BY <1>0, <1>2, <2>1 DEF SystemInv, NetworkAwaits, DoneWithoutTasks
<1>4. CASE Serving /\ pm'.at = "bulk" /\ LeavesFor(pm'.reason)
  <2>1. /\ pm_task = "running" /\ ll_to_pm' = ll_to_pm /\ pm.at # "done" /\ S!Polled
        /\ pm_task' = IF pm'.reason = "shutdown" THEN "closing" ELSE "failing"
      BY <1>0, <1>1, <1>4 DEF SeenOfPM, Serving
  <2>2. IF pm'.reason = "shutdown" THEN "pm" \in told
        ELSE (S!LLGone /\ ll_to_pm = 0) \/ S!HMGone
      BY <1>1, <1>4 DEF LeavesFor, ToldIsQueued, ListenerSeen
  <2>3. S!PMTerminates
      BY <1>0, <2>1, <2>2 DEF S!PMTerminates
  <2>4. QED
      BY <1>0, <1>2, <1>4, <2>1, <2>3 DEF S!SupNext, SystemInv, NetworkAwaits, DoneWithoutTasks
<1>5. CASE /\ pm.at \in {"bulk", "bulk_to", "drain"}
           /\ pm'.at \in {"bulk", "bulk_to", "drain"} /\ pm'.reason = pm.reason
  <2>1. UNCHANGED << pm_task, ll_to_pm >> /\ pm.at # "done" /\ pm'.at # "done"
      BY <1>0, <1>1, <1>5 DEF SeenOfPM, Serving
  <2>2. QED
      BY <1>0, <1>2, <2>1 DEF SystemInv, NetworkAwaits, DoneWithoutTasks
<1>6. CASE /\ pm.at = "drain" /\ set_task_peers = {} /\ UNCHANGED set_task_peers
           /\ pm'.at = "done" /\ pm'.reason = pm.reason
  <2>1. /\ S!Polled /\ ll_to_pm' = 0
        /\ pm_task = IF pm.reason = "shutdown" THEN "closing" ELSE "failing"
        /\ pm_task' = IF pm.reason = "shutdown" THEN "ok" ELSE "err"
      BY <1>0, <1>1, <1>6 DEF SeenOfPM, Serving
  <2>2. S!PMReturns
      BY <1>0, <2>1 DEF S!PMReturns
  <2>3. QED
      BY <1>0, <1>2, <1>6, <2>2 DEF S!SupNext, SystemInv, NetworkAwaits, DoneWithoutTasks
<1>7. QED
    BY <1>0, <1>3, <1>4, <1>5, <1>6, PMMoves

-----------------------------------------------------------------------------
(* The other steps, as Supervision sees them.                              *)

(* HandleMessage returns only when it was told, or when PeerManager is     *)
(* over.                                                                   *)
LEMMA HMAsSupervised ==
    ASSUME SystemInv, SystemHM \/ SystemHMPanics
    PROVE  /\ [S!SupNext]_(S!supVars) /\ HMSeen'
           /\ UNCHANGED << pm, pmEnv, tp_to_hm, set_task_peers >>
           /\ UNCHANGED << network, protocol, told, ll_task, pm_task, ll_to_pm >>
<1> USE DEF S!supVars
<1>1. CASE SystemHMPanics
  <2>1. S!Panics
      BY <1>1 DEF SystemHMPanics, S!Panics, S!Alive
  <2>2. hm_task' = "panicked" /\ hm' = Returned /\ UNCHANGED << protocol, tp_to_hm >>
      BY <1>1 DEF SystemHMPanics, Return
  <2>3. QED
      BY <1>1, <2>1, <2>2 DEF S!SupNext, SystemInv, HMSeen, SystemHMPanics
<1>2. CASE SystemHM
  <2>0. /\ hm_task # "none" /\ HMNext /\ UNCHANGED << pm, pmEnv, set_task_peers >>
        /\ UNCHANGED << threadVars, pm_task, ll_to_pm >>
        /\ \/ hm' # Returned /\ UNCHANGED hm_task
           \/ hm' = Returned /\ \E r \in {"ok", "err"} : EndsWith(r) /\ hm_task' = r
      BY <1>2 DEF SystemHM, NodeHM
  <2>1. hm # Returned /\ UNCHANGED tp_to_hm
      BY <2>0 DEF HMNext, ReceiveNewConnection, ReceiveReadyMessage, ReceiveCompletedPeer,
         ReceiveCompletedAllPeer, Receive, SendNewVersion, SendReplyVersion, SendReplyVerack,
         SendViolent, SendToPM, SendFails, Stop, Return, Returned, Select, Sends
  <2>2. hm_task = "running"
      BY <2>0, <2>1 DEF SystemInv, HMSeen
  <2>3. CASE hm' # Returned /\ UNCHANGED hm_task
      BY <2>0, <2>1, <2>2, <2>3 DEF SystemInv, HMSeen
  <2>4. ASSUME hm' = Returned, NEW r \in {"ok", "err"}, EndsWith(r), hm_task' = r
        PROVE  S!HMReturns /\ HMSeen'
    <3>1. IF r = "ok" THEN "hm" \in told ELSE S!PMGone
        BY <2>4, PMPolled DEF EndsWith, SystemInv, ToldIsQueued
    <3>2. S!HMReturns
        BY <2>0, <2>2, <2>4, <3>1 DEF S!HMReturns
    <3>3. HMSeen'
        BY <2>0, <2>2, <2>4 DEF SystemInv, HMSeen
    <3>4. QED
        BY <3>2, <3>3
  <2>5. QED
      BY <2>0, <2>1, <2>3, <2>4 DEF S!SupNext
<1>3. QED
    BY <1>1, <1>2

(* A connection reaches PeerManager, from those LoopListen queued.         *)
LEMMA ConnectionAsSupervised ==
    ASSUME SystemInv, SystemConnection
    PROVE  /\ [S!SupNext]_(S!supVars) /\ PMSeen' /\ ListenerSeen' /\ NetworkAwaits'
           /\ DoneWithoutTasks' /\ UNCHANGED << hm, tp_to_hm, pmEnv >>
<1> USE DEF S!supVars
<1>1. /\ pm = Loop /\ ll_to_pm > 0 /\ ll_to_pm' = ll_to_pm - 1
      /\ UNCHANGED << threadVars, pm_task, hm_task >>
    BY DEF SystemConnection, TakesConnection
<1>2. pm' = pm \/ pm'.at = "to_protocol"
    BY DEF SystemConnection, nodeVars, IncomingConnection, AddPeer, ToProtocol
<1>3. UNCHANGED << hm, tp_to_hm, pmEnv >>
    BY DEF SystemConnection, nodeVars, IncomingConnection, AddPeer
<1>4. pm.at # "done" /\ pm'.at # "done" /\ Serving /\ Serving'
    BY <1>1, <1>2 DEF Loop, Serving
<1>5. pm_task = "running" /\ network # S!Starting /\ S!Polled
    BY <1>1, <1>4, PMPolled DEF SystemInv, PMSeen, SeenOfPM, ListenerSeen
<1>6. S!PMReceives
    BY <1>1, <1>5 DEF S!PMReceives
<1>7. PMSeen' /\ NetworkAwaits' /\ DoneWithoutTasks'
    BY <1>1, <1>4, <1>5 DEF SystemInv, PMSeen, SeenOfPM, NetworkAwaits, DoneWithoutTasks
<1>8. ListenerSeen'
    BY <1>1, <1>3, <1>5 DEF SystemInv, ListenerSeen, S!LLGone
<1>9. QED
    BY <1>3, <1>6, <1>7, <1>8 DEF S!SupNext

(* The network thread waits for PeerManager before it leaves block_on.     *)
LEMMA NetworkAsSupervised ==
    ASSUME SystemInv, SystemNetwork
    PROVE  /\ PMSeen' /\ ListenerSeen' /\ NetworkAwaits' /\ ToldIsQueued'
           /\ UNCHANGED << set_task_peers, pm, hm, hm_task, protocol >>
<1> USE DEF S!Starting, S!Selecting, S!Joining, S!Leaving, S!Returned, S!Thread
<1>0. /\ UNCHANGED << set_task_peers, pm, hm, ll_up, tp_to_hm >> /\ S!NetworkWork
      /\ tn_to_pm' = IF "pm" \in told' THEN "shutdown" ELSE tn_to_pm
      /\ PMSeen /\ ListenerSeen /\ NetworkAwaits /\ ToldIsQueued
    BY DEF SystemNetwork, SystemInv
<1>1. pm_task \in {"none", "running", "closing", "failing", "ok", "err"}
      /\ (pm_task \in {"ok", "err"} => pm.at = "done")
      /\ (pm.at = "done" => pm_task \in {"ok", "err"})
    BY <1>0 DEF PMSeen, SeenOfPM, Serving, Loop
<1>2. CASE S!NetworkStarts
  <2>1. SeenOfPM' = "running" /\ network' # S!Starting
      BY <1>0, <1>2 DEF S!NetworkStarts, PMSeen, SeenOfPM, Serving, Loop
  <2>2. PMSeen' /\ ListenerSeen' /\ NetworkAwaits'
      BY <1>0, <1>2, <2>1 DEF S!NetworkStarts, PMSeen, ListenerSeen, NetworkAwaits, S!LLGone
  <2>3. QED
      BY <1>0, <1>2, <2>2 DEF S!NetworkStarts, ToldIsQueued
<1>3. CASE S!NetworkToldShutdown
    BY <1>0, <1>3 DEF S!NetworkToldShutdown, PMSeen, SeenOfPM, Serving, ListenerSeen, S!LLGone,
       NetworkAwaits, ToldIsQueued
<1>4. ASSUME NEW t \in {"pm", "ll"}, S!NetworkSeesEnd(t) \/ S!NetworkSeesPanic(t)
      PROVE  /\ PMSeen' /\ ListenerSeen' /\ NetworkAwaits' /\ ToldIsQueued'
             /\ UNCHANGED << hm_task, protocol >>
  <2>1. S!NetworkSeesEnd(t)
      BY <1>0, <1>1, <1>4 DEF S!NetworkSeesPanic, S!task, ListenerSeen
  <2>2. t = "pm" => pm.at = "done"
      BY <1>1, <2>1 DEF S!NetworkSeesEnd, S!task, S!Finished
  <2>3. NetworkAwaits'
      BY <1>0, <2>1, <2>2 DEF S!NetworkSeesEnd, S!Other, NetworkAwaits
  <2>4. PMSeen' /\ ListenerSeen'
      BY <1>0, <2>1 DEF S!NetworkSeesEnd, PMSeen, SeenOfPM, Serving, ListenerSeen, S!LLGone
  <2>5. ToldIsQueued'
      BY <1>0, <2>1 DEF S!NetworkSeesEnd, S!Other, ToldIsQueued
  <2>6. QED
      BY <2>1, <2>3, <2>4, <2>5 DEF S!NetworkSeesEnd
<1>5. CASE S!NetworkJoins
  <2>1. pm.at = "done"
      BY <1>0, <1>1, <1>5 DEF S!NetworkJoins, S!task, S!Joinable, S!Finished, NetworkAwaits
  <2>2. QED
      BY <1>0, <1>5, <2>1 DEF S!NetworkJoins, PMSeen, SeenOfPM, Serving, ListenerSeen, S!LLGone,
         NetworkAwaits, ToldIsQueued
<1>6. CASE S!NetworkReturns
  <2>1. pm.at = "done" /\ pm_task' = pm_task
      BY <1>0, <1>1, <1>6 DEF S!NetworkReturns, NetworkAwaits, S!Drop, S!Alive
  <2>2. ll_task' # "panicked" /\ ll_task' # "none" /\ S!LLGone'
      BY <1>0, <1>6 DEF S!NetworkReturns, S!Drop, S!Alive, ListenerSeen, S!LLGone
  <2>3. QED
      BY <1>0, <1>6, <2>1, <2>2 DEF S!NetworkReturns, PMSeen, SeenOfPM, Serving, ListenerSeen,
         NetworkAwaits, ToldIsQueued
<1>7. QED
    BY <1>0, <1>2, <1>3, <1>4, <1>5, <1>6 DEF S!NetworkWork, S!NetworkToldShutdown,
       S!NetworkJoins, S!NetworkReturns

(* What the protocol thread does leaves the network thread's side alone.   *)
LEMMA ProtocolAsSupervised ==
    ASSUME SystemInv, SystemProtocol
    PROVE  /\ HMSeen' /\ ToldIsQueued'
           /\ UNCHANGED << set_task_peers, pm, ll_up, network, pm_task, ll_task, ll_to_pm >>
<1> USE DEF S!Starting, S!Selecting, S!Joining, S!Leaving, S!Returned, S!Thread
<1>0. /\ UNCHANGED << set_task_peers, pm, tn_to_pm, ll_up, hm >> /\ S!ProtocolWork
      /\ tp_to_hm' = IF "hm" \in told' THEN "shutdown" ELSE tp_to_hm
      /\ HMSeen /\ ToldIsQueued
    BY DEF SystemProtocol, SystemInv
<1>1. CASE S!ProtocolStarts
    BY <1>0, <1>1 DEF S!ProtocolStarts, HMSeen, ToldIsQueued
<1>2. CASE S!ProtocolToldShutdown
    BY <1>0, <1>2 DEF S!ProtocolToldShutdown, HMSeen, ToldIsQueued
<1>3. CASE S!ProtocolSeesEnd
    BY <1>0, <1>3 DEF S!ProtocolSeesEnd, HMSeen, ToldIsQueued
<1>4. CASE S!ProtocolSeesPanic \/ S!ProtocolReturns
    BY <1>0, <1>4 DEF S!ProtocolSeesPanic, S!ProtocolReturns, HMSeen, ToldIsQueued
<1>5. QED
    BY <1>0, <1>1, <1>2, <1>3, <1>4 DEF S!ProtocolWork

(* LoopListen never panics here, and queues nothing once it is over.       *)
LEMMA ListenerAsSupervised ==
    ASSUME SystemInv, SystemLLWork \/ SystemLLEnvironment
    PROVE  /\ [S!SupNext]_(S!supVars) /\ ListenerSeen'
           /\ UNCHANGED << nodeVars, network, protocol, told, pm_task, hm_task >>
<1>0. UNCHANGED nodeVars /\ ListenerSeen
    BY DEF SystemLLWork, SystemLLEnvironment, SystemInv
<1>1. CASE S!LLSends
    BY <1>0, <1>1 DEF nodeVars, S!LLSends, S!LLGone, S!Alive, ListenerSeen, S!SupNext
<1>2. CASE S!LLBinds \/ S!LLStops \/ S!LLAccepts \/ S!LLCannotBind
    BY <1>0, <1>2 DEF nodeVars, S!LLBinds, S!LLStops, S!LLAccepts, S!LLCannotBind, S!LLGone,
       S!Alive, ListenerSeen, S!SupNext
<1>3. QED
    BY <1>1, <1>2 DEF SystemLLWork, SystemLLEnvironment

(* main only listens, tells and joins.                                     *)
LEMMA MainAsSupervised ==
    ASSUME SystemInv, SystemMain
    PROVE  /\ ToldIsQueued'
           /\ UNCHANGED << nodeVars, network, protocol, pm_task, ll_task, hm_task, ll_to_pm >>
<1>1. UNCHANGED << nodeVars, network, protocol, pm_task, ll_task, hm_task, ll_to_pm >>
    BY DEF SystemMain, S!MainWork, S!MainHears, S!MainHearsNothing, S!MainReturns
<1>2. "pm" \in told' <=> "pm" \in told
    BY DEF SystemMain, S!MainWork, S!MainHears, S!MainHearsNothing, S!MainReturns
<1>3. "hm" \in told' <=> "hm" \in told
    BY DEF SystemMain, S!MainWork, S!MainHears, S!MainHearsNothing, S!MainReturns
<1>4. QED
    BY <1>1, <1>2, <1>3 DEF SystemInv, ToldIsQueued, nodeVars

-----------------------------------------------------------------------------
(* The invariant of the process and the two refinements.                   *)

(* Every step is one of Supervision.                                       *)
LEMMA SystemStepIsSup ==
    ASSUME SystemInv, [SystemNext]_systemVars
    PROVE  [S!SupNext]_(S!supVars)
<1>1. CASE SystemConnection
    BY <1>1, ConnectionAsSupervised
<1>2. CASE SystemPM
    BY <1>2, PMAsSupervised
<1>3. CASE SystemHM \/ SystemHMPanics
    BY <1>3, HMAsSupervised
<1>4. ASSUME NEW c \in Conns, SystemPeer(c) PROVE UNCHANGED S!supVars
    BY <1>4 DEF SystemPeer, S!supVars
<1>5. CASE SystemMain
    BY <1>5 DEF SystemMain, S!SupNext
<1>6. CASE SystemNetwork
    BY <1>6 DEF SystemNetwork, S!SupNext
<1>7. CASE SystemProtocol
    BY <1>7 DEF SystemProtocol, S!SupNext
<1>8. CASE SystemLLWork \/ SystemLLEnvironment
    BY <1>8, ListenerAsSupervised
<1>9. CASE SystemListenerGone \/ SystemOver \/ UNCHANGED systemVars
    BY <1>9 DEF SystemListenerGone, SystemOver, systemVars, S!supVars
<1>10. QED
    BY <1>1, <1>2, <1>3, <1>4, <1>5, <1>6, <1>7, <1>8, <1>9 DEF SystemNext

(* Every step keeps the invariant.                                         *)
LEMMA SystemNextInv ==
    ASSUME SystemInv, [SystemNext]_systemVars
    PROVE  SystemInv'
<1> DEFINE Rest == PMSeen /\ HMSeen /\ ListenerSeen /\ ToldIsQueued /\ NetworkAwaits
                   /\ DoneWithoutTasks
<1>0. NodeInv' /\ Rest
    BY SystemStepIsPM DEF SystemInv
<1> SUFFICES Rest'
    BY <1>0 DEF SystemInv
<1>1. CASE SystemConnection
  <2>1. HMSeen' /\ ToldIsQueued'
      BY <1>0, <1>1, ConnectionAsSupervised DEF SystemConnection, HMSeen, ToldIsQueued
  <2>2. QED
      BY <1>1, <2>1, ConnectionAsSupervised
<1>2. CASE SystemPM
  <2>1. UNCHANGED << pmEnv, hm, tp_to_hm, threadVars, hm_task >>
      BY <1>2 DEF SystemPM, PMWork, JoinPeer, DrainPeer, Join, ReceiveFromProtocol, SendPeer,
         ReceiveFromPeer, SendProtocol, Terminate, BulkPick, BulkSend, BulkEnd, PMReturn
  <2>2. HMSeen' /\ ToldIsQueued'
      BY <1>0, <2>1 DEF HMSeen, ToldIsQueued
  <2>3. ll_to_pm' = ll_to_pm \/ ll_to_pm' = 0
      BY <1>2 DEF SystemPM
  <2>4. ListenerSeen'
      BY <1>0, <2>1, <2>3 DEF ListenerSeen, S!LLGone
  <2>5. QED
      BY <1>2, <2>2, <2>4, PMAsSupervised
<1>3. CASE SystemHM \/ SystemHMPanics
  <2>1. PMSeen' /\ ListenerSeen' /\ ToldIsQueued' /\ NetworkAwaits' /\ DoneWithoutTasks'
      BY <1>0, <1>3, HMAsSupervised DEF PMSeen, SeenOfPM, Serving, ListenerSeen, S!LLGone,
         ToldIsQueued, NetworkAwaits, DoneWithoutTasks
  <2>2. QED
      BY <1>3, <2>1, HMAsSupervised
<1>4. ASSUME UNCHANGED << pm, tn_to_pm, hm, tp_to_hm, set_task_peers, threadVars, pm_task,
                          hm_task, ll_to_pm >>,
             ll_up' = ll_up \/ (ll_up' = FALSE /\ ll_task # "none" /\ S!LLGone /\ ll_to_pm = 0)
      PROVE  Rest'
    BY <1>0, <1>4 DEF PMSeen, SeenOfPM, Serving, HMSeen, ListenerSeen, S!LLGone,
       ToldIsQueued, NetworkAwaits, DoneWithoutTasks
<1>5. ASSUME NEW c \in Conns, SystemPeer(c) PROVE Rest'
    BY <1>4, <1>5 DEF SystemPeer, NodePeer, PeerNext, PeerTurn, PeerReads, PeerSubtaskEnds,
       PeerForwards, PeerReceives, PeerOrphaned, PeerReturns
<1>6. CASE SystemListenerGone \/ SystemOver \/ UNCHANGED systemVars
    BY <1>4, <1>6 DEF SystemListenerGone, SystemOver, systemVars, nodeVars
<1>7. CASE SystemMain
  <2>1. PMSeen' /\ HMSeen' /\ ListenerSeen' /\ NetworkAwaits' /\ DoneWithoutTasks'
      BY <1>0, <1>7, MainAsSupervised DEF nodeVars, PMSeen, SeenOfPM, Serving, HMSeen,
         ListenerSeen, S!LLGone, NetworkAwaits, DoneWithoutTasks
  <2>2. QED
      BY <1>7, <2>1, MainAsSupervised
<1>8. CASE SystemNetwork
  <2>1. HMSeen' /\ DoneWithoutTasks'
      BY <1>0, <1>8, NetworkAsSupervised DEF HMSeen, DoneWithoutTasks
  <2>2. QED
      BY <1>8, <2>1, NetworkAsSupervised
<1>9. CASE SystemProtocol
  <2>1. PMSeen' /\ ListenerSeen' /\ NetworkAwaits' /\ DoneWithoutTasks'
      BY <1>0, <1>9, ProtocolAsSupervised DEF PMSeen, SeenOfPM, Serving, ListenerSeen, S!LLGone,
         NetworkAwaits, DoneWithoutTasks
  <2>2. QED
      BY <1>9, <2>1, ProtocolAsSupervised
<1>10. CASE SystemLLWork \/ SystemLLEnvironment
  <2>1. PMSeen' /\ HMSeen' /\ ToldIsQueued' /\ NetworkAwaits' /\ DoneWithoutTasks'
      BY <1>0, <1>10, ListenerAsSupervised DEF nodeVars, PMSeen, SeenOfPM, Serving, HMSeen,
         ToldIsQueued, NetworkAwaits, DoneWithoutTasks
  <2>2. QED
      BY <1>10, <2>1, ListenerAsSupervised
<1>11. QED
    BY <1>1, <1>2, <1>3, <1>5, <1>6, <1>7, <1>8, <1>9, <1>10 DEF SystemNext

(* SystemInv is an invariant of the process.                               *)
THEOREM SystemInvariance == SystemSpec => []SystemInv
<1>1. SystemInit => SystemInv
    BY SystemInitInv
<1>2. SystemInv /\ [SystemNext]_systemVars => SystemInv'
    BY SystemNextInv
<1>3. QED
    BY <1>1, <1>2, PTL DEF SystemSpec

(* PeerManager in the process is PeerManager in the surroundings it was    *)
(* proved correct in: what was proved of PMSpec holds of the process, from *)
(* its start through a fault to its end.                                   *)
THEOREM SystemImplementsPM == SystemSpec => PMSpec
<1>1. SystemInit => PMInit
    BY DEF SystemInit, NodeInit
<1>2. SystemInv /\ [SystemNext]_systemVars => [PMNext \/ PMEnv]_pmVars
    BY SystemStepIsPM
<1>3. QED
    BY <1>1, <1>2, SystemInvariance, PTL DEF SystemSpec, PMSpec

(* The process implements Supervision: the actors end when that module     *)
(* says they may, with the result it says, and at no other time.           *)
THEOREM SystemImplementsSupervision == SystemSpec => ImplementsSupervision
<1>1. SystemInit => S!SupInit
    BY DEF SystemInit
<1>2. SystemInv /\ [SystemNext]_systemVars => [S!SupNext]_(S!supVars)
    BY SystemStepIsSup
<1>3. QED
    BY <1>1, <1>2, SystemInvariance, PTL DEF SystemSpec, ImplementsSupervision, S!SupSpec

(* When the runtime of the network thread is dropped no Peer runs on it.   *)
THEOREM SystemPeersEndFirst == SystemSpec => []PeersEndFirst
<1>1. SystemInv => PeersEndFirst
  <2>1. SUFFICES ASSUME SystemInv, network.at = "returned"
                 PROVE  pm.at = "done" /\ running_peers = {}
      BY DEF PeersEndFirst
  <2>2. pm.at = "done"
      BY <2>1 DEF SystemInv, NetworkAwaits, S!Starting, S!Selecting, S!Thread
  <2>3. running_peers \subseteq set_task_peers
      BY <2>1, NodeFacts DEF SystemInv, Bookkeeping, TasksKnown
  <2>4. QED
      BY <2>1, <2>2, <2>3 DEF SystemInv, DoneWithoutTasks
<1>2. QED
    BY <1>1, SystemInvariance, PTL

-----------------------------------------------------------------------------
(* What was proved of the node holds of the process too.                   *)

(* The panic of HandleMessage takes what it was sent with it, and changes  *)
(* nothing else the invariants of the node are about.                      *)
LEMMA PanicLeaves ==
    ASSUME SystemInv, SystemHMPanics
    PROVE  /\ hm' = Returned /\ ~hm_up' /\ pm_to_hm' = << >>
           /\ UNCHANGED << set_context_peers, set_state_peers, hm_to_pm, peer_to_pm, pm_to_peer,
                           pm_up, running_peers, set_all_peers, set_id_peers,
                           set_task_peers, pm, peer, read, wrote >>
BY DEF SystemHMPanics, Return

(* It loses no entry and tells nobody less.                                *)
LEMMA PanicKeepsBooks ==
    ASSUME SystemInv, SystemHMPanics, ToldSoFar
    PROVE  NoLeakInv' /\ ToldSoFar'
<1>1. NoLeakInv'
    BY PanicLeaves DEF NoLeakInv
<1>2. (\A c : Told(c)' <=> Told(c)) /\ StillToTell' = StillToTell
    BY PanicLeaves DEF Told, StillToTell
<1>3. QED
    BY <1>1, <1>2, PanicLeaves DEF ToldSoFar

(* It moves no message of the two lines but those that nobody reads now.   *)
LEMMA PanicKeepsTraffic ==
    ASSUME SystemInv, SystemHMPanics, TrafficInv
    PROVE  TrafficInv'
<1>0. NodeInv
    BY DEF SystemInv
<1>1. Unseen' /\ Registered' /\ HandRegistered' /\ Deserved'
  <2>1. \A c : (Alone(c)' <=> Alone(c)) /\ IdOf(c)' = IdOf(c) /\ (Innocent(c)' <=> Innocent(c))
      BY PanicLeaves DEF Alone, IdOf, Innocent
  <2>2. Unseen'
      BY PanicLeaves DEF TrafficInv, Unseen
  <2>3. Registered'
      BY <2>1, PanicLeaves DEF TrafficInv, Registered
  <2>4. HandRegistered'
      BY PanicLeaves DEF TrafficInv, HandRegistered
  <2>5. Range(hm_to_pm') = Range(hm_to_pm)
      BY PanicLeaves
  <2>6. Deserved'
      BY <2>1, <2>5, PanicLeaves DEF TrafficInv, Deserved
  <2>7. QED
      BY <2>2, <2>3, <2>4, <2>6
<1>2. ASSUME NEW c \in Conns, Alone(c)' PROVE UpLine(c)' /\ DownLine(c)'
  <2>1. Alone(c) /\ UpLine(c) /\ DownLine(c) /\ IdOf(c)' = IdOf(c)
      BY <1>2, PanicLeaves DEF Alone, IdOf, TrafficInv
  <2>2. ASSUME NEW h \in Nat, Heard(c, h) PROVE Heard(c, h)'
    <3>1. HeardFlags(c, h)'
        BY <2>1, <2>2, PanicLeaves, HeardFlagsGrow DEF Heard
    <3>2. hm'.at \notin Sends
        BY PanicLeaves DEF Returned, Sends
    <3>3. ~Busy(IdOf(c))'
        BY <3>2 DEF Busy
    <3>4. StartsFlagless(IdOf(c))'
        BY <3>3 DEF StartsFlagless
    <3>5. HeardInStep(c, h)'
        BY PanicLeaves DEF HeardInStep
    <3>6. QED
        BY <2>1, <3>1, <3>4, <3>5 DEF Heard
  <2>3. UpLine(c)'
      BY <1>0, <2>1, <2>2, PanicLeaves, UpKept
  <2>4. (Unannounced(c)' => Unannounced(c)) /\ Sent(IdOf(c))' = Sent(IdOf(c))
      BY <2>1, PanicLeaves, RangeOfEmpty DEF Unannounced, Sent
  <2>5. DownLine(c)'
      BY <2>1, <2>4, PanicLeaves, DownQuiet
  <2>6. QED
      BY <2>3, <2>5
<1>3. QED
    BY <1>1, <1>2 DEF TrafficInv

(* The invariants of the node hold of the process.                         *)
THEOREM SystemKeepsNodeInvariants == SystemSpec => [](NoLeakInv /\ ToldSoFar /\ TrafficInv)
<1> DEFINE Inv == NoLeakInv /\ ToldSoFar /\ TrafficInv
<1>1. SystemInit => Inv
  <2>1. SystemInit => NodeInit
      BY DEF SystemInit
  <2>2. NodeInit => NoLeakInv
      BY EmptyIsHashMap DEF NodeInit, PMInit, ChanInit, HMOwnInit, NoLeakInv, Loop
  <2>3. NodeInit => ToldSoFar
      BY DEF NodeInit, PMInit, ToldSoFar, Loop
  <2>4. QED
      BY <2>1, <2>2, <2>3, TrafficInit
<1>2. SystemInv /\ Inv /\ [SystemNext]_systemVars => Inv'
  <2> SUFFICES ASSUME SystemInv, Inv, [SystemNext]_systemVars PROVE Inv'
      OBVIOUS
  <2>1. CASE [NodeNext]_nodeVars
      BY <2>1, NoLeakStep, ToldStep, TrafficStep DEF SystemInv
  <2>2. CASE SystemHMPanics
      BY <2>2, PanicKeepsBooks, PanicKeepsTraffic
  <2>3. QED
      BY <2>1, <2>2, SystemStepIsNode
<1>3. QED
    BY <1>1, <1>2, SystemInvariance, PTL DEF SystemSpec

(* In the process, whatever its threads do and even if HandleMessage       *)
(* panics, a connection whose id is its own is written a Version and then  *)
(* a Verack at most.                                                       *)
THEOREM SystemSocketOrder == SystemSpec => []SocketOrder
<1>1. SystemInv /\ TrafficInv => SocketOrder
    BY SocketOrderFollows DEF SystemInv
<1>2. QED
    BY <1>1, SystemInvariance, SystemKeepsNodeInvariants, PTL

(* The flags of such a connection agree with its traffic.                  *)
THEOREM SystemFlagsMatchTraffic == SystemSpec => []FlagsMatchTraffic
<1>1. SystemInv /\ TrafficInv => FlagsMatchTraffic
    BY FlagsFollow DEF SystemInv
<1>2. QED
    BY <1>1, SystemInvariance, SystemKeepsNodeInvariants, PTL

(* While HandleMessage is up it leaks no entry.                            *)
THEOREM SystemNoLeak == SystemSpec => []NoLeak
<1>1. SystemInv /\ NoLeakInv => NoLeak
    BY NoLeakFollows DEF SystemInv
<1>2. QED
    BY <1>1, SystemInvariance, SystemKeepsNodeInvariants, PTL

(* Whatever made PeerManager terminate, also the panic, every Peer is      *)
(* told.                                                                   *)
THEOREM SystemDrainedPeersAreTold == SystemSpec => []DrainedPeersAreTold
<1>1. SystemInv /\ ToldSoFar => DrainedPeersAreTold
    BY ToldFollows DEF SystemInv
<1>2. QED
    BY <1>1, SystemInvariance, SystemKeepsNodeInvariants, PTL

(* Nobody who kept to the protocol is reported, as long as the clock of    *)
(* the node is right (a Version is built) and PeerManager is up.           *)
THEOREM SystemInnocentNotReported ==
    ASSUME VersionBuilds = {TRUE}
    PROVE  SystemSpec => [](pm_up => InnocentNotReported)
<1>1. SystemInv /\ TrafficInv => (pm_up => InnocentNotReported)
    BY InnocentFollows DEF SystemInv
<1>2. QED
    BY <1>1, SystemInvariance, SystemKeepsNodeInvariants, PTL

-----------------------------------------------------------------------------
(* What Supervision promises of the end, of the process with its actors.   *)
SP == INSTANCE SupervisionProofs WITH Faults <- SystemFaults

(* The two instances of Supervision say the same.                          *)
LEMMA SameSupervision ==
    /\ S!SupInit <=> SP!SupInit
    /\ [S!SupNext]_(S!supVars) <=> [SP!SupNext]_(SP!supVars)
    /\ S!FaultIsNamed <=> SP!FaultIsNamed
    /\ S!EndsAreAwaited <=> SP!EndsAreAwaited
    /\ S!ServesUntilFault <=> SP!ServesUntilFault
<1> USE DEF S!Starting, SP!Starting, S!Selecting, SP!Selecting, S!Joining, SP!Joining,
        S!Leaving, SP!Leaving, S!Returned, SP!Returned, S!Thread, SP!Thread,
        S!task, SP!task, S!tasks, SP!tasks, S!supVars, SP!supVars, S!Alive, SP!Alive,
        S!Finished, SP!Finished, S!Joinable, SP!Joinable, S!Fault, SP!Fault,
        S!Blame, SP!Blame, S!Polled, SP!Polled
<1>1. S!SupInit <=> SP!SupInit
    BY DEF S!SupInit, SP!SupInit
<1>2. S!MainWork <=> SP!MainWork
    BY DEF S!MainWork, SP!MainWork, S!MainHears, SP!MainHears, S!MainReturns, SP!MainReturns,
       S!MainHearsNothing, SP!MainHearsNothing, S!SenderOf, SP!SenderOf
<1>3. S!NetworkWork <=> SP!NetworkWork
    BY DEF S!NetworkWork, SP!NetworkWork, S!NetworkStarts, SP!NetworkStarts,
       S!NetworkToldShutdown, SP!NetworkToldShutdown, S!NetworkSeesEnd, SP!NetworkSeesEnd,
       S!NetworkSeesPanic, SP!NetworkSeesPanic, S!NetworkJoins, SP!NetworkJoins,
       S!BlamedAtJoin, SP!BlamedAtJoin, S!NetworkReturns, SP!NetworkReturns, S!Drop, SP!Drop,
       S!Other, SP!Other
<1>4. S!ProtocolWork <=> SP!ProtocolWork
    BY DEF S!ProtocolWork, SP!ProtocolWork, S!ProtocolStarts, SP!ProtocolStarts,
       S!ProtocolToldShutdown, SP!ProtocolToldShutdown, S!ProtocolSeesEnd, SP!ProtocolSeesEnd,
       S!ProtocolSeesPanic, SP!ProtocolSeesPanic, S!ProtocolReturns, SP!ProtocolReturns
<1>5. [S!SupNext]_(S!supVars) <=> [SP!SupNext]_(SP!supVars)
    BY <1>2, <1>3, <1>4 DEF S!SupNext, SP!SupNext, S!Over, SP!Over,
       S!NetworkCannotStart, SP!NetworkCannotStart, S!ProtocolCannotStart, SP!ProtocolCannotStart,
       S!LLBinds, SP!LLBinds, S!LLCannotBind, SP!LLCannotBind, S!LLAccepts, SP!LLAccepts,
       S!LLSends, SP!LLSends, S!LLStops, SP!LLStops, S!BacklogHasRoom, SP!BacklogHasRoom,
       S!PMGone, SP!PMGone, S!HMGone, SP!HMGone, S!LLGone, SP!LLGone,
       S!PMReceives, SP!PMReceives, S!PMTerminates, SP!PMTerminates, S!PMReturns, SP!PMReturns,
       S!HMReturns, SP!HMReturns, S!Panics, SP!Panics
<1>6. S!FaultIsNamed <=> SP!FaultIsNamed
    BY DEF S!FaultIsNamed, SP!FaultIsNamed, S!PartOf, SP!PartOf, S!Result, SP!Result
<1>7. /\ S!EndsAreAwaited <=> SP!EndsAreAwaited
      /\ S!ServesUntilFault <=> SP!ServesUntilFault
    BY DEF S!EndsAreAwaited, SP!EndsAreAwaited, S!ServesUntilFault, SP!ServesUntilFault
<1>8. QED
    BY <1>1, <1>5, <1>6, <1>7

(* However HandleMessage panics or LoopListen fails to bind, with whatever *)
(* connections and handshakes the actors are busy: main returns an error   *)
(* that names the fault, nothing is cut off at an await, and before the    *)
(* fault nothing ends.                                                     *)
THEOREM SystemEndsAsSupervised ==
    SystemSpec => [](S!FaultIsNamed /\ S!EndsAreAwaited /\ S!ServesUntilFault)
<1>1. SP!BacklogAssumption /\ SP!FaultsAssumption
    BY SystemBacklogAssumption, SystemFaultsAssumption
    DEF SP!BacklogAssumption, SP!FaultsAssumption
<1>2. SP!SupSpec => [](SP!FaultIsNamed /\ SP!EndsAreAwaited /\ SP!ServesUntilFault)
    BY <1>1, SP!SupFaultIsNamed, SP!SupEndsAreAwaited, SP!SupServesUntilFault, PTL
<1>3. S!SupSpec => SP!SupSpec
    BY SameSupervision, PTL DEF S!SupSpec, SP!SupSpec
<1>4. QED
    BY <1>2, <1>3, SameSupervision, SystemImplementsSupervision, PTL DEF ImplementsSupervision

=============================================================================
