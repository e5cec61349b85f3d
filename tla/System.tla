------------------------------- MODULE System -------------------------------
(***************************************************************************)
(* The process: the actors of Node under the supervisors of Supervision.   *)
(* What the two modules leave open of each other is closed here:           *)
(*   - a Shutdown to a task is the event its handler receives;             *)
(*   - a connection PeerManager takes is one that LoopListen queued;       *)
(*   - a task of Supervision is the actor in detail: PeerManager returns   *)
(*     after its mass disconnection and drain, HandleMessage at an await.  *)
(* Threads start before their tasks.  Of the faults, a port that cannot be *)
(* bound and a panic of HandleMessage at any await are modelled.           *)
(***************************************************************************)
EXTENDS Node

CONSTANTS
    Backlog,        \* the bound of LoopListen's channel
    SystemFaults    \* the faults that may occur

ASSUME SystemBacklogAssumption == Backlog \in Nat \ {0}

ASSUME SystemFaultsAssumption == SystemFaults \subseteq {"bind", "hm"}

VARIABLES
    main, exits, network, protocol, told,   \* as in Supervision
    pm_task, ll_task, hm_task, ll_to_pm, faults

S == INSTANCE Supervision WITH Faults <- SystemFaults

threadVars == << main, exits, network, protocol, told, ll_task, faults >>
systemVars == << nodeVars, threadVars, pm_task, hm_task, ll_to_pm >>

SystemInit == NodeInit /\ S!SupInit

-----------------------------------------------------------------------------
(* PeerManager.                                                            *)

(* What the handle of the task shows at each of its awaits.                *)
SeenOfPM ==
    IF Serving THEN "running"
    ELSE IF pm.at = "done" THEN IF pm.reason = "shutdown" THEN "ok" ELSE "err"
    ELSE IF pm.reason = "shutdown" THEN "closing" ELSE "failing"

TakesConnection ==
    /\ pm = Loop /\ ll_to_pm > 0
    /\ ll_to_pm' = ll_to_pm - 1

(* A connection beyond those of the instance is one that Peer::create      *)
(* fails on, which changes nothing in PeerManager.                         *)
SystemConnection ==
    /\ TakesConnection
    /\ \/ \E c \in Incoming :
            IncomingConnection(c) /\ UNCHANGED << hmOwn, tp_to_hm, peerOwn >>
       \/ UNCHANGED nodeVars
    /\ UNCHANGED << threadVars, pm_task, hm_task >>

SystemPM ==
    /\ pm_task # "none"
    /\ PMWork
    /\ pm_task' = SeenOfPM'
    /\ ll_to_pm' = IF pm'.at = "done" THEN 0 ELSE ll_to_pm
    /\ UNCHANGED << threadVars, hm_task >>

(* recv returns None: LoopListen is over and nothing it queued is left.    *)
SystemListenerGone ==
    /\ ll_up /\ ll_task # "none" /\ S!LLGone /\ ll_to_pm = 0
    /\ ll_up' = FALSE
    /\ UNCHANGED << pmOwn, tn_to_pm, chanVars, hmOwn, tp_to_hm, peerOwn >>
    /\ UNCHANGED << threadVars, pm_task, hm_task, ll_to_pm >>

-----------------------------------------------------------------------------
(* HandleMessage: Ok when it received Shutdown, Err when PeerManager's     *)
(* channel is closed.                                                      *)

EndsWith(r) ==
    \/ r = "ok" /\ hm = Select /\ tp_to_hm = "shutdown"
    \/ r = "err" /\ ~pm_up /\ (hm = Select => pm_to_hm = << >>)

SystemHM ==
    /\ hm_task # "none"
    /\ NodeHM
    /\ \/ hm' # Returned /\ UNCHANGED hm_task
       \/ hm' = Returned /\ \E r \in {"ok", "err"} : EndsWith(r) /\ hm_task' = r
    /\ UNCHANGED << threadVars, pm_task, ll_to_pm >>

SystemHMPanics ==
    /\ hm_task = "running" /\ S!Fault("hm")
    /\ Return /\ UNCHANGED << peerid, set_task_peers, pm, pmEnv, peerOwn >>
    /\ hm_task' = "panicked"
    /\ UNCHANGED << main, exits, network, protocol, told, pm_task, ll_task, ll_to_pm >>

SystemPeer(c) == NodePeer(c) /\ UNCHANGED << threadVars, pm_task, hm_task, ll_to_pm >>

-----------------------------------------------------------------------------
(* The threads and LoopListen, as in Supervision.                          *)

SystemMain == UNCHANGED nodeVars /\ S!MainWork

SystemNetwork ==
    /\ UNCHANGED << pmOwn, ll_up, chanVars, hmOwn, tp_to_hm, peerOwn >>
    /\ S!NetworkWork
    /\ tn_to_pm' = IF "pm" \in told' THEN "shutdown" ELSE tn_to_pm

SystemProtocol ==
    /\ UNCHANGED << pmOwn, pmEnv, chanVars, hmOwn, peerOwn >>
    /\ S!ProtocolWork
    /\ tp_to_hm' = IF "hm" \in told' THEN "shutdown" ELSE tp_to_hm

SystemLLWork ==
    /\ UNCHANGED nodeVars
    /\ S!LLBinds \/ S!LLSends \/ S!LLStops

SystemLLEnvironment ==
    /\ UNCHANGED nodeVars
    /\ S!LLAccepts \/ S!LLCannotBind

SystemOver == main = "returned" /\ UNCHANGED systemVars

SystemNext ==
    \/ SystemConnection \/ SystemPM \/ SystemListenerGone
    \/ SystemHM \/ SystemHMPanics
    \/ \E c \in Conns : SystemPeer(c)
    \/ SystemMain \/ SystemNetwork \/ SystemProtocol
    \/ SystemLLWork \/ SystemLLEnvironment
    \/ SystemOver

SystemSpec == SystemInit /\ [][SystemNext]_systemVars

SystemPeerWork(c) == PeerWork(c) /\ UNCHANGED << threadVars, pm_task, hm_task, ll_to_pm >>

(* As in Node and Supervision: what can go on does.                        *)
SystemFairness ==
    /\ WF_systemVars(SystemConnection)
    /\ WF_systemVars(SystemPM)
    /\ WF_systemVars(SystemListenerGone)
    /\ WF_systemVars(SystemHM)
    /\ \A c \in Conns : WF_systemVars(SystemPeerWork(c))
    /\ WF_systemVars(SystemMain)
    /\ WF_systemVars(SystemNetwork)
    /\ WF_systemVars(SystemProtocol)
    /\ WF_systemVars(SystemLLWork)

SystemLiveSpec == SystemSpec /\ SystemFairness
-----------------------------------------------------------------------------
(* Properties.                                                             *)

(* The system implements Supervision: what that module takes for granted   *)
(* of PeerManager and HandleMessage, when they may end and with which      *)
(* result, is what the two actors do.                                      *)
ImplementsSupervision == S!SupSpec

(* Once the network thread has returned every Peer has: none was running   *)
(* when the runtime it runs on was dropped.                                *)
PeersEndFirst ==
    network.at = "returned" => pm.at = "done" /\ running_peers = {}

(* From the panic of HandleMessage, which nothing announces, to the end of *)
(* the process: PeerManager notices the closed channel, disconnects and    *)
(* drains, the network thread tells LoopListen and main; unless a circular *)
(* wait of full channels is closed for good.                               *)
SystemEnds == ((faults # {}) ~> (main = "returned")) \/ <>[]Wedged
=============================================================================
