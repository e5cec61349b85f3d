------------------------- MODULE SupervisionProofs -------------------------
(***************************************************************************)
(* Theorems about how the process ends, for any bound of LoopListen's      *)
(* channel and any set of faults.                                          *)
(*                                                                         *)
(* What the properties say of the end has to be known at every stage       *)
(* before it: the invariant says of each thread, by where it is, what its  *)
(* tasks can be and whom it blames, and of each fault where it has left    *)
(* its trace.                                                              *)
(***************************************************************************)
EXTENDS Supervision, TLAPS

NetworkTasks == {"pm", "ll"}

Spawned == {pm_task, ll_task} \cap {"none", "dropped"} = {}

(* The tasks the network thread does not await have returned and are in    *)
(* the blame.                                                              *)
NetworkJoining ==
    /\ network.awaited \in (SUBSET NetworkTasks) \ {{}}
    /\ \A t \in NetworkTasks \ network.awaited : Finished(task[t])
    /\ network.blamed = UNION {Blame(t) : t \in NetworkTasks \ network.awaited}

(* When the network thread is through it blames itself, a task that        *)
(* panicked, or every task that failed.                                    *)
NetworkLeft ==
    \/ /\ network = Returned({"network"}) /\ "network" \in faults
       /\ pm_task = "none" /\ ll_task = "none"
    \/ /\ \E t \in NetworkTasks : task[t] = "panicked" /\ t \in network.blamed
       /\ pm_task # "none" /\ ll_task # "none"
    \/ /\ Finished(pm_task) /\ Finished(ll_task)
       /\ network.blamed = Blame("pm") \cup Blame("ll")

NetworkStage ==
    \/ network = Starting /\ pm_task = "none" /\ ll_task = "none"
    \/ network = Selecting /\ Spawned
    \/ network.at = "joining" /\ Spawned /\ NetworkJoining
    \/ network.at = "leaving" /\ Spawned /\ NetworkLeft
    \/ network.at = "returned" /\ ~Alive(pm_task) /\ ~Alive(ll_task) /\ NetworkLeft

ProtocolLeft ==
    \/ protocol = Returned({"protocol"}) /\ "protocol" \in faults /\ hm_task = "none"
    \/ Joinable(hm_task) /\ protocol.blamed = Blame("hm")

ProtocolStage ==
    \/ protocol = Starting /\ hm_task = "none"
    \/ protocol = Selecting /\ hm_task # "none"
    \/ protocol.at = "joining" /\ hm_task # "none"
    \/ protocol.at \in {"leaving", "returned"} /\ ProtocolLeft

(* Where each fault has left its trace, for good.                          *)
FaultsLeaveTraces ==
    /\ "network" \in faults => network = Returned({"network"})
    /\ "protocol" \in faults => protocol = Returned({"protocol"})
    /\ "bind" \in faults => ll_task = "err"
    /\ "pm" \in faults <=> pm_task = "panicked"
    /\ "ll" \in faults <=> ll_task = "panicked"
    /\ "hm" \in faults <=> hm_task = "panicked"

DroppedBesidePanic ==
    /\ pm_task = "dropped" => ll_task = "panicked"
    /\ ll_task = "dropped" => pm_task = "panicked"

(* Each thread announces itself once.                                      *)
Left(thread) == IF thread.at \in {"leaving", "returned"} THEN 1 ELSE 0

AnnouncedOnce == Len(exits) <= Left(network) + Left(protocol)

MainWaitsForBoth ==
    main = "returned" => network.at = "returned" /\ protocol.at = "returned"

QuietUntilFault ==
    faults = {} => ServesUntilFault /\ ll_task \in {"none", "binding", "running", "sending"}

SupInv ==
    /\ SupTypeOK
    /\ NetworkStage
    /\ ProtocolStage
    /\ FaultsLeaveTraces
    /\ DroppedBesidePanic
    /\ AnnouncedOnce
    /\ MainWaitsForBoth
    /\ QuietUntilFault

-----------------------------------------------------------------------------
(* A step within a task, which is polled if it is one of the network       *)
(* thread's, brings no thread to another stage.                            *)
TaskMoves ==
    \/ UNCHANGED tasks
    \/ Polled /\ Alive(pm_task) /\ pm_task' \notin {"none", "dropped"} /\ UNCHANGED << ll_task, hm_task >>
    \/ Polled /\ Alive(ll_task) /\ ll_task' \notin {"none", "dropped"} /\ UNCHANGED << pm_task, hm_task >>
    \/ Alive(hm_task) /\ hm_task' # "none" /\ UNCHANGED << pm_task, ll_task >>

(* A step of the tasks that takes no thread further keeps what is known of *)
(* the threads.                                                            *)
LEMMA StagesKept ==
    ASSUME SupInv, TaskMoves, UNCHANGED << network, protocol >>, faults \subseteq faults',
           UNCHANGED main \/ main' # "returned", Len(exits') <= Len(exits)
    PROVE  /\ NetworkStage' /\ ProtocolStage' /\ DroppedBesidePanic'
           /\ AnnouncedOnce' /\ MainWaitsForBoth'
<1>1. Polled => network.at \in {"selecting", "joining"}
    BY DEF Polled
<1>2. NetworkStage'
  <2>1. NetworkStage
      BY DEF SupInv
  <2>2. CASE UNCHANGED << pm_task, ll_task >>
      BY <2>1, <2>2 DEF NetworkStage, Spawned, NetworkJoining, NetworkLeft, NetworkTasks,
                        Starting, Selecting, Returned, Thread, Finished, Alive, Blame, task
  <2>3. CASE Polled /\ Alive(pm_task) /\ pm_task' \notin {"none", "dropped"} /\ UNCHANGED ll_task
      BY <1>1, <2>1, <2>3 DEF NetworkStage, Spawned, NetworkJoining, NetworkTasks,
                              Starting, Selecting, Thread, Finished, Alive, Blame, task
  <2>4. CASE Polled /\ Alive(ll_task) /\ ll_task' \notin {"none", "dropped"} /\ UNCHANGED pm_task
      BY <1>1, <2>1, <2>4 DEF NetworkStage, Spawned, NetworkJoining, NetworkTasks,
                              Starting, Selecting, Thread, Finished, Alive, Blame, task
  <2>5. QED
      BY <2>2, <2>3, <2>4 DEF TaskMoves, tasks
<1>3. ProtocolStage'
  <2>1. ProtocolStage
      BY DEF SupInv
  <2>2. CASE UNCHANGED hm_task
      BY <2>1, <2>2 DEF ProtocolStage, ProtocolLeft, Starting, Selecting, Returned, Thread,
                        Joinable, Finished, Blame, task
  <2>3. CASE Alive(hm_task) /\ hm_task' # "none"
      BY <2>1, <2>3 DEF ProtocolStage, ProtocolLeft, Joinable, Finished, Alive
  <2>4. QED
      BY <2>2, <2>3 DEF TaskMoves, tasks
<1>4. DroppedBesidePanic'
    BY DEF SupInv, DroppedBesidePanic, TaskMoves, tasks, Alive
<1>5. AnnouncedOnce'
  <2>1. Len(exits) <= Left(network) + Left(protocol) /\ Left(network) + Left(protocol) \in Nat
      BY DEF SupInv, AnnouncedOnce, Left
  <2>2. QED
      BY <2>1 DEF AnnouncedOnce, Left
<1>6. MainWaitsForBoth'
    BY DEF SupInv, MainWaitsForBoth
<1>7. QED
    BY <1>2, <1>3, <1>4, <1>5, <1>6

(* main.                                                                   *)
LEMMA MainStep ==
    ASSUME SupInv, MainWork
    PROVE  SupInv'
<1>0. UNCHANGED << network, protocol, tasks, ll_to_pm, faults >>
    BY DEF MainWork, MainHears, MainHearsNothing, MainReturns
<1>1. exits' = exits \/ (exits # << >> /\ exits' = Tail(exits))
    BY DEF MainWork, MainHears, MainHearsNothing, MainReturns
<1>2. /\ exits' \in Seq({"network", "protocol"}) /\ Len(exits') <= Len(exits)
      /\ Len(exits') <= 2 /\ Len(exits) \in Nat
    BY <1>1 DEF SupInv, SupTypeOK
<1>3. SupTypeOK'
  <2>1. main' \in {"joining", "returned"} /\ told' \subseteq Parts
      BY DEF MainWork, MainHears, MainHearsNothing, MainReturns, SupInv, SupTypeOK, Parts
  <2>2. QED
      BY <1>0, <1>2, <2>1 DEF SupInv, SupTypeOK, tasks
<1>4. /\ NetworkStage' /\ ProtocolStage' /\ DroppedBesidePanic' /\ AnnouncedOnce'
      /\ MainWaitsForBoth'
  <2>1. CASE MainHears \/ MainHearsNothing
      BY <1>0, <1>2, <2>1, StagesKept DEF MainHears, MainHearsNothing, TaskMoves
  <2>2. CASE MainReturns
    <3>1. NetworkStage' /\ ProtocolStage' /\ DroppedBesidePanic'
        BY <1>0 DEF SupInv, NetworkStage, Spawned, NetworkJoining, NetworkLeft, ProtocolStage,
           ProtocolLeft, DroppedBesidePanic, Blame, Polled, task, tasks
    <3>2. QED
        BY <1>0, <2>2, <3>1 DEF MainReturns, SupInv, MainWaitsForBoth, AnnouncedOnce, Left
  <2>3. QED
      BY <2>1, <2>2 DEF MainWork
<1>5. FaultsLeaveTraces'
    BY <1>0 DEF SupInv, FaultsLeaveTraces, tasks
<1>6. QuietUntilFault'
  <2>1. faults # {}
      BY DEF MainWork, MainHears, MainHearsNothing, MainReturns, SupInv, QuietUntilFault,
             ServesUntilFault, SenderOf, Starting, Selecting, Thread
  <2>2. QED
      BY <1>0, <2>1 DEF QuietUntilFault
<1>7. QED
    BY <1>3, <1>4, <1>5, <1>6 DEF SupInv

-----------------------------------------------------------------------------
(* ThreadNetwork.                                                          *)

(* A step by which the network thread goes on to join, or leaves with an   *)
(* announcement, because of a fault somewhere.                             *)
LEMMA NetworkGoesOn ==
    ASSUME SupInv, UNCHANGED << main, protocol, tasks, ll_to_pm, faults >>, faults # {},
           network' \in ThreadState, told' \subseteq Parts,
           network.at \in {"selecting", "joining"},
           \/ network'.at = "joining" /\ exits' = exits
           \/ network'.at = "leaving" /\ exits' = Append(exits, "network"),
           NetworkStage'
    PROVE  SupInv'
<1>1. /\ exits \in Seq({"network", "protocol"}) /\ Len(exits) \in Nat
      /\ Len(exits) <= Left(protocol) /\ Left(protocol) \in {0, 1}
      /\ Left(protocol)' = Left(protocol)
    BY DEF SupInv, SupTypeOK, AnnouncedOnce, Left
<1>2. exits' \in Seq({"network", "protocol"}) /\ Len(exits') <= Left(network)' + Left(protocol)
  <2>1. CASE network'.at = "joining" /\ exits' = exits
      BY <1>1, <2>1 DEF Left
  <2>2. CASE network'.at = "leaving" /\ exits' = Append(exits, "network")
      BY <1>1, <2>2 DEF Left
  <2>3. QED
      BY <2>1, <2>2
<1>3. SupTypeOK'
  <2>1. Len(exits') <= 2
      BY <1>1, <1>2 DEF Left
  <2>2. QED
      BY <1>2, <2>1 DEF SupInv, SupTypeOK, tasks
<1>4. ProtocolStage'
    BY DEF SupInv, ProtocolStage, ProtocolLeft, Blame, task, tasks
<1>5. FaultsLeaveTraces'
    BY DEF SupInv, FaultsLeaveTraces, Returned, Thread, tasks
<1>6. DroppedBesidePanic' /\ MainWaitsForBoth' /\ QuietUntilFault'
    BY DEF SupInv, DroppedBesidePanic, MainWaitsForBoth, QuietUntilFault, tasks
<1>7. QED
    BY <1>1, <1>2, <1>3, <1>4, <1>5, <1>6 DEF SupInv, AnnouncedOnce

(* The trace of a fault: nothing has happened while there is none.         *)
LEMMA FaultBefore ==
    ASSUME SupInv, network.at \notin {"starting", "selecting"} \/ told # {}
                   \/ \E t \in NetworkTasks : Joinable(task[t])
    PROVE  faults # {}
BY DEF SupInv, QuietUntilFault, ServesUntilFault, Starting, Selecting, Thread, NetworkTasks,
       Joinable, Finished, task

(* The blame of two sets of tasks is the blame of their union.             *)
LEMMA BlameOfUnion ==
    ASSUME NEW A, NEW B
    PROVE  (UNION {Blame(t) : t \in A \cup B})
           = (UNION {Blame(t) : t \in A}) \cup (UNION {Blame(t) : t \in B})
OBVIOUS

(* The steps of the network thread's select! and joins.                    *)
LEMMA NetworkSteps ==
    ASSUME SupInv,
           \/ NetworkToldShutdown \/ NetworkJoins
           \/ \E t \in NetworkTasks : NetworkSeesEnd(t) \/ NetworkSeesPanic(t)
    PROVE  SupInv'
<1>0. SupTypeOK /\ NetworkStage
    BY DEF SupInv
<1>1. CASE NetworkToldShutdown
  <2>1. /\ network = Selecting /\ told # {} /\ Spawned
        /\ network' = Joining(NetworkTasks, {}) /\ UNCHANGED << tasks, faults >>
      BY <1>0, <1>1 DEF NetworkToldShutdown, NetworkTasks, NetworkStage, Starting, Selecting, Thread
  <2>2. NetworkStage'
      BY <2>1 DEF NetworkStage, NetworkJoining, Joining, Thread, Spawned, NetworkTasks, tasks
  <2>3. network' \in ThreadState /\ network'.at = "joining" /\ network.at = "selecting"
      BY <2>1 DEF ThreadState, Joining, Selecting, Thread, NetworkTasks
  <2>4. QED
      BY <1>0, <1>1, <2>1, <2>2, <2>3, FaultBefore, NetworkGoesOn
      DEF NetworkToldShutdown, SupTypeOK, Parts
<1>2. ASSUME NEW t \in NetworkTasks, NetworkSeesEnd(t) PROVE SupInv'
  <2>1. /\ network = Selecting /\ Spawned /\ Finished(task[t])
        /\ network' = Joining({Other(t)}, Blame(t)) /\ UNCHANGED << tasks, faults >>
      BY <1>0, <1>2 DEF NetworkSeesEnd, NetworkStage, Starting, Selecting, Thread
  <2>2. NetworkTasks \ {Other(t)} = {t} /\ {Other(t)} \in (SUBSET NetworkTasks) \ {{}}
      BY DEF NetworkTasks, Other
  <2>3. NetworkJoining'
    <3>1. network'.awaited = {Other(t)} /\ network'.blamed = Blame(t)
        BY <2>1 DEF Joining, Thread
    <3>2. Blame(t)' = Blame(t) /\ task' = task
        BY <2>1 DEF Blame, task, tasks
    <3>3. QED
        BY <2>1, <2>2, <3>1, <3>2 DEF NetworkJoining
  <2>4. network'.at = "joining" /\ network.at = "selecting" /\ Spawned'
      BY <2>1 DEF Joining, Selecting, Thread, Spawned, tasks
  <2>5. NetworkStage'
      BY <2>3, <2>4 DEF NetworkStage
  <2>6. network' \in ThreadState
      BY <2>1 DEF ThreadState, Joining, Thread, Blame, Other, NetworkTasks, Parts
  <2>7. QED
      BY <1>0, <1>2, <2>1, <2>4, <2>5, <2>6, FaultBefore, NetworkGoesOn
      DEF NetworkSeesEnd, SupTypeOK, Parts, Joinable, Other
<1>3. ASSUME NEW t \in NetworkTasks, NetworkSeesPanic(t) PROVE SupInv'
  <2>1. /\ network = Selecting /\ Spawned /\ task[t] = "panicked"
        /\ network' = Leaving({t}) /\ UNCHANGED << tasks, faults >>
      BY <1>0, <1>3 DEF NetworkSeesPanic, NetworkStage, Starting, Selecting, Thread
  <2>2. network'.at = "leaving" /\ network.at = "selecting" /\ network'.blamed = {t}
      BY <2>1 DEF Leaving, Selecting, Thread
  <2>3. NetworkStage'
      BY <2>1, <2>2 DEF NetworkStage, NetworkLeft, Spawned, task, tasks
  <2>4. network' \in ThreadState
      BY <2>1 DEF ThreadState, Leaving, Thread, NetworkTasks, Parts
  <2>5. QED
      BY <1>0, <1>3, <2>1, <2>2, <2>3, <2>4, FaultBefore, NetworkGoesOn
      DEF NetworkSeesPanic, SupTypeOK, Joinable
<1>4. CASE NetworkJoins
  <2>1. /\ network.at = "joining" /\ Spawned /\ NetworkJoining
        /\ \A t \in network.awaited : Joinable(task[t])
        /\ network' = Leaving(BlamedAtJoin) /\ UNCHANGED << tasks, faults >>
      BY <1>0, <1>4 DEF NetworkJoins, NetworkStage, Starting, Selecting, Thread
  <2>2. network'.at = "leaving" /\ network'.blamed = BlamedAtJoin
      BY <2>1 DEF Leaving, Thread
  <2>3. BlamedAtJoin \subseteq NetworkTasks
    <3>1. \A t : Blame(t) \subseteq {t}
        BY DEF Blame
    <3>2. network.awaited \subseteq NetworkTasks /\ network.blamed \subseteq NetworkTasks
        BY <2>1, <3>1 DEF NetworkJoining
    <3>3. UNION {Blame(t) : t \in network.awaited} \subseteq NetworkTasks
        BY <3>1, <3>2
    <3>4. (IF \E t \in network.awaited : task[t] = "panicked" THEN {} ELSE network.blamed)
            \subseteq NetworkTasks
        BY <3>2
    <3>5. QED
        BY <3>3, <3>4 DEF BlamedAtJoin
  <2>4. NetworkLeft'
    <3>1. CASE \E t \in network.awaited : task[t] = "panicked"
      <4>1. PICK t \in network.awaited : task[t] = "panicked"
          BY <3>1
      <4>2. t \in BlamedAtJoin /\ t \in NetworkTasks
          BY <2>1, <4>1 DEF BlamedAtJoin, Blame, NetworkJoining
      <4>3. QED
          BY <2>1, <2>2, <4>1, <4>2 DEF NetworkLeft, Spawned, task, tasks
    <3>2. CASE \A t \in network.awaited : task[t] # "panicked"
      <4>1. Finished(pm_task) /\ Finished(ll_task)
          BY <2>1, <3>2 DEF NetworkJoining, NetworkTasks, Joinable, task
      <4>2. BlamedAtJoin = (UNION {Blame(t) : t \in network.awaited})
                           \cup (UNION {Blame(t) : t \in NetworkTasks \ network.awaited})
          BY <2>1, <3>2 DEF BlamedAtJoin, NetworkJoining
      <4>3. network.awaited \subseteq NetworkTasks
          BY <2>1 DEF NetworkJoining
      <4>4. BlamedAtJoin = UNION {Blame(t) : t \in NetworkTasks}
        <5> DEFINE A == network.awaited
                   B == NetworkTasks \ network.awaited
        <5>1. A \cup B = NetworkTasks
            BY <4>3
        <5>2. (UNION {Blame(t) : t \in A \cup B})
              = (UNION {Blame(t) : t \in A}) \cup (UNION {Blame(t) : t \in B})
            BY BlameOfUnion
        <5>3. QED
            BY <4>2, <5>1, <5>2
      <4>5. BlamedAtJoin = Blame("pm") \cup Blame("ll")
          BY <4>4 DEF NetworkTasks
      <4>6. QED
          BY <2>1, <2>2, <4>1, <4>5 DEF NetworkLeft, Blame, task, tasks
    <3>3. QED
        BY <3>1, <3>2
  <2>5. NetworkStage'
      BY <2>1, <2>2, <2>4 DEF NetworkStage, Spawned, tasks
  <2>6. network' \in ThreadState
      BY <2>1, <2>3 DEF ThreadState, Leaving, Thread, NetworkTasks, Parts
  <2>7. QED
      BY <1>0, <1>4, <2>1, <2>2, <2>5, <2>6, FaultBefore, NetworkGoesOn DEF NetworkJoins, SupTypeOK
<1>5. QED
    BY <1>1, <1>2, <1>3, <1>4

(* The thread starts, fails to, or returns.                                *)
LEMMA NetworkEdges ==
    ASSUME SupInv, NetworkStarts \/ NetworkCannotStart \/ NetworkReturns
    PROVE  SupInv'
<1>0. SupTypeOK /\ NetworkStage /\ QuietUntilFault /\ FaultsLeaveTraces
    BY DEF SupInv
<1>1. UNCHANGED << main, exits, protocol, told, hm_task >> /\ faults \subseteq faults'
    BY DEF NetworkStarts, NetworkCannotStart, NetworkReturns, tasks, Fault
<1>2. ProtocolStage'
    BY <1>1 DEF SupInv, ProtocolStage, ProtocolLeft, Blame, task
<1>3. CASE NetworkStarts
  <2>1. pm_task = "none" /\ ll_task = "none" /\ UNCHANGED << ll_to_pm, faults >>
      BY <1>0, <1>3 DEF NetworkStarts, NetworkStage, Starting, Selecting, Returned, Thread
  <2>2. SupTypeOK'
      BY <1>0, <1>1, <1>3, <2>1 DEF NetworkStarts, SupTypeOK, ThreadState, Selecting, Thread
  <2>3. NetworkStage' /\ DroppedBesidePanic'
      BY <1>3 DEF NetworkStarts, NetworkStage, Spawned, DroppedBesidePanic
  <2>4. FaultsLeaveTraces'
      BY <1>0, <1>1, <1>3, <2>1 DEF NetworkStarts, FaultsLeaveTraces, Starting, Returned, Thread
  <2>5. AnnouncedOnce' /\ MainWaitsForBoth'
      BY <1>1, <1>3 DEF NetworkStarts, SupInv, AnnouncedOnce, MainWaitsForBoth, Left, Starting,
                        Selecting, Thread
  <2>6. QuietUntilFault'
      BY <1>0, <1>1, <1>3, <2>1 DEF NetworkStarts, QuietUntilFault, ServesUntilFault
  <2>7. QED
      BY <1>2, <2>2, <2>3, <2>4, <2>5, <2>6 DEF SupInv
<1>4. CASE NetworkCannotStart
  <2>1. /\ pm_task = "none" /\ ll_task = "none" /\ UNCHANGED << pm_task, ll_task, ll_to_pm >>
        /\ network' = Returned({"network"}) /\ faults' = faults \cup {"network"}
        /\ "network" \in Faults
      BY <1>0, <1>4 DEF NetworkCannotStart, NetworkStage, Starting, Selecting, Returned, Thread,
                        Fault, tasks
  <2>2. network' \in ThreadState /\ network'.at = "returned"
      BY <2>1 DEF ThreadState, Returned, Thread, Parts
  <2>3. SupTypeOK'
      BY <1>0, <1>1, <2>1, <2>2 DEF SupTypeOK
  <2>4. NetworkStage' /\ DroppedBesidePanic'
      BY <2>1, <2>2 DEF NetworkStage, NetworkLeft, DroppedBesidePanic, Alive
  <2>5. FaultsLeaveTraces'
      BY <1>0, <1>1, <2>1 DEF FaultsLeaveTraces
  <2>6. AnnouncedOnce' /\ MainWaitsForBoth'
      BY <1>0, <1>1, <1>4, <2>2 DEF NetworkCannotStart, SupInv, AnnouncedOnce, MainWaitsForBoth,
         Left, Starting, Thread, SupTypeOK
  <2>7. QuietUntilFault'
      BY <2>1 DEF QuietUntilFault
  <2>8. QED
      BY <1>2, <2>3, <2>4, <2>5, <2>6, <2>7 DEF SupInv
<1>5. CASE NetworkReturns
  <2>1. /\ network.at = "leaving" /\ Spawned /\ NetworkLeft /\ UNCHANGED faults
        /\ network' = Returned(network.blamed) /\ network'.at = "returned"
        /\ network'.blamed = network.blamed
        /\ pm_task' = Drop(pm_task) /\ ll_task' = Drop(ll_task) /\ ll_to_pm' = 0
      BY <1>0, <1>5 DEF NetworkReturns, NetworkStage, Starting, Selecting, Returned, Thread
  <2>2. network' \in ThreadState
      BY <1>0, <2>1 DEF SupTypeOK, ThreadState, Returned, Thread
  <2>3. SupTypeOK'
    <3>1. 0 \in 0..Backlog
        BY BacklogAssumption
    <3>2. QED
        BY <1>0, <1>1, <2>1, <2>2, <3>1 DEF SupTypeOK, Drop, Alive
  <2>4. NetworkLeft'
      BY <2>1 DEF NetworkLeft, NetworkTasks, Spawned, Returned, Thread, Drop, Alive, Finished,
                  Blame, task
  <2>5. NetworkStage'
      BY <2>1, <2>4 DEF NetworkStage, Drop, Alive
  <2>6. DroppedBesidePanic'
      BY <2>1 DEF DroppedBesidePanic, NetworkLeft, NetworkTasks, Spawned, Drop, Alive, Finished,
                  task
  <2>7. FaultsLeaveTraces'
      BY <1>0, <1>1, <2>1 DEF FaultsLeaveTraces, Returned, Thread, Drop, Alive
  <2>8. AnnouncedOnce' /\ MainWaitsForBoth'
      BY <1>1, <2>1 DEF SupInv, AnnouncedOnce, MainWaitsForBoth, Left
  <2>9. QuietUntilFault'
      BY <1>0, <2>1 DEF QuietUntilFault, ServesUntilFault, Starting, Selecting, Thread
  <2>10. QED
      BY <1>2, <2>3, <2>5, <2>6, <2>7, <2>8, <2>9 DEF SupInv
<1>6. QED
    BY <1>3, <1>4, <1>5

-----------------------------------------------------------------------------
(* ThreadProtocol: every step.                                             *)
LEMMA ProtocolSteps ==
    ASSUME SupInv, ProtocolWork \/ ProtocolCannotStart
    PROVE  SupInv'
<1> USE DEF ProtocolWork, ProtocolStarts, ProtocolToldShutdown, ProtocolSeesEnd,
            ProtocolSeesPanic, ProtocolReturns, ProtocolCannotStart
<1>0. SupTypeOK /\ ProtocolStage /\ QuietUntilFault /\ FaultsLeaveTraces /\ AnnouncedOnce
    BY DEF SupInv
<1>1. UNCHANGED << main, network, pm_task, ll_task, ll_to_pm >> /\ faults \subseteq faults'
    BY DEF tasks, Fault
<1>2. NetworkStage' /\ DroppedBesidePanic'
    BY <1>1 DEF SupInv, NetworkStage, Spawned, NetworkJoining, NetworkLeft, NetworkTasks,
       DroppedBesidePanic, Blame, task
<1>3. ProtocolStage'
  <2>1. CASE ProtocolStarts
      BY <2>1 DEF ProtocolStage
  <2>2. CASE ProtocolCannotStart
      BY <1>0, <2>2 DEF ProtocolStage, ProtocolLeft, Starting, Selecting, Returned, Thread, Fault,
                        tasks
  <2>3. CASE ProtocolToldShutdown
      BY <1>0, <2>3 DEF ProtocolStage, Starting, Selecting, Joining, Thread, tasks
  <2>4. CASE ProtocolSeesEnd \/ ProtocolSeesPanic
    <3>1. /\ Joinable(hm_task) /\ UNCHANGED << hm_task, faults >>
          /\ protocol' = Leaving(Blame("hm"))
      <4>1. CASE ProtocolSeesEnd
          BY <4>1 DEF Joinable, tasks
      <4>2. CASE ProtocolSeesPanic
          BY <4>2 DEF Joinable, Blame, task, tasks
      <4>3. QED
          BY <2>4, <4>1, <4>2
    <3>2. protocol'.at = "leaving" /\ protocol'.blamed = Blame("hm")
        BY <3>1 DEF Leaving, Thread
    <3>3. Blame("hm")' = Blame("hm") /\ Joinable(hm_task)'
        BY <3>1 DEF Blame, task, Joinable, Finished
    <3>4. QED
        BY <3>2, <3>3 DEF ProtocolStage, ProtocolLeft
  <2>5. CASE ProtocolReturns
    <3>1. ProtocolLeft
        BY <1>0, <2>5 DEF ProtocolStage, Starting, Selecting, Thread
    <3>2. protocol.at = "leaving" /\ protocol' = Returned(protocol.blamed) /\ UNCHANGED << hm_task, faults >>
        BY <2>5 DEF tasks
    <3>3. QED
        BY <3>1, <3>2 DEF ProtocolStage, ProtocolLeft, Returned, Thread, Blame, task
  <2>6. QED
      BY <2>1, <2>2, <2>3, <2>4, <2>5
<1>4. FaultsLeaveTraces'
    BY <1>0, <1>1 DEF FaultsLeaveTraces, ProtocolStage, Starting, Selecting, Returned, Thread,
                      Fault, tasks
<1>5. AnnouncedOnce' /\ Len(exits') <= 2 /\ exits' \in Seq({"network", "protocol"})
  <2>1. Len(exits) \in Nat /\ Left(network) \in {0, 1} /\ Left(network)' = Left(network)
      BY <1>0, <1>1 DEF SupTypeOK, Left
  <2>2. CASE exits' = exits /\ Left(protocol)' \in {Left(protocol), 1}
      BY <1>0, <2>1, <2>2 DEF AnnouncedOnce, SupTypeOK, Left
  <2>3. CASE exits' = Append(exits, "protocol") /\ Left(protocol) = 0 /\ Left(protocol)' = 1
      BY <1>0, <2>1, <2>3 DEF AnnouncedOnce, SupTypeOK
  <2>4. QED
      BY <2>2, <2>3 DEF Left, Starting, Selecting, Joining, Leaving, Returned, Thread
<1>6. SupTypeOK'
  <2>1. protocol' \in ThreadState
      BY <1>0 DEF SupTypeOK, ThreadState, Selecting, Joining, Leaving, Returned, Thread, Parts,
                  Blame
  <2>2. told' \subseteq Parts /\ faults' \subseteq Faults
      BY <1>0 DEF SupTypeOK, Parts, Fault
  <2>3. QED
      BY <1>0, <1>1, <1>5, <2>1, <2>2 DEF SupTypeOK, tasks
<1>7. MainWaitsForBoth'
    BY <1>1 DEF SupInv, MainWaitsForBoth, Starting, Selecting, Returned, Thread
<1>8. QuietUntilFault'
    BY <1>0, <1>1 DEF QuietUntilFault, ServesUntilFault, ProtocolStage, Starting, Selecting,
                      Thread, Finished, Fault, tasks
<1>9. QED
    BY <1>2, <1>3, <1>4, <1>5, <1>6, <1>7, <1>8 DEF SupInv

-----------------------------------------------------------------------------
(* The tasks.                                                              *)

(* A step of a task; a fault leaves the trace of that task.                *)
LEMMA TaskSteps ==
    ASSUME SupInv,
           \/ LLBinds \/ LLCannotBind \/ LLAccepts \/ LLSends \/ LLStops
           \/ PMReceives \/ PMTerminates \/ PMReturns \/ HMReturns \/ Panics
    PROVE  SupInv'
<1>0. /\ SupTypeOK /\ NetworkStage /\ ProtocolStage /\ FaultsLeaveTraces /\ QuietUntilFault
      /\ Backlog \in Nat /\ ll_to_pm \in 0..Backlog
    BY BacklogAssumption DEF SupInv, SupTypeOK
<1>1. /\ UNCHANGED << main, exits, network, protocol, told >>
      /\ faults \subseteq faults' /\ faults' \subseteq Faults
    BY <1>0 DEF LLBinds, LLCannotBind, LLAccepts, LLSends, LLStops, PMReceives, PMTerminates,
       PMReturns, HMReturns, Panics, Fault, SupTypeOK
<1>2. CASE LLBinds \/ LLAccepts \/ LLStops \/ LLCannotBind \/ LLSends
  <2>1. /\ Polled /\ ll_task \in {"binding", "running", "sending"} /\ UNCHANGED << pm_task, hm_task >>
        /\ ll_task' \in {"running", "sending", "ok", "err"}
      BY <1>2 DEF LLBinds, LLAccepts, LLStops, LLCannotBind, LLSends
  <2>2. TaskMoves
      BY <2>1 DEF TaskMoves, Alive
  <2>3. ll_to_pm' \in 0..Backlog
      BY <1>0, <1>2 DEF LLBinds, LLAccepts, LLStops, LLCannotBind, LLSends, BacklogHasRoom
  <2>4. SupTypeOK'
      BY <1>0, <1>1, <2>1, <2>3 DEF SupTypeOK
  <2>5. faults' = faults \/ (faults' = faults \cup {"bind"} /\ ll_task' = "err")
      BY <1>2 DEF LLBinds, LLAccepts, LLStops, LLCannotBind, LLSends, Fault
  <2>6. FaultsLeaveTraces'
      BY <1>0, <1>1, <2>1, <2>5 DEF FaultsLeaveTraces
  <2>7. QuietUntilFault'
    <3> SUFFICES ASSUME faults' = {}
                 PROVE  ServesUntilFault' /\ ll_task' \in {"none", "binding", "running", "sending"}
        BY DEF QuietUntilFault
    <3>1. faults = {} /\ ServesUntilFault /\ pm_task \in {"none", "running"} /\ told = {}
        BY <1>0, <1>1 DEF QuietUntilFault, ServesUntilFault
    <3>2. pm_task = "running"
        BY <1>0, <2>1, <3>1 DEF NetworkStage, Spawned, Polled, Starting, Thread
    <3>3. ~PMGone
        BY <3>2 DEF PMGone, Alive
    <3>4. ll_task' \in {"running", "sending"}
        BY <1>2, <2>5, <3>1, <3>3 DEF LLBinds, LLAccepts, LLStops, LLCannotBind, LLSends, Fault
    <3>5. QED
        BY <1>1, <2>1, <3>1, <3>4 DEF ServesUntilFault
  <2>8. QED
      BY <1>1, <2>2, <2>4, <2>6, <2>7, StagesKept, <1>0 DEF SupInv, SupTypeOK
<1>3. CASE PMReceives \/ PMTerminates \/ PMReturns
  <2>1. /\ Polled /\ pm_task \in {"running", "closing", "failing"}
        /\ UNCHANGED << ll_task, hm_task, faults >>
        /\ pm_task' \in {"running", "closing", "failing", "ok", "err"}
      BY <1>3 DEF PMReceives, PMTerminates, PMReturns, tasks
  <2>2. TaskMoves
      BY <2>1 DEF TaskMoves, Alive
  <2>3. ll_to_pm' \in 0..Backlog
      BY <1>0, <1>3 DEF PMReceives, PMTerminates, PMReturns
  <2>4. SupTypeOK'
      BY <1>0, <1>1, <2>1, <2>3 DEF SupTypeOK
  <2>5. FaultsLeaveTraces'
      BY <1>0, <1>1, <2>1 DEF FaultsLeaveTraces
  <2>6. QuietUntilFault'
    <3> SUFFICES ASSUME faults = {}
                 PROVE  ServesUntilFault' /\ ll_task' \in {"none", "binding", "running", "sending"}
        BY <2>1 DEF QuietUntilFault
    <3>1. /\ ServesUntilFault /\ pm_task = "running" /\ told = {}
          /\ ll_task \in {"none", "binding", "running", "sending"}
        BY <1>0, <2>1 DEF QuietUntilFault, ServesUntilFault
    <3>2. ~LLGone
        BY <1>0, <2>1, <3>1 DEF NetworkStage, Spawned, Polled, Starting, Thread, LLGone, Alive
    <3>3. ~HMGone
        BY <1>0, <3>1 DEF ProtocolStage, ServesUntilFault, Starting, Selecting, Thread, HMGone,
                          Alive
    <3>4. pm_task' = "running"
        BY <1>3, <3>1, <3>2, <3>3 DEF PMReceives, PMTerminates, PMReturns, tasks
    <3>5. QED
        BY <1>1, <2>1, <3>1, <3>4 DEF ServesUntilFault
  <2>7. QED
      BY <1>0, <1>1, <2>2, <2>4, <2>5, <2>6, StagesKept DEF SupInv, SupTypeOK
<1>4. CASE HMReturns
  <2>1. /\ hm_task = "running" /\ hm_task' \in {"ok", "err"} /\ ("hm" \in told \/ PMGone)
        /\ UNCHANGED << pm_task, ll_task, ll_to_pm, faults >>
      BY <1>4 DEF HMReturns
  <2>2. TaskMoves
    <3>1. Alive(hm_task) /\ hm_task' # "none"
        BY <2>1 DEF Alive
    <3>2. QED
        BY <2>1, <3>1 DEF TaskMoves
  <2>3. SupTypeOK'
      BY <1>0, <1>1, <2>1 DEF SupTypeOK
  <2>4. FaultsLeaveTraces'
      BY <1>0, <1>1, <2>1 DEF FaultsLeaveTraces
  <2>5. faults # {}
    <3> SUFFICES ASSUME faults = {} PROVE FALSE
        OBVIOUS
    <3>1. told = {} /\ network \in {Starting, Selecting} /\ pm_task \in {"none", "running"}
        BY <1>0 DEF QuietUntilFault, ServesUntilFault
    <3>2. PMGone
        BY <2>1, <3>1
    <3>3. network = Selecting /\ pm_task # "running"
        BY <3>1, <3>2 DEF PMGone, Alive
    <3>4. Spawned
        BY <1>0, <3>3 DEF NetworkStage, Starting, Selecting, Thread
    <3>5. QED
        BY <3>1, <3>3, <3>4 DEF Spawned
  <2>6. QED
      BY <1>0, <1>1, <2>1, <2>2, <2>3, <2>4, <2>5, StagesKept
      DEF SupInv, SupTypeOK, QuietUntilFault
<1>5. CASE Panics
  <2>1. \/ /\ Polled /\ Alive(pm_task) /\ pm_task' = "panicked" /\ faults' = faults \cup {"pm"}
           /\ UNCHANGED << ll_task, hm_task >>
        \/ /\ Polled /\ Alive(ll_task) /\ ll_task' = "panicked" /\ faults' = faults \cup {"ll"}
           /\ UNCHANGED << pm_task, hm_task >>
        \/ /\ Alive(hm_task) /\ hm_task' = "panicked" /\ faults' = faults \cup {"hm"}
           /\ UNCHANGED << pm_task, ll_task >>
      BY <1>5 DEF Panics, Fault
  <2>2. TaskMoves
      BY <2>1 DEF TaskMoves
  <2>3. ll_to_pm' \in 0..Backlog
      BY <1>0, <1>5 DEF Panics
  <2>4. SupTypeOK'
      BY <1>0, <1>1, <2>1, <2>3 DEF SupTypeOK
  <2>5. FaultsLeaveTraces'
      BY <1>0, <1>1, <2>1 DEF FaultsLeaveTraces, Alive
  <2>6. QuietUntilFault'
      BY <2>1 DEF QuietUntilFault
  <2>7. QED
      BY <1>0, <1>1, <2>2, <2>4, <2>5, <2>6, StagesKept DEF SupInv, SupTypeOK
<1>6. QED
    BY <1>2, <1>3, <1>4, <1>5

(* SupInv holds at the start.                                              *)
LEMMA SupInitInv ==
    ASSUME SupInit
    PROVE  SupInv
<1>1. SupTypeOK
    BY BacklogAssumption DEF SupInit, SupTypeOK, ThreadState, Starting, Thread
<1>2. NetworkStage /\ ProtocolStage /\ FaultsLeaveTraces /\ DroppedBesidePanic
    BY DEF SupInit, NetworkStage, ProtocolStage, FaultsLeaveTraces, DroppedBesidePanic
<1>3. AnnouncedOnce /\ MainWaitsForBoth /\ QuietUntilFault
    BY DEF SupInit, AnnouncedOnce, MainWaitsForBoth, QuietUntilFault, ServesUntilFault, Left,
           Starting, Thread
<1>4. QED
    BY <1>1, <1>2, <1>3 DEF SupInv

(* Every step preserves SupInv.                                            *)
LEMMA SupNextInv ==
    ASSUME SupInv, [SupNext]_supVars
    PROVE  SupInv'
<1>1. CASE UNCHANGED supVars
  <2>1. UNCHANGED << main, exits, network, protocol, told, tasks, ll_to_pm, faults >>
      BY <1>1 DEF supVars
  <2>2. Len(exits) <= Len(exits)
      BY DEF SupInv, SupTypeOK
  <2>3. /\ NetworkStage' /\ ProtocolStage' /\ DroppedBesidePanic' /\ AnnouncedOnce'
        /\ MainWaitsForBoth'
      BY <2>1, <2>2, StagesKept DEF TaskMoves
  <2>4. SupTypeOK' /\ FaultsLeaveTraces' /\ QuietUntilFault'
      BY <2>1 DEF SupInv, SupTypeOK, FaultsLeaveTraces, QuietUntilFault, ServesUntilFault, tasks
  <2>5. QED
      BY <2>3, <2>4 DEF SupInv
<1>2. CASE NetworkWork
    BY <1>2, NetworkSteps, NetworkEdges DEF NetworkWork, NetworkTasks
<1>3. CASE Over
    BY <1>1, <1>3 DEF Over
<1>4. QED
    BY <1>1, <1>2, <1>3, MainStep, NetworkEdges, ProtocolSteps, TaskSteps DEF SupNext

-----------------------------------------------------------------------------
(* The theorems.                                                           *)

(* SupInv is an invariant.                                                 *)
THEOREM SupInvariance == SupSpec => []SupInv
<1>1. SupInit => SupInv
    BY SupInitInv
<1>2. SupInv /\ [SupNext]_supVars => SupInv'
    BY SupNextInv
<1>3. QED
    BY <1>1, <1>2, PTL DEF SupSpec

(* Each thread announces its end to main at most once.                     *)
THEOREM SupTypeCorrect == SupSpec => []SupTypeOK
<1>1. SupInv => SupTypeOK
    BY DEF SupInv
<1>2. QED
    BY <1>1, SupInvariance, PTL

(* When main returns, the error names a part in which a fault occurred.    *)
THEOREM SupFaultIsNamed == SupSpec => []FaultIsNamed
<1>1. SupInv => FaultIsNamed
  <2> SUFFICES ASSUME SupInv, main = "returned"
               PROVE  \E f \in faults : PartOf(f) \in Result
      BY DEF FaultIsNamed
  <2>1. /\ network.at = "returned" /\ NetworkLeft
        /\ protocol.at = "returned" /\ ProtocolLeft
      BY DEF SupInv, MainWaitsForBoth, NetworkStage, ProtocolStage, Starting, Selecting, Thread
  <2>2. PICK f \in faults : TRUE
      BY DEF SupInv, QuietUntilFault, ServesUntilFault
  <2>3. f \in {"network", "protocol", "bind", "pm", "ll", "hm"}
      BY <2>2, FaultsAssumption DEF SupInv, SupTypeOK
  <2>4. CASE \E t \in NetworkTasks : task[t] = "panicked" /\ t \in network.blamed
      BY <2>4 DEF SupInv, FaultsLeaveTraces, NetworkTasks, PartOf, Result, task
  <2>5. CASE f \in {"network", "protocol"}
      BY <2>2, <2>5 DEF SupInv, FaultsLeaveTraces, PartOf, Result, Returned, Thread
  <2>6. CASE f = "hm"
      BY <2>1, <2>2, <2>6 DEF SupInv, FaultsLeaveTraces, ProtocolLeft, PartOf, Result, Blame, task
  <2>7. CASE f \in {"bind", "pm", "ll"} /\ network.blamed = Blame("pm") \cup Blame("ll")
      BY <2>2, <2>7 DEF SupInv, FaultsLeaveTraces, PartOf, Result, Blame, task
  <2>8. CASE f \in {"bind", "pm", "ll"} /\ pm_task = "none" /\ ll_task = "none"
      BY <2>2, <2>8 DEF SupInv, FaultsLeaveTraces
  <2>9. QED
      BY <2>1, <2>3, <2>4, <2>5, <2>6, <2>7, <2>8 DEF NetworkLeft
<1>2. QED
    BY <1>1, SupInvariance, PTL

(* Nothing is left running, or cut off but beside a panic.                 *)
THEOREM SupEndsAreAwaited == SupSpec => []EndsAreAwaited
<1>1. SupInv => EndsAreAwaited
  <2> SUFFICES ASSUME SupInv PROVE EndsAreAwaited
      OBVIOUS
  <2>1. network.at = "returned" => ~Alive(pm_task) /\ ~Alive(ll_task)
      BY DEF SupInv, NetworkStage, Starting, Selecting, Thread
  <2>2. protocol.at \in {"leaving", "returned"} => ~Alive(hm_task)
      BY DEF SupInv, ProtocolStage, ProtocolLeft, Starting, Selecting, Thread, Joinable,
             Finished, Alive
  <2>3. (pm_task = "dropped" => "ll" \in faults) /\ (ll_task = "dropped" => "pm" \in faults)
      BY DEF SupInv, DroppedBesidePanic, FaultsLeaveTraces
  <2>4. QED
      BY <2>1, <2>2, <2>3 DEF SupInv, MainWaitsForBoth, EndsAreAwaited
<1>2. QED
    BY <1>1, SupInvariance, PTL

(* Without a fault nothing ends.                                           *)
THEOREM SupServesUntilFault == SupSpec => []ServesUntilFault
<1>1. SupInv => ServesUntilFault
    BY DEF SupInv, QuietUntilFault, ServesUntilFault
<1>2. QED
    BY <1>1, SupInvariance, PTL
=============================================================================
