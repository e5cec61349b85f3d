---------------------------- MODULE Supervision ----------------------------
(***************************************************************************)
(* How the process ends: main, the two system threads and the tasks they   *)
(* spawn (src/src/main.rs, network/thread_network.rs,                      *)
(* protocol/thread_protocol.rs, network/looplisten.rs).                    *)
(*                                                                         *)
(* Each level waits for the first end below it, tells what still runs to   *)
(* stop, waits for it and reports upward; an error or a panic of a part    *)
(* reaches the others also by the channels it drops.  LoopListen is        *)
(* modelled in full, PeerManager and HandleMessage by what their           *)
(* supervisors see of them: when they may end, and with which result.      *)
(*                                                                         *)
(* Nothing in the program starts a shutdown at this commit (the sends of   *)
(* main are commented out), so every end begins with a fault: a runtime    *)
(* that cannot be built, a port that cannot be bound, a task that panics.  *)
(* A fault carries the name of its part, but for "bind".                   *)
(***************************************************************************)
EXTENDS Naturals, Sequences

CONSTANTS
    Backlog,    \* the bound of LoopListen's channel to PeerManager, 1024
    Faults      \* the faults that may occur

ASSUME BacklogAssumption == Backlog \in Nat \ {0}

ASSUME FaultsAssumption ==
    Faults \subseteq {"network", "protocol", "bind", "pm", "ll", "hm"}

VARIABLES
    main,       \* "waiting" for an end, "joining" the threads, "returned"
    exits,      \* the ExitCompletion events sent to main
    network,    \* ThreadNetwork
    protocol,   \* ThreadProtocol
    told,       \* the parts that have been sent Shutdown
    pm_task,    \* PeerManager
    ll_task,    \* LoopListen
    hm_task,    \* HandleMessage
    ll_to_pm,   \* connections queued for PeerManager
    faults      \* ghost: the faults that have occurred

tasks   == << pm_task, ll_task, hm_task >>
supVars == << main, exits, network, protocol, told, tasks, ll_to_pm, faults >>

(* A thread: where it is, the tasks it awaits, the parts it blames in the  *)
(* error it returns (none is Ok).                                          *)
Thread(at, awaited, blamed) == [at |-> at, awaited |-> awaited, blamed |-> blamed]

Starting       == Thread("starting", {}, {})
Selecting      == Thread("selecting", {}, {})
Joining(ts, b) == Thread("joining", ts, b)
Leaving(b)     == Thread("leaving", {}, b)      \* block_on is over
Returned(b)    == Thread("returned", {}, b)     \* its runtime is dropped too

task == [pm |-> pm_task, ll |-> ll_task, hm |-> hm_task]

Alive(s)    == s \in {"binding", "running", "sending", "closing", "failing"}
Finished(s) == s \in {"ok", "err"}
Joinable(s) == Finished(s) \/ s = "panicked"

Blame(t) == IF task[t] \in {"err", "panicked"} THEN {t} ELSE {}

(* The ends of the channels a task owns are dropped with it, or with the   *)
(* thread that never spawned it.                                           *)
PMGone == ~Alive(pm_task) /\ network # Starting
HMGone == ~Alive(hm_task) /\ protocol # Starting
LLGone == ~Alive(ll_task)

(* The runtime of the network thread runs its tasks on that thread, while  *)
(* it is in block_on.                                                      *)
Polled == network.at \in {"selecting", "joining"}

SupInit ==
    /\ main = "waiting"
    /\ exits = << >>
    /\ network = Starting /\ protocol = Starting
    /\ told = {}
    /\ pm_task = "none" /\ ll_task = "none" /\ hm_task = "none"
    /\ ll_to_pm = 0
    /\ faults = {}

Parts == {"network", "protocol", "pm", "ll", "hm"}

ThreadState ==
    [at : {"starting", "selecting", "joining", "leaving", "returned"},
     awaited : SUBSET {"pm", "ll", "hm"}, blamed : SUBSET Parts]

SupTypeOK ==
    /\ main \in {"waiting", "joining", "returned"}
    /\ exits \in Seq({"network", "protocol"}) /\ Len(exits) <= 2
    /\ network \in ThreadState /\ protocol \in ThreadState
    /\ told \subseteq Parts
    /\ pm_task \in {"none", "running", "closing", "failing", "ok", "err", "panicked", "dropped"}
    /\ ll_task \in {"none", "binding", "running", "sending", "ok", "err", "panicked", "dropped"}
    /\ hm_task \in {"none", "running", "ok", "err", "panicked"}
    /\ ll_to_pm \in 0..Backlog
    /\ faults \subseteq Faults

Fault(f) == f \in Faults /\ faults' = faults \cup {f}

-----------------------------------------------------------------------------
(* main.                                                                   *)

(* The first announcement: the other thread is told, whoever it is.        *)
MainHears ==
    /\ main = "waiting" /\ exits # << >>
    /\ told' = told \cup {IF Head(exits) = "network" THEN "protocol" ELSE "network"}
    /\ exits' = Tail(exits)
    /\ main' = "joining"
    /\ UNCHANGED << network, protocol, tasks, ll_to_pm, faults >>

SenderOf(thread) == thread.at \notin {"leaving", "returned"}

(* Mutant of MainHearsNothing: an empty channel is taken for a closed one. *)
MainDoesNotWait ==
    /\ main = "waiting" /\ exits = << >>
    /\ main' = "joining"
    /\ UNCHANGED << exits, network, protocol, told, tasks, ll_to_pm, faults >>

(* Both senders are dropped and nothing was announced.                     *)
MainHearsNothing ==
    /\ main = "waiting" /\ exits = << >>
    /\ ~SenderOf(network) /\ ~SenderOf(protocol)
    /\ main' = "joining"
    /\ UNCHANGED << exits, network, protocol, told, tasks, ll_to_pm, faults >>

MainReturns ==
    /\ main = "joining" /\ network.at = "returned" /\ protocol.at = "returned"
    /\ main' = "returned"
    /\ UNCHANGED << exits, network, protocol, told, tasks, ll_to_pm, faults >>

(* ErrorInit: main merges the errors of the two threads.                   *)
Result == network.blamed \cup protocol.blamed

-----------------------------------------------------------------------------
(* ThreadNetwork.                                                          *)

NetworkStarts ==
    /\ network = Starting
    /\ network' = Selecting
    /\ pm_task' = "running" /\ ll_task' = "binding"
    /\ UNCHANGED << main, exits, protocol, told, hm_task, ll_to_pm, faults >>

(* `?` on the runtime: returned without a word to main.                    *)
NetworkCannotStart ==
    /\ network = Starting /\ Fault("network")
    /\ network' = Returned({"network"})
    /\ UNCHANGED << main, exits, protocol, told, tasks, ll_to_pm >>

NetworkToldShutdown ==
    /\ network = Selecting /\ "network" \in told
    /\ told' = told \cup {"pm", "ll"}
    /\ network' = Joining({"pm", "ll"}, {})
    /\ UNCHANGED << main, exits, protocol, tasks, ll_to_pm, faults >>

Other(t) == IF t = "pm" THEN "ll" ELSE "pm"

(* Mutants of NetworkSeesEnd: the other task is not told; not awaited.     *)
NetworkSeesEndSilently(t) ==
    /\ network = Selecting /\ Finished(task[t])
    /\ network' = Joining({Other(t)}, Blame(t))
    /\ UNCHANGED << main, exits, protocol, told, tasks, ll_to_pm, faults >>

NetworkSeesEndInHaste(t) ==
    /\ network = Selecting /\ Finished(task[t])
    /\ told' = told \cup {Other(t)}
    /\ network' = Leaving(Blame(t))
    /\ exits' = Append(exits, "network")
    /\ UNCHANGED << main, protocol, tasks, ll_to_pm, faults >>

(* A task returned: the other one is told and awaited.                     *)
NetworkSeesEnd(t) ==
    /\ network = Selecting /\ Finished(task[t])
    /\ told' = told \cup {Other(t)}
    /\ network' = Joining({Other(t)}, Blame(t))
    /\ UNCHANGED << main, exits, protocol, tasks, ll_to_pm, faults >>

(* A task panicked: announced at once, the other one is left to the drop   *)
(* of the runtime.                                                         *)
NetworkSeesPanic(t) ==
    /\ network = Selecting /\ task[t] = "panicked"
    /\ network' = Leaving({t})
    /\ exits' = Append(exits, "network")
    /\ UNCHANGED << main, protocol, told, tasks, ll_to_pm, faults >>

(* Mutant of BlamedAtJoin: only what was known before is reported.         *)
BlamedBeforeJoin == network.blamed

(* What is reported after the join: an awaited task that panicked is       *)
(* reported alone, the error of the one that returned first is lost.       *)
BlamedAtJoin ==
    (UNION {Blame(t) : t \in network.awaited})
    \cup (IF \E t \in network.awaited : task[t] = "panicked" THEN {} ELSE network.blamed)

NetworkJoins ==
    /\ network.at = "joining" /\ \A t \in network.awaited : Joinable(task[t])
    /\ network' = Leaving(BlamedAtJoin)
    /\ exits' = Append(exits, "network")
    /\ UNCHANGED << main, protocol, told, tasks, ll_to_pm, faults >>

Drop(s) == IF Alive(s) THEN "dropped" ELSE s

NetworkReturns ==
    /\ network.at = "leaving"
    /\ network' = Returned(network.blamed)
    /\ pm_task' = Drop(pm_task) /\ ll_task' = Drop(ll_task)
    /\ ll_to_pm' = 0
    /\ UNCHANGED << main, exits, protocol, told, hm_task, faults >>

-----------------------------------------------------------------------------
(* ThreadProtocol.                                                         *)

ProtocolStarts ==
    /\ protocol = Starting
    /\ protocol' = Selecting
    /\ hm_task' = "running"
    /\ UNCHANGED << main, exits, network, told, pm_task, ll_task, ll_to_pm, faults >>

ProtocolCannotStart ==
    /\ protocol = Starting /\ Fault("protocol")
    /\ protocol' = Returned({"protocol"})
    /\ UNCHANGED << main, exits, network, told, tasks, ll_to_pm >>

ProtocolToldShutdown ==
    /\ protocol = Selecting /\ "protocol" \in told
    /\ told' = told \cup {"hm"}
    /\ protocol' = Joining({"hm"}, {})
    /\ UNCHANGED << main, exits, network, tasks, ll_to_pm, faults >>

(* HandleMessage is done, or joined after Shutdown; both are announced.    *)
ProtocolSeesEnd ==
    /\ \/ protocol = Selecting /\ Finished(hm_task)
       \/ protocol.at = "joining" /\ Joinable(hm_task)
    /\ protocol' = Leaving(Blame("hm"))
    /\ exits' = Append(exits, "protocol")
    /\ UNCHANGED << main, network, told, tasks, ll_to_pm, faults >>

(* The one arm that announces nothing.                                     *)
ProtocolSeesPanic ==
    /\ protocol = Selecting /\ hm_task = "panicked"
    /\ protocol' = Leaving({"hm"})
    /\ UNCHANGED << main, exits, network, told, tasks, ll_to_pm, faults >>

(* HandleMessage is over in every arm: there is nothing to drop.           *)
ProtocolReturns ==
    /\ protocol.at = "leaving"
    /\ protocol' = Returned(protocol.blamed)
    /\ UNCHANGED << main, exits, network, told, tasks, ll_to_pm, faults >>

-----------------------------------------------------------------------------
(* LoopListen.                                                             *)

LLBinds ==
    /\ Polled /\ ll_task = "binding"
    /\ ll_task' = "running"
    /\ UNCHANGED << main, exits, network, protocol, told, pm_task, hm_task, ll_to_pm, faults >>

LLCannotBind ==
    /\ Polled /\ ll_task = "binding" /\ Fault("bind")
    /\ ll_task' = "err"
    /\ UNCHANGED << main, exits, network, protocol, told, pm_task, hm_task, ll_to_pm >>

LLAccepts ==
    /\ Polled /\ ll_task = "running"
    /\ ll_task' = "sending"
    /\ UNCHANGED << main, exits, network, protocol, told, pm_task, hm_task, ll_to_pm, faults >>

(* Mutant of BacklogHasRoom: one connection too many.                      *)
BacklogHasRoomForOneMore == ll_to_pm <= Backlog

BacklogHasRoom == ll_to_pm < Backlog

(* While it waits for room it does not look at its supervisor's channel.   *)
LLSends ==
    /\ Polled /\ ll_task = "sending"
    /\ \/ ~PMGone /\ BacklogHasRoom /\ ll_task' = "running" /\ ll_to_pm' = ll_to_pm + 1
       \/ PMGone /\ ll_task' = "err" /\ UNCHANGED ll_to_pm
    /\ UNCHANGED << main, exits, network, protocol, told, pm_task, hm_task, faults >>

LLStops ==
    /\ Polled /\ ll_task = "running" /\ "ll" \in told
    /\ ll_task' = "ok"
    /\ UNCHANGED << main, exits, network, protocol, told, pm_task, hm_task, ll_to_pm, faults >>

-----------------------------------------------------------------------------
(* PeerManager and HandleMessage, as their supervisors see them.           *)

PMReceives ==
    /\ Polled /\ pm_task = "running" /\ ll_to_pm > 0
    /\ ll_to_pm' = ll_to_pm - 1
    /\ UNCHANGED << main, exits, network, protocol, told, tasks, faults >>

(* The loop is left; the Peers are told and awaited before run returns.    *)
PMTerminates ==
    /\ Polled /\ pm_task = "running"
    /\ \/ "pm" \in told /\ pm_task' = "closing"
       \/ ((LLGone /\ ll_to_pm = 0) \/ HMGone) /\ pm_task' = "failing"
    /\ UNCHANGED << main, exits, network, protocol, told, ll_task, hm_task, ll_to_pm, faults >>

PMReturns ==
    /\ Polled
    /\ \/ pm_task = "closing" /\ pm_task' = "ok"
       \/ pm_task = "failing" /\ pm_task' = "err"
    /\ ll_to_pm' = 0
    /\ UNCHANGED << main, exits, network, protocol, told, ll_task, hm_task, faults >>

HMReturns ==
    /\ hm_task = "running"
    /\ \/ "hm" \in told /\ hm_task' = "ok"
       \/ PMGone /\ hm_task' = "err"
    /\ UNCHANGED << main, exits, network, protocol, told, pm_task, ll_task, ll_to_pm, faults >>

(* A panic is caught at the task; what the task owned is dropped.          *)
Panics ==
    \/ /\ Polled /\ Alive(pm_task) /\ Fault("pm")
       /\ pm_task' = "panicked" /\ ll_to_pm' = 0
       /\ UNCHANGED << main, exits, network, protocol, told, ll_task, hm_task >>
    \/ /\ Polled /\ Alive(ll_task) /\ Fault("ll")
       /\ ll_task' = "panicked"
       /\ UNCHANGED << main, exits, network, protocol, told, pm_task, hm_task, ll_to_pm >>
    \/ /\ Alive(hm_task) /\ Fault("hm")
       /\ hm_task' = "panicked"
       /\ UNCHANGED << main, exits, network, protocol, told, pm_task, ll_task, ll_to_pm >>

-----------------------------------------------------------------------------
MainWork == MainHears \/ MainHearsNothing \/ MainReturns

NetworkWork ==
    \/ NetworkStarts \/ NetworkToldShutdown
    \/ \E t \in {"pm", "ll"} : NetworkSeesEnd(t) \/ NetworkSeesPanic(t)
    \/ NetworkJoins \/ NetworkReturns

ProtocolWork ==
    \/ ProtocolStarts \/ ProtocolToldShutdown
    \/ ProtocolSeesEnd \/ ProtocolSeesPanic \/ ProtocolReturns

Over == main = "returned" /\ UNCHANGED supVars

SupNext ==
    \/ MainWork \/ NetworkWork \/ ProtocolWork
    \/ NetworkCannotStart \/ ProtocolCannotStart
    \/ LLBinds \/ LLCannotBind \/ LLAccepts \/ LLSends \/ LLStops
    \/ PMReceives \/ PMTerminates \/ PMReturns \/ HMReturns
    \/ Panics \/ Over

SupSpec == SupInit /\ [][SupNext]_supVars

(* A thread or task that can go on does: nothing is asked of remotes (no   *)
(* connection need ever be accepted) and of faults.  Weak fairness is      *)
(* enough for LLStops too, whose select! may prefer a connection: when     *)
(* LoopListen is told, PeerManager ends in any case and its channel with   *)
(* it, so that accepting cannot go on for ever.  That PeerManager and      *)
(* HandleMessage return once they can is what the run system shows of      *)
(* the actors.                                                             *)
SupFairness ==
    /\ WF_supVars(MainWork)
    /\ WF_supVars(NetworkWork)
    /\ WF_supVars(ProtocolWork)
    /\ WF_supVars(LLBinds) /\ WF_supVars(LLSends) /\ WF_supVars(LLStops)
    /\ WF_supVars(PMReceives) /\ WF_supVars(PMTerminates) /\ WF_supVars(PMReturns)
    /\ WF_supVars(HMReturns)

SupLiveSpec == SupSpec /\ SupFairness
-----------------------------------------------------------------------------
(* Properties.                                                             *)

PartOf(f) == IF f = "bind" THEN "ll" ELSE f

(* Whatever faults occur, in whatever order the two ends, the Shutdown of  *)
(* main and the closed channels are noticed, main returns an error, and    *)
(* the error names a part in which a fault occurred, not merely one that   *)
(* ended because of it.                                                    *)
FaultIsNamed ==
    main = "returned" => \E f \in faults : PartOf(f) \in Result

(* Once main is returning, nothing runs on; and PeerManager, which owns    *)
(* every Peer, is cut off at an await only if LoopListen panicked, and the *)
(* other way round: every other end is awaited.                            *)
EndsAreAwaited ==
    /\ main = "returned" => ~Alive(pm_task) /\ ~Alive(ll_task) /\ ~Alive(hm_task)
    /\ pm_task = "dropped" => "ll" \in faults
    /\ ll_task = "dropped" => "pm" \in faults
    /\ protocol.at \in {"leaving", "returned"} => ~Alive(hm_task)

(* Until a fault occurs nothing ends and nobody is told to: there is no    *)
(* end without an error.                                                   *)
ServesUntilFault ==
    faults = {} =>
        /\ main = "waiting" /\ exits = << >> /\ told = {}
        /\ network \in {Starting, Selecting} /\ protocol \in {Starting, Selecting}
        /\ pm_task \in {"none", "running"} /\ hm_task \in {"none", "running"}

(* After a fault the process ends, with both threads joined: although one  *)
(* arm and both failures to build a runtime are not announced, LoopListen  *)
(* may be waiting for room in a channel nobody reads, and what still runs  *)
(* is told by only one of several ways.                                    *)
ProcessEnds == (faults # {}) ~> (main = "returned")
=============================================================================
