---------------------------- MODULE PeerManager ----------------------------
(***************************************************************************)
(* The PeerManager actor (src/src/network/peermanager.rs): it numbers the  *)
(* connections, keeps the registry of the channels to their Peer tasks,    *)
(* forwards messages between the Peers and HandleMessage, and on           *)
(* termination stops every Peer and joins it.                              *)
(*                                                                         *)
(* The task is one loop around a select!.  Every `.await` at which it can  *)
(* wait is a state of its own in pm: while the task waits there it         *)
(* receives nothing, which is what makes full channels matter.             *)
(*                                                                         *)
(* PMSpec runs the actor against the most general surroundings (PMEnv),    *)
(* so what holds of PMSpec holds of every composition that implements it.  *)
(***************************************************************************)
EXTENDS Channels

VARIABLES
    peerid,         \* the number the next connection gets
    set_task_peers, \* the JoinSet: Peer tasks spawned and not yet joined
    pm,             \* where the task is
    tn_to_pm,       \* ThreadNetwork's channel: "open", "shutdown" queued, "closed"
    ll_up           \* LoopListen holds its sender or a connection of its is queued

pmOwn  == << peerid, set_task_peers, set_id_peers, pm >>
pmEnv  == << tn_to_pm, ll_up >>
pmVars == << pmOwn, pmEnv, chanVars >>

Reason == {"shutdown", "threadnetwork_closed", "looplisten_closed", "protocol_closed"}

Loop           == [at |-> "loop"]
ToProtocol(e)  == [at |-> "to_protocol", event |-> e]
ToPeer(p, e)   == [at |-> "to_peer", peerid |-> p, event |-> e]
Bulk(r, todo)  == [at |-> "bulk", reason |-> r, todo |-> todo]
BulkTo(r, todo, p) == [at |-> "bulk_to", reason |-> r, todo |-> todo, peerid |-> p]
Drain(r)       == [at |-> "drain", reason |-> r]
Done(r)        == [at |-> "done", reason |-> r]

PMControl ==
    {Loop}
    \cup [at : {"to_protocol"}, event : EventsToHandleMessage]
    \cup [at : {"to_peer"}, peerid : PeerId, event : EventsToPeer]
    \cup [at : {"bulk"}, reason : Reason, todo : SUBSET PeerId]
    \cup [at : {"bulk_to"}, reason : Reason, todo : SUBSET PeerId, peerid : PeerId]
    \cup [at : {"drain", "done"}, reason : Reason]

PMInit ==
    /\ ChanInit
    /\ peerid = 1
    /\ set_task_peers = {}
    /\ pm = Loop
    /\ tn_to_pm = "open"
    /\ ll_up = TRUE

PMTypeOK ==
    /\ ChanTypeOK
    /\ peerid \in PeerId
    /\ set_task_peers \subseteq Conns
    /\ pm \in PMControl
    /\ tn_to_pm \in {"open", "shutdown", "closed"}
    /\ ll_up \in BOOLEAN

-----------------------------------------------------------------------------
(* A connection reaches PeerManager.                                       *)

(* The number of a new connection, read before the counter is advanced.    *)
(* Mutants: the counter is advanced too late, or too early.                *)
NumberTooLate  == IF peerid = 1 THEN 1 ELSE peerid - 1
NumberTooEarly == peerid + 1

NextNumber == peerid

(* Peer::create succeeded: the id is taken, the task spawned and both      *)
(* maps written before the next .await, which announces the connection.    *)
(* The insert into the registry drops the sender an equal id had there.    *)
AddPeer(c) ==
    /\ peerid' = peerid + 1
    /\ set_task_peers' = set_task_peers \cup {c}
    /\ running_peers' = running_peers \cup {c}
    /\ set_all_peers' = Insert(set_all_peers, NextNumber, c)
    /\ set_id_peers' = Insert(set_id_peers, c, NextNumber)
    /\ pm' = ToProtocol(NewConnection(NextNumber, c))
    /\ UNCHANGED << channels, pm_up, hm_up, pmEnv >>

NotSeen(c) == c \notin DOMAIN set_id_peers

IncomingConnection(c) ==
    /\ pm = Loop /\ ll_up /\ c \in Incoming /\ NotSeen(c)
    /\ AddPeer(c)

(* The TcpStream::connect before it is awaited in the loop: PeerManager    *)
(* receives nothing meanwhile, and nothing is changed when it fails.       *)
OutgoingConnection(c) ==
    /\ pm = Loop /\ tn_to_pm = "open" /\ c \in Outgoing /\ NotSeen(c)
    /\ AddPeer(c)

(* Peer::create fails when the socket has no address any more: the number  *)
(* taken is given back.                                                    *)
(* Mutant: given back although it was never taken.                         *)
NumberGivenBackTwice == peerid - 1

NumberGivenBack == (peerid + 1) - 1

CreateFails(c) ==
    /\ pm = Loop /\ NotSeen(c)
    /\ \/ c \in Incoming /\ ll_up
       \/ c \in Outgoing /\ tn_to_pm = "open"
    /\ peerid' = NumberGivenBack
    /\ UNCHANGED << set_task_peers, set_id_peers, pm, pmEnv, chanVars >>

-----------------------------------------------------------------------------
(* Forwarding.                                                             *)

(* HandleMessage wants p sent a message, or ended; an id that is not in    *)
(* the registry is ignored.                                                *)
ReceiveFromProtocol ==
    /\ pm = Loop /\ hm_to_pm # << >>
    /\ hm_to_pm' = Tail(hm_to_pm)
    /\ LET e == Head(hm_to_pm) IN
       pm' = IF e.peerid \notin DOMAIN set_all_peers THEN Loop
             ELSE ToPeer(e.peerid, IF e.type = "ReadyMessage"
                                   THEN ReadyLowMessage(e.message) ELSE Shutdown)
    /\ UNCHANGED << peerid, set_task_peers, set_id_peers, pmEnv,
                    pm_to_hm, peer_to_pm, pm_to_peer, pm_up, hm_up,
                    running_peers, set_all_peers >>

(* The send to the Peer registered under pm.peerid.  A Peer that is gone   *)
(* loses its entry when the event was a message, keeps it when it was      *)
(* Shutdown.                                                               *)
SendPeer ==
    /\ pm.at = "to_peer"
    /\ LET c == set_all_peers[pm.peerid] IN
       \/ /\ c \in running_peers /\ HasRoom(pm_to_peer[c])
          /\ pm_to_peer' = [pm_to_peer EXCEPT ![c] = Append(@, pm.event)]
          /\ UNCHANGED set_all_peers
       \/ /\ c \notin running_peers
          /\ set_all_peers' = IF pm.event = Shutdown THEN set_all_peers
                              ELSE Remove(set_all_peers, pm.peerid)
          /\ UNCHANGED pm_to_peer
    /\ pm' = Loop
    /\ UNCHANGED << peerid, set_task_peers, set_id_peers, pmEnv,
                    pm_to_hm, hm_to_pm, peer_to_pm, pm_up, hm_up, running_peers >>

ReceiveFromPeer ==
    /\ pm = Loop /\ peer_to_pm # << >>
    /\ peer_to_pm' = Tail(peer_to_pm)
    /\ pm' = ToProtocol(Head(peer_to_pm))
    /\ UNCHANGED << peerid, set_task_peers, set_id_peers, pmEnv,
                    pm_to_hm, hm_to_pm, pm_to_peer, pm_up, hm_up,
                    running_peers, set_all_peers >>

(* The send to HandleMessage; when that is gone PeerManager terminates.    *)
SendProtocol ==
    /\ pm.at = "to_protocol"
    /\ \/ /\ hm_up /\ HasRoom(pm_to_hm)
          /\ pm_to_hm' = Append(pm_to_hm, pm.event)
          /\ pm' = Loop
       \/ /\ ~hm_up
          /\ pm' = Bulk("protocol_closed", DOMAIN set_all_peers)
          /\ UNCHANGED pm_to_hm
    /\ UNCHANGED << peerid, set_task_peers, set_id_peers, pmEnv,
                    hm_to_pm, peer_to_pm, pm_to_peer, pm_up, hm_up,
                    running_peers, set_all_peers >>

-----------------------------------------------------------------------------
(* A Peer task that returned is joined.  Whatever it returned, its id      *)
(* leaves the registry and the counter goes back by one.                   *)
(* Mutants: the entry stays; the counter stays.                            *)
RegistryStays(c)   == set_all_peers
NumberAfterJoinStays == peerid

RegistryWithout(c) == Remove(set_all_peers, set_id_peers[c])
NumberAfterJoin    == peerid - 1

Join(c) ==
    /\ c \in set_task_peers \ running_peers
    /\ set_task_peers' = set_task_peers \ {c}
    /\ set_all_peers' = RegistryWithout(c)
    /\ peerid' = NumberAfterJoin
    /\ UNCHANGED << set_id_peers, pmEnv, channels, pm_up, hm_up, running_peers >>

JoinPeer(c) ==
    /\ pm = Loop
    /\ Join(c)
    /\ pm' = ToProtocol(CompletedPeer(set_id_peers[c]))

-----------------------------------------------------------------------------
(* Termination.                                                            *)

(* Mutant of ShutdownReason: the None of HandleMessage is passed over.     *)
ShutdownReasonDeaf(r) ==
    \/ r = "shutdown" /\ tn_to_pm = "shutdown"
    \/ r = "threadnetwork_closed" /\ tn_to_pm = "closed"
    \/ r = "looplisten_closed" /\ ~ll_up

ShutdownReason(r) ==
    \/ r = "shutdown" /\ tn_to_pm = "shutdown"
    \/ r = "threadnetwork_closed" /\ tn_to_pm = "closed"
    \/ r = "looplisten_closed" /\ ~ll_up
    \/ r = "protocol_closed" /\ ~hm_up /\ hm_to_pm = << >>

Terminate(r) ==
    /\ pm = Loop /\ ShutdownReason(r)
    /\ pm' = Bulk(r, DOMAIN set_all_peers)
    /\ UNCHANGED << peerid, set_task_peers, set_id_peers, pmEnv, chanVars >>

(* bulk_peer_disconnection visits the registry in the order of the         *)
(* HashMap, which is arbitrary, and waits at each entry.                   *)
BulkPick(p) ==
    /\ pm.at = "bulk" /\ p \in pm.todo
    /\ pm' = BulkTo(pm.reason, pm.todo \ {p}, p)
    /\ UNCHANGED << peerid, set_task_peers, set_id_peers, pmEnv, chanVars >>

BulkSend ==
    /\ pm.at = "bulk_to"
    /\ LET c == set_all_peers[pm.peerid] IN
       \/ /\ c \in running_peers /\ HasRoom(pm_to_peer[c])
          /\ pm_to_peer' = [pm_to_peer EXCEPT ![c] = Append(@, Shutdown)]
       \/ c \notin running_peers /\ UNCHANGED pm_to_peer
    /\ pm' = Bulk(pm.reason, pm.todo)
    /\ UNCHANGED << peerid, set_task_peers, set_id_peers, pmEnv,
                    pm_to_hm, hm_to_pm, peer_to_pm, pm_up, hm_up,
                    running_peers, set_all_peers >>

(* Mutant: the last entry is left out.                                     *)
BulkEndEarly ==
    /\ pm.at = "bulk" /\ Cardinality(pm.todo) <= 1
    /\ pm' = Drain(pm.reason)
    /\ UNCHANGED << peerid, set_task_peers, set_id_peers, pmEnv, chanVars >>

BulkEnd ==
    /\ pm.at = "bulk" /\ pm.todo = {}
    /\ pm' = Drain(pm.reason)
    /\ UNCHANGED << peerid, set_task_peers, set_id_peers, pmEnv, chanVars >>

(* `while let Some(..) = join_next().await`, nothing is announced.         *)
DrainPeer(c) ==
    /\ pm.at = "drain"
    /\ Join(c)
    /\ UNCHANGED pm

(* Mutants of PMReturn: the Peers are not awaited; every end is Ok.        *)
PMReturnInHaste ==
    /\ pm.at = "drain"
    /\ pm' = Done(pm.reason)
    /\ pm_up' = FALSE
    /\ hm_to_pm' = << >> /\ peer_to_pm' = << >>
    /\ set_all_peers' = << >>
    /\ UNCHANGED << peerid, set_task_peers, set_id_peers, pmEnv,
                    pm_to_hm, pm_to_peer, hm_up, running_peers >>

PMReturnOk ==
    /\ pm.at = "drain" /\ set_task_peers = {}
    /\ pm' = Done("shutdown")
    /\ pm_up' = FALSE
    /\ hm_to_pm' = << >> /\ peer_to_pm' = << >>
    /\ set_all_peers' = << >>
    /\ UNCHANGED << peerid, set_task_peers, set_id_peers, pmEnv,
                    pm_to_hm, pm_to_peer, hm_up, running_peers >>

(* The JoinSet is empty: run returns and its ends of the channels drop.    *)
PMReturn ==
    /\ pm.at = "drain" /\ set_task_peers = {}
    /\ pm' = Done(pm.reason)
    /\ pm_up' = FALSE
    /\ hm_to_pm' = << >> /\ peer_to_pm' = << >>
    /\ set_all_peers' = << >>
    /\ UNCHANGED << peerid, set_task_peers, set_id_peers, pmEnv,
                    pm_to_hm, pm_to_peer, hm_up, running_peers >>

PMNext ==
    \/ \E c \in Conns : \/ IncomingConnection(c) \/ OutgoingConnection(c)
                        \/ CreateFails(c) \/ JoinPeer(c) \/ DrainPeer(c)
    \/ ReceiveFromProtocol \/ SendPeer
    \/ ReceiveFromPeer \/ SendProtocol
    \/ \E r \in Reason : Terminate(r)
    \/ \E p \in DOMAIN set_all_peers : BulkPick(p)
    \/ BulkSend \/ BulkEnd \/ PMReturn
-----------------------------------------------------------------------------
(* The surroundings: what the code around PeerManager may do to the        *)
(* channels and flags it sees.  None of it touches pmOwn.                  *)

EnvHandleMessageReceives ==
    /\ hm_up /\ pm_to_hm # << >>
    /\ pm_to_hm' = Tail(pm_to_hm)
    /\ UNCHANGED << pmOwn, pmEnv, hm_to_pm, peer_to_pm, pm_to_peer,
                    pm_up, hm_up, running_peers, set_all_peers >>

(* HandleMessage answers under the id a connection was announced with.     *)
EnvHandleMessageSends(m) ==
    /\ hm_up /\ pm_up /\ HasRoom(hm_to_pm)
    /\ m.conn \in DOMAIN set_id_peers
    /\ \/ hm_to_pm' = Append(hm_to_pm, ReadyMessage(set_id_peers[m.conn], m))
       \/ hm_to_pm' = Append(hm_to_pm, Violent(set_id_peers[m.conn], m.conn))
    /\ UNCHANGED << pmOwn, pmEnv, pm_to_hm, peer_to_pm, pm_to_peer,
                    pm_up, hm_up, running_peers, set_all_peers >>

EnvHandleMessageReturns ==
    /\ hm_up
    /\ hm_up' = FALSE
    /\ pm_to_hm' = << >>
    /\ UNCHANGED << pmOwn, pmEnv, hm_to_pm, peer_to_pm, pm_to_peer,
                    pm_up, running_peers, set_all_peers >>

EnvPeerReceives(c) ==
    /\ c \in running_peers /\ pm_to_peer[c] # << >>
    /\ pm_to_peer' = [pm_to_peer EXCEPT ![c] = Tail(@)]
    /\ UNCHANGED << pmOwn, pmEnv, pm_to_hm, hm_to_pm, peer_to_pm,
                    pm_up, hm_up, running_peers, set_all_peers >>

EnvPeerSends(m) ==
    /\ m.conn \in running_peers /\ pm_up /\ HasRoom(peer_to_pm)
    /\ peer_to_pm' = Append(peer_to_pm, ReadyMessage(set_id_peers[m.conn], m))
    /\ UNCHANGED << pmOwn, pmEnv, pm_to_hm, hm_to_pm, pm_to_peer,
                    pm_up, hm_up, running_peers, set_all_peers >>

EnvPeerReturns(c) ==
    /\ c \in running_peers
    /\ running_peers' = running_peers \ {c}
    /\ pm_to_peer' = [pm_to_peer EXCEPT ![c] = << >>]
    /\ UNCHANGED << pmOwn, pmEnv, pm_to_hm, hm_to_pm, peer_to_pm,
                    pm_up, hm_up, set_all_peers >>

(* ThreadNetwork sends Shutdown or drops its sender, LoopListen returns.   *)
EnvSupervisor ==
    /\ \/ tn_to_pm = "open" /\ tn_to_pm' \in {"shutdown", "closed"} /\ UNCHANGED ll_up
       \/ ll_up /\ ll_up' = FALSE /\ UNCHANGED tn_to_pm
    /\ UNCHANGED << pmOwn, chanVars >>

PMEnv ==
    \/ EnvHandleMessageReceives \/ EnvHandleMessageReturns \/ EnvSupervisor
    \/ \E m \in Message : EnvHandleMessageSends(m) \/ EnvPeerSends(m)
    \/ \E c \in Conns : EnvPeerReceives(c) \/ EnvPeerReturns(c)

PMSpec == PMInit /\ [][PMNext \/ PMEnv]_pmVars

-----------------------------------------------------------------------------
(* Properties.                                                             *)

(* The counter that numbers connections is one more than the number of     *)
(* Peer tasks not yet joined, at every await: the increments of the two    *)
(* accept paths balance the decrements of the twenty join arms and the two *)
(* failure paths, so `peerid -= 1` on a u64 never wraps and the first      *)
(* connection after a quiet period is number 1 again.                      *)
PeeridCountsTasks == peerid = 1 + Cardinality(set_task_peers)

(* A registry entry leads to the Peer task that was spawned under that     *)
(* very id and has not been joined, although ids are used again, entries   *)
(* are overwritten, and a join removes an entry by id without looking at   *)
(* whose it is.                                                            *)
RegistrySound ==
    \A p \in DOMAIN set_all_peers :
        /\ set_all_peers[p] \in set_task_peers
        /\ set_id_peers[set_all_peers[p]] = p

(* However ids are reused, at most k of the tasks not yet joined carry an  *)
(* id of k or less: low ids never pile up, and when n tasks are left one   *)
(* of them carries an id of at least n.                                    *)
Carriers(k) == {c \in set_task_peers : set_id_peers[c] <= k}

LowIdsNeverPileUp == \A k \in 1..peerid : Cardinality(Carriers(k)) <= k
=============================================================================
