--------------------------- MODULE HandleMessage ---------------------------
(***************************************************************************)
(* The HandleMessage actor (src/src/protocol/handlemessage.rs): the        *)
(* version/verack handshake of every connection, kept under the PeerId     *)
(* PeerManager announced it with.                                          *)
(*                                                                         *)
(* A reply is sent in the middle of the handler, so the handler stops at   *)
(* each send (state hm) with part of its flags already written.            *)
(* HMSpec runs the actor against the most general surroundings.            *)
(***************************************************************************)
EXTENDS Channels

CONSTANT
    VersionBuilds   \* outcomes of build_version_message: FALSE is a clock
                    \* set before 1970

ASSUME VersionBuildsAssumption == VersionBuilds \subseteq BOOLEAN

VARIABLES
    set_context_peers,  \* PeerId -> the connection whose context is stored
    set_state_peers,    \* PeerId -> the flags of its handshake
    hm,                 \* where the task is
    tp_to_hm            \* ThreadProtocol's channel: "open", "shutdown", "closed"

hmOwn  == << set_context_peers, set_state_peers, hm >>
hmVars == << hmOwn, tp_to_hm, pm_to_hm, hm_to_pm, pm_up, hm_up >>
peerChannels == << peer_to_pm, pm_to_peer, running_peers, set_all_peers, set_id_peers >>

Flag == {"send_version", "recv_version", "send_verack", "recv_verack",
         "completed_handshake"}

(* PeerStateMetadata as the set of its flags that are true.                *)
PeerStateMetadata == SUBSET Flag

TypeConnection(c) == IF c \in Incoming THEN "in" ELSE "out"
TypeConnect(p)    == TypeConnection(set_context_peers[p])

(* conn is a ghost: whose message or announcement is being handled.        *)
Select           == [at |-> "select"]
Sending(w, p, c) == [at |-> w, peerid |-> p, conn |-> c]
Returned         == [at |-> "returned"]

Sends == {"new_version", "reply_version", "reply_verack", "violent"}

HMControl == {Select, Returned} \cup [at : Sends, peerid : PeerId, conn : Conns]

HMOwnInit ==
    /\ set_context_peers = << >>
    /\ set_state_peers = << >>
    /\ hm = Select
    /\ tp_to_hm = "open"

HMInit == ChanInit /\ HMOwnInit

HMOwnTypeOK ==
    /\ HashMap(set_context_peers, PeerId, Conns)
    /\ HashMap(set_state_peers, PeerId, PeerStateMetadata)
    /\ hm \in HMControl
    /\ tp_to_hm \in {"open", "shutdown", "closed"}

(* The variables have their types; completed_handshake is raised with      *)
(* recv_verack and with nothing else, at every await; and the entries the  *)
(* handler has borrowed for the length of a send stay in both maps.        *)
HMTypeOK ==
    /\ HMOwnTypeOK
    /\ \A p \in DOMAIN set_state_peers :
          "completed_handshake" \in set_state_peers[p] <=> "recv_verack" \in set_state_peers[p]
    /\ hm.at \in Sends =>
          hm.peerid \in DOMAIN set_context_peers \cap DOMAIN set_state_peers

-----------------------------------------------------------------------------
(* The event at the head of PeerManager's channel is received.             *)
Receive(type) ==
    /\ hm = Select /\ pm_to_hm # << >> /\ Head(pm_to_hm).type = type
    /\ pm_to_hm' = Tail(pm_to_hm)
    /\ UNCHANGED << tp_to_hm, hm_to_pm, pm_up, hm_up, peerChannels >>

InsertIfAbsent(f, k, v) == IF k \in DOMAIN f THEN f ELSE Insert(f, k, v)

(* IncidentNewConnection: an entry that is already there is kept, and the  *)
(* direction that decides on the Version is the stored one.                *)
ReceiveNewConnection ==
    /\ Receive("NewConnection")
    /\ LET e       == Head(pm_to_hm)
           context == InsertIfAbsent(set_context_peers, e.peerid, e.conn)
       IN  /\ set_context_peers' = context
           /\ set_state_peers' = InsertIfAbsent(set_state_peers, e.peerid, {})
           /\ IF TypeConnection(context[e.peerid]) = "in" THEN hm' = Select
              ELSE \E ok \in VersionBuilds :
                     hm' = IF ok THEN Sending("new_version", e.peerid, e.conn) ELSE Select

(* Mutant of ReceiveCompletedPeer: the context is forgotten there.         *)
ReceiveCompletedPeerHalf ==
    /\ Receive("CompletedPeer")
    /\ set_state_peers' = Remove(set_state_peers, Head(pm_to_hm).peerid)
    /\ UNCHANGED << hm, set_context_peers >>

ReceiveCompletedPeer ==
    /\ Receive("CompletedPeer")
    /\ set_context_peers' = Remove(set_context_peers, Head(pm_to_hm).peerid)
    /\ set_state_peers' = Remove(set_state_peers, Head(pm_to_hm).peerid)
    /\ UNCHANGED hm

ReceiveCompletedAllPeer ==
    /\ Receive("CompletedAllPeer")
    /\ set_context_peers' = << >>
    /\ set_state_peers' = << >>
    /\ UNCHANGED hm

(* The flags a message must find: the four but for completed_handshake,    *)
(* which is not looked at.                                                 *)
FourFlags(p) == set_state_peers[p] \ {"completed_handshake"}

(* Mutants: no flag is looked at; the Verack is expected a stage early.    *)
AnyTime(p)      == TRUE
VerackEarlier(p) == FourFlags(p) = {"recv_version", "send_version"}

VersionInOrder(p) == FourFlags(p) = IF TypeConnect(p) = "in" THEN {} ELSE {"send_version"}
VerackInOrder(p)  == FourFlags(p) = {"recv_version", "send_version", "send_verack"}

(* Mutant of VerackFlags: the handshake is not marked as completed.        *)
VerackFlagsHalf == {"recv_verack"}

VerackFlags == {"recv_verack", "completed_handshake"}

(* handle_msg up to its first send.  A Version on an incoming connection   *)
(* is judged by the state first and by its content second; on an outgoing  *)
(* one the other way round.                                                *)
OnVersion(p, m) ==
    LET inOrder == VersionInOrder(p)
        valid   == m.cmd = "version"
    IN  \/ /\ inOrder /\ valid
           /\ set_state_peers' = [set_state_peers EXCEPT ![p] = @ \cup {"recv_version"}]
           /\ IF TypeConnect(p) = "out" THEN hm' = Sending("reply_verack", p, m.conn)
              ELSE \E ok \in VersionBuilds :
                     hm' = IF ok THEN Sending("reply_version", p, m.conn) ELSE Select
        \/ /\ ~inOrder /\ (TypeConnect(p) = "in" \/ valid)
           /\ hm' = Sending("violent", p, m.conn)
           /\ UNCHANGED set_state_peers
        \/ /\ ~valid /\ (TypeConnect(p) = "out" \/ inOrder)
           /\ UNCHANGED << hm, set_state_peers >>

OnVerack(p, m) ==
    IF VerackInOrder(p)
    THEN /\ set_state_peers' = [set_state_peers EXCEPT ![p] = @ \cup VerackFlags]
         /\ UNCHANGED hm
    ELSE /\ hm' = Sending("violent", p, m.conn)
         /\ UNCHANGED set_state_peers

ReceiveReadyMessage ==
    /\ Receive("ReadyMessage")
    /\ LET p == Head(pm_to_hm).peerid
           m == Head(pm_to_hm).message
       IN  IF p \notin DOMAIN set_context_peers \cap DOMAIN set_state_peers
           THEN UNCHANGED << hm, set_state_peers >>
           ELSE IF m.cmd = "verack" THEN OnVerack(p, m) ELSE OnVersion(p, m)
    /\ UNCHANGED set_context_peers

-----------------------------------------------------------------------------
(* A send to PeerManager, and what follows it.  The Version and Verack     *)
(* carry the addresses of the stored context.                              *)

Reply(cmd) == ReadyMessage(hm.peerid, [cmd |-> cmd, conn |-> set_context_peers[hm.peerid]])

(* Mutant of SendToPM: neither room nor PeerManager itself is needed.      *)
SendToPMBlindly(event) ==
    /\ hm_to_pm' = Append(hm_to_pm, event)
    /\ UNCHANGED << set_context_peers, tp_to_hm, pm_to_hm, pm_up, hm_up, peerChannels >>

SendToPM(event) ==
    /\ pm_up /\ HasRoom(hm_to_pm)
    /\ hm_to_pm' = Append(hm_to_pm, event)
    /\ UNCHANGED << set_context_peers, tp_to_hm, pm_to_hm, pm_up, hm_up, peerChannels >>

Raise(p, flag) == [set_state_peers EXCEPT ![p] = @ \cup {flag}]

(* The Version of an outgoing connection; the flag is only raised in a     *)
(* state with none of the four set.                                        *)
SendNewVersion ==
    /\ hm.at = "new_version"
    /\ SendToPM(Reply("version"))
    /\ set_state_peers' = IF set_state_peers[hm.peerid] \subseteq {"completed_handshake"}
                          THEN Raise(hm.peerid, "send_version") ELSE set_state_peers
    /\ hm' = Select

SendReplyVersion ==
    /\ hm.at = "reply_version"
    /\ SendToPM(Reply("version"))
    /\ set_state_peers' = Raise(hm.peerid, "send_version")
    /\ hm' = Sending("reply_verack", hm.peerid, hm.conn)

(* Mutant of SendReplyVerack: the handshake is taken for completed with    *)
(* the last message the node sends itself.                                 *)
SendReplyVerackAsLast ==
    /\ hm.at = "reply_verack"
    /\ SendToPM(Reply("verack"))
    /\ set_state_peers' = [set_state_peers EXCEPT ![hm.peerid] =
                              @ \cup {"send_verack", "completed_handshake"}]
    /\ hm' = Select

SendReplyVerack ==
    /\ hm.at = "reply_verack"
    /\ SendToPM(Reply("verack"))
    /\ set_state_peers' = Raise(hm.peerid, "send_verack")
    /\ hm' = Select

SendViolent ==
    /\ hm.at = "violent"
    /\ SendToPM(Violent(hm.peerid, hm.conn))
    /\ hm' = Select
    /\ UNCHANGED set_state_peers

(* The task ends: both its ends drop, what PeerManager sent is lost.       *)
Return ==
    /\ hm' = Returned
    /\ hm_up' = FALSE
    /\ pm_to_hm' = << >>
    /\ UNCHANGED << set_context_peers, set_state_peers, tp_to_hm, hm_to_pm,
                    pm_up, peerChannels >>

(* handle_msg reports a closed PeerManager to a loop that only logs it; a  *)
(* failed Version of a new connection ends the loop.                       *)
SendFails ==
    /\ hm.at \in Sends /\ ~pm_up
    /\ IF hm.at = "new_version" THEN Return
       ELSE /\ hm' = Select
            /\ UNCHANGED << set_context_peers, set_state_peers, tp_to_hm, chanVars >>

Stop ==
    /\ hm = Select
    /\ \/ tp_to_hm \in {"shutdown", "closed"}
       \/ ~pm_up /\ pm_to_hm = << >>
    /\ Return

HMNext ==
    \/ ReceiveNewConnection \/ ReceiveReadyMessage
    \/ ReceiveCompletedPeer \/ ReceiveCompletedAllPeer
    \/ SendNewVersion \/ SendReplyVersion \/ SendReplyVerack \/ SendViolent
    \/ SendFails \/ Stop
-----------------------------------------------------------------------------
(* The surroundings: PeerManager at the other end of the two channels, and *)
(* ThreadProtocol.  None of it touches hmOwn.                              *)

EnvPeerManagerSends(e) ==
    /\ pm_up /\ hm_up /\ HasRoom(pm_to_hm)
    /\ pm_to_hm' = Append(pm_to_hm, e)
    /\ UNCHANGED << hmOwn, tp_to_hm, hm_to_pm, pm_up, hm_up, peerChannels >>

EnvPeerManagerReceives ==
    /\ pm_up /\ hm_to_pm # << >>
    /\ hm_to_pm' = Tail(hm_to_pm)
    /\ UNCHANGED << hmOwn, tp_to_hm, pm_to_hm, pm_up, hm_up, peerChannels >>

EnvPeerManagerReturns ==
    /\ pm_up
    /\ pm_up' = FALSE
    /\ hm_to_pm' = << >> /\ peer_to_pm' = << >> /\ set_all_peers' = << >>
    /\ UNCHANGED << hmOwn, tp_to_hm, pm_to_hm, hm_up, pm_to_peer,
                    running_peers, set_id_peers >>

EnvThreadProtocol ==
    /\ tp_to_hm = "open" /\ tp_to_hm' \in {"shutdown", "closed"}
    /\ UNCHANGED << hmOwn, chanVars >>

HMEnv ==
    \/ \E p \in 1..Cardinality(Conns) :
          \/ \E c \in Conns : EnvPeerManagerSends(NewConnection(p, c))
          \/ \E m \in Message : EnvPeerManagerSends(ReadyMessage(p, m))
          \/ EnvPeerManagerSends(CompletedPeer(p))
    \/ EnvPeerManagerSends(CompletedAllPeer)
    \/ EnvPeerManagerReceives \/ EnvPeerManagerReturns \/ EnvThreadProtocol

HMSpec == HMInit /\ [][HMNext \/ HMEnv]_hmVars

-----------------------------------------------------------------------------
(* Properties.                                                             *)

(* The two maps are kept apart and checked apart, yet always hold the same *)
(* ids: no handshake is left without the addresses its replies need, and   *)
(* no context survives its handshake.                                      *)
MapsAgree == DOMAIN set_context_peers = DOMAIN set_state_peers

(* The order in which the flags of a handshake may be raised.              *)
RoadOf(way) ==
    IF way = "in" THEN << "recv_version", "send_version", "send_verack", "recv_verack" >>
    ELSE << "send_version", "recv_version", "send_verack", "recv_verack" >>

Reached(way, k) ==
    {RoadOf(way)[i] : i \in 1..k} \cup (IF k = 4 THEN {"completed_handshake"} ELSE {})

OffRoad == 5

StageOf(p) ==
    LET k == Cardinality(set_state_peers[p] \ {"completed_handshake"})
    IN  IF set_state_peers[p] = Reached(TypeConnect(p), k) THEN k ELSE OffRoad

Ids == 1..Cardinality(Conns)

RoadMap ==
    [p \in Ids |-> IF p \in DOMAIN set_state_peers \cap DOMAIN set_context_peers
                   THEN [way |-> TypeConnect(p), stage |-> StageOf(p)]
                   ELSE [way |-> "none", stage |-> 0]]

(* HandleMessage implements Handshake: whatever PeerManager sends, in      *)
(* whatever order, duplicated or stale, every handshake moves one stage at *)
(* a time along the road of its direction and is complete only at its end. *)
HS == INSTANCE Handshake WITH road <- RoadMap
ImplementsHandshake == HS!HSSpec
=============================================================================
