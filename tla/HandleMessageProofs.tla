------------------------ MODULE HandleMessageProofs ------------------------
(***************************************************************************)
(* Theorems about HandleMessage, for any number of connections, any        *)
(* Capacity and whatever PeerManager sends, in whatever order.             *)
(*                                                                         *)
(* That a reply finds the handshake where its guard left it needs to know  *)
(* how far the handshake is while the handler waits to send, which is what *)
(* AwaitsKnowTheirStage says; that a stage is one of the road needs every  *)
(* flag set to be one the road reaches (EveryoneOnRoad).                   *)
(***************************************************************************)
EXTENDS HandleMessage, ChannelProofs

(* The flags kept under p are those of a stage of its road.                *)
AtStage(p, k) == set_state_peers[p] = Reached(TypeConnect(p), k)

EveryoneOnRoad == \A p \in DOMAIN set_state_peers : \E k \in 0..4 : AtStage(p, k)

(* What the handler knows at each of its awaits.                           *)
AwaitsKnowTheirStage ==
    /\ hm.at \in Sends => hm.peerid \in DOMAIN set_context_peers
    /\ hm.at = "new_version" => TypeConnect(hm.peerid) = "out"
    /\ hm.at = "reply_version" => TypeConnect(hm.peerid) = "in" /\ AtStage(hm.peerid, 1)
    /\ hm.at = "reply_verack" => AtStage(hm.peerid, 2)

(* HandleMessage gives its ends of the channels up when it returns.        *)
UpUntilReturned == hm_up = (hm # Returned)

HMChannelTypeOK ==
    /\ pm_to_hm \in Seq(EventsToHandleMessage)
    /\ hm_to_pm \in Seq(EventsToPeerManager)
    /\ pm_up \in BOOLEAN
    /\ hm_up \in BOOLEAN

HMInv ==
    /\ HMOwnTypeOK
    /\ HMChannelTypeOK
    /\ MapsAgree
    /\ EveryoneOnRoad
    /\ AwaitsKnowTheirStage
    /\ UpUntilReturned

-----------------------------------------------------------------------------
(* The road, stage by stage.                                               *)

Way == {"in", "out"}

(* The flags of the stages, written out.                                   *)
LEMMA StagesOfRoad ==
    ASSUME NEW way \in Way
    PROVE  /\ Reached(way, 0) = {}
           /\ Reached(way, 1) = {IF way = "in" THEN "recv_version" ELSE "send_version"}
           /\ Reached(way, 2) = {"recv_version", "send_version"}
           /\ Reached(way, 3) = {"recv_version", "send_version", "send_verack"}
           /\ Reached(way, 4) = {"recv_version", "send_version", "send_verack",
                                 "recv_verack", "completed_handshake"}
<1>0. /\ 1..0 = {} /\ 1..1 = {1} /\ 1..2 = {1, 2} /\ 1..3 = {1, 2, 3} /\ 1..4 = {1, 2, 3, 4}
    OBVIOUS
<1>1. CASE way = "in"
  <2>1. /\ RoadOf(way)[1] = "recv_version" /\ RoadOf(way)[2] = "send_version"
        /\ RoadOf(way)[3] = "send_verack" /\ RoadOf(way)[4] = "recv_verack"
      BY <1>1 DEF RoadOf
  <2>2. QED
      BY <1>0, <1>1, <2>1 DEF Reached
<1>2. CASE way = "out"
  <2>1. /\ RoadOf(way)[1] = "send_version" /\ RoadOf(way)[2] = "recv_version"
        /\ RoadOf(way)[3] = "send_verack" /\ RoadOf(way)[4] = "recv_verack"
      BY <1>2 DEF RoadOf
  <2>2. QED
      BY <1>0, <1>2, <2>1 DEF Reached
<1>3. QED
    BY <1>1, <1>2 DEF Way

(* Stage k has k flags but for completed_handshake, so that their number   *)
(* is the stage.                                                           *)
LEMMA StageIsCardinality ==
    ASSUME NEW way \in Way, NEW k \in 0..4
    PROVE  Cardinality(Reached(way, k) \ {"completed_handshake"}) = k
<1> DEFINE one == IF way = "in" THEN "recv_version" ELSE "send_version"
           two == {"recv_version", "send_version"}
           three == two \cup {"send_verack"}
           four == three \cup {"recv_verack"}
<1>1. IsFiniteSet({}) /\ Cardinality({}) = 0
    BY FS_EmptySet
<1>2. IsFiniteSet({one}) /\ Cardinality({one}) = 1
    BY FS_Singleton
<1>3. IsFiniteSet(two) /\ Cardinality(two) = 2
  <2>1. two = {"recv_version"} \cup {"send_version"}
      OBVIOUS
  <2>2. IsFiniteSet({"recv_version"}) /\ Cardinality({"recv_version"}) = 1
      BY FS_Singleton
  <2>3. "send_version" \notin {"recv_version"}
      OBVIOUS
  <2>4. /\ IsFiniteSet({"recv_version"} \cup {"send_version"})
        /\ Cardinality({"recv_version"} \cup {"send_version"}) = 1 + 1
      BY <2>2, <2>3, FS_AddElement
  <2>5. QED
      BY <2>1, <2>4
<1>4. IsFiniteSet(three) /\ Cardinality(three) = 3
  <2>1. "send_verack" \notin two
      OBVIOUS
  <2>2. QED
      BY <1>3, <2>1, FS_AddElement
<1>5. IsFiniteSet(four) /\ Cardinality(four) = 4
  <2>1. "recv_verack" \notin three
      OBVIOUS
  <2>2. QED
      BY <1>4, <2>1, FS_AddElement
<1>6. CASE k = 0
    BY <1>1, <1>6, StagesOfRoad
<1>7. CASE k = 1
  <2>1. Reached(way, 1) \ {"completed_handshake"} = {one}
      BY StagesOfRoad
  <2>2. QED
      BY <1>2, <1>7, <2>1
<1>8. CASE k = 2
  <2>1. Reached(way, 2) \ {"completed_handshake"} = two
      BY StagesOfRoad
  <2>2. QED
      BY <1>3, <1>8, <2>1
<1>9. CASE k = 3
  <2>1. Reached(way, 3) \ {"completed_handshake"} = three
      BY StagesOfRoad
  <2>2. QED
      BY <1>4, <1>9, <2>1
<1>10. CASE k = 4
  <2>1. Reached(way, 4) \ {"completed_handshake"} = four
      BY StagesOfRoad
  <2>2. QED
      BY <1>5, <1>10, <2>1
<1>11. QED
    BY <1>6, <1>7, <1>8, <1>9, <1>10

(* The direction of a connection is one of the two, whatever p is.         *)
LEMMA WayOfConnection == \A p : TypeConnect(p) \in Way
BY DEF TypeConnect, TypeConnection, Way

(* A handshake whose flags are those of a stage is at that stage.          *)
LEMMA StageOfAtStage ==
    ASSUME NEW p, NEW k \in 0..4, AtStage(p, k)
    PROVE  StageOf(p) = k
<1>1. Cardinality(set_state_peers[p] \ {"completed_handshake"}) = k
    BY StageIsCardinality, WayOfConnection DEF AtStage
<1>2. QED
    BY <1>1 DEF StageOf, AtStage

-----------------------------------------------------------------------------
(* What the abstract specification sees of p, and how a step may change it.*)

Road(p) ==
    IF p \in DOMAIN set_state_peers \cap DOMAIN set_context_peers
    THEN [way |-> TypeConnect(p), stage |-> StageOf(p)] ELSE HS!Absent

(* The maps of a state in which every handshake is on its road.            *)
HandshakesOK ==
    /\ HashMap(set_context_peers, PeerId, Conns)
    /\ HashMap(set_state_peers, PeerId, PeerStateMetadata)
    /\ MapsAgree
    /\ EveryoneOnRoad

(* Entries that keep their flags and their context keep their road.        *)
LEMMA KeptRoad ==
    ASSUME NEW q,
           q \in DOMAIN set_state_peers' <=> q \in DOMAIN set_state_peers,
           q \in DOMAIN set_context_peers' <=> q \in DOMAIN set_context_peers,
           q \in DOMAIN set_state_peers => set_state_peers'[q] = set_state_peers[q],
           q \in DOMAIN set_context_peers => set_context_peers'[q] = set_context_peers[q]
    PROVE  Road(q)' = Road(q)
BY DEF Road, StageOf, TypeConnect, HS!Absent

(* A step that keeps every road but that of p, and takes p a step of       *)
(* Handshake, is a step of Handshake.                                      *)
LEMMA OneRoadMoves ==
    ASSUME NEW p,
           \A q : q # p => Road(q)' = Road(q),
           \/ Road(p)' = Road(p)
           \/ Road(p) = HS!Absent /\ \E w \in Way : Road(p)' = HS!Started(w)
           \/ /\ Road(p) # HS!Absent /\ Road(p).stage \in 0..3
              /\ Road(p)' = [Road(p) EXCEPT !.stage = @ + 1]
           \/ Road(p)' = HS!Absent
    PROVE  [HS!HSNext]_RoadMap
<1>1. RoadMap = [q \in Ids |-> Road(q)] /\ RoadMap' = [q \in Ids |-> Road(q)']
    BY DEF RoadMap, Road, HS!Absent
<1>2. CASE p \notin Ids \/ Road(p)' = Road(p)
    BY <1>1, <1>2
<1>3. CASE p \in Ids /\ Road(p)' # Road(p)
  <2>1. RoadMap' = [RoadMap EXCEPT ![p] = Road(p)']
      BY <1>1, <1>3
  <2>2. RoadMap[p] = Road(p)
      BY <1>1, <1>3
  <2>3. CASE Road(p) = HS!Absent /\ \E w \in Way : Road(p)' = HS!Started(w)
      BY <1>3, <2>1, <2>2, <2>3 DEF HS!HSNext, HS!Begin, Way
  <2>4. CASE /\ Road(p) # HS!Absent /\ Road(p).stage \in 0..3
             /\ Road(p)' = [Road(p) EXCEPT !.stage = @ + 1]
    <3>1. RoadMap' = [RoadMap EXCEPT ![p].stage = @ + 1]
        BY <2>1, <2>2, <2>4
    <3>2. RoadMap[p] # HS!Absent /\ RoadMap[p].stage < 4
        BY <2>2, <2>4
    <3>3. QED
        BY <1>3, <3>1, <3>2 DEF HS!HSNext, HS!Advance
  <2>5. CASE Road(p)' = HS!Absent
      BY <1>3, <2>1, <2>5 DEF HS!HSNext, HS!Forget
  <2>6. QED
      BY <1>3, <2>3, <2>4, <2>5
<1>4. QED
    BY <1>2, <1>3

(* The maps are left alone.                                                *)
LEMMA HandshakesKept ==
    ASSUME HandshakesOK, UNCHANGED << set_context_peers, set_state_peers >>
    PROVE  HandshakesOK' /\ UNCHANGED RoadMap /\ \A p, k : AtStage(p, k)' = AtStage(p, k)
<1>1. HandshakesOK'
    BY DEF HandshakesOK, MapsAgree, EveryoneOnRoad, AtStage, TypeConnect
<1>2. UNCHANGED RoadMap
    BY DEF RoadMap, StageOf, TypeConnect
<1>3. \A p, k : AtStage(p, k)' = AtStage(p, k)
    BY DEF AtStage, TypeConnect
<1>4. QED
    BY <1>1, <1>2, <1>3

(* The flags of one handshake go from a stage to the next.                 *)
LEMMA HandshakeAdvances ==
    ASSUME HandshakesOK, UNCHANGED set_context_peers,
           NEW p \in DOMAIN set_state_peers, NEW k \in 0..3, AtStage(p, k),
           NEW flags, NEW j, j = k + 1, flags = Reached(TypeConnect(p), j),
           set_state_peers' = [set_state_peers EXCEPT ![p] = flags]
    PROVE  HandshakesOK' /\ [HS!HSNext]_RoadMap /\ AtStage(p, j)'
<1>0. flags \in PeerStateMetadata
  <2>1. j \in {1, 2, 3, 4}
      OBVIOUS
  <2>2. QED
      BY <2>1, StagesOfRoad, WayOfConnection DEF PeerStateMetadata, Flag, Way
<1>1. /\ DOMAIN set_state_peers' = DOMAIN set_state_peers
      /\ set_state_peers'[p] = flags
      /\ \A q : q # p /\ q \in DOMAIN set_state_peers => set_state_peers'[q] = set_state_peers[q]
    OBVIOUS
<1>2. AtStage(p, j)' /\ j \in 0..4
    BY <1>1 DEF AtStage, TypeConnect
<1>3. EveryoneOnRoad'
  <2> SUFFICES ASSUME NEW q \in DOMAIN set_state_peers PROVE \E i \in 0..4 : AtStage(q, i)'
      BY <1>1 DEF EveryoneOnRoad
  <2>1. CASE q = p
      BY <1>2, <2>1
  <2>2. CASE q # p
      BY <1>1, <2>2 DEF HandshakesOK, EveryoneOnRoad, AtStage, TypeConnect
  <2>3. QED
      BY <2>1, <2>2
<1>4. HandshakesOK'
    BY <1>0, <1>1, <1>3 DEF HandshakesOK, HashMap, MapsAgree
<1>5. \A q : q # p => Road(q)' = Road(q)
    BY <1>1, KeptRoad
<1>6. /\ Road(p) # HS!Absent /\ Road(p).stage = k
      /\ Road(p)' = [Road(p) EXCEPT !.stage = @ + 1]
  <2>1. p \in DOMAIN set_context_peers
      BY DEF HandshakesOK, MapsAgree
  <2>2. StageOf(p) = k
      BY StageOfAtStage
  <2>3. StageOf(p)' = j
    <3>1. TypeConnect(p) \in Way /\ j \in 0..4 /\ TypeConnect(p)' = TypeConnect(p)
        BY WayOfConnection DEF TypeConnect
    <3>2. Cardinality(flags \ {"completed_handshake"}) = j
        BY <3>1, StageIsCardinality
    <3>3. QED
        BY <1>1, <3>1, <3>2 DEF StageOf
  <2>4. QED
      BY <1>1, <2>1, <2>2, <2>3, WayOfConnection DEF Road, TypeConnect, Way, HS!Absent
<1>7. [HS!HSNext]_RoadMap
    BY <1>5, <1>6, OneRoadMoves
<1>8. QED
    BY <1>2, <1>4, <1>7

(* A handshake is entered under an id that has none.                       *)
LEMMA HandshakeBegins ==
    ASSUME HandshakesOK, NEW p \in PeerId, NEW c \in Conns,
           set_context_peers' = InsertIfAbsent(set_context_peers, p, c),
           set_state_peers' = InsertIfAbsent(set_state_peers, p, {})
    PROVE  /\ HandshakesOK' /\ [HS!HSNext]_RoadMap
           /\ p \in DOMAIN set_context_peers'
<1>0. /\ HashMap(set_context_peers, PeerId, Conns)
      /\ HashMap(set_state_peers, PeerId, PeerStateMetadata)
      /\ DOMAIN set_context_peers = DOMAIN set_state_peers
      /\ EveryoneOnRoad
    BY DEF HandshakesOK, MapsAgree
<1>1. CASE p \in DOMAIN set_state_peers
  <2>1. UNCHANGED << set_context_peers, set_state_peers >>
      BY <1>0, <1>1 DEF InsertIfAbsent
  <2>2. QED
      BY <1>0, <1>1, <2>1, HandshakesKept
<1>2. CASE p \notin DOMAIN set_state_peers
  <2>1. /\ set_context_peers' = Insert(set_context_peers, p, c)
        /\ set_state_peers' = Insert(set_state_peers, p, {})
      BY <1>0, <1>2 DEF InsertIfAbsent
  <2>2. /\ HashMap(set_context_peers', PeerId, Conns)
        /\ DOMAIN set_context_peers' = DOMAIN set_context_peers \cup {p}
        /\ \A q \in DOMAIN set_context_peers \ {p} : set_context_peers'[q] = set_context_peers[q]
      BY <1>0, <2>1 DEF HashMap, Insert
  <2>3. {} \in PeerStateMetadata
      BY DEF PeerStateMetadata
  <2>4. /\ HashMap(set_state_peers', PeerId, PeerStateMetadata)
        /\ DOMAIN set_state_peers' = DOMAIN set_state_peers \cup {p}
        /\ set_state_peers'[p] = {}
        /\ \A q \in DOMAIN set_state_peers \ {p} : set_state_peers'[q] = set_state_peers[q]
      BY <1>0, <2>1, <2>3 DEF HashMap, Insert
  <2>5. AtStage(p, 0)'
    <3>1. TypeConnect(p)' \in Way
        BY DEF TypeConnect, TypeConnection, Way
    <3>2. Reached(TypeConnect(p)', 0) = {}
        BY <3>1, StagesOfRoad
    <3>3. QED
        BY <2>4, <3>2 DEF AtStage, Reached, RoadOf
  <2>6. EveryoneOnRoad'
    <3> SUFFICES ASSUME NEW q \in DOMAIN set_state_peers' PROVE \E j \in 0..4 : AtStage(q, j)'
        BY DEF EveryoneOnRoad
    <3>1. CASE q = p
        BY <2>5, <3>1
    <3>2. CASE q # p
        BY <1>0, <2>2, <2>4, <3>2 DEF EveryoneOnRoad, AtStage, TypeConnect
    <3>3. QED
        BY <3>1, <3>2
  <2>7. HandshakesOK' /\ p \in DOMAIN set_context_peers'
      BY <1>0, <2>2, <2>4, <2>6 DEF HandshakesOK, MapsAgree
  <2>8. \A q : q # p => Road(q)' = Road(q)
      BY <2>2, <2>4, KeptRoad
  <2>9. Road(p) = HS!Absent /\ \E w \in Way : Road(p)' = HS!Started(w)
    <3>1. TypeConnect(p)' \in Way
        BY DEF TypeConnect, TypeConnection, Way
    <3>2. Cardinality(set_state_peers'[p] \ {"completed_handshake"}) = 0
        BY <2>4, FS_EmptySet
    <3>3. StageOf(p)' = 0
        BY <2>5, <3>2 DEF StageOf, AtStage
    <3>4. Road(p)' = HS!Started(TypeConnect(p)')
        BY <2>2, <2>4, <3>3 DEF Road, HS!Started
    <3>5. QED
        BY <1>2, <3>1, <3>4 DEF Road
  <2>10. QED
      BY <2>7, <2>8, <2>9, OneRoadMoves
<1>3. QED
    BY <1>1, <1>2

(* A handshake is forgotten.                                               *)
LEMMA HandshakeForgotten ==
    ASSUME HandshakesOK, NEW p,
           set_context_peers' = Remove(set_context_peers, p),
           set_state_peers' = Remove(set_state_peers, p)
    PROVE  HandshakesOK' /\ [HS!HSNext]_RoadMap
<1>1. /\ HashMap(set_context_peers', PeerId, Conns)
      /\ DOMAIN set_context_peers' = DOMAIN set_context_peers \ {p}
      /\ \A q \in DOMAIN set_context_peers' : set_context_peers'[q] = set_context_peers[q]
    BY DEF HandshakesOK, HashMap, Remove, Restrict
<1>2. /\ HashMap(set_state_peers', PeerId, PeerStateMetadata)
      /\ DOMAIN set_state_peers' = DOMAIN set_state_peers \ {p}
      /\ \A q \in DOMAIN set_state_peers' : set_state_peers'[q] = set_state_peers[q]
    BY DEF HandshakesOK, HashMap, Remove, Restrict
<1>3. DOMAIN set_context_peers = DOMAIN set_state_peers /\ EveryoneOnRoad
    BY DEF HandshakesOK, MapsAgree
<1>4. EveryoneOnRoad'
    BY <1>1, <1>2, <1>3 DEF EveryoneOnRoad, AtStage, TypeConnect
<1>5. HandshakesOK'
    BY <1>1, <1>2, <1>3, <1>4 DEF HandshakesOK, MapsAgree
<1>6. \A q : q # p => Road(q)' = Road(q)
    BY <1>1, <1>2, KeptRoad
<1>7. Road(p)' = HS!Absent
    BY <1>2 DEF Road, HS!Absent
<1>8. QED
    BY <1>5, <1>6, <1>7, OneRoadMoves

(* All handshakes are forgotten.                                           *)
LEMMA AllForgotten ==
    ASSUME HandshakesOK, set_context_peers' = << >>, set_state_peers' = << >>
    PROVE  HandshakesOK' /\ [HS!HSNext]_RoadMap
<1>1. HandshakesOK'
    BY EmptyIsHashMap DEF HandshakesOK, MapsAgree, EveryoneOnRoad
<1>2. RoadMap' = [q \in Ids |-> HS!Absent]
    BY EmptyIsHashMap DEF RoadMap, HS!Absent
<1>3. QED
    BY <1>1, <1>2 DEF HS!HSNext, HS!ForgetAll

-----------------------------------------------------------------------------
(* The steps of the actor.  Each keeps the invariant and is a step of      *)
(* Handshake.                                                              *)

HMStep == HMInv' /\ [HS!HSNext]_RoadMap

(* The parts of the invariant that a step has to keep.                     *)
LEMMA HMInvParts ==
    HMInv <=> /\ HandshakesOK /\ HMChannelTypeOK /\ hm \in HMControl
              /\ AwaitsKnowTheirStage /\ UpUntilReturned
              /\ tp_to_hm \in {"open", "shutdown", "closed"}
BY DEF HMInv, HMOwnTypeOK, HandshakesOK

(* The same, after a step.                                                 *)
LEMMA PrimedHMInvParts ==
    HMInv' <=> /\ HandshakesOK' /\ HMChannelTypeOK' /\ hm' \in HMControl
               /\ AwaitsKnowTheirStage' /\ UpUntilReturned'
               /\ tp_to_hm' \in {"open", "shutdown", "closed"}
BY DEF HMInv, HMOwnTypeOK, HandshakesOK

(* What a receive leaves alone, and what it finds.                         *)
LEMMA ReceiveFacts ==
    ASSUME HMInv, NEW type, Receive(type)
    PROVE  /\ HMChannelTypeOK' /\ hm = Select /\ hm_up /\ hm_up'
           /\ tp_to_hm' \in {"open", "shutdown", "closed"}
           /\ Head(pm_to_hm) \in EventsToHandleMessage /\ Head(pm_to_hm).type = type
<1>1. /\ pm_to_hm \in Seq(EventsToHandleMessage) /\ pm_to_hm # << >>
      /\ pm_to_hm' = Tail(pm_to_hm)
    BY DEF HMInv, HMChannelTypeOK, Receive
<1>2. pm_to_hm' \in Seq(EventsToHandleMessage) /\ Head(pm_to_hm) \in EventsToHandleMessage
    BY <1>1, RangeOfTail
<1>3. HMChannelTypeOK'
    BY <1>2 DEF HMInv, HMChannelTypeOK, Receive
<1>4. hm_up /\ hm = Select
    BY DEF HMInv, UpUntilReturned, Receive, Select, Returned
<1>5. QED
    BY <1>2, <1>3, <1>4 DEF HMInv, HMOwnTypeOK, Receive

(* The fields of the events of PeerManager.                                *)
LEMMA EventFields ==
    ASSUME NEW e \in EventsToHandleMessage
    PROVE  /\ e.type = "NewConnection" => e.peerid \in PeerId /\ e.conn \in Conns
           /\ e.type = "CompletedPeer" => e.peerid \in PeerId
           /\ e.type = "ReadyMessage" => e.peerid \in PeerId /\ e.message \in Message
BY DEF EventsToHandleMessage, ReadyMessageEvent, CompletedAllPeer

(* A send is one of the four awaits, with an id and a connection.          *)
LEMMA SendingIsControl ==
    ASSUME NEW w \in Sends, NEW p \in PeerId, NEW c \in Conns
    PROVE  /\ Sending(w, p, c) \in HMControl /\ Sending(w, p, c) # Returned
           /\ Sending(w, p, c).at = w /\ Sending(w, p, c).peerid = p
BY DEF Sending, HMControl, Returned, Sends

(* Select is not an await, and the handler knows nothing there.            *)
LEMMA SelectIsQuiet ==
    ASSUME hm' = Select
    PROVE  hm' \in HMControl /\ AwaitsKnowTheirStage' /\ hm' # Returned
BY DEF Select, Returned, HMControl, AwaitsKnowTheirStage, Sends

(* A connection is announced: its handshake is new, or was there already.  *)
LEMMA ReceiveNewConnectionStep ==
    ASSUME HMInv, ReceiveNewConnection
    PROVE  HMStep
<1> DEFINE e == Head(pm_to_hm)
<1>1. /\ HMChannelTypeOK' /\ hm_up' /\ tp_to_hm' \in {"open", "shutdown", "closed"}
      /\ e.peerid \in PeerId /\ e.conn \in Conns
    BY ReceiveFacts, EventFields DEF ReceiveNewConnection
<1>2. /\ HandshakesOK' /\ [HS!HSNext]_RoadMap /\ e.peerid \in DOMAIN set_context_peers'
    BY <1>1, HandshakeBegins, HMInvParts DEF ReceiveNewConnection
<1>3. hm' \in HMControl /\ AwaitsKnowTheirStage' /\ hm' # Returned
  <2>1. \/ hm' = Select
        \/ /\ TypeConnection(set_context_peers'[e.peerid]) = "out"
           /\ hm' = Sending("new_version", e.peerid, e.conn)
      BY DEF ReceiveNewConnection, TypeConnection
  <2>2. CASE hm' = Select
      BY <2>2, SelectIsQuiet
  <2>3. CASE /\ TypeConnection(set_context_peers'[e.peerid]) = "out"
             /\ hm' = Sending("new_version", e.peerid, e.conn)
    <3>1. "new_version" \in Sends
        BY DEF Sends
    <3>2. hm' \in HMControl /\ hm' # Returned /\ hm'.at = "new_version" /\ hm'.peerid = e.peerid
        BY <1>1, <2>3, <3>1, SendingIsControl
    <3>3. AwaitsKnowTheirStage'
        BY <1>2, <2>3, <3>2 DEF AwaitsKnowTheirStage, TypeConnect
    <3>4. QED
        BY <3>2, <3>3
  <2>4. QED
      BY <2>1, <2>2, <2>3
<1>4. UpUntilReturned'
    BY <1>1, <1>3 DEF UpUntilReturned
<1>5. QED
    BY <1>1, <1>2, <1>3, <1>4, PrimedHMInvParts DEF HMStep

(* One handshake is forgotten, or all of them.                             *)
LEMMA ReceiveCompletedStep ==
    ASSUME HMInv, ReceiveCompletedPeer \/ ReceiveCompletedAllPeer
    PROVE  HMStep
<1>1. /\ HMChannelTypeOK' /\ hm_up' /\ hm' = Select
      /\ tp_to_hm' \in {"open", "shutdown", "closed"}
    BY ReceiveFacts DEF ReceiveCompletedPeer, ReceiveCompletedAllPeer
<1>2. HandshakesOK' /\ [HS!HSNext]_RoadMap
    BY HandshakeForgotten, AllForgotten, HMInvParts
    DEF ReceiveCompletedPeer, ReceiveCompletedAllPeer
<1>3. hm' \in HMControl /\ AwaitsKnowTheirStage' /\ UpUntilReturned'
    BY <1>1, SelectIsQuiet DEF UpUntilReturned
<1>4. QED
    BY <1>1, <1>2, <1>3, PrimedHMInvParts DEF HMStep

(* handle_msg waits to report a violent peer, or returns at once.          *)
LEMMA ReceiveIdle ==
    ASSUME HMInv, ReceiveReadyMessage,
           UNCHANGED << set_context_peers, set_state_peers >>,
           \/ hm' = Select
           \/ \E p \in DOMAIN set_context_peers, c \in Conns : hm' = Sending("violent", p, c)
    PROVE  HMStep
<1>1. /\ HMChannelTypeOK' /\ hm_up' /\ tp_to_hm' \in {"open", "shutdown", "closed"}
    BY ReceiveFacts DEF ReceiveReadyMessage
<1>2. HandshakesOK' /\ UNCHANGED RoadMap
    BY HandshakesKept, HMInvParts
<1>3. hm' \in HMControl /\ AwaitsKnowTheirStage' /\ hm' # Returned
  <2>1. CASE hm' = Select
      BY <2>1, SelectIsQuiet
  <2>2. ASSUME NEW p \in DOMAIN set_context_peers, NEW c \in Conns,
               hm' = Sending("violent", p, c)
        PROVE  hm' \in HMControl /\ AwaitsKnowTheirStage' /\ hm' # Returned
    <3>1. "violent" \in Sends /\ p \in PeerId
        BY DEF Sends, HMInv, HMOwnTypeOK, HashMap
    <3>2. hm' \in HMControl /\ hm' # Returned /\ hm'.at = "violent" /\ hm'.peerid = p
        BY <2>2, <3>1, SendingIsControl
    <3>3. QED
        BY <2>2, <3>2 DEF AwaitsKnowTheirStage
  <2>3. QED
      BY <2>1, <2>2
<1>4. QED
    BY <1>1, <1>2, <1>3, PrimedHMInvParts DEF HMStep, UpUntilReturned

(* What the flags a message finds say about the stage.                     *)
LEMMA FlagsShowStage ==
    ASSUME HandshakesOK, NEW p \in DOMAIN set_state_peers
    PROVE  /\ FourFlags(p) = {} => AtStage(p, 0)
           /\ set_state_peers[p] \subseteq {"completed_handshake"} => AtStage(p, 0)
           /\ FourFlags(p) = {"send_version"} /\ TypeConnect(p) = "out" => AtStage(p, 1)
           /\ VerackInOrder(p) => AtStage(p, 3)
<1>1. TypeConnect(p) \in Way
    BY WayOfConnection
<1>2. PICK k \in 0..4 : AtStage(p, k)
    BY DEF HandshakesOK, EveryoneOnRoad
<1>3. k \in {0, 1, 2, 3, 4}
    OBVIOUS
<1>4. FourFlags(p) = {} => k = 0
    BY <1>1, <1>2, <1>3, StagesOfRoad DEF AtStage, FourFlags, Way
<1>5. set_state_peers[p] \subseteq {"completed_handshake"} => k = 0
    BY <1>1, <1>2, <1>3, StagesOfRoad DEF AtStage, Way
<1>6. FourFlags(p) = {"send_version"} => k = 1
    BY <1>1, <1>2, <1>3, StagesOfRoad DEF AtStage, FourFlags, Way
<1>7. VerackInOrder(p) => k = 3
    BY <1>1, <1>2, <1>3, StagesOfRoad DEF AtStage, FourFlags, VerackInOrder, Way
<1>8. QED
    BY <1>2, <1>4, <1>5, <1>6, <1>7

(* A Verack that is due: the handshake is complete.                        *)
LEMMA ReceiveVerackInOrder ==
    ASSUME HMInv, ReceiveReadyMessage, hm' = Select, UNCHANGED set_context_peers,
           NEW p \in DOMAIN set_state_peers, VerackInOrder(p),
           set_state_peers' = [set_state_peers EXCEPT ![p] = @ \cup VerackFlags]
    PROVE  HMStep
<1>1. /\ HMChannelTypeOK' /\ hm_up' /\ tp_to_hm' \in {"open", "shutdown", "closed"}
    BY ReceiveFacts DEF ReceiveReadyMessage
<1>2. HandshakesOK /\ AtStage(p, 3)
    BY FlagsShowStage, HMInvParts
<1>3. set_state_peers[p] \cup VerackFlags = Reached(TypeConnect(p), 4)
    BY <1>2, StagesOfRoad, WayOfConnection DEF AtStage, VerackFlags
<1>4. HandshakesOK' /\ [HS!HSNext]_RoadMap
  <2>1. 3 \in 0..3 /\ 4 = 3 + 1
      OBVIOUS
  <2>2. QED
      BY <1>2, <1>3, <2>1, HandshakeAdvances
<1>5. QED
    BY <1>1, <1>4, SelectIsQuiet, PrimedHMInvParts DEF HMStep, UpUntilReturned

(* A Version that is due: its answer is in hand, or could not be built.    *)
LEMMA ReceiveVersionInOrder ==
    ASSUME HMInv, ReceiveReadyMessage, UNCHANGED set_context_peers,
           NEW p \in DOMAIN set_state_peers, NEW c \in Conns, VersionInOrder(p),
           set_state_peers' = [set_state_peers EXCEPT ![p] = @ \cup {"recv_version"}],
           IF TypeConnect(p) = "out" THEN hm' = Sending("reply_verack", p, c)
           ELSE hm' = Sending("reply_version", p, c) \/ hm' = Select
    PROVE  HMStep
<1>1. /\ HMChannelTypeOK' /\ hm_up' /\ tp_to_hm' \in {"open", "shutdown", "closed"}
    BY ReceiveFacts DEF ReceiveReadyMessage
<1>2. HandshakesOK /\ p \in PeerId /\ p \in DOMAIN set_context_peers'
    BY HMInvParts DEF HandshakesOK, HashMap, MapsAgree
<1>3. TypeConnect(p)' = TypeConnect(p) /\ TypeConnect(p) \in Way
    BY WayOfConnection DEF TypeConnect
<1>4. "reply_version" \in Sends /\ "reply_verack" \in Sends
    BY DEF Sends
<1>5. CASE TypeConnect(p) = "out"
  <2>1. AtStage(p, 1)
      BY <1>2, <1>5, FlagsShowStage DEF VersionInOrder
  <2>2. set_state_peers[p] \cup {"recv_version"} = Reached(TypeConnect(p), 2)
      BY <1>3, <1>5, <2>1, StagesOfRoad DEF AtStage
  <2>3. HandshakesOK' /\ [HS!HSNext]_RoadMap /\ AtStage(p, 2)'
    <3>1. 1 \in 0..3 /\ 2 = 1 + 1
        OBVIOUS
    <3>2. QED
        BY <1>2, <2>1, <2>2, <3>1, HandshakeAdvances
  <2>4. hm' \in HMControl /\ hm' # Returned /\ hm'.at = "reply_verack" /\ hm'.peerid = p
      BY <1>2, <1>4, <1>5, SendingIsControl
  <2>5. AwaitsKnowTheirStage'
      BY <1>2, <2>3, <2>4 DEF AwaitsKnowTheirStage
  <2>6. QED
      BY <1>1, <2>3, <2>4, <2>5, PrimedHMInvParts DEF HMStep, UpUntilReturned
<1>6. CASE TypeConnect(p) = "in"
  <2>1. AtStage(p, 0)
      BY <1>2, <1>6, FlagsShowStage DEF VersionInOrder
  <2>2. set_state_peers[p] \cup {"recv_version"} = Reached(TypeConnect(p), 1)
      BY <1>3, <1>6, <2>1, StagesOfRoad DEF AtStage
  <2>3. HandshakesOK' /\ [HS!HSNext]_RoadMap /\ AtStage(p, 1)'
    <3>1. 0 \in 0..3 /\ 1 = 0 + 1
        OBVIOUS
    <3>2. QED
        BY <1>2, <2>1, <2>2, <3>1, HandshakeAdvances
  <2>4. hm' \in HMControl /\ hm' # Returned /\ AwaitsKnowTheirStage'
    <3>1. CASE hm' = Select
        BY <3>1, SelectIsQuiet
    <3>2. CASE hm' = Sending("reply_version", p, c)
      <4>1. hm' \in HMControl /\ hm' # Returned /\ hm'.at = "reply_version" /\ hm'.peerid = p
          BY <1>2, <1>4, <3>2, SendingIsControl
      <4>2. QED
          BY <1>2, <1>3, <1>6, <2>3, <4>1 DEF AwaitsKnowTheirStage
    <3>3. QED
        BY <1>6, <3>1, <3>2
  <2>5. QED
      BY <1>1, <2>3, <2>4, PrimedHMInvParts DEF HMStep, UpUntilReturned
<1>7. QED
    BY <1>3, <1>5, <1>6 DEF Way

(* A message of a remote, in order, out of order, invalid or stale.        *)
LEMMA ReceiveReadyMessageStep ==
    ASSUME HMInv, ReceiveReadyMessage
    PROVE  HMStep
<1>1. PICK p, m : p = Head(pm_to_hm).peerid /\ m = Head(pm_to_hm).message
    OBVIOUS
<1>2. /\ hm = Select /\ m.conn \in Conns
      /\ DOMAIN set_context_peers = DOMAIN set_state_peers
      /\ UNCHANGED set_context_peers
    BY <1>1, ReceiveFacts, EventFields DEF ReceiveReadyMessage, Message, HMInv, MapsAgree
<1>3. CASE p \notin DOMAIN set_context_peers \cap DOMAIN set_state_peers
    BY <1>1, <1>2, <1>3, ReceiveIdle DEF ReceiveReadyMessage
<1>4. CASE p \in DOMAIN set_state_peers /\ m.cmd = "verack"
  <2>1. OnVerack(p, m)
      BY <1>1, <1>2, <1>4 DEF ReceiveReadyMessage
  <2>2. CASE VerackInOrder(p)
      BY <1>2, <1>4, <2>1, <2>2, ReceiveVerackInOrder DEF OnVerack
  <2>3. CASE ~VerackInOrder(p)
      BY <1>2, <1>4, <2>1, <2>3, ReceiveIdle DEF OnVerack
  <2>4. QED
      BY <2>2, <2>3
<1>5. CASE p \in DOMAIN set_state_peers /\ m.cmd # "verack"
  <2>1. OnVersion(p, m)
      BY <1>1, <1>2, <1>5 DEF ReceiveReadyMessage
  <2>2. CASE VersionInOrder(p) /\ m.cmd = "version"
    <3>1. set_state_peers' = [set_state_peers EXCEPT ![p] = @ \cup {"recv_version"}]
        BY <2>1, <2>2 DEF OnVersion
    <3>2. IF TypeConnect(p) = "out" THEN hm' = Sending("reply_verack", p, m.conn)
          ELSE hm' = Sending("reply_version", p, m.conn) \/ hm' = Select
        BY <2>1, <2>2 DEF OnVersion
    <3>3. QED
        BY <1>2, <1>5, <2>2, <3>1, <3>2, ReceiveVersionInOrder
  <2>3. CASE ~(VersionInOrder(p) /\ m.cmd = "version")
    <3>1. UNCHANGED set_state_peers /\ (hm' = Sending("violent", p, m.conn) \/ hm' = hm)
        BY <2>1, <2>3 DEF OnVersion
    <3>2. QED
        BY <1>2, <1>5, <3>1, ReceiveIdle
  <2>4. QED
      BY <2>2, <2>3
<1>6. QED
    BY <1>2, <1>3, <1>4, <1>5

(* What a send leaves alone, and that it is of an event PeerManager knows. *)
LEMMA SendFacts ==
    ASSUME HMInv, NEW event \in EventsToPeerManager, SendToPM(event)
    PROVE  /\ HMChannelTypeOK' /\ hm_up' = hm_up /\ UNCHANGED set_context_peers
           /\ tp_to_hm' \in {"open", "shutdown", "closed"}
<1>1. hm_to_pm' \in Seq(EventsToPeerManager)
    BY RangeOfAppend DEF HMInv, HMChannelTypeOK, SendToPM
<1>2. QED
    BY <1>1 DEF HMInv, HMOwnTypeOK, HMChannelTypeOK, SendToPM

(* What the handler has in hand at an await.                               *)
LEMMA HandFields ==
    ASSUME HMInv, hm.at \in Sends
    PROVE  /\ hm.peerid \in PeerId /\ hm.conn \in Conns /\ hm # Returned /\ hm_up
           /\ hm.peerid \in DOMAIN set_state_peers
           /\ hm.peerid \in DOMAIN set_context_peers
           /\ \A cmd \in {"version", "verack"} : Reply(cmd) \in EventsToPeerManager
           /\ Violent(hm.peerid, hm.conn) \in EventsToPeerManager
<1>1. hm \in [at : Sends, peerid : PeerId, conn : Conns] /\ hm # Returned
    BY DEF HMInv, HMOwnTypeOK, HMControl, Select, Returned, Sends
<1>2. /\ hm.peerid \in PeerId /\ hm.conn \in Conns
      /\ hm.peerid \in DOMAIN set_context_peers /\ hm.peerid \in DOMAIN set_state_peers
    BY <1>1 DEF HMInv, AwaitsKnowTheirStage, MapsAgree
<1>3. set_context_peers[hm.peerid] \in Conns
    BY <1>2 DEF HMInv, HMOwnTypeOK, HashMap
<1>4. \A cmd \in {"version", "verack"} : Reply(cmd) \in EventsToPeerManager
    BY <1>2, <1>3 DEF Reply, ReadyMessage, EventsToPeerManager, ReadyMessageEvent, Message
<1>5. Violent(hm.peerid, hm.conn) \in EventsToPeerManager
    BY <1>2 DEF Violent, EventsToPeerManager
<1>6. hm_up
    BY <1>1 DEF HMInv, UpUntilReturned
<1>7. QED
    BY <1>1, <1>2, <1>4, <1>5, <1>6

(* A reply or a report is sent, and its flag raised.                       *)
LEMMA SendStep ==
    ASSUME HMInv, SendNewVersion \/ SendReplyVersion \/ SendReplyVerack \/ SendViolent
    PROVE  HMStep
<1>0. hm.at \in Sends
    BY DEF SendNewVersion, SendReplyVersion, SendReplyVerack, SendViolent, Sends
<1>1. PICK p, c : p = hm.peerid /\ c = hm.conn
    OBVIOUS
<1>2. /\ p \in PeerId /\ c \in Conns /\ hm_up /\ HandshakesOK
      /\ p \in DOMAIN set_state_peers /\ p \in DOMAIN set_context_peers
      /\ TypeConnect(p) \in Way
    BY <1>0, <1>1, HandFields, HMInvParts, WayOfConnection
<1>3. /\ HMChannelTypeOK' /\ hm_up' = hm_up /\ UNCHANGED set_context_peers
      /\ tp_to_hm' \in {"open", "shutdown", "closed"}
  <2>1. /\ Reply("version") \in EventsToPeerManager /\ Reply("verack") \in EventsToPeerManager
        /\ Violent(hm.peerid, hm.conn) \in EventsToPeerManager
      BY <1>0, HandFields
  <2>2. QED
      BY <2>1, SendFacts DEF SendNewVersion, SendReplyVersion, SendReplyVerack, SendViolent
<1> DEFINE StageGoal == HandshakesOK' /\ [HS!HSNext]_RoadMap
           HandGoal  == hm' \in HMControl /\ hm' # Returned /\ AwaitsKnowTheirStage'
<1> SUFFICES StageGoal /\ HandGoal
    BY <1>2, <1>3, PrimedHMInvParts DEF HMStep, UpUntilReturned
<1>4. CASE SendViolent
    BY <1>2, <1>3, <1>4, HandshakesKept, SelectIsQuiet DEF SendViolent
<1>5. CASE SendNewVersion
  <2>1. HandGoal
      BY <1>5, SelectIsQuiet DEF SendNewVersion
  <2>2. CASE ~(set_state_peers[p] \subseteq {"completed_handshake"})
      BY <1>1, <1>2, <1>3, <1>5, <2>1, <2>2, HandshakesKept DEF SendNewVersion
  <2>3. CASE set_state_peers[p] \subseteq {"completed_handshake"}
    <3>1. AtStage(p, 0) /\ TypeConnect(p) = "out"
        BY <1>1, <1>2, <1>5, <2>3, FlagsShowStage
        DEF SendNewVersion, HMInv, AwaitsKnowTheirStage
    <3>2. set_state_peers[p] \cup {"send_version"} = Reached(TypeConnect(p), 1)
        BY <1>2, <3>1, StagesOfRoad DEF AtStage
    <3>3. 0 \in 0..3 /\ 1 = 0 + 1
        OBVIOUS
    <3>4. set_state_peers' = [set_state_peers EXCEPT ![p] = @ \cup {"send_version"}]
        BY <1>1, <1>5, <2>3 DEF SendNewVersion, Raise
    <3>5. StageGoal
        BY <1>2, <1>3, <3>1, <3>2, <3>3, <3>4, HandshakeAdvances
    <3>6. QED
        BY <2>1, <3>5
  <2>4. QED
      BY <2>2, <2>3
<1>6. CASE SendReplyVersion
  <2>1. AtStage(p, 1) /\ TypeConnect(p) = "in"
      BY <1>1, <1>6 DEF SendReplyVersion, HMInv, AwaitsKnowTheirStage
  <2>2. set_state_peers[p] \cup {"send_version"} = Reached(TypeConnect(p), 2)
      BY <1>2, <2>1, StagesOfRoad DEF AtStage
  <2>3. 1 \in 0..3 /\ 2 = 1 + 1
      OBVIOUS
  <2>4. set_state_peers' = [set_state_peers EXCEPT ![p] = @ \cup {"send_version"}]
      BY <1>1, <1>6 DEF SendReplyVersion, Raise
  <2>5. StageGoal /\ AtStage(p, 2)'
      BY <1>2, <1>3, <2>1, <2>2, <2>3, <2>4, HandshakeAdvances
  <2>6. hm' = Sending("reply_verack", p, c) /\ "reply_verack" \in Sends
      BY <1>1, <1>6 DEF SendReplyVersion, Sends
  <2>7. hm' \in HMControl /\ hm' # Returned /\ hm'.at = "reply_verack" /\ hm'.peerid = p
      BY <1>2, <2>6, SendingIsControl
  <2>8. AwaitsKnowTheirStage'
      BY <1>2, <1>3, <2>5, <2>7 DEF AwaitsKnowTheirStage
  <2>9. QED
      BY <2>5, <2>7, <2>8
<1>7. CASE SendReplyVerack
  <2>1. AtStage(p, 2)
      BY <1>1, <1>7 DEF SendReplyVerack, HMInv, AwaitsKnowTheirStage
  <2>2. set_state_peers[p] \cup {"send_verack"} = Reached(TypeConnect(p), 3)
      BY <1>2, <2>1, StagesOfRoad DEF AtStage
  <2>3. 2 \in 0..3 /\ 3 = 2 + 1
      OBVIOUS
  <2>4. set_state_peers' = [set_state_peers EXCEPT ![p] = @ \cup {"send_verack"}]
      BY <1>1, <1>7 DEF SendReplyVerack, Raise
  <2>5. StageGoal
      BY <1>2, <1>3, <2>1, <2>2, <2>3, <2>4, HandshakeAdvances
  <2>6. HandGoal
      BY <1>7, SelectIsQuiet DEF SendReplyVerack
  <2>7. QED
      BY <2>5, <2>6
<1>8. QED
    BY <1>4, <1>5, <1>6, <1>7

(* The task ends, wherever it was: its channel to PeerManager loses the    *)
(* receiver, its maps are dropped as they were.                            *)
LEMMA ReturnStep ==
    ASSUME HMInv, Return
    PROVE  HMStep
<1>0. << >> \in Seq(EventsToHandleMessage)
    OBVIOUS
<1>1. HMChannelTypeOK'
    BY <1>0 DEF Return, HMInv, HMChannelTypeOK
<1>2. HandshakesOK' /\ UNCHANGED RoadMap
    BY HandshakesKept, HMInvParts DEF Return
<1>3. hm' \in HMControl /\ AwaitsKnowTheirStage' /\ UpUntilReturned'
    BY DEF Return, Returned, HMControl, AwaitsKnowTheirStage, Sends, UpUntilReturned
<1>4. QED
    BY <1>1, <1>2, <1>3, HMInvParts, PrimedHMInvParts DEF HMStep, Return

(* The handler goes back to its loop, or the task returns.                 *)
LEMMA EndStep ==
    ASSUME HMInv, SendFails \/ Stop
    PROVE  HMStep
<1>1. \/ Return
      \/ hm' = Select /\ hm.at \in Sends /\ UNCHANGED << set_context_peers, set_state_peers, tp_to_hm, chanVars >>
    BY DEF SendFails, Stop
<1>2. CASE Return
    BY <1>2, ReturnStep
<1>3. CASE /\ hm' = Select /\ hm.at \in Sends
           /\ UNCHANGED << set_context_peers, set_state_peers, tp_to_hm, chanVars >>
  <2>1. HandshakesOK' /\ UNCHANGED RoadMap
      BY <1>3, HandshakesKept, HMInvParts
  <2>2. HMChannelTypeOK' /\ hm_up'
      BY <1>3, HandFields DEF HMInv, HMChannelTypeOK, chanVars, channels
  <2>3. QED
      BY <1>3, <2>1, <2>2, SelectIsQuiet, HMInvParts, PrimedHMInvParts
      DEF HMStep, UpUntilReturned
<1>4. QED
    BY <1>1, <1>2, <1>3

(* A step that touches nothing of the actor's own.                         *)
LEMMA ForeignStep ==
    ASSUME HMInv, UNCHANGED << hmOwn, hm_up >>, HMChannelTypeOK',
           tp_to_hm' \in {"open", "shutdown", "closed"}
    PROVE  HMStep
<1>1. HandshakesOK' /\ UNCHANGED RoadMap /\ \A p, k : AtStage(p, k)' = AtStage(p, k)
    BY HandshakesKept, HMInvParts DEF hmOwn
<1>2. AwaitsKnowTheirStage'
    BY <1>1 DEF HMInv, AwaitsKnowTheirStage, hmOwn, AtStage, TypeConnect
<1>3. QED
    BY <1>1, <1>2, HMInvParts, PrimedHMInvParts DEF HMStep, hmOwn, UpUntilReturned

(* PeerManager and ThreadProtocol touch nothing of the actor's own.        *)
LEMMA HMEnvStep ==
    ASSUME HMInv, HMEnv
    PROVE  HMStep
<1>1. /\ HMChannelTypeOK /\ tp_to_hm \in {"open", "shutdown", "closed"}
    BY HMInvParts
<1>2. ASSUME NEW e \in EventsToHandleMessage, EnvPeerManagerSends(e) PROVE HMStep
  <2>1. HMChannelTypeOK'
      BY <1>1, <1>2, RangeOfAppend DEF EnvPeerManagerSends, HMChannelTypeOK
  <2>2. QED
      BY <1>1, <1>2, <2>1, ForeignStep DEF EnvPeerManagerSends
<1>3. CASE EnvPeerManagerReceives
  <2>1. HMChannelTypeOK'
      BY <1>1, <1>3, RangeOfTail DEF EnvPeerManagerReceives, HMChannelTypeOK
  <2>2. QED
      BY <1>1, <1>3, <2>1, ForeignStep DEF EnvPeerManagerReceives
<1>4. CASE EnvPeerManagerReturns
  <2>1. << >> \in Seq(EventsToPeerManager)
      OBVIOUS
  <2>2. HMChannelTypeOK'
      BY <1>1, <1>4, <2>1 DEF EnvPeerManagerReturns, HMChannelTypeOK
  <2>3. QED
      BY <1>1, <1>4, <2>2, ForeignStep DEF EnvPeerManagerReturns
<1>5. CASE EnvThreadProtocol
    BY <1>1, <1>5, ForeignStep DEF EnvThreadProtocol, HMChannelTypeOK, chanVars, channels
<1>6. \A p \in 1..Cardinality(Conns) :
         /\ \A c \in Conns : NewConnection(p, c) \in EventsToHandleMessage
         /\ \A m \in Message : ReadyMessage(p, m) \in EventsToHandleMessage
         /\ CompletedPeer(p) \in EventsToHandleMessage
  <2>1. \A p \in 1..Cardinality(Conns) : p \in PeerId
    <3>1. Cardinality(Conns) \in Nat
        BY ConnsAssumption, FS_Union, FS_CardinalityType DEF Conns
    <3>2. QED
        BY <3>1 DEF PeerId
  <2>2. QED
      BY <2>1 DEF NewConnection, ReadyMessage, CompletedPeer, EventsToHandleMessage,
                  ReadyMessageEvent
<1>7. CompletedAllPeer \in EventsToHandleMessage
    BY DEF EventsToHandleMessage
<1>8. QED
    BY <1>2, <1>3, <1>4, <1>5, <1>6, <1>7 DEF HMEnv
-----------------------------------------------------------------------------

(* The invariant holds at the start, which maps to the start of Handshake. *)
LEMMA HMInitInv ==
    ASSUME HMInit
    PROVE  HMInv /\ HS!HSInit
<1>1. HMOwnTypeOK /\ HMChannelTypeOK
    BY EmptyIsHashMap DEF HMInit, HMOwnInit, ChanInit, HMOwnTypeOK, HMControl, HMChannelTypeOK
<1>2. MapsAgree /\ EveryoneOnRoad
    BY EmptyIsHashMap DEF HMInit, HMOwnInit, MapsAgree, EveryoneOnRoad
<1>3. AwaitsKnowTheirStage /\ UpUntilReturned
    BY DEF HMInit, HMOwnInit, ChanInit, AwaitsKnowTheirStage, UpUntilReturned,
           Select, Returned, Sends
<1>4. HS!HSInit
    BY EmptyIsHashMap DEF HMInit, HMOwnInit, RoadMap, HS!HSInit, HS!Absent
<1>5. QED
    BY <1>1, <1>2, <1>3, <1>4 DEF HMInv

(* Every step keeps the invariant and is a step of Handshake or a stutter. *)
LEMMA HMNextStep ==
    ASSUME HMInv, [HMNext \/ HMEnv]_hmVars
    PROVE  HMStep
<1>1. CASE HMNext
    BY <1>1, ReceiveNewConnectionStep, ReceiveReadyMessageStep, ReceiveCompletedStep,
       SendStep, EndStep DEF HMNext
<1>2. CASE HMEnv
    BY <1>2, HMEnvStep
<1>3. CASE UNCHANGED hmVars
  <2>1. HMChannelTypeOK'
      BY <1>3 DEF hmVars, HMInv, HMChannelTypeOK
  <2>2. QED
      BY <1>3, <2>1, ForeignStep, HMInvParts DEF hmVars
<1>4. QED
    BY <1>1, <1>2, <1>3

(* HMInv is an invariant of the actor in any surroundings.                 *)
THEOREM HMInvariance == HMSpec => []HMInv
<1>1. HMInit => HMInv
    BY HMInitInv
<1>2. HMInv /\ [HMNext \/ HMEnv]_hmVars => HMInv'
    BY HMNextStep DEF HMStep
<1>3. QED
    BY <1>1, <1>2, PTL DEF HMSpec

(* Every variable of the actor keeps its type, the handler waits nowhere   *)
(* but at its four sends and finds its entries there again, and a          *)
(* handshake is completed exactly when its Verack was received.            *)
THEOREM HMTypeCorrect == HMSpec => []HMTypeOK
<1>1. HMInv => HMTypeOK
  <2> SUFFICES ASSUME HMInv PROVE HMTypeOK
      OBVIOUS
  <2>1. ASSUME NEW p \in DOMAIN set_state_peers
        PROVE  "completed_handshake" \in set_state_peers[p] <=> "recv_verack" \in set_state_peers[p]
    <3>1. PICK k \in 0..4 : AtStage(p, k)
        BY DEF HMInv, EveryoneOnRoad
    <3>2. k \in {0, 1, 2, 3, 4} /\ set_state_peers[p] = Reached(TypeConnect(p), k)
        BY <3>1 DEF AtStage
    <3>3. QED
        BY <3>2, StagesOfRoad, WayOfConnection
  <2>2. hm.at \in Sends => hm.peerid \in DOMAIN set_context_peers \cap DOMAIN set_state_peers
      BY DEF HMInv, AwaitsKnowTheirStage, MapsAgree
  <2>3. QED
      BY <2>1, <2>2 DEF HMInv, HMTypeOK
<1>2. QED
    BY <1>1, HMInvariance, PTL

(* Context and flags are kept under the same ids at every await.           *)
THEOREM HMMapsAgree == HMSpec => []MapsAgree
<1>1. HMInv => MapsAgree
    BY DEF HMInv
<1>2. QED
    BY <1>1, HMInvariance, PTL

(* HandleMessage implements Handshake: a handshake moves a stage at a time *)
(* along the road of its direction, whatever PeerManager sends.            *)
THEOREM HMImplementsHandshake == HMSpec => ImplementsHandshake
<1>1. HMInit => HS!HSInit
    BY HMInitInv
<1>2. HMInv /\ [HMNext \/ HMEnv]_hmVars => [HS!HSNext]_RoadMap
    BY HMNextStep DEF HMStep
<1>3. QED
    BY <1>1, <1>2, HMInvariance, PTL DEF HMSpec, ImplementsHandshake, HS!HSSpec
=============================================================================
