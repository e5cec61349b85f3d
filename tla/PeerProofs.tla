----------------------------- MODULE PeerProofs -----------------------------
(***************************************************************************)
(* Theorems about one Peer with its subtasks, for any capacity of its      *)
(* channels, any set of commands and any number of messages: what it took  *)
(* is written in order and without gaps and, when it has returned, all of  *)
(* it; and seen from PeerManager the three tasks are the one of PeerActor. *)
(*                                                                         *)
(* Both directions are pipelines: the invariant says of each place in one  *)
(* which position of the ghost sequence at its source it holds.            *)
(***************************************************************************)
EXTENDS Peer, ChannelProofs

(* A Peer between two places of its loop runs; one that waits for its      *)
(* subtasks has told, or seen the end of, each; one that has returned has  *)
(* seen both end.                                                          *)
Stages ==
    /\ running_peers \subseteq DOMAIN set_id_peers
    /\ state.at \in {"to_pm", "to_write", "stop_write"} => Running
    /\ state.at = "stop_write" => "write" \in state.awaits
    /\ state.at \in {"stop_write", "join"} /\ "read" \notin state.awaits => ReadDone
    /\ state.at = "join" /\ "write" \notin state.awaits => WriteDone
    /\ Self \in DOMAIN set_id_peers /\ ~Running
          => state.at = "join" /\ ReadDone /\ WriteDone

InSending == IF task_read.at = "sending" THEN 1 ELSE 0

(* From the remote to the Peer.                                            *)
ReadPipeline ==
    /\ Len(parsed) <= MaxMessages
    /\ Len(parsed) = Len(received) + Len(read_to_peer) + InSending
    /\ \A i \in DOMAIN received : received[i] = parsed[i]
    /\ \A i \in DOMAIN read_to_peer :
          read_to_peer[i] = [cmd |-> parsed[Len(received) + i], conn |-> Self]
    /\ task_read.at = "sending"
          => task_read.message = [cmd |-> parsed[Len(parsed)], conn |-> Self]

(* From PeerManager to the socket, until a write fails: the messages ahead *)
(* of the channel are written or being written.                            *)
Ahead == Len(socket) + (IF task_write.at = "writing" THEN 1 ELSE 0)

(* The events of the channel that are messages: Shutdown is the last of it *)
(* from the time the Peer sends it until TaskWrite receives it.            *)
ShutdownSent == state.at = "join"
Queued == Len(peer_to_write) - (IF ShutdownSent /\ task_write.at # "done" THEN 1 ELSE 0)

WritePipeline ==
    /\ task_write.at = "done" => ShutdownSent /\ peer_to_write = << >>
    /\ ShutdownSent /\ task_write.at # "done"
          => peer_to_write # << >> /\ peer_to_write[Len(peer_to_write)] = Shutdown
    /\ Len(taken) = Ahead + Queued + (IF state.at = "to_write" THEN 1 ELSE 0)
    /\ \A i \in 1..Queued : peer_to_write[i] = ReadyLowMessage(taken[Ahead + i])
    /\ task_write.at = "writing" => task_write.message = taken[Len(socket) + 1]
    /\ state.at = "to_write" => state.message = taken[Len(taken)]

WrittenInOrder ==
    /\ Len(socket) <= Len(taken) /\ \A i \in DOMAIN socket : socket[i] = taken[i]
    /\ task_write.at # "failed" => WritePipeline

DetailInv ==
    /\ DetailTypeOK
    /\ pm_to_peer \in [Conns -> Seq(EventsToPeer)]
    /\ Stages
    /\ ReadPipeline
    /\ WrittenInOrder
-----------------------------------------------------------------------------
(* What is known of the places of the pipelines.                           *)
LEMMA PlaceFacts ==
    ASSUME DetailTypeOK
    PROVE  /\ Len(parsed) \in Nat /\ Len(received) \in Nat /\ Len(read_to_peer) \in Nat
           /\ Len(taken) \in Nat /\ Len(socket) \in Nat /\ Len(peer_to_write) \in Nat
           /\ DOMAIN parsed = 1..Len(parsed) /\ DOMAIN received = 1..Len(received)
           /\ DOMAIN read_to_peer = 1..Len(read_to_peer)
           /\ DOMAIN taken = 1..Len(taken) /\ DOMAIN socket = 1..Len(socket)
           /\ DOMAIN peer_to_write = 1..Len(peer_to_write)
           /\ InSending \in {0, 1} /\ Ahead \in {Len(socket), Len(socket) + 1}
           /\ Self \in Conns /\ Capacity \in Nat \ {0} /\ MaxMessages \in Nat
BY SelfAssumption, CapacityAssumption, MaxMessagesAssumption DEF DetailTypeOK, InSending, Ahead

(* PeerActor's names for what the channels carry are the same.             *)
LEMMA SameNames ==
    /\ PA!Conns = Conns /\ PA!EventsToPeer = EventsToPeer /\ PA!Shutdown = Shutdown
    /\ \A f, k, v : PA!Insert(f, k, v) = Insert(f, k, v)
    /\ \A p, m : PA!ReadyMessage(p, m) = ReadyMessage(p, m)
    /\ \A q : PA!HasRoom(q) = HasRoom(q)
    /\ PA!channels = channels /\ PA!chanVars = chanVars
BY DEF Conns, EventsToPeer, Message, Shutdown, Insert, ReadyMessage, HasRoom, channels, chanVars,
       PA!Conns, PA!EventsToPeer, PA!Message, PA!Shutdown, PA!Insert, PA!ReadyMessage, PA!HasRoom,
       PA!channels, PA!chanVars

(* The surroundings do not touch the tasks, and start a Peer only once.    *)
LEMMA EnvStep ==
    ASSUME DetailInv, DetailEnv
    PROVE  /\ UNCHANGED taskVars
           /\ pm_to_peer' \in [Conns -> Seq(EventsToPeer)]
           /\ running_peers' \subseteq DOMAIN set_id_peers'
           /\ Running => Running'
           /\ Self \in DOMAIN set_id_peers' /\ ~Running' => Self \in DOMAIN set_id_peers /\ ~Running
<1>0. /\ UNCHANGED taskVars /\ PA!PAEnv /\ pm_to_peer \in [Conns -> Seq(EventsToPeer)]
      /\ running_peers \subseteq DOMAIN set_id_peers
    BY DEF DetailEnv, DetailInv, Stages
<1>1. ASSUME NEW c \in Conns, PA!EnvSpawns(c)
      PROVE  /\ UNCHANGED pm_to_peer /\ running_peers' = running_peers \cup {c}
             /\ DOMAIN set_id_peers' = DOMAIN set_id_peers \cup {c}
  <2>1. PICK p : set_id_peers' = Insert(set_id_peers, c, p)
      BY <1>1, SameNames DEF PA!EnvSpawns
  <2>2. QED
      BY <1>1, <2>1 DEF PA!EnvSpawns, PA!channels, Insert
<1>2. ASSUME NEW c \in Conns, NEW e \in EventsToPeer, PA!EnvTells(c, e)
      PROVE  /\ pm_to_peer' \in [Conns -> Seq(EventsToPeer)]
             /\ UNCHANGED << running_peers, set_id_peers >>
    BY <1>0, <1>2, AppendToOne DEF PA!EnvTells
<1>3. CASE (\E p \in DOMAIN set_all_peers : PA!EnvDrops(p)) \/ PA!EnvListens \/ PA!EnvLeaves
    BY <1>0, <1>3 DEF PA!EnvDrops, PA!EnvListens, PA!EnvLeaves, PA!channels, Running
<1>4. CASE \E c \in Conns : PA!EnvSpawns(c)
    BY <1>0, <1>1, <1>4 DEF Running
<1>5. CASE \E c \in Conns, e \in EventsToPeer : PA!EnvTells(c, e)
    BY <1>0, <1>2, <1>5 DEF Running
<1>6. QED
    BY <1>0, <1>3, <1>4, <1>5, SameNames DEF PA!PAEnv

-----------------------------------------------------------------------------
(* From the remote to the Peer.                                            *)

(* TaskRead's steps.                                                       *)
LEMMA TaskReadKeepsOrder ==
    ASSUME DetailInv, (\E cmd \in Command : TaskReadParses(cmd)) \/ TaskReadSends \/ TaskReadReturns
    PROVE  ReadPipeline'
<1>0. DetailTypeOK /\ ReadPipeline
    BY DEF DetailInv
<1>1. ASSUME NEW cmd \in Command, TaskReadParses(cmd) PROVE ReadPipeline'
  <2>1. /\ task_read.at = "reading" /\ Len(parsed) < MaxMessages /\ parsed' = Append(parsed, cmd)
        /\ UNCHANGED << read_to_peer, received >>
        /\ task_read'.at = "sending" /\ task_read'.message = [cmd |-> cmd, conn |-> Self]
      BY <1>1 DEF TaskReadParses, Holding
  <2>2. /\ Len(parsed') = Len(parsed) + 1 /\ parsed'[Len(parsed')] = cmd
        /\ \A i \in 1..Len(parsed) : parsed'[i] = parsed[i]
      BY <1>0, <2>1 DEF DetailTypeOK
  <2>3. /\ InSending = 0 /\ InSending' = 1
      BY <2>1 DEF InSending
  <2>4. Len(parsed) = Len(received) + Len(read_to_peer)
      BY <1>0, <2>3, PlaceFacts DEF ReadPipeline
  <2>5. \A i \in DOMAIN received : i \in 1..Len(parsed)
      BY <1>0, <2>4, PlaceFacts
  <2>6. \A i \in DOMAIN read_to_peer : Len(received) + i \in 1..Len(parsed)
      BY <1>0, <2>4, PlaceFacts
  <2>7. Len(parsed') <= MaxMessages /\ Len(parsed') = Len(received) + Len(read_to_peer) + 1
      BY <1>0, <2>1, <2>2, <2>4, PlaceFacts
  <2>8. QED
      BY <1>0, <2>1, <2>2, <2>3, <2>5, <2>6, <2>7 DEF ReadPipeline
<1>2. CASE TaskReadSends
  <2>1. /\ task_read.at = "sending" /\ task_read'.at = "reading"
        /\ read_to_peer' = Append(read_to_peer, task_read.message)
        /\ UNCHANGED << parsed, received >>
        /\ task_read.message \in Message
      BY <1>0, <1>2 DEF TaskReadSends, At, DetailTypeOK
  <2>2. /\ Len(read_to_peer') = Len(read_to_peer) + 1
        /\ DOMAIN read_to_peer' = DOMAIN read_to_peer \cup {Len(read_to_peer) + 1}
        /\ read_to_peer'[Len(read_to_peer) + 1] = task_read.message
        /\ \A i \in DOMAIN read_to_peer : read_to_peer'[i] = read_to_peer[i]
      BY <1>0, <2>1 DEF DetailTypeOK
  <2>3. InSending = 1 /\ InSending' = 0
      BY <2>1 DEF InSending
  <2>4. /\ Len(parsed) = Len(received) + (Len(read_to_peer) + 1)
        /\ Len(parsed) = Len(received) + (Len(read_to_peer) + 1) + 0
      BY <1>0, <2>3, PlaceFacts DEF ReadPipeline
  <2>5. \A i \in DOMAIN read_to_peer' :
            read_to_peer'[i] = [cmd |-> parsed[Len(received) + i], conn |-> Self]
      BY <1>0, <2>1, <2>2, <2>4 DEF ReadPipeline
  <2>6. QED
      BY <1>0, <2>1, <2>2, <2>3, <2>4, <2>5 DEF ReadPipeline
<1>3. CASE TaskReadReturns
    BY <1>0, <1>3 DEF TaskReadReturns, At, ReadPipeline, InSending
<1>4. QED
    BY <1>1, <1>2, <1>3

(* The Peer receives a message.                                            *)
LEMMA PeerKeepsOrder ==
    ASSUME DetailInv, PeerFromTaskRead
    PROVE  ReadPipeline'
<1>0. DetailTypeOK /\ ReadPipeline
    BY DEF DetailInv
<1>1. /\ read_to_peer # << >> /\ read_to_peer' = Tail(read_to_peer)
      /\ received' = Append(received, Head(read_to_peer).cmd)
      /\ UNCHANGED << task_read, parsed >>
    BY DEF PeerFromTaskRead
<1>2. /\ Len(read_to_peer) > 0 /\ Head(read_to_peer) = read_to_peer[1]
      /\ Len(read_to_peer') = Len(read_to_peer) - 1
      /\ DOMAIN read_to_peer' = 1..(Len(read_to_peer) - 1)
      /\ \A i \in DOMAIN read_to_peer' : read_to_peer'[i] = read_to_peer[i + 1]
      /\ Head(read_to_peer) \in Message
    BY <1>0, <1>1, PlaceFacts DEF DetailTypeOK
<1>3. Head(read_to_peer).cmd = parsed[Len(received) + 1]
  <2>1. 1 \in DOMAIN read_to_peer
      BY <1>0, <1>2, PlaceFacts
  <2>2. QED
      BY <1>0, <1>2, <2>1 DEF ReadPipeline
<1>4. /\ Len(received') = Len(received) + 1
      /\ DOMAIN received' = DOMAIN received \cup {Len(received) + 1}
      /\ received'[Len(received) + 1] = Head(read_to_peer).cmd
      /\ \A i \in DOMAIN received : received'[i] = received[i]
    BY <1>0, <1>1 DEF DetailTypeOK
<1>5. \A i \in DOMAIN received' : received'[i] = parsed[i]
    BY <1>0, <1>3, <1>4 DEF ReadPipeline
<1>6. \A i \in DOMAIN read_to_peer' :
          read_to_peer'[i] = [cmd |-> parsed[Len(received') + i], conn |-> Self]
  <2> SUFFICES ASSUME NEW i \in DOMAIN read_to_peer'
               PROVE  read_to_peer'[i] = [cmd |-> parsed[Len(received') + i], conn |-> Self]
      OBVIOUS
  <2>1. i + 1 \in DOMAIN read_to_peer /\ read_to_peer'[i] = read_to_peer[i + 1]
      BY <1>0, <1>2, PlaceFacts
  <2>2. Len(received) + (i + 1) = Len(received') + i
      BY <1>0, <1>2, <1>4, PlaceFacts
  <2>3. QED
      BY <1>0, <2>1, <2>2 DEF ReadPipeline
<1>7. Len(parsed) = Len(received') + Len(read_to_peer') + InSending
    BY <1>0, <1>2, <1>4, PlaceFacts DEF ReadPipeline
<1>8. QED
    BY <1>0, <1>1, <1>5, <1>6, <1>7 DEF ReadPipeline, InSending

-----------------------------------------------------------------------------
(* From PeerManager to the socket.                                         *)

(* A step that moves no message, and brings the Peer neither to the send   *)
(* to TaskWrite nor to the joins, or takes place after a failed write.     *)
LEMMA OrderKept ==
    ASSUME DetailInv, UNCHANGED << task_write, peer_to_write, taken, socket >>,
           \/ UNCHANGED state
           \/ {state.at, state'.at} \cap {"to_write", "join"} = {}
           \/ task_write.at = "failed"
    PROVE  WrittenInOrder'
<1>1. WrittenInOrder
    BY DEF DetailInv
<1>2. CASE task_write.at = "failed"
    BY <1>1, <1>2 DEF WrittenInOrder
<1>3. CASE UNCHANGED state
    BY <1>1, <1>3 DEF WrittenInOrder, WritePipeline, Queued, ShutdownSent, Ahead
<1>4. CASE {state.at, state'.at} \cap {"to_write", "join"} = {}
  <2>1. /\ state.at # "to_write" /\ state'.at # "to_write"
        /\ state.at # "join" /\ state'.at # "join"
      BY <1>4
  <2>2. QED
      BY <1>1, <2>1 DEF WrittenInOrder, WritePipeline, Queued, ShutdownSent, Ahead
<1>5. QED
    BY <1>2, <1>3, <1>4

(* TaskWrite receives the next message, or the Shutdown behind them all.   *)
LEMMA TaskWriteReceivesInOrder ==
    ASSUME DetailInv, TaskWriteReceives
    PROVE  WrittenInOrder'
<1>0. DetailTypeOK /\ WrittenInOrder
    BY DEF DetailInv
<1>1. /\ task_write.at = "receiving" /\ peer_to_write # << >>
      /\ peer_to_write' = Tail(peer_to_write)
      /\ task_write' = IF Head(peer_to_write) = Shutdown THEN At("done")
                       ELSE Holding("writing", Head(peer_to_write).message)
      /\ UNCHANGED << state, taken, socket >>
    BY DEF TaskWriteReceives
<1>2. /\ Len(peer_to_write) > 0 /\ Head(peer_to_write) = peer_to_write[1]
      /\ Len(peer_to_write') = Len(peer_to_write) - 1
      /\ DOMAIN peer_to_write' = 1..(Len(peer_to_write) - 1)
      /\ \A i \in DOMAIN peer_to_write' : peer_to_write'[i] = peer_to_write[i + 1]
      /\ peer_to_write' \in Seq(EventsToPeer)
    BY <1>0, <1>1, PlaceFacts DEF DetailTypeOK
<1>3. WritePipeline /\ Ahead = Len(socket)
    BY <1>0, <1>1 DEF WrittenInOrder, Ahead
<1>4. \A m : ReadyLowMessage(m) # Shutdown /\ ReadyLowMessage(m).message = m
    BY DEF ReadyLowMessage, Shutdown
<1>5. CASE Head(peer_to_write) = Shutdown
  <2>1. Queued \in Nat
      BY <1>0, <1>2, PlaceFacts DEF Queued
  <2>2. Queued = 0
    <3> SUFFICES ASSUME 1 \in 1..Queued PROVE FALSE
        BY <2>1
    <3>1. QED
        BY <1>2, <1>3, <1>4, <1>5 DEF WritePipeline
  <2>3. ShutdownSent /\ Len(peer_to_write) = 1
      BY <1>0, <1>1, <1>2, <2>2, PlaceFacts DEF Queued
  <2>4. peer_to_write' = << >>
      BY <1>2, <2>3
  <2>5. task_write'.at = "done" /\ ShutdownSent' /\ Ahead' = Len(socket)
      BY <1>1, <1>5, <2>3 DEF At, ShutdownSent, Ahead
  <2>6. Queued' = 0
      BY <2>4, <2>5 DEF Queued
  <2>7. WritePipeline'
      BY <1>0, <1>1, <1>3, <2>2, <2>3, <2>4, <2>5, <2>6, PlaceFacts DEF WritePipeline, ShutdownSent
  <2>8. QED
      BY <1>0, <1>1, <2>7 DEF WrittenInOrder
<1>6. CASE Head(peer_to_write) # Shutdown
  <2>1. ShutdownSent => Len(peer_to_write) > 1
    <3> SUFFICES ASSUME ShutdownSent, Len(peer_to_write) = 1 PROVE FALSE
        BY <1>0, <1>2, PlaceFacts
    <3>1. QED
        BY <1>1, <1>2, <1>3, <1>6 DEF WritePipeline
  <2>2. Queued \in Nat /\ 1 \in 1..Queued
      BY <1>0, <1>1, <1>2, <2>1, PlaceFacts DEF Queued
  <2>3. /\ task_write'.at = "writing" /\ task_write'.message = taken[Len(socket) + 1]
        /\ Ahead' = Len(socket) + 1 /\ UNCHANGED ShutdownSent
      BY <1>1, <1>2, <1>3, <1>4, <1>6, <2>2 DEF WritePipeline, Holding, Ahead, ShutdownSent
  <2>4. Queued' = Queued - 1
      BY <1>0, <1>1, <1>2, <2>3, PlaceFacts DEF Queued
  <2>5. Len(taken) = Ahead' + Queued' + (IF state'.at = "to_write" THEN 1 ELSE 0)
    <3>1. Len(taken) = Ahead + Queued + (IF state.at = "to_write" THEN 1 ELSE 0)
        BY <1>3 DEF WritePipeline
    <3>2. QED
        BY <1>0, <1>1, <1>3, <2>2, <2>3, <2>4, <3>1, PlaceFacts
  <2>6. \A i \in 1..Queued' : peer_to_write'[i] = ReadyLowMessage(taken[Ahead' + i])
    <3> SUFFICES ASSUME NEW i \in 1..Queued'
                 PROVE  peer_to_write'[i] = ReadyLowMessage(taken[Ahead' + i])
        OBVIOUS
    <3>1. i + 1 \in 1..Queued /\ Queued <= Len(peer_to_write)
        BY <1>0, <2>2, <2>4, PlaceFacts DEF Queued
    <3>2. peer_to_write'[i] = peer_to_write[i + 1]
      <4>1. i \in 1..(Len(peer_to_write) - 1)
          BY <1>0, <2>2, <2>4, <3>1, PlaceFacts
      <4>2. QED
          BY <1>2, <4>1
    <3>3. Ahead + (i + 1) = Ahead' + i
        BY <1>0, <1>3, <2>3, <2>2, <2>4, PlaceFacts
    <3>4. QED
        BY <1>3, <3>1, <3>2, <3>3 DEF WritePipeline
  <2>7. ShutdownSent =>
            peer_to_write' # << >> /\ peer_to_write'[Len(peer_to_write')] = Shutdown
    <3> SUFFICES ASSUME ShutdownSent
                 PROVE  peer_to_write' # << >> /\ peer_to_write'[Len(peer_to_write')] = Shutdown
        OBVIOUS
    <3>1. Len(peer_to_write) - 1 \in DOMAIN peer_to_write' /\ (Len(peer_to_write) - 1) + 1 = Len(peer_to_write)
        BY <1>0, <1>2, <2>1, PlaceFacts
    <3>2. peer_to_write[Len(peer_to_write)] = Shutdown
        BY <1>1, <1>3 DEF WritePipeline
    <3>3. QED
        BY <1>2, <3>1, <3>2
  <2>8. WritePipeline'
      BY <1>1, <1>3, <2>3, <2>5, <2>6, <2>7 DEF WritePipeline
  <2>9. QED
      BY <1>0, <1>1, <2>8 DEF WrittenInOrder
<1>7. QED
    BY <1>5, <1>6

(* TaskWrite writes what it holds, or fails to.                            *)
LEMMA TaskWriteWritesInOrder ==
    ASSUME DetailInv, TaskWriteWrites
    PROVE  WrittenInOrder'
<1>0. DetailTypeOK /\ WrittenInOrder
    BY DEF DetailInv
<1>1. CASE task_write' = At("failed") /\ UNCHANGED << taken, socket >>
    BY <1>0, <1>1 DEF WrittenInOrder, At
<1>2. CASE task_write' = At("receiving") /\ socket' = Append(socket, task_write.message)
  <2>1. /\ task_write.at = "writing" /\ task_write'.at = "receiving"
        /\ UNCHANGED << state, peer_to_write, taken >>
        /\ task_write.message \in Message
      BY <1>0, <1>2 DEF TaskWriteWrites, At, DetailTypeOK
  <2>2. WritePipeline /\ Ahead = Len(socket) + 1
      BY <1>0, <2>1 DEF WrittenInOrder, Ahead
  <2>3. /\ Len(socket') = Len(socket) + 1
        /\ DOMAIN socket' = DOMAIN socket \cup {Len(socket) + 1}
        /\ socket'[Len(socket) + 1] = task_write.message
        /\ \A i \in DOMAIN socket : socket'[i] = socket[i]
      BY <1>0, <1>2, <2>1 DEF DetailTypeOK
  <2>4. Ahead' = Ahead /\ UNCHANGED << Queued, ShutdownSent >>
      BY <2>1, <2>2, <2>3 DEF Ahead, Queued, ShutdownSent
  <2>5. WritePipeline'
      BY <2>1, <2>2, <2>4 DEF WritePipeline
  <2>6. \A i \in DOMAIN socket' : socket'[i] = taken[i]
      BY <1>0, <2>1, <2>2, <2>3 DEF WrittenInOrder, WritePipeline
  <2>7. Len(socket') <= Len(taken)
    <3>1. Queued \in Nat
      <4>1. ShutdownSent => peer_to_write # << >>
          BY <2>1, <2>2 DEF WritePipeline
      <4>2. QED
          BY <1>0, <2>1, <4>1, PlaceFacts DEF Queued
    <3>2. Len(taken) = Ahead + Queued + (IF state.at = "to_write" THEN 1 ELSE 0)
        BY <2>2 DEF WritePipeline
    <3>3. QED
        BY <1>0, <2>2, <2>3, <3>1, <3>2, PlaceFacts
  <2>8. QED
      BY <2>1, <2>5, <2>6, <2>7 DEF WrittenInOrder
<1>3. QED
    BY <1>1, <1>2 DEF TaskWriteWrites

(* The Peer takes a message from PeerManager's channel.                    *)
LEMMA PeerTakes ==
    ASSUME DetailInv, state.at = "loop", NEW m \in Message, state' = Holding("to_write", m),
           taken' = Append(taken, m), UNCHANGED << task_write, peer_to_write, socket >>
    PROVE  WrittenInOrder'
<1>0. DetailTypeOK /\ WrittenInOrder /\ state'.at = "to_write" /\ state'.message = m
    BY DEF DetailInv, Holding
<1>1. /\ Len(taken') = Len(taken) + 1 /\ taken'[Len(taken')] = m
      /\ \A i \in 1..Len(taken) : taken'[i] = taken[i]
    BY <1>0 DEF DetailTypeOK
<1>2. Len(socket) <= Len(taken') /\ \A i \in DOMAIN socket : socket[i] = taken'[i]
    BY <1>0, <1>1, PlaceFacts DEF WrittenInOrder
<1>3. ASSUME task_write.at # "failed" PROVE WritePipeline'
  <2>1. WritePipeline /\ ~ShutdownSent /\ ~ShutdownSent' /\ Queued = Len(peer_to_write)
      BY <1>0, <1>3 DEF WrittenInOrder, ShutdownSent, Queued
  <2>2. task_write.at # "done" /\ Ahead' = Ahead /\ Queued' = Queued
      BY <1>0, <2>1 DEF WritePipeline, Ahead, Queued
  <2>3. Len(taken) = Ahead + Queued
      BY <1>0, <2>1, PlaceFacts DEF WritePipeline
  <2>4. Len(taken') = Ahead + Queued + 1
      BY <1>1, <2>3
  <2>5. task_write.at = "writing" => Len(socket) + 1 \in 1..Len(taken)
      BY <1>0, <2>1, <2>3, PlaceFacts DEF Ahead
  <2>6. \A i \in 1..Queued : Ahead + i \in 1..Len(taken)
    <3>1. Ahead \in Nat /\ Queued \in Nat
        BY <2>1, PlaceFacts DEF DetailInv
    <3>2. \A a, n \in Nat : \A i \in 1..n : a + i \in 1..(a + n)
        OBVIOUS
    <3>3. QED
        BY <2>3, <3>1, <3>2
  <2>7. QED
      BY <1>0, <1>1, <2>1, <2>2, <2>4, <2>5, <2>6 DEF WritePipeline
<1>4. QED
    BY <1>2, <1>3 DEF WrittenInOrder

(* The Peer hands it to TaskWrite.                                         *)
LEMMA PeerHandsOn ==
    ASSUME DetailInv, PeerToTaskWrite
    PROVE  WrittenInOrder'
<1>0. DetailTypeOK /\ WrittenInOrder /\ state.at = "to_write"
    BY DEF DetailInv, PeerToTaskWrite
<1>1. CASE WriteDone
  <2>1. task_write.at = "failed"
      BY <1>0, <1>1 DEF WriteDone, WrittenInOrder, WritePipeline, ShutdownSent
  <2>2. UNCHANGED << task_write, peer_to_write, taken, socket >>
      BY <1>1 DEF PeerToTaskWrite
  <2>3. QED
      BY <2>1, <2>2, OrderKept
<1>2. CASE ~WriteDone
  <2>1. /\ peer_to_write' = Append(peer_to_write, ReadyLowMessage(state.message))
        /\ state'.at = "loop" /\ UNCHANGED << task_write, taken, socket >>
      BY <1>2 DEF PeerToTaskWrite, At
  <2>2. /\ WritePipeline /\ task_write.at \notin {"done", "failed"}
        /\ ~ShutdownSent /\ ~ShutdownSent' /\ Ahead' = Ahead
      BY <1>0, <1>2, <2>1 DEF WriteDone, WrittenInOrder, ShutdownSent, Ahead
  <2>3. ReadyLowMessage(state.message) \in EventsToPeer
      BY <1>0 DEF DetailTypeOK, ReadyLowMessage, EventsToPeer
  <2>4. /\ Len(peer_to_write') = Len(peer_to_write) + 1
        /\ peer_to_write'[Len(peer_to_write) + 1] = ReadyLowMessage(state.message)
        /\ \A i \in 1..Len(peer_to_write) : peer_to_write'[i] = peer_to_write[i]
      BY <1>0, <2>1, <2>3 DEF DetailTypeOK
  <2>5. Queued = Len(peer_to_write) /\ Queued' = Len(peer_to_write) + 1
      BY <1>0, <2>2, <2>4, PlaceFacts DEF Queued
  <2>6. Len(taken) = Ahead + (Len(peer_to_write) + 1)
    <3>1. Len(taken) = Ahead + Len(peer_to_write) + 1
        BY <1>0, <2>2, <2>5 DEF WritePipeline
    <3>2. Ahead \in Nat /\ Len(peer_to_write) \in Nat
        BY <1>0, PlaceFacts
    <3>3. \A a, n \in Nat : a + n + 1 = a + (n + 1)
        OBVIOUS
    <3>4. QED
        BY <3>1, <3>2, <3>3
  <2>7. Len(taken) = Ahead + (Len(peer_to_write) + 1) + 0
      BY <1>0, <2>6, PlaceFacts
  <2>8. \A i \in 1..(Len(peer_to_write) + 1) :
            peer_to_write'[i] = ReadyLowMessage(taken[Ahead + i])
    <3> SUFFICES ASSUME NEW i \in 1..(Len(peer_to_write) + 1)
                 PROVE  peer_to_write'[i] = ReadyLowMessage(taken[Ahead + i])
        OBVIOUS
    <3>1. CASE i = Len(peer_to_write) + 1
        BY <1>0, <2>2, <2>4, <2>6, <3>1 DEF WritePipeline
    <3>2. CASE i \in 1..Len(peer_to_write)
        BY <2>2, <2>4, <2>5, <3>2 DEF WritePipeline
    <3>3. QED
        BY <1>0, <3>1, <3>2, PlaceFacts
  <2>9. WritePipeline'
      BY <2>1, <2>2, <2>5, <2>7, <2>8 DEF WritePipeline
  <2>10. QED
      BY <1>0, <2>1, <2>9 DEF WrittenInOrder
<1>3. QED
    BY <1>1, <1>2

(* The Peer sends the Shutdown.                                            *)
LEMMA PeerStopsInOrder ==
    ASSUME DetailInv, PeerStopsTaskWrite
    PROVE  WrittenInOrder'
<1>0. /\ DetailTypeOK /\ WrittenInOrder /\ state.at = "stop_write" /\ state'.at = "join"
      /\ UNCHANGED << task_write, taken, socket >>
    BY DEF DetailInv, PeerStopsTaskWrite, Joining
<1>1. CASE WriteDone
  <2>1. task_write.at = "failed"
      BY <1>0, <1>1 DEF WriteDone, WrittenInOrder, WritePipeline, ShutdownSent
  <2>2. QED
      BY <1>0, <2>1 DEF WrittenInOrder
<1>2. CASE ~WriteDone
  <2>1. peer_to_write' = Append(peer_to_write, Shutdown)
      BY <1>2 DEF PeerStopsTaskWrite
  <2>2. /\ WritePipeline /\ task_write.at \notin {"done", "failed"}
        /\ ~ShutdownSent /\ ShutdownSent' /\ Ahead' = Ahead
      BY <1>0, <1>2 DEF WriteDone, WrittenInOrder, ShutdownSent, Ahead
  <2>3. Shutdown \in EventsToPeer
      BY DEF EventsToPeer
  <2>4. /\ Len(peer_to_write') = Len(peer_to_write) + 1
        /\ peer_to_write'[Len(peer_to_write')] = Shutdown
        /\ \A i \in 1..Len(peer_to_write) : peer_to_write'[i] = peer_to_write[i]
        /\ peer_to_write' # << >>
    <3>1. /\ Len(peer_to_write') = Len(peer_to_write) + 1
          /\ peer_to_write'[Len(peer_to_write) + 1] = Shutdown
          /\ \A i \in 1..Len(peer_to_write) : peer_to_write'[i] = peer_to_write[i]
        BY <1>0, <2>1, <2>3 DEF DetailTypeOK
    <3>2. Len(peer_to_write) + 1 # 0
        BY <1>0, PlaceFacts
    <3>3. QED
        BY <3>1, <3>2
  <2>5. Queued = Len(peer_to_write) /\ Queued' = Queued
      BY <1>0, <2>2, <2>4, PlaceFacts DEF Queued
  <2>6. \A i \in 1..Queued : peer_to_write'[i] = peer_to_write[i]
      BY <2>4, <2>5
  <2>7. WritePipeline'
      BY <1>0, <2>2, <2>4, <2>5, <2>6 DEF WritePipeline
  <2>8. QED
      BY <1>0, <2>7 DEF WrittenInOrder
<1>3. QED
    BY <1>1, <1>2

-----------------------------------------------------------------------------
(* Types and stages, step by step.                                         *)

(* What a step may do to the stages: the Peer goes on, towards a place it  *)
(* has the reason for, or returns; a subtask that is done stays done.      *)
LEMMA StagesKept ==
    ASSUME Stages, UNCHANGED << running_peers, set_id_peers >>,
           ReadDone => ReadDone', WriteDone => WriteDone',
           \/ UNCHANGED state
           \/ Running /\ state'.at \in {"loop", "to_pm", "to_write"}
           \/ Running /\ state'.at = "stop_write" /\ "write" \in state'.awaits
                      /\ ("read" \in state'.awaits \/ ReadDone)
           \/ Running /\ state'.at = "join"
                      /\ ("write" \in state'.awaits \/ WriteDone)
                      /\ ("read" \in state'.awaits \/ ReadDone)
    PROVE  Stages'
<1>1. UNCHANGED Running
    BY DEF Running
<1>2. CASE UNCHANGED state
    BY <1>1, <1>2 DEF Stages
<1>3. CASE Running /\ state'.at \in {"loop", "to_pm", "to_write"}
    BY <1>1, <1>3 DEF Stages
<1>4. CASE Running /\ state'.at = "stop_write" /\ "write" \in state'.awaits
                   /\ ("read" \in state'.awaits \/ ReadDone)
    BY <1>1, <1>4 DEF Stages
<1>5. CASE Running /\ state'.at = "join"
                   /\ ("write" \in state'.awaits \/ WriteDone)
                   /\ ("read" \in state'.awaits \/ ReadDone)
    BY <1>1, <1>5 DEF Stages
<1>6. QED
    BY <1>2, <1>3, <1>4, <1>5

(* The steps of the subtasks.                                              *)
LEMMA SubtaskStages ==
    ASSUME DetailInv,
           \/ \E cmd \in Command : TaskReadParses(cmd)
           \/ TaskReadSends \/ TaskReadReturns \/ TaskWriteReceives \/ TaskWriteWrites
    PROVE  Stages'
<1>1. Stages /\ UNCHANGED << state, running_peers, set_id_peers >>
    BY DEF DetailInv, TaskReadParses, TaskReadSends, TaskReadReturns, TaskWriteReceives,
           TaskWriteWrites, chanVars
<1>2. ReadDone => ReadDone'
    BY DEF TaskReadParses, TaskReadSends, TaskReadReturns, TaskWriteReceives, TaskWriteWrites,
           ReadDone
<1>3. WriteDone => WriteDone'
    BY DEF TaskReadParses, TaskReadSends, TaskReadReturns, TaskWriteReceives, TaskWriteWrites,
           WriteDone
<1>4. QED
    BY <1>1, <1>2, <1>3, StagesKept

(* The steps of the Peer.                                                  *)
LEMMA PeerStages ==
    ASSUME DetailInv,
           \/ PeerFromPM \/ PeerFromTaskRead \/ PeerSeesReadDone \/ PeerSeesWriteDone
           \/ PeerToTaskWrite \/ PeerToPM \/ PeerStopsTaskWrite \/ PeerJoins
    PROVE  Stages'
<1>0. Stages /\ (ReadDone => ReadDone') /\ (WriteDone => WriteDone')
  <2>1. UNCHANGED << task_read, task_write >>
      BY DEF PeerFromPM, PeerFromTaskRead, PeerSeesReadDone, PeerSeesWriteDone, PeerToTaskWrite,
             PeerToPM, PeerStopsTaskWrite, PeerJoins, taskVars
  <2>2. QED
      BY <2>1 DEF DetailInv, ReadDone, WriteDone
<1>1. CASE PeerFromPM
  <2>1. /\ Running /\ UNCHANGED << running_peers, set_id_peers >>
        /\ \/ state'.at = "to_write"
           \/ state'.at = "stop_write" /\ state'.awaits = {"read", "write"}
      BY <1>1 DEF PeerFromPM, Holding, Stopping
  <2>2. QED
      BY <1>0, <2>1, StagesKept
<1>2. CASE PeerFromTaskRead
    BY <1>0, <1>2, StagesKept DEF PeerFromTaskRead, Holding, chanVars
<1>3. CASE PeerSeesReadDone
    BY <1>0, <1>3, StagesKept DEF PeerSeesReadDone, Stopping, chanVars
<1>4. CASE PeerSeesWriteDone
    BY <1>0, <1>4, StagesKept DEF PeerSeesWriteDone, Joining, chanVars
<1>5. CASE PeerToTaskWrite
  <2>1. /\ Running /\ UNCHANGED << running_peers, set_id_peers >>
        /\ \/ state'.at = "loop"
           \/ WriteDone /\ state'.at = "join" /\ state'.awaits = {"read"}
      BY <1>0, <1>5 DEF PeerToTaskWrite, Stages, At, Joining, chanVars
  <2>2. QED
      BY <1>0, <2>1, StagesKept
<1>6. CASE PeerToPM
  <2>1. /\ Running /\ UNCHANGED << running_peers, set_id_peers >>
        /\ \/ state'.at = "loop"
           \/ state'.at = "stop_write" /\ state'.awaits = {"read", "write"}
      BY <1>0, <1>6 DEF PeerToPM, Stages, At, Stopping
  <2>2. QED
      BY <1>0, <2>1, StagesKept
<1>7. CASE PeerStopsTaskWrite
  <2>1. /\ Running /\ UNCHANGED << running_peers, set_id_peers >>
        /\ state'.at = "join" /\ state'.awaits = state.awaits
        /\ "write" \in state.awaits /\ ("read" \in state.awaits \/ ReadDone)
      BY <1>0, <1>7 DEF PeerStopsTaskWrite, Stages, Joining, chanVars
  <2>2. QED
      BY <1>0, <2>1, StagesKept
<1>8. CASE PeerJoins
  <2>1. /\ state.at = "join" /\ UNCHANGED << state, task_read, task_write, set_id_peers >>
        /\ running_peers' = running_peers \ {Self}
      BY <1>8 DEF PeerJoins, taskVars
  <2>2. ReadDone /\ WriteDone
      BY <1>0, <1>8 DEF PeerJoins, Stages
  <2>3. QED
      BY <1>0, <2>1, <2>2 DEF Stages, Running, ReadDone, WriteDone
<1>9. QED
    BY <1>1, <1>2, <1>3, <1>4, <1>5, <1>6, <1>7, <1>8

(* The steps of the subtasks and what they leave where.                    *)
LEMMA SubtaskTypes ==
    ASSUME DetailInv,
           \/ \E cmd \in Command : TaskReadParses(cmd)
           \/ TaskReadSends \/ TaskReadReturns \/ TaskWriteReceives \/ TaskWriteWrites
    PROVE  DetailTypeOK' /\ pm_to_peer' \in [Conns -> Seq(EventsToPeer)]
<1>0. DetailTypeOK /\ pm_to_peer \in [Conns -> Seq(EventsToPeer)]
    BY DEF DetailInv
<1>1. UNCHANGED << state, stop_read, pm_to_peer, received, taken >>
    BY DEF TaskReadParses, TaskReadSends, TaskReadReturns, TaskWriteReceives, TaskWriteWrites,
           chanVars, channels
<1>2. ASSUME NEW cmd \in Command, TaskReadParses(cmd) PROVE DetailTypeOK'
  <2>1. [cmd |-> cmd, conn |-> Self] \in Message
      BY SelfAssumption DEF Message
  <2>2. parsed' \in Seq(Command)
      BY <1>0, <1>2 DEF TaskReadParses, DetailTypeOK
  <2>3. QED
      BY <1>0, <1>1, <1>2, <2>1, <2>2 DEF TaskReadParses, Holding, DetailTypeOK
<1>3. CASE TaskReadSends
  <2>1. task_read.message \in Message
      BY <1>0, <1>3 DEF TaskReadSends, DetailTypeOK
  <2>2. read_to_peer' \in Seq(Message) /\ Len(read_to_peer') <= Capacity
      BY <1>0, <1>3, <2>1, PlaceFacts DEF TaskReadSends, HasRoom, DetailTypeOK
  <2>3. QED
      BY <1>0, <1>1, <1>3, <2>2 DEF TaskReadSends, At, DetailTypeOK
<1>4. CASE TaskReadReturns
    BY <1>0, <1>1, <1>4 DEF TaskReadReturns, At, DetailTypeOK
<1>5. CASE TaskWriteReceives
  <2>1. /\ peer_to_write' \in Seq(EventsToPeer) /\ Head(peer_to_write) \in EventsToPeer
        /\ Len(peer_to_write') <= Capacity
      BY <1>0, <1>5, PlaceFacts DEF TaskWriteReceives, DetailTypeOK
  <2>2. Head(peer_to_write) # Shutdown => Head(peer_to_write).message \in Message
      BY <2>1 DEF EventsToPeer
  <2>3. task_write' \in [at : {"receiving", "done", "failed"}]
                        \cup [at : {"writing"}, message : Message]
      BY <1>5, <2>2 DEF TaskWriteReceives, At, Holding
  <2>4. QED
      BY <1>0, <1>1, <1>5, <2>1, <2>3 DEF TaskWriteReceives, DetailTypeOK
<1>6. CASE TaskWriteWrites
  <2>1. task_write.message \in Message
      BY <1>0, <1>6 DEF TaskWriteWrites, DetailTypeOK
  <2>2. socket' \in Seq(Message)
    <3>1. socket \in Seq(Message) /\ Append(socket, task_write.message) \in Seq(Message)
        BY <1>0, <2>1 DEF DetailTypeOK
    <3>2. QED
        BY <1>6, <3>1 DEF TaskWriteWrites
  <2>3. task_write' \in [at : {"receiving", "done", "failed"}]
      BY <1>6 DEF TaskWriteWrites, At
  <2>4. QED
      BY <1>0, <1>1, <1>6, <2>2, <2>3 DEF TaskWriteWrites, DetailTypeOK
<1>7. QED
    BY <1>0, <1>1, <1>2, <1>3, <1>4, <1>5, <1>6

(* The steps of the Peer and what they leave where.                        *)
LEMMA PeerTypes ==
    ASSUME DetailInv,
           \/ PeerFromPM \/ PeerFromTaskRead \/ PeerSeesReadDone \/ PeerSeesWriteDone
           \/ PeerToTaskWrite \/ PeerToPM \/ PeerStopsTaskWrite \/ PeerJoins
    PROVE  DetailTypeOK' /\ pm_to_peer' \in [Conns -> Seq(EventsToPeer)]
<1> DEFINE Places == [at : {"loop"}]
                     \cup [at : {"to_pm", "to_write"}, message : Message]
                     \cup [at : {"stop_write", "join"}, awaits : Awaits]
<1>0. DetailTypeOK /\ pm_to_peer \in [Conns -> Seq(EventsToPeer)] /\ state \in Places
    BY DEF DetailInv, DetailTypeOK
<1>1. UNCHANGED << task_read, task_write, parsed, socket >>
    BY DEF PeerFromPM, PeerFromTaskRead, PeerSeesReadDone, PeerSeesWriteDone, PeerToTaskWrite,
           PeerToPM, PeerStopsTaskWrite, PeerJoins, taskVars
<1>2. /\ At("loop") \in Places
      /\ \A m \in Message : Holding("to_pm", m) \in Places /\ Holding("to_write", m) \in Places
      /\ \A a \in Awaits : Stopping(a) \in Places /\ Joining(a) \in Places
      /\ {"read"} \in Awaits /\ {"write"} \in Awaits /\ {"read", "write"} \in Awaits
    BY DEF At, Holding, Stopping, Joining, Awaits
<1>3. CASE PeerFromPM
  <2>1. CASE SenderDropped(Self) /\ UNCHANGED << taken, pm_to_peer >>
             /\ state' = Stopping({"read", "write"}) /\ stop_read' = TRUE
    <3>1. state' \in Places
        BY <1>2, <2>1
    <3>2. QED
        BY <1>0, <1>1, <1>3, <2>1, <3>1 DEF PeerFromPM, DetailTypeOK
  <2>2. CASE /\ pm_to_peer[Self] # << >>
             /\ pm_to_peer' = [pm_to_peer EXCEPT ![Self] = Tail(@)]
    <3>1. /\ pm_to_peer[Self] \in Seq(EventsToPeer) /\ Self \in Conns
          /\ Head(pm_to_peer[Self]) \in EventsToPeer
          /\ Tail(pm_to_peer[Self]) \in Seq(EventsToPeer)
        BY <1>0, <2>2, SelfAssumption
    <3>2. pm_to_peer' \in [Conns -> Seq(EventsToPeer)]
        BY <1>0, <2>2, <3>1
    <3>3. PICK e : e = Head(pm_to_peer[Self])
        OBVIOUS
    <3>4. e # Shutdown => e.message \in Message
        BY <3>1, <3>3 DEF EventsToPeer
    <3>5. \/ e # Shutdown /\ state' = Holding("to_write", e.message)
             /\ taken' = Append(taken, e.message) /\ UNCHANGED stop_read
          \/ state' = Stopping({"read", "write"}) /\ stop_read' = TRUE /\ UNCHANGED taken
        BY <1>3, <3>3 DEF PeerFromPM
    <3>6. state' \in Places /\ stop_read' \in BOOLEAN /\ taken' \in Seq(Message)
      <4>1. taken \in Seq(Message) /\ stop_read \in BOOLEAN
          BY <1>0 DEF DetailTypeOK
      <4>2. e # Shutdown => Append(taken, e.message) \in Seq(Message)
          BY <3>4, <4>1
      <4>3. taken' \in Seq(Message)
          BY <3>5, <4>1, <4>2
      <4>4. state' \in Places
          BY <1>2, <3>4, <3>5
      <4>5. QED
          BY <3>5, <4>1, <4>3, <4>4
    <3>7. UNCHANGED << read_to_peer, peer_to_write, received >>
        BY <1>3 DEF PeerFromPM
    <3>8. QED
        BY <1>0, <1>1, <3>2, <3>6, <3>7 DEF DetailTypeOK
  <2>3. QED
      BY <1>3, <2>1, <2>2 DEF PeerFromPM
<1>4. CASE PeerFromTaskRead
  <2>1. /\ Head(read_to_peer) \in Message /\ Tail(read_to_peer) \in Seq(Message)
        /\ Len(Tail(read_to_peer)) <= Capacity
      BY <1>0, <1>4, PlaceFacts DEF PeerFromTaskRead, DetailTypeOK
  <2>2. Head(read_to_peer).cmd \in Command
    <3>1. 1 \in DOMAIN read_to_peer /\ Head(read_to_peer) = read_to_peer[1]
        BY <1>0, <1>4, PlaceFacts DEF PeerFromTaskRead, DetailTypeOK
    <3>2. Head(read_to_peer).cmd = parsed[Len(received) + 1]
        BY <3>1 DEF DetailInv, ReadPipeline
    <3>3. Len(parsed) = Len(received) + Len(read_to_peer) + InSending
        BY DEF DetailInv, ReadPipeline
    <3>4. Len(received) + 1 \in DOMAIN parsed
        BY <1>0, <3>1, <3>3, PlaceFacts
    <3>5. QED
        BY <1>0, <3>2, <3>4 DEF DetailTypeOK
  <2>3. received' \in Seq(Command)
      BY <1>0, <1>4, <2>2 DEF PeerFromTaskRead, DetailTypeOK
  <2>4. state' \in Places
      BY <1>2, <1>4, <2>1 DEF PeerFromTaskRead
  <2>5. QED
      BY <1>0, <1>1, <1>4, <2>1, <2>3, <2>4 DEF PeerFromTaskRead, chanVars, channels, DetailTypeOK
<1>5. CASE PeerSeesReadDone \/ PeerSeesWriteDone
  <2>1. state' \in Places /\ stop_read' \in BOOLEAN
      BY <1>0, <1>2, <1>5 DEF PeerSeesReadDone, PeerSeesWriteDone, DetailTypeOK
  <2>2. UNCHANGED << read_to_peer, peer_to_write, received, taken, pm_to_peer >>
      BY <1>5 DEF PeerSeesReadDone, PeerSeesWriteDone, chanVars, channels
  <2>3. QED
      BY <1>0, <1>1, <2>1, <2>2 DEF DetailTypeOK
<1>6. CASE PeerToTaskWrite
  <2>1. state.message \in Message
      BY <1>0, <1>6 DEF PeerToTaskWrite
  <2>2. ReadyLowMessage(state.message) \in EventsToPeer
      BY <2>1 DEF ReadyLowMessage, EventsToPeer
  <2>3. peer_to_write' \in Seq(EventsToPeer) /\ Len(peer_to_write') <= Capacity
    <3>1. /\ peer_to_write \in Seq(EventsToPeer) /\ Len(peer_to_write) <= Capacity
          /\ Append(peer_to_write, ReadyLowMessage(state.message)) \in Seq(EventsToPeer)
          /\ Len(Append(peer_to_write, ReadyLowMessage(state.message))) = Len(peer_to_write) + 1
        BY <1>0, <2>2 DEF DetailTypeOK
    <3>2. Len(peer_to_write) < Capacity => Len(peer_to_write) + 1 <= Capacity
        BY <1>0, PlaceFacts
    <3>3. QED
        BY <1>6, <3>1, <3>2 DEF PeerToTaskWrite, HasRoom
  <2>4. state' \in Places /\ stop_read' \in BOOLEAN
      BY <1>0, <1>2, <1>6 DEF PeerToTaskWrite, DetailTypeOK
  <2>5. UNCHANGED << read_to_peer, received, taken, pm_to_peer >>
      BY <1>6 DEF PeerToTaskWrite, chanVars, channels
  <2>6. QED
      BY <1>0, <1>1, <2>3, <2>4, <2>5 DEF DetailTypeOK
<1>7. CASE PeerToPM
  <2>1. state' \in Places /\ stop_read' \in BOOLEAN
    <3>1. /\ state' = At("loop") \/ state' = Stopping({"read", "write"})
          /\ stop_read' = stop_read \/ stop_read' = TRUE
        BY <1>7 DEF PeerToPM
    <3>2. stop_read \in BOOLEAN
        BY <1>0 DEF DetailTypeOK
    <3>3. state' \in Places
        BY <1>2, <3>1
    <3>4. QED
        BY <3>1, <3>2, <3>3
  <2>2. UNCHANGED << read_to_peer, peer_to_write, received, taken, pm_to_peer >>
      BY <1>7 DEF PeerToPM
  <2>3. QED
      BY <1>0, <1>1, <2>1, <2>2 DEF DetailTypeOK
<1>8. CASE PeerStopsTaskWrite
  <2>1. state.awaits \in Awaits
      BY <1>0, <1>8 DEF PeerStopsTaskWrite
  <2>2. Shutdown \in EventsToPeer
      BY DEF EventsToPeer
  <2>3. peer_to_write' \in Seq(EventsToPeer) /\ Len(peer_to_write') <= Capacity
    <3>1. /\ peer_to_write \in Seq(EventsToPeer) /\ Len(peer_to_write) <= Capacity
          /\ Append(peer_to_write, Shutdown) \in Seq(EventsToPeer)
          /\ Len(Append(peer_to_write, Shutdown)) = Len(peer_to_write) + 1
        BY <1>0, <2>2 DEF DetailTypeOK
    <3>2. Len(peer_to_write) < Capacity => Len(peer_to_write) + 1 <= Capacity
        BY <1>0, PlaceFacts
    <3>3. QED
        BY <1>8, <3>1, <3>2 DEF PeerStopsTaskWrite, HasRoom
  <2>4. state' \in Places
      BY <1>2, <1>8, <2>1 DEF PeerStopsTaskWrite
  <2>5. UNCHANGED << read_to_peer, received, taken, stop_read, pm_to_peer >>
      BY <1>8 DEF PeerStopsTaskWrite, chanVars, channels
  <2>6. QED
      BY <1>0, <1>1, <2>3, <2>4, <2>5 DEF DetailTypeOK
<1>9. CASE PeerJoins
  <2>1. UNCHANGED taskVars /\ pm_to_peer' = [pm_to_peer EXCEPT ![Self] = << >>]
      BY <1>9 DEF PeerJoins
  <2>2. << >> \in Seq(EventsToPeer)
      OBVIOUS
  <2>3. pm_to_peer' \in [Conns -> Seq(EventsToPeer)]
      BY <1>0, <2>1, <2>2
  <2>4. QED
      BY <1>0, <2>1, <2>3 DEF taskVars, DetailTypeOK
<1>10. QED
    BY <1>3, <1>4, <1>5, <1>6, <1>7, <1>8, <1>9

-----------------------------------------------------------------------------
(* The invariant.                                                          *)

(* DetailInv holds at the start.                                           *)
LEMMA DetailInitInv ==
    ASSUME DetailInit
    PROVE  DetailInv
<1> USE DEF DetailInit
<1>1. DetailTypeOK
  <2>1. << >> \in Seq(Message) /\ << >> \in Seq(EventsToPeer) /\ << >> \in Seq(Command)
      OBVIOUS
  <2>2. Len(read_to_peer) <= Capacity /\ Len(peer_to_write) <= Capacity
      BY CapacityAssumption
  <2>3. state \in [at : {"loop"}] /\ task_read \in [at : {"reading", "done"}]
        /\ task_write \in [at : {"receiving", "done", "failed"}]
      BY DEF At
  <2>4. QED
      BY <2>1, <2>2, <2>3 DEF DetailTypeOK
<1>2. pm_to_peer \in [Conns -> Seq(EventsToPeer)]
  <2>1. << >> \in Seq(EventsToPeer)
      OBVIOUS
  <2>2. QED
      BY <2>1 DEF ChanInit
<1>3. Stages
    BY DEF ChanInit, Stages, At, Running
<1>4. ReadPipeline
    BY MaxMessagesAssumption DEF ReadPipeline, InSending, At
<1>5. WrittenInOrder
    BY DEF WrittenInOrder, WritePipeline, Ahead, Queued, ShutdownSent, At
<1>6. QED
    BY <1>1, <1>2, <1>3, <1>4, <1>5 DEF DetailInv

(* The steps of the three tasks keep the order of what is written.         *)
LEMMA DetailKeepsOrder ==
    ASSUME DetailInv, DetailNext
    PROVE  WrittenInOrder'
<1>1. CASE (\E cmd \in Command : TaskReadParses(cmd)) \/ TaskReadSends \/ TaskReadReturns
  <2>1. UNCHANGED << task_write, peer_to_write, taken, socket, state >>
      BY <1>1 DEF TaskReadParses, TaskReadSends, TaskReadReturns
  <2>2. QED
      BY <2>1, OrderKept
<1>2. CASE PeerFromPM
  <2>1. UNCHANGED << task_write, peer_to_write, socket >> /\ state.at = "loop"
      BY <1>2 DEF PeerFromPM
  <2>2. CASE UNCHANGED taken /\ state' = Stopping({"read", "write"})
      BY <2>1, <2>2, OrderKept DEF Stopping
  <2>3. CASE /\ pm_to_peer[Self] # << >> /\ Head(pm_to_peer[Self]) # Shutdown
             /\ state' = Holding("to_write", Head(pm_to_peer[Self]).message)
             /\ taken' = Append(taken, Head(pm_to_peer[Self]).message)
    <3>1. Head(pm_to_peer[Self]) \in EventsToPeer
        BY <2>3, SelfAssumption DEF DetailInv
    <3>2. Head(pm_to_peer[Self]).message \in Message
        BY <2>3, <3>1 DEF EventsToPeer
    <3>3. QED
        BY <2>1, <2>3, <3>2, PeerTakes
  <2>4. QED
      BY <1>2, <2>2, <2>3 DEF PeerFromPM
<1>3. CASE PeerFromTaskRead \/ PeerSeesReadDone \/ PeerToPM
  <2>1. /\ UNCHANGED << task_write, peer_to_write, taken, socket >>
        /\ {state.at, state'.at} \cap {"to_write", "join"} = {}
      BY <1>3 DEF PeerFromTaskRead, PeerSeesReadDone, PeerToPM, Holding, Stopping, At
  <2>2. QED
      BY <2>1, OrderKept
<1>4. CASE PeerSeesWriteDone
  <2>1. /\ UNCHANGED << task_write, peer_to_write, taken, socket >>
        /\ state.at = "loop" /\ WriteDone
      BY <1>4 DEF PeerSeesWriteDone
  <2>2. task_write.at = "failed"
      BY <2>1 DEF DetailInv, WriteDone, WrittenInOrder, WritePipeline, ShutdownSent
  <2>3. QED
      BY <2>1, <2>2, OrderKept
<1>5. CASE PeerJoins
  <2>1. UNCHANGED << task_write, peer_to_write, taken, socket, state >>
      BY <1>5 DEF PeerJoins, taskVars
  <2>2. QED
      BY <2>1, OrderKept
<1>6. QED
    BY <1>1, <1>2, <1>3, <1>4, <1>5, TaskWriteReceivesInOrder, TaskWriteWritesInOrder, PeerHandsOn,
       PeerStopsInOrder DEF DetailNext

(* Every step preserves DetailInv.                                         *)
LEMMA DetailNextInv ==
    ASSUME DetailInv, [DetailNext \/ DetailEnv]_detailVars
    PROVE  DetailInv'
<1>1. CASE DetailNext
  <2>1. DetailTypeOK' /\ pm_to_peer' \in [Conns -> Seq(EventsToPeer)]
      BY <1>1, SubtaskTypes, PeerTypes DEF DetailNext
  <2>2. Stages'
      BY <1>1, SubtaskStages, PeerStages DEF DetailNext
  <2>3. ReadPipeline'
    <3>1. CASE TaskWriteReceives \/ TaskWriteWrites \/ PeerFromPM \/ PeerSeesReadDone
               \/ PeerSeesWriteDone \/ PeerToTaskWrite \/ PeerToPM \/ PeerStopsTaskWrite
               \/ PeerJoins
      <4>1. UNCHANGED << task_read, read_to_peer, parsed, received >>
          BY <3>1 DEF TaskWriteReceives, TaskWriteWrites, PeerFromPM, PeerSeesReadDone,
                      PeerSeesWriteDone, PeerToTaskWrite, PeerToPM, PeerStopsTaskWrite,
                      PeerJoins, taskVars
      <4>2. QED
          BY <4>1 DEF DetailInv, ReadPipeline, InSending
    <3>2. QED
        BY <1>1, <3>1, TaskReadKeepsOrder, PeerKeepsOrder DEF DetailNext
  <2>4. WrittenInOrder'
      BY <1>1, DetailKeepsOrder
  <2>5. QED
      BY <2>1, <2>2, <2>3, <2>4 DEF DetailInv
<1>2. CASE DetailEnv \/ UNCHANGED detailVars
  <2>1. /\ UNCHANGED taskVars
        /\ pm_to_peer' \in [Conns -> Seq(EventsToPeer)]
        /\ running_peers' \subseteq DOMAIN set_id_peers'
        /\ Running => Running'
        /\ Self \in DOMAIN set_id_peers' /\ ~Running' => Self \in DOMAIN set_id_peers /\ ~Running
    <3>1. CASE UNCHANGED detailVars
        BY <3>1 DEF detailVars, chanVars, channels, DetailInv, Stages, Running
    <3>2. QED
        BY <1>2, <3>1, EnvStep
  <2>2. DetailTypeOK' /\ ReadPipeline'
      BY <2>1 DEF taskVars, DetailInv, DetailTypeOK, ReadPipeline, InSending
  <2>3. WrittenInOrder'
      BY <2>1, OrderKept DEF taskVars
  <2>4. Stages'
    <3>1. ReadDone' = ReadDone /\ WriteDone' = WriteDone /\ state' = state
        BY <2>1 DEF taskVars, ReadDone, WriteDone
    <3>2. QED
        BY <2>1, <3>1 DEF DetailInv, Stages
  <2>5. QED
      BY <2>1, <2>2, <2>3, <2>4 DEF DetailInv
<1>3. QED
    BY <1>1, <1>2

-----------------------------------------------------------------------------
(* Seen from PeerManager.                                                  *)

(* The functions PeerActor's variables are mapped to, and how one of them  *)
(* changes at Self.                                                        *)
LEMMA AsOneTask ==
    /\ Only(PeerOf, [at |-> "loop"])[Self] = PeerOf
    /\ Only(received, << >>)[Self] = received
    /\ Only(taken, << >>)[Self] = taken
    /\ \A v, w, o : [Only(v, o) EXCEPT ![Self] = w] = Only(w, o)
BY SelfAssumption DEF Only

(* The Peer is seen in another state.                                      *)
LEMMA BecomesOther ==
    ASSUME NEW v, PeerOf' = v
    PROVE  PA!Become(Self, v)
<1>1. Only(PeerOf, [at |-> "loop"])' = Only(v, [at |-> "loop"])
    BY DEF Only
<1>2. QED
    BY <1>1, AsOneTask DEF PA!Become

(* What is seen of a Peer.                                                 *)
LEMMA Seen ==
    /\ state.at \in {"loop", "to_write"} => PeerOf = [at |-> "loop"]
    /\ state.at = "to_pm" => PeerOf = state
    /\ state.at \in {"stop_write", "join"} => PeerOf = [at |-> "closing"]
    /\ PeerOf = [at |-> "loop"] /\ Running => PA!AtLoop(Self)
BY AsOneTask DEF PeerOf, PA!AtLoop, PA!PeerLoop, Running

(* A step that shows nothing.                                              *)
LEMMA ShowsNothing ==
    ASSUME UNCHANGED << PeerOf, received, taken, chanVars >>
    PROVE  UNCHANGED PA!peerVars
BY SameNames DEF PA!peerVars, PA!peerOwn, PA!chanVars, PA!channels, chanVars, channels, Only

(* The Peer leaves its loop because of a subtask.                          *)
LEMMA ShowsSubtaskEnd ==
    ASSUME Running, PeerOf = [at |-> "loop"], (PeerOf = [at |-> "closing"])',
           UNCHANGED << received, taken, chanVars >>
    PROVE  PA!PeerSubtaskEnds(Self)
<1>1. PA!AtLoop(Self) /\ PA!Become(Self, PA!PeerClosing)
    BY Seen, BecomesOther DEF PA!PeerClosing
<1>2. UNCHANGED << Only(received, << >>), Only(taken, << >>), PA!chanVars >>
    BY SameNames DEF Only, PA!chanVars, PA!channels, chanVars, channels
<1>3. QED
    BY <1>1, <1>2 DEF PA!PeerSubtaskEnds

(* Every step of the three tasks is one of PeerActor's, or shows nothing.  *)
LEMMA TasksShowOne ==
    ASSUME DetailInv, DetailNext
    PROVE  PA!PeerNext(Self) \/ UNCHANGED PA!peerVars
<1>0. DetailTypeOK /\ Stages /\ ReadPipeline /\ Self \in Conns
    BY SelfAssumption DEF DetailInv
<1>1. CASE \/ (\E cmd \in Command : TaskReadParses(cmd)) \/ TaskReadSends \/ TaskReadReturns
           \/ TaskWriteReceives \/ TaskWriteWrites
  <2>1. UNCHANGED << state, received, taken, chanVars >>
      BY <1>1 DEF TaskReadParses, TaskReadSends, TaskReadReturns, TaskWriteReceives,
                  TaskWriteWrites
  <2>2. QED
      BY <2>1, ShowsNothing DEF PeerOf
<1>2. CASE PeerSeesReadDone \/ PeerSeesWriteDone
  <2>1. /\ Running /\ state.at = "loop" /\ state'.at \in {"stop_write", "join"}
        /\ UNCHANGED << received, taken, chanVars >>
      BY <1>2 DEF PeerSeesReadDone, PeerSeesWriteDone, Stopping, Joining
  <2>2. PeerOf = [at |-> "loop"] /\ (PeerOf = [at |-> "closing"])'
      BY <2>1 DEF PeerOf
  <2>3. QED
      BY <2>1, <2>2, ShowsSubtaskEnd DEF PA!PeerNext
<1>3. CASE PeerToTaskWrite
  <2>1. /\ Running /\ state.at = "to_write" /\ state'.at \in {"loop", "join"}
        /\ UNCHANGED << received, taken, chanVars >>
      BY <1>0, <1>3 DEF PeerToTaskWrite, Stages, At, Joining
  <2>2. CASE state'.at = "loop"
      BY <2>1, <2>2, ShowsNothing DEF PeerOf
  <2>3. CASE state'.at = "join"
    <3>1. PeerOf = [at |-> "loop"] /\ (PeerOf = [at |-> "closing"])'
        BY <2>1, <2>3 DEF PeerOf
    <3>2. QED
        BY <2>1, <3>1, ShowsSubtaskEnd DEF PA!PeerNext
  <2>4. QED
      BY <2>1, <2>2, <2>3
<1>4. CASE PeerStopsTaskWrite
  <2>1. /\ state.at = "stop_write" /\ state'.at = "join"
        /\ UNCHANGED << received, taken, chanVars >>
      BY <1>4 DEF PeerStopsTaskWrite, Joining
  <2>2. QED
      BY <2>1, ShowsNothing DEF PeerOf
<1>5. CASE PeerFromTaskRead
  <2>1. /\ Running /\ state.at = "loop" /\ state' = Holding("to_pm", Head(read_to_peer))
        /\ received' = Append(received, Head(read_to_peer).cmd)
        /\ UNCHANGED << taken, chanVars >>
      BY <1>5 DEF PeerFromTaskRead
  <2>2. /\ 1 \in DOMAIN read_to_peer /\ Head(read_to_peer) = read_to_peer[1]
        /\ Head(read_to_peer) \in Message
      BY <1>0, <1>5, PlaceFacts DEF PeerFromTaskRead, DetailTypeOK
  <2>3. PICK cmd : cmd = parsed[Len(received) + 1]
      OBVIOUS
  <2>4. Head(read_to_peer) = [cmd |-> cmd, conn |-> Self]
      BY <1>0, <2>2, <2>3 DEF ReadPipeline
  <2>5. Len(received) < MaxMessages /\ Len(received) + 1 \in DOMAIN parsed
    <3>1. /\ Len(parsed) <= MaxMessages
          /\ Len(parsed) = Len(received) + Len(read_to_peer) + InSending
        BY <1>0 DEF ReadPipeline
    <3>2. QED
        BY <1>0, <2>2, <3>1, PlaceFacts
  <2>6. cmd \in Command
      BY <1>0, <2>3, <2>5 DEF DetailTypeOK
  <2>7. PA!Become(Self, PA!Forward([cmd |-> cmd, conn |-> Self]))
      BY <2>1, <2>4, BecomesOther DEF PeerOf, PA!Forward, Holding
  <2>8. PA!AtLoop(Self)
      BY <2>1, Seen
  <2>9. Only(received, << >>)' = [Only(received, << >>) EXCEPT ![Self] = Append(@, cmd)]
    <3>1. received' = Append(received, cmd)
        BY <2>1, <2>4
    <3>2. Only(received, << >>)' = Only(Append(received, cmd), << >>)
        BY <3>1 DEF Only
    <3>3. [Only(received, << >>) EXCEPT ![Self] = Append(received, cmd)]
          = Only(Append(received, cmd), << >>)
        BY DEF Only
    <3>4. Only(received, << >>)[Self] = received
        BY AsOneTask
    <3>5. QED
        BY <3>2, <3>3, <3>4
  <2>10. UNCHANGED << Only(taken, << >>), PA!chanVars >>
      BY <2>1, SameNames DEF Only, PA!chanVars, PA!channels, chanVars, channels
  <2>11. PA!PeerReads(Self, cmd)
      BY <2>5, <2>7, <2>8, <2>9, <2>10, AsOneTask DEF PA!PeerReads
  <2>12. QED
      BY <2>6, <2>11 DEF PA!PeerNext
<1>6. CASE PeerToPM
  <2>1. /\ state.at = "to_pm" /\ Running /\ UNCHANGED << received, taken >>
        /\ PeerOf = state
      BY <1>0, <1>6 DEF PeerToPM, Stages, PeerOf
  <2>2. UNCHANGED << Only(received, << >>), Only(taken, << >>) >>
      BY <2>1 DEF Only
  <2>3. CASE /\ pm_up /\ HasRoom(peer_to_pm) /\ state' = At("loop")
             /\ peer_to_pm' = Append(peer_to_pm, ReadyMessage(set_id_peers[Self], state.message))
    <3>1. PA!Become(Self, PA!PeerLoop)
        BY <2>3, BecomesOther DEF PeerOf, At, PA!PeerLoop
    <3>2. PA!PeerForwards(Self)
        BY <1>6, <2>1, <2>2, <2>3, <3>1, AsOneTask, SameNames
        DEF PeerToPM, PA!PeerForwards, Running
    <3>3. QED
        BY <3>2 DEF PA!PeerNext, PA!PeerTurn
  <2>4. CASE ~pm_up /\ state' = Stopping({"read", "write"}) /\ UNCHANGED peer_to_pm
    <3>1. PA!Become(Self, PA!PeerClosing)
        BY <2>4, BecomesOther DEF PeerOf, Stopping, PA!PeerClosing
    <3>2. PA!PeerForwards(Self)
        BY <1>6, <2>1, <2>2, <2>4, <3>1, AsOneTask DEF PeerToPM, PA!PeerForwards, Running
    <3>3. QED
        BY <3>2 DEF PA!PeerNext, PA!PeerTurn
  <2>5. QED
      BY <1>6, <2>3, <2>4 DEF PeerToPM
<1>7. CASE PeerFromPM
  <2>1. /\ Running /\ state.at = "loop" /\ UNCHANGED received
        /\ PeerOf = [at |-> "loop"] /\ PA!AtLoop(Self)
      BY <1>7, Seen DEF PeerFromPM
  <2>2. UNCHANGED Only(received, << >>)
      BY <2>1 DEF Only
  <2>3. CASE SenderDropped(Self) /\ UNCHANGED << taken, pm_to_peer >>
             /\ state' = Stopping({"read", "write"})
    <3>1. PA!Become(Self, PA!PeerClosing)
        BY <2>3, BecomesOther DEF PeerOf, Stopping, PA!PeerClosing
    <3>2. UNCHANGED << Only(taken, << >>), PA!chanVars >>
        BY <1>7, <2>3 DEF PeerFromPM, Only, PA!chanVars, PA!channels
    <3>3. PA!PeerOrphaned(Self)
        BY <2>1, <2>2, <2>3, <3>1, <3>2
        DEF PA!PeerOrphaned, PA!SenderDropped, SenderDropped, PA!Range, Range
    <3>4. QED
        BY <3>3 DEF PA!PeerNext, PA!PeerTurn
  <2>4. CASE pm_to_peer[Self] # << >> /\ pm_to_peer' = [pm_to_peer EXCEPT ![Self] = Tail(@)]
    <3>1. CASE /\ Head(pm_to_peer[Self]) # Shutdown
               /\ state' = Holding("to_write", Head(pm_to_peer[Self]).message)
               /\ taken' = Append(taken, Head(pm_to_peer[Self]).message)
      <4>1. UNCHANGED Only(PeerOf, [at |-> "loop"])
          BY <2>1, <3>1 DEF PeerOf, Holding, Only
      <4>2. Only(taken, << >>)'
            = [Only(taken, << >>) EXCEPT ![Self] = Append(@, Head(pm_to_peer[Self]).message)]
          BY <1>0, <3>1 DEF Only
      <4>3. PA!PeerReceives(Self)
          BY <1>7, <2>1, <2>2, <2>4, <3>1, <4>1, <4>2, SameNames DEF PeerFromPM, PA!PeerReceives
      <4>4. QED
          BY <4>3 DEF PA!PeerNext, PA!PeerTurn
    <3>2. CASE /\ Head(pm_to_peer[Self]) = Shutdown
               /\ state' = Stopping({"read", "write"}) /\ UNCHANGED taken
      <4>1. PA!Become(Self, PA!PeerClosing)
          BY <3>2, BecomesOther DEF PeerOf, Stopping, PA!PeerClosing
      <4>2. UNCHANGED Only(taken, << >>)
          BY <3>2 DEF Only
      <4>3. PA!PeerReceives(Self)
          BY <1>7, <2>1, <2>2, <2>4, <3>2, <4>1, <4>2, SameNames DEF PeerFromPM, PA!PeerReceives
      <4>4. QED
          BY <4>3 DEF PA!PeerNext, PA!PeerTurn
    <3>3. CASE SenderDropped(Self)
        BY <2>4, <3>3 DEF SenderDropped
    <3>4. QED
        BY <1>7, <3>1, <3>2, <3>3 DEF PeerFromPM
  <2>5. QED
      BY <1>7, <2>3, <2>4 DEF PeerFromPM
<1>8. CASE PeerJoins
  <2>1. /\ Running /\ state.at = "join" /\ UNCHANGED << state, received, taken >>
        /\ PeerOf = [at |-> "closing"]
      BY <1>8, Seen DEF PeerJoins, taskVars
  <2>2. UNCHANGED PA!peerOwn
      BY <2>1 DEF PA!peerOwn, Only, PeerOf
  <2>3. PA!PeerReturns(Self)
      BY <1>8, <2>1, <2>2, AsOneTask DEF PeerJoins, PA!PeerReturns, PA!PeerClosing, Running
  <2>4. QED
      BY <2>3 DEF PA!PeerNext, PA!PeerTurn
<1>9. QED
    BY <1>1, <1>2, <1>3, <1>4, <1>5, <1>6, <1>7, <1>8 DEF DetailNext

-----------------------------------------------------------------------------
(* The theorems.                                                           *)

(* DetailInv is an invariant.                                              *)
THEOREM DetailInvariance == DetailSpec => []DetailInv
<1>1. DetailInit => DetailInv
    BY DetailInitInv
<1>2. DetailInv /\ [DetailNext \/ DetailEnv]_detailVars => DetailInv'
    BY DetailNextInv
<1>3. QED
    BY <1>1, <1>2, PTL DEF DetailSpec

(* The places of the tasks, and the bounds of the two channels between     *)
(* them: no send goes past the capacity.                                   *)
THEOREM DetailTypeCorrect == DetailSpec => []DetailTypeOK
<1>1. DetailInv => DetailTypeOK
    BY DEF DetailInv
<1>2. QED
    BY <1>1, DetailInvariance, PTL

(* Whatever ends the Peer, in whatever order its subtasks end: what it     *)
(* took from PeerManager is written in order and without gaps, and all of  *)
(* it once the Peer has returned, unless a write failed.                   *)
THEOREM DetailNothingTakenIsLost == DetailSpec => []NothingTakenIsLost
<1>1. DetailInv => NothingTakenIsLost
  <2> SUFFICES ASSUME DetailInv PROVE NothingTakenIsLost
      OBVIOUS
  <2>0. DetailTypeOK /\ Stages /\ ReadPipeline /\ WrittenInOrder
      BY DEF DetailInv
  <2>1. IsInitialPart(socket, taken)
      BY <2>0, PlaceFacts DEF WrittenInOrder, IsInitialPart
  <2>2. IsInitialPart(received, parsed)
    <3>1. Len(parsed) = Len(received) + Len(read_to_peer) + InSending
        BY <2>0 DEF ReadPipeline
    <3>2. Len(received) <= Len(parsed)
        BY <2>0, <3>1, PlaceFacts
    <3>3. QED
        BY <2>0, <3>2, PlaceFacts DEF ReadPipeline, IsInitialPart
  <2>3. ASSUME Self \in DOMAIN set_id_peers, ~Running, task_write.at # "failed"
        PROVE  socket = taken
    <3>1. task_write.at = "done" /\ state.at = "join"
        BY <2>0, <2>3 DEF Stages, WriteDone
    <3>2. WritePipeline /\ Ahead = Len(socket)
        BY <2>0, <3>1 DEF WrittenInOrder, Ahead
    <3>3. Queued = 0
        BY <3>1, <3>2 DEF WritePipeline, Queued
    <3>4. Len(socket) = Len(taken)
        BY <2>0, <3>1, <3>2, <3>3, PlaceFacts DEF WritePipeline
    <3>5. \A i \in 1..Len(socket) : socket[i] = taken[i]
        BY <2>0, PlaceFacts DEF WrittenInOrder
    <3>6. QED
        BY <2>0, <3>4, <3>5 DEF DetailTypeOK
  <2>4. QED
      BY <2>1, <2>2, <2>3 DEF NothingTakenIsLost
<1>2. QED
    BY <1>1, DetailInvariance, PTL

(* Seen from PeerManager, the Peer and its subtasks are the one task of    *)
(* PeerActor, in whose stead the other modules put it.                     *)
THEOREM DetailImplementsPeerActor == DetailSpec => ImplementsPeerActor
<1>1. DetailInit => PA!PAInit
  <2> SUFFICES ASSUME DetailInit PROVE PA!PAInit
      OBVIOUS
  <2>1. PA!ChanInit
      BY DEF DetailInit, ChanInit, PA!ChanInit, Conns, PA!Conns
  <2>2. PeerOf = [at |-> "loop"] /\ received = << >> /\ taken = << >>
      BY DEF DetailInit, PeerOf, At
  <2>3. PA!PeerOwnInit
      BY <2>2, SameNames DEF PA!PeerOwnInit, Only, PA!PeerLoop
  <2>4. QED
      BY <2>1, <2>3 DEF PA!PAInit
<1>2. DetailInv /\ [DetailNext \/ DetailEnv]_detailVars => [PA!PANext]_(PA!peerVars)
  <2> SUFFICES ASSUME DetailInv, [DetailNext \/ DetailEnv]_detailVars
               PROVE  PA!PANext \/ UNCHANGED PA!peerVars
      OBVIOUS
  <2>1. CASE DetailNext
      BY <2>1, TasksShowOne, SelfAssumption, SameNames DEF PA!PANext
  <2>2. CASE DetailEnv
      BY <2>2 DEF DetailEnv, PA!PANext
  <2>3. CASE UNCHANGED detailVars
    <3>1. UNCHANGED << state, received, taken, chanVars >>
        BY <2>3 DEF detailVars, taskVars
    <3>2. QED
        BY <3>1, ShowsNothing DEF PeerOf
  <2>4. QED
      BY <2>1, <2>2, <2>3
<1>3. QED
    BY <1>1, <1>2, DetailInvariance, PTL DEF DetailSpec, ImplementsPeerActor, PA!PASpec
=============================================================================
