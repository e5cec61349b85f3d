-------------------------------- MODULE Peer --------------------------------
(***************************************************************************)
(* One Peer with its two subtasks: Peer::spawn (src/src/network/peer.rs)   *)
(* is the loop between PeerManager and the subtasks, start_task_read       *)
(* (task_read.rs) parses what the remote sends, start_task_write           *)
(* (task_write.rs) writes to the socket.  Four channels join them, and at  *)
(* the end the Peer sends Shutdown to the subtasks still running and       *)
(* awaits their JoinHandles.                                               *)
(*                                                                         *)
(* The module is about the Peer of the connection Self and implements      *)
(* PeerActor, which is how the other modules see a Peer.                   *)
(***************************************************************************)
EXTENDS Channels

CONSTANTS
    Self,           \* the connection
    MaxMessages     \* as in PeerActor

ASSUME SelfAssumption == Self \in Conns
ASSUME MaxMessagesAssumption == MaxMessages \in Nat

VARIABLES
    state,          \* where the Peer is
    task_read,      \* where TaskRead is
    task_write,     \* where TaskWrite is
    read_to_peer,   \* rx_channel_peer: parsed messages for the Peer
    stop_read,      \* Shutdown is queued for TaskRead
    peer_to_write,  \* rx_channel_taskwrite: messages, Shutdown
    parsed,         \* the commands TaskRead parsed, in order
    received,       \* those the Peer received
    taken,          \* the messages the Peer took to hand to TaskWrite
    socket          \* the messages written to the socket

taskVars   == << state, task_read, task_write, read_to_peer, stop_read,
                 peer_to_write, parsed, received, taken, socket >>
detailVars == << taskVars, chanVars >>

(* awaits: the JoinHandles the arm of the critical event awaits.           *)
At(place)          == [at |-> place]
Holding(place, m)  == [at |-> place, message |-> m]
Stopping(awaits)   == [at |-> "stop_write", awaits |-> awaits]
Joining(awaits)    == [at |-> "join", awaits |-> awaits]

Awaits == {{"read"}, {"write"}, {"read", "write"}}

DetailInit ==
    /\ ChanInit
    /\ state = At("loop")
    /\ task_read = At("reading")
    /\ task_write = At("receiving")
    /\ read_to_peer = << >>
    /\ stop_read = FALSE
    /\ peer_to_write = << >>
    /\ parsed = << >> /\ received = << >>
    /\ taken = << >> /\ socket = << >>

DetailTypeOK ==
    /\ state \in [at : {"loop"}]
                 \cup [at : {"to_pm", "to_write"}, message : Message]
                 \cup [at : {"stop_write", "join"}, awaits : Awaits]
    /\ task_read \in [at : {"reading", "done"}] \cup [at : {"sending"}, message : Message]
    /\ task_write \in [at : {"receiving", "done", "failed"}]
                      \cup [at : {"writing"}, message : Message]
    /\ read_to_peer \in Seq(Message) /\ Len(read_to_peer) <= Capacity
    /\ stop_read \in BOOLEAN
    /\ peer_to_write \in Seq(EventsToPeer) /\ Len(peer_to_write) <= Capacity
    /\ parsed \in Seq(Command) /\ received \in Seq(Command)
    /\ taken \in Seq(Message) /\ socket \in Seq(Message)

Running  == Self \in running_peers
ReadDone == task_read.at = "done"
WriteDone == task_write.at \in {"done", "failed"}

-----------------------------------------------------------------------------
(* TaskRead.                                                               *)

(* read() returned bytes that hold a whole message.                        *)
TaskReadParses(cmd) ==
    /\ Running /\ task_read.at = "reading" /\ Len(parsed) < MaxMessages
    /\ parsed' = Append(parsed, cmd)
    /\ task_read' = Holding("sending", [cmd |-> cmd, conn |-> Self])
    /\ UNCHANGED << state, task_write, read_to_peer, stop_read, peer_to_write,
                    received, taken, socket, chanVars >>

TaskReadSends ==
    /\ task_read.at = "sending" /\ HasRoom(read_to_peer)
    /\ read_to_peer' = Append(read_to_peer, task_read.message)
    /\ task_read' = At("reading")
    /\ UNCHANGED << state, task_write, stop_read, peer_to_write, parsed,
                    received, taken, socket, chanVars >>

(* Shutdown came, or the remote closed, the socket failed or the bytes     *)
(* cannot be parsed.                                                       *)
TaskReadReturns ==
    /\ Running /\ task_read.at = "reading"
    /\ task_read' = At("done")
    /\ UNCHANGED << state, task_write, read_to_peer, stop_read, peer_to_write,
                    parsed, received, taken, socket, chanVars >>

(* The part of it that needs no remote.                                    *)
TaskReadStops == stop_read /\ TaskReadReturns

-----------------------------------------------------------------------------
(* TaskWrite.                                                              *)

TaskWriteReceives ==
    /\ task_write.at = "receiving" /\ peer_to_write # << >>
    /\ peer_to_write' = Tail(peer_to_write)
    /\ LET e == Head(peer_to_write) IN
       task_write' = IF e = Shutdown THEN At("done") ELSE Holding("writing", e.message)
    /\ UNCHANGED << state, task_read, read_to_peer, stop_read, parsed,
                    received, taken, socket, chanVars >>

(* write_all of the header and of the payload.                             *)
TaskWriteWrites ==
    /\ task_write.at = "writing"
    /\ \/ /\ socket' = Append(socket, task_write.message)
          /\ task_write' = At("receiving")
       \/ /\ task_write' = At("failed")
          /\ UNCHANGED socket
    /\ UNCHANGED << state, task_read, read_to_peer, stop_read, peer_to_write,
                    parsed, received, taken, chanVars >>

-----------------------------------------------------------------------------
(* The loop of the Peer.                                                   *)

(* Mutant of PeerFromPM: the None of a closed channel is passed over.      *)
PeerFromPMOnly ==
    /\ Running /\ state.at = "loop" /\ pm_to_peer[Self] # << >>
    /\ pm_to_peer' = [pm_to_peer EXCEPT ![Self] = Tail(@)]
    /\ LET e == Head(pm_to_peer[Self]) IN
       IF e = Shutdown
       THEN state' = Stopping({"read", "write"}) /\ stop_read' = TRUE /\ UNCHANGED taken
       ELSE /\ state' = Holding("to_write", e.message)
            /\ taken' = Append(taken, e.message) /\ UNCHANGED stop_read
    /\ UNCHANGED << task_read, task_write, read_to_peer, peer_to_write, parsed,
                    received, socket, pm_to_hm, hm_to_pm, peer_to_pm, pm_up,
                    hm_up, running_peers, set_all_peers, set_id_peers >>

(* The select! arm of PeerManager's channel.  Shutdown and a closed        *)
(* channel are the same critical event; TaskRead is sent Shutdown at once. *)
PeerFromPM ==
    /\ Running /\ state.at = "loop"
    /\ \/ /\ pm_to_peer[Self] # << >>
          /\ pm_to_peer' = [pm_to_peer EXCEPT ![Self] = Tail(@)]
          /\ LET e == Head(pm_to_peer[Self]) IN
             \/ /\ e # Shutdown
                /\ state' = Holding("to_write", e.message)
                /\ taken' = Append(taken, e.message)
                /\ UNCHANGED stop_read
             \/ /\ e = Shutdown
                /\ state' = Stopping({"read", "write"})
                /\ stop_read' = TRUE
                /\ UNCHANGED taken
       \/ /\ SenderDropped(Self)
          /\ state' = Stopping({"read", "write"})
          /\ stop_read' = TRUE
          /\ UNCHANGED << taken, pm_to_peer >>
    /\ UNCHANGED << task_read, task_write, read_to_peer, peer_to_write, parsed,
                    received, socket, pm_to_hm, hm_to_pm, peer_to_pm, pm_up,
                    hm_up, running_peers, set_all_peers, set_id_peers >>

(* Mutant of PeerFromTaskRead: the message is not passed on.               *)
PeerFromTaskReadOnly ==
    /\ Running /\ state.at = "loop" /\ read_to_peer # << >>
    /\ read_to_peer' = Tail(read_to_peer)
    /\ received' = Append(received, Head(read_to_peer).cmd)
    /\ UNCHANGED << state, task_read, task_write, stop_read, peer_to_write,
                    parsed, taken, socket, chanVars >>

PeerFromTaskRead ==
    /\ Running /\ state.at = "loop" /\ read_to_peer # << >>
    /\ read_to_peer' = Tail(read_to_peer)
    /\ received' = Append(received, Head(read_to_peer).cmd)
    /\ state' = Holding("to_pm", Head(read_to_peer))
    /\ UNCHANGED << task_read, task_write, stop_read, peer_to_write, parsed,
                    taken, socket, chanVars >>

(* TaskRead has returned.  select! may take its JoinHandle before the      *)
(* messages it left in the channel: those are lost.                        *)
PeerSeesReadDone ==
    /\ Running /\ state.at = "loop" /\ ReadDone
    /\ state' = Stopping({"write"})
    /\ UNCHANGED << task_read, task_write, read_to_peer, stop_read, peer_to_write,
                    parsed, received, taken, socket, chanVars >>

(* Mutant of PeerSeesWriteDone: TaskRead is not told.                      *)
PeerAwaitsTaskRead ==
    /\ Running /\ state.at = "loop" /\ WriteDone
    /\ state' = Joining({"read"})
    /\ UNCHANGED << task_read, task_write, read_to_peer, stop_read, peer_to_write,
                    parsed, received, taken, socket, chanVars >>

PeerSeesWriteDone ==
    /\ Running /\ state.at = "loop" /\ WriteDone
    /\ state' = Joining({"read"})
    /\ stop_read' = TRUE
    /\ UNCHANGED << task_read, task_write, read_to_peer, peer_to_write, parsed,
                    received, taken, socket, chanVars >>

(* Mutant of PeerToTaskWrite: try_send, which drops what finds no room.     *)
PeerTriesTaskWrite ==
    /\ state.at = "to_write"
    /\ state' = IF WriteDone THEN Joining({"read"}) ELSE At("loop")
    /\ stop_read' = (stop_read \/ WriteDone)
    /\ peer_to_write' = IF WriteDone \/ ~HasRoom(peer_to_write) THEN peer_to_write
                        ELSE Append(peer_to_write, ReadyLowMessage(state.message))
    /\ UNCHANGED << task_read, task_write, read_to_peer, parsed, received,
                    taken, socket, chanVars >>

(* The send to TaskWrite: a send to a task that is gone is a critical      *)
(* event.                                                                  *)
PeerToTaskWrite ==
    /\ state.at = "to_write"
    /\ \/ /\ ~WriteDone /\ HasRoom(peer_to_write)
          /\ peer_to_write' = Append(peer_to_write, ReadyLowMessage(state.message))
          /\ state' = At("loop")
          /\ UNCHANGED stop_read
       \/ /\ WriteDone
          /\ state' = Joining({"read"})
          /\ stop_read' = TRUE
          /\ UNCHANGED peer_to_write
    /\ UNCHANGED << task_read, task_write, read_to_peer, parsed, received,
                    taken, socket, chanVars >>

PeerToPM ==
    /\ state.at = "to_pm"
    /\ \/ /\ pm_up /\ HasRoom(peer_to_pm)
          /\ peer_to_pm' = Append(peer_to_pm, ReadyMessage(set_id_peers[Self], state.message))
          /\ state' = At("loop")
          /\ UNCHANGED stop_read
       \/ /\ ~pm_up
          /\ state' = Stopping({"read", "write"})
          /\ stop_read' = TRUE
          /\ UNCHANGED peer_to_pm
    /\ UNCHANGED << task_read, task_write, read_to_peer, peer_to_write, parsed,
                    received, taken, socket, pm_to_hm, hm_to_pm, pm_to_peer,
                    pm_up, hm_up, running_peers, set_all_peers, set_id_peers >>

-----------------------------------------------------------------------------
(* The end of the Peer.                                                    *)

(* Shutdown goes behind the messages TaskWrite has not received; the error *)
(* of a send to a TaskWrite that is gone is dropped.                       *)
PeerStopsTaskWrite ==
    /\ state.at = "stop_write"
    /\ \/ ~WriteDone /\ HasRoom(peer_to_write) /\ peer_to_write' = Append(peer_to_write, Shutdown)
       \/ WriteDone /\ UNCHANGED peer_to_write
    /\ state' = Joining(state.awaits)
    /\ UNCHANGED << task_read, task_write, read_to_peer, stop_read, parsed,
                    received, taken, socket, chanVars >>

PeerJoins ==
    /\ Running /\ state.at = "join"
    /\ "read" \in state.awaits => ReadDone
    /\ "write" \in state.awaits => WriteDone
    /\ running_peers' = running_peers \ {Self}
    /\ pm_to_peer' = [pm_to_peer EXCEPT ![Self] = << >>]
    /\ UNCHANGED << taskVars, pm_to_hm, hm_to_pm, peer_to_pm, pm_up, hm_up,
                    set_all_peers, set_id_peers >>

DetailNext ==
    \/ \E cmd \in Command : TaskReadParses(cmd)
    \/ TaskReadSends \/ TaskReadReturns
    \/ TaskWriteReceives \/ TaskWriteWrites
    \/ PeerFromPM \/ PeerFromTaskRead \/ PeerSeesReadDone \/ PeerSeesWriteDone
    \/ PeerToTaskWrite \/ PeerToPM \/ PeerStopsTaskWrite \/ PeerJoins

-----------------------------------------------------------------------------
(* What PeerActor shows of it: a message is taken to hand to the socket as *)
(* soon as it is received, and a Peer that has left its loop is closing.   *)

PeerOf ==
    CASE state.at \in {"loop", "to_write"}   -> [at |-> "loop"]
      [] state.at = "to_pm"                  -> state
      [] state.at \in {"stop_write", "join"} -> [at |-> "closing"]

Only(value, otherwise) == [c \in Conns |-> IF c = Self THEN value ELSE otherwise]

PA == INSTANCE PeerActor WITH
        peer  <- Only(PeerOf, [at |-> "loop"]),
        read  <- Only(received, << >>),
        wrote <- Only(taken, << >>)

(* The surroundings are PeerActor's.                                       *)
DetailEnv == UNCHANGED taskVars /\ PA!PAEnv

DetailSpec == DetailInit /\ [][DetailNext \/ DetailEnv]_detailVars

(* Each task runs when it can, PeerManager receives, and a write that has  *)
(* begun ends: the remote reads on, or the socket fails.                   *)
DetailLiveSpec ==
    /\ DetailSpec
    /\ WF_detailVars(TaskReadSends) /\ WF_detailVars(TaskReadStops)
    /\ WF_detailVars(TaskWriteReceives) /\ WF_detailVars(TaskWriteWrites)
    /\ WF_detailVars(PeerFromPM \/ PeerFromTaskRead \/ PeerSeesReadDone
                     \/ PeerSeesWriteDone \/ PeerToTaskWrite \/ PeerToPM
                     \/ PeerStopsTaskWrite \/ PeerJoins)
    /\ WF_detailVars(UNCHANGED taskVars /\ PA!EnvListens)

-----------------------------------------------------------------------------
(* Properties.                                                             *)

IsInitialPart(s, t) == Len(s) <= Len(t) /\ \A i \in 1..Len(s) : s[i] = t[i]

(* Seen from PeerManager, the Peer and its subtasks behave as the one task *)
(* PeerActor describes.                                                    *)
ImplementsPeerActor == PA!PASpec

(* However the Peer comes to its end, what it passed on stays in order and *)
(* without gaps in both directions, and when it has returned everything it *)
(* took from PeerManager has been written, unless the socket failed.       *)
NothingTakenIsLost ==
    /\ IsInitialPart(socket, taken)
    /\ IsInitialPart(received, parsed)
    /\ Self \in DOMAIN set_id_peers /\ ~Running /\ task_write.at # "failed"
          => socket = taken

(* TaskRead waits to send to a Peer that has left its loop: the receiver is *)
(* neither read nor dropped until the Peer returns, so no room comes free. *)
ReaderStuck ==
    task_read.at = "sending" /\ ~HasRoom(read_to_peer) /\ state.at \in {"stop_write", "join"}

(* A Peer that has left its loop returns, unless its TaskRead stays stuck  *)
(* behind a full channel: no other order of the two shutdowns, the joins   *)
(* and the writes under way holds it up.                                   *)
ClosingReturns ==
    (state.at \in {"stop_write", "join"} ~> ~Running) \/ <>[]ReaderStuck

(* A Peer nobody can reach any more, because PeerManager dropped its       *)
(* sender or has gone itself, ends, with the same exception: neither a     *)
(* message it is forwarding nor those still queued for it or for its       *)
(* subtasks keep it alive.                                                 *)
CutOffEnds ==
    (Running /\ Self \notin Range(set_all_peers) ~> ~Running) \/ <>[]ReaderStuck
=============================================================================
