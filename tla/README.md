# A TLA+ verification project for the P2P node

The repository is a small Bitcoin-like P2P node in Rust on tokio: two system
threads, each with a single-threaded runtime, and actors that talk over bounded
mpsc channels. It has no tests and no documentation beyond comments and log
lines, so the code (`src/src/`, called "the code" below; paths are relative to
it) is the only reference. `PROJECT.json` maps every definition that models code
to its lines.

## 1. Inventory

| component | state it keeps | operations | talks to |
|---|---|---|---|
| **main** (`main.rs`) | two `JoinHandle`s | waits for the first `ExitCompletion…`, sends Shutdown to the *other* thread, joins both, merges the results | ThreadNetwork, ThreadProtocol (unbounded channels) |
| **ThreadNetwork** (`network/thread_network.rs`) | handles of PeerManager and LoopListen | spawns both; `select!` on init channel and both handles; at the end sends Shutdown to what still runs, joins it, sends `ExitCompletionThreadNetwork` | PeerManager, LoopListen, main |
| **LoopListen** (`network/looplisten.rs`) | listening socket | accepts, sends `IncomingConnection`; ends on Shutdown or a closed channel | PeerManager, ThreadNetwork |
| **PeerManager** (`network/peermanager.rs`) | `peerid` (u64 counter), `set_all_peers` (PeerId → sender), `set_id_peers` (task → PeerId), `set_task_peers` (JoinSet) | numbers and spawns Peers, announces them, forwards both ways, joins ended Peers, acts on reports of violent peers, on termination disconnects all and drains | LoopListen, ThreadNetwork, HandleMessage, every Peer |
| **Peer** (`network/peer.rs`) | sockets' halves, two subtask handles | forwards parsed messages to PeerManager, hands messages to TaskWrite; eight ways to end, each stopping and awaiting the subtasks still running | PeerManager, TaskRead, TaskWrite |
| **TaskRead / TaskWrite** (`network/task_read.rs`, `task_write.rs`) | byte buffer / nothing | bytes → message → Peer / message → header and payload → socket | Peer, remote |
| **HandleMessage** (`protocol/handlemessage.rs`) | `set_context_peers`, `set_state_peers` (PeerId → addresses / five flags) | version/verack handshake, reports peers that break its order | PeerManager, ThreadProtocol |
| **ThreadProtocol** (`protocol/thread_protocol.rs`) | handle of HandleMessage | spawns it, passes Shutdown on, joins it, sends `ExitCompletionThreadProtocol` | HandleMessage, main |
| **wire format** (`network/wire.rs`) | – | (de)serialisation, checksum, validation of a Version | TaskRead, TaskWrite, HandleMessage |

What is hard in it, and what makes each part correct (every hazard with its line
is in `PROJECT.json`):

- **Ids are reused while they are in use.** `peerid` goes up on accept and *down*
  on every join (`peermanager.rs:320`), so with Peers 1 and 2 running and 1
  ending, the next connection is number 2 as well. Inserting it overwrites the
  registry entry and drops the only sender of the Peer that held it; the later
  join of that Peer removes the new one's entry. The registry must nevertheless lead to the
  right task, the counter must not drift or wrap, and a Peer that lost its sender
  must end.
- **Every send is an await inside a handler.** While an actor waits for room it
  receives nothing. Two actors can wait for each other; flags are written before
  and after such awaits.
- **Termination** has four reasons in PeerManager and eight in a Peer, at any
  moment. Nobody may be left running, nothing handed over may be lost.
- **Messages cross tasks**: a message, the announcement of its connection, the
  completion of an earlier connection with that id and a report about it travel
  on three channels and meet in orders nobody tested.
- **The handshake** must move along one road per direction whatever arrives.
- **Framing**: short buffers, several messages in one read, the announced length.
- **Supervision**: each level waits for one end and then tells the others.

## 2. Modules

```
Supervision         main, the two threads, LoopListen; PeerManager and
 |                  HandleMessage as their supervisors see them (abstract)
 `- System          Node under the supervisors, implements Supervision
     `- Node        PeerManager || HandleMessage || PeerActors
         |- PeerManager    the actor + its most general surroundings (PMSpec)
         |- HandleMessage  the actor + its most general surroundings (HMSpec),
         |                 implements Handshake (abstract)
         |- PeerActor      a Peer as one task (abstract) + surroundings (PASpec)
         |   `- Peer       Peer + TaskRead + TaskWrite, implements PeerActor
         `- Channels       channels, events, who holds which end
Framing             messages as bytes in a stream, cut into reads of any size
 |- FramingBytes    the same steps with the bytes of Wire put in
 |   `- Wire        what the bytes of a header and a payload say
 `- Session         the handshake of two nodes across two such streams
MC*                 instances for TLC
XProofs             the theorems about X: PeerManagerProofs, HandleMessageProofs,
                    NodeProofs (extends these two), SystemProofs (extends
                    NodeProofs and instantiates SupervisionProofs),
                    SupervisionProofs, PeerProofs, FramingProofs; ChannelProofs
                    has the lemmas about channels and maps they share
```

**Channels.** A channel is the sequence of events sent and not yet received;
`send().await` is enabled while it holds fewer than `Capacity`, fails once the
receiver is dropped, and receiving `None` needs an empty channel without
senders. The events are records, one shape per enum variant. A *connection* is a
socket for its whole life and never reused; the program only knows ids. The
field `conn` in messages and in reports is a ghost that says which connection an
event is really about; no guard reads it. `set_all_peers` and `set_id_peers`
live here because owning an entry *is* owning the sender a Peer listens to.

**PeerManager.** `pm` says at which await the task is: `loop` (the `select!`),
`to_protocol` / `to_peer` (a send in a handler), `bulk` / `bulk_to` (the mass
disconnection, in arbitrary HashMap order), `drain` (`join_next`), `done`.

| action | code |
|---|---|
| `IncomingConnection`, `OutgoingConnection`, `CreateFails` | accept arms; both maps and the counter before the announcing await |
| `ReceiveFromProtocol`, `SendPeer` | ready message or violent report → registered Peer; a gone Peer loses its entry for a message and keeps it for a report |
| `ReceiveFromPeer`, `SendProtocol` | forward; a gone HandleMessage terminates |
| `JoinPeer` | the join arms of the loop (all remove the id, count down, announce) |
| `Terminate`, `BulkPick`, `BulkSend`, `BulkEnd`, `DrainPeer`, `PMReturn` | termination, the same for all four reasons |

`PMEnv` lets the surroundings do to channels and flags what the code around
PeerManager may do. Outgoing connections are handled by the code, though at this
commit the line that requests one is commented out (`thread_network.rs:33-34`);
runs about the node's promises are therefore made with incoming connections, and
outgoing ones are added where the direction matters.

**HandleMessage.** `hm` is `select`, one of four sends, or `returned`. A handler
runs up to its first send and continues after it, so half-written flags are
visible. The flags are the set of those that are true. `VersionBuilds` says
which outcomes `build_version_message` may have. `CompletedAllPeer` is handled
by the code though PeerManager's arm that sends it cannot be reached (it holds a
sender of that channel itself); HMSpec sends it all the same.

**Handshake.** What HandleMessage promises: under each id a handshake is absent
or has come some stages along the road of its direction (`in`: received version,
sent version, sent verack, received verack; `out`: sent and received version
swapped), moves one stage at a time and starts over only by being forgotten.
`RoadMap` is the refinement mapping; a set of flags that is on no road is mapped
to a stage Handshake cannot reach.

**PeerActor.** A Peer as the others see it: `loop`, `to_pm` (holding the message
it forwards), `closing`. `read` is what it received from its remote, `wrote`
what it took to hand to the socket. `PAEnv` is a PeerManager that may spawn
under any id, tell, drop an entry, listen, or return at any time.

**Peer.** One Peer in detail: the loop, both subtasks, four channels, `Shutdown`
queued behind messages, the two sends of the closing arms and the joins.
`Awaits` is what the arm of the critical event awaits. The mapping to PeerActor
takes `to_write` to `loop` and `stop_write`/`join` to `closing`.

**Node.** The conjunction of the three, run interleaved: the steps of an actor
leave the others' own variables alone and share the channels.

**Supervision.** The process above the actors. A thread is `starting`,
`selecting` (its `select!`), `joining` the tasks it still awaits, `leaving` (its
`block_on` is over) and `returned` (its runtime and the tasks in it are dropped
too), with the parts it blames in the error it returns. LoopListen is modelled
in full, with the bounded channel to PeerManager; PeerManager and HandleMessage
are what their supervisors see of a JoinHandle: running, closing (told), failing
(by itself), then `ok`, `err` or `panicked`.

| action | code |
|---|---|
| `MainHears`, `MainHearsNothing`, `MainReturns` | the receive on the init channel, the Shutdown to the other thread, the two joins |
| `NetworkStarts`, `NetworkCannotStart`, `NetworkToldShutdown`, `NetworkSeesEnd`, `NetworkSeesPanic`, `NetworkJoins`, `NetworkReturns` | `thread_network.rs`, arm by arm; `BlamedAtJoin` is what the arms after the joins return |
| `ProtocolStarts` … `ProtocolReturns` | `thread_protocol.rs`; `ProtocolSeesPanic` is the arm that announces nothing |
| `LLBinds`, `LLAccepts`, `LLSends`, `LLStops`, `LLCannotBind` | `looplisten.rs` |
| `Panics` | a task panics at an await |

Nothing in the program starts a shutdown at this commit: the sends in `main` are
commented out (`main.rs:45-49`), so every end begins with a fault. The arms for
a closed init channel cannot be reached, since main keeps its senders until both
threads are joined, nor can the tasks' arms for a closed supervisor channel, for
the same reason one level down; they are left out.

**System.** Node under Supervision. It closes what each leaves open of the other:
the Shutdown of a supervisor is the event the actor receives, a connection is
accepted only if LoopListen queued it, and a task of Supervision is the actor in
detail (`SeenOfPM`, `EndsWith`). `ImplementsSupervision` is the refinement: what
Supervision takes for granted of when and how PeerManager and HandleMessage end
is what the actors do. Its faults are a port that cannot be bound and a panic of
HandleMessage at any await; the others (a panic of PeerManager or LoopListen, a
runtime that cannot be built) are in Supervision only, because what they do to
the actors is to drop them.

**Framing.** A stream per direction. A byte is its position; `start` is the
position of the head of the storage buffer, so what is at the head is the
message that begins there, or the middle of one. A read takes any number of the
bytes written and not yet read, up to the temporary buffer, and has one of four
outcomes, `ReadPanics`, `ReadRejects`, `ReadWaits`, `ReadParses`, after which at
most one message has been taken. A Verack is one byte on the wire, and its
header announces none (`task_write.rs:23`). The streams are those this
program's own writer produces.

**Wire, FramingBytes.** Wire is what `wire.rs`, `create_header_message` and
`raw_byte_processing` compute, over bytes; SHA-256 is some function of the
bytes. FramingBytes has the steps of Framing and the bytes of Wire at its
positions, and `BytesSayTheSame` says that every step of the reader is the one
the bytes lead to: so that the positions of Framing are not an assumption.

**Session.** The roads of Handshake at the two ends and Framing between them. The
actors between a handler and its socket are left out: that they neither reorder
nor repeat what a handshake sends is SocketOrder of the node.

## 3. Runs

| run | instance | what it shows |
|---|---|---|
| `hm` | 1 in, 1 out, capacity 1, all commands, versions that build or not | maps agree; a handshake is marked as completed exactly with the Verack; implements Handshake |
| `peer` | 1 Peer, channels of capacity 1, 2 messages each way, fair tasks | implements PeerActor; nothing lost or reordered; a Peer that has left its loop, or that nobody can reach, returns |
| `node_serving` | 2 incoming, 2 messages each, capacity 2 | no leak, order on the socket, no innocent report, flags and traffic agree; no channel of a Peer beyond its bound; no deadlock |
| `node_ending` | 2 in, 1 out, silent remotes, capacity 1, all four reasons | counter, registry and low ids; nobody is left out of the mass disconnection; no leak; PMSpec and HMSpec; no deadlock |
| `node_orphans` | 3 incoming, capacity 1, 1 message from two of them | a Peer that lost its entry ends |
| `node_honest` | 1 in, 1 out, capacity 2, remotes follow the protocol | handshakes complete; HMSpec |
| `node_report` | 2 incoming, 1 verack each | **violated**: see findings |
| `system` | 2 incoming, 1 verack each, capacity 1, backlog 1, both faults | implements Supervision and PMSpec; no Peer outlives the network thread; the process ends |
| `supervision` | backlog 2, all six faults in any number and order | the process ends, names a part that failed, and awaits every end it means to |
| `framing` | 3 messages, reads of any size, short numbers | what is read on is what was written; where a stream breaks or waits; the bytes agree |
| `framing_short` | 1 message, the sizes of the code | **violated**: see findings |
| `session` | 2 messages each way, reads of any size | both sides complete unless the portions are bad |

Why the bounds are enough. Reuse of an id needs two connections, an overwritten
entry followed by the join of the earlier holder three; `node_ending` and
`node_orphans` have three. A full channel needs capacity 1 and two events. Full
queues do wedge the program (below), so the two deadlock-checked runs keep clear
of that: in `node_serving` what two remotes send does not fill the queues both ways, in
`node_ending` the remotes are silent and HandleMessage has one event to send. Two messages per remote
give the complete handshake, every duplicate and every swap. A connection is
used once, so behaviours are as long as the connections last; `CreateFails` may
happen any number of times, and in `system` so may connections beyond the two of
the instance, which end as `CreateFails`. `MaxMessages` bounds what a remote
sends, `MaxHanded` what a writer is handed; `MCOneCause` keeps one reason to
terminate per behaviour (the reasons have the same handler), `MCTwoSpeak` one of
three remotes silent (two are enough to fill the Peers' queue and wait for it). Symmetry is used in
runs without liveness only. In `framing` and `session` the lengths are reduced
(a header of 14 or 4 bytes, a Version of 47 or 5, bytes of two bits): every
guard compares a length with the header, the magic or the payload, and their
order, the magic shorter than the header shorter than a whole message, is that
of the code. A header at the head of a buffer is thus cut at every place. The
temporary buffer is larger than all that is written, as the 4096 bytes of the
code are larger than a handshake.

**Fairness.** `Fairness` in Node, `DetailLiveSpec`, `SupFairness`,
`SystemFairness` and `SessionSpec` ask weak fairness of each task and thread: a
tokio task that is woken is polled, a thread that can run is scheduled, and
`select!` picks among ready arms at random, so one that stays ready is taken.
Nothing is asked of remotes, new connections or faults. PMWork is fair as a
whole, so its loop may take a ready arm late, but the instances have finitely
many events and it takes each in the end; under endless traffic the random
choice of `select!` is what reaches an arm. Weak fairness is enough for
LoopListen too, which may prefer connections to its Shutdown for as long as it
likes: when it is told, PeerManager ends in any case, and the next send fails.
One thing goes beyond scheduling: that a closing Peer returns. `Peer.tla` shows
what it rests on: a `write_all` under way ends, and TaskRead is not stuck
(`ReaderStuck`, below). `SessionSpec` asks of the network only that bytes
written are delivered.

**Full queues wedge the program.** The liveness properties of the node and of
the system say "or `<>[]Wedged`", those of a Peer "or `<>[]ReaderStuck`": three
circular waits can close for good when a channel of 1024 events is full. In the
instances of `node_orphans`, `system` and `peer`, with capacity 1, they can
close, and the runs show that they are the only obstacles:

- PeerManager waits for room in HandleMessage's channel and HandleMessage for
  room in PeerManager's (`peermanager.rs:297`, `handlemessage.rs:215`);
- PeerManager sends to, or drains, its Peers while their channel to it is full
  and they wait for room (`peermanager.rs:384`, `peer.rs:110`);
- a Peer awaits TaskRead while TaskRead waits for room in the Peer's channel,
  which is neither read nor dropped (`peer.rs:126`, `task_read.rs:36`).

**Finding (`node_report`).** PeerManager's log says the peer with the reported
id ends because *it* misbehaved (`peermanager.rs:366`). The id may belong to
another connection by the time the report is handled; that one is sent Shutdown.

**Finding (`framing_short`).** `raw_byte_processing` means to wait while its
buffer is shorter than a header, but its guard is `len() < 0`
(`task_read.rs:68`) and the second one (`:111`) stands behind the slices it
should protect. A read that ends within a header panics TaskRead.

**What the other runs show of the stream.** `framing` and `session` hold with
exceptions that are in the code, and the properties name them:

- one message is taken for each read (`task_read.rs:39`). A Version and a Verack
  that come in one read, as they well may, leave the Verack in the buffer until
  more bytes come, and in a handshake none do: it stalls (`crowded`, in
  OnlyTheCrowdWaits and HandshakeOverTheWire);
- the byte of a Verack's payload stays at the head of the buffer, so the next
  read is rejected or, if short, panics (RejectedOnlyAfterVerack). Nothing
  follows a Verack in a handshake, but its byte may itself come in a read of its
  own.

**What is relative to a fresh id.** SocketOrder, InnocentNotReported,
FlagsMatchTraffic and HandshakeCompletes speak of connections whose id no other
connection has had (`Fresh`). With a reused id the code does not keep them:
HandleMessage keeps the earlier connection's context under the id
(`handlemessage.rs:61`) and answers the later one from it.

**What an end of the process need not be.** EndsAreAwaited has two exceptions
that are in the code: when LoopListen panics, the network thread returns without
a word to PeerManager, whose Peers are then cut off with the runtime; and the
other way round (`thread_network.rs:356-369`).

**Mutants.** Each property has a mutated definition (comment "Mutant …" in the
modules) that breaks it: a counter advanced late, an entry not removed, a loop
that ends one early, half an update, a dropped bound, a swapped pair, an end
that is not awaited or not announced, bytes in the wrong order.

## 4. Proofs

The theorems hold for every finite set of connections, every capacity, backlog,
set of commands, set of faults, number of messages and length: what they assume
is the named ASSUMEs of the modules (a bound is a number, a set of commands is a
set of commands) and nothing else, with one exception, InnocentNotReported
(below). How they are put together:

```
PMSpec  => PMTypeOK, PeeridCountsTasks, RegistrySound, LowIdsNeverPileUp
HMSpec  => HMTypeOK, MapsAgree, ImplementsHandshake
NodeSpec => PMSpec, HMSpec           so all of these hold of the node, and
NodeSpec => NoLeak, DrainedPeersAreTold, PeerTypeOK
NodeSpec => SocketOrder, FlagsMatchTraffic
VersionBuilds = {TRUE} |- NodeSpec => [](pm_up => InnocentNotReported)
SupSpec => SupTypeOK, FaultIsNamed, EndsAreAwaited, ServesUntilFault
SystemSpec => PMSpec, SupSpec        so do these of the process, and
SystemSpec => PeersEndFirst
SystemSpec => SocketOrder, FlagsMatchTraffic, NoLeak, DrainedPeersAreTold
VersionBuilds = {TRUE} |- SystemSpec => [](pm_up => InnocentNotReported)
DetailSpec => DetailTypeOK, NothingTakenIsLost, ImplementsPeerActor
FramingSpec => FramingTypeOK, ParsedInOrder, RejectedOnlyAfterVerack,
               OnlyTheCrowdWaits
```

An actor is proved correct once, in surroundings stated in its own module; a
composition is then shown to be no worse than those surroundings. None of the
invariants is inductive as it stands. What each needs besides:

- **PeerManagerProofs**, `PMInv`. The type of the u64 counter rests on the
  counting invariant (a decrement happens at a join, so the JoinSet was not
  empty), that on the finiteness of the JoinSet, and the registry on the fact
  that a join removes the id of exactly the task it joins; `TasksKnown` says
  that a running Peer is in the JoinSet and a task in it has an id.
  LowIdsNeverPileUp holds at an accept because the new id is one more than the
  number of tasks.
- **HandleMessageProofs**, `HMInv`. The flags under each id are one of the five
  stages of its direction (`EveryoneOnRoad`) and, while a handler awaits a send,
  the stage its id is at is the one that send belongs to
  (`AwaitsKnowTheirStage`): otherwise the flags written after the await could
  leave the road. HMTypeOK follows from both: completed_handshake belongs to the
  last stage alone. The refinement maps each action to one stage of one handshake
  or to a stutter.
- **NodeProofs**, `NodeInv` is `PMInv`, `HMInv`, and what neither actor can know
  by itself: every event on its way names the connection it is about by the id
  that connection was given (`Named`), ids are bounded by the number of
  connections (`IdsBounded`; the surroundings of HandleMessage draw from that
  many), and who still holds which end (`UpUntilDone`). `NoLeakInv` says of each
  announcement in HandleMessage's queue that its removal is awaited as well, not
  just of each context: a CompletedPeer behind it, in PeerManager's hand, or yet
  to come from an unjoined task of that id (`Awaited`). `ToldSoFar` says of the
  mass disconnection, at each iteration, that those behind it have been told.
  PeerTypeOK includes the bounds of the Peers' channels
  (`PeerChannelsBounded`), which several tasks fill.
- **NodeProofs**, `TrafficInv`, for what is said of a connection whose id is its
  own (`Alone`, which is `Fresh`). A message of the remote passes the Peer's
  hand, `peer_to_pm`, PeerManager's hand and `pm_to_hm`; an answer passes
  `hm_to_pm`, PeerManager's hand and `pm_to_peer`. Each direction is a line of
  places, and the invariant says of each place which stretch of one sequence it
  holds, in order, each once, and nothing else about that connection (`Carries`,
  with its lemmas in ChannelProofs): what a place holds begins where the next
  one, nearer to the goal, ends. `UpLine`: the sequence is the announcement of
  the connection and then what was read from it; the first h of it are in
  HandleMessage's books, and the flags are backed by them (`HeardFlags`). So a
  connection's messages are never handled before its announcement.
  `DownLine`: the sequence is a Version and a Verack, and as many of them have
  been sent as the flags say (`Said`). The flags start from nothing because a
  connection not yet announced has no context (`UnannouncedHasNoContext`), and
  an answer reaches its own Peer because that Peer stays registered while it
  runs (`Registered`). SocketOrder and FlagsMatchTraffic are read off the lines.
  For InnocentNotReported the line also says that the stage of the handshake is
  the one the number of messages heard calls for (`HeardInStep`), as long as the
  remote has kept to the protocol. That is so only while no reply fails:
  the theorem asks that versions can be built (`VersionBuilds = {TRUE}`, a clock
  not before 1970) and speaks of states in which PeerManager is there (`pm_up`).
  TLC finds each of the two needed: after a reply that failed the handler goes
  on without the flag, and blames the remote for its next message.
- **SupervisionProofs**, `SupInv`. What holds at the end has to be known at each
  stage: whom a thread blames, by where it is and what its tasks can be then
  (`NetworkStage`, `ProtocolStage`), and where a fault has left a trace that no
  later step erases (`FaultsLeaveTraces`).
- **PeerProofs**, `DetailInv`. Both directions are pipelines, and the invariant
  says of each place which position of the sequence at the source it holds
  (`ReadPipeline`, `WritePipeline`); `Stages` says which subtask is known to have
  ended where, so that a Peer returns with nothing left in its channel unless a
  write failed.
- **FramingProofs**, `FramingInv`, per direction. What was parsed is a prefix of
  what was handed over, the buffer begins with the next message or in the middle
  of the last (`StartsBehindParsed`), messages are written without gaps
  (`Spaced`), and what ended a stream is behind the message that explains it
  (`EndExplained`). `CrowdWaits` counts the complete messages not yet parsed.
- **SystemProofs**, `SystemInv`. It says of each task that its handle shows its
  supervisor what the actor is (`PMSeen`, `HMSeen`, `ListenerSeen`), that a
  Shutdown a supervisor sent is the one the actor finds (`ToldIsQueued`), and
  that the network thread polls PeerManager until it has returned
  (`NetworkAwaits`). Every step of the process is one of the node or a panic of
  HandleMessage, which the node alone does not know and which to everyone else
  looks like its end. The invariants about the traffic of the node, `NoLeakInv`,
  `ToldSoFar` and `TrafficInv`, survive the panic too (`PanicKeepsBooks`,
  `PanicKeepsTraffic`): it takes HandleMessage's queue with it and touches
  nothing else the lines are about, and what they say of HandleMessage's books
  beyond that they say only while it is up. So the theorems of the node
  about single connections are theorems of the whole process.

Each of these invariants was model-checked on the instance of its module before
it was proved; proving them changed no action of the model.

Only model-checked:

- the refinement of Framing by the bytes of Wire and HandshakeOverTheWire: Wire
  computes over sequences of bytes by recursion;
- liveness (OrphansEnd, HandshakeCompletes, CutOffEnds, ClosingReturns,
  ProcessEnds, SystemEnds), which is out of the prover's reach.

## 5. Not modelled, and the plan

Left out:

- log texts, and of the error values all but the part they name (Supervision)
  and that parsing failed (Wire);
- `active_peers` and the ZeroPeers arm (nothing reads the one or reaches the
  other), and the arms that no end of a channel can reach (section 2);
- how long `TcpStream::connect` holds up the loop of PeerManager: an outgoing
  connection is one step, and none is requested at this commit;
- the values of addresses, nonces and times outside Wire; the validation of a
  Version is a choice between its two outcomes in HandleMessage;
- SHA-256 itself, UTF-8, the limit on the size of a payload (no message of this
  program comes near it), and streams of malformed bytes: TaskRead then ends,
  which Peer has as `TaskReadReturns`;
- `set_id_peers`, which no code ever shrinks, has no bound to check.

Done: the modules of section 2, and the theorems of section 4. Every invariant
the runs check is proved of the node or the component it is about, but for the
bytes of Wire (InnocentNotReported for a clock that is right), and those of the
node of the process as well. What is left is to prove InnocentNotReported with a
clock that may be wrong, for a connection whose Version has been answered.
