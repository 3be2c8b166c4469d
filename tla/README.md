# Verification of matter-cli

TLA+ modules for the parts of matter-cli in which goroutines, processes, a lossy
network and a device with a mind of its own meet; TLC configurations that check
them on small instances; and TLAPS proofs of the invariants that carry the most
weight, for every size of the instance. Paths are relative to the repository,
`src/` in `PROJECT.json` being its root.

    tlc -workers 2 -config BTPSafety.cfg MCBTP      # a run (see "Runs")
    tlapm BTPProof.tla                              # the proofs of a module

`PROJECT.json` lists the components, the runs, the lines each definition models
(`map`), a mutation of the code for every property (`mutants`), the hazards and the
theorems.

## 1. The system

matter-cli is a Matter controller: a command line that commissions devices, keeps
them in a local store, and reads, writes, invokes and subscribes, directly or through
a session daemon.

| Component | State | Operations | Talks to |
|---|---|---|---|
| BTP session, BLE connection (`internal/transport/btp.go`, `ble.go`) | sequence numbers, window count, pending ack, reassembly buffer, message channel, C1 lock | dial and handshake, Send, Receive, ack ticker, C2 callback and poller, disconnect watcher, Close | GATT characteristics of the device |
| BLE adapters and scanners (`ble_adapter_tinygo.go`, `ble_scanner.go`) | scan results, cached C2 value | scan, stop, connect, write, subscribe | the Bluetooth library |
| UDP connection (`udp.go`) | socket | Send, Receive with a reader goroutine | network |
| MRP (`mrp.go`) | pending messages and timers | Send, HandleAck, retransmission | nothing (not wired in) |
| Exchange manager (`internal/protocol/exchange.go`) | next ID, table of exchanges, a channel in each | NewExchange, CloseExchange, HandleMessage, CloseAll | callers above, pump below |
| Sessions (`session.go`) | table by ID, counters, replay window | allocate, look up, validate | pump, controller |
| Controller (`internal/controller`) | transport, pump goroutine, session, fabric | ConnectPASE/CASE, sendMessage, pump, rediscovery, BLE to IP handover, Close | all of the above |
| PASE, CASE (`internal/secure`) | handshake state | establish | an exchange |
| Interaction client (`internal/interaction`) | one exchange per operation; the subscription goroutine and its two channels | Read, Write, Invoke, InvokeTimed, Subscribe | exchange manager |
| `subscribe` command (`cli/subscribe.go`) | records written, signal, bound | select loop | Subscription |
| Session daemon (`internal/daemon`, `cli/session.go`) | cache of sessions, store, idle timer, socket path | start, invoke/read/write, node requests, stop, evict, shutdown | CLI processes over a Unix socket |
| Store (`internal/store/bolt.go`) | fabrics, nodes, resumption records; a file lock | one transaction per call | CLI, daemon |
| Commissioning flow (`internal/commissioning/flow.go`, `cli/commission.go`) | position in the flow, `bleDropped`, retry counters | ~15 calls to the device, reconnect, CASE, save | sessions, interaction client, store |
| Device commands (`cli/decommission.go`, `fabric.go`, `rename.go`, `commission_window.go`, `tree.go`, `cluster_discover.go`) | a copy of a node record | requests to the device and to the store, by the daemon or without it | daemon, store, devices |
| Discovery (`internal/discovery`, `controller_ble.go`) | the search's goroutines and channels, `dns-sd` processes | scan, browse, watch, list | Bluetooth, mDNS |
| TLV codec (`internal/tlv`) | a buffer and a position | Marshal, Unmarshal, Writer, Reader | every message |
| Command line (`cli/root.go`, `target.go`, `use.go`, `config.go`, `interactive.go`, `cluster.go`, `attribute.go`), completion | sticky default target, flags of the REPL, attribute cache | resolve the target, parse names and values, complete | everything |
| Setup payload, certificates, ciphers, generated clusters, code generator, vendor database, output | none or constant | pure functions, I/O | - |

What is hard in it: two Sends, a ticker and a callback share the BTP session under two
locks; the pump works on an exchange after it let go of the manager's lock, and is itself
replaced while sessions move from Bluetooth to IP; the subscription goroutine and the
command end in any order; handlers of the daemon use, replace and evict each other's
sessions and save copies of records read earlier; commands choose between the daemon
and the file by a check that may be out of date when they act; commissioning is a
dozen calls over a link that is expected to drop, against a device that undoes everything
when its failsafe expires; two searches race and must stop each other; a message may
arrive cut, repeated, or from a newer revision of the protocol. `PROJECT.json` lists each
hazard at its line with the properties aimed at it.

What makes each component correct: BTP is a FIFO datagram channel and never breaks the
numbering; an exchange gets its own answers, is released when the connection goes, and
is forgotten when its operation ends; a session's two ends have the same keys, and
nothing goes out in the clear; a read shows what the device has, and what the user is
told of a write or an invoke is what happened, by either transport; a subscription prints
whole cycles in order and winds down; the daemon never hands out a closed session nor keeps
a failed one; a socket path leads to a daemon that serves; the replay window is exact;
commissioning never reports success for a device that has not committed, decommissioning
never for one that still holds the fabric; discovery answers with the device meant and
leaves nothing running; the codec loses nothing; a line acts on the target it names.

## 2. Modules

Each module models one component, its goroutines as interleaved actions; a step is what
the code does between two points at which another goroutine can get in (a lock that is
released, a channel operation, a write, a bolt transaction).

**BTP** (`btp.go`, `ble.go`). Payloads are numbers of segments. A Send goes through
`lock` (c1Mu), `segment()`, and for each segment `waitCanSend` (test, park, asleep as
separate states, because the condition variable's lost wakeups live there), the C1
write and `markSent`. The ticker takes an acknowledgement, writes it, rolls it back when
the write fails. A C1 write may fail, or return no error and be lost (`WriteOut`):
outside macOS it is a best-effort write without response (ble_write_other.go:10-17), on
macOS it is only queued (ble_adapter_tinygo.go:314-320). `wire` records what was written,
`peer` what arrived. The C2 callback is `ProcessAck`, `RecordSegment`, `DeliverMessage`;
Close is two steps. The peripheral (external) accepts sequential numbers, assembles
messages, acknowledges what it owes and sends within its window. Modular arithmetic
has `SeqMod` values (256 in the code). **LossyFifo** is what `transport.Conn` promises
of received messages; `InboundFifo` is the refinement.

**Discovery** (`discovery/mdns.go`, `mdns_dnssd_darwin.go`, `mdns_browser_other.go`, `ble.go`,
`controller_ble.go`, `ble_scanner.go`, `ble_adapter_tinygo.go`, `cli/discover.go`).
`find` is the caller: it starts the BLE scan (`bt`, `radio`) and the mDNS watch (`mw`,
`browse`, one resolver `res[d]` per instance), takes the first answer, cancels the other
side and collects it. A StopScan that comes before the scan has begun is lost, as in the
library. **BLEDial** extends it: the device found over BLE is dialled by DialBLE, with
the GATT set-up, the handshake and its retries, the three ways by which an indication
comes in on macOS (callback, cached value, poller) and the disconnect watcher. `Next` runs
the two side by side; the dial begins with what the search has returned.

**Exchanges** (`exchange.go`, the pump in `controller.go`, the shape of the operations
in `interaction/client.go`). The pump's look-up, test of `closed` and send into the
channel are three steps. The network loses, delays, reorders and duplicates; the device
answers, and opens exchanges of its own. IDs wrap at `NumIDs`.

**SecureChannel** (`secure/pase.go`, `case.go`, `session_keys.go`). The handshakes as functions
from what a party has seen to what it sends next. Cryptography is symbolic: a key, a
signature or a sealed box is the inputs it was made from, so that two parties have the
same key exactly when they derived it from the same inputs.

**Controller** (`controller.go`, `controller_ble.go`, `rediscover.go`, `adapters.go`, `session.go`)
extends SecureChannel. A caller works through a plan: CASE to a stored node, PASE over IP,
or PASE over Bluetooth with the change to IP for CASE. A *stack* is a session table with its
exchange manager; ConnectPASEoverBLE makes a new one through a sub-controller. A session
is put into the table before its keys are known and filled in while the pump may look it
up. Two pumps, the network (loss, delay, repeats) and the devices (external: the addressed
one may have moved, another may sit at its address) run beside it.

**Interaction** (`client.go`, `reassemble.go`, `read.go`, `write.go`, `invoke.go`, `status.go`; the error and
output paths of `cli/cluster.go`, `attribute.go`, of `daemon/server.go` and of the commissioner).
One operation from the request to what the user is told. The device cuts its report into
messages anywhere, sends a list whole or as a prefix and appended items, refuses with a
status at any point, SUCCESS included. DirectOutcome and DaemonOutcome are the two conversions of an answer.

**Subscription** (`client.go` Subscribe, `cli/subscribe.go`). The command, the
goroutine, two channels with their closings, the exchange, and a device that reports in
chunked cycles and misbehaves up to `Faults` times. A datagram of the device may come late
or again (`Transmit`, `Stray`): the pump asks no replay filter (controller.go:260). A report whose
transmission is lost is repeated by the device, so it counts as sent when one arrives.

**Daemon** (`server.go`, the requests of `rename` and of node removal). A process is a
CLI command with the handler that serves it. getOrCreateSession is split at every
point where `mu` is not held: look-up, record, CASE at the stored address, rediscovery,
save, insert. Devices move (`MaxMoves`), handshakes and operations fail (`Flaky`).
IdleTimeout is enabled together with the stop command: both cancel the same context.

**Processes** (`cli/device.go`, `session.go`, `session_unix.go`, `decommission.go`, `fabric.go`,
`rename.go`, `tree.go`, `cluster_discover.go`, `commission_window.go`, `attribute.go`; Run and shutdown of
`server.go`, the open of `bolt.go`). Commands and daemons as processes over one locked file, one socket
path and the devices. A command is its sequence of operations (`Program`); each asks first
whether a daemon answers and then sends a request or opens the file. Daemons start, idle
out, are stopped or killed at any step. A direct call without a deadline that has lost its
answer waits with the file open (`Silent`) until the user ends it (`Interrupt`). What a handler does with cached sessions is left to
Daemon: here a request is one step of the daemon's process and its answer another.

**PeerCounter** (`session.go`, `peerMessageCounter`): the bitmap as its set of bits,
against **ReplayFilter**, which says in terms of the set of accepted counters what a
replay filter is. No production code calls the filter; see section 6.

**Commissioning** (`flow.go`, `network.go`, `cli/commission.go`, the deadline of `invokeInternal`).
A process is one run of `matter commission`. Its calls are sent, handled by the device
some time later or never, and answered, rejected, timed out or cut off, with the
treatment of each error that the code gives it (`Tolerated`, `AfterDrop`). Requests
the flow has given up may still be handled. The device (external) has a failsafe that
may expire at any step and takes back certificate and credentials. The store is a file
lock and a map from node ID to device. Ctrl+C may end the process at any step.
Abstract: attestation and its validation are one call, SupportsConcurrentConnection
(only logged) and the feature map's bits (bail out or not) are not represented, a node
ID given by the user is not modelled.

**TLV** (`types.go`, `tags.go`, `encoder.go`, `decoder.go`), **TLVMarshal** (`marshal.go`, `optional.go`) and **TLVWire**.
A buffer is a sequence of elements with the form and number of the tag, kind, width and the
bits that the width keeps; it may end in the middle of an element. Marshal and Unmarshal
follow the struct tags; TLVWire sends a struct of one revision to a reader of another,
with fields the reader does not know, in wider encodings than needed, or cut short.
Integers keep their widths, in bytes of `ByteBits` bits.

**CommandLine** (`cli/root.go`, `target.go`, `use.go`, `config.go`, `interactive.go`, `attribute.go`, `cluster.go`,
`completion.go`, `completion/completer.go`, `clusters/registry.go`). A line is a sequence of tokens, typed or
taken from completion candidates one by one; it is run in a shell or in a REPL, where
flags keep their values. The target comes from the line, the REPL, the environment or the
configuration; fields are converted to TLV with the operators of TLV.

`MC*` modules only give values to constants. MCInputs alone has a next-state relation: it
puts TLVWire, PeerCounter and CommandLine, which share no state, side by side in one run,
the choice of the part being made in the initial state.

## 3. Runs

Passing:

| Run | Instance | Shows |
|---|---|---|
| `btp_safety` | 2 senders, messages of up to 2 segments, window 2, 4 sequence numbers, failing writes, lost writes, cancelled contexts, Close | `SequentialWrites`, `ValidAcks`. Four numbers with two messages of two segments and ticker acks wrap the counter; a window of 2 fills. |
| `btp_live` | 1 sender of a message of up to 3 segments with a window of 2, so a Send has to wait with c1Mu held; the peripheral sends 2 messages of up to 2 segments, channel for 1; failing and lost writes | `InboundFifo`, `MessagesArrive`, `AcksArrive` with its exceptions. The second message waits for a full channel. |
| `discovery` | 2 devices with and without payload, mDNS record and addresses, the same short discriminator for two; long, short and zero codes; every transport preference and capability; one instance resolved at a time; two handshake attempts, one lost write, two segments, macOS and Linux | `FoundIsRight`, `DeliveredOnce`, `DiscoveryEnds`, `DialSettles` |
| `exchanges` | 2 goroutines, channel capacity 1, an exchange of the device with up to 3 messages (so the pump blocks on it), 1 duplicate | `RoutedByKey`, `NoLeaks`, `OwnAnswers`, `LossUnblocks` (except with the pump stuck). As many IDs as exchanges, so IDs do not wrap here: `OwnAnswers` claims no more. |
| `controller` | the target and a device of another fabric and passcode, 2 addresses, 1 move, 1 repeated message, 1 refusal, 2 session IDs (so the allocator searches), 2 Bluetooth and 2 CASE attempts | `OneReader`, `SharedWithPeer`, `NothingHalfOpen`, `Secured`, `CallerEnds` |
| `interaction` | a cluster of a scalar and two lists; reads of one attribute, of all, of an unknown one; writes, invokes and timed invokes, directly, by the daemon and by the commissioner | `ReadExact`, `Truthful`, `TransportsAgree`, `CommandEnds`. An attribute may be answered with an error or with SUCCESS. One message may be repeated; `ReadExact` excepts reads in which it was, `TransportsAgree` the status SUCCESS: see section 6. |
| `subscription` | a priming cycle and two more, of up to 2 chunks, one fault (of the device, the output, a late or repeated datagram) or report without data, `--count 3`, channel capacity 1, Ctrl+C and loss at any point | `InOrder` (with the count), `WholeCycles`, `CommandEnds` (command, goroutine and exchange) |
| `daemon` | 2 commands of any kind, 1 node, 2 addresses, 1 move, failures | `CachedIsOpen`, `FailedNotReused`, `Answered` |
| `processes` | pairs of commands that can disturb each other, with and without a daemon left behind, 1 node, 2 addresses, 1 move, 1 kill, lost answers | `ServedSocket`, `DecommissionHonest`, `CacheSaveCurrent`, `CommandsEnd` (except who waits for an answer without a deadline) |
| `commissioning` | 1 process, 3 reconnects, 3 CASE attempts, up to 6 faults | `OutcomeHonest`, `CommissionEnds` |
| `inputs` | structs with every kind of field, at the edges of every width of 2-bit bytes, an encoded null in a raw field; counters 0..8 with a window of 3; completed lines of up to 5 tokens, some 35 typed ones (a field named in another case, more values than fields), up to three lines in a shell or a REPL | `RoundTrip`, `CutNotInvented`, `IsFilter`, `OfferedIsAccepted`, `RightTarget`, `PayloadHonest` |

Violation, of a sentence in a comment of the code:

| Run | Property | What happens |
|---|---|---|
| `exch_panic` | `NoPanic` | the pump has found the exchange open; the operation returns and closes the channel; the pump sends on it |

CHECK_DEADLOCK is off where the modelled work is finite and everything may simply have
ended; `commissioning` keeps it on.

Bounds stand in for 256 sequence numbers (`SeqMod`), 65536 exchange and session IDs
(`NumIDs`, `NumSIDs`), channel capacities of 16 and 8 (`Cap`, `Buffer`), 32 counters (`W`), 8 resolvers
(`MaxResolve`), 8-bit bytes (`ByteBits`), the items of a list that come with its first report (`MaxPrefix`) and for numbers of messages, commands and faults. Each
is chosen just large enough for the boundary to be met: a full window, a full channel, a
wrap, a second handler, a second attempt, a value on either side of a width.

## 4. Fairness

- BTP: weak fairness of every goroutine's steps; strong fairness for taking a mutex
  (`sync.Mutex` has a starvation mode); the pump keeps calling Receive; the peripheral
  pays the acknowledgements it owes. Strong fairness for a standalone ack: one that is
  tried on every tick does not fail each time. Callers, faults and Close are never forced.
- Discovery, BLEDial: goroutines are scheduled, timers fire, each call of the Bluetooth
  library returns, a `dns-sd` process that is killed ends. Nothing of the devices: neither
  an advertisement nor a record nor an indication ever has to come.
- Exchanges: goroutines are scheduled; nothing of the network, the device or deadlines.
- Controller: the caller is scheduled, its deadlines included (PASE, CASE, invoke and
  discovery have one); a pump whose connection is closed or whose context is cancelled ends.
  Nothing of the network or the devices.
- Interaction: the caller is scheduled and its deadlines fire. `CommandEnds` claims nothing for
  the calls that have none: a direct write and timed request, and the commissioner's reads.
- Subscription: both goroutines are scheduled; a select chooses at random among its
  ready cases, so one that stays ready is taken eventually (`SignalSeen`). Nothing of the
  device: Subscribe has no deadline, so the command ends only after a signal, a loss of the
  connection, its count or its duration. The duration is optional and not fair. The
  clean-up after the command has returned is not modelled.
- Daemon: each handler step is fair because CASE, discovery and every operation have
  deadlines of their own (30 s); the main loop reacts to its channels. The client's 60 s
  deadline is left out: with it a command ends earlier, never later.
- Processes: commands and daemons are scheduled, the idle timer included. A step that talks
  to a device ends because the connection, the invoke or the daemon's request has a deadline.
  The direct reads and writes of decommission, rename and the others in `Unbounded` have
  none (client.go:58, 120, with the context of the command): they may fall silent, and
  `CommandsEnd` then claims nothing of that command nor of who waits for the file it
  keeps open. Starting a command, moves, kills and Ctrl+C are never forced.
- Commissioning: the flow is scheduled and its deadlines fire; the device handles a
  request that reaches it. `CommissionEnds` excepts the calls that have no deadline.

## 5. Proofs

All for arbitrary values of the constants, under the named ASSUMEs of the modules, which TLC
evaluates in the runs: sizes and limits are naturals (positive where the code divides by
them), `WindowSize` and `MaxSegs` are below `SeqMod`, the attributes of a cluster are
finite, and `None` is not one of the values it is told apart from. Every inductive invariant
was checked by TLC, as an invariant of the component's run, before it was proved.

- **BTPProof**: `TypeCorrect` (with it `txInflight <= WindowSize`) and
  `WritesAreSequential`. The inductive invariant adds who holds c1Mu and what it has left
  to write (`LockInv`), that a sender past `waitCanSend` still has room (`WindowInv`), and
  the distance between the number the peripheral expects and `localSeq` in terms of the
  holder's remaining segments, the ticker's number or nothing (`SeqInv`). Without the last,
  nothing ties the numbers taken in `segment()` to those written later. What is written is
  compared with an observer that misses none of it; `SightInv` says that the peripheral agrees with the
  observer as long as no write was lost, which is the second half of the property.

  `AcksAreValid` (`ValidAcks`): numbers wrap, so an indication is named by its *age*, which
  is unambiguous within a window. While the link is up, the unacknowledged indications are
  the youngest ones, the unread ones are the youngest of these, and a pending
  acknowledgement, or one that a sender or the ticker has in hand, lies between; the pending
  one is younger than the one in hand (`AckInv`). The last clause is what makes the failed
  ticker write harmless here: the rollback may go back to an older number, never to one that
  the peripheral has already seen acknowledged.

  `InboundIsFifo` (`Spec => InboundFifo`, the refinement of LossyFifo): a place in the
  peripheral's stream is a number, even between messages and odd within one. The segments in
  the callback and on the link lead, place by place, from where reassembly is to where the
  peripheral is (`Chain`), and the completed messages are whole, in order and older than the
  one in the buffer (`Completed`). Hence the two error returns of handleSegment are not
  reached with this peripheral, and each Receive is a `Deliver` of the abstract channel.

  `DiscoveryIsRight` (`FoundIsRight`, of BLEDial's specification, for any devices, codes,
  preferences and either resolver). What the scan and the watch keep fits the code
  (`FoundInv`), and so do the results on the channel (`ResultsInv`); a listing has one entry
  per device (`ListedInv`). That no device is passed over needs a count: `awaited` is the
  results in the channel plus the sides still busy, so the last result is an error only when
  neither side can bring another, and a side that has seen a device and ended has left a
  result that is not an error (`Seen`). A side that never started, or has ended, changes
  nothing any more (`SidesInv`).

  `SegmentsDeliveredOnce` (`DeliveredOnce`): the segments that BTP has, then the one in the
  cached value of C2, then those in the air are in the order sent (`OrderInv`), so whichever
  of the callback and the poller comes first, it appends something younger. Without the
  cached value, on the systems that have none, the air holds capabilities responses and then
  all the segments that come next (`GapInv`), which starts with nothing sent before the dial
  is done (`EarlyInv`).
- **ExchangesProof**: `DeliversByKey`, `TableIsOpen`, `NothingLeaks`. The pump delivers to
  an exchange it looked up earlier, so the invariant follows the pump's target
  (`TargetMatches`, `CreateMatches`) and says that exchanges not yet created are untouched
  (`Fresh`) and those of the device stay open while the pump runs (`RemoteOpen`). It holds
  after nextID has wrapped too.

  `AnswersAreOwn` (`OwnAnswers`) needs `NoWrap`: no more exchanges are created than there are
  IDs (65536 in the code). The condition is necessary: with one ID fewer than exchanges TLC finds a
  late answer that reaches the successor of its exchange. `OwnInv` counts the
  exchanges made so far, so that their IDs differ, and says that every message in flight or
  queued carries the key of the exchange it answers.

  The module also proves PeerCounter: `WindowIsExact` (`CounterSpec => []BitmapExact`) and
  `ImplementsFilter` (`CounterSpec => IsFilter`): each answer of `validate` is one the
  abstract filter gives.
- **DaemonProof**: `CacheIsOpen`, `ClosesOnce`, `FailedIsGone`. The invariant is ownership:
  a controller is secret to its handler until it is inserted, then the cache's, then the
  one handler's that removed it (`HoldInv`, `CloseInv`, `CacheInv`).
- **CommissioningProof**: `CommissioningIsHonest` (`OutcomeHonest`). Between the flow and the
  device lie requests that were given up and are handled late, and a failsafe that drops what
  was installed. The invariant says, step by step of the flow, what an answer that has
  arrived proves about the device (`AnswerInv`, `CertInv`, `CommitInv`) and that after
  AddTrustedRoot was answered no such request is left in the inbox (`RootInv`): a root dropped by
  the failsafe does not come back, so no certificate can follow it and CommissioningComplete
  is refused. `NodesInv` carries this to the store.
- **ProcessesProof**: `SocketIsServed`, `DecommissionIsHonest` and the action property
  `CacheSaveIsCurrent`. The lock on the database file is the invariant (`LockInv`): whoever is
  past it is the only one who may create or remove the socket. `DeleteInv` ties the step at
  which a record is deleted to what the device has answered, `CopyInv` the copy that a command
  holds to the record and the version it was read from.
- **ControllerProof**: `TransportHasOneReader`, `FailedConnectLeavesNothing`,
  `RequestsAreSecured`. `CoreInv` is ownership of transports by pumps and of sessions and
  exchanges by the operation that runs. `SecureInv` adds keys: only the session that is being
  established lacks them (`KeyInv`), and whatever is encrypted and on its way belongs to a
  session with keys in the table that is now in use (`NetInv`), although the IDs are reused and
  commissioning exchanges the table for another one.

  `KeysSharedWithPeerOnly` (`SharedWithPeer`) follows the transcripts. A key is what it was
  derived from, so it holds the first two messages of its handshake: one names the initiator's session ID
  and, under CASE, the destination, the other the responder's ID. `MadeInv` says that every
  session with a key in any of the tables was made for the target and opens with the message that names its
  ID, `OpeningInv` the same of the transcript of the handshake that runs, and `DevicesInv`
  that a device accepts a session only with a first message meant for it and with its own
  reply. Two ends with the same key therefore agree on the device and on both IDs. Under PASE
  nothing but the passcode tells devices apart: the theorem assumes `CodeOfTarget`, that the passcode
  the user gives is the target's alone; the instance of the run has two devices with different ones.
- **InteractionProof**: `UserIsToldTheTruth` (`Truthful`) and `DaemonAgreesWithDirect`
  (`TransportsAgree`, reports of status SUCCESS excepted). The invariant gives, for each message on the way, what the device has
  done when it is there (`RequestInv`, `ActInv`, `AnswerInv`, `ResultInv`), also when an answer comes
  twice and meets the next leg of a timed call.

  `ReadShowsWhatWasAsked` (`ReadExact`): as long as no message has been handed to the client
  twice, at most one report is on its way, and the reports collected, those it
  carries and those the device has left are, in this order, the whole answer (`ReadInv`,
  with `FullOf`). The answer is a sequence of groups, one per attribute asked for: its status, its
  value, or a list cut into a prefix and appended items (`Whole`, extended group by group,
  `WholeMore`). `ReassembleListChunks` makes one report of each group, in which the list is complete again, and
  so enumerates one report per attribute (`Enumerates`); what `BuildReadRecords` then makes of
  them by sorting depends only on which they are (`BuildSame`, from the rank of each
  attribute), hence it is what the property compares with.

  These are inductions over pieces; they are stated as facts about sets of numbers (`UpToN`,
  from the well-foundedness of the naturals), since a theorem with an operator parameter
  cannot be instantiated.
- **SubscriptionProof**: `WrittenInOrder` (`InOrder`) and `BatchesAreCycles`
  (`WholeCycles`), for any number of cycles, chunks and faults and any capacity of the channel.
  Neither property says where the data is that was sent and not yet written. The invariant divides
  what the device has sent at *cuts* (`CutInv`): up to the first the command has taken it, then each
  batch in the channel is the piece up to the next cut, then comes what the goroutine has
  accumulated and last what is in flight (`Rest`). A cut lies only where a cycle has ended
  (`IsCut`), so a batch is one whole cycle. `FlightInv` and `CycleInv` keep the device at most a
  chunk ahead, because it waits for each acknowledgement, and what is accumulated within one
  cycle. All this holds while no datagram was late or came again; of every behaviour
  `OnlyWhatWasSent` says that whatever the command, the channel, the goroutine and the network
  hold was sent by the device (`KnownInv`), which the unconditional parts of both properties rest on.

The type invariants, `Exchanges!EntriesOpen`, `Daemon!ClosedOnce` and `PeerCounter!BitmapExact` are proved
for every instance and are in no run; the other proved invariants are checked too.

What the proofs found in the models: CASE expressions with overlapping arms, where TLC takes
the first arm and the semantics leaves the choice open (Processes, Interaction, CommandLine,
TLVMarshal), are now disjoint; the key of a session without keys is the empty slice (`NoKey`), a
value of the keys' own kind.

Only model-checked:

- every liveness property: fairness and ENABLED are out of the prover's reach;
- `RoundTrip`, `CutNotInvented` and the three properties of CommandLine: they are about recursive
  decoders and RECURSIVE operators, which stay with TLC.

## 6. Statements of the code that TLC refutes, without a run of their own

These formulas are kept at the end of their modules. Each was checked and refuted on a
small instance.

- `BTP!SendReturns` (`txInflight` is "segments sent but not yet peer-acknowledged", btp.go:211):
  the acknowledgement is
  handled between the C1 write and `markSent` (btp.go:449-450), finds nothing in flight and is
  dropped; a message longer than the window waits for ever.
- `BTP!WindowRespected`: `segment()` has numbered the whole message, so `localSeq - txInflight`
  (btp.go:649) is not the oldest number; an acknowledgement of an older segment wraps, is
  clamped to `txInflight` and empties the count; more segments than the window are out.
- `BTP!SendReturns`, a second way: Send holds c1Mu while it waits for the window, the
  peripheral's window is full too, and the ticker that would acknowledge it needs c1Mu
  (one-segment messages in both directions suffice).
- `BTP!PendingAckIsLatest`: a segment arrives between `standaloneAck` and its failed write;
  the rollback puts the older number back (btp.go:444).
- `BTP!CloseUnblocks`: `closeSession` broadcasts without `mu`; a sender between its test and
  its wait misses it.
- `BTP!NoSequenceGap`: a cancelled Send leaves numbers it never wrote. A Send whose write fails
  does too, and takes the pending acknowledgement that it was to carry with it (btp.go:380): the
  peripheral's window may stay full. `AcksArrive` excepts both, the sleeping Send above and the
  rollback.
- `Exchanges!KeyIsUnique`: after the ID wraps a live exchange's entry is replaced.
- `Exchanges!NoReplay`: a duplicated datagram is delivered twice; nobody calls the filter.
- `Exchanges!RemoteDropped`: messages of an exchange the device opens are queued in an entry
  nobody reads; with more of them than the channel holds the pump blocks, and
  nobody finds a loss of the connection any more: `LossUnblocks` excepts this (`PumpStuck`).
- `Daemon!RequestedFabric`: the cache is keyed by the node ID alone (server.go:365).
- `Daemon!RenameKept`, `AddressKept`: a save of a copy read earlier undoes a rename, or a
  rename undoes the address that rediscovery found.
- `Daemon!EvictsTheFailed`: a handler evicts the session another handler has put in since.
- `Daemon!ShutdownCleansUp`: a handler in CASE inserts its controller after the shutdown; and
  two handlers that dial the same node overwrite each other's entry without a close.
- `Commissioning!InvokeReturns`: the TimedRequest leg and Read wait without a deadline
  (client.go:221): one lost datagram blocks the command.
- `Commissioning!NodeIDsUnique`: two commissions choose the same ID before the first holds
  the store (commission.go:148 against 338); both devices are commissioned under it.
- `Subscription!ErrorSurfaces`: the goroutine reports an error and closes both channels; the
  select sees the closed Reports first and the command ends with success (subscribe.go:184).
- `Daemon!DeletedStaysDeleted`: delete-node runs between getOrCreateSession's read and its save
  (server.go:406 against 339).
- `Processes!EverySaveCurrent`: rename saves the copy it loaded before it wrote the label to
  the device, and puts back the address that the write's rediscovery has replaced
  (rename.go:136), which persistAttributeCache takes care not to do (attribute.go:167-169).
- `Controller!AcceptedByPeer`: the content of the final StatusReport is not looked at
  (case.go:598-605, pase.go:434-440); a refused handshake ends with keys the device lacks.
- `Interaction!ReadExact` without its exception (`dups = 0`): a repeated report message is collected twice, and
  items appended to a list appear twice (client.go:75): the pump does not filter replays.
- `Interaction!NeverDriftApart`: a report of status SUCCESS, for which splitAttributeReports provides
  (client.go:509-513), is the error `SUCCESS (0x00)` to the command's own session (cluster.go:652-656)
  and data of no length through the daemon (cluster.go:637-641); yet "the two transports cannot drift
  apart" (cluster.go:622-625, and the comment of cluster_test.go:56-60).
- `CommandLine!AnyCaseCounts`: `Move 1 dir=Up` is accepted, since FieldByName is case-insensitive
  (types.go:82), and the value is not sent: encodeCommandFields looks under the field's own name
  (cluster.go:1142).
- `CommandLine!SurplusRefused`: "too many positional arguments" (cluster.go:1126) is never said, because
  `posIdx` stops at the number of fields: four values for a command of three are sent as three.
- `Discovery!DiscoveryEnds` with `Resolver = "zeroconf"`: when zeroconf's Browse fails, the entries
  channel is never closed (mdns_browser_other.go:21-26) and watch waits on it.

Noted while modelling, as exceptions of a property or behaviour of the model:

- BTP: a C1 write that returns no error may be lost, although ble.go:420-425 takes it for a
  Write Request with an answer. Nothing in the code notices a lost segment or sends it again; the
  peripheral rejects all that follow. `SequentialWrites` claims what arrives only while none was
  lost.
- Subscription: a ReportData that comes again is acknowledged and accumulated like a new one
  (client.go:414-476): its records are written twice and count twice for `--count`; one that comes
  late joins a batch of another cycle. `InOrder` and `WholeCycles` claim order, completeness and
  "once" only while no datagram was late or came again.
- Interaction: a report of status SUCCESS is told differently by the two transports
  (`NeverDriftApart` above); `TransportsAgree` excepts it.
- Processes: a direct read or write without a deadline that loses its answer keeps the database
  file open; every other command without a time limit of its own waits for it until the user ends it
  (decommission.go:200, rename.go:255, 306).

- Commissioning: the failsafe expires during the reconnect, or only the TimedRequest of AddNOC
  was sent; the flow re-arms and delivers network credentials to a device without a
  certificate, then waits for CASE (flow.go:415, 476-492).
- Discovery: `commission ble --scan-timeout` is declared (commission_ble.go:73) and never read, the
  scan has no limit. A StopScan before the scan has begun is lost, and the scan goes on
  (ble_adapter_tinygo.go:64-69, 132-140). An advertisement without payload passes for
  discriminator 0. A scan that breaks down forgets the device it had found. Off macOS the
  disconnect watcher never notices (ble.go:352-356).
- CommandLine: `use @1/1` takes the token for the line's own target and sets no default
  (target.go:50, use.go:44-46); a REPL whose target was set by `use` refuses every command
  (interactive.go:31); in a REPL flags keep the values of earlier lines. Integers are not checked
  against the range of their field. A field named in another case is accepted and its value
  dropped, so are values beyond the last field, and Key=Value overrides a
  positional one: the exceptions of `PayloadHonest`.
- TLV: a plain field of raw TLV that holds an encoded null is written as null (marshal.go:757) and
  read as if it had not been sent (marshal.go:411-416), the exception of `RoundTrip` (`RawNull`): an attribute
  whose value is null has no data in AttributeData (read.go:41) and is shown as `<empty>`.
  An Optional of pre-encoded TLV whose bytes are empty decodes as absent; SetInt and
  SetUint cut a value to the field's width; a struct that ends with its buffer and not with
  an end of container is accepted; a nil pointer is left out, where marshal.go:47 says it is
  encoded as null.
- Processes: the reload and the save of persistAttributeCache are two transactions
  (`CacheSaveCurrent` excepts a write in between). `session start` reports success when any
  daemon answers.

## 7. Not modelled

The bytes of the message codec, ciphers, certificates, setup codes (pure functions, tested
by vectors); the platform's Bluetooth and the mDNS libraries (I/O, external where a model
uses them); generated clusters, the code generator, the vendor database; tables, colours
and JSON of the output; MRP, which no production code creates; the reader goroutine that
outlives a cancelled UDP Receive; `--duration`'s own timing; fabrics, resumption records and
the key-value bucket of the store; aliases and presets. `PROJECT.json` gives the reason per
component.

The commissioning run has one process: with two, and two faults, the state space is beyond
the time of a run. Commands in `processes` run in pairs.

## 8. Plan

1. Composition: the daemon's handlers with the interaction client's time limits.
2. MRP, once it is wired in: success after the last retransmission, and the bound on them.
