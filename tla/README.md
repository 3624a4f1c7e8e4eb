# A TLA+ model of nocand

`nocand` is the daemon of the NoCAN platform. It runs on a Raspberry Pi, drives
a CAN bus through an SPI microcontroller, gives addresses to the devices (nodes)
on the bus, keeps a registry of nodes and of publish/subscribe channels, and
serves programs that connect over TCP with events and requests.

This directory holds a model of it in TLA+, configurations for TLC and proofs
for TLAPS. Paths below are relative to the repository (`src/`).

## 1. The system

| Component | Source | State | Operations |
|---|---|---|---|
| Node cache | `models/node_cache.go` | maps udid → id and id → udid, dirty flag, save timer, file | load, set entry, lookup, delayed save |
| Node registry | `models/node.go` | `Nodes[128]`, `Udids`, the fields of each `Node` | Register, Unregister, Clear, Find, Lookup, Each |
| Network controller | `controllers/network_controller.go` | per node id: pending message, input queue, termination signal, running flag, pending firmware operation | Serve (assembly of frames), master goroutine, one goroutine per node, pinger, sending |
| Channel registry | `models/channel.go` | channels by id and by name, next id, contents | Register, Unregister, Lookup, Find, SetContent |
| Event server | `socket/server.go`, `controllers/event_server.go` | list of clients, mutex, per client: output queue, filter, last message number, connection | accept, handshake, receive and handle, acknowledge, broadcast, delete |
| Event client | `socket/client.go` | connection, message number, pending requests, event queue | dial, send, close, redial, process events |
| Event encoding | `socket/event.go`, `socket/event_types.go` | – | Pack, Unpack, EncodeEvent, DecodeEvent |
| Firmware operations | `controllers/firmware.go`, `controllers/event_server.go` | one pending operation per node, progress | upload, download, reboot, signature check |
| CAN framing | `models/can/can.go`, `models/nocan/message.go` | – | encode, decode, split, append |
| SPI driver | `models/rpi/rpi.go` | transmit and receive channels, SPI mutex | send frame, receive interrupt, power |
| Power monitoring | `controllers/bus_monitoring.go` | – | status, SetPower, power off on a signal |
| Command line, configuration, formatting | `cmd/`, `models/helpers/`, `models/device/`, `models/properties/` | settings | – |

**Interactions.** The receive interrupt puts frames into a channel; `Serve` puts
them together and sends messages to the input queue of the node id they carry.
Id 0 is the master goroutine: it registers devices (registry and cache), replaces
the goroutine of the device's id and answers with the address. The goroutine of a
node changes the node's state, registers channels, runs firmware operations and
broadcasts events. The pinger removes silent nodes from the registry; switching
the bus off clears it. Each client has a reader that calls request handlers,
which use the registries, the bus and `Broadcast`, and a sender that empties its
output queue. `Broadcast` is called by nearly every goroutine.

**What is hard.** References to nodes outlive their registration. The cache is
saved by a timer goroutine that takes no lock. Check and use are separated by an
unlock (`Register`, the pinger). Queues are bounded and senders wait, some of
them while holding a mutex. Channels are closed while others may send. Frames
are lost, devices restart and repeat requests, message numbers wrap around.
The list of hazards, with the lines and the properties that watch them, is in
`PROJECT.json`.

**What makes the components correct.**

- Registry and cache: the two maps agree; a device keeps its address; no address
  belongs to two devices; the file holds the cache when nothing is in progress.
- Network controller: one goroutine per id, reading the queue that is written;
  messages are those that were sent; requests are answered; queues are not used
  after they are closed.
- Event server: no channel is used after it is closed; the list is exact; all
  clients see updates in one order; acknowledgements match requests; a client
  that leaves is removed.
- Channel registry: one channel per name, one name per id, clients end with the
  last value. Firmware: one operation at a time, a result for each. Client: one
  reader per connection, each request answered or timed out once. Encoding:
  Unpack undoes Pack.

## 2. Modules

| Module | Models | Uses |
|---|---|---|
| `NodeCache` | node cache | – |
| `NodeRegistry` | node registry with master, node goroutines, pinger, power | extends `NodeCache` |
| `NetworkController` | Serve, master and node goroutines, queues | assumes what `NodeRegistry` shows of ids |
| `ChannelRegistry` | channels, and the handlers and node goroutines that use them | – |
| `Firmware` | uploads and reboots, the conversation with the bootloader, reports | – |
| `EventServer` | event server and the shape of its handlers | – |
| `EventClient` | event client with its goroutines | – |
| `MessageBus` | what the daemon expects of its way to the bus (abstract) | – |
| `Driver` | `SendMessage`, the SPI driver in both directions, initialisation | implements `MessageBus` |
| `Bytes` | slices of bytes and integers in them | – |
| `Events` | Pack and Unpack of every type of event, properties | extends `Bytes` |
| `CanFraming` | identifiers, messages, frames | extends `Bytes` |
| `Wire` | a connection with events, and the messages they make on the bus | extends `Events`, `CanFraming` |
| `NodeRegistryProofs`, `NetworkControllerProofs`, `ChannelRegistryProofs`, `EventServerProofs`, `EventClientProofs`, `DriverProofs`, `DriverRefinement`, `FirmwareProofs` | – | the theorems, each extends the module it is named after |
| `MCNodeRegistry`, `MCEventServer`, `MCChannelRegistry`, `MCWire` | – | symmetry and values for TLC |

Definitions whose name has a suffix, such as `Unregister_KeepUdid`, are plausible
mistakes in the definition they are named after. They are not part of any
specification; `PROJECT.json` says which property notices each of them.

Histories (marked in the modules) record what a property needs to know of the
past: which writes overlapped, whether a wait was given up. No guard reads them.

### NodeCache and NodeRegistry

`Nodes`, `Udids`, `nodeCache` and `reverseNodeCache` are the maps of the code as
total functions with `Null`, `NullUdid` and 0 for absent entries. A `Node` is a
reference: `node` maps objects to their fields, and objects no map and no
goroutine refers to are collected (`Store`, `InUse`), so that a small set of
objects does for behaviours of any length. `master` is the address request in
progress, `handler` the object each node goroutine was started with, `pinger` the
pinger's position and its list.

Each action is one critical section or one unlocked step: `AddressRequest` is the
lookup under the read lock, `RegisterFound` the unlocked use of what it found,
`RegisterNew` the critical section that creates a node and calls
`NodeCacheSetEntry`. `PingerVisit` walks through the slots under the read lock,
`PingerMark` changes a node's state without a lock, `PingerUnregister` is the
critical section of `Unregister`. The save is cut where another goroutine or a
crash can come between: `SaveStart`, `SaveVisit`, `SaveIterated`, `SaveCreate`
(truncation), `SaveWrite`, `SaveClear` (the end of the timer). `Restart` stops
the daemon at any point, which includes the crash by which the Go runtime may
answer the unlocked iteration, and loads the file (`NodeCacheLoad`): it is read,
or, when it does not open, created and so truncated; when that fails too, the run
has no file and its saves do nothing. `usable` is the code's pointer `cacheFile`.

Abstractions: how long a node has been silent is a free choice of the pinger;
`Touch`, attributes and broadcasts leave the registry unchanged; a file that does
not decode is an empty one, because `NodeCacheLoad` gives up on it.

### NetworkController

A device has the same id each time it registers (`StableAddress`, `IdNotReused` of
`NodeRegistry`), so devices are named by ids. The g-th registration of id i makes
the queue `queue[i][g]` and the goroutine `handler[i][g]`; `gen[i]` is the
registration the node context refers to. `Serve` looks a queue up and sends to it
in two steps. `MasterTerminate` is the rendezvous on the unbuffered signal, after
which the goroutine closes its queue (`HandlerClose`) while the master makes a new
one (`MasterRenew`). A goroutine that handles a message may be in a broadcast
(`tell`) or, in a firmware operation, in a report of progress (`report`); both wait
for room in the queues of clients and end in `HandlerTold` and `HandlerReport`, if
they end. A message is known by the device's number for it and by how many of its
frames have arrived; `sound` says whether they are the first ones of that message,
in order. The devices are external and do what the handlers expect of them, but may
restart or repeat requests at any time; frames are lost as the receive interrupt
loses them after an error. Frames that are not extended or too long are discarded
without any effect and are left out.

### EventServer

One reader and one sender per connection, and producers, the other goroutines
that broadcast. `pc` is where readers and producers are; a handler is the part of
the reader between receiving and its last send. Requests are distinguished by
what their handler does to the server: acknowledge (`ReceiveQuery` to `ack`),
acknowledge and reply (`query`), set the filter, or broadcast first
(`ReceiveUpdate`). `Lock`, `Walk`, `SendEvent` and `Unlock` are the steps of
`Broadcast`; the test of `Connected` and the send are separate steps. `msgId` is
the client's counter, `asked` the number of the request in progress.

Not in this module: the firmware goroutine's `SendEvent`, which takes no mutex
(`Firmware`). `NoPanic` is about readers, senders and broadcasts.

### EventClient

One `EventConn`. `conn` is the number of the connection that `conn.Conn` refers to;
`reader[c]` is the `readEventLoop` that the dial of connection c started, and `on`
the connection it is reading from, looked up for each event as in the code. `loop`
is `Connect` followed by `processEventLoop`: the positions `dial` to `connect` are
those of `dial`, `closeDial` and `waitDial` its calls of `Close`, `retry` the sleep
after an error, `next`, `handle` and `expire` those of `processNextEvent`, `close`
and `wait` the call of `Close` after it. `caller` are the goroutines in
`SendAsync`; `SendWrite` is a step of its own because `dial` and `Close` do not
take the mutex and can come in between. `closer` is the goroutine that calls
`Terminate`. The connection and the server are external: requests that were written
are in `asked`, the server may answer them in order (`ServerAnswer`), send events,
or send what is no event (`ServerGarbage`), which ends the reader on an open
connection, and the connection may break at any time. `CloseWait` gives up
(`Stalled`) only when no reader can come to its end by itself: five seconds are
taken to be enough for one that can. Ages are not modelled: any pending request may
be the one older than three seconds. Not in this module: `Send`, and what
application callbacks do besides failing.

### ChannelRegistry

`channel` is the sequence of the channels created so far, a `*Channel` a position
in it, so that references outlive `Unregister`. `ById` and `ByName` are the maps,
`TopId` where the search for a free id begins. A worker is the goroutine of a
client or of a node; its program counter is where its handler is between two
critical sections. `Register` is the lookup under the read lock, `Create` the
second critical section, which does not look again; with all ids in use it turns
into `Spin`, the loop without an end that keeps the lock. `SetContent` takes no
lock: `Overwrite` is the `make`, `CopyContent` the `copy`, and a content that is
too long is refused, which the handler does not notice. `NodeTell` and `Announce`
are the answer to a node and the announcement of its channel, with no content, new
or not; `Broadcast` is what clients are told of a content. `raced`, `unsettled` and
`destroyed` name what the properties except.

### MessageBus and Driver

`MessageBus` is the abstract channel to the nodes: a message arrives whole, once
and in order, unless it overlaps with another one to the same node id or follows
a lost frame, in which case it may be lost or damaged. `Driver` has the frames:
`SendFrame` puts one into `CanTxChannel`, `TxTake`, `TxStore` and `TxSend` are the
transmit goroutine (take a frame, wait for the TX line and store it, request to
send), `McuTransmit` and the assembly in the nodes are external. The refinement
maps a sender that has a message to one that is sending, and takes over `line`,
`broken` and `got`; `DeliversMessages` is `Bus!Spec`. In the other direction
`Interrupt` is an edge of the RX line, `RxCheck`, `RxFetch`, `RxAck` and `RxPut` are
one round of `CanRxInterrupt`, which two threads may be in: the interrupt thread
and the main one in `InitDrain`. `SPIWorks` and `SPIFails` are the two outcomes of
a transfer.

### Firmware

One node. `Upload`, `UploadBoot`, `UploadUpdate` and `UploadAck` are the steps of
the handler: store the operation, send the boot request, reset the report,
acknowledge. `Receive` is the node's goroutine at its queue, `Expect` and `Timeout`
are `ExpectSystemMessage`, `Proceed` is what `uploadFirmware` does after an answer,
`ReportCheck` and `ReportPut` are `SendEvent` without the server's mutex. A report is
one object, read when the client's sender writes it; a sender whose write fails
sends no more (`broken`), and its client can only leave while its queue has room
for one more acknowledgement. `BootLeave` is the answer to a node that has started
without an operation for it; like `End` it sets the pending operation to nil, also
one stored meanwhile. `flash` says which operation's data a page of the node holds.
`Fault` is what may go wrong on the node's side: a message or answer lost, late,
refused or unasked, a restart, also into the bootloader with the answer to a boot
request that nobody sent (`Restart`).

### Bytes, Events, CanFraming and Wire

A slice of bytes is a sequence of runs of equal bytes, so that a firmware of 2^24
bytes is a small value. `Events` has one operator for each constructor, `Pack` and
`Unpack`, with the byte arithmetic of the code: lengths that wrap at 256, bounds
computed in a byte, list entries skipped by the length they would have when
packed. A value that is only copied (a timestamp, a float) is its bytes. `Wire`
writes events into a stream and reads them as `DecodeEvent` does, which may end the
reader or, with a slice out of its bounds, the program (`panic`); the messages that
the handlers of channel updates, reboots and uploads send go through
`SendMessage`, `EncodeFrame`, `DecodeFrame` and the assembly of `Serve`.

## 3. Runs

| Run | Instance | Shows |
|---|---|---|
| `registry_enough` | 2 devices, 2 ids, cache file, 3 objects | `Consistent`, `StableAddress`, `IdNotReused`, `RemovesOwnDevice`, `TypeOK` |
| `registry_takeover` | 2 devices, 1 id, cache file that may not open, firmware 2 and 3 | `CacheForward`, `DurableWhenQuiet`, `NoSteal` |
| `controller` | 1 device, messages of up to 3 frames, 1 frame lost, 2 requests, queues of 1 | `OneHandler`, `PanicNeedsRepeat`, `MixedNeedsTear`, `Answered`, `TypeOK` |
| `channels` | 2 clients, 1 node, 2 names, 2 ids, 3 channels, 4 requests, contents up to and over the limit | `MapsAgree`, `ToldIdKept`, `ViewsAgree`, `AllAnswered`, `TypeOK` |
| `firmware` | 1 client, 2 uploads of 2 pages, 1 reboot, 1 fault, queues of 1 | `SuccessIsWritten`, `EndReported`, `StaleNeedsOverlap`, `PanicNeedsDeparture`, `OperationEnds` |
| `driver` | 2 senders, 1 node id, 2 messages of up to 2 frames, 2 frames received, 1 failed transfer, queues of 1 | `DeliversMessages`, `RxExact`, `NoLostEdge` |
| `wire` | every type of event at every boundary of its encoding, another event after it | `InSync`, `Faithful`, `RefusedForName`, `BusExact` |
| `server_order` | 2 clients, 1 producer, queue of 1, 2 broadcasts | `NoPanic`, `ListExact`, `SameOrder` |
| `server_clients` | 1 client that numbers as it likes, 1 producer, numbers 0..3, queue of 2 | `NumberingAgrees`, `AckAnswersRequest`, `TerminationDeletesUnlessFull` |
| `server_termination` | 1 client, 1 producer, queue of 1 | violation of `TerminationDeletes` |
| `client_requests` | 2 callers, 2 connections, numbers 0..2, 2 requests, queue of 1, `Terminate` | `NumbersConsecutive`, `AnswerMatches`, `OneReader`, `Completed` |
| `client_redial` | 1 caller, 2 connections, no `Terminate` | violation of `Reconnects` |

The largest are `registry_takeover` (4.5 million states), `firmware` (2.1), `driver`
(1.6), `registry_enough` (1.6) and `channels` (0.5).

**Bounds.** Two devices on one or two ids are enough for every kind of
reassignment: its own id, a free one, one reserved for another device. Three
objects let the pinger, the master and a map each hold a different one. Objects,
devices and clients are symmetric; no bound on the number of steps is needed there.
`MaxEntries` bounds what one iteration of a save can produce when keys are deleted
and inserted again meanwhile. A queue of one is full after one event, so that all
waiting happens; a queue of two in `server_clients` leaves room for behaviours in
which no queue is full although an acknowledgement and a broadcast are under way.
Two broadcasts are the least that can be reordered. Numbers 0..3 wrap within a
short run. In `NetworkController` two registrations are a first one and a
repetition, or a start and a restart; three frames have a first, a middle and a
last one. In `client_requests` the hello and the two requests have the numbers 1, 2
and, wrapped around, 1. In `channels` two ids are reused after two creations and
can both be in use; three channels are a channel, the one that replaces it and
another one; four requests let two destructions overlap with a creation. In
`driver` two messages can overlap, follow each other on one node id, and leave one
broken by a failed transfer. In `firmware` the second upload can replace the first,
wait behind it or come after it, and one fault, of the node, the bus or the
client's connection, is enough for each way an operation can fail; queues of one
are full with one message, and what the node has still to do waits in front of it.
The hello events of `wire` have names of 253 to 257, 300 and 511 bytes beside short
ones. In `wire` a second event shows whether the reader is still at the right
place; a broken connection keeps up to eight bytes, which cuts each part of the
header and the payload.

**Deadlock.** `EventServer`, `EventClient`, `NetworkController`, `ChannelRegistry`,
`Driver`, `Firmware` and `Wire` may stop: connections, devices and requests are
used a bounded number of times, and the programs can end. The check is off there.
`NodeRegistry` is checked for deadlock.

**Fairness.** Goroutines that can run do. `sync.Mutex` hands the lock to waiting
goroutines in turn, so taking it is strongly fair (`Lock`, `DeleteClient`, and
the two critical sections of `processNextEvent`). A
`select` chooses at random among ready cases, so a termination signal that is
offered again and again is taken (`MasterTerminate`). Writing to a socket ends
with or without an error; reading from a closed one fails. In `Firmware` the
node's goroutine goes on or its timeout expires, and a client's sender writes until
a write fails. Nothing is assumed of clients, of producers, of nodes, of the server's
answers, or of a device that does not want to send.

`server_termination` shows that `EventServer.Broadcast` may wait for ever. Nothing
assumes the contrary: the ends of broadcasts and reports are under no fairness in
`NetworkController` and `ChannelRegistry`, and their liveness properties have as a
hypothesis that the goroutines do not stay there (`BroadcastsEnd`, `SendsEnd`).
`Answered` and `AllAnswered` say that there is no other circle.

`TypeOK` of `Driver`, `Firmware`, `EventServer` and `EventClient` is in no run. That of
`EventServer` is proved; the proofs about the others state the types they need.

## 4. What the runs found

- `server_termination`: the comment after `c.TerminationChan <- struct{}{}`
  (`socket/server.go:248`) promises that the client is deleted. `Broadcast` may
  hold the mutex and wait for room in that client's queue, which only the sender
  could make, and the sender waits for the mutex in `DeleteClient`.
- `client_redial`: automatic redial (`socket/client.go:329`) follows an error of a
  callback only. The end of a connection reaches `endOfReadChannel`, which the
  event loop does not read, and leaves `Connected` true.

The other properties hold, and their exceptions say what does happen:

- `Unregister` (`models/node.go:253`) clears the slot and the udid even when the
  slot holds another node and it returns false. `RemovesOwnDevice` shows that it is
  then the same device, registered again, and not another one, as long as there is
  an id for every device; the device is dropped all the same.
- `OneReader` excepts a `Close` that gave up after five seconds, because the reader
  waits for room in the queue that the closing goroutine should empty, and a
  `Terminate` called while the event loop works on an event: the loop finds the
  connection closed and dials again before it looks at `AutoRedial`.
- After a redial an answer of the old connection can complete a request of the new
  one; `AnswerMatches` and `NumbersConsecutive` say that nothing of the kind
  happens before.
- `PanicNeedsRepeat` and `MixedNeedsTear` say which conditions are needed for two
  failures that do happen: a send to a closed input queue when a device repeats
  its request, and messages put together from frames of different messages after
  a loss. `pendingMessage` survives a new registration of the device.
- `DurableWhenQuiet` excepts a save that failed or that a change overlapped, and a
  run of the daemon without a file: when the file neither opens nor can be created
  at the start, saves do nothing and report nothing. A file that exists and does
  not open is truncated. A crash in the middle of a save is no quiet state; what it
  leaves loads into agreeing maps (`CacheForward`), but addresses are lost.
- `MapsAgree` excepts two creations of one name, which make two channels of it, and
  two destructions of one channel, the second of which deletes whatever has its id
  or name by then. `ViewsAgree` excepts writers that overlap, contents of more
  than 64 bytes, which are broadcast but not kept, and channels with a content that
  a node registers again, which are announced without it. `AllAnswered` excepts a
  full registry, in which `Register` never ends, and sending that never ends.
- `Completed` excepts a reader that ended at something it could not decode: the
  connection stays open and `Connected`, and nobody is told (`socket/client.go:261`).
- `MessageBus` excepts messages sent to one node id at the same time, whose frames
  mix, and what follows a frame that was lost in a failed transfer. `RxExact`
  excepts an interrupt during `DriverInitialize`, by which a frame is fetched twice
  and another one acknowledged unread. After a failed transfer the RX line may stay
  low, and nothing is received any more (`NoLostEdge`).
- `SuccessIsWritten` excepts error codes in answers that `uploadFirmware` does not
  look at; the checksum at the end is compared. It also excepts operations that took
  the answer to another message for their own: seven uploads that each ask for the
  bootloader before the one before them has failed can line up answers to all that
  the last one asks for. The instance of the run is too small for that; the proof
  found it. `StaleNeedsOverlap` excepts a boot request, or a start of the
  bootloader that nobody asked for, before the node is done with its last one.
  `EndReported` excepts clients whose connection is broken and a report that
  the handler resets when the operation has begun already. `OperationEnds` excepts
  a client that is broken and whose queue is full (`Hung`): its sender waits for the
  reader, the reader for room to acknowledge the broken connection, and the node's
  goroutine for room for its report, all for ever. `PanicNeedsDeparture`: a
  client that leaves between the test of `Connected` and the send ends the daemon.
  An operation for a node that never answers the boot request stays pending, and is
  carried out when the node next starts, whoever makes it start. One stored while a
  boot answer is being handled is dropped without a report
  (`controllers/network_controller.go:305`).
- `Faithful` states what is read where it is not what was written: the versions in
  hello events, taken one byte too early, and names and values of 256 bytes and
  more. A tool name of 255 bytes makes the bounds of a slice cross and ends the
  program, which `RefusedForName` says of hello events alone. An empty string
  property that is packed last is refused, because reading no bytes at the end of a
  buffer is an error in Go; the daemon adds none, and the sample has none.
- Seen in the code and not the subject of a property: a channel that was destroyed
  is acknowledged as a general failure and not broadcast
  (`controllers/event_server.go:80`); a failed reading of the power status is
  broadcast without a status, which cannot be encoded; 0xFFFF, `UNDEFINED_CHANNEL`, is
  an id that `Register` gives out; float properties cannot be packed, and null
  ones cannot be unpacked; `SendAsync` calls its callback with the mutex held; the
  callback called with `TimeoutError` is not that of the request deleted
  (`socket/client.go:317`).

## 5. Proofs

TLAPS checks the proofs in the modules named `...Proofs`. Each theorem holds for
every value of the constants that satisfies the assumption of its module: any
number of devices, clients, callers, requests, pages, faults, any capacity of the
queues. The assumptions (`CacheAssumption`, `RegistryAssumption`,
`ControllerAssumption`, `ChannelAssumption`, `ServerAssumption`,
`ClientAssumption`, `DriverAssumption`, `FirmwareAssumption`) say that sizes and
bounds are natural numbers, capacities not 0, and null values no members of the
sets they stand beside. `Enough`, at most as many devices as ids, is a hypothesis
of the theorems that need it.

| Module | Theorem | Statement |
|---|---|---|
| `NodeRegistryProofs` | `TypeCorrect` | `Spec => []TypeOK` |
| | `CacheForwardCorrect` | `Spec => []CacheForward` |
| | `NoStealCorrect` | `Spec => NoSteal` |
| | `ConsistentCorrect` | `Enough` implies `Spec => []Consistent` |
| | `StableAddressCorrect` | `Enough` implies `Spec => StableAddress` |
| | `IdNotReusedCorrect` | `Enough` implies `Spec => IdNotReused` |
| | `RemovesOwnDeviceCorrect` | `Enough` implies `Spec => RemovesOwnDevice` |
| | `DurableWhenQuietCorrect` | `Spec => []DurableWhenQuiet` |
| `NetworkControllerProofs` | `TypeCorrect`, `OneHandlerCorrect`, `PanicNeedsRepeatCorrect`, `MixedNeedsTearCorrect` | `Spec => []P` for `TypeOK` and each property |
| `ChannelRegistryProofs` | `TypeCorrect`, `MapsAgreeCorrect`, `ToldIdKeptCorrect`, `ViewsAgreeCorrect` | likewise |
| `EventServerProofs` | `TypeCorrect`, `NoPanicCorrect`, `ListExactCorrect`, `SameOrderCorrect`, `NumberingAgreesCorrect`, `AckAnswersRequestCorrect` | likewise |
| `EventClientProofs` | `NumbersConsecutiveCorrect`, `AnswerMatchesCorrect`, `OneReaderCorrect` | likewise |
| `DriverProofs` | `RxExactCorrect`, `NoLostEdgeCorrect` | likewise |
| `DriverRefinement` | `DeliversMessagesCorrect` | `Spec => DeliversMessages`, that is `Spec => Bus!Spec` |
| `FirmwareProofs` | `StaleNeedsOverlapCorrect`, `SuccessIsWrittenCorrect`, `PanicNeedsDepartureCorrect`, `EndReportedCorrect` | likewise |

None of the properties is inductive. Each module begins with the invariant that
is, in named parts; TLC has checked these invariants on the instances of the
runs before they were proved. What they add, and why:

**NodeRegistry.** `TypeInv`: types, and what the program counters of the master
and the pinger say of their variables (`ControlOK`). `CacheInv`: besides
`CacheForward` the converse, that a reserved id is reserved for the device that
has it (`CacheBackward`), and that what a save collects has each device once
(`SavedOnce`), which is what makes the maps agree again after loading a file
written during changes. `MapInv`: every object in use has the id the cache
remembers for its device (`Remembered`), both maps are keyed by the fields of
their objects (`Keyed`), the maps agree (`Consistent`), and the master's lookup
is still valid when it takes the lock (`LockedAbsent`). `Remembered` is why a
stale removal is harmless to consistency: a stale object has the same id and udid
as the one that replaced it. It needs an unreserved id for each new device, which
follows from `Enough` by counting (`SomeUnreserved`); without `Enough` the
theorems that have it as a hypothesis are false, since an id that changes hands
is one that a stale removal can hit. `Saving` follows a save from its first entry
to the file: as long as no change went past it, its entries are right, and every
device of the cache is among them or still to be visited. It says so of a run with
a file (`usable`), which a save does not change.

**NetworkController.** `Replaced`: the registration that the master is about to
replace has no goroutine, and only replaced goroutines close their queues.
`OneRequest`: a device that does not repeat itself has one request on its way, in
one of five places, and all its earlier frames are ahead of it in `CanRxChannel`,
so that `Serve` is done with them before the queue is closed; that is why there is
no panic. `Stream`: the frames of a device in the channel continue the message that
is being put together, and what the device sends next continues them.

**ChannelRegistry.** What a worker knows between two critical sections: `IdInv`,
that without overlapping destructions a worker about to unregister a channel finds
it still there; `NameInv`, the same for creations of a name; `WriteInv`, that a
channel whose last writes did not overlap has one writer at most, and what that
writer has done so far.

**EventServer.** `LifeInv` relates the two goroutines of a connection to `Connected`
and to the channel being closed, and `WalkInv` says that what `Broadcast` has yet to
visit is connected, which is why it never meets a closed channel: the mutex is
held. `OrderInv`: a broadcast under way is the last that any queue has got, and no
descriptor still to visit has it. `NumberInv`: the client's counter is one ahead of
the server's.

**EventClient.** `Numbering` says for each position of the dial and of the callers
how `MsgId` and the last number written are related. `Matching`: the answers on their
way belong to what is pending under their number, and the next number is that of no
answer. `OneByOne`: while no `Close` gave up, a reader is there only between a dial and
the `Close` that waits for it, and `endOfReadChannel` is empty before each dial.

**Driver.** `Exclusive`: without a race or an error one thread is in
`CanRxInterrupt`, and the frame it has fetched is still the first of the fifo until
it acknowledges it. `NotYet`: nothing is received before the interrupt is set up.

**Driver implements MessageBus.** The frames on their way form one `Queue`: the one
that the microcontroller sends, the one that the goroutine has, those in
`CanTxChannel`. `Control` is what makes it a queue: a frame is stored only while the
TX line is high. Each step begins a message, adds a frame to the queue, takes the
first one away (sent or lost), or leaves all this alone (`Kinds`), and the rest of
the proof is about these kinds only. `Numbered`: message numbers are used once, and
an entry of `line` is open while its sender has frames left. `Queued`: the frames of
a message are in order, and the last one is in the queue once the message is not
open. `Ordered`: only frames of messages that overlap overtake each other.
`Unbroken`: for a node without lost frames, nothing is missing of a message that does
not overlap; each of its frames follows the one before it in the queue, or
continues what the node has (`Complete`), and a node that has begun a message has
not gone ahead of an older one without overlap (`Begun`). Hence the last frame of such a
message finds all the others at the node, and the message is the first of its
line, which is the step `Arrive` of `MessageBus`; any other end is `Disturbed` or
`Lose`. The mapping uses `"nobody"` for a sender without a message, which must not be
a node id (`DriverAssumption`).

**Firmware.** `Pipeline`: of the messages on their way to the node and back, those of
an operation come one at a time and in the order of operations, until answers are
mistaken for others. `Written`: the pages confirmed so far are in the node, whose
buffer belongs to the operation. `Ending`: the last report is waiting or was written.
The proof of `SuccessIsWritten` showed that an exception was missing (section 4), at
a number of uploads that TLC cannot reach.

**Only model-checked.** Liveness (`Answered`, `Completed`, `AllAnswered`,
`OperationEnds`, `TerminationDeletesUnlessFull`), which is out of the prover's
reach. `InSync`, `Faithful`, `RefusedForName` and `BusExact` of `Wire`: what
`Bytes`, `Events` and `CanFraming` compute is defined by recursion over data, which
would have to be proved by induction over data.

## 6. Plan

Every component with state of its own is modelled, and every safety property
outside of `Wire` is proved. What is left is outside of the prover's reach (section
5, last paragraph) and stays with TLC.

## 7. Not modelled

- Downloads of firmware: `clientFirmwareDownloadRequestHandler` asserts a
  `*NodeFirmwareEvent`, but `DecodeEvent` builds a `*NodeFirmwareDownloadRequestEvent`
  for that id, so the assertion panics, which ends the daemon, and `downloadFirmware`
  cannot be reached from a connection. No module has that panic: `NoPanic` and
  `PanicNeedsDeparture` are about closed channels, `RefusedForName` about slices.
- The payloads of a node's answers: a page refused without a payload makes
  `bytesToUint32` panic (`controllers/firmware.go:132`).
- Float properties, which cannot be packed.
- The commands of the driver for power, current limit and resistor, and the
  reading of the power status: single transfers that keep no state.
- `Send` of the client, and what applications do in callbacks besides failing.
- Command line, configuration, version check, formatting of device information,
  properties and events for people or as JSON: no state, no concurrency.
- The C glue to the GPIO library, and the libraries for transport (sscp), logging
  and TOML: not part of the repository's own logic.
