-------------------------- MODULE NetworkController --------------------------
(***************************************************************************)
(* The path of a message from the CAN bus to the goroutine that handles it *)
(* (controllers/network_controller.go): Serve puts the frames of each node *)
(* id together and sends the message to the input queue of the id; the     *)
(* master goroutine, node id 0, answers address requests by replacing the  *)
(* queue and the goroutine of the device's id; that goroutine handles the  *)
(* messages of its queue until the master tells it to stop, and then       *)
(* closes the queue.                                                       *)
(*                                                                         *)
(* A device has the same id each time it registers (StableAddress and      *)
(* IdNotReused of NodeRegistry), so devices are named by their ids.  The   *)
(* queue and the goroutine that the g-th registration of id i creates are  *)
(* queue[i][g] and handler[i][g].                                          *)
(***************************************************************************)
EXTENDS Naturals, Sequences, FiniteSets

CONSTANTS
  Id,          (* ids of devices                                            *)
  QueueSize,   (* capacity of an inputQueue: 16 in the code                 *)
  RxSize,      (* capacity of CanRxChannel: 1000 in the code                *)
  Capacity,    (* frames that fit into a message: 8 in the code             *)
  MaxFrames,   (* bound on the frames a device gives one message            *)
  MaxMessages, (* bound on the messages a device sends by itself            *)
  MaxAsked,    (* bound on the address requests of a device                 *)
  MaxLost      (* bound on the frames lost on the bus                       *)

ASSUME ControllerAssumption ==
  /\ 0 \notin Id
  /\ {QueueSize, RxSize, Capacity, MaxFrames} \subseteq Nat \ {0}
  /\ MaxFrames <= Capacity
  /\ {MaxMessages, MaxAsked, MaxLost} \subseteq Nat

VARIABLES
  rx,       (* CanRxChannel                                                 *)
  pending,  (* pendingMessage of each id                                    *)
  serve,    (* Serve: idle, or sending a message to the queue it looked up; *)
            (* after a panic no goroutine of the daemon is left             *)
  requests, (* the inputQueue of node id 0                                  *)
  master,   (* handleMasterNode                                             *)
  gen,      (* which registration inputQueue and terminateSignal are from   *)
  queue,    (* the input queues                                             *)
  closed,   (* the queues that are closed                                   *)
  handler,  (* the goroutines handleBusNode                                 *)
  device,   (* the device of each id                                        *)
  offered,  (* SYS_ADDRESS_CONFIGURE messages on their way to each device   *)
  asked,    (* number of address requests of each device                    *)
  lost,     (* number of frames lost                                        *)
  torn,     (* history: a message of the device was not sent completely     *)
  repeated, (* history: the device asked again before it got an answer      *)
  mixed     (* history: a message put together wrongly was handled          *)

serverVars == <<pending, serve, requests, master, gen, queue, closed, handler, mixed>>
deviceVars == <<device, offered, asked, lost, torn, repeated>>
vars == <<rx, serverVars, deviceVars>>

Gen == 0..MaxAsked
Number == 1..(MaxMessages + MaxAsked)
Kind == {"configure_ack", "boot_ack", "other"}

(* Frame k of the t frames of message number no.                           *)
Frame == [node : Id, kind : Kind, no : Number, k : 1..MaxFrames, t : 1..MaxFrames]
Request == [node : {0}, from : Id]

(* A message as far as it has been received, and whether its frames are    *)
(* the first, the second... of one message.                                *)
Message == [kind : Kind, no : Number, got : 1..Capacity, sound : BOOLEAN]
None == [got |-> 0]

(* A device, and how many of the t frames of its last message it has sent. *)
DeviceState ==
  [pc : {"off", "asking", "up"}, kind : Kind, no : Number \cup {0},
   k : 0..MaxFrames, t : 0..MaxFrames]

TypeOK ==
  /\ rx \in Seq(Frame \cup Request) /\ Len(rx) <= RxSize
  /\ pending \in [Id -> Message \cup {None}]
  /\ serve \in [pc : {"idle", "panic"}] \cup [pc : {"request"}, from : Id]
                \cup [pc : {"send"}, node : Id, gen : Gen]
  /\ requests \in Seq(Id) /\ Len(requests) <= QueueSize
  /\ master \in [pc : {"idle", "panic"}] \cup [pc : {"terminate", "renew", "configure"}, id : Id]
  /\ gen \in [Id -> Gen]
  /\ queue \in [Id -> [Gen -> Seq(Message)]]
  /\ \A i \in Id, g \in Gen : Len(queue[i][g]) <= QueueSize
  /\ closed \in [Id -> SUBSET Gen]
  /\ handler \in [Id -> [Gen -> {"none", "select", "expect", "tell", "report", "closing"}]]
  /\ device \in [Id -> DeviceState]
  /\ offered \in [Id -> Nat]
  /\ asked \in [Id -> 0..MaxAsked]
  /\ lost \in 0..MaxLost
  /\ {torn, repeated} \subseteq [Id -> BOOLEAN]
  /\ mixed \in BOOLEAN

Init ==
  /\ rx = <<>>
  /\ pending = [i \in Id |-> None]
  /\ serve = [pc |-> "idle"]
  /\ requests = <<>>
  /\ master = [pc |-> "idle"]
  /\ gen = [i \in Id |-> 0]
  /\ queue = [i \in Id |-> [g \in Gen |-> <<>>]]
  /\ closed = [i \in Id |-> {}]
  /\ handler = [i \in Id |-> [g \in Gen |-> "none"]]
  /\ device = [i \in Id |-> [pc |-> "off", kind |-> "other", no |-> 0, k |-> 0, t |-> 0]]
  /\ offered = [i \in Id |-> 0]
  /\ asked = [i \in Id |-> 0]
  /\ lost = 0
  /\ torn = [i \in Id |-> FALSE]
  /\ repeated = [i \in Id |-> FALSE]
  /\ mixed = FALSE

(* A goroutine in one of these states reads its queue or will read it.     *)
Running == {"select", "expect", "tell", "report"}

running(i) == gen[i] # 0
panic == serve.pc = "panic"
-----------------------------------------------------------------------------
(* The devices and the bus, as far as the daemon sees them.                *)

Sending(i) == device[i].k < device[i].t

(* A frame reaches CanRxChannel, or is lost.                               *)
Transmit(f) ==
  \/ /\ Len(rx) < RxSize
     /\ rx' = Append(rx, f)
     /\ UNCHANGED lost
  \/ /\ lost < MaxLost
     /\ lost' = lost + 1
     /\ UNCHANGED rx

(* The device starts, restarts, or repeats a request without an answer.    *)
DeviceAsk(i) ==
  /\ asked[i] < MaxAsked
  /\ Transmit([node |-> 0, from |-> i])
  /\ asked' = [asked EXCEPT ![i] = @ + 1]
  /\ repeated' = [repeated EXCEPT ![i] = @ \/ device[i].pc = "asking" \/ offered[i] > 0]
  /\ torn' = [torn EXCEPT ![i] = @ \/ Sending(i)]
  /\ device' = [device EXCEPT ![i].pc = "asking", ![i].k = 0, ![i].t = 0]
  /\ UNCHANGED <<serverVars, offered>>

StartMessage(i, kind, t) ==
  [device EXCEPT ![i] = [pc |-> "up", kind |-> kind, no |-> @.no + 1, k |-> 0, t |-> t]]

(* SYS_ADDRESS_CONFIGURE arrives: the device uses its id from now on.      *)
DeviceConfigure(i) ==
  /\ offered[i] > 0
  /\ ~Sending(i)
  /\ offered' = [offered EXCEPT ![i] = @ - 1]
  /\ device' = StartMessage(i, "configure_ack", 1)
  /\ UNCHANGED <<rx, serverVars, asked, lost, torn, repeated>>

DeviceSend(i, kind, t) ==
  /\ device[i].pc = "up"
  /\ device[i].no < MaxMessages
  /\ ~Sending(i)
  /\ device' = StartMessage(i, kind, t)
  /\ UNCHANGED <<rx, serverVars, offered, asked, lost, torn, repeated>>

DeviceFrame(i) ==
  LET d == device[i] IN
  /\ Sending(i)
  /\ Transmit([node |-> i, kind |-> d.kind, no |-> d.no, k |-> d.k + 1, t |-> d.t])
  /\ device' = [device EXCEPT ![i].k = @ + 1]
  /\ torn' = [torn EXCEPT ![i] = @ \/ (lost' # lost /\ d.t > 1)]
  /\ UNCHANGED <<serverVars, offered, asked, repeated>>
-----------------------------------------------------------------------------
(* Serve                                                                   *)

First(f) == f.k = 1
Last(f) == f.k = f.t

(* Frames of an id that is not running, first frames while a message is    *)
(* pending and other frames while none is are discarded.                   *)
Discarded(f) ==
  \/ ~running(f.node)
  \/ First(f) /\ pending[f.node] # None
  \/ ~First(f) /\ pending[f.node] = None

NewMessage(f) == [kind |-> f.kind, no |-> f.no, got |-> 1, sound |-> TRUE]

AppendData_Unchecked(m, f) ==
  [m EXCEPT !.got = @ + 1, !.sound = @ /\ f.no = m.no /\ f.k = m.got + 1]

(* AppendData: what does not fit is dropped.                               *)
AppendData(m, f) ==
  IF m.got = Capacity THEN [m EXCEPT !.sound = FALSE]
  ELSE [m EXCEPT !.got = @ + 1, !.sound = @ /\ f.no = m.no /\ f.k = m.got + 1]

Assemble(f) == IF First(f) THEN NewMessage(f) ELSE AppendData(pending[f.node], f)

ServeDiscard ==
  /\ serve.pc = "idle"
  /\ rx # <<>>
  /\ Head(rx).node # 0
  /\ Discarded(Head(rx))
  /\ rx' = Tail(rx)
  /\ UNCHANGED <<serverVars, deviceVars>>

ServeFrame ==
  /\ serve.pc = "idle"
  /\ rx # <<>>
  /\ Head(rx).node # 0
  /\ ~Discarded(Head(rx))
  /\ LET f == Head(rx) IN
     /\ pending' = [pending EXCEPT ![f.node] = Assemble(f)]
     /\ serve' = IF Last(f) THEN [pc |-> "send", node |-> f.node, gen |-> gen[f.node]] ELSE serve
  /\ rx' = Tail(rx)
  /\ UNCHANGED <<requests, master, gen, queue, closed, handler, mixed, deviceVars>>

(* An address request is a message of one frame for node id 0.             *)
ServeRequest ==
  /\ serve.pc = "idle"
  /\ rx # <<>>
  /\ Head(rx).node = 0
  /\ serve' = [pc |-> "request", from |-> Head(rx).from]
  /\ rx' = Tail(rx)
  /\ UNCHANGED <<pending, requests, master, gen, queue, closed, handler, mixed, deviceVars>>

ServeSendRequest ==
  /\ serve.pc = "request"
  /\ Len(requests) < QueueSize
  /\ requests' = Append(requests, serve.from)
  /\ serve' = [pc |-> "idle"]
  /\ UNCHANGED <<rx, pending, master, gen, queue, closed, handler, mixed, deviceVars>>

ServeSend_KeepPending ==
  /\ serve.pc = "send"
  /\ serve.gen \notin closed[serve.node]
  /\ Len(queue[serve.node][serve.gen]) < QueueSize
  /\ queue' = [queue EXCEPT ![serve.node][serve.gen] = Append(@, pending[serve.node])]
  /\ serve' = [pc |-> "idle"]
  /\ UNCHANGED <<rx, pending, requests, master, gen, closed, handler, mixed, deviceVars>>

(* inputQueue <- msg.  A queue that has been replaced since Serve looked   *)
(* it up is read by nobody.                                                *)
ServeSend ==
  /\ serve.pc = "send"
  /\ serve.gen \notin closed[serve.node]
  /\ Len(queue[serve.node][serve.gen]) < QueueSize
  /\ queue' = [queue EXCEPT ![serve.node][serve.gen] = Append(@, pending[serve.node])]
  /\ pending' = [pending EXCEPT ![serve.node] = None]
  /\ serve' = [pc |-> "idle"]
  /\ UNCHANGED <<rx, requests, master, gen, closed, handler, mixed, deviceVars>>

ServePanic ==
  /\ serve.pc = "send"
  /\ serve.gen \in closed[serve.node]
  /\ serve' = [pc |-> "panic"]
  /\ master' = [pc |-> "panic"]
  /\ handler' = [i \in Id |-> [g \in Gen |-> "none"]]
  /\ UNCHANGED <<rx, pending, requests, gen, queue, closed, mixed, deviceVars>>
-----------------------------------------------------------------------------
(* handleMasterNode                                                        *)

MasterTake_NoTerminate ==
  /\ master.pc = "idle"
  /\ requests # <<>>
  /\ requests' = Tail(requests)
  /\ master' = [pc |-> "renew", id |-> Head(requests)]
  /\ UNCHANGED <<rx, pending, serve, gen, queue, closed, handler, mixed, deviceVars>>

(* The device is registered; a running goroutine has to be stopped first.  *)
MasterTake ==
  /\ master.pc = "idle"
  /\ requests # <<>>
  /\ requests' = Tail(requests)
  /\ master' = [pc |-> IF running(Head(requests)) THEN "terminate" ELSE "renew",
                id |-> Head(requests)]
  /\ UNCHANGED <<rx, pending, serve, gen, queue, closed, handler, mixed, deviceVars>>

(* terminateSignal is not buffered: the goroutine has to be in its select. *)
MasterTerminate ==
  /\ master.pc = "terminate"
  /\ handler[master.id][gen[master.id]] = "select"
  /\ handler' = [handler EXCEPT ![master.id][gen[master.id]] = "closing"]
  /\ master' = [master EXCEPT !.pc = "renew"]
  /\ UNCHANGED <<rx, pending, serve, requests, gen, queue, closed, mixed, deviceVars>>

MasterRenew_SameQueue ==
  /\ master.pc = "renew"
  /\ gen' = [gen EXCEPT ![master.id] = 1]
  /\ handler' = [handler EXCEPT ![master.id][1] = "select"]
  /\ master' = [master EXCEPT !.pc = "configure"]
  /\ UNCHANGED <<rx, pending, serve, requests, queue, closed, mixed, deviceVars>>

(* A new queue, a new signal and a new goroutine.  pendingMessage stays.   *)
(* running is set first: when a device asks again it is set already, and   *)
(* when it asks for the first time it does not use its id yet, so that     *)
(* Serve cannot see the steps apart and they are one.                      *)
MasterRenew ==
  /\ master.pc = "renew"
  /\ gen[master.id] < MaxAsked
  /\ gen' = [gen EXCEPT ![master.id] = @ + 1]
  /\ handler' = [handler EXCEPT ![master.id][gen[master.id] + 1] = "select"]
  /\ master' = [master EXCEPT !.pc = "configure"]
  /\ UNCHANGED <<rx, pending, serve, requests, queue, closed, mixed, deviceVars>>

(* SYS_ADDRESS_CONFIGURE is sent.                                          *)
MasterConfigure ==
  /\ master.pc = "configure"
  /\ offered' = [offered EXCEPT ![master.id] = @ + 1]
  /\ master' = [pc |-> "idle"]
  /\ UNCHANGED <<rx, pending, serve, requests, gen, queue, closed, handler, mixed, device,
                 asked, lost, torn, repeated>>
-----------------------------------------------------------------------------
(* handleBusNode                                                           *)

(* The goroutine takes the next message and handles it.  It tells the      *)
(* clients of an address the device has confirmed and of what it registers *)
(* or publishes; the answer to a boot request may start a firmware         *)
(* operation.                                                              *)
HandlerTake(i, g) ==
  /\ handler[i][g] = "select"
  /\ queue[i][g] # <<>>
  /\ LET m == Head(queue[i][g]) IN
     /\ mixed' = (mixed \/ ~m.sound)
     /\ \/ m.kind # "configure_ack" /\ UNCHANGED handler
        \/ m.kind = "boot_ack" /\ handler' = [handler EXCEPT ![i][g] = "expect"]
        \/ m.kind # "boot_ack" /\ handler' = [handler EXCEPT ![i][g] = "tell"]
  /\ queue' = [queue EXCEPT ![i][g] = Tail(@)]
  /\ UNCHANGED <<rx, pending, serve, requests, master, gen, closed, deviceVars>>

(* EventServer.Broadcast returns, or the SendEvent of the last report of a *)
(* firmware operation: they wait for room in the queues of clients, and a  *)
(* broadcast for the server's mutex too.                                   *)
HandlerTold(i, g) ==
  /\ handler[i][g] = "tell"
  /\ handler' = [handler EXCEPT ![i][g] = "select"]
  /\ UNCHANGED <<rx, pending, serve, requests, master, gen, queue, closed, mixed, deviceVars>>

(* ExpectSystemMessage, called once or more by a firmware operation: any   *)
(* message ends it.  The operation goes on, reports its progress, or       *)
(* reports that it has ended or failed.                                    *)
HandlerExpect(i, g) ==
  /\ handler[i][g] = "expect"
  /\ queue[i][gen[i]] # <<>>
  /\ mixed' = (mixed \/ ~Head(queue[i][gen[i]]).sound)
  /\ queue' = [queue EXCEPT ![i][gen[i]] = Tail(@)]
  /\ \E pc \in {"expect", "report", "tell"} : handler' = [handler EXCEPT ![i][g] = pc]
  /\ UNCHANGED <<rx, pending, serve, requests, master, gen, closed, deviceVars>>

HandlerTimeout_Retry(i, g) ==
  /\ handler[i][g] = "expect"
  /\ UNCHANGED vars

(* The timeout of ExpectSystemMessage makes the operation report that it   *)
(* has failed.                                                             *)
HandlerTimeout(i, g) ==
  /\ handler[i][g] = "expect"
  /\ handler' = [handler EXCEPT ![i][g] = "tell"]
  /\ UNCHANGED <<rx, pending, serve, requests, master, gen, queue, closed, mixed, deviceVars>>

(* The report of progress is sent; the operation ends if its client is     *)
(* gone.                                                                   *)
HandlerReport(i, g) ==
  /\ handler[i][g] = "report"
  /\ \E pc \in {"expect", "select"} : handler' = [handler EXCEPT ![i][g] = pc]
  /\ UNCHANGED <<rx, pending, serve, requests, master, gen, queue, closed, mixed, deviceVars>>

(* close(inputQueue); what is left in the queue is garbage.                *)
HandlerClose(i, g) ==
  /\ handler[i][g] = "closing"
  /\ closed' = [closed EXCEPT ![i] = @ \cup {g}]
  /\ queue' = [queue EXCEPT ![i][g] = <<>>]
  /\ handler' = [handler EXCEPT ![i][g] = "none"]
  /\ UNCHANGED <<rx, pending, serve, requests, master, gen, mixed, deviceVars>>
-----------------------------------------------------------------------------
Device(i) ==
  \/ DeviceAsk(i)
  \/ DeviceConfigure(i)
  \/ DeviceFrame(i)
  \/ \E kind \in {"boot_ack", "other"}, t \in 1..MaxFrames : DeviceSend(i, kind, t)

Serve == ServeDiscard \/ ServeFrame \/ ServeRequest \/ ServeSendRequest \/ ServeSend \/ ServePanic
Master == MasterTake \/ MasterTerminate \/ MasterRenew \/ MasterConfigure
Handler(i, g) ==
  \/ HandlerTake(i, g)
  \/ HandlerTold(i, g)
  \/ HandlerExpect(i, g)
  \/ HandlerTimeout(i, g)
  \/ HandlerReport(i, g)
  \/ HandlerClose(i, g)

Next ==
  \/ \E i \in Id : Device(i)
  \/ Serve
  \/ Master
  \/ \E i \in Id, g \in Gen : Handler(i, g)

(* Goroutines that can run do, the select of a goroutine chooses fairly    *)
(* between a message and the signal, and the bus delivers what is sent to  *)
(* a device.  That broadcasts and reports end (HandlerTold, HandlerReport) *)
(* is not assumed.                                                         *)
Fairness ==
  /\ WF_vars(Serve)
  /\ WF_vars(MasterTake \/ MasterRenew \/ MasterConfigure)
  /\ SF_vars(MasterTerminate)
  /\ \A i \in Id, g \in Gen :
       /\ WF_vars(HandlerTake(i, g))
       /\ WF_vars(HandlerTimeout(i, g))
       /\ WF_vars(HandlerClose(i, g))
  /\ \A i \in Id : WF_vars(DeviceConfigure(i)) /\ WF_vars(DeviceFrame(i))

Spec == Init /\ [][Next]_vars
FairSpec == Spec /\ Fairness
-----------------------------------------------------------------------------
(* There is never more than one goroutine that handles the messages of an  *)
(* id, and it reads the queue that Serve sends to.                         *)
OneHandler ==
  \A i \in Id, g \in Gen : handler[i][g] \in Running => g = gen[i]

(* Serve sends to a closed queue, which ends the daemon, only if a device  *)
(* has repeated an address request before it got the answer to the first.  *)
PanicNeedsRepeat == panic => \E i \in Id : repeated[i]

(* Each message that is handled consists of the frames of one message of   *)
(* its sender, all of them and in order, unless the sender was interrupted *)
(* or one of its frames was lost, now or at any time before.               *)
MixedNeedsTear == mixed => \E i \in Id : torn[i]

(* No goroutine of a node waits for ever in a broadcast or in a report to  *)
(* a client.  EventServer does not promise it: TerminationDeletes of       *)
(* EventServer, which fails, shows a broadcast that never ends.            *)
BroadcastsEnd ==
  \A i \in Id, g \in Gen : []<>(handler[i][g] \notin {"tell", "report"})

(* A device that asks for an address gets one while the daemon is there,   *)
(* if no frame is lost and no broadcast hangs: Serve, the master and the   *)
(* goroutines never wait for each other in a circle.                       *)
Answered ==
  BroadcastsEnd =>
    \A i \in Id : device[i].pc = "asking" ~> (device[i].pc = "up" \/ panic \/ lost > 0)
=============================================================================
