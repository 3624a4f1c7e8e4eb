------------------------------ MODULE Firmware -------------------------------
(***************************************************************************)
(* Firmware uploads to one node (controllers/firmware.go, the handlers of  *)
(* firmware and reboot requests in controllers/event_server.go, the answer *)
(* to a boot request in controllers/network_controller.go).  The handler   *)
(* of a client's request stores the operation in the node's context and    *)
(* asks the node to start its bootloader; when the node does, its          *)
(* goroutine carries the operation out, waiting for the answer of the node *)
(* to each message, and reports to the client.  The report is one object,  *)
(* shared by the operation, the handler and the client's OutputChan, and   *)
(* is read when it is written to the socket.                               *)
(*                                                                         *)
(* The node and the bus are external: messages arrive in order, some are   *)
(* lost, answers may be late, and the node may fail or restart.            *)
(***************************************************************************)
EXTENDS Naturals, Sequences, Functions

CONSTANTS
  Client,
  Sizes,      (* numbers of pages of firmwares                              *)
  MaxPages,   (* pages of the node's memory                                 *)
  OutSize,    (* capacity of OutputChan: 16 in the code                     *)
  QueueSize,  (* capacity of inputQueue: 16 in the code                     *)
  MaxOps,     (* bound on the uploads                                       *)
  MaxReboots, (* bound on the reboot requests                               *)
  MaxFaults   (* bound on what goes wrong with the node, the bus and the    *)
              (* connections                                                *)

ASSUME FirmwareAssumption ==
  /\ Sizes \subseteq 1..MaxPages
  /\ {MaxPages, OutSize, QueueSize} \subseteq Nat \ {0}
  /\ {MaxOps, MaxReboots, MaxFaults} \subseteq Nat

VARIABLES
  op,         (* the operations so far: client, pages, progress             *)
  pendingFirmwareOperation,
  ask,        (* the handler of each client's request                       *)
  g,          (* the node's goroutine                                       *)
  toNode,     (* messages on their way to the node                          *)
  inputQueue, (* messages from the node                                     *)
  node,       (* the node: in its bootloader or not, the address, the page  *)
              (* received last                                              *)
  flash,      (* the operation whose data each page holds                   *)
  out,        (* OutputChan of each client; an acknowledgement is 0         *)
  connected,  (* Connected of each client; DeleteClient closes OutputChan   *)
  broken,     (* the clients whose sender failed to write and sends no more *)
  seen,       (* the report each operation's client has seen last           *)
  reboots, faults,
  panic,      (* a goroutine has used a closed channel                      *)
  departed,   (* history: clients that left while their operation went on   *)
  rewound,    (* history: operations whose report was reset too late        *)
  ignored,    (* history: the operation ignored an error of the node        *)
  stale,      (* history: an answer to another message was accepted         *)
  overlap     (* history: the node was asked to start its bootloader, or    *)
              (* did so unasked, while there was still work of an earlier   *)
              (* start                                                      *)

clientVars == <<out, connected, broken, seen, departed>>
nodeVars == <<node, flash>>
counters == <<reboots, faults>>
vars == <<op, pendingFirmwareOperation, ask, g, toNode, inputQueue, nodeVars, clientVars,
          counters, panic, rewound, ignored, stale, overlap>>

Op == 0..MaxOps
Page == 0..MaxPages
Fn == {"signature", "address", "erase", "write", "crc", "leave", "boot", "other"}
Message == [fn : Fn, op : Op, page : Page, ok : BOOLEAN]

(* ProgressReport: a percentage, or the end.                               *)
ProgressSuccess == 254
ProgressFailed == 255
ProgressReport == 0..100 \cup {ProgressSuccess, ProgressFailed}
Final == {ProgressSuccess, ProgressFailed}

TypeOK ==
  /\ op \in Seq([client : Client, pages : Sizes, progress : ProgressReport])
  /\ Len(op) <= MaxOps
  /\ pendingFirmwareOperation \in 0..Len(op)
  /\ ask \in [Client -> [pc : {"idle", "boot", "update", "ack"}, op : 0..Len(op)]]
  /\ g \in [pc : {"select", "leave", "expect", "check", "put"}, fn : Fn, op : 0..Len(op), page : Page,
            then : {"page", "hundred", "success", "end"}]
  /\ toNode \in Seq(Message)
  /\ inputQueue \in Seq(Message) /\ Len(inputQueue) <= QueueSize
  /\ node \in [boot : BOOLEAN, address : Page, buffer : Op]
  /\ flash \in [1..MaxPages -> Op]
  /\ out \in [Client -> Seq(Op)] /\ \A c \in Client : Len(out[c]) <= OutSize
  /\ connected \in [Client -> BOOLEAN]
  /\ seen \in [1..MaxOps -> ProgressReport]
  /\ reboots \in 0..MaxReboots /\ faults \in 0..MaxFaults
  /\ {panic, ignored, stale, overlap} \subseteq BOOLEAN
  /\ rewound \subseteq 1..MaxOps
  /\ departed \subseteq Client /\ broken \subseteq Client

Select == [pc |-> "select", fn |-> "other", op |-> 0, page |-> 0, then |-> "end"]

Init ==
  /\ op = <<>>
  /\ pendingFirmwareOperation = 0
  /\ ask = [c \in Client |-> [pc |-> "idle", op |-> 0]]
  /\ g = Select
  /\ toNode = <<>>
  /\ inputQueue = <<>>
  /\ node = [boot |-> FALSE, address |-> 0, buffer |-> 0]
  /\ flash = [p \in 1..MaxPages |-> 0]
  /\ out = [c \in Client |-> <<>>]
  /\ connected = [c \in Client |-> TRUE]
  /\ broken = {}
  /\ seen = [o \in 1..MaxOps |-> 0]
  /\ reboots = 0 /\ faults = 0
  /\ panic = FALSE
  /\ rewound = {}
  /\ departed = {}
  /\ ignored = FALSE
  /\ stale = FALSE
  /\ overlap = FALSE

(* An operation is going on.                                               *)
Operating == g.pc \in {"expect", "check", "put"}

Msg(fn, o, p) == [fn |-> fn, op |-> o, page |-> p, ok |-> TRUE]
-----------------------------------------------------------------------------
(* clientFirmwareUploadHandler, for a node that exists and offsets outside *)
(* of the bootloader: an operation that is pending already is replaced.    *)
Upload(c, pages) ==
  /\ ~panic
  /\ connected[c] /\ ask[c].pc = "idle"
  /\ Len(op) < MaxOps
  /\ op' = Append(op, [client |-> c, pages |-> pages, progress |-> 0])
  /\ pendingFirmwareOperation' = Len(op) + 1
  /\ ask' = [ask EXCEPT ![c] = [pc |-> "boot", op |-> Len(op) + 1]]
  /\ UNCHANGED <<g, toNode, inputQueue, nodeVars, clientVars, counters, panic, rewound, ignored, stale, overlap>>

(* The bootloader has been asked for, or used, and that is not over.       *)
Starting == Operating \/ \E m \in Range(toNode \o inputQueue) : m.fn = "boot"

(* SYS_NODE_BOOT_REQUEST                                                   *)
RequestBoot ==
  /\ toNode' = Append(toNode, Msg("boot", 0, 0))
  /\ overlap' = (overlap \/ Starting)

UploadBoot(c) ==
  /\ ~panic
  /\ ask[c].pc = "boot"
  /\ RequestBoot
  /\ ask' = [ask EXCEPT ![c].pc = "update"]
  /\ UNCHANGED <<op, pendingFirmwareOperation, g, inputQueue, nodeVars, clientVars, counters, panic,
                 rewound, ignored, stale>>

(* progress.Update(0, 0)                                                   *)
UploadUpdate(c) ==
  LET o == ask[c].op IN
  /\ ~panic
  /\ ask[c].pc = "update"
  /\ op' = [op EXCEPT ![o].progress = 0]
  /\ rewound' = IF op[o].progress # 0 THEN rewound \cup {o} ELSE rewound
  /\ ask' = [ask EXCEPT ![c].pc = "ack"]
  /\ UNCHANGED <<pendingFirmwareOperation, g, toNode, inputQueue, nodeVars, clientVars, counters, panic,
                 ignored, stale, overlap>>

UploadAck(c) ==
  /\ ~panic
  /\ ask[c].pc = "ack"
  /\ Len(out[c]) < OutSize
  /\ out' = [out EXCEPT ![c] = Append(@, 0)]
  /\ ask' = [ask EXCEPT ![c] = [pc |-> "idle", op |-> 0]]
  /\ UNCHANGED <<op, pendingFirmwareOperation, g, toNode, inputQueue, nodeVars, connected, broken, seen, departed,
                 counters, panic, rewound, ignored, stale, overlap>>

(* clientNodeRebootRequestHandler                                          *)
Reboot(c) ==
  /\ ~panic
  /\ connected[c] /\ ask[c].pc = "idle"
  /\ reboots < MaxReboots
  /\ reboots' = reboots + 1
  /\ RequestBoot
  /\ ask' = [ask EXCEPT ![c] = [pc |-> "ack", op |-> 0]]
  /\ UNCHANGED <<op, pendingFirmwareOperation, g, inputQueue, nodeVars, clientVars, faults, panic,
                 rewound, ignored, stale>>

(* The client's sender writes an event; the report is packed now.  After a *)
(* write that fails it only waits for the client to be deleted.            *)
ClientSender(c) ==
  LET o == Head(out[c]) IN
  /\ ~panic
  /\ c \notin broken
  /\ out[c] # <<>>
  /\ out' = [out EXCEPT ![c] = Tail(@)]
  /\ \/ /\ seen' = IF o = 0 THEN seen ELSE [seen EXCEPT ![o] = op[o].progress]
        /\ UNCHANGED <<broken, faults>>
     \/ /\ faults < MaxFaults
        /\ faults' = faults + 1
        /\ broken' = broken \cup {c}
        /\ UNCHANGED seen
  /\ UNCHANGED <<op, pendingFirmwareOperation, ask, g, toNode, inputQueue, nodeVars, connected, departed, reboots,
                 panic, rewound, ignored, stale, overlap>>

(* The client leaves: DeleteClient.  The reader of a broken connection     *)
(* first sends an acknowledgement, for which OutputChan needs room.        *)
Leave(c) ==
  /\ ~panic
  /\ connected[c] /\ ask[c].pc = "idle"
  /\ c \in broken => Len(out[c]) < OutSize
  /\ connected' = [connected EXCEPT ![c] = FALSE]
  /\ out' = [out EXCEPT ![c] = <<>>]
  /\ departed' = IF Operating /\ op[g.op].client = c THEN departed \cup {c} ELSE departed
  /\ UNCHANGED <<op, pendingFirmwareOperation, ask, g, toNode, inputQueue, nodeVars, broken, seen, counters, panic,
                 rewound, ignored, stale, overlap>>
-----------------------------------------------------------------------------
(* handleBusNode, handleBusNodeMessage                                     *)

(* The goroutine sends a message to the node and expects the answer.       *)
Ask(fn, o, p) ==
  /\ toNode' = Append(toNode, Msg(fn, o, p))
  /\ g' = [pc |-> "expect", fn |-> fn, op |-> o, page |-> p, then |-> "end"]
  /\ UNCHANGED op

(* op.Client.SendEvent(op.Progress.Update(...)), then what comes next.     *)
Report(o, value, then) ==
  /\ op' = [op EXCEPT ![o].progress = value]
  /\ g' = [g EXCEPT !.pc = "check", !.then = then]

Fail == Report(g.op, ProgressFailed, "end") /\ UNCHANGED toNode

(* A message arrives when no operation is going on.                        *)
Receive ==
  LET m == Head(inputQueue)
      o == pendingFirmwareOperation
  IN
  /\ ~panic
  /\ g.pc = "select"
  /\ inputQueue # <<>>
  /\ inputQueue' = Tail(inputQueue)
  /\ CASE m.fn = "boot" /\ o # 0 ->
            Ask("signature", o, 0) /\ ignored' = FALSE
       [] m.fn = "boot" /\ o = 0 ->
            g' = [g EXCEPT !.pc = "leave"] /\ UNCHANGED <<op, toNode, ignored>>
       [] OTHER -> UNCHANGED <<op, g, toNode, ignored>>
  /\ UNCHANGED <<pendingFirmwareOperation, ask, nodeVars, clientVars, counters, panic, rewound, stale, overlap>>

(* The operation is over; an operation stored meanwhile is dropped.        *)
End == g' = [g EXCEPT !.pc = "select"] /\ pendingFirmwareOperation' = 0

(* There was no operation: the node is told to leave its bootloader.  An   *)
(* operation stored since is dropped here too.                             *)
BootLeave ==
  /\ ~panic
  /\ g.pc = "leave"
  /\ toNode' = Append(toNode, Msg("leave", 0, 0))
  /\ End
  /\ UNCHANGED <<op, ask, inputQueue, nodeVars, clientVars, counters, panic, rewound, ignored, stale, overlap>>

(* Data and checksum are written with the same function, and the answers   *)
(* do not tell them apart.                                                 *)
Function(fn) == IF fn = "crc" THEN "write" ELSE fn

(* ExpectSystemMessage: a system message with the function of the answer.  *)
(* The node refuses a page with the parameter 0xFF and its checksum.       *)
Expected(m) == Function(m.fn) = Function(g.fn)

CodeChecked_No == g.fn = "signature"

(* Whose return codes are looked at: the signature, and the last write of  *)
(* a page.  The others are marked TODO.                                    *)
CodeChecked == g.fn \in {"signature", "crc"}

(* uploadFirmware: the first address is for the erase, page 0.             *)
Proceed ==
  CASE g.fn = "signature" -> Ask("address", g.op, 0)
    [] g.fn = "address" /\ g.page = 0 -> Ask("erase", g.op, 0)
    [] g.fn = "erase" -> Ask("address", g.op, 1)
    [] g.fn = "address" /\ g.page > 0 -> Ask("write", g.op, g.page)
    [] g.fn = "write" -> Ask("crc", g.op, g.page)
    [] g.fn = "crc" -> Report(g.op, ((g.page - 1) * 100) \div op[g.op].pages, "page") /\ UNCHANGED toNode

Expect ==
  LET m == Head(inputQueue) IN
  /\ ~panic
  /\ g.pc = "expect"
  /\ inputQueue # <<>>
  /\ inputQueue' = Tail(inputQueue)
  /\ IF ~Expected(m) \/ (CodeChecked /\ ~m.ok)
     THEN Fail /\ UNCHANGED <<ignored, stale, overlap>>
     ELSE /\ Proceed
          /\ ignored' = (ignored \/ (~m.ok /\ g.fn \in {"address", "erase", "write"}))
          /\ stale' = (stale \/ <<m.fn, m.op, m.page>> # <<g.fn, g.op, g.page>>)
  /\ UNCHANGED <<pendingFirmwareOperation, ask, nodeVars, clientVars, counters, panic, rewound, overlap>>

Timeout_Retry ==
  /\ ~panic
  /\ g.pc = "expect"
  /\ Len(toNode) < QueueSize
  /\ Ask(g.fn, g.op, g.page)
  /\ UNCHANGED <<pendingFirmwareOperation, ask, inputQueue, nodeVars, clientVars, counters, panic,
                 rewound, ignored, stale, overlap>>

Timeout_Proceed ==
  /\ ~panic
  /\ g.pc = "expect"
  /\ Proceed
  /\ UNCHANGED <<pendingFirmwareOperation, ask, inputQueue, nodeVars, clientVars, counters, panic,
                 rewound, ignored, stale, overlap>>

(* DEFAULT_EXPECT_TIMEOUT                                                  *)
Timeout ==
  /\ ~panic
  /\ g.pc = "expect"
  /\ Fail
  /\ UNCHANGED <<pendingFirmwareOperation, ask, inputQueue, nodeVars, clientVars, counters, panic,
                 rewound, ignored, stale, overlap>>

(* What follows a report: the next page; or, after the last one, the node  *)
(* is told to leave its bootloader, 100 % is reported, and success.        *)
After ==
  CASE g.then = "page" /\ g.page < op[g.op].pages ->
         Ask("address", g.op, g.page + 1) /\ UNCHANGED pendingFirmwareOperation
    [] g.then = "page" /\ g.page = op[g.op].pages ->
         /\ toNode' = Append(toNode, Msg("leave", 0, 0))
         /\ Report(g.op, 100, "hundred")
         /\ UNCHANGED pendingFirmwareOperation
    [] g.then = "hundred" ->
         Report(g.op, ProgressSuccess, "success") /\ UNCHANGED <<toNode, pendingFirmwareOperation>>
    [] OTHER -> End /\ UNCHANGED <<op, toNode>>

ReportCheck_None ==
  /\ ~panic
  /\ g.pc = "check"
  /\ g' = [g EXCEPT !.pc = "put"]
  /\ UNCHANGED <<op, pendingFirmwareOperation, ask, toNode, inputQueue, nodeVars, clientVars, counters,
                 panic, rewound, ignored, stale, overlap>>

(* SendEvent: if !c.Connected.  Only the error of a report in between ends *)
(* the operation.                                                          *)
ReportCheck ==
  /\ ~panic
  /\ g.pc = "check"
  /\ CASE connected[op[g.op].client] ->
            g' = [g EXCEPT !.pc = "put"] /\ UNCHANGED <<op, toNode, pendingFirmwareOperation>>
       [] ~connected[op[g.op].client] /\ g.then = "page" -> End /\ UNCHANGED <<op, toNode>>
       [] OTHER -> After
  /\ UNCHANGED <<ask, inputQueue, nodeVars, clientVars, counters, panic, rewound, ignored, stale, overlap>>

ReportPut_KeepOld ==
  LET c == op[g.op].client IN
  /\ ~panic
  /\ g.pc = "put"
  /\ connected[c]
  /\ out' = IF Len(out[c]) < OutSize THEN [out EXCEPT ![c] = Append(@, g.op)] ELSE out
  /\ After
  /\ UNCHANGED <<ask, inputQueue, nodeVars, connected, broken, seen, departed, counters, panic, rewound,
                 ignored, stale, overlap>>

(* OutputChan <- event waits for room.                                     *)
ReportPut ==
  LET c == op[g.op].client IN
  /\ ~panic
  /\ g.pc = "put"
  /\ connected[c]
  /\ Len(out[c]) < OutSize
  /\ out' = [out EXCEPT ![c] = Append(@, g.op)]
  /\ After
  /\ UNCHANGED <<ask, inputQueue, nodeVars, connected, broken, seen, departed, counters, panic, rewound,
                 ignored, stale, overlap>>

ReportPanic ==
  /\ ~panic
  /\ g.pc = "put"
  /\ ~connected[op[g.op].client]
  /\ panic' = TRUE
  /\ UNCHANGED <<op, pendingFirmwareOperation, ask, g, toNode, inputQueue, nodeVars, clientVars, counters,
                 rewound, ignored, stale, overlap>>
-----------------------------------------------------------------------------
(* The node and the bus                                                    *)

Answer(m) == inputQueue' = Append(inputQueue, m)
Restarted == [boot |-> FALSE, address |-> 0, buffer |-> 0]

(* The checksum answers for the data received before at an address.        *)
Matches(m) == node.buffer = m.op /\ node.address > 0

(* The node carries out what it is asked for.  Outside of its bootloader   *)
(* it only knows the boot request.                                         *)
NodeKnows(m) == node.boot \/ m.fn = "boot"

NodeDo(m) ==
  /\ node' = CASE m.fn = "boot" -> [Restarted EXCEPT !.boot = TRUE]
               [] m.fn = "leave" -> Restarted
               [] m.fn = "address" -> [node EXCEPT !.address = m.page]
               [] m.fn = "write" -> [node EXCEPT !.buffer = m.op]
               [] m.fn = "crc" -> [node EXCEPT !.buffer = 0]
               [] OTHER -> node
  /\ flash' = CASE m.fn = "erase" -> [p \in 1..MaxPages |-> 0]
                [] m.fn = "crc" /\ Matches(m) -> [flash EXCEPT ![node.address] = m.op]
                [] OTHER -> flash

NodeTake ==
  LET m == Head(toNode) IN
  /\ toNode # <<>>
  /\ Len(inputQueue) < QueueSize
  /\ toNode' = Tail(toNode)
  /\ IF NodeKnows(m)
     THEN NodeDo(m) /\ Answer([m EXCEPT !.ok = m.fn = "crc" => Matches(m)])
     ELSE UNCHANGED <<inputQueue, nodeVars>>
  /\ UNCHANGED <<op, pendingFirmwareOperation, ask, g, clientVars, counters, panic, rewound, ignored,
                 stale, overlap>>

(* The node restarts: without a word, or into its bootloader as if it had  *)
(* been asked to, which it announces unless that is lost.                  *)
Restart ==
  \/ node' = Restarted /\ UNCHANGED <<inputQueue, overlap>>
  \/ /\ node' = [Restarted EXCEPT !.boot = TRUE]
     /\ \/ UNCHANGED <<inputQueue, overlap>>
        \/ /\ Len(inputQueue) < QueueSize
           /\ Answer(Msg("boot", 0, 0))
           /\ overlap' = (overlap \/ Starting \/ \E m \in Range(toNode) : m.op # 0)

(* What may go wrong: a message is lost; it is refused with an error; the  *)
(* data of a write is damaged, which only the checksum tells; an answer is *)
(* lost; the node restarts, or sends a message nobody asked for.           *)
Fault ==
  LET m == Head(toNode) IN
  /\ faults < MaxFaults
  /\ faults' = faults + 1
  /\ \/ /\ toNode # <<>>
        /\ toNode' = Tail(toNode)
        /\ \/ UNCHANGED <<inputQueue, nodeVars>>
           \/ /\ NodeKnows(m) /\ Len(inputQueue) < QueueSize
              /\ Answer([m EXCEPT !.ok = m.fn = "write"])
              /\ UNCHANGED nodeVars
           \/ NodeKnows(m) /\ NodeDo(m) /\ UNCHANGED inputQueue
        /\ UNCHANGED overlap
     \/ Restart /\ UNCHANGED <<toNode, flash>>
     \/ /\ Len(inputQueue) < QueueSize
        /\ Answer(Msg("other", 0, 0))
        /\ UNCHANGED <<toNode, nodeVars, overlap>>
  /\ UNCHANGED <<op, pendingFirmwareOperation, ask, g, clientVars, reboots, panic, rewound,
                 ignored, stale>>
-----------------------------------------------------------------------------
Goroutine == Receive \/ BootLeave \/ Expect \/ ReportCheck \/ ReportPut \/ ReportPanic
Handler(c) == UploadBoot(c) \/ UploadUpdate(c) \/ UploadAck(c)

Next ==
  \/ \E c \in Client :
       \/ \E pages \in Sizes : Upload(c, pages)
       \/ Handler(c) \/ Reboot(c) \/ ClientSender(c) \/ Leave(c)
  \/ Goroutine \/ Timeout
  \/ NodeTake \/ Fault

Spec == Init /\ [][Next]_vars

(* The goroutine goes on or its timeout expires, and a client's sender     *)
(* writes what it finds, until a write fails.  Nothing is assumed of the   *)
(* node, nor that there are further requests.                              *)
FairSpec ==
  /\ Spec
  /\ WF_vars(Goroutine \/ Timeout)
  /\ \A c \in Client : WF_vars(ClientSender(c))
-----------------------------------------------------------------------------
(* An operation only takes an answer to an older message for the answer to *)
(* its last one if the node had been asked to start its bootloader again,  *)
(* or did so by itself, before it was done with what it had been sent      *)
(* after the last start: otherwise answers that come after a timeout, or   *)
(* to an operation that failed, are read before the next operation begins. *)
StaleNeedsOverlap == stale => overlap

(* Success is only reported when the node holds the whole firmware of this *)
(* operation, whatever is asked for meanwhile and whatever is lost; unless *)
(* an answer carried an error code that is not looked at, or belonged to   *)
(* another message (seven uploads that each ask for the bootloader again   *)
(* before the last one has failed can line up answers to all that the last *)
(* one asks for before the node has received any of it).                   *)
SuccessIsWritten ==
  g.op # 0 /\ op[g.op].progress = ProgressSuccess /\ ~ignored /\ ~stale
    => \A p \in 1..op[g.op].pages : flash[p] = g.op

(* A report to a client that is gone ends the daemon only if the client    *)
(* left while its operation was going on: Connected is looked at before    *)
(* each report, but not under the lock under which it is cleared.          *)
PanicNeedsDeparture == panic => op[g.op].client \in departed

Left(o) == ~connected[op[o].client]

(* Once an operation is over and its client has read what it was sent, the *)
(* client has seen the end, success or failure, although reports share one *)
(* object and are packed late; unless the client has left, its connection  *)
(* is broken, or the handler of the request reset the report after the     *)
(* operation had begun.                                                    *)
EndReported ==
  LET o == g.op IN
  o # 0 /\ ~Operating /\ ~Left(o) /\ out[op[o].client] = <<>>
    /\ op[o].client \notin broken /\ o \notin rewound
    => seen[o] \in Final

(* The goroutine waits for room in an OutputChan whose sender has failed   *)
(* to write.  The client's reader waits for room too, to acknowledge that  *)
(* the connection is broken, so that the client is never deleted.          *)
Hung == LET c == op[g.op].client IN c \in broken /\ Len(out[c]) = OutSize

(* An operation that has begun comes to its end even if the node falls     *)
(* silent, so that the node's goroutine reads messages again; unless a     *)
(* client that left has ended the daemon, or one whose connection broke    *)
(* while its OutputChan was full holds up the goroutine.                   *)
OperationEnds == Operating ~> (~Operating \/ panic \/ Hung)
=============================================================================
