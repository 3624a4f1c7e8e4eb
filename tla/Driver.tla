------------------------------- MODULE Driver --------------------------------
(***************************************************************************)
(* The way of frames between the daemon and the microcontroller of the CAN *)
(* bus (models/rpi/rpi.go, SendMessage of controllers/network_controller). *)
(*                                                                         *)
(* To the bus: goroutines cut their messages into frames, which they put   *)
(* into CanTxChannel one by one; a goroutine hands them over by SPI when   *)
(* the TX line is high.  From the bus: the RX line is low while frames     *)
(* wait; the falling edge calls CanRxInterrupt, which fetches and          *)
(* acknowledges frames until the line is high.  DriverInitialize may call  *)
(* CanRxInterrupt too, and the clients may send before it has ended.       *)
(*                                                                         *)
(* The microcontroller, wiringPi and the nodes are external: the nodes put *)
(* messages together the way Serve does.                                   *)
(***************************************************************************)
EXTENDS Naturals, Sequences

CONSTANTS
  Sender,      (* goroutines that send messages                             *)
  NodeId,      (* node ids they send to                                     *)
  TxSize,      (* capacity of CanTxChannel: 32 in the code                  *)
  RxSize,      (* capacity of CanRxChannel: 1000 in the code                *)
  MaxFrames,   (* bound on the frames of a message: 8 in the code           *)
  MaxMessages, (* bound on the messages sent                                *)
  MaxReceived, (* bound on the frames from the bus                          *)
  MaxFails     (* bound on the SPI transfers that fail                      *)

ASSUME DriverAssumption ==
  /\ {TxSize, RxSize, MaxFrames} \subseteq Nat \ {0}
  /\ {MaxMessages, MaxReceived, MaxFails} \subseteq Nat
  /\ "nobody" \notin NodeId

VARIABLES
  init,      (* how far DriverInitialize is                                 *)
  fails,     (* number of transfers that failed                             *)
  sender,    (* the message each goroutine is sending                       *)
  next,      (* the number of the next message                              *)
  CanTxChannel,
  tx,        (* the goroutine that hands frames over                        *)
  mcu,       (* the microcontroller: the frame it stores, and whether it is *)
             (* sending it, in which case the TX line is low                *)
  pending,   (* the frames each node has of a message                       *)
  got,       (* the messages each node has got                              *)
  line,      (* history: the messages begun and not over, see MessageBus    *)
  broken,    (* history: the nodes for which a frame was lost               *)
  fifo,      (* frames from the bus that wait in the microcontroller        *)
  edge,      (* a falling edge of the RX line has not been handled yet      *)
  arrived,   (* number of frames that came from the bus                     *)
  first,     (* history: the first frame after the reset                    *)
  rx,        (* CanRxInterrupt, called by main and by the interrupt thread  *)
  CanRxChannel,
  received,  (* history: the frames put into CanRxChannel                   *)
  raced      (* history: both threads were in CanRxInterrupt                *)

txVars == <<sender, next, CanTxChannel, tx, pending, got, line, broken>>
rxVars == <<edge, arrived, first, rx, CanRxChannel, received, raced>>
vars == <<init, fails, txVars, mcu, fifo, rxVars>>

None == [k |-> 0, t |-> 0]
Frame == [to : NodeId, no : 1..MaxMessages, k : 1..MaxFrames, t : 1..MaxFrames]
Thread == {"main", "isr"}
Started == {"drain", "ready"}

TypeOK ==
  /\ init \in {"spi", "reset", "wait", "signature", "failed"} \cup Started
  /\ fails \in 0..MaxFails
  /\ sender \in [Sender -> [to : NodeId, no : 1..MaxMessages, k : 0..MaxFrames, t : 1..MaxFrames]
                           \cup {None}]
  /\ next \in 1..(MaxMessages + 1)
  /\ CanTxChannel \in Seq(Frame) /\ Len(CanTxChannel) <= TxSize
  /\ tx \in [pc : {"idle"}] \cup [pc : {"store", "send"}, frame : Frame]
  /\ mcu \in [sending : BOOLEAN, frame : Frame \cup {None}]
  /\ pending \in [NodeId -> Seq(Frame)]
  /\ got \in [NodeId -> Seq(0..MaxMessages)]
  /\ broken \subseteq NodeId
  /\ {fifo, CanRxChannel, received} \subseteq Seq(1..MaxReceived)
  /\ Len(CanRxChannel) <= RxSize
  /\ {edge, raced} \subseteq BOOLEAN
  /\ arrived \in 0..MaxReceived /\ first \in 1..(MaxReceived + 1)
  /\ rx \in [Thread -> [pc : {"off", "check", "fetch", "ack", "put"}, frame : 0..MaxReceived]]

(* Frames may wait in the microcontroller from the time before the start.  *)
Init ==
  /\ init = "spi"
  /\ fails = 0
  /\ sender = [s \in Sender |-> None]
  /\ next = 1
  /\ CanTxChannel = <<>>
  /\ tx = [pc |-> "idle"]
  /\ mcu = [sending |-> FALSE, frame |-> None]
  /\ pending = [i \in NodeId |-> <<>>]
  /\ got = [i \in NodeId |-> <<>>]
  /\ line = [i \in NodeId |-> <<>>]
  /\ broken = {}
  /\ fifo \in {<<>>, <<1>>}
  /\ arrived = Len(fifo)
  /\ first = 1
  /\ edge = FALSE
  /\ rx = [h \in Thread |-> [pc |-> "off", frame |-> 0]]
  /\ CanRxChannel = <<>>
  /\ received = <<>>
  /\ raced = FALSE

Alive == init # "failed"

Bus == INSTANCE MessageBus WITH
  sending <- [s \in Sender |-> IF sender[s] = None THEN "nobody" ELSE sender[s].to]
-----------------------------------------------------------------------------
(* SPITransfer fails before wiringPiSPISetup, and may fail at any time.    *)
SPIFails ==
  \/ /\ init = "spi"
     /\ UNCHANGED fails
  \/ /\ fails < MaxFails
     /\ fails' = fails + 1

SPIWorks == init # "spi" /\ UNCHANGED fails

TxHigh == ~mcu.sending
RxLow == fifo # <<>>
-----------------------------------------------------------------------------
(* DriverInitialize.  An error ends the daemon.                            *)

(* setup_wiring_pi and wiringPiSPISetup; the reset is a setting.           *)
InitSPI ==
  /\ init = "spi"
  /\ init' \in {"reset", "wait", "failed"}
  /\ UNCHANGED <<fails, txVars, mcu, fifo, rxVars>>

(* A line without the message of this number.                              *)
Ended(q, no) == Bus!Without(q, CHOOSE k \in DOMAIN q : q[k].no = no)

(* What the microcontroller had stored or was sending is lost.             *)
Dropped(f) ==
  /\ broken' = IF f = None THEN broken ELSE broken \cup {f.to}
  /\ line' = IF f = None \/ f.k < f.t THEN line
             ELSE [line EXCEPT ![f.to] = Ended(@, f.no)]

InitReset ==
  /\ init = "reset"
  /\ \/ /\ SPIWorks
        /\ init' = "wait"
        /\ mcu' = [sending |-> FALSE, frame |-> None]
        /\ fifo' = <<>>
        /\ first' = arrived + 1
        /\ Dropped(IF mcu.sending THEN mcu.frame ELSE None)
     \/ /\ SPIFails
        /\ init' = "failed"
        /\ UNCHANGED <<mcu, fifo, first, broken, line>>
  /\ UNCHANGED <<sender, next, CanTxChannel, tx, pending, got, edge, arrived, rx, CanRxChannel,
                 received, raced>>

InitWait ==
  /\ init = "wait"
  /\ TxHigh
  /\ init' = "signature"
  /\ UNCHANGED <<fails, txVars, mcu, fifo, rxVars>>

(* DriverCheckSignature, then setup_interrupts: edges count from now on.   *)
InitSignature ==
  /\ init = "signature"
  /\ \/ SPIWorks /\ init' = "drain"
     \/ SPIFails /\ init' = "failed"
  /\ UNCHANGED <<txVars, mcu, fifo, rxVars>>

Enter(h) ==
  /\ rx' = [rx EXCEPT ![h].pc = "check"]
  /\ raced' = (raced \/ \E g \in Thread \ {h} : rx[g].pc # "off")

InitDrain_Unchecked ==
  /\ init = "drain"
  /\ init' = "ready"
  /\ UNCHANGED <<fails, txVars, mcu, fifo, rxVars>>

(* If the RX line is low there will be no edge for the frames that wait.   *)
InitDrain ==
  /\ init = "drain"
  /\ init' = "ready"
  /\ IF RxLow THEN Enter("main") ELSE UNCHANGED <<rx, raced>>
  /\ UNCHANGED <<fails, txVars, mcu, fifo, edge, arrived, first, CanRxChannel, received>>
-----------------------------------------------------------------------------
(* SendMessage                                                             *)

SendBegin(s, i, t) ==
  /\ Alive
  /\ sender[s] = None
  /\ next <= MaxMessages
  /\ sender' = [sender EXCEPT ![s] = [to |-> i, no |-> next, k |-> 0, t |-> t]]
  /\ line' = [line EXCEPT ![i] = Bus!Opened(s, i)]
  /\ next' = next + 1
  /\ UNCHANGED <<init, fails, CanTxChannel, tx, mcu, pending, got, broken, fifo, rxVars>>

(* DriverSendCanFrame.                                                     *)
SendFrame(s) ==
  LET m == sender[s] IN
  /\ Alive
  /\ m.k < m.t
  /\ Len(CanTxChannel) < TxSize
  /\ CanTxChannel' = Append(CanTxChannel, [m EXCEPT !.k = @ + 1])
  /\ sender' = [sender EXCEPT ![s] = IF m.k + 1 = m.t THEN None ELSE [m EXCEPT !.k = @ + 1]]
  /\ line' = IF m.k + 1 = m.t THEN [line EXCEPT ![m.to] = Bus!Closed(s, m.to)] ELSE line
  /\ UNCHANGED <<init, fails, next, tx, mcu, pending, got, broken, fifo, rxVars>>
-----------------------------------------------------------------------------
(* The goroutine started by init                                           *)

TxTake ==
  /\ Alive
  /\ tx.pc = "idle"
  /\ CanTxChannel # <<>>
  /\ tx' = [pc |-> "store", frame |-> Head(CanTxChannel)]
  /\ CanTxChannel' = Tail(CanTxChannel)
  /\ UNCHANGED <<init, fails, sender, next, mcu, pending, got, line, broken, fifo, rxVars>>

TxStore_NoWait ==
  /\ Alive
  /\ tx.pc = "store"
  /\ \/ /\ SPIWorks
        /\ mcu' = [mcu EXCEPT !.frame = tx.frame]
        /\ tx' = [tx EXCEPT !.pc = "send"]
        /\ UNCHANGED <<line, broken>>
     \/ /\ SPIFails
        /\ tx' = [pc |-> "idle"]
        /\ Dropped(tx.frame)
        /\ UNCHANGED mcu
  /\ UNCHANGED <<init, sender, next, CanTxChannel, pending, got, fifo, rxVars>>

(* driverSendCanFrame, when the TX line is high: SPI_OP_STORE_DATA...      *)
TxStore ==
  /\ Alive
  /\ tx.pc = "store"
  /\ TxHigh
  /\ \/ /\ SPIWorks
        /\ mcu' = [mcu EXCEPT !.frame = tx.frame]
        /\ tx' = [tx EXCEPT !.pc = "send"]
        /\ UNCHANGED <<line, broken>>
     \/ /\ SPIFails
        /\ tx' = [pc |-> "idle"]
        /\ Dropped(tx.frame)
        /\ UNCHANGED mcu
  /\ UNCHANGED <<init, sender, next, CanTxChannel, pending, got, fifo, rxVars>>

(* ... and SPI_OP_SEND_REQ.  After a reset in between there is nothing to  *)
(* send.  A frame that failed is not sent again.                           *)
TxSend ==
  /\ Alive
  /\ tx.pc = "send"
  /\ tx' = [pc |-> "idle"]
  /\ \/ /\ SPIWorks
        /\ mcu.frame # None
        /\ mcu' = [mcu EXCEPT !.sending = TRUE]
        /\ UNCHANGED <<line, broken>>
     \/ /\ SPIFails \/ (SPIWorks /\ mcu.frame = None)
        /\ Dropped(tx.frame)
        /\ UNCHANGED mcu
  /\ UNCHANGED <<init, sender, next, CanTxChannel, pending, got, fifo, rxVars>>
-----------------------------------------------------------------------------
(* The bus, outgoing                                                       *)

(* The message that frame f completes, if any: its number, or Damaged.     *)
Assembled(f) == IF f.k = 1 THEN <<f>> ELSE Append(pending[f.to], f)
Refused(f) == (f.k = 1) # (pending[f.to] = <<>>)
Whole(q) == \A k \in DOMAIN q : q[k].no = q[1].no /\ q[k].k = k

McuTransmit ==
  LET f == mcu.frame IN
  /\ mcu.sending
  /\ mcu' = [sending |-> FALSE, frame |-> None]
  /\ pending' = [pending EXCEPT ![f.to] =
       IF Refused(f) THEN @ ELSE IF f.k = f.t THEN <<>> ELSE Assembled(f)]
  /\ got' = IF Refused(f) \/ f.k < f.t THEN got
            ELSE [got EXCEPT ![f.to] = Append(@, IF Whole(Assembled(f)) THEN f.no ELSE Bus!Damaged)]
  /\ line' = IF f.k < f.t THEN line
             ELSE [line EXCEPT ![f.to] = Ended(@, f.no)]
  /\ UNCHANGED <<init, fails, sender, next, CanTxChannel, tx, broken, fifo, rxVars>>
-----------------------------------------------------------------------------
(* The bus, incoming                                                       *)

McuReceive ==
  /\ arrived < MaxReceived
  /\ arrived' = arrived + 1
  /\ fifo' = Append(fifo, arrived + 1)
  /\ edge' = (edge \/ (~RxLow /\ init \in Started))
  /\ UNCHANGED <<init, fails, txVars, mcu, first, rx, CanRxChannel, received, raced>>

(* The interrupt thread of wiringPi; an edge while it is busy is kept.     *)
Interrupt ==
  /\ Alive
  /\ edge
  /\ rx["isr"].pc = "off"
  /\ edge' = FALSE
  /\ Enter("isr")
  /\ UNCHANGED <<init, fails, txVars, mcu, fifo, arrived, first, CanRxChannel, received>>

RxGoto(h, pc, f) == rx' = [rx EXCEPT ![h] = [pc |-> pc, frame |-> f]]

(* CanRxInterrupt: for digitalReadRx() == 0                                *)
RxCheck(h) ==
  /\ Alive
  /\ rx[h].pc = "check"
  /\ RxGoto(h, IF RxLow THEN "fetch" ELSE "off", 0)
  /\ UNCHANGED <<init, fails, txVars, mcu, fifo, edge, arrived, first, CanRxChannel, received, raced>>

(* DriverRecvCanFrame: SPI_OP_FETCH_DATA.  Without a frame the length is   *)
(* not 13; an error ends the loop.                                         *)
RxFetch(h) ==
  /\ Alive
  /\ rx[h].pc = "fetch"
  /\ \/ SPIWorks /\ IF RxLow THEN RxGoto(h, "ack", Head(fifo)) ELSE RxGoto(h, "off", 0)
     \/ SPIFails /\ RxGoto(h, "off", 0)
  /\ UNCHANGED <<init, txVars, mcu, fifo, edge, arrived, first, CanRxChannel, received, raced>>

RxAck_Missing(h) ==
  /\ Alive
  /\ rx[h].pc = "ack"
  /\ RxGoto(h, "put", rx[h].frame)
  /\ UNCHANGED <<init, fails, txVars, mcu, fifo, edge, arrived, first, CanRxChannel, received, raced>>

(* DriverRecvAck.  The microcontroller forgets the frame, which is dropped *)
(* if there is an error.                                                   *)
RxAck(h) ==
  /\ Alive
  /\ rx[h].pc = "ack"
  /\ \/ /\ SPIWorks
        /\ RxGoto(h, "put", rx[h].frame)
        /\ fifo' = IF RxLow THEN Tail(fifo) ELSE fifo
     \/ /\ SPIFails \/ (SPIWorks /\ ~RxLow)
        /\ RxGoto(h, "off", 0)
        /\ UNCHANGED fifo
  /\ UNCHANGED <<init, txVars, mcu, edge, arrived, first, CanRxChannel, received, raced>>

RxPut(h) ==
  /\ Alive
  /\ rx[h].pc = "put"
  /\ Len(CanRxChannel) < RxSize
  /\ CanRxChannel' = Append(CanRxChannel, rx[h].frame)
  /\ received' = Append(received, rx[h].frame)
  /\ RxGoto(h, "check", 0)
  /\ UNCHANGED <<init, fails, txVars, mcu, fifo, edge, arrived, first, raced>>

(* Serve takes a frame, see NetworkController.  It runs when               *)
(* DriverInitialize has returned.                                          *)
ServeTake ==
  /\ init = "ready"
  /\ rx["main"].pc = "off"
  /\ CanRxChannel # <<>>
  /\ CanRxChannel' = Tail(CanRxChannel)
  /\ UNCHANGED <<init, fails, txVars, mcu, fifo, edge, arrived, first, rx, received, raced>>
-----------------------------------------------------------------------------
Initialize ==
  InitSPI \/ InitReset \/ InitWait \/ InitSignature \/ InitDrain
Tx == TxTake \/ TxStore \/ TxSend
Rx(h) == RxCheck(h) \/ RxFetch(h) \/ RxAck(h) \/ RxPut(h)

Next ==
  \/ Initialize
  \/ \E s \in Sender : SendFrame(s) \/ \E i \in NodeId, t \in 1..MaxFrames : SendBegin(s, i, t)
  \/ Tx
  \/ McuTransmit \/ McuReceive
  \/ Interrupt
  \/ \E h \in Thread : Rx(h)
  \/ ServeTake

Spec == Init /\ [][Next]_vars
-----------------------------------------------------------------------------
(* The messages arrive as MessageBus says: SendMessage, CanTxChannel and   *)
(* the driver keep the frames of a message in order and together, except   *)
(* where two goroutines send to one node id at the same time or SPI fails. *)
DeliversMessages == Bus!Spec

InHand == IF rx["main"].pc = "put" THEN <<rx["main"].frame>>
          ELSE IF rx["isr"].pc = "put" THEN <<rx["isr"].frame>> ELSE <<>>

(* The frames that reach CanRxChannel are those that came from the bus     *)
(* since the reset, in order, none of them twice and none missing, unless  *)
(* a transfer failed or the interrupt found DriverInitialize in            *)
(* CanRxInterrupt, or the other way round.                                 *)
RxExact ==
  \/ raced \/ fails > 0
  \/ LET all == received \o InHand \o fifo IN
       all = [k \in 1..(arrived - first + 1) |-> first + k - 1]

(* The wake-up of the receiver is never lost: if a frame waits when the    *)
(* driver is ready, somebody is fetching frames or an edge is pending.     *)
(* After an error there may be neither, and nothing is received any more.  *)
NoLostEdge ==
  init = "ready" /\ fifo # <<>> /\ fails = 0 => edge \/ \E h \in Thread : rx[h].pc # "off"
=============================================================================
