----------------------------- MODULE CanFraming ------------------------------
(***************************************************************************)
(* Messages on the CAN bus: identifiers (models/nocan/message.go), how     *)
(* SendMessage cuts a message into frames, the thirteen bytes of a frame   *)
(* on the SPI link (models/can/can.go), and how Serve puts messages        *)
(* together again (controllers/network_controller.go).                     *)
(*                                                                         *)
(* A CanId of 32 bits is a pair of halves.  In the upper half bit 15 marks *)
(* extended frames, bit 12 the first frame of a message, bits 5 to 11 are  *)
(* the node, bit 4 marks the last frame and bit 2 system messages.         *)
(***************************************************************************)
EXTENDS Naturals, Sequences, SequencesExt, Bytes, Bitwise

CANID_MASK_EXTENDED == 2^15
NOCANID_MASK_FIRST == 2^12
NOCANID_MASK_LAST == 2^4
NOCANID_MASK_SYSTEM == 2^2

Has(id, mask) == (id.hi & mask) # 0
Set(id, mask) == [id EXCEPT !.hi = @ | mask]

(* NewMessage: no more than 64 bytes.                                      *)
NewMessage(id, data) == [CanId |-> id, Data |-> UpTo(data, 64)]

NewPublishMessage(node, channel, data) == NewMessage([hi |-> node * 32, lo |-> channel], data)

NewSystemMessage(node, fn, param, data) ==
  NewMessage(Set([hi |-> node * 32, lo |-> fn * 256 + param], NOCANID_MASK_SYSTEM), data)

IsSystemMessage(m) == Has(m.CanId, NOCANID_MASK_SYSTEM)
NodeId(m) == (m.CanId.hi \div 32) & 127
ChannelId(m) == m.CanId.lo
SystemFunctionParam(m) == <<m.CanId.lo \div 256, m.CanId.lo % 256>>

(* AppendData: nothing is added past 64 bytes.                             *)
AppendData(m, data) == IF Size(m.Data) + Size(data) > 64 THEN m ELSE [m EXCEPT !.Data = Cat(@, data)]
-----------------------------------------------------------------------------
IsLast_Full(left) == left < 8

(* The length of a frame with so many bytes left, and whether it is the    *)
(* last one.                                                               *)
FrameLength(left) == IF left > 8 THEN 8 ELSE left
IsLast(left) == left <= 8

(* SendMessage from position pos on: one frame variable, whose bytes past  *)
(* Dlc are those of the frame before.                                      *)
RECURSIVE FramesFrom(_, _, _)
FramesFrom(m, pos, before) ==
  LET left == Size(m.Data) - pos
      dlc == FrameLength(left)
      first == IF pos = 0 THEN Set(m.CanId, NOCANID_MASK_FIRST) ELSE m.CanId
      id == IF IsLast(left) THEN Set(first, NOCANID_MASK_LAST) ELSE first
      data == Cat(Slice(m.Data, pos, pos + dlc), From(before, dlc))
      frame == [CanId |-> Set(id, CANID_MASK_EXTENDED), Dlc |-> dlc, Data |-> data]
  IN
  IF pos + dlc >= Size(m.Data) THEN <<frame>>
  ELSE <<frame>> \o FramesFrom(m, pos + dlc, data)

SendMessage(m) == FramesFrom(m, 0, Run(0, 8))

EncodeFrame(f) == Join(<<Uint16(f.CanId.hi), Uint16(f.CanId.lo), Byte(f.Dlc), f.Data>>)

DecodeFrame(b) ==
  [CanId |-> [hi |-> DecodeUint16(b), lo |-> DecodeUint16(From(b, 2))],
   Dlc |-> At(b, 4), Data |-> Slice(b, 5, 13)]
-----------------------------------------------------------------------------
(* What a listener keeps of one node: the message it is putting together,  *)
(* if any, and the messages it has put together.                           *)
Silence == [pending |-> <<>>, messages |-> <<>>]

(* Serve: one frame.                                                       *)
Assemble(at, f) ==
  LET data == UpTo(f.Data, f.Dlc)
      first == Has(f.CanId, NOCANID_MASK_FIRST)
      m == IF first THEN NewMessage(f.CanId, data) ELSE AppendData(Head(at.pending), data)
  IN
  CASE ~Has(f.CanId, CANID_MASK_EXTENDED) \/ f.Dlc > 8 -> at
    [] first # (at.pending = <<>>) -> at
    [] OTHER -> IF Has(f.CanId, NOCANID_MASK_LAST)
                THEN [pending |-> <<>>, messages |-> Append(at.messages, m)]
                ELSE [at EXCEPT !.pending = <<m>>]

(* The frames of a message as they come out of the SPI link.               *)
Transmit(at, m) ==
  FoldLeft(LAMBDA acc, f : Assemble(acc, DecodeFrame(EncodeFrame(f))), at, SendMessage(m))
=============================================================================
