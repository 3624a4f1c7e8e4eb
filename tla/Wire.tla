-------------------------------- MODULE Wire ---------------------------------
(***************************************************************************)
(* From a client to the bus: one end of a connection writes events, the    *)
(* other one reads them (EncodeEvent and DecodeEvent, socket/event.go),    *)
(* and the handlers of channel updates, reboot requests and firmware       *)
(* uploads (controllers/event_server.go) send messages to the nodes.  The  *)
(* connection may break anywhere, in the middle of an event too.           *)
(***************************************************************************)
EXTENDS Naturals, Sequences, Events, CanFraming

CONSTANTS
  Sample,     (* the events one of which is written first                   *)
  Follow,     (* the events that are written after it                       *)
  FirstMsgId, (* the number of the first one                                *)
  MaxSent,    (* bound on the events written                                *)
  MaxKept     (* bound on the bytes that are left when a connection breaks  *)

ASSUME WireAssumption ==
  /\ \A e \in Sample \cup Follow : DOMAIN e = {"id", "msgId", "body"}
  /\ {FirstMsgId, MaxSent, MaxKept} \subseteq Nat /\ FirstMsgId + MaxSent < 2^16

VARIABLES
  sent,       (* the events written so far                                  *)
  stream,     (* the bytes written and not read yet                         *)
  got,        (* the events read                                            *)
  reading,    (* the reader is in its loop                                  *)
  broken,     (* the connection is broken                                   *)
  panic,      (* the reader has used a slice out of its bounds              *)
  bus         (* what a listener on the bus has put together                *)

vars == <<sent, stream, got, reading, broken, panic, bus>>

Init ==
  /\ sent = <<>>
  /\ stream = <<>>
  /\ got = <<>>
  /\ reading = TRUE
  /\ broken = FALSE
  /\ panic = FALSE
  /\ bus = Silence
-----------------------------------------------------------------------------
Short_TwoMore(size) == size <= 130

(* One byte up to 0x80; else the number of bytes that follow, plus 0x80.   *)
Short(size) == size <= 128

packLength(size) ==
  IF Short(size) THEN Byte(size)
  ELSE CASE size < 2^8 -> Cat(Byte(129), Byte(size))
         [] size >= 2^8 /\ size < 2^16 -> Cat(Byte(130), Uint16(size))
         [] size >= 2^16 /\ size < 2^24 -> Join(<<Byte(131), Byte(size \div 2^16), Uint16(size)>>)
         [] OTHER -> Cat(Byte(132), Uint32(size))

EncodeEvent(e) ==
  LET pv == Pack(e) IN Join(<<Uint16(e.msgId), Byte(e.id), packLength(Size(pv)), pv>>)

(* The number of length bytes after the first one; 5 stands for a value    *)
(* that is an error.                                                       *)
LengthBytes(b) == IF b <= 128 THEN 0 ELSE IF b % 16 \in 1..4 THEN b % 16 ELSE 5

Length(b, n) ==
  CASE n = 1 -> At(b, 0)
    [] n = 2 -> DecodeUint16(b)
    [] n = 3 -> At(b, 0) * 2^16 + DecodeUint16(From(b, 1))
    [] n = 4 -> DecodeUint32(b)

Rest_Early(s, n, size) == From(s, 4 + size)

(* What is left after an event.                                            *)
Rest(s, n, size) == From(s, 4 + n + size)

(* The event that Unpack has made of a payload; "error" where an id is     *)
(* unknown or Unpack gives up, "panic" when it slices out of bounds.       *)
Decoded(id, msgId, result, rest) ==
  IF \A name \in DOMAIN EventId : EventId[name] # id THEN [is |-> "error"]
  ELSE IF ~result.ok THEN [is |-> IF result.panic THEN "panic" ELSE "error"]
  ELSE [is |-> "event", rest |-> rest, event |-> [id |-> id, msgId |-> msgId, body |-> result.body]]

(* "short" where ReadFull asks for more bytes than there are.              *)
DecodeEvent(s) ==
  LET n == LengthBytes(At(s, 3))
      size == IF n = 0 THEN At(s, 3) ELSE Length(From(s, 4), n)
      start == 4 + n
      id == At(s, 2)
  IN
  CASE Size(s) < 4 -> [is |-> "short"]
    [] Size(s) >= 4 /\ n = 5 -> [is |-> "error"]
    [] Size(s) >= 4 /\ n # 5 ->
         IF Size(s) < start \/ Size(s) < start + size THEN [is |-> "short"]
         ELSE Decoded(id, DecodeUint16(s), Unpack(id, Slice(s, start, start + size)), Rest(s, n, size))
-----------------------------------------------------------------------------
SYS_NODE_BOOT_REQUEST == 6

Is(e, name) == e.id = EventId[name]

(* What the handlers send to the bus: the value of a channel that exists,  *)
(* from node 0, or a request to a node that exists to start its            *)
(* bootloader.  Firmware for the area of the bootloader is refused.        *)
Messages(e) ==
  CASE Is(e, "ChannelUpdate") /\ e.body.Status = CHANNEL_UPDATED ->
         <<NewPublishMessage(0, e.body.ChannelId, e.body.Value)>>
    [] Is(e, "NodeRebootRequest") ->
         <<NewSystemMessage(RebootNodeId(e.body), SYS_NODE_BOOT_REQUEST, 1, <<>>)>>
    [] Is(e, "NodeFirmware") /\ \A i \in DOMAIN e.body.Code : e.body.Code[i].Offset >= 8192 ->
         <<NewSystemMessage(e.body.NodeId, SYS_NODE_BOOT_REQUEST, 1, <<>>)>>
    [] OTHER -> <<>>

Send(e) ==
  /\ ~broken
  /\ Len(sent) < MaxSent
  /\ LET numbered == [e EXCEPT !.msgId = FirstMsgId + Len(sent)] IN
     /\ sent' = Append(sent, numbered)
     /\ stream' = Cat(stream, EncodeEvent(numbered))
  /\ UNCHANGED <<got, reading, broken, panic, bus>>

(* The reader's loop: an error ends it, a panic the program.               *)
Receive ==
  LET result == DecodeEvent(stream) IN
  /\ reading
  /\ result.is = "short" => broken
  /\ IF result.is = "event"
     THEN /\ got' = Append(got, result.event)
          /\ stream' = result.rest
          /\ bus' = FoldLeft(Transmit, bus, Messages(result.event))
          /\ UNCHANGED <<reading, panic>>
     ELSE reading' = FALSE /\ panic' = (result.is = "panic") /\ UNCHANGED <<got, stream, bus>>
  /\ UNCHANGED <<sent, broken>>

(* The connection breaks; only the first bytes still arrive.               *)
Break(kept) ==
  /\ ~broken
  /\ kept <= Size(stream)
  /\ broken' = TRUE
  /\ stream' = UpTo(stream, kept)
  /\ UNCHANGED <<sent, got, reading, panic, bus>>

Next ==
  \/ \E e \in IF sent = <<>> THEN Sample ELSE Follow : Send(e)
  \/ Receive
  \/ \E kept \in 0..MaxKept : Break(kept)

Spec == Init /\ [][Next]_vars
-----------------------------------------------------------------------------
(* Reader and writer agree on where events begin, whatever their length,   *)
(* and even if their content is not understood: what is left in the stream *)
(* is the events that were not read yet.                                   *)
InSync ==
  reading /\ ~broken =>
    stream = Join([i \in 1..Len(sent) - Len(got) |-> EncodeEvent(sent[Len(got) + i])])

(* What the reader makes of an event: the same event, but for the versions *)
(* in hello events, which are the two bytes from the last one of the name  *)
(* on, and for names and values of 256 bytes and more, of which as many    *)
(* bytes are left as their length modulo 256 says.                         *)
Cut(s) == UpTo(s, Size(s) % 256)
Early(e) == From(PackHello(e.body), Size(e.body.Tool) % 256)

Undone(e, r) ==
  /\ r.id = e.id /\ r.msgId = e.msgId
  /\ CASE Is(e, "ClientHello") \/ Is(e, "ServerHello") ->
            r.body = NewHello(Cut(e.body.Tool), At(Early(e), 0), At(Early(e), 1))
       [] Is(e, "ChannelUpdateRequest") -> r.body = [e.body EXCEPT !.ChannelName = Cut(@)]
       [] Is(e, "ChannelUpdate") /\ Size(e.body.ChannelName) < 256 /\ Size(e.body.Value) >= 256 ->
            r.body = [e.body EXCEPT !.Value = Cut(@), !.UpdatedAt = r.body.UpdatedAt]
       [] Is(e, "ChannelUpdate") /\ Size(e.body.ChannelName) >= 256 ->
            r.body.ChannelName = Cut(e.body.ChannelName)
       [] OTHER -> r.body = e.body

(* Events come out as they were written, in order, none twice; one that is *)
(* cut off when the connection breaks is never taken for an event.         *)
Faithful == \A i \in DOMAIN got : Undone(sent[i], got[i])

(* A name that is too long to be accepted.                                 *)
LongName(e) ==
  /\ Is(e, "ChannelUpdate") \/ Is(e, "ChannelUpdateRequest")
  /\ Size(e.body.ChannelName) % 256 > 64

(* A name of a tool whose end, as a byte, is before its beginning.         *)
EndlessName(e) ==
  /\ Is(e, "ClientHello") \/ Is(e, "ServerHello")
  /\ Size(e.body.Tool) % 256 = 255

(* The reader only gives up a connection that is not broken because of the *)
(* name of a channel of more than 64 bytes, and only a hello event whose   *)
(* name has 255 bytes, modulo 256, makes it end the program.               *)
RefusedForName ==
  ~reading => LET next == sent[Len(got) + 1] IN
              IF panic THEN EndlessName(next) ELSE broken \/ LongName(next)

Target(e) == IF Is(e, "NodeRebootRequest") THEN RebootNodeId(e.body) ELSE e.body.NodeId

Heard(m, e) ==
  IF Is(e, "ChannelUpdate")
  THEN /\ ~IsSystemMessage(m) /\ NodeId(m) = 0 /\ ChannelId(m) = e.body.ChannelId
       /\ m.Data = UpTo(e.body.Value, 64)
  ELSE /\ IsSystemMessage(m) /\ NodeId(m) = Target(e)
       /\ SystemFunctionParam(m) = <<SYS_NODE_BOOT_REQUEST, 1>>
       /\ m.Data = <<>>

(* Nodes hear what clients asked for, message for message, through frames  *)
(* of eight bytes: on the channel its value, of which no more than 64      *)
(* bytes are ever sent; at the node the boot request.                      *)
BusExact ==
  LET asked == SelectSeq(got, LAMBDA e : Messages(e) # <<>>) IN
  /\ bus.pending = <<>>
  /\ Len(bus.messages) = Len(asked)
  /\ \A i \in DOMAIN asked : Heard(bus.messages[i], asked[i])
=============================================================================
