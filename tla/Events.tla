------------------------------- MODULE Events --------------------------------
(***************************************************************************)
(* The events of the socket protocol and their encoding                    *)
(* (socket/event_types.go): for each type the constructor, Pack and        *)
(* Unpack.  An event is a record of its id, its message number and its     *)
(* body, a record of the fields.  Strings, times (eight bytes of           *)
(* nanoseconds), floats and identifiers of hardware are slices of bytes.   *)
(***************************************************************************)
EXTENDS Naturals, Sequences, SequencesExt, Bytes

EventId ==
  [ClientHello |-> 1, ServerHello |-> 2, ChannelFilter |-> 3, ServerAck |-> 4,
   BusPowerStatusUpdate |-> 6, BusPower |-> 7, ChannelUpdateRequest |-> 8, ChannelUpdate |-> 9,
   ChannelListRequest |-> 10, ChannelList |-> 11, NodeUpdateRequest |-> 12, NodeUpdate |-> 13,
   NodeListRequest |-> 14, NodeList |-> 15, NodeFirmware |-> 16, NodeFirmwareDownloadRequest |-> 17,
   NodeFirmwareProgress |-> 19, NodeRebootRequest |-> 20, BusPowerStatusUpdateRequest |-> 21,
   DeviceInformationRequest |-> 22, DeviceInformation |-> 23, SystemPropertiesRequest |-> 24,
   SystemProperties |-> 25]

(* CreateEvent                                                             *)
Event(name, body) == [id |-> EventId[name], msgId |-> 0, body |-> body]

(* Results of Unpack: the body, an error, or a slice out of its bounds.    *)
Unpacked(body) == [ok |-> TRUE, body |-> body]
Missing == [ok |-> FALSE, panic |-> FALSE]
OutOfBounds == [ok |-> FALSE, panic |-> TRUE]

(* The requests without parameters.                                        *)
Empty == [empty |-> TRUE]
EmptyEvents == {"ChannelListRequest", "NodeListRequest", "BusPowerStatusUpdateRequest",
                "DeviceInformationRequest", "SystemPropertiesRequest"}
-----------------------------------------------------------------------------
(* ClientHello and ServerHello                                             *)
NewHello(tool, major, minor) == [Tool |-> tool, VersionMajor |-> major, VersionMinor |-> minor]

PackHello(x) == Join(<<Byte(Size(x.Tool)), x.Tool, Byte(x.VersionMajor), Byte(x.VersionMinor)>>)

(* The sums are of bytes, so that a name of 255 bytes would end before it  *)
(* begins; the versions are read one byte too early.                       *)
UnpackHello(b) ==
  LET n == At(b, 0)
      end == (n + 1) % 256
  IN
  IF (n + 2) % 256 > Size(b) THEN Missing
  ELSE IF end < 1 \/ end >= Size(b) THEN OutOfBounds
  ELSE Unpacked(NewHello(Slice(b, 1, end), At(b, n), At(b, end)))
-----------------------------------------------------------------------------
(* ChannelFilter: the order in which a map is read does not matter to the  *)
(* set that is read back.                                                  *)
NewChannelFilter(chans) == [Channels |-> chans]

PackChannelFilter(x) == Join([i \in 1..Len(SetToSeq(x.Channels)) |-> Uint16(SetToSeq(x.Channels)[i])])

UnpackChannelFilter(b) ==
  Unpacked(NewChannelFilter({DecodeUint16(From(b, 2 * i)) : i \in 0..(Size(b) \div 2) - 1}))
-----------------------------------------------------------------------------
NewServerAck(code) == [Code |-> code]
PackServerAck(x) == Byte(x.Code)
UnpackServerAck(b) == IF Size(b) < 1 THEN Missing ELSE Unpacked(NewServerAck(At(b, 0)))
-----------------------------------------------------------------------------
NewChannelUpdateRequest(name, id) == [ChannelId |-> id, ChannelName |-> name]

PackChannelUpdateRequest(x) == Join(<<Uint16(x.ChannelId), Byte(Size(x.ChannelName)), x.ChannelName>>)

UnpackChannelUpdateRequest(b) ==
  IF Size(b) < 3 THEN Missing
  ELSE LET n == At(b, 2) IN
       IF n > 64 \/ n > Size(b) - 3 THEN Missing
       ELSE Unpacked(NewChannelUpdateRequest(Slice(b, 3, 3 + n), DecodeUint16(b)))
-----------------------------------------------------------------------------
CHANNEL_CREATED == 0
CHANNEL_UPDATED == 1
CHANNEL_DESTROYED == 2
CHANNEL_NOT_FOUND == 3

NewChannelUpdate(name, id, status, value, at) ==
  [ChannelName |-> name, ChannelId |-> id, Status |-> status, Value |-> value, UpdatedAt |-> at]

PackedLength(x) == Size(x.ChannelName) + Size(x.Value) + 13

PackChannelUpdate(x) ==
  Join(<<Byte(x.Status), Uint16(x.ChannelId), Byte(Size(x.ChannelName)), x.ChannelName,
         Byte(Size(x.Value)), x.Value, x.UpdatedAt>>)

(* The lengths are read from one byte each.                                *)
UnpackChannelUpdate(b) ==
  IF Size(b) < 3 THEN Missing
  ELSE LET n == At(b, 3)
           tail == From(b, 4 + n)
           v == At(tail, 0)
       IN
       IF n > 64 \/ n > Size(b) - 4 \/ v > Size(tail) - 1 \/ Size(tail) - 1 - v < 8 THEN Missing
       ELSE Unpacked(NewChannelUpdate(Slice(b, 4, 4 + n), DecodeUint16(From(b, 1)), At(b, 0),
                                      Slice(tail, 1, 1 + v), Slice(tail, 1 + v, 9 + v)))
-----------------------------------------------------------------------------
NewNodeUpdateRequest(node) == [NodeId |-> node]
PackNodeUpdateRequest(x) == Byte(x.NodeId)
UnpackNodeUpdateRequest(b) == IF Size(b) < 1 THEN Missing ELSE Unpacked(NewNodeUpdateRequest(At(b, 0)))

NewNodeUpdate(node, state, udid, seen) ==
  [NodeId |-> node, State |-> state, Udid |-> udid, LastSeen |-> seen]

PackNodeUpdate(x) == Join(<<Byte(x.NodeId), Byte(x.State), x.Udid, x.LastSeen>>)

UnpackNodeUpdate(b) ==
  IF Size(b) < 18 THEN Missing
  ELSE Unpacked(NewNodeUpdate(At(b, 0), At(b, 1), Slice(b, 2, 10), Slice(b, 10, 18)))

-----------------------------------------------------------------------------
(* Firmware: blocks of code with their offsets.                            *)
NewFirmwareBlock(offset, data) == [Offset |-> offset, Data |-> data]
NewNodeFirmware(node, download, limit, code) ==
  [NodeId |-> node, Download |-> download, Limit |-> limit, Code |-> code]

PackFirmwareBlock(block) == Join(<<Uint32(block.Offset), Uint32(Size(block.Data)), block.Data>>)

UnpackFirmwareBlock(b) ==
  IF Size(b) < 8 \/ Size(b) - 8 < DecodeUint32(From(b, 4)) THEN Missing
  ELSE Unpacked(NewFirmwareBlock(DecodeUint32(b), Slice(b, 8, 8 + DecodeUint32(From(b, 4)))))

NewNodeFirmwareDownloadRequest(node) == [NodeId |-> node]
PackNodeFirmwareDownloadRequest(x) == Byte(x.NodeId)
UnpackNodeFirmwareDownloadRequest(b) ==
  IF Size(b) = 0 THEN Missing ELSE Unpacked(NewNodeFirmwareDownloadRequest(At(b, 0)))

NewNodeFirmwareProgress(node, progress, bytes) ==
  [NodeId |-> node, Progress |-> progress, BytesTransferred |-> bytes]
PackNodeFirmwareProgress(x) == Join(<<Byte(x.NodeId), Byte(x.Progress), Uint32(x.BytesTransferred)>>)
UnpackNodeFirmwareProgress(b) ==
  IF Size(b) < 6 THEN Missing
  ELSE Unpacked(NewNodeFirmwareProgress(At(b, 0), At(b, 1), DecodeUint32(From(b, 2))))
-----------------------------------------------------------------------------
(* A reboot request: the node and the force flag in one byte.              *)
NewNodeRebootRequest(node, force) == [RebootId |-> IF force THEN node + 128 ELSE node]
RebootNodeId(x) == x.RebootId % 128
Forced(x) == x.RebootId \div 128 = 1
PackNodeRebootRequest(x) == Byte(x.RebootId)
UnpackNodeRebootRequest(b) == IF Size(b) # 1 THEN Missing ELSE Unpacked([RebootId |-> At(b, 0)])

NewBusPower(on) == [PowerOn |-> on]
PackBusPower(x) == Byte(IF x.PowerOn THEN 1 ELSE 0)
UnpackBusPower(b) == IF Size(b) # 1 THEN Missing ELSE Unpacked(NewBusPower(At(b, 0) = 1))

(* binary.Write and binary.Read of the struct: 1, 4, 2 and 4 bytes.        *)
NewBusPowerStatusUpdate(status, voltage, current, reference) ==
  [Status |-> status, Voltage |-> voltage, CurrentSense |-> current, RefLevel |-> reference]
PackBusPowerStatusUpdate(x) == Join(<<Byte(x.Status), x.Voltage, Uint16(x.CurrentSense), x.RefLevel>>)
UnpackBusPowerStatusUpdate(b) ==
  IF Size(b) < 11 THEN Missing
  ELSE Unpacked(NewBusPowerStatusUpdate(At(b, 0), Slice(b, 1, 5), DecodeUint16(From(b, 5)), Slice(b, 7, 11)))

NewDeviceInformation(type, signature, major, minor, chip) ==
  [Type |-> type, Signature |-> signature, VersionMajor |-> major, VersionMinor |-> minor, ChipId |-> chip]
PackDeviceInformation(x) ==
  Join(<<x.Type, x.Signature, Byte(x.VersionMajor), Byte(x.VersionMinor), x.ChipId>>)
UnpackDeviceInformation(b) ==
  IF Size(b) < 26 THEN Missing
  ELSE Unpacked(NewDeviceInformation(Slice(b, 0, 8), Slice(b, 8, 12), At(b, 12), At(b, 13), Slice(b, 14, 26)))
-----------------------------------------------------------------------------
(* Properties: the value of each as the bytes of its type.  A string has   *)
(* its length before it.                                                   *)
PROP_TYPE_NULL == 0
PROP_TYPE_BOOL == 1
PROP_TYPE_STRING == 2
PROP_TYPE_INT32 == 3
PROP_TYPE_UINT32 == 4

NewProperty(type, value) == [Type |-> type, Value |-> value]
EmptyMap == [k \in {} |-> NewProperty(PROP_TYPE_NULL, <<>>)]

(* Add: no keys of more than 127 bytes.                                    *)
AddProperty(map, p) == IF Size(p.Key) > 127 THEN map ELSE (p.Key :> NewProperty(p.Type, p.Value)) @@ map

PackProperty(key, p) ==
  Join(<<Byte(Size(key)), key, Byte(p.Type),
         IF p.Type = PROP_TYPE_STRING THEN Byte(Size(p.Value)) ELSE <<>>, p.Value>>)

PropertyLength(p) == 2 + Size(p.Key) + (IF p.Type = PROP_TYPE_STRING THEN 1 ELSE 0) + Size(p.Value)

(* A property without a value is packed, but is an error here; so is an    *)
(* empty string at the end, where Read of no bytes returns io.EOF.         *)
UnpackProperty(b) ==
  LET k == At(b, 0)
      type == At(b, 1 + k)
      rest == From(b, 2 + k)
      n == IF type = PROP_TYPE_BOOL THEN 1 ELSE 4
      is(value) == Unpacked([Key |-> Slice(b, 1, 1 + k), Type |-> type, Value |-> value])
  IN
  IF Size(b) < 2 + k THEN Missing
  ELSE IF type \in {PROP_TYPE_BOOL, PROP_TYPE_INT32, PROP_TYPE_UINT32} THEN is(UpTo(rest, n))
  ELSE IF type = PROP_TYPE_STRING /\ Size(rest) > 1 THEN is(Slice(rest, 1, 1 + At(rest, 0)))
  ELSE Missing
-----------------------------------------------------------------------------
(* Events with entries one after the other: the entry at the head of a     *)
(* slice, and the length by which Unpack goes on, that of the entry it has *)
(* read.                                                                   *)
UnpackOne(kind, b) ==
  CASE kind = "channel" -> UnpackChannelUpdate(b)
    [] kind = "node" -> UnpackNodeUpdate(b)
    [] kind = "block" -> UnpackFirmwareBlock(b)
    [] kind = "property" -> UnpackProperty(b)

LengthOf(kind, x) ==
  CASE kind = "channel" -> PackedLength(x)
    [] kind = "node" -> 18
    [] kind = "block" -> 8 + Size(x.Data)
    [] kind = "property" -> PropertyLength(x)

NewList(entries) == [Entries |-> entries]

RECURSIVE UnpackEntries(_, _, _)
UnpackEntries(kind, b, entries) ==
  IF Size(b) = 0 THEN Unpacked(NewList(entries))
  ELSE LET one == UnpackOne(kind, b) IN
       IF ~one.ok THEN Missing
       ELSE UnpackEntries(kind, From(b, LengthOf(kind, one.body)), Append(entries, one.body))

PackChannelList(x) == Join([i \in DOMAIN x.Entries |-> PackChannelUpdate(x.Entries[i])])
UnpackChannelList(b) == UnpackEntries("channel", b, <<>>)

PackNodeList(x) == Join([i \in DOMAIN x.Entries |-> PackNodeUpdate(x.Entries[i])])
UnpackNodeList(b) == UnpackEntries("node", b, <<>>)

PackNodeFirmware(x) ==
  Join(<<Byte(x.NodeId), Byte(IF x.Download THEN 1 ELSE 0), Uint32(x.Limit)>> \o
       [i \in DOMAIN x.Code |-> PackFirmwareBlock(x.Code[i])])

UnpackNodeFirmware(b) ==
  IF Size(b) < 2 THEN Missing
  ELSE LET code == UnpackEntries("block", From(b, 6), <<>>) IN
       IF ~code.ok THEN Missing
       ELSE Unpacked(NewNodeFirmware(At(b, 0), At(b, 1) # 0, DecodeUint32(From(b, 2)), code.body.Entries))

NewSystemProperties(map) == [Map |-> map]

PackSystemProperties(x) ==
  Join([i \in DOMAIN SetToSeq(DOMAIN x.Map) |->
          LET key == SetToSeq(DOMAIN x.Map)[i] IN PackProperty(key, x.Map[key])])

UnpackSystemProperties(b) ==
  LET list == UnpackEntries("property", b, <<>>) IN
  IF ~list.ok THEN Missing
  ELSE Unpacked(NewSystemProperties(FoldLeft(AddProperty, EmptyMap, list.body.Entries)))
-----------------------------------------------------------------------------
(* The methods of each type of event.                                      *)
Pack(e) ==
  LET x == e.body
      is(name) == e.id = EventId[name]
  IN
  CASE is("ClientHello") \/ is("ServerHello") -> PackHello(x)
    [] is("ChannelFilter") -> PackChannelFilter(x)
    [] is("ServerAck") -> PackServerAck(x)
    [] is("BusPowerStatusUpdate") -> PackBusPowerStatusUpdate(x)
    [] is("BusPower") -> PackBusPower(x)
    [] is("ChannelUpdateRequest") -> PackChannelUpdateRequest(x)
    [] is("ChannelUpdate") -> PackChannelUpdate(x)
    [] is("ChannelList") -> PackChannelList(x)
    [] is("NodeUpdateRequest") -> PackNodeUpdateRequest(x)
    [] is("NodeUpdate") -> PackNodeUpdate(x)
    [] is("NodeList") -> PackNodeList(x)
    [] is("NodeFirmware") -> PackNodeFirmware(x)
    [] is("NodeFirmwareDownloadRequest") -> PackNodeFirmwareDownloadRequest(x)
    [] is("NodeFirmwareProgress") -> PackNodeFirmwareProgress(x)
    [] is("NodeRebootRequest") -> PackNodeRebootRequest(x)
    [] is("DeviceInformation") -> PackDeviceInformation(x)
    [] is("SystemProperties") -> PackSystemProperties(x)
    [] OTHER -> <<>>

Unpack(id, b) ==
  LET is(name) == id = EventId[name] IN
  CASE is("ClientHello") \/ is("ServerHello") -> UnpackHello(b)
    [] is("ChannelFilter") -> UnpackChannelFilter(b)
    [] is("ServerAck") -> UnpackServerAck(b)
    [] is("BusPowerStatusUpdate") -> UnpackBusPowerStatusUpdate(b)
    [] is("BusPower") -> UnpackBusPower(b)
    [] is("ChannelUpdateRequest") -> UnpackChannelUpdateRequest(b)
    [] is("ChannelUpdate") -> UnpackChannelUpdate(b)
    [] is("ChannelList") -> UnpackChannelList(b)
    [] is("NodeUpdateRequest") -> UnpackNodeUpdateRequest(b)
    [] is("NodeUpdate") -> UnpackNodeUpdate(b)
    [] is("NodeList") -> UnpackNodeList(b)
    [] is("NodeFirmware") -> UnpackNodeFirmware(b)
    [] is("NodeFirmwareDownloadRequest") -> UnpackNodeFirmwareDownloadRequest(b)
    [] is("NodeFirmwareProgress") -> UnpackNodeFirmwareProgress(b)
    [] is("NodeRebootRequest") -> UnpackNodeRebootRequest(b)
    [] is("DeviceInformation") -> UnpackDeviceInformation(b)
    [] is("SystemProperties") -> UnpackSystemProperties(b)
    [] OTHER -> Unpacked(Empty)
=============================================================================
