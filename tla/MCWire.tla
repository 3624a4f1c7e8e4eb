------------------------------- MODULE MCWire --------------------------------
(* Events of every type, with lengths at which something changes: 0, 8 and *)
(* 9 (frames), 64 and 65 (names, contents), 128 to 257 (the length of an   *)
(* event, of a name and of a value), 2^16 and 2^24.                        *)
EXTENDS Wire

(* n bytes that are not all the same                                       *)
Text(n) == IF n = 0 THEN <<>> ELSE Cat(Run(97, n - 1), Run(98, 1))
Time == Join(<<Run(0, 4), Uint32(305419896)>>)

Channel(n, v) == NewChannelUpdate(Text(n), 258, CHANNEL_UPDATED, Text(v), Time)
Node(i) == NewNodeUpdate(i, 1, Run(i, 8), Time)
Copies(x, n) == [i \in 1..n |-> x]
Upload(n) == NewNodeFirmware(5, FALSE, 0, <<NewFirmwareBlock(8192, Text(n)), NewFirmwareBlock(16384, Text(64))>>)

MCSample ==
  {Event(name, Empty) : name \in EmptyEvents} \cup
  {Event("ClientHello", NewHello(Text(n), 1, 2)) : n \in {0, 6, 253, 254, 255, 256, 257, 300}} \cup
  {Event("ServerHello", NewHello(Text(n), 0, 0)) : n \in {6, 511}} \cup
  {Event("ChannelFilter", NewChannelFilter(c)) : c \in SUBSET {255, 256, 65535}} \cup
  {Event("ServerAck", NewServerAck(c)) : c \in {0, 5}} \cup
  {Event("BusPowerStatusUpdate", NewBusPowerStatusUpdate(64, Text(4), 1000, Text(4)))} \cup
  {Event("BusPower", NewBusPower(on)) : on \in BOOLEAN} \cup
  {Event("ChannelUpdateRequest", NewChannelUpdateRequest(Text(n), 258)) : n \in {0, 64, 65, 255, 256, 300}} \cup
  {Event("ChannelUpdate", Channel(n, v)) :
     n \in {0, 64, 65, 300}, v \in {0, 1, 8, 9, 16, 51, 52, 64, 65, 178, 179, 255, 256, 264}} \cup
  {Event("ChannelUpdate", [Channel(3, 0) EXCEPT !.Status = s]) : s \in {CHANNEL_CREATED, CHANNEL_DESTROYED, CHANNEL_NOT_FOUND}} \cup
  {Event("ChannelList", NewList(Copies(Channel(n, v), k))) : n \in {1, 64}, v \in {0, 64}, k \in {0, 1, 3}} \cup
  {Event("NodeUpdateRequest", NewNodeUpdateRequest(127)), Event("NodeUpdate", Node(127))} \cup
  {Event("NodeList", NewList([i \in 1..k |-> Node(i)])) : k \in {0, 7, 8, 14, 15}} \cup
  {Event("NodeFirmware", Upload(n)) : n \in {42, 43, 169, 170, 65449, 65450, 16777129, 16777130}} \cup
  {Event("NodeFirmware", NewNodeFirmware(5, FALSE, 0, <<NewFirmwareBlock(8191, Text(64))>>)),
   Event("NodeFirmware", NewNodeFirmware(6, TRUE, 1024, <<>>)),
   Event("NodeFirmwareDownloadRequest", NewNodeFirmwareDownloadRequest(6))} \cup
  {Event("NodeFirmwareProgress", NewNodeFirmwareProgress(5, p, 70000)) : p \in {0, 100, 254, 255}} \cup
  {Event("NodeRebootRequest", NewNodeRebootRequest(n, f)) : n \in {0, 1, 127}, f \in BOOLEAN} \cup
  {Event("DeviceInformation", NewDeviceInformation(Text(8), Text(4), 1, 255, Text(12)))} \cup
  {Event("SystemProperties", NewSystemProperties(Text(5) :> NewProperty(PROP_TYPE_STRING, Text(n)) @@
                                                 Text(7) :> NewProperty(PROP_TYPE_STRING, Text(3)))) : n \in {1, 255}} \cup
  {Event("SystemProperties", NewSystemProperties(Text(127) :> NewProperty(PROP_TYPE_BOOL, Run(1, 1)) @@
                                                 Text(0) :> NewProperty(PROP_TYPE_INT32, Run(255, 4)) @@
                                                 Text(1) :> NewProperty(PROP_TYPE_UINT32, Text(4))))}
MCFollow ==
  {Event("ServerAck", NewServerAck(0)), Event("ChannelUpdate", Channel(1, 9)),
   Event("NodeRebootRequest", NewNodeRebootRequest(127, TRUE)),
   Event("ChannelUpdateRequest", NewChannelUpdateRequest(Text(65), 0))}
=============================================================================
