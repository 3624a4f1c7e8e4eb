---------------------------- MODULE NodeRegistry ----------------------------
(***************************************************************************)
(* The registry of the nodes on the CAN bus (models/node.go) and the       *)
(* goroutines that share it:                                               *)
(*   - handleMasterNode, which answers address requests one at a time;     *)
(*   - the handler goroutine of each node id (handleBusNode), which works  *)
(*     on the Node object it was started with, registered or not;          *)
(*   - pinger, which collects silent nodes under the read lock and removes *)
(*     them one by one afterwards;                                         *)
(*   - SetPower(false), which empties the registry.                        *)
(* The collection's two maps are changed under its lock, one action per    *)
(* critical section; the fields of a Node are written without any lock.    *)
(* A Node is a reference to an object, so a goroutine may hold one that    *)
(* has been removed or replaced.                                           *)
(***************************************************************************)
EXTENDS NodeCache

CONSTANTS
  Object,    (* Node objects; a bound on how many are in use at once       *)
  Null,
  Firmware,  (* firmware versions; nodes below version 3 are not pinged    *)
  PingerRunning  (* RunPinger starts the pinger for a ping interval > 0    *)

ASSUME RegistryAssumption ==
  /\ Null \notin Object
  /\ Firmware \subseteq Nat
  /\ PingerRunning \in BOOLEAN

VARIABLES
  Nodes,    (* node id -> object, Null for a free slot                      *)
  Udids,    (* udid -> object, Null if absent                               *)
  node,     (* the fields of each object in use                             *)
  handler,  (* node id -> object served by the id's goroutine, Null if none *)
  master,   (* the address request being handled by handleMasterNode        *)
  pinger    (* the state of the pinger goroutine                            *)

registryVars == <<Nodes, Udids, node, handler, master, pinger>>
vars == <<registryVars, cacheVars>>

NodeState == {"unknown", "connecting", "connected", "bootloader",
              "programming", "unresponsive"}

Node == [id : NodeId, udid : Udid, state : NodeState, fw : Firmware]

(* The contents given to an object nobody refers to any more.              *)
Garbage == [id |-> 0]

(* Objects some goroutine or map can still reach.                          *)
InUse == {r \in Object :
            \/ \E i \in NodeId : Nodes[i] = r \/ handler[i] = r
            \/ \E u \in Udid : Udids[u] = r
            \/ master.ref = r
            \/ \E k \in DOMAIN pinger.dequeue : pinger.dequeue[k] = r}

(* Sets the fields of the objects in use after the step, and collects the  *)
(* others.  The other variables of the registry must be primed before.     *)
Store(fields) == node' = [r \in Object |-> IF r \in InUse' THEN fields[r] ELSE Garbage]

Idle == [pc |-> "idle", udid |-> NullUdid, fw |-> 0, ref |-> Null]
Asleep == [pc |-> "sleep", cursor |-> 1, dequeue |-> <<>>]

TypeOK ==
  /\ CacheTypeOK
  /\ Nodes \in [NodeId -> Object \cup {Null}]
  /\ Udids \in [Udid -> Object \cup {Null}]
  /\ handler \in [NodeId -> Object \cup {Null}]
  /\ master \in [pc : {"idle", "found", "lock", "spawn"},
                 udid : Udid \cup {NullUdid}, fw : Firmware \cup {0},
                 ref : Object \cup {Null}]
  /\ pinger \in [pc : {"sleep", "scan", "mark", "unregister"},
                 cursor : NodeId, dequeue : Seq(Object)]
  /\ node \in [Object -> Node \cup {Garbage}]
  /\ \A r \in InUse : node[r] \in Node

Init ==
  /\ CacheInit
  /\ Nodes = [i \in NodeId |-> Null]
  /\ Udids = [u \in Udid |-> Null]
  /\ handler = [i \in NodeId |-> Null]
  /\ master = Idle
  /\ pinger = Asleep
  /\ node = [r \in Object |-> Garbage]

(* The pinger holds the read lock while it walks through the slots.        *)
Writable == pinger.pc # "scan"
-----------------------------------------------------------------------------
(* handleMasterNode receives SYS_ADDRESS_REQUEST.  Register first looks    *)
(* the udid up, under the read lock, and releases the lock.                *)
Lookup(u) == Udids[u]

AddressRequest(u, fw) ==
  /\ master.pc = "idle"
  /\ master' = [pc |-> IF Lookup(u) # Null THEN "found" ELSE "lock",
                udid |-> u, fw |-> fw, ref |-> Lookup(u)]
  /\ UNCHANGED <<Nodes, Udids, node, handler, pinger, cacheVars>>

(* The udid was found: the object is reused, whatever happened to it since *)
(* the lookup.                                                             *)
RegisterFound ==
  /\ master.pc = "found"
  /\ node' = [node EXCEPT ![master.ref].state = "connecting",
                          ![master.ref].fw = master.fw]
  /\ master' = [master EXCEPT !.pc = "spawn"]
  /\ UNCHANGED <<Nodes, Udids, handler, pinger, cacheVars>>

Free(i) == Nodes[i] = Null
Unreserved(i) == Free(i) /\ ~NodeCacheReverseLookup(i)
Lowest(i, P(_)) == P(i) /\ \A j \in NodeId : P(j) => i <= j

Assigned_Taken(u, i) ==
  IF NodeCacheLookup(u) # 0 /\ Free(NodeCacheLookup(u)) THEN i = NodeCacheLookup(u)
  ELSE IF \E j \in NodeId : Unreserved(j) THEN Lowest(i, Unreserved)
  ELSE i = 1

Assigned_NoCache(u, i) == Lowest(i, Free)

(* The id given to a new device: the one the cache remembers if its slot   *)
(* is free, else the lowest free id no udid is known for, else the lowest  *)
(* free id, which then changes hands in the cache.                         *)
Assigned(u, i) ==
  IF NodeCacheLookup(u) # 0 /\ Nodes[NodeCacheLookup(u)] = Null
  THEN i = NodeCacheLookup(u)
  ELSE IF \E j \in NodeId : Unreserved(j) THEN Lowest(i, Unreserved)
  ELSE Lowest(i, Free)

(* The critical section of Register that creates a node.                   *)
RegisterNew(r, i) ==
  /\ master.pc = "lock"
  /\ Writable
  /\ r \notin InUse
  /\ Assigned(master.udid, i)
  /\ Nodes' = [Nodes EXCEPT ![i] = r]
  /\ Udids' = [Udids EXCEPT ![master.udid] = r]
  /\ master' = [master EXCEPT !.pc = "spawn", !.ref = r]
  /\ UNCHANGED <<handler, pinger>>
  /\ Store([node EXCEPT ![r] = [id |-> i, udid |-> master.udid,
                                state |-> "unknown", fw |-> master.fw]])
  /\ NodeCacheSetEntry(master.udid, i)

(* No slot is free: Register fails and the request is dropped.             *)
RegisterFull ==
  /\ master.pc = "lock"
  /\ Writable
  /\ \A i \in NodeId : ~Free(i)
  /\ master' = Idle
  /\ UNCHANGED <<Nodes, Udids, node, handler, pinger, cacheVars>>

(* handleMasterNode stops the goroutine of the id, if there is one, starts *)
(* one for the registered object and sends SYS_ADDRESS_CONFIGURE.          *)
Spawn ==
  /\ master.pc = "spawn"
  /\ handler' = [handler EXCEPT ![node[master.ref].id] = master.ref]
  /\ master' = Idle
  /\ UNCHANGED <<Nodes, Udids, pinger, cacheVars>>
  /\ Store(node)
-----------------------------------------------------------------------------
(* A message for the goroutine of id i that changes the state of its node. *)
HandlerSetState(i, s) ==
  /\ handler[i] # Null
  /\ node' = [node EXCEPT ![handler[i]].state = s]
  /\ UNCHANGED <<Nodes, Udids, handler, master, pinger, cacheVars>>

(* SYS_ADDRESS_CONFIGURE_ACK                                               *)
ConfigureAck(i) == HandlerSetState(i, "connected")

(* SYS_NODE_BOOT_ACK, with or without a pending firmware operation         *)
BootAck(i) ==
  \/ HandlerSetState(i, "bootloader")
  \/ HandlerSetState(i, "programming")
-----------------------------------------------------------------------------
(* pinger.  Each visits the slots in order under the read lock; a node has *)
(* to be connected and in firmware 3 or more to be collected, and whether  *)
(* it has been silent for long enough is left open.                        *)
PingerWake ==
  /\ PingerRunning
  /\ pinger.pc = "sleep"
  /\ pinger' = [pinger EXCEPT !.pc = "scan"]
  /\ UNCHANGED <<Nodes, Udids, node, handler, master, cacheVars>>

Pingable(r) == r # Null /\ node[r].fw >= 3 /\ node[r].state = "connected"

PingerVisit ==
  /\ pinger.pc = "scan"
  /\ \E d \in {pinger.dequeue} \cup
              (IF Pingable(Nodes[pinger.cursor])
               THEN {Append(pinger.dequeue, Nodes[pinger.cursor])} ELSE {}) :
        pinger' = IF pinger.cursor < MaxNode
                  THEN [pc |-> "scan", cursor |-> pinger.cursor + 1, dequeue |-> d]
                  ELSE [pc |-> IF d = <<>> THEN "sleep" ELSE "mark",
                        cursor |-> 1, dequeue |-> d]
  /\ UNCHANGED <<Nodes, Udids, node, handler, master, cacheVars>>

(* The state is changed without the lock; the broadcast that follows can   *)
(* take any time.                                                          *)
PingerMark ==
  /\ pinger.pc = "mark"
  /\ node' = [node EXCEPT ![Head(pinger.dequeue)].state = "unresponsive"]
  /\ pinger' = [pinger EXCEPT !.pc = "unregister"]
  /\ UNCHANGED <<Nodes, Udids, handler, master, cacheVars>>

Unregister_KeepUdid(r) ==
  /\ Udids' = Udids
  /\ Nodes' = [Nodes EXCEPT ![node[r].id] = Null]

(* Unregister.  It clears both entries, also when Nodes[r.Id] is not r and *)
(* it returns false, which the pinger logs as a failure.                   *)
Unregister(r) ==
  /\ Udids' = [Udids EXCEPT ![node[r].udid] = Null]
  /\ Nodes' = [Nodes EXCEPT ![node[r].id] = Null]

PingerUnregister ==
  /\ pinger.pc = "unregister"
  /\ Unregister(Head(pinger.dequeue))
  /\ pinger' = [pinger EXCEPT !.pc = IF Len(pinger.dequeue) = 1 THEN "sleep" ELSE "mark",
                              !.dequeue = Tail(@)]
  /\ UNCHANGED <<handler, master, cacheVars>>
  /\ Store(node)

(* SetPower(false), from a client or on a signal: Nodes.Clear().           *)
PowerOff ==
  /\ Writable
  /\ Nodes' = [i \in NodeId |-> Null]
  /\ Udids' = [u \in Udid |-> Null]
  /\ UNCHANGED <<handler, master, pinger, cacheVars>>
  /\ Store(node)

(* The daemon stops, at any point, and is started again.                   *)
Restart ==
  /\ CacheRestart
  /\ Nodes' = [i \in NodeId |-> Null]
  /\ Udids' = [u \in Udid |-> Null]
  /\ handler' = [i \in NodeId |-> Null]
  /\ master' = Idle
  /\ pinger' = Asleep
  /\ node' = [r \in Object |-> Garbage]
-----------------------------------------------------------------------------
Register == RegisterFound \/ RegisterFull \/ \E r \in Object, i \in NodeId : RegisterNew(r, i)
Handler == \E i \in NodeId : ConfigureAck(i) \/ BootAck(i)
Pinger == PingerWake \/ PingerVisit \/ PingerMark \/ PingerUnregister

Next ==
  \/ \E u \in Udid, fw \in Firmware : AddressRequest(u, fw)
  \/ Register
  \/ Spawn
  \/ Handler
  \/ Pinger
  \/ PowerOff
  \/ Restart
  \/ UNCHANGED registryVars /\ SaveNext

Spec == Init /\ [][Next]_vars
-----------------------------------------------------------------------------
(* What holds for any number of devices.                                   *)

(* Every id the cache remembers for a device is also reserved for that     *)
(* device in the reverse cache, so no two devices have the same id in the  *)
(* cache: NodeCacheSetEntry and NodeCacheLoad keep the two maps together.  *)
CacheForward ==
  \A u \in Udid : nodeCache[u] # 0 => reverseNodeCache[nodeCache[u]] = u

(* Register never gives away a slot in use: the node of a slot changes     *)
(* only by leaving it.                                                     *)
NoSteal ==
  [][\A i \in NodeId : Nodes[i] # Null => Nodes'[i] \in {Nodes[i], Null}]_vars
-----------------------------------------------------------------------------
(* What holds when there is an id for every device.                        *)

Enough == Cardinality(Udid) <= MaxNode

(* The two maps of the collection describe the same nodes, although the    *)
(* pinger removes nodes it saw earlier and the master uses what it looked  *)
(* up earlier.                                                             *)
Consistent ==
  /\ \A i \in NodeId : Nodes[i] # Null => Udids[node[Nodes[i]].udid] = Nodes[i]
  /\ \A u \in Udid : Udids[u] # Null => Nodes[node[Udids[u]].id] = Udids[u]

(* A device keeps its id from one registration to the next, through the    *)
(* pinger and the bus power: only a restart of the daemon can forget it.   *)
StableAddress ==
  [][Restart \/ \A u \in Udid : nodeCache[u] # 0 => nodeCache'[u] = nodeCache[u]]_vars

(* In one run of the daemon, SYS_ADDRESS_CONFIGURE never gives an id to a  *)
(* device after another device got it: the goroutine of an id is replaced  *)
(* only on behalf of the same device, so that a device dropped by mistake  *)
(* shares its id with nobody.                                              *)
IdNotReused ==
  [][\A i \in NodeId : handler[i] # Null /\ handler'[i] # Null =>
        node'[handler'[i]].udid = node[handler[i]].udid]_vars

(* A late removal of the pinger takes nothing from another device, though  *)
(* Unregister clears its two entries whoever is registered there by now,   *)
(* and returns false: what it removes is the collected node or the same    *)
(* device registered again.                                                *)
RemovesOwnDevice ==
  [][PingerUnregister =>
       LET u == node[Head(pinger.dequeue)].udid IN
       /\ \A i \in NodeId : Nodes[i] # Nodes'[i] => node[Nodes[i]].udid = u
       /\ \A v \in Udid : Udids[v] # Udids'[v] => node[Udids[v]].udid = u]_vars

(* When no save is waiting or running and the last one neither failed nor  *)
(* overlapped a change, the file holds the cache, so that a restart that   *)
(* can read it loses nothing.  A daemon that could neither open nor create *)
(* the file when it started saves nothing, without an error: usable.       *)
DurableWhenQuiet ==
  usable /\ saver = "none" /\ ~missed => LoadedCache(cacheFile) = nodeCache
=============================================================================
