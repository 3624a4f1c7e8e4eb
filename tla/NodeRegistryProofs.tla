------------------------- MODULE NodeRegistryProofs -------------------------
(***************************************************************************)
(* Proofs about NodeRegistry, for any sets of devices and objects and any  *)
(* number of ids.                                                          *)
(***************************************************************************)
EXTENDS NodeRegistry, FiniteSetTheorems, SequenceTheorems, WellFoundedInduction, TLAPS

(* What the program counters of the master and of the pinger say about     *)
(* their variables.                                                        *)
ControlOK ==
  /\ master.pc # "idle" => master.udid \in Udid /\ master.fw \in Firmware
  /\ master.pc \in {"found", "spawn"} => master.ref \in Object
  /\ pinger.pc \in {"mark", "unregister"} => pinger.dequeue # <<>>

TypeInv == TypeOK /\ ControlOK

(* Nodes' identities: an object in use before and after a step keeps its   *)
(* id and its udid.                                                        *)
SameIdentity ==
  \A r \in Object : r \in InUse /\ r \in InUse' =>
     node'[r].id = node[r].id /\ node'[r].udid = node[r].udid

(* Only RegisterNew takes a new object into use.                           *)
Reused == InUse' \subseteq InUse \/ \E r \in Object, i \in NodeId : RegisterNew(r, i)
-----------------------------------------------------------------------------
(* A save step keeps the types and changes neither map.                    *)
LEMMA SaveStep ==
  ASSUME CacheTypeOK, SaveNext
  PROVE  /\ CacheTypeOK'
         /\ UNCHANGED <<nodeCache, reverseNodeCache>>
<1> USE CacheAssumption DEF CacheTypeOK
<1>0. <<>> \in Seq(Entry) /\ {} \in SUBSET Udid
  OBVIOUS
<1>1. CASE SaveStart
  <2>1. /\ missed' = FALSE \/ missed' = missed
        /\ must' = {u \in Udid : nodeCache[u] # 0} \/ must' = must
        /\ visited' = {} \/ visited' = visited
        /\ entries' = <<>> \/ entries' = entries
        /\ saver' \in {"iterate", "clear"}
        /\ UNCHANGED <<nodeCache, reverseNodeCache, isDirty, cacheFile, usable>>
    BY <1>1, Zenon DEF SaveStart
  <2>2. must' \in SUBSET Udid /\ saver' \in {"none", "armed", "iterate", "create", "write", "clear"}
    BY <2>1
  <2>3. QED BY <1>0, <2>1, <2>2, Zenon
<1>2. ASSUME NEW u \in Udid, SaveVisit(u) PROVE CacheTypeOK' /\ UNCHANGED <<nodeCache, reverseNodeCache>>
  <2>1. [udid |-> u, id |-> nodeCache[u]] \in Entry
    BY <1>2 DEF SaveVisit, Entry
  <2>2. entries' \in Seq(Entry)
    BY <2>1, <1>2 DEF SaveVisit
  <2>3. QED BY <2>2, <1>2 DEF SaveVisit
<1>3. CASE SaveIterated
  BY <1>3 DEF SaveIterated
<1>4. CASE SaveCreate
  <2>1. /\ missed' = TRUE \/ missed' = missed
        /\ cacheFile' = <<>> \/ cacheFile' = cacheFile
        /\ saver' \in {"write", "clear"}
        /\ UNCHANGED <<nodeCache, reverseNodeCache, isDirty, must, visited, entries, usable>>
    BY <1>4, Zenon DEF SaveCreate
  <2>2. saver' \in {"none", "armed", "iterate", "create", "write", "clear"}
    BY <2>1
  <2>3. QED BY <1>0, <2>1, <2>2, Zenon
<1>5. CASE SaveWrite
  BY <1>5 DEF SaveWrite
<1>6. CASE SaveClear
  BY <1>6 DEF SaveClear
<1>7. QED
  BY <1>1, <1>2, <1>3, <1>4, <1>5, <1>6, SaveNext DEF SaveNext

(* NodeCacheSetEntry keeps the types.                                      *)
LEMMA SetEntryType ==
  ASSUME CacheTypeOK, NEW u \in Udid, NEW i \in NodeId, NodeCacheSetEntry(u, i)
  PROVE  CacheTypeOK'
BY DEF CacheTypeOK, NodeCacheSetEntry, cacheVars

(* A non-empty set of naturals below a bound has a greatest element.       *)
LEMMA Greatest ==
  ASSUME NEW n \in Nat, NEW S \in SUBSET (1..n), S # {}
  PROVE  \E m \in S : \A k \in S : k <= m
<1> DEFINE T == {n - k : k \in S}
<1>1. T \subseteq Nat /\ T # {}
  <2>1. \A k \in S : n - k \in Nat
    OBVIOUS
  <2>2. QED BY <2>1
<1>2. PICK x \in T : \A y \in T : <<y, x>> \notin OpToRel(<, Nat)
  BY <1>1, WFMin, NatLessThanWellFounded
<1>3. \A y \in T : ~(y < x)
  BY <1>1, <1>2 DEF OpToRel
<1>4. PICK m \in S : x = n - m
  OBVIOUS
<1>5. \A k \in S : k <= m
  BY <1>3, <1>4
<1>6. QED
  BY <1>5

(* The entries NodeCacheLoad keeps of a file, and what the maps become.    *)
LEMMA LoadedFacts ==
  ASSUME NEW f \in Seq(Entry)
  PROVE  /\ LoadedCache(f) \in [Udid -> NodeId \cup {0}]
         /\ LoadedReverse(f) \in [NodeId -> Udid \cup {NullUdid}]
         /\ \A u \in Udid : LoadedCache(f)[u] # 0 =>
               \E k \in Loaded(f) : f[k].udid = u /\ f[k].id = LoadedCache(f)[u]
         /\ \A i \in NodeId : LoadedReverse(f)[i] # NullUdid =>
               \E k \in Loaded(f) : f[k].id = i /\ f[k].udid = LoadedReverse(f)[i]
         /\ \A k \in Loaded(f) : LoadedReverse(f)[f[k].id] = f[k].udid
         /\ \A k \in Loaded(f) : LoadedCache(f)[f[k].udid] # 0
<1> DEFINE At(u) == {k \in Loaded(f) : f[k].udid = u}
           Last(u) == CHOOSE k \in Loaded(f) :
                        /\ f[k].udid = u
                        /\ \A j \in Loaded(f) : f[j].udid = u => j <= k
<1>1. DOMAIN f = 1..Len(f) /\ Len(f) \in Nat /\ \A k \in DOMAIN f : f[k] \in Entry
  OBVIOUS
<1>2. Loaded(f) \subseteq 1..Len(f)
  BY <1>1 DEF Loaded
<1>3. \A k \in Loaded(f) : f[k].udid \in Udid /\ f[k].id \in NodeId
  BY <1>1, <1>2 DEF Entry
<1>4. \A j, k \in Loaded(f) : f[j].id = f[k].id => j = k
  BY <1>1, <1>2 DEF Loaded
<1>5. ASSUME NEW u \in Udid, At(u) # {}
      PROVE  Last(u) \in Loaded(f) /\ f[Last(u)].udid = u
  <2>1. \E m \in At(u) : \A k \in At(u) : k <= m
    BY <1>1, <1>2, <1>5, Greatest
  <2>2. \E k \in Loaded(f) :
           /\ f[k].udid = u
           /\ \A j \in Loaded(f) : f[j].udid = u => j <= k
    BY <2>1
  <2>3. QED BY <2>2
<1>6. ASSUME NEW u \in Udid
      PROVE  LoadedCache(f)[u] = IF At(u) # {} THEN f[Last(u)].id ELSE 0
  BY DEF LoadedCache
<1>7. ASSUME NEW i \in NodeId, NEW k \in Loaded(f), f[k].id = i
      PROVE  LoadedReverse(f)[i] = f[k].udid
  <2>1. k = CHOOSE j \in Loaded(f) : f[j].id = i
    BY <1>4, <1>7
  <2>2. QED BY <2>1, <1>7 DEF LoadedReverse
<1>8. ASSUME NEW i \in NodeId, ~ \E k \in Loaded(f) : f[k].id = i
      PROVE  LoadedReverse(f)[i] = NullUdid
  BY <1>8 DEF LoadedReverse
<1> HIDE DEF Last
<1>9. LoadedCache(f) = [u \in Udid |-> LoadedCache(f)[u]]
  BY DEF LoadedCache
<1>10. LoadedReverse(f) = [i \in NodeId |-> LoadedReverse(f)[i]]
  BY DEF LoadedReverse
<1>11. \A u \in Udid : LoadedCache(f)[u] \in NodeId \cup {0}
  BY <1>3, <1>5, <1>6
<1>12. \A i \in NodeId : LoadedReverse(f)[i] \in Udid \cup {NullUdid}
  BY <1>3, <1>7, <1>8
<1>13. \A u \in Udid : LoadedCache(f)[u] # 0 =>
        \E k \in Loaded(f) : f[k].udid = u /\ f[k].id = LoadedCache(f)[u]
  BY <1>5, <1>6
<1>14. \A i \in NodeId : LoadedReverse(f)[i] # NullUdid =>
        \E k \in Loaded(f) : f[k].id = i /\ f[k].udid = LoadedReverse(f)[i]
  BY <1>7, <1>8
<1>15. \A k \in Loaded(f) : LoadedReverse(f)[f[k].id] = f[k].udid
  BY <1>3, <1>7
<1>16. \A k \in Loaded(f) : LoadedCache(f)[f[k].udid] # 0
  BY <1>3, <1>5, <1>6, CacheAssumption DEF NodeId
<1>17. QED
  BY <1>9, <1>10, <1>11, <1>12, <1>13, <1>14, <1>15, <1>16
(* A restart fills the maps from a file's entries: those of the cache file *)
(* or none.                                                                *)
LEMMA RestartLoads ==
  ASSUME CacheTypeOK, CacheRestart
  PROVE  /\ usable' \in BOOLEAN
         /\ cacheFile' \in {cacheFile, <<>>}
         /\ usable' = TRUE => nodeCache' = LoadedCache(cacheFile')
         /\ \E f \in {cacheFile, <<>>} :
               nodeCache' = LoadedCache(f) /\ reverseNodeCache' = LoadedReverse(f)
<1>1. NodeCacheLoad
  BY DEF CacheRestart
<1>2. CASE Filled(cacheFile) /\ usable' = TRUE /\ UNCHANGED cacheFile
  BY <1>2, Zenon DEF Filled
<1>3. CASE Filled(<<>>) /\ usable' = TRUE /\ cacheFile' = <<>>
  BY <1>3, Zenon DEF Filled
<1>4. CASE Filled(<<>>) /\ usable' = FALSE /\ UNCHANGED cacheFile
  BY <1>4 DEF Filled
<1>5. QED BY <1>1, <1>2, <1>3, <1>4, Zenon DEF NodeCacheLoad

(* The cache file is a sequence of entries, and so is an empty one.        *)
LEMMA FileTyped ==
  ASSUME CacheTypeOK, NEW f \in {cacheFile, <<>>}
  PROVE  f \in Seq(Entry)
<1>1. cacheFile \in Seq(Entry) /\ <<>> \in Seq(Entry)
  BY DEF CacheTypeOK
<1>2. QED BY <1>1
-----------------------------------------------------------------------------
(* What is referred to is in use, and an object in use has fields.         *)
LEMMA References ==
  ASSUME TypeInv
  PROVE  /\ \A i \in NodeId : Nodes[i] # Null => Nodes[i] \in InUse
         /\ \A i \in NodeId : handler[i] # Null => handler[i] \in InUse
         /\ \A u \in Udid : Udids[u] # Null => Udids[u] \in InUse
         /\ master.ref # Null => master.ref \in InUse
         /\ master.pc \in {"found", "spawn"} => master.ref \in InUse
         /\ \A k \in DOMAIN pinger.dequeue : pinger.dequeue[k] \in InUse
         /\ pinger.pc \in {"mark", "unregister"} => Head(pinger.dequeue) \in InUse
         /\ InUse \subseteq Object
         /\ \A r \in InUse : node[r] \in Node
<1> USE RegistryAssumption DEF TypeInv, TypeOK, ControlOK
<1>1. \A k \in DOMAIN pinger.dequeue : pinger.dequeue[k] \in InUse
  BY DEF InUse
<1>2. pinger.pc \in {"mark", "unregister"} => Head(pinger.dequeue) \in InUse
  <2>1. pinger.dequeue # <<>> => 1 \in DOMAIN pinger.dequeue /\ Head(pinger.dequeue) = pinger.dequeue[1]
    OBVIOUS
  <2>2. QED BY <1>1, <2>1
<1>3. QED
  BY <1>1, <1>2 DEF InUse

(* What is left of a queue after its head.                                 *)
LEMMA TailFacts ==
  ASSUME NEW S, NEW q \in Seq(S), q # <<>>
  PROVE  /\ Tail(q) \in Seq(S)
         /\ \A k \in DOMAIN Tail(q) : k + 1 \in DOMAIN q /\ Tail(q)[k] = q[k + 1]
         /\ Tail(q) = <<>> <=> Len(q) = 1
<1>1. Len(q) \in Nat /\ Len(q) # 0 /\ DOMAIN q = 1..Len(q)
  OBVIOUS
<1>2. Tail(q) \in Seq(S) /\ Len(Tail(q)) = Len(q) - 1
  OBVIOUS
<1>3. \A k \in 1..Len(q)-1 : Tail(q)[k] = q[k + 1]
  OBVIOUS
<1>4. Tail(q) = <<>> <=> Len(Tail(q)) = 0
  BY <1>2, EmptySeq
<1>5. DOMAIN Tail(q) = 1..Len(q)-1
  BY <1>2
<1>6. QED BY <1>1, <1>2, <1>3, <1>4, <1>5

(* Storing fields of the right type types the objects.                     *)
LEMMA StoreType ==
  ASSUME NEW fields, \A r \in InUse' : fields[r] \in Node, InUse' \subseteq Object, Store(fields)
  PROVE  /\ node' \in [Object -> Node \cup {Garbage}]
         /\ \A r \in InUse' : node'[r] \in Node /\ node'[r] = fields[r]
BY DEF Store

(* Every step keeps the type invariant and the identity of the objects.    *)
LEMMA TypeStep ==
  ASSUME TypeInv, [Next]_vars
  PROVE  TypeInv' /\ SameIdentity /\ Reused
<1> USE CacheAssumption, RegistryAssumption
<1>0. InUse' \subseteq Object
  BY DEF InUse
<1> DEFINE NodeTyped == /\ node' \in [Object -> Node \cup {Garbage}]
                        /\ \A r \in InUse' : node'[r] \in Node
                        /\ SameIdentity
                        /\ Reused
           RestTyped == /\ Nodes' \in [NodeId -> Object \cup {Null}]
                        /\ Udids' \in [Udid -> Object \cup {Null}]
                        /\ handler' \in [NodeId -> Object \cup {Null}]
                        /\ master' \in [pc : {"idle", "found", "lock", "spawn"},
                                        udid : Udid \cup {NullUdid}, fw : Firmware \cup {0},
                                        ref : Object \cup {Null}]
                        /\ pinger' \in [pc : {"sleep", "scan", "mark", "unregister"},
                                        cursor : NodeId, dequeue : Seq(Object)]
                        /\ ControlOK'
<1> SUFFICES NodeTyped /\ RestTyped /\ CacheTypeOK'
  BY Zenon DEF TypeInv, TypeOK
<1>1. ASSUME NEW u \in Udid, NEW fw \in Firmware, AddressRequest(u, fw)
      PROVE  NodeTyped /\ RestTyped /\ CacheTypeOK'
  <2>1. CacheTypeOK' BY <1>1 DEF AddressRequest, TypeInv, TypeOK, CacheTypeOK, cacheVars
  <2>2. RestTyped
    BY <1>1 DEF AddressRequest, Lookup, TypeInv, TypeOK, ControlOK
  <2>3. InUse' \subseteq InUse
    BY <1>1 DEF AddressRequest, Lookup, InUse, TypeInv, TypeOK
  <2>4. NodeTyped
    BY <1>1, <2>3 DEF AddressRequest, SameIdentity, Reused, TypeInv, TypeOK
  <2>5. QED BY <2>1, <2>2, <2>4
<1>2. CASE RegisterFound
  <2>1. CacheTypeOK' BY <1>2 DEF RegisterFound, TypeInv, TypeOK, CacheTypeOK, cacheVars
  <2>2. RestTyped
    BY <1>2 DEF RegisterFound, TypeInv, TypeOK, ControlOK
  <2>3. InUse' \subseteq InUse
    BY <1>2 DEF RegisterFound, InUse, TypeInv, TypeOK
  <2>4. master.ref \in InUse /\ node[master.ref] \in Node /\ master.ref \in Object
    BY <1>2, References DEF RegisterFound
  <2>5. /\ node' \in [Object -> Node \cup {Garbage}]
        /\ node'[master.ref] = [node[master.ref] EXCEPT !.state = "connecting", !.fw = master.fw]
        /\ \A r \in Object \ {master.ref} : node'[r] = node[r]
    <3>1. [node[master.ref] EXCEPT !.state = "connecting", !.fw = master.fw] \in Node
      BY <1>2, <2>4 DEF RegisterFound, TypeInv, ControlOK, Node, NodeState
    <3>2. node' = [node EXCEPT ![master.ref] =
                     [node[master.ref] EXCEPT !.state = "connecting", !.fw = master.fw]]
      BY <1>2, <2>4 DEF RegisterFound, TypeInv, TypeOK
    <3>3. QED BY <2>4, <3>1, <3>2 DEF TypeInv, TypeOK
  <2>6. NodeTyped
    BY <1>0, <1>2, <2>3, <2>4, <2>5 DEF RegisterFound, SameIdentity, Reused, TypeInv, TypeOK, ControlOK, Node, NodeState
  <2>7. QED BY <2>1, <2>2, <2>6
<1>3. ASSUME NEW r \in Object, NEW i \in NodeId, RegisterNew(r, i)
      PROVE  NodeTyped /\ RestTyped /\ CacheTypeOK'
  <2> DEFINE new == [id |-> i, udid |-> master.udid, state |-> "unknown", fw |-> master.fw]
  <2>0. master.udid \in Udid /\ master.fw \in Firmware
    BY <1>3 DEF RegisterNew, TypeInv, ControlOK
  <2>1. CacheTypeOK'
    BY <1>3, <2>0, SetEntryType DEF RegisterNew, TypeInv, TypeOK
  <2>2. RestTyped
    BY <1>3, <2>0 DEF RegisterNew, TypeInv, TypeOK, ControlOK
  <2>3. InUse' \subseteq InUse \cup {r}
    BY <1>3, <2>0 DEF RegisterNew, InUse, TypeInv, TypeOK
  <2>4. new \in Node
    BY <2>0 DEF Node, NodeState
  <2>5. \A q \in InUse' : [node EXCEPT ![r] = new][q] \in Node
    BY <2>3, <2>4 DEF TypeInv, TypeOK, InUse
  <2>6. Store([node EXCEPT ![r] = new]) /\ r \notin InUse
    BY <1>3 DEF RegisterNew
  <2>7. \A q \in InUse' : node'[q] \in Node /\ node'[q] = [node EXCEPT ![r] = new][q]
    BY <1>0, <2>5, <2>6, StoreType
  <2>8. node' \in [Object -> Node \cup {Garbage}]
    BY <1>0, <2>5, <2>6, StoreType
  <2>9. SameIdentity
    BY <2>6, <2>7 DEF SameIdentity, TypeInv, TypeOK
  <2>10. Reused
    BY <1>3 DEF Reused
  <2>11. QED BY <2>1, <2>2, <2>7, <2>8, <2>9, <2>10
<1>4. CASE RegisterFull
  <2>1. CacheTypeOK' BY <1>4 DEF RegisterFull, TypeInv, TypeOK, CacheTypeOK, cacheVars
  <2>2. RestTyped
    BY <1>4 DEF RegisterFull, Idle, TypeInv, TypeOK, ControlOK
  <2>3. InUse' \subseteq InUse
    BY <1>4 DEF RegisterFull, Idle, InUse, TypeInv, TypeOK
  <2>4. NodeTyped
    BY <1>4, <2>3 DEF RegisterFull, SameIdentity, Reused, TypeInv, TypeOK
  <2>5. QED BY <2>1, <2>2, <2>4
<1>5. CASE Spawn
  <2>1. CacheTypeOK' BY <1>5 DEF Spawn, TypeInv, TypeOK, CacheTypeOK, cacheVars
  <2>2. master.ref \in InUse /\ node[master.ref].id \in NodeId
    BY <1>5, References DEF Spawn, Node
  <2>3. RestTyped
    BY <1>5, <2>2 DEF Spawn, Idle, TypeInv, TypeOK, ControlOK
  <2>4. InUse' \subseteq InUse
    BY <1>5, <2>2 DEF Spawn, Idle, InUse, TypeInv, TypeOK
  <2>5. NodeTyped
    BY <1>0, <1>5, <2>4, StoreType DEF Spawn, SameIdentity, Reused, TypeInv, TypeOK
  <2>6. QED BY <2>1, <2>3, <2>5
<1>6. ASSUME NEW i \in NodeId, NEW st \in NodeState, HandlerSetState(i, st)
      PROVE  NodeTyped /\ RestTyped /\ CacheTypeOK'
  <2>1. CacheTypeOK' BY <1>6 DEF HandlerSetState, TypeInv, TypeOK, CacheTypeOK, cacheVars
  <2>2. RestTyped
    BY <1>6 DEF HandlerSetState, TypeInv, TypeOK, ControlOK
  <2>3. InUse' \subseteq InUse
    BY <1>6 DEF HandlerSetState, InUse, TypeInv, TypeOK
  <2>4. handler[i] \in InUse /\ node[handler[i]] \in Node /\ handler[i] \in Object
    BY <1>6, References DEF HandlerSetState
  <2>5. NodeTyped
    BY <1>6, <2>3, <2>4 DEF HandlerSetState, SameIdentity, Reused, TypeInv, TypeOK, Node
  <2>6. QED BY <2>1, <2>2, <2>5
<1>7. CASE PingerWake
  <2>1. CacheTypeOK' BY <1>7 DEF PingerWake, TypeInv, TypeOK, CacheTypeOK, cacheVars
  <2>2. RestTyped
    BY <1>7 DEF PingerWake, TypeInv, TypeOK, ControlOK
  <2>3. InUse' \subseteq InUse
    BY <1>7 DEF PingerWake, InUse, TypeInv, TypeOK
  <2>4. NodeTyped
    BY <1>7, <2>3 DEF PingerWake, SameIdentity, Reused, TypeInv, TypeOK
  <2>5. QED BY <2>1, <2>2, <2>4
<1>8. CASE PingerVisit
  <2>1. CacheTypeOK' BY <1>8 DEF PingerVisit, TypeInv, TypeOK, CacheTypeOK, cacheVars
  <2> DEFINE q == Nodes[pinger.cursor]
  <2>2. PICK d \in {pinger.dequeue} \cup
              (IF Pingable(q) THEN {Append(pinger.dequeue, q)} ELSE {}) :
        pinger' = IF pinger.cursor < MaxNode
                  THEN [pc |-> "scan", cursor |-> pinger.cursor + 1, dequeue |-> d]
                  ELSE [pc |-> IF d = <<>> THEN "sleep" ELSE "mark",
                        cursor |-> 1, dequeue |-> d]
    BY <1>8 DEF PingerVisit
  <2>3. q \in Object \cup {Null} /\ (q # Null => q \in InUse) /\ pinger.cursor \in NodeId
    BY References DEF TypeInv, TypeOK
  <2>4. d \in Seq(Object) /\ \A k \in DOMAIN d : d[k] \in InUse
    <3>1. CASE d = pinger.dequeue
      BY <3>1, References DEF TypeInv, TypeOK
    <3>2. CASE Pingable(q) /\ d = Append(pinger.dequeue, q)
      BY <2>3, <3>2, References DEF TypeInv, TypeOK, Pingable
    <3>3. QED BY <2>2, <3>1, <3>2
  <2>5. /\ pinger' \in [pc : {"sleep", "scan", "mark", "unregister"},
                       cursor : NodeId, dequeue : Seq(Object)]
        /\ pinger'.dequeue = d
        /\ pinger'.pc \in {"mark", "unregister"} => d # <<>>
    BY <2>2, <2>3, <2>4 DEF NodeId
  <2>6. RestTyped
    BY <1>8, <2>5 DEF PingerVisit, TypeInv, TypeOK, ControlOK
  <2>7. InUse' \subseteq InUse
    BY <1>8, <2>4, <2>5 DEF PingerVisit, InUse, TypeInv, TypeOK
  <2>8. NodeTyped
    BY <1>8, <2>7 DEF PingerVisit, SameIdentity, Reused, TypeInv, TypeOK
  <2>9. QED BY <2>1, <2>6, <2>8
<1>9. CASE PingerMark
  <2>1. CacheTypeOK' BY <1>9 DEF PingerMark, TypeInv, TypeOK, CacheTypeOK, cacheVars
  <2>2. RestTyped
    BY <1>9 DEF PingerMark, TypeInv, TypeOK, ControlOK
  <2>3. InUse' \subseteq InUse
    BY <1>9 DEF PingerMark, InUse, TypeInv, TypeOK
  <2> DEFINE h == Head(pinger.dequeue)
  <2>4. h \in InUse /\ node[h] \in Node /\ h \in Object
    BY <1>9, References DEF PingerMark
  <2>5. node' = [node EXCEPT ![h].state = "unresponsive"]
    BY <1>9 DEF PingerMark
  <2> HIDE DEF h
  <2>6. NodeTyped
    BY <2>3, <2>4, <2>5 DEF SameIdentity, Reused, TypeInv, TypeOK, Node, NodeState
  <2>7. QED BY <2>1, <2>2, <2>6
<1>10. CASE PingerUnregister
  <2>1. CacheTypeOK' BY <1>10 DEF PingerUnregister, TypeInv, TypeOK, CacheTypeOK, cacheVars
  <2> DEFINE h == Head(pinger.dequeue)
             t == Tail(pinger.dequeue)
  <2>2. h \in InUse /\ node[h] \in Node /\ h \in Object
    BY <1>10, References DEF PingerUnregister
  <2>3. /\ Udids' = [Udids EXCEPT ![node[h].udid] = Null]
        /\ Nodes' = [Nodes EXCEPT ![node[h].id] = Null]
        /\ UNCHANGED <<handler, master>>
        /\ Store(node)
    BY <1>10 DEF PingerUnregister, Unregister
  <2>4. /\ t \in Seq(Object)
        /\ \A k \in DOMAIN t : t[k] \in InUse
        /\ t = <<>> <=> Len(pinger.dequeue) = 1
    <3>1. pinger.dequeue \in Seq(Object) /\ pinger.dequeue # <<>>
      BY <1>10 DEF PingerUnregister, TypeInv, TypeOK, ControlOK
    <3>2. QED BY <3>1, References, TailFacts
  <2>5. /\ pinger' \in [pc : {"sleep", "scan", "mark", "unregister"},
                       cursor : NodeId, dequeue : Seq(Object)]
        /\ pinger'.dequeue = t
        /\ pinger'.pc \in {"mark", "unregister"} => t # <<>>
    BY <1>10, <2>4 DEF PingerUnregister, TypeInv, TypeOK
  <2> HIDE DEF h, t
  <2>6. RestTyped
    BY <2>2, <2>3, <2>5 DEF TypeInv, TypeOK, ControlOK, Node
  <2>7. InUse' \subseteq InUse
    <3>1. /\ \A i \in NodeId : Nodes'[i] # Null => Nodes'[i] = Nodes[i]
          /\ \A u \in Udid : Udids'[u] # Null => Udids'[u] = Udids[u]
      BY <2>2, <2>3 DEF TypeInv, TypeOK, Node
    <3>2. \A k \in DOMAIN pinger'.dequeue : pinger'.dequeue[k] \in InUse
      BY <2>4, <2>5
    <3>3. Null \notin Object
      BY RegistryAssumption
    <3>4. QED BY <2>3, <3>1, <3>2, <3>3 DEF InUse
  <2>8. NodeTyped
    BY <1>0, <2>3, <2>7, StoreType DEF SameIdentity, Reused, TypeInv, TypeOK
  <2>9. QED BY <2>1, <2>6, <2>8
<1>11. CASE PowerOff
  <2>1. CacheTypeOK' BY <1>11 DEF PowerOff, TypeInv, TypeOK, CacheTypeOK, cacheVars
  <2>2. RestTyped
    BY <1>11 DEF PowerOff, TypeInv, TypeOK, ControlOK
  <2>3. InUse' \subseteq InUse
    BY <1>11 DEF PowerOff, InUse, TypeInv, TypeOK
  <2>4. NodeTyped
    BY <1>0, <1>11, <2>3, StoreType DEF PowerOff, SameIdentity, Reused, TypeInv, TypeOK
  <2>5. QED BY <2>1, <2>2, <2>4
<1>12. CASE Restart
  <2>1. CacheTypeOK'
    <3>0. CacheTypeOK /\ CacheRestart
      BY <1>12 DEF Restart, TypeInv, TypeOK
    <3>1. PICK f \in {cacheFile, <<>>} :
             nodeCache' = LoadedCache(f) /\ reverseNodeCache' = LoadedReverse(f)
      BY <3>0, RestartLoads
    <3>2. nodeCache' \in [Udid -> NodeId \cup {0}] /\ reverseNodeCache' \in [NodeId -> Udid \cup {NullUdid}]
      BY <3>0, <3>1, FileTyped, LoadedFacts
    <3>3. /\ isDirty' = FALSE /\ missed' = FALSE /\ saver' = "none" /\ must' = {} /\ visited' = {}
          /\ entries' = <<>>
      BY <3>0 DEF CacheRestart
    <3>4. usable' \in BOOLEAN /\ cacheFile' \in Seq(Entry) /\ entries' \in Seq(Entry)
      BY <3>0, <3>3, RestartLoads, FileTyped
    <3>5. QED
      BY <3>2, <3>3, <3>4 DEF CacheTypeOK
  <2>2. RestTyped
    BY <1>12 DEF Restart, Idle, Asleep, TypeInv, TypeOK, ControlOK, NodeId
  <2>3. InUse' = {}
    BY <1>12 DEF Restart, Idle, Asleep, InUse
  <2>4. NodeTyped
    BY <1>12, <2>3 DEF Restart, SameIdentity, Reused
  <2>5. QED BY <2>1, <2>2, <2>4
<1>13. CASE UNCHANGED registryVars /\ SaveNext
  <2>1. CacheTypeOK'
    BY <1>13, SaveStep DEF TypeInv, TypeOK
  <2>2. RestTyped /\ NodeTyped
    BY <1>13 DEF registryVars, InUse, SameIdentity, Reused, TypeInv, TypeOK, ControlOK
  <2>3. QED BY <2>1, <2>2
<1>14. CASE UNCHANGED vars
  <2>1. CacheTypeOK' BY <1>14 DEF vars, TypeInv, TypeOK, CacheTypeOK, cacheVars
  <2>2. RestTyped /\ NodeTyped
    BY <1>14 DEF vars, registryVars, InUse, SameIdentity, Reused, TypeInv, TypeOK, ControlOK
  <2>3. QED BY <2>1, <2>2
<1>15. {"connected", "bootloader", "programming"} \subseteq NodeState
  BY DEF NodeState
<1>16. QED
  BY <1>1, <1>2, <1>3, <1>4, <1>5, <1>6, <1>7, <1>8, <1>9, <1>10, <1>11, <1>12, <1>13, <1>14, <1>15
  DEF Next, Register, Handler, Pinger, ConfigureAck, BootAck

(* The initial state.                                                      *)
LEMMA InitType ==
  ASSUME Init
  PROVE  TypeInv /\ InUse = {}
<1> USE CacheAssumption, RegistryAssumption
<1>1. InUse = {}
  BY DEF Init, InUse, Idle, Asleep
<1>2. CacheTypeOK
  <2>1. <<>> \in Seq(Entry)
    OBVIOUS
  <2>2. QED BY <2>1 DEF Init, CacheInit, CacheTypeOK
<1>3. ControlOK
  BY DEF Init, ControlOK, Idle, Asleep
<1>4. TypeOK
  BY <1>1, <1>2 DEF Init, TypeOK, Idle, Asleep, NodeId
<1>5. QED
  BY <1>1, <1>3, <1>4 DEF TypeInv

(* The registry keeps its types, and an object the master, the pinger, a   *)
(* handler or a map refers to always has an id, a udid and a state: no     *)
(* goroutine of node.go and network_controller.go follows a nil pointer.   *)
THEOREM TypeCorrect == Spec => []TypeOK
<1>1. Init => TypeInv
  BY InitType
<1>2. TypeInv /\ [Next]_vars => TypeInv'
  BY TypeStep
<1>3. TypeInv => TypeOK
  BY DEF TypeInv
<1>4. QED
  BY <1>1, <1>2, <1>3, PTL DEF Spec
-----------------------------------------------------------------------------
(* The steps that change the cache, and the objects a step can make the    *)
(* maps, the master and the pinger refer to.                               *)
LEMMA CacheSteps ==
  ASSUME TypeInv, [Next]_vars
  PROVE  \/ UNCHANGED <<nodeCache, reverseNodeCache>>
         \/ Restart
         \/ \E r \in Object, i \in NodeId : RegisterNew(r, i)
<1>1. CASE \E u \in Udid, fw \in Firmware : AddressRequest(u, fw)
  BY <1>1 DEF AddressRequest, cacheVars
<1>2. CASE Register
  BY <1>2 DEF Register, RegisterFound, RegisterFull, cacheVars
<1>3. CASE Spawn
  BY <1>3 DEF Spawn, cacheVars
<1>4. CASE Handler
  BY <1>4 DEF Handler, ConfigureAck, BootAck, HandlerSetState, cacheVars
<1>5. CASE Pinger
  BY <1>5 DEF Pinger, PingerWake, PingerVisit, PingerMark, PingerUnregister, cacheVars
<1>6. CASE PowerOff
  BY <1>6 DEF PowerOff, cacheVars
<1>7. CASE SaveNext
  BY <1>7, SaveStep DEF TypeInv, TypeOK
<1>8. CASE UNCHANGED vars
  BY <1>8 DEF vars, cacheVars
<1>9. QED
  BY <1>1, <1>2, <1>3, <1>4, <1>5, <1>6, <1>7, <1>8 DEF Next

(* NodeCacheSetEntry keeps the cache and its reverse together.             *)
LEMMA SetEntryForward ==
  ASSUME CacheTypeOK, CacheForward,
         NEW u \in Udid, NEW i \in NodeId, NodeCacheSetEntry(u, i)
  PROVE  CacheForward'
<1>1. CASE nodeCache[u] = i
  BY <1>1 DEF NodeCacheSetEntry, cacheVars, CacheForward
<1>2. CASE nodeCache[u] # i
  <2>1. /\ nodeCache' = [v \in Udid |-> IF v = u THEN i
                                        ELSE IF v = reverseNodeCache[i] THEN 0
                                        ELSE nodeCache[v]]
        /\ reverseNodeCache' = [reverseNodeCache EXCEPT ![i] = u]
    BY <1>2 DEF NodeCacheSetEntry
  <2>2. SUFFICES ASSUME NEW v \in Udid, nodeCache'[v] # 0
                 PROVE  reverseNodeCache'[nodeCache'[v]] = v
    BY DEF CacheForward
  <2>3. CASE v = u
    BY <2>1, <2>3 DEF CacheTypeOK
  <2>4. CASE v # u
    <3>1. nodeCache'[v] = nodeCache[v] /\ v # reverseNodeCache[i]
      BY <2>1, <2>2, <2>4
    <3>2. reverseNodeCache[nodeCache[v]] = v /\ nodeCache[v] \in NodeId
      BY <2>2, <3>1 DEF CacheForward, CacheTypeOK
    <3>3. QED BY <2>1, <3>1, <3>2 DEF CacheTypeOK
  <2>5. QED BY <2>3, <2>4
<1>3. QED BY <1>1, <1>2

(* No step separates the cache from its reverse.                           *)
LEMMA ForwardStep ==
  ASSUME TypeInv, CacheForward, [Next]_vars
  PROVE  CacheForward'
<1>1. CASE UNCHANGED <<nodeCache, reverseNodeCache>>
  BY <1>1 DEF CacheForward
<1>2. CASE Restart
  <2>1. CacheTypeOK /\ CacheRestart
    BY <1>2 DEF Restart, TypeInv, TypeOK
  <2>2. PICK f \in {cacheFile, <<>>} :
           nodeCache' = LoadedCache(f) /\ reverseNodeCache' = LoadedReverse(f)
    BY <2>1, RestartLoads
  <2>3. f \in Seq(Entry)
    BY <2>1, FileTyped
  <2>4. QED
    BY <2>2, <2>3, LoadedFacts DEF CacheForward
<1>3. ASSUME NEW r \in Object, NEW i \in NodeId, RegisterNew(r, i)
      PROVE  CacheForward'
  BY <1>3, SetEntryForward DEF RegisterNew, TypeInv, TypeOK, ControlOK
<1>4. QED
  BY <1>1, <1>2, <1>3, CacheSteps

(* For any number of devices and ids, two devices never have the same id   *)
(* in the cache, and the id of a device is reserved for it in the reverse  *)
(* cache that Register consults.                                           *)
THEOREM CacheForwardCorrect == Spec => []CacheForward
<1>1. Init => TypeInv /\ CacheForward
  BY InitType DEF Init, CacheInit, CacheForward
<1>2. (TypeInv /\ CacheForward) /\ [Next]_vars => (TypeInv /\ CacheForward)'
  BY TypeStep, ForwardStep
<1>3. QED
  BY <1>1, <1>2, PTL DEF Spec

(* Register takes only a free slot.                                        *)
LEMMA AssignedFree ==
  ASSUME NEW u, NEW i \in NodeId, Assigned(u, i)
  PROVE  Free(i)
BY DEF Assigned, Lowest, Unreserved, Free

(* The slots of the collection: filled by RegisterNew, emptied by others.  *)
LEMMA SlotSteps ==
  ASSUME TypeInv, [Next]_vars, NEW i \in NodeId, Nodes[i] # Null
  PROVE  Nodes'[i] \in {Nodes[i], Null}
<1> USE DEF TypeInv, TypeOK
<1>1. CASE \E u \in Udid, fw \in Firmware : AddressRequest(u, fw)
  BY <1>1 DEF AddressRequest
<1>2. ASSUME NEW r \in Object, NEW j \in NodeId, RegisterNew(r, j)
      PROVE  Nodes'[i] \in {Nodes[i], Null}
  <2>1. Nodes[j] = Null
    BY <1>2, AssignedFree DEF RegisterNew, Free
  <2>2. Nodes' = [Nodes EXCEPT ![j] = r]
    BY <1>2 DEF RegisterNew
  <2>3. QED BY <2>1, <2>2
<1>3. CASE RegisterFound \/ RegisterFull \/ Spawn
  BY <1>3 DEF RegisterFound, RegisterFull, Spawn
<1>4. CASE Handler
  BY <1>4 DEF Handler, ConfigureAck, BootAck, HandlerSetState
<1>5. CASE PingerWake \/ PingerVisit \/ PingerMark
  BY <1>5 DEF PingerWake, PingerVisit, PingerMark
<1>6. CASE PingerUnregister
  <2>1. Nodes' = [Nodes EXCEPT ![node[Head(pinger.dequeue)].id] = Null]
    BY <1>6 DEF PingerUnregister, Unregister
  <2>2. QED BY <2>1
<1>7. CASE PowerOff \/ Restart
  BY <1>7 DEF PowerOff, Restart
<1>8. CASE UNCHANGED registryVars
  BY <1>8 DEF registryVars
<1>9. CASE UNCHANGED vars
  BY <1>9 DEF vars, registryVars
<1>10. QED
  BY <1>1, <1>2, <1>3, <1>4, <1>5, <1>6, <1>7, <1>8, <1>9 DEF Next, Register, Pinger

(* For any number of devices and ids, Register never takes the slot of a   *)
(* registered node, whatever the pinger and the bus power did meanwhile.   *)
THEOREM NoStealCorrect == Spec => NoSteal
<1>1. Init => TypeInv
  BY InitType
<1>2. TypeInv /\ [Next]_vars => TypeInv'
  BY TypeStep
<1>3. TypeInv /\ [Next]_vars =>
        [\A i \in NodeId : Nodes[i] # Null => Nodes'[i] \in {Nodes[i], Null}]_vars
  BY SlotSteps
<1>4. QED
  BY <1>1, <1>2, <1>3, PTL DEF Spec, NoSteal
-----------------------------------------------------------------------------
(* The inductive invariant of a bus with an id for every device.  The      *)
(* reverse cache is exact in both directions, every object in use, removed *)
(* or not, has the id the cache remembers for its udid, and so two objects *)
(* of one id are objects of one device: whatever a goroutine does through  *)
(* a stale reference, it does to the right device.                         *)

CacheBackward ==
  \A i \in NodeId : reverseNodeCache[i] # NullUdid => nodeCache[reverseNodeCache[i]] = i

Remembered == \A r \in InUse : nodeCache[node[r].udid] = node[r].id

Keyed ==
  /\ \A i \in NodeId : Nodes[i] # Null => node[Nodes[i]].id = i
  /\ \A i \in NodeId : handler[i] # Null => node[handler[i]].id = i
  /\ \A u \in Udid : Udids[u] # Null => node[Udids[u]].udid = u

LockedAbsent == master.pc = "lock" => Udids[master.udid] = Null

(* A save writes every device once.                                        *)
Once(f) == \A j, k \in DOMAIN f : f[j].udid = f[k].udid => j = k

SavedOnce ==
  /\ Once(entries)
  /\ Once(cacheFile)
  /\ \A k \in DOMAIN entries : entries[k].udid \in visited

CacheInv == CacheForward /\ CacheBackward /\ SavedOnce
MapInv == Remembered /\ Keyed /\ Consistent /\ LockedAbsent
IInv == TypeInv /\ CacheInv /\ MapInv

(* While a device has no id in the cache, some id is neither in use nor    *)
(* reserved: fewer ids are reserved than there are devices.                *)
LEMMA SomeUnreserved ==
  ASSUME Enough, IInv, NEW u \in Udid, nodeCache[u] = 0
  PROVE  \E j \in NodeId : Unreserved(j)
<1> USE CacheAssumption, RegistryAssumption
<1>1. SUFFICES ASSUME \A j \in NodeId : ~Unreserved(j) PROVE FALSE
  OBVIOUS
<1>2. \A j \in NodeId : reverseNodeCache[j] # NullUdid
  <2>1. SUFFICES ASSUME NEW j \in NodeId, reverseNodeCache[j] = NullUdid PROVE FALSE
    OBVIOUS
  <2>2. Nodes[j] # Null
    BY <1>1, <2>1 DEF Unreserved, Free, NodeCacheReverseLookup
  <2>3. nodeCache[node[Nodes[j]].udid] = j /\ node[Nodes[j]].udid \in Udid
    BY <2>2, References DEF IInv, MapInv, Remembered, Keyed, Node
  <2>4. QED
    BY <2>1, <2>3 DEF IInv, CacheInv, CacheForward, NodeId
<1>3. reverseNodeCache \in [NodeId -> Udid \ {u}]
  <2>1. \A j \in NodeId : reverseNodeCache[j] \in Udid \ {u}
    BY <1>2 DEF IInv, TypeInv, TypeOK, CacheTypeOK, CacheInv, CacheBackward, NodeId
  <2>2. QED
    BY <2>1 DEF IInv, TypeInv, TypeOK, CacheTypeOK
<1>4. \A i, j \in NodeId : reverseNodeCache[i] = reverseNodeCache[j] => i = j
  BY <1>2 DEF IInv, CacheInv, CacheBackward
<1>5. IsFiniteSet(NodeId) /\ Cardinality(NodeId) = MaxNode
  BY FS_Interval DEF NodeId
<1>6. IsFiniteSet(Udid \ {u}) /\ Cardinality(Udid \ {u}) = Cardinality(Udid) - 1
  BY FS_RemoveElement
<1>7. Cardinality(Udid) \in Nat
  BY FS_CardinalityType
<1>8. Cardinality(Udid \ {u}) < Cardinality(NodeId)
  BY <1>5, <1>6, <1>7 DEF Enough
<1>9. \E x, y \in NodeId : x # y /\ reverseNodeCache[x] = reverseNodeCache[y]
  BY <1>3, <1>5, <1>6, <1>8, FS_PigeonHole
<1>10. QED
  BY <1>4, <1>9

(* A new node gets the id the cache has for its udid, or else an id that   *)
(* belongs to no one.                                                      *)
LEMMA FreshOrRemembered ==
  ASSUME Enough, IInv, NEW r \in Object, NEW i \in NodeId, RegisterNew(r, i)
  PROVE  /\ master.udid \in Udid
         /\ Free(i)
         /\ \/ nodeCache[master.udid] = i
            \/ nodeCache[master.udid] = 0 /\ reverseNodeCache[i] = NullUdid
<1> DEFINE u == master.udid
           c == nodeCache[master.udid]
<1>1. u \in Udid /\ master.pc = "lock" /\ Assigned(u, i)
  BY DEF RegisterNew, IInv, TypeInv, ControlOK
<1>2. Free(i)
  BY <1>1, AssignedFree
<1>3. CASE c # 0 /\ Nodes[c] = Null
  BY <1>1, <1>2, <1>3 DEF Assigned, NodeCacheLookup
<1>4. CASE c # 0 /\ Nodes[c] # Null
  <2>1. c \in NodeId
    BY <1>1, <1>4 DEF IInv, TypeInv, TypeOK, CacheTypeOK
  <2>2. /\ node[Nodes[c]].udid \in Udid
        /\ nodeCache[node[Nodes[c]].udid] = c
    BY <1>4, <2>1, References DEF IInv, MapInv, Remembered, Keyed, Node
  <2>3. node[Nodes[c]].udid = u
    BY <1>1, <1>4, <2>2 DEF IInv, CacheInv, CacheForward
  <2>4. Udids[u] = Nodes[c]
    BY <1>4, <2>1, <2>3 DEF IInv, MapInv, Consistent
  <2>5. Udids[u] = Null
    BY <1>1 DEF IInv, MapInv, LockedAbsent
  <2>6. QED BY <1>4, <2>4, <2>5
<1>5. CASE c = 0
  <2>1. \E j \in NodeId : Unreserved(j)
    BY <1>1, <1>5, SomeUnreserved
  <2>2. Unreserved(i)
    BY <1>1, <1>5, <2>1 DEF Assigned, NodeCacheLookup, Lowest
  <2>3. QED
    BY <1>1, <1>2, <1>5, <2>2 DEF Unreserved, NodeCacheReverseLookup
<1>6. QED
  BY <1>3, <1>4, <1>5

(* Creating a node changes at most the entry of its own device.            *)
LEMMA RegisterNewCache ==
  ASSUME Enough, IInv, NEW r \in Object, NEW i \in NodeId, RegisterNew(r, i)
  PROVE  /\ nodeCache'[master.udid] = i
         /\ \A u \in Udid : nodeCache[u] # 0 => nodeCache'[u] = nodeCache[u]
         /\ CacheBackward'
         /\ SavedOnce'
<1> DEFINE u == master.udid
<1> USE CacheAssumption DEF IInv, TypeInv, TypeOK, CacheTypeOK, CacheInv
<1>1. u \in Udid /\ NodeCacheSetEntry(u, i)
  BY FreshOrRemembered DEF RegisterNew
<1>2. CASE nodeCache[u] = i
  BY <1>1, <1>2 DEF NodeCacheSetEntry, cacheVars, CacheBackward, SavedOnce, Once
<1>3. CASE nodeCache[u] # i
  <2>1. nodeCache[u] = 0 /\ reverseNodeCache[i] = NullUdid
    BY <1>3, FreshOrRemembered
  <2>2. /\ nodeCache' = [v \in Udid |-> IF v = u THEN i
                                        ELSE IF v = NullUdid THEN 0
                                        ELSE nodeCache[v]]
        /\ reverseNodeCache' = [reverseNodeCache EXCEPT ![i] = u]
        /\ visited' = visited \ {NullUdid}
        /\ UNCHANGED <<entries, cacheFile>>
    BY <1>1, <1>3, <2>1 DEF NodeCacheSetEntry
  <2>3. nodeCache' = [nodeCache EXCEPT ![u] = i] /\ visited' = visited
    <3>1. NullUdid \notin Udid /\ NullUdid \notin visited
      OBVIOUS
    <3>2. \A v \in Udid : v # NullUdid
      BY <3>1
    <3>3. nodeCache' = [nodeCache EXCEPT ![u] = i]
      BY <1>1, <2>2, <3>2
    <3>4. visited' = visited
      BY <2>2, <3>1
    <3>5. QED BY <3>3, <3>4
  <2>4. \A v \in Udid : nodeCache[v] # 0 => nodeCache'[v] = nodeCache[v]
    BY <1>1, <2>1, <2>3
  <2>5. CacheBackward'
    <3>1. SUFFICES ASSUME NEW j \in NodeId, reverseNodeCache'[j] # NullUdid
                   PROVE  nodeCache'[reverseNodeCache'[j]] = j
      BY DEF CacheBackward
    <3>2. CASE j = i
      BY <1>1, <2>2, <2>3, <3>2
    <3>3. CASE j # i
      <4>1. /\ reverseNodeCache'[j] = reverseNodeCache[j]
            /\ reverseNodeCache[j] \in Udid
            /\ nodeCache[reverseNodeCache[j]] = j
        BY <2>2, <3>1, <3>3 DEF CacheBackward
      <4>2. QED BY <2>4, <4>1 DEF NodeId
    <3>4. QED BY <3>2, <3>3
  <2>6. SavedOnce'
    BY <2>2, <2>3 DEF SavedOnce, Once
  <2>7. QED BY <1>1, <2>3, <2>4, <2>5, <2>6
<1>4. QED BY <1>2, <1>3

(* A save step writes no device twice.                                     *)
LEMMA SaveOnceStep ==
  ASSUME CacheTypeOK, SavedOnce, SaveNext
  PROVE  SavedOnce'
<1> USE DEF CacheTypeOK, SavedOnce
<1>0. Once(<<>>)
  BY DEF Once
<1>1. CASE SaveStart
  <2>1. /\ entries' = <<>> \/ (entries' = entries /\ visited' = visited)
        /\ cacheFile' = cacheFile
    BY <1>1, Zenon DEF SaveStart
  <2>2. QED BY <1>0, <2>1 DEF Once
<1>2. ASSUME NEW u \in Udid, SaveVisit(u) PROVE SavedOnce'
  <2> DEFINE e == [udid |-> u, id |-> nodeCache[u]]
  <2>1. /\ entries' = Append(entries, e)
        /\ visited' = visited \cup {u}
        /\ cacheFile' = cacheFile
        /\ u \notin visited
        /\ nodeCache[u] # 0
    BY <1>2 DEF SaveVisit
  <2>2. e \in Entry
    BY <2>1 DEF Entry
  <2>3. /\ DOMAIN entries' = 1..Len(entries)+1
        /\ DOMAIN entries = 1..Len(entries)
        /\ Len(entries) \in Nat
        /\ \A k \in 1..Len(entries) : entries'[k] = entries[k]
        /\ entries'[Len(entries)+1].udid = u
    BY <2>1, <2>2
  <2>4. QED
    BY <2>1, <2>3 DEF Once
<1>3. CASE SaveIterated
  BY <1>3 DEF SaveIterated, Once
<1>4. CASE SaveCreate
  <2>1. /\ cacheFile' = <<>> \/ cacheFile' = cacheFile
        /\ UNCHANGED <<entries, visited>>
    BY <1>4, Zenon DEF SaveCreate
  <2>2. QED BY <1>0, <2>1 DEF Once
<1>5. CASE SaveWrite
  <2>1. /\ cacheFile' = entries \/ cacheFile' = cacheFile
        /\ UNCHANGED <<entries, visited>>
    BY <1>5, Zenon DEF SaveWrite
  <2>2. QED BY <2>1 DEF Once
<1>6. CASE SaveClear
  BY <1>6 DEF SaveClear, Once
<1>7. QED
  BY <1>1, <1>2, <1>3, <1>4, <1>5, <1>6, SaveNext DEF SaveNext

(* The cache part of the invariant, and what a step may do to the cache.   *)
LEMMA CacheInvStep ==
  ASSUME Enough, IInv, [Next]_vars
  PROVE  /\ CacheInv'
         /\ Restart \/ \A u \in Udid : nodeCache[u] # 0 => nodeCache'[u] = nodeCache[u]
<1>1. CacheForward'
  BY ForwardStep DEF IInv, CacheInv
<1>2. ASSUME NEW r \in Object, NEW i \in NodeId, RegisterNew(r, i)
      PROVE  /\ CacheInv'
             /\ \A u \in Udid : nodeCache[u] # 0 => nodeCache'[u] = nodeCache[u]
  BY <1>1, <1>2, RegisterNewCache DEF CacheInv
<1>3. CASE Restart
  <2>0. CacheTypeOK /\ CacheRestart
    BY <1>3 DEF Restart, IInv, TypeInv, TypeOK
  <2>a. PICK f \in {cacheFile, <<>>} :
           nodeCache' = LoadedCache(f) /\ reverseNodeCache' = LoadedReverse(f)
    BY <2>0, RestartLoads
  <2>b. f \in Seq(Entry)
    BY <2>0, FileTyped
  <2>c. Once(<<>>)
    BY DEF Once
  <2>d. Once(cacheFile)
    BY DEF IInv, CacheInv, SavedOnce
  <2>e. Once(f)
    BY <2>c, <2>d
  <2>1. f \in Seq(Entry) /\ Once(f) /\ Once(<<>>) /\ Once(cacheFile)
    BY <2>b, <2>c, <2>d, <2>e
  <2>2. /\ nodeCache' = LoadedCache(f)
        /\ reverseNodeCache' = LoadedReverse(f)
        /\ entries' = <<>>
        /\ cacheFile' \in {cacheFile, <<>>}
    BY <2>0, <2>a, RestartLoads DEF CacheRestart
  <2>3. ASSUME NEW i \in NodeId, LoadedReverse(f)[i] # NullUdid
        PROVE  LoadedCache(f)[LoadedReverse(f)[i]] = i
    <3>1. PICK k \in Loaded(f) : f[k].id = i /\ f[k].udid = LoadedReverse(f)[i]
      BY <2>1, <2>3, LoadedFacts
    <3>2. f[k].udid \in Udid /\ LoadedCache(f)[f[k].udid] # 0
      BY <2>1, <2>3, <3>1, LoadedFacts
    <3>3. PICK j \in Loaded(f) : f[j].udid = f[k].udid /\ f[j].id = LoadedCache(f)[f[k].udid]
      BY <2>1, <3>2, LoadedFacts
    <3>4. j = k
      BY <2>1, <3>3 DEF Once, Loaded
    <3>5. QED BY <3>1, <3>3, <3>4
  <2>4. CacheBackward'
    BY <2>2, <2>3 DEF CacheBackward
  <2>5. SavedOnce'
    <3>1. Once(cacheFile)' /\ Once(entries)'
      BY <2>1, <2>2 DEF Once
    <3>2. \A k \in DOMAIN entries' : entries'[k].udid \in visited'
      BY <2>2
    <3>3. QED BY <3>1, <3>2 DEF SavedOnce
  <2>6. QED BY <1>1, <1>3, <2>4, <2>5 DEF CacheInv
<1>4. CASE UNCHANGED registryVars /\ SaveNext
  <2>1. UNCHANGED <<nodeCache, reverseNodeCache>> /\ SavedOnce'
    BY <1>4, SaveStep, SaveOnceStep DEF IInv, TypeInv, TypeOK, CacheInv
  <2>2. QED BY <1>1, <2>1 DEF IInv, CacheInv, CacheBackward
<1>5. CASE UNCHANGED cacheVars
  BY <1>1, <1>5 DEF IInv, CacheInv, CacheBackward, SavedOnce, Once, cacheVars
<1>6. CASE (\E u \in Udid, fw \in Firmware : AddressRequest(u, fw)) \/ RegisterFound
             \/ RegisterFull \/ Spawn \/ PowerOff \/ Handler \/ Pinger \/ UNCHANGED vars
  <2>1. UNCHANGED cacheVars
    <3>1. CASE \E u \in Udid, fw \in Firmware : AddressRequest(u, fw)
      BY <3>1 DEF AddressRequest
    <3>2. CASE RegisterFound \/ RegisterFull \/ Spawn \/ PowerOff
      BY <3>2 DEF RegisterFound, RegisterFull, Spawn, PowerOff
    <3>3. CASE Handler
      BY <3>3 DEF Handler, ConfigureAck, BootAck, HandlerSetState
    <3>4. CASE Pinger
      BY <3>4 DEF Pinger, PingerWake, PingerVisit, PingerMark, PingerUnregister
    <3>5. CASE UNCHANGED vars
      BY <3>5 DEF vars
    <3>6. QED BY <1>6, <3>1, <3>2, <3>3, <3>4, <3>5
  <2>2. QED BY <1>5, <2>1
<1>7. QED
  <2>1. CASE \E r \in Object, i \in NodeId : RegisterNew(r, i)
    BY <1>2, <2>1
  <2>2. QED
    BY <1>3, <1>4, <1>6, <2>1 DEF Next, Register

(* What the maps refer to after a step is in use after it.                 *)
LEMMA ReferencesNext ==
  ASSUME TypeInv'
  PROVE  /\ \A i \in NodeId : Nodes'[i] # Null => Nodes'[i] \in InUse'
         /\ \A i \in NodeId : handler'[i] # Null => handler'[i] \in InUse'
         /\ \A u \in Udid : Udids'[u] # Null => Udids'[u] \in InUse'
         /\ InUse' \subseteq Object
         /\ \A r \in InUse' : node'[r] \in Node
BY RegistryAssumption DEF TypeInv, TypeOK, InUse

(* An object that stays in use keeps the id the cache remembers for it.    *)
LEMMA RememberedStep ==
  ASSUME Enough, IInv, [Next]_vars, ~Restart, NEW r \in InUse, r \in InUse'
  PROVE  nodeCache'[node'[r].udid] = node'[r].id
<1>1. SameIdentity /\ r \in Object /\ node[r] \in Node
  BY TypeStep, References DEF IInv
<1>2. node'[r].id = node[r].id /\ node'[r].udid = node[r].udid
  BY <1>1 DEF SameIdentity
<1>3. nodeCache[node[r].udid] = node[r].id /\ node[r].udid \in Udid /\ node[r].id # 0
  BY <1>1, CacheAssumption DEF IInv, MapInv, Remembered, Node, NodeId
<1>4. QED
  BY <1>2, <1>3, CacheInvStep

(* A step that fills no slot: the maps stay keyed and consistent if their  *)
(* entries disappear in pairs.                                             *)
LEMMA ShrinkStep ==
  ASSUME Enough, IInv, [Next]_vars, ~Restart, InUse' \subseteq InUse,
         \A i \in NodeId : Nodes'[i] \in {Nodes[i], Null},
         \A u \in Udid : Udids'[u] \in {Udids[u], Null},
         \A i \in NodeId : Nodes[i] # Null =>
            (Nodes'[i] = Null <=> Udids'[node[Nodes[i]].udid] = Null),
         \A i \in NodeId : handler'[i] # Null => node'[handler'[i]].id = i,
         LockedAbsent'
  PROVE  MapInv'
<1>1. TypeInv' /\ SameIdentity
  BY TypeStep DEF IInv
<1>2. Remembered'
  BY RememberedStep DEF Remembered
<1>3. ASSUME NEW i \in NodeId, Nodes'[i] # Null
      PROVE  /\ Nodes'[i] = Nodes[i]
             /\ node[Nodes[i]].id = i
             /\ node'[Nodes'[i]].id = i
             /\ node'[Nodes'[i]].udid = node[Nodes[i]].udid
             /\ node[Nodes[i]].udid \in Udid
             /\ Udids[node[Nodes[i]].udid] = Nodes[i]
  <2>1. Nodes'[i] = Nodes[i] /\ Nodes[i] \in InUse /\ Nodes[i] \in InUse' /\ Nodes[i] \in Object
    BY <1>1, <1>3, References, ReferencesNext DEF IInv
  <2>2. QED
    BY <1>1, <1>3, <2>1, References DEF SameIdentity, IInv, MapInv, Keyed, Consistent, Node
<1>4. ASSUME NEW u \in Udid, Udids'[u] # Null
      PROVE  /\ Udids'[u] = Udids[u]
             /\ node[Udids[u]].udid = u
             /\ node'[Udids'[u]].udid = u
             /\ node'[Udids'[u]].id = node[Udids[u]].id
             /\ node[Udids[u]].id \in NodeId
             /\ Nodes[node[Udids[u]].id] = Udids[u]
  <2>1. Udids'[u] = Udids[u] /\ Udids[u] \in InUse /\ Udids[u] \in InUse' /\ Udids[u] \in Object
    BY <1>1, <1>4, References, ReferencesNext DEF IInv
  <2>2. QED
    BY <1>1, <1>4, <2>1, References DEF SameIdentity, IInv, MapInv, Keyed, Consistent, Node
<1>5. Keyed'
  BY <1>3, <1>4 DEF Keyed
<1>6. Consistent'
  <2>1. ASSUME NEW i \in NodeId, Nodes'[i] # Null
        PROVE  Udids'[node'[Nodes'[i]].udid] = Nodes'[i]
    BY <1>3, <2>1
  <2>2. ASSUME NEW u \in Udid, Udids'[u] # Null
        PROVE  Nodes'[node'[Udids'[u]].id] = Udids'[u]
    BY <1>4, <2>2
  <2>3. QED BY <2>1, <2>2 DEF Consistent
<1>7. QED
  BY <1>2, <1>5, <1>6 DEF MapInv

(* Creating a node adds one entry to each map.                             *)
LEMMA RegisterNewMaps ==
  ASSUME Enough, IInv, NEW r \in Object, NEW i \in NodeId, RegisterNew(r, i)
  PROVE  MapInv'
<1> DEFINE u == master.udid
<1> USE RegistryAssumption
<1>1. [Next]_vars
  BY DEF Next, Register
<1>2. ~Restart
  <2>1. master'.pc = "spawn"
    BY DEF RegisterNew, IInv, TypeInv, TypeOK
  <2>2. QED BY <2>1 DEF Restart, Idle
<1>3. TypeInv' /\ SameIdentity
  BY <1>1, TypeStep DEF IInv
<1>4. /\ u \in Udid
      /\ Nodes[i] = Null
      /\ Udids[u] = Null
      /\ r \notin InUse
      /\ Nodes' = [Nodes EXCEPT ![i] = r]
      /\ Udids' = [Udids EXCEPT ![u] = r]
      /\ handler' = handler
      /\ master' = [master EXCEPT !.pc = "spawn", !.ref = r]
      /\ pinger' = pinger
  BY FreshOrRemembered DEF RegisterNew, Free, IInv, MapInv, LockedAbsent
<1>5. InUse' \subseteq InUse \cup {r} /\ r \in InUse'
  BY <1>4 DEF InUse, IInv, TypeInv, TypeOK
<1>6. node'[r].id = i /\ node'[r].udid = u
  BY <1>5 DEF RegisterNew, Store, IInv, TypeInv, TypeOK
<1>7. Remembered'
  <2>1. SUFFICES ASSUME NEW q \in InUse' PROVE nodeCache'[node'[q].udid] = node'[q].id
    BY DEF Remembered
  <2>2. CASE q = r
    BY <1>6, <2>2, RegisterNewCache
  <2>3. CASE q # r
    BY <1>1, <1>2, <1>5, <2>3, RememberedStep
  <2>4. QED BY <2>2, <2>3
<1>8. ASSUME NEW j \in NodeId, j # i, Nodes[j] # Null
      PROVE  /\ Nodes'[j] = Nodes[j]
             /\ node'[Nodes[j]].id = j
             /\ node'[Nodes[j]].udid = node[Nodes[j]].udid
             /\ node[Nodes[j]].udid \in Udid
             /\ Udids[node[Nodes[j]].udid] = Nodes[j]
  <2>1. Nodes'[j] = Nodes[j]
    BY <1>4, <1>8 DEF IInv, TypeInv, TypeOK
  <2>2. Nodes[j] \in InUse /\ Nodes[j] \in InUse' /\ Nodes[j] \in Object
    BY <1>3, <1>8, <2>1, References, ReferencesNext DEF IInv
  <2>3. QED
    BY <1>3, <1>8, <2>1, <2>2, References DEF SameIdentity, IInv, MapInv, Keyed, Consistent, Node
<1>9. ASSUME NEW v \in Udid, v # u, Udids[v] # Null
      PROVE  /\ Udids'[v] = Udids[v]
             /\ node'[Udids[v]].udid = v
             /\ node'[Udids[v]].id = node[Udids[v]].id
             /\ node[Udids[v]].id \in NodeId
             /\ Nodes[node[Udids[v]].id] = Udids[v]
  <2>1. Udids'[v] = Udids[v]
    BY <1>4, <1>9 DEF IInv, TypeInv, TypeOK
  <2>2. Udids[v] \in InUse /\ Udids[v] \in InUse' /\ Udids[v] \in Object
    BY <1>3, <1>9, <2>1, References, ReferencesNext DEF IInv
  <2>3. QED
    BY <1>3, <1>9, <2>1, <2>2, References DEF SameIdentity, IInv, MapInv, Keyed, Consistent, Node
<1>10. ASSUME NEW j \in NodeId, handler'[j] # Null
       PROVE  node'[handler'[j]].id = j
  <2>1. handler[j] \in InUse /\ handler[j] \in InUse' /\ handler[j] \in Object
    BY <1>3, <1>4, <1>10, References, ReferencesNext DEF IInv
  <2>2. QED
    BY <1>3, <1>4, <1>10, <2>1 DEF SameIdentity, IInv, MapInv, Keyed
<1>11. /\ Nodes'[i] = r /\ Udids'[u] = r
       /\ \A j \in NodeId : j # i => Nodes'[j] = Nodes[j]
       /\ \A v \in Udid : v # u => Udids'[v] = Udids[v]
  BY <1>4 DEF IInv, TypeInv, TypeOK
<1>12. Keyed'
  BY <1>6, <1>8, <1>9, <1>10, <1>11 DEF Keyed
<1>13. Consistent'
  <2>1. ASSUME NEW j \in NodeId, Nodes'[j] # Null
        PROVE  Udids'[node'[Nodes'[j]].udid] = Nodes'[j]
    <3>1. CASE j = i
      BY <1>6, <1>11, <3>1
    <3>2. CASE j # i
      BY <1>4, <1>8, <1>9, <1>11, <2>1, <3>2
    <3>3. QED BY <3>1, <3>2
  <2>2. ASSUME NEW v \in Udid, Udids'[v] # Null
        PROVE  Nodes'[node'[Udids'[v]].id] = Udids'[v]
    <3>1. CASE v = u
      BY <1>6, <1>11, <3>1
    <3>2. CASE v # u
      BY <1>4, <1>9, <1>11, <2>2, <3>2
    <3>3. QED BY <3>1, <3>2
  <2>3. QED BY <2>1, <2>2 DEF Consistent
<1>14. LockedAbsent'
  BY <1>4 DEF LockedAbsent, IInv, TypeInv, TypeOK
<1>15. QED
  BY <1>7, <1>12, <1>13, <1>14 DEF MapInv

(* A handler keeps serving an object of its id.                            *)
LEMMA HandlerKeyed ==
  ASSUME IInv, [Next]_vars, handler' = handler, NEW i \in NodeId, handler'[i] # Null
  PROVE  node'[handler'[i]].id = i
<1>1. TypeInv' /\ SameIdentity
  BY TypeStep DEF IInv
<1>2. handler[i] \in InUse /\ handler[i] \in InUse' /\ handler[i] \in Object
  BY <1>1, References, ReferencesNext DEF IInv
<1>3. QED
  BY <1>1, <1>2 DEF SameIdentity, IInv, MapInv, Keyed

(* The map part of the invariant.                                          *)
LEMMA MapInvStep ==
  ASSUME Enough, IInv, [Next]_vars
  PROVE  MapInv'
<1> USE RegistryAssumption
<1>1. CASE \E r \in Object, i \in NodeId : RegisterNew(r, i)
  BY <1>1, RegisterNewMaps
<1>2. CASE Restart
  <2>1. InUse' = {}
    BY <1>2 DEF Restart, InUse, Idle, Asleep
  <2>2. QED
    BY <1>2, <2>1 DEF Restart, MapInv, Remembered, Keyed, Consistent, LockedAbsent, Idle
<1>3. ASSUME ~Restart, ~ \E r \in Object, i \in NodeId : RegisterNew(r, i)
      PROVE  MapInv'
  <2>1. InUse' \subseteq InUse
    BY <1>3, TypeStep DEF IInv, Reused
  <2>2. CASE UNCHANGED <<Nodes, Udids, handler>> /\ LockedAbsent'
    <3>1. \A i \in NodeId : Nodes[i] # Null => Udids[node[Nodes[i]].udid] # Null
      BY DEF IInv, MapInv, Consistent
    <3>2. \A i \in NodeId : handler'[i] # Null => node'[handler'[i]].id = i
      BY <2>2, HandlerKeyed
    <3>3. QED
      BY <1>3, <2>1, <2>2, <3>1, <3>2, ShrinkStep
  <2>3. CASE Spawn
    <3>1. /\ UNCHANGED <<Nodes, Udids>>
          /\ master.ref \in InUse
          /\ node[master.ref].id \in NodeId
          /\ handler' = [handler EXCEPT ![node[master.ref].id] = master.ref]
          /\ master' = Idle
      BY <2>3, References DEF Spawn, Node, IInv
    <3>2. \A i \in NodeId : Nodes[i] # Null => Udids[node[Nodes[i]].udid] # Null
      BY DEF IInv, MapInv, Consistent
    <3>3. LockedAbsent'
      BY <3>1 DEF LockedAbsent, Idle
    <3>4. ASSUME NEW i \in NodeId, handler'[i] # Null
          PROVE  node'[handler'[i]].id = i
      <4>1. node[handler'[i]].id = i /\ handler'[i] \in InUse
        BY <3>1, <3>4, References DEF IInv, MapInv, Keyed, TypeInv, TypeOK
      <4>2. handler'[i] \in InUse' /\ handler'[i] \in Object /\ SameIdentity
        BY <3>4, <4>1, TypeStep, References, ReferencesNext DEF IInv
      <4>3. QED BY <4>1, <4>2 DEF SameIdentity
    <3>5. QED
      BY <1>3, <2>1, <3>1, <3>2, <3>3, <3>4, ShrinkStep
  <2>4. CASE PingerUnregister
    <3> DEFINE h == Head(pinger.dequeue)
    <3>1. h \in InUse /\ node[h] \in Node
      BY <2>4, References DEF PingerUnregister, IInv
    <3>2. /\ Udids' = [Udids EXCEPT ![node[h].udid] = Null]
          /\ Nodes' = [Nodes EXCEPT ![node[h].id] = Null]
          /\ UNCHANGED <<handler, master>>
      BY <2>4 DEF PingerUnregister, Unregister
    <3> HIDE DEF h
    <3> DEFINE d == node[h].id
               v == node[h].udid
    <3>3. d \in NodeId /\ v \in Udid /\ nodeCache[v] = d
      BY <3>1 DEF Node, IInv, MapInv, Remembered
    <3>4. /\ Nodes'[d] = Null /\ Udids'[v] = Null
          /\ \A i \in NodeId : i # d => Nodes'[i] = Nodes[i]
          /\ \A u \in Udid : u # v => Udids'[u] = Udids[u]
      BY <3>2, <3>3 DEF IInv, TypeInv, TypeOK
    <3>5. ASSUME NEW i \in NodeId, Nodes[i] # Null
          PROVE  /\ Udids[node[Nodes[i]].udid] = Nodes[i]
                 /\ node[Nodes[i]].udid \in Udid
                 /\ (node[Nodes[i]].udid = v <=> i = d)
      <4>1. /\ Udids[node[Nodes[i]].udid] = Nodes[i]
            /\ node[Nodes[i]].udid \in Udid
            /\ nodeCache[node[Nodes[i]].udid] = i
        BY <3>5, References DEF IInv, MapInv, Consistent, Keyed, Remembered, Node
      <4>2. QED
        BY <3>3, <4>1, CacheAssumption DEF IInv, CacheInv, CacheForward, NodeId
    <3>6. \A i \in NodeId : Nodes[i] # Null =>
            (Nodes'[i] = Null <=> Udids'[node[Nodes[i]].udid] = Null)
      BY <3>4, <3>5
    <3>7. LockedAbsent'
      BY <3>2, <3>4 DEF IInv, MapInv, LockedAbsent, TypeInv, ControlOK
    <3>8. \A i \in NodeId : handler'[i] # Null => node'[handler'[i]].id = i
      BY <3>2, HandlerKeyed
    <3>9. /\ \A i \in NodeId : Nodes'[i] \in {Nodes[i], Null}
          /\ \A u \in Udid : Udids'[u] \in {Udids[u], Null}
      BY <3>4
    <3>10. QED
      BY <1>3, <2>1, <3>6, <3>7, <3>8, <3>9, ShrinkStep
  <2>5. CASE PowerOff
    <3>1. /\ Nodes' = [i \in NodeId |-> Null]
          /\ Udids' = [u \in Udid |-> Null]
          /\ UNCHANGED <<handler, master>>
      BY <2>5 DEF PowerOff
    <3>2. \A i \in NodeId : Nodes[i] # Null => node[Nodes[i]].udid \in Udid
      BY References DEF IInv, Node
    <3>3. LockedAbsent'
      BY <3>1 DEF IInv, LockedAbsent, TypeInv, ControlOK
    <3>4. \A i \in NodeId : handler'[i] # Null => node'[handler'[i]].id = i
      BY <3>1, HandlerKeyed
    <3>5. QED
      BY <1>3, <2>1, <3>1, <3>2, <3>3, <3>4, ShrinkStep
  <2>6. ASSUME NEW u \in Udid, NEW fw \in Firmware, AddressRequest(u, fw)
        PROVE  MapInv'
    <3>1. UNCHANGED <<Nodes, Udids, handler>> /\ LockedAbsent'
      BY <2>6 DEF AddressRequest, Lookup, LockedAbsent
    <3>2. QED BY <2>2, <3>1
  <2>7. CASE UNCHANGED <<Nodes, Udids, handler, master>>
    BY <2>2, <2>7 DEF IInv, MapInv, LockedAbsent
  <2>8. CASE RegisterFound \/ RegisterFull
    <3>1. UNCHANGED <<Nodes, Udids, handler>> /\ master'.pc # "lock"
      BY <2>8 DEF RegisterFound, RegisterFull, Idle, IInv, TypeInv, TypeOK
    <3>2. QED BY <2>2, <3>1 DEF LockedAbsent
  <2>9. CASE Handler \/ PingerWake \/ PingerVisit \/ PingerMark \/ UNCHANGED registryVars \/ UNCHANGED vars
    <3>1. UNCHANGED <<Nodes, Udids, handler, master>>
      BY <2>9 DEF Handler, ConfigureAck, BootAck, HandlerSetState, PingerWake, PingerVisit,
                  PingerMark, registryVars, vars
    <3>2. QED BY <2>7, <3>1
  <2>10. QED
    BY <1>3, <2>3, <2>4, <2>5, <2>6, <2>8, <2>9 DEF Next, Register, Pinger
<1>4. QED
  BY <1>1, <1>2, <1>3

(* The inductive invariant.                                                *)
LEMMA InvariantStep ==
  ASSUME Enough
  PROVE  /\ Init => IInv
         /\ IInv /\ [Next]_vars => IInv'
<1>1. ASSUME Init PROVE IInv
  <2>1. TypeInv /\ InUse = {}
    BY <1>1, InitType
  <2>2. MapInv
    BY <1>1, <2>1 DEF Init, MapInv, Remembered, Keyed, Consistent, LockedAbsent, Idle
  <2>3. CacheInv
    BY <1>1 DEF Init, CacheInit, CacheInv, CacheForward, CacheBackward, SavedOnce, Once
  <2>4. QED BY <2>1, <2>2, <2>3 DEF IInv
<1>2. ASSUME IInv, [Next]_vars PROVE IInv'
  BY <1>2, TypeStep, CacheInvStep, MapInvStep DEF IInv
<1>3. QED BY <1>1, <1>2

(* With an id for every device, the slots and the udid map of the          *)
(* collection always describe the same nodes, although the pinger          *)
(* unregisters nodes it collected earlier.                                 *)
THEOREM ConsistentCorrect ==
  ASSUME Enough
  PROVE  Spec => []Consistent
<1>1. IInv => Consistent
  BY DEF IInv, MapInv
<1>2. QED
  BY <1>1, InvariantStep, PTL DEF Spec

(* With an id for every device, Register never changes or withdraws an id  *)
(* it has given: the fallback that overwrites a cache entry is never used. *)
THEOREM StableAddressCorrect ==
  ASSUME Enough
  PROVE  Spec => StableAddress
<1>1. IInv /\ [Next]_vars =>
        [Restart \/ \A u \in Udid : nodeCache[u] # 0 => nodeCache'[u] = nodeCache[u]]_vars
  BY CacheInvStep
<1>2. QED
  BY <1>1, InvariantStep, PTL DEF Spec, StableAddress

(* With an id for every device, an id is configured for one device only as *)
(* long as the daemon runs.                                                *)
THEOREM IdNotReusedCorrect ==
  ASSUME Enough
  PROVE  Spec => IdNotReused
<1>1. ASSUME IInv, [Next]_vars
      PROVE  \A i \in NodeId : handler[i] # Null /\ handler'[i] # Null =>
                node'[handler'[i]].udid = node[handler[i]].udid
  <2>1. SUFFICES ASSUME NEW i \in NodeId, handler[i] # Null, handler'[i] # Null
                 PROVE  node'[handler'[i]].udid = node[handler[i]].udid
    OBVIOUS
  <2>2. IInv' /\ ~Restart
    BY <1>1, <2>1, InvariantStep DEF Restart
  <2>3. /\ node[handler[i]].udid \in Udid
        /\ nodeCache[node[handler[i]].udid] = i
    BY <1>1, <2>1, References DEF IInv, MapInv, Keyed, Remembered, Node
  <2>4. handler'[i] \in InUse' /\ node'[handler'[i]].udid \in Udid
    BY <2>1, <2>2, ReferencesNext DEF IInv, Node
  <2>5. nodeCache'[node'[handler'[i]].udid] = i
    BY <2>1, <2>2, <2>4 DEF IInv, MapInv, Keyed, Remembered
  <2>6. nodeCache'[node[handler[i]].udid] = i
    BY <1>1, <2>2, <2>3, CacheInvStep, CacheAssumption DEF NodeId
  <2>7. QED
    BY <2>2, <2>3, <2>4, <2>5, <2>6, CacheAssumption DEF IInv, CacheInv, CacheForward, NodeId
<1>2. IInv /\ [Next]_vars =>
        [\A i \in NodeId : handler[i] # Null /\ handler'[i] # Null =>
            node'[handler'[i]].udid = node[handler[i]].udid]_vars
  BY <1>1
<1>3. QED
  BY <1>2, InvariantStep, PTL DEF Spec, IdNotReused

(* With an id for every device, what Unregister clears, though it does not *)
(* look whose entries they are by now, belonged to the device the pinger   *)
(* had collected: the pinger drops no other device by mistake.             *)
THEOREM RemovesOwnDeviceCorrect ==
  ASSUME Enough
  PROVE  Spec => RemovesOwnDevice
<1>1. ASSUME IInv, PingerUnregister
      PROVE  LET u == node[Head(pinger.dequeue)].udid IN
             /\ \A i \in NodeId : Nodes[i] # Nodes'[i] => node[Nodes[i]].udid = u
             /\ \A v \in Udid : Udids[v] # Udids'[v] => node[Udids[v]].udid = u
  <2>1. PICK r : r = Head(pinger.dequeue)
    OBVIOUS
  <2>2. /\ Udids' = [Udids EXCEPT ![node[r].udid] = Null]
        /\ Nodes' = [Nodes EXCEPT ![node[r].id] = Null]
    BY <1>1, <2>1 DEF PingerUnregister, Unregister
  <2>3. r \in InUse /\ node[r].udid \in Udid /\ node[r].id \in NodeId /\ nodeCache[node[r].udid] = node[r].id
    BY <1>1, <2>1, References DEF IInv, MapInv, Remembered, Node, PingerUnregister
  <2>4. ASSUME NEW i \in NodeId, Nodes[i] # Nodes'[i]
        PROVE  node[Nodes[i]].udid = node[r].udid
    <3>1. i = node[r].id /\ Nodes[i] # Null
      BY <1>1, <2>2, <2>4 DEF IInv, TypeInv, TypeOK
    <3>2. node[Nodes[i]].udid \in Udid /\ nodeCache[node[Nodes[i]].udid] = i
      BY <1>1, <3>1, References DEF IInv, MapInv, Keyed, Remembered, Node
    <3>3. QED
      BY <1>1, <2>3, <3>1, <3>2, CacheAssumption DEF IInv, CacheInv, CacheForward, NodeId
  <2>5. ASSUME NEW v \in Udid, Udids[v] # Udids'[v]
        PROVE  node[Udids[v]].udid = node[r].udid
    <3>1. v = node[r].udid /\ Udids[v] # Null
      BY <1>1, <2>2, <2>5 DEF IInv, TypeInv, TypeOK
    <3>2. QED
      BY <1>1, <3>1 DEF IInv, MapInv, Keyed
  <2>6. QED BY <2>1, <2>4, <2>5
<1>2. IInv /\ [Next]_vars =>
        [PingerUnregister =>
           LET u == node[Head(pinger.dequeue)].udid IN
           /\ \A i \in NodeId : Nodes[i] # Nodes'[i] => node[Nodes[i]].udid = u
           /\ \A v \in Udid : Udids[v] # Udids'[v] => node[Udids[v]].udid = u]_vars
  BY <1>1
<1>3. QED
  BY <1>2, InvariantStep, PTL DEF Spec, RemovesOwnDevice
-----------------------------------------------------------------------------
(* What a running save has gathered, as long as no change went past it,    *)
(* and what the file holds when none is running.                           *)
Accurate(f) == \A k \in DOMAIN f : nodeCache[f[k].udid] = f[k].id
Names(f, u) == \E k \in DOMAIN f : f[k].udid = u

Saving ==
  /\ saver = "armed" => isDirty = TRUE
  /\ ~missed /\ saver = "iterate" =>
       Accurate(entries) /\ \A u \in Udid : nodeCache[u] # 0 => u \in must \/ Names(entries, u)
  /\ ~missed /\ saver \in {"create", "write"} =>
       Accurate(entries) /\ \A u \in Udid : nodeCache[u] # 0 => Names(entries, u)
  /\ ~missed /\ usable /\ saver \in {"clear", "none"} => LoadedCache(cacheFile) = nodeCache

(* A file with an accurate entry for each device of the cache loads as the *)
(* cache, whatever the order of its entries.                               *)
LEMMA LoadsExactly ==
  ASSUME CacheTypeOK, CacheForward, NEW f \in Seq(Entry), Accurate(f),
         \A u \in Udid : nodeCache[u] # 0 => Names(f, u)
  PROVE  LoadedCache(f) = nodeCache
<1> USE CacheAssumption
<1>0. /\ DOMAIN f = 1..Len(f) /\ Len(f) \in Nat
      /\ \A k \in DOMAIN f : f[k] \in Entry /\ f[k].udid \in Udid /\ f[k].id \in NodeId
  <2>1. DOMAIN f = 1..Len(f) /\ Len(f) \in Nat /\ \A k \in DOMAIN f : f[k] \in Entry
    OBVIOUS
  <2>2. QED BY <2>1 DEF Entry
<1>1. \A j, k \in DOMAIN f : f[j].id = f[k].id => f[j].udid = f[k].udid
  BY <1>0 DEF Accurate, CacheForward, NodeId
<1>2. ASSUME NEW u \in Udid, nodeCache[u] # 0
      PROVE  \E k \in Loaded(f) : f[k].udid = u
  <2>1. PICK k \in DOMAIN f : f[k].udid = u
    BY <1>2 DEF Names
  <2>2. PICK S : S = {j \in DOMAIN f : f[j].id = f[k].id}
    OBVIOUS
  <2>3. S # {} /\ S \subseteq Nat
    BY <1>0, <2>2
  <2>4. PICK j \in S : \A y \in S : <<y, j>> \notin OpToRel(<, Nat)
    BY <2>3, WFMin, NatLessThanWellFounded
  <2>5. \A y \in S : j <= y
    <3>1. \A y \in S : ~(y < j)
      BY <2>3, <2>4 DEF OpToRel
    <3>2. QED BY <2>3, <3>1
  <2>6. j \in Loaded(f)
    BY <2>2, <2>5 DEF Loaded
  <2>7. QED BY <1>1, <2>1, <2>2, <2>6
<1>3. Loaded(f) \subseteq DOMAIN f
  BY DEF Loaded
<1>4. ASSUME NEW u \in Udid
      PROVE  LoadedCache(f)[u] = nodeCache[u]
  <2>1. CASE LoadedCache(f)[u] # 0
    BY <1>3, <2>1, LoadedFacts DEF Accurate
  <2>2. CASE LoadedCache(f)[u] = 0
    BY <1>2, <2>2, LoadedFacts
  <2>3. QED BY <2>1, <2>2
<1>5. LoadedCache(f) \in [Udid -> NodeId \cup {0}] /\ nodeCache \in [Udid -> NodeId \cup {0}]
  BY LoadedFacts DEF CacheTypeOK
<1>6. QED BY <1>4, <1>5

(* The steps of a save.                                                    *)
LEMMA SavingSave ==
  ASSUME CacheTypeOK, CacheForward, Saving, SaveNext
  PROVE  Saving'
<1>0. UNCHANGED nodeCache /\ entries \in Seq(Entry)
  BY SaveStep DEF CacheTypeOK
<1>1. CASE SaveStart
  <2>1. CASE usable /\ isDirty
    <3>1. /\ saver' = "iterate" /\ must' = {u \in Udid : nodeCache[u] # 0} /\ entries' = <<>>
          /\ nodeCache' = nodeCache
      BY <1>0, <1>1, <2>1 DEF SaveStart
    <3>2. QED BY <3>1 DEF Saving, Accurate
  <2>2. CASE ~(usable /\ isDirty)
    <3>1. saver' = "clear" /\ saver = "armed" /\ usable' = usable
      BY <1>1, <2>2, Zenon DEF SaveStart
    <3>2. usable' # TRUE
      BY <2>2, <3>1 DEF Saving
    <3>3. QED BY <3>1, <3>2 DEF Saving
  <2>3. QED BY <2>1, <2>2
<1>2. ASSUME NEW u \in Udid, SaveVisit(u) PROVE Saving'
  <2>1. PICK e : e = [udid |-> u, id |-> nodeCache[u]]
    OBVIOUS
  <2>2. /\ entries' = Append(entries, e) /\ must' = must \ {u} /\ saver = "iterate" /\ nodeCache[u] # 0
        /\ UNCHANGED <<nodeCache, saver, missed>>
    BY <1>2, <2>1 DEF SaveVisit
  <2>3. e \in Entry /\ e.udid = u /\ e.id = nodeCache[u]
    BY <2>1, <2>2 DEF Entry, CacheTypeOK
  <2>4. /\ DOMAIN entries = 1..Len(entries) /\ Len(entries) \in Nat /\ DOMAIN entries' = 1..(Len(entries) + 1)
        /\ \A k \in 1..Len(entries) : entries'[k] = entries[k]
        /\ entries'[Len(entries) + 1] = e
    BY <1>0, <2>2, <2>3
  <2>5. \A k \in DOMAIN entries' : k \in DOMAIN entries \/ k = Len(entries) + 1
    BY <2>4
  <2>6. Accurate(entries) => Accurate(entries)'
    BY <2>2, <2>3, <2>4, <2>5 DEF Accurate
  <2>7. Names(entries', u) /\ \A v \in Udid : Names(entries, v) => Names(entries', v)
    <3>1. Len(entries) + 1 \in DOMAIN entries' /\ \A k \in DOMAIN entries : k \in DOMAIN entries'
      BY <2>4
    <3>2. QED BY <2>3, <2>4, <3>1 DEF Names
  <2>8. QED BY <2>2, <2>6, <2>7 DEF Saving, Names
<1>3. CASE SaveIterated
  <2>1. saver = "iterate" /\ must = {} /\ saver' = "create" /\ UNCHANGED <<nodeCache, entries, missed>>
    BY <1>3 DEF SaveIterated
  <2>2. QED BY <2>1 DEF Saving, Accurate, Names
<1>4. CASE SaveCreate
  <2>1. /\ saver = "create" /\ UNCHANGED <<nodeCache, entries>>
        /\ (saver' = "write" /\ missed' = missed) \/ (saver' = "clear" /\ missed' = TRUE)
    BY <1>4 DEF SaveCreate
  <2>2. QED BY <2>1 DEF Saving, Accurate, Names
<1>5. CASE SaveWrite
  <2>1. /\ saver = "write" /\ saver' = "clear" /\ UNCHANGED <<nodeCache, entries>>
        /\ (cacheFile' = entries /\ missed' = missed) \/ missed' = TRUE
    BY <1>5 DEF SaveWrite
  <2>2. ~missed => LoadedCache(entries) = nodeCache
    BY <1>0, <2>1, LoadsExactly DEF Saving
  <2>3. QED BY <2>1, <2>2 DEF Saving
<1>6. CASE SaveClear
  <2>1. saver = "clear" /\ saver' = "none" /\ UNCHANGED <<nodeCache, cacheFile, usable, missed>>
    BY <1>6 DEF SaveClear
  <2>2. QED BY <2>1 DEF Saving
<1>7. QED BY <1>1, <1>2, <1>3, <1>4, <1>5, <1>6 DEF SaveNext

(* A change arms the timer or is noted as missed.                          *)
LEMMA SavingSet ==
  ASSUME CacheTypeOK, Saving, NEW u, NEW i, NodeCacheSetEntry(u, i)
  PROVE  Saving'
<1>1. CASE nodeCache[u] = i
  BY <1>1 DEF NodeCacheSetEntry, cacheVars, Saving, Accurate, Names
<1>2. CASE nodeCache[u] # i
  <2>1. isDirty' = TRUE /\ saver' = (IF saver = "none" THEN "armed" ELSE saver) /\ missed' = (saver \notin {"none", "armed"})
    BY <1>2 DEF NodeCacheSetEntry
  <2>2. saver' # "none" /\ (saver' # "armed" => missed' = TRUE)
    BY <2>1
  <2>3. QED BY <2>1, <2>2 DEF Saving
<1>3. QED BY <1>1, <1>2

(* Every step keeps Saving.                                                *)
LEMMA SavingStep ==
  ASSUME TypeInv, CacheForward, Saving, [Next]_vars
  PROVE  Saving'
<1>0. CacheTypeOK
  BY DEF TypeInv, TypeOK
<1>1. CASE UNCHANGED cacheVars
  BY <1>1 DEF cacheVars, Saving, Accurate, Names
<1>2. CASE SaveNext
  BY <1>0, <1>2, SavingSave
<1>3. ASSUME NEW r \in Object, NEW i \in NodeId, RegisterNew(r, i) PROVE Saving'
  BY <1>0, <1>3, SavingSet DEF RegisterNew
<1>4. CASE Restart
  <2>1. saver' = "none" /\ usable' \in BOOLEAN /\ (usable' = TRUE => nodeCache' = LoadedCache(cacheFile'))
    BY <1>0, <1>4, RestartLoads DEF Restart, CacheRestart
  <2>2. QED BY <2>1 DEF Saving
<1>5. CASE \E u \in Udid, fw \in Firmware : AddressRequest(u, fw)
  BY <1>1, <1>5 DEF AddressRequest
<1>6. CASE RegisterFound \/ RegisterFull \/ Spawn \/ Handler \/ Pinger \/ PowerOff
  BY <1>1, <1>6 DEF RegisterFound, RegisterFull, Spawn, Handler, ConfigureAck, BootAck, HandlerSetState, Pinger,
     PingerWake, PingerVisit, PingerMark, PingerUnregister, PowerOff
<1>7. CASE UNCHANGED vars
  BY <1>1, <1>7 DEF vars
<1>8. QED BY <1>2, <1>3, <1>4, <1>5, <1>6, <1>7 DEF Next, Register

(* Once no save is waiting or running, and none has failed or has run into *)
(* a change, NodeCacheLoad would read back the cache as it is, however the *)
(* iteration over the map has ordered it and whatever the devices and ids. *)
THEOREM DurableWhenQuietCorrect == Spec => []DurableWhenQuiet
<1>1. Init => TypeInv /\ CacheForward /\ Saving
  <2>1. SUFFICES ASSUME Init PROVE TypeInv /\ CacheForward /\ Saving
    OBVIOUS
  <2>2. TypeInv /\ CacheForward
    BY <2>1, InitType DEF Init, CacheInit, CacheForward
  <2>3. nodeCache = [u \in Udid |-> 0] /\ cacheFile = <<>> /\ saver = "none"
    BY <2>1 DEF Init, CacheInit
  <2>4. LoadedCache(cacheFile) = nodeCache
    <3>1. Loaded(cacheFile) = {}
      BY <2>3 DEF Loaded
    <3>2. QED BY <2>3, <3>1 DEF LoadedCache
  <2>5. QED BY <2>2, <2>3, <2>4 DEF Saving
<1>2. (TypeInv /\ CacheForward /\ Saving) /\ [Next]_vars => (TypeInv /\ CacheForward /\ Saving)'
  BY TypeStep, ForwardStep, SavingStep
<1>3. Saving => DurableWhenQuiet
  BY DEF Saving, DurableWhenQuiet
<1>4. QED
  BY <1>1, <1>2, <1>3, PTL DEF Spec
=============================================================================
