------------------------------ MODULE NodeCache ------------------------------
(***************************************************************************)
(* The node cache of nocand (models/node_cache.go): the two in-memory maps *)
(* between device udids and node ids, the file they are saved to a minute  *)
(* after a change, and what is read back when the daemon starts.           *)
(*                                                                         *)
(* The maps are changed by the registry (NodeCacheSetEntry, under its      *)
(* mutex) while the save runs in a timer goroutine that takes no lock, so  *)
(* the save is modelled step by step: it iterates over the map, truncates  *)
(* the file, writes it, and only then forgets the timer.                   *)
(***************************************************************************)
EXTENDS Naturals, Sequences, FiniteSets

CONSTANTS
  Udid,             (* the devices that may ever ask for an address         *)
  NullUdid,         (* NullUdid8, here also "no entry" of the reverse map   *)
  MaxNode,          (* highest node id: 127 in the code                     *)
  CacheConfigured,  (* is a node-cache file name configured?                *)
  MaxEntries        (* bound on what one iteration over the map produces    *)

ASSUME CacheAssumption ==
  /\ IsFiniteSet(Udid)
  /\ NullUdid \notin Udid
  /\ MaxNode \in Nat \ {0}
  /\ CacheConfigured \in BOOLEAN
  /\ MaxEntries \in Nat

VARIABLES
  nodeCache,         (* udid -> node id; 0, the map's zero value, if absent *)
  reverseNodeCache,  (* node id -> udid; NullUdid if absent                 *)
  isDirty,
  saver,             (* the delayedSave timer; "none" is a nil pointer      *)
  must,              (* keys the running iteration still has to produce     *)
  visited,           (* keys the running iteration has produced             *)
  entries,           (* the slice built by the running save                 *)
  cacheFile,         (* what the cache file decodes to                      *)
  usable,            (* the code's cacheFile pointer is not nil             *)
  missed             (* history: a change the last save may not contain     *)

cacheVars == <<nodeCache, reverseNodeCache, isDirty, saver, must, visited,
               entries, cacheFile, usable, missed>>

NodeId == 1..MaxNode
Entry == [udid : Udid, id : NodeId]

CacheTypeOK ==
  /\ nodeCache \in [Udid -> NodeId \cup {0}]
  /\ reverseNodeCache \in [NodeId -> Udid \cup {NullUdid}]
  /\ isDirty \in BOOLEAN
  /\ saver \in {"none", "armed", "iterate", "create", "write", "clear"}
  /\ must \in SUBSET Udid
  /\ visited \in SUBSET Udid
  /\ entries \in Seq(Entry)
  /\ cacheFile \in Seq(Entry)
  /\ usable \in BOOLEAN
  /\ missed \in BOOLEAN
-----------------------------------------------------------------------------
(* NodeCacheLoad.  The file's entries are taken in order; an entry whose   *)
(* id has been loaded already is ignored, so that the first entry of an id *)
(* wins, and a udid keeps the last of its entries that was not ignored.    *)

Loaded(f) == {k \in DOMAIN f : \A j \in DOMAIN f : f[j].id = f[k].id => k <= j}

LoadedCache(f) ==
  [u \in Udid |->
     IF \E k \in Loaded(f) : f[k].udid = u
     THEN f[CHOOSE k \in Loaded(f) :
              /\ f[k].udid = u
              /\ \A j \in Loaded(f) : f[j].udid = u => j <= k].id
     ELSE 0]

LoadedReverse(f) ==
  [i \in NodeId |->
     IF \E k \in Loaded(f) : f[k].id = i
     THEN f[CHOOSE k \in Loaded(f) : f[k].id = i].udid
     ELSE NullUdid]

Filled(f) ==
  /\ nodeCache' = LoadedCache(f)
  /\ reverseNodeCache' = LoadedReverse(f)

(* NodeCacheLoad, called by Serve when the daemon starts.  A file that can *)
(* be opened is read (whether it decodes or not).  One that cannot, be it  *)
(* there or not, is created, which truncates it.  Without a configured     *)
(* file, or when it cannot be created either, the pointer is nil, and      *)
(* every save of the run returns at once and without an error.             *)
NodeCacheLoad ==
  \/ CacheConfigured /\ Filled(cacheFile) /\ usable' = TRUE /\ UNCHANGED cacheFile
  \/ CacheConfigured /\ Filled(<<>>) /\ usable' = TRUE /\ cacheFile' = <<>>
  \/ Filled(<<>>) /\ usable' = FALSE /\ UNCHANGED cacheFile

(* The first start: the file is empty or created, or cannot be.            *)
CacheInit ==
  /\ nodeCache = [u \in Udid |-> 0]
  /\ reverseNodeCache = [i \in NodeId |-> NullUdid]
  /\ isDirty = FALSE
  /\ saver = "none"
  /\ must = {}
  /\ visited = {}
  /\ entries = <<>>
  /\ cacheFile = <<>>
  /\ usable \in {CacheConfigured, FALSE}
  /\ missed = FALSE
-----------------------------------------------------------------------------
(* NodeCacheSetEntry.  The holder of the id, as the reverse map knows it,  *)
(* loses its entry; the previous id of the udid keeps its reverse entry.   *)
(* A key deleted while the save iterates is a new key if it comes back.    *)

SetEntry_KeepHolder(udid, id) ==
  /\ nodeCache' = [nodeCache EXCEPT ![udid] = id]
  /\ reverseNodeCache' = [reverseNodeCache EXCEPT ![id] = udid]
  /\ isDirty' = TRUE
  /\ saver' = IF saver = "none" THEN "armed" ELSE saver
  /\ missed' = (saver \notin {"none", "armed"})
  /\ UNCHANGED <<must, visited, entries, cacheFile, usable>>

SetEntry_NoTimer(udid, id) ==
  /\ nodeCache' = [nodeCache EXCEPT ![udid] = id]
  /\ reverseNodeCache' = [reverseNodeCache EXCEPT ![id] = udid]
  /\ isDirty' = TRUE
  /\ UNCHANGED <<saver, must, visited, entries, cacheFile, usable, missed>>

NodeCacheSetEntry(udid, id) ==
  IF nodeCache[udid] = id
  THEN UNCHANGED cacheVars
  ELSE LET holder == reverseNodeCache[id] IN
       /\ nodeCache' = [u \in Udid |-> IF u = udid THEN id
                                       ELSE IF u = holder THEN 0
                                       ELSE nodeCache[u]]
       /\ reverseNodeCache' = [reverseNodeCache EXCEPT ![id] = udid]
       /\ isDirty' = TRUE
       /\ saver' = IF saver = "none" THEN "armed" ELSE saver
       /\ must' = must \ {holder}
       /\ visited' = visited \ {holder}
       /\ missed' = (saver \notin {"none", "armed"})
       /\ UNCHANGED <<entries, cacheFile, usable>>

NodeCacheLookup(udid) == nodeCache[udid]
NodeCacheReverseLookup(id) == reverseNodeCache[id] # NullUdid
-----------------------------------------------------------------------------
(* The timer fires: NodeCacheSave, or nothing without a file or a change.  *)
SaveStart ==
  /\ saver = "armed"
  /\ IF usable /\ isDirty
     THEN /\ saver' = "iterate"
          /\ must' = {u \in Udid : nodeCache[u] # 0}
          /\ visited' = {}
          /\ entries' = <<>>
          /\ missed' = FALSE
     ELSE /\ saver' = "clear"
          /\ UNCHANGED <<must, visited, entries, missed>>
  /\ UNCHANGED <<nodeCache, reverseNodeCache, isDirty, cacheFile, usable>>

SaveVisit_Absent(u) ==
  /\ saver = "iterate"
  /\ u \notin visited
  /\ Len(entries) < MaxEntries
  /\ entries' = Append(entries, [udid |-> u, id |-> nodeCache[u]])
  /\ must' = must \ {u}
  /\ visited' = visited \cup {u}
  /\ UNCHANGED <<nodeCache, reverseNodeCache, isDirty, saver, cacheFile, usable,
                 missed>>

(* The iteration produces a key, in any order (the comparison given to     *)
(* sort.SliceStable is always false, so the sort keeps this order).  A key *)
(* created during the iteration may be produced or skipped.                *)
SaveVisit(u) ==
  /\ saver = "iterate"
  /\ u \notin visited
  /\ nodeCache[u] # 0
  /\ Len(entries) < MaxEntries
  /\ entries' = Append(entries, [udid |-> u, id |-> nodeCache[u]])
  /\ must' = must \ {u}
  /\ visited' = visited \cup {u}
  /\ UNCHANGED <<nodeCache, reverseNodeCache, isDirty, saver, cacheFile, usable,
                 missed>>

SaveIterated ==
  /\ saver = "iterate"
  /\ must = {}
  /\ saver' = "create"
  /\ UNCHANGED <<nodeCache, reverseNodeCache, isDirty, must, visited, entries,
                 cacheFile, usable, missed>>

(* os.Create: truncates the file, or fails and leaves it alone.            *)
SaveCreate ==
  /\ saver = "create"
  /\ \/ /\ saver' = "write"
        /\ cacheFile' = <<>>
        /\ UNCHANGED missed
     \/ /\ saver' = "clear"
        /\ missed' = TRUE
        /\ UNCHANGED cacheFile
  /\ UNCHANGED <<nodeCache, reverseNodeCache, isDirty, must, visited, entries, usable>>

(* The encoder's write: complete, or failed, which leaves a file that does *)
(* not decode and therefore loads as an empty one.                         *)
SaveWrite ==
  /\ saver = "write"
  /\ saver' = "clear"
  /\ \/ /\ cacheFile' = entries
        /\ UNCHANGED missed
     \/ /\ missed' = TRUE
        /\ UNCHANGED cacheFile
  /\ UNCHANGED <<nodeCache, reverseNodeCache, isDirty, must, visited, entries, usable>>

(* delayedSave = nil: from here on a change arms a new timer.  What the    *)
(* save built is garbage.                                                  *)
SaveClear ==
  /\ saver = "clear"
  /\ saver' = "none"
  /\ must' = {}
  /\ visited' = {}
  /\ entries' = <<>>
  /\ UNCHANGED <<nodeCache, reverseNodeCache, isDirty, cacheFile, usable, missed>>

SaveNext ==
  \/ SaveStart
  \/ \E u \in Udid : SaveVisit(u)
  \/ SaveIterated
  \/ SaveCreate
  \/ SaveWrite
  \/ SaveClear

(* The process stops and is started again: only the file is left.          *)
CacheRestart ==
  /\ NodeCacheLoad
  /\ isDirty' = FALSE
  /\ saver' = "none"
  /\ must' = {}
  /\ visited' = {}
  /\ entries' = <<>>
  /\ missed' = FALSE
=============================================================================
