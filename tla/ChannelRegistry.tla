--------------------------- MODULE ChannelRegistry ---------------------------
(***************************************************************************)
(* The channels (models/channel.go) and the goroutines that use them: one  *)
(* per client (the handlers of controllers/event_server.go) and one per    *)
(* node (handleBusNode in controllers/network_controller.go).  Register,   *)
(* Unregister, Lookup and Find lock the collection, each for itself; the   *)
(* handlers hold no lock between them, and SetContent takes none.          *)
(*                                                                         *)
(* A *Channel is its position in the sequence of the channels created so   *)
(* far; 0 is nil.  A content is a sequence of bytes.                       *)
(***************************************************************************)
EXTENDS Naturals, Sequences, FiniteSets, FiniteSetsExt

CONSTANTS
  Client,      (* the connected clients                                     *)
  Node,        (* the nodes                                                 *)
  Name,        (* channel names                                             *)
  NoName,      (* the empty name                                            *)
  Content,     (* contents that are sent                                    *)
  MaxContent,  (* the longest content that is kept: 64 in the code          *)
  MaxId,       (* the largest ChannelId: 65535 in the code                  *)
  MaxObjects,  (* bound on the channels created                             *)
  MaxRequests  (* bound on the requests of the clients and nodes            *)

ASSUME ChannelAssumption ==
  /\ NoName \notin Name
  /\ Client \cap Node = {}
  /\ Content \subseteq Seq(Nat)
  /\ {MaxContent, MaxId, MaxObjects, MaxRequests} \subseteq Nat

VARIABLES
  channel,   (* the channels created so far                                 *)
  ById,
  ByName,
  TopId,
  worker,    (* what each goroutine is doing                                *)
  count,     (* number of requests so far                                   *)
  told,      (* the channel whose id each node was told last                *)
  cast,      (* history: the content of each channel broadcast last         *)
  unsettled, (* history: channels whose last writes overlapped, one of      *)
             (* whose last contents was too long, or that were announced as *)
             (* created since the last write                                *)
  destroyed, (* history: channels that were unregistered                    *)
  raced      (* history: what overlapped: creations of one name or          *)
             (* destructions                                                *)

maps == <<ById, ByName, TopId>>
history == <<cast, unsettled, destroyed, raced>>
vars == <<channel, maps, worker, count, told, history>>

Worker == Client \cup Node
Id == 0..MaxId
Object == 0..MaxObjects

(* A request names the channel; if the name is empty it gives its id.      *)
Creation == [op : {"create"}, name : Name \cup {NoName}, id : {0}, content : {<<>>}]
Use == [op : {"destroy", "read"}, name : Name, id : {0}, content : {<<>>}]
       \cup [op : {"destroy", "read"}, name : {NoName}, id : Id, content : {<<>>}]
       \cup [op : {"update"}, name : Name, id : {0}, content : Content]
       \cup [op : {"update"}, name : {NoName}, id : Id, content : Content]
ClientRequest == Creation \cup Use
NodeRequest ==
  Creation
  \cup [op : {"lookup"}, name : Name \cup {NoName}, id : {0}, content : {<<>>}]
  \cup [op : {"update"}, name : {NoName}, id : Id,
        content : {c \in Content : Len(c) <= MaxContent}]

Idle == [pc |-> "idle", obj |-> 0]
Busy(w) == worker[w].pc # "idle"
Position == {"find", "register", "create", "spin", "tell", "announce", "set", "copy", "cast", "unregister"}

TypeOK ==
  /\ channel \in Seq([id : Id, name : Name, value : Seq(Nat)]) /\ Len(channel) <= MaxObjects
  /\ ById \in [Id -> Object]
  /\ ByName \in [Name -> Object]
  /\ TopId \in Id
  /\ worker \in [Worker -> {Idle} \cup [pc : Position, obj : Object, req : ClientRequest \cup NodeRequest]]
  /\ \A w \in Worker : worker[w].obj <= Len(channel)
  /\ count \in 0..MaxRequests
  /\ told \in [Node -> 0..Len(channel)]
  /\ cast \in [DOMAIN channel -> Seq(Nat)]
  /\ unsettled \cup destroyed \subseteq DOMAIN channel
  /\ raced \subseteq {"create", "destroy"}

Init ==
  /\ channel = <<>>
  /\ ById = [i \in Id |-> 0]
  /\ ByName = [n \in Name |-> 0]
  /\ TopId = 0
  /\ worker = [w \in Worker |-> Idle]
  /\ count = 0
  /\ told = [n \in Node |-> 0]
  /\ cast = <<>>
  /\ unsettled = {}
  /\ destroyed = {}
  /\ raced = {}
-----------------------------------------------------------------------------
(* Register keeps the lock while it looks for a free id; with none it      *)
(* looks for ever.                                                         *)
Full == \A i \in Id : ById[i] # 0
Unlocked == \A w \in Worker : worker[w].pc # "spin"

Lookup(name) == IF name = NoName THEN 0 ELSE ByName[name]
Find(r) == IF r.name = NoName THEN ById[r.id] ELSE Lookup(r.name)

(* The first free id from TopId on; TopId is an uint16 and wraps.          *)
Ahead(k) == (TopId + k) % (MaxId + 1)
NextId_NoWrap(i) == i + 1

NextId(i) == (i + 1) % (MaxId + 1)

FreeId_Unchecked == TopId
FreeId == Ahead(Min({k \in Id : ById[Ahead(k)] = 0}))

Goto(w, pc, o) == worker' = [worker EXCEPT ![w].pc = pc, ![w].obj = o]

(* Register returns a channel: a node is told its id first.                *)
Registered(w, o) == Goto(w, IF w \in Node THEN "tell" ELSE "announce", o)

(* The last thing a handler does is to send the acknowledgement.  That may *)
(* wait for room in the client's own queue, which is left to EventServer.  *)
Finish(w) == worker' = [worker EXCEPT ![w] = Idle]

Creating(w, name) == Busy(w) /\ worker[w].req.op = "create" /\ worker[w].req.name = name
Destroying(w) == Busy(w) /\ worker[w].req.op = "destroy"
Writing(w, o) == worker[w].pc \in {"set", "copy", "cast"} /\ worker[w].obj = o
-----------------------------------------------------------------------------
(* A request arrives; its handler looks the channel up next.               *)
Start(w, r) ==
  /\ ~Busy(w)
  /\ count < MaxRequests
  /\ count' = count + 1
  /\ worker' = [worker EXCEPT ![w] =
       [pc |-> IF r.op = "create" /\ w \in Node THEN "register" ELSE "find", obj |-> 0, req |-> r]]
  /\ raced' = IF \E v \in Worker : \/ (r.op = "create" /\ Creating(v, r.name))
                                    \/ (r.op = "destroy" /\ Destroying(v))
              THEN raced \cup {r.op} ELSE raced
  /\ UNCHANGED <<channel, maps, told, cast, unsettled, destroyed>>

(* clientChannelUpdateHandler, CHANNEL_CREATED.                            *)
FindToCreate(w) ==
  /\ worker[w].pc = "find"
  /\ worker[w].req.op = "create"
  /\ Unlocked
  /\ IF Lookup(worker[w].req.name) # 0 THEN Finish(w) ELSE Goto(w, "register", 0)
  /\ UNCHANGED <<channel, maps, count, told, history>>

Register_LockFirst(w) ==
  /\ worker[w].pc = "register"
  /\ Unlocked
  /\ IF worker[w].req.name = NoName THEN Finish(w) ELSE Goto(w, "spin", 0)
  /\ UNCHANGED <<channel, maps, count, told, history>>

(* Register: the empty name is an error, and a registered name is returned *)
(* without the lock that creates.                                          *)
Register(w) ==
  LET o == Lookup(worker[w].req.name) IN
  /\ worker[w].pc = "register"
  /\ Unlocked
  /\ CASE worker[w].req.name = NoName -> Finish(w)
       [] o # 0 -> Registered(w, o)
       [] OTHER -> Goto(w, "create", 0)
  /\ UNCHANGED <<channel, maps, count, told, history>>

(* Register, under the lock: the name is not looked up again.              *)
Create(w) ==
  LET name == worker[w].req.name
      o == Len(channel) + 1
  IN
  /\ worker[w].pc = "create"
  /\ Unlocked
  /\ ~Full
  /\ o <= MaxObjects
  /\ channel' = Append(channel, [id |-> FreeId, name |-> name, value |-> <<>>])
  /\ cast' = Append(cast, <<>>)
  /\ ById' = [ById EXCEPT ![FreeId] = o]
  /\ ByName' = [ByName EXCEPT ![name] = o]
  /\ TopId' = NextId(FreeId)
  /\ Registered(w, o)
  /\ UNCHANGED <<count, told, unsettled, destroyed, raced>>

Spin(w) ==
  /\ worker[w].pc = "create"
  /\ Unlocked
  /\ Full
  /\ Goto(w, "spin", 0)
  /\ UNCHANGED <<channel, maps, count, told, history>>

(* SYS_CHANNEL_REGISTER_ACK                                                *)
NodeTell(w) ==
  /\ worker[w].pc = "tell"
  /\ told' = [told EXCEPT ![w] = worker[w].obj]
  /\ Goto(w, "announce", worker[w].obj)
  /\ UNCHANGED <<channel, maps, count, history>>

(* The broadcast of CHANNEL_CREATED, with no content, also for a channel   *)
(* that was registered before and has one.                                 *)
Announce(w) ==
  LET o == worker[w].obj IN
  /\ worker[w].pc = "announce"
  /\ cast' = [cast EXCEPT ![o] = <<>>]
  /\ unsettled' = IF channel[o].value = <<>> \/ \E v \in Worker : Writing(v, o)
                  THEN unsettled ELSE unsettled \cup {o}
  /\ Finish(w)
  /\ UNCHANGED <<channel, maps, count, told, destroyed, raced>>

(* SYS_CHANNEL_LOOKUP                                                      *)
NodeLookup(w) ==
  LET o == Lookup(worker[w].req.name) IN
  /\ worker[w].pc = "find"
  /\ worker[w].req.op = "lookup"
  /\ Unlocked
  /\ told' = IF o # 0 THEN [told EXCEPT ![w] = o] ELSE told
  /\ Finish(w)
  /\ UNCHANGED <<channel, maps, count, history>>

(* The other requests fail if there is no such channel.  The content of a  *)
(* channel is read without the lock, here or by the goroutine that sends   *)
(* the answer.                                                             *)
FindToUse(w) ==
  LET o == Find(worker[w].req)
      op == worker[w].req.op
  IN
  /\ worker[w].pc = "find"
  /\ op \in {"update", "destroy", "read"}
  /\ Unlocked
  /\ IF o = 0 \/ op = "read" THEN Finish(w)
     ELSE Goto(w, IF op = "update" THEN "set" ELSE "unregister", o)
  /\ unsettled' = IF o = 0 \/ op # "update" THEN unsettled
                  ELSE IF \E v \in Worker : Writing(v, o) THEN unsettled \cup {o}
                  ELSE unsettled \ {o}
  /\ UNCHANGED <<channel, maps, count, told, cast, destroyed, raced>>

(* SetContent: a content that is too long is refused, which is not noticed *)
(* by the caller.  make and copy are two accesses to the channel.          *)
SetContent(w) ==
  LET o == worker[w].obj
      c == worker[w].req.content
  IN
  /\ worker[w].pc = "set"
  /\ IF Len(c) > MaxContent
     THEN /\ unsettled' = unsettled \cup {o}
          /\ Goto(w, "cast", o)
          /\ UNCHANGED channel
     ELSE /\ channel' = [channel EXCEPT ![o].value = [k \in 1..Len(c) |-> 0]]
          /\ Goto(w, "copy", o)
          /\ UNCHANGED unsettled
  /\ UNCHANGED <<maps, count, told, cast, destroyed, raced>>

Overwrite_Short(old, new) == [k \in DOMAIN old |-> IF k < Len(new) THEN new[k] ELSE old[k]]

Overwrite(old, new) == [k \in DOMAIN old |-> IF k <= Len(new) THEN new[k] ELSE old[k]]

CopyContent(w) ==
  LET o == worker[w].obj IN
  /\ worker[w].pc = "copy"
  /\ channel' = [channel EXCEPT ![o].value = Overwrite(@, worker[w].req.content)]
  /\ Goto(w, "cast", o)
  /\ UNCHANGED <<maps, count, told, history>>

(* Publish on the bus, if the content is from a client, and Broadcast.     *)
Broadcast(w) ==
  /\ worker[w].pc = "cast"
  /\ cast' = [cast EXCEPT ![worker[w].obj] = worker[w].req.content]
  /\ Finish(w)
  /\ UNCHANGED <<channel, maps, count, told, unsettled, destroyed, raced>>

Unregister_KeepName(w) ==
  LET c == channel[worker[w].obj] IN
  /\ worker[w].pc = "unregister"
  /\ Unlocked
  /\ ById' = [ById EXCEPT ![c.id] = 0]
  /\ destroyed' = destroyed \cup {worker[w].obj}
  /\ Finish(w)
  /\ UNCHANGED <<channel, ByName, TopId, count, told, cast, unsettled, raced>>

(* Unregister deletes the name and the id, whatever they stand for now.    *)
(* Nothing is broadcast, and the acknowledgement is GeneralFailure.        *)
Unregister(w) ==
  LET c == channel[worker[w].obj] IN
  /\ worker[w].pc = "unregister"
  /\ Unlocked
  /\ ByName' = [ByName EXCEPT ![c.name] = 0]
  /\ ById' = [ById EXCEPT ![c.id] = 0]
  /\ destroyed' = destroyed \cup {worker[w].obj}
  /\ Finish(w)
  /\ UNCHANGED <<channel, TopId, count, told, cast, unsettled, raced>>
-----------------------------------------------------------------------------
Step(w) ==
  \/ FindToCreate(w) \/ Register(w) \/ Create(w) \/ Spin(w) \/ Announce(w)
  \/ (w \in Node /\ (NodeTell(w) \/ NodeLookup(w)))
  \/ FindToUse(w) \/ SetContent(w) \/ CopyContent(w) \/ Broadcast(w)
  \/ Unregister(w)

Next ==
  \/ \E c \in Client, r \in ClientRequest : Start(c, r)
  \/ \E n \in Node, r \in NodeRequest : Start(n, r)
  \/ \E w \in Worker : Step(w)

Spec == Init /\ [][Next]_vars

(* The handler is sending, to the bus or to every client.  Broadcast waits *)
(* for room in each client's queue: EventServer has the case in which that *)
(* is for ever.                                                            *)
Sending(w) == worker[w].pc \in {"tell", "announce", "cast"}

(* Each goroutine that can run does; nothing is assumed of sending.        *)
FairSpec == Spec /\ \A w \in Worker : WF_vars(Step(w) /\ ~Sending(w))
-----------------------------------------------------------------------------
(* ById and ByName hold the same channels, each under its id and its name, *)
(* unless two creations of one name or two destructions ever overlapped.   *)
MapsAgree ==
  raced # {}
  \/ /\ \A i \in Id : ById[i] # 0 => channel[ById[i]].id = i /\ ByName[channel[ById[i]].name] = ById[i]
     /\ \A n \in Name : ByName[n] # 0 => channel[ByName[n]].name = n /\ ById[channel[ByName[n]].id] = ByName[n]

(* The id that a node was told stands for the same channel until a client *)
(* destroys that channel, whoever else creates and destroys channels: what *)
(* the node publishes ends up in the channel it asked for.  Destructions   *)
(* that overlap are excepted: the second one deletes an id given out anew. *)
ToldIdKept ==
  \A n \in Node : told[n] # 0 /\ told[n] \notin destroyed /\ "destroy" \notin raced
    => ById[channel[told[n]].id] = told[n]

(* When nobody writes a channel, its content is what was broadcast last    *)
(* (nothing yet, for a new one), unless the last writes overlapped or the  *)
(* last content was too long to be kept, or the channel was registered     *)
(* again since: what is broadcast then shows it without its content.       *)
ViewsAgree ==
  \A o \in DOMAIN channel \ unsettled :
    (\A w \in Worker : ~Writing(w, o)) => channel[o].value = cast[o]

(* If no handler is held up for ever in sending, each request is answered, *)
(* unless all ids are in use: the locks of the collection keep nobody out. *)
SendsEnd == \A w \in Worker : []<>~Sending(w)
AllAnswered == SendsEnd => \A w \in Worker : Busy(w) ~> (~Busy(w) \/ Full)
=============================================================================
