------------------------ MODULE ChannelRegistryProofs ------------------------
(***************************************************************************)
(* Proofs about ChannelRegistry, for any clients, nodes, names, contents   *)
(* and any number of ids, channels and requests.                           *)
(***************************************************************************)
EXTENDS ChannelRegistry, SequenceTheorems, WellFoundedInduction, TLAPS

Job == [pc : Position, obj : Object, req : ClientRequest \cup NodeRequest]

(* What the position of a worker says about its request and its channel.   *)
Placed(w) ==
  /\ worker[w].pc \in {"set", "copy", "cast"} => worker[w].req.op = "update" /\ worker[w].obj # 0
  /\ worker[w].pc = "unregister" => worker[w].req.op = "destroy" /\ worker[w].obj # 0
  /\ worker[w].pc = "create" => worker[w].req.op = "create" /\ worker[w].req.name # NoName
  /\ worker[w].pc = "register" => worker[w].req.op = "create"
  /\ worker[w].pc \in {"tell", "announce"} => worker[w].obj # 0

ControlOK == \A w \in Worker : Placed(w)

TypeInv == TypeOK /\ ControlOK

(* The maps lead to channels that have the key and were not destroyed.     *)
Keyed ==
  /\ \A i \in Id : ById[i] # 0 =>
       ById[i] \in DOMAIN channel \ destroyed /\ channel[ById[i]].id = i
  /\ \A n \in Name : ByName[n] # 0 =>
       ByName[n] \in DOMAIN channel \ destroyed /\ channel[ByName[n]].name = n

(* Without overlapping destructions there is one at a time, of a channel   *)
(* that exists, and channels that exist are found by their ids.            *)
IdInv ==
  "destroy" \notin raced =>
    /\ \A v, w \in Worker : Destroying(v) /\ Destroying(w) => v = w
    /\ \A w \in Worker : worker[w].pc = "unregister" => worker[w].obj \notin destroyed
    /\ \A o \in DOMAIN channel \ destroyed : ById[channel[o].id] = o

(* Without overlapping creations of a name either, the name a worker is    *)
(* about to register is absent, and channels are found by their names.     *)
NameInv ==
  raced = {} =>
    /\ \A n \in Name : \A v, w \in Worker : Creating(v, n) /\ Creating(w, n) => v = w
    /\ \A w \in Worker : worker[w].pc = "create" => ByName[worker[w].req.name] = 0
    /\ \A o \in DOMAIN channel \ destroyed : ByName[channel[o].name] = o

(* A channel that is not unsettled has at most one writer, which finds the *)
(* channel as it left it.                                                  *)
WriteInv ==
  \A o \in DOMAIN channel \ unsettled : \A w \in Worker : Writing(w, o) =>
    /\ \A v \in Worker : Writing(v, o) => v = w
    /\ worker[w].pc = "copy" => Len(channel[o].value) = Len(worker[w].req.content)
    /\ worker[w].pc = "cast" => channel[o].value = worker[w].req.content
-----------------------------------------------------------------------------
(* Counting up to the size of the id space comes back to where it began.   *)
LEMMA Wraps ==
  ASSUME NEW N \in Nat, NEW m \in 0..N
  PROVE  m % (N + 1) = m /\ (m + (N + 1)) % (N + 1) = m
OBVIOUS

(* A function on 1..n is a sequence.                                       *)
LEMMA FunctionIsSeq ==
  ASSUME NEW S, NEW n \in Nat, NEW f \in [1..n -> S]
  PROVE  f \in Seq(S)
BY SeqDef

(* The loop of Register ends at a free id if there is one.                 *)
LEMMA FreeIdFacts ==
  ASSUME TypeOK, ~Full
  PROVE  FreeId \in Id /\ ById[FreeId] = 0 /\ NextId(FreeId) \in Id
<1> DEFINE S == {k \in Id : ById[Ahead(k)] = 0}
<1>0. MaxId \in Nat /\ TopId \in Id
  BY ChannelAssumption DEF TypeOK
<1>1. \A k \in Nat : k % (MaxId + 1) \in Id
  BY <1>0 DEF Id
<1>2. PICK i \in Id : ById[i] = 0
  BY DEF Full
<1>3. S # {}
  <2>1. CASE i >= TopId
    <3>1. i - TopId \in Id /\ TopId + (i - TopId) = i
      BY <1>0, <2>1 DEF Id
    <3>2. Ahead(i - TopId) = i
      BY <1>0, <3>1, Wraps DEF Ahead, Id
    <3>3. QED BY <3>1, <3>2, <1>2
  <2>2. CASE i < TopId
    <3> DEFINE k == i + (MaxId + 1) - TopId
    <3>1. k \in Id /\ TopId + k = i + (MaxId + 1)
      BY <1>0, <2>2 DEF Id
    <3>2. Ahead(k) = i
      BY <1>0, <3>1, Wraps DEF Ahead, Id
    <3>3. QED BY <3>1, <3>2, <1>2
  <2>3. QED BY <1>0, <2>1, <2>2 DEF Id
<1>4. S \subseteq Nat
  BY <1>0 DEF Id
<1>5. PICK x \in S : \A y \in S : <<y, x>> \notin OpToRel(<, Nat)
  BY <1>3, <1>4, WFMin, NatLessThanWellFounded
<1>6. \A y \in S : ~(y < x)
  BY <1>4, <1>5 DEF OpToRel
<1>7. \A y \in S : x <= y
  <2> HIDE DEF S
  <2>1. QED BY <1>4, <1>6
<1>8. Min(S) \in S
  <2> HIDE DEF S
  <2>1. QED BY <1>7 DEF Min
<1>9. FreeId = Ahead(Min(S))
  BY DEF FreeId
<1>10. FreeId \in Id
  <2> DEFINE m == Min(S)
  <2>1. m \in Nat
    BY <1>4, <1>8
  <2> HIDE DEF m
  <2>2. TopId + m \in Nat
    BY <1>0, <2>1 DEF Id
  <2>3. QED BY <1>1, <1>9, <2>2 DEF Ahead, m
<1>11. ById[FreeId] = 0
  BY <1>8, <1>9
<1>12. NextId(FreeId) \in Id
  BY <1>0, <1>1, <1>10 DEF NextId, Id
<1>13. QED
  BY <1>10, <1>11, <1>12

(* A request has its fields.                                               *)
LEMMA RequestFields ==
  ASSUME NEW r \in ClientRequest \cup NodeRequest
  PROVE  /\ r.op \in {"create", "destroy", "read", "update", "lookup"}
         /\ r.name \in Name \cup {NoName} /\ r.id \in Id
         /\ r.op = "update" => r.content \in Content
<1>1. 0 \in Id
  BY ChannelAssumption DEF Id
<1>2. QED BY <1>1 DEF ClientRequest, NodeRequest, Creation, Use

(* What is known of a worker that handles a request.                       *)
LEMMA BusyFacts ==
  ASSUME TypeOK, NEW w \in Worker, Busy(w)
  PROVE  /\ worker[w] \in Job
         /\ worker[w].pc \in Position /\ worker[w].obj \in Object
         /\ worker[w].req \in ClientRequest \cup NodeRequest
         /\ worker[w].req.name \in Name \cup {NoName} /\ worker[w].req.id \in Id
         /\ worker[w].req.op = "update" => worker[w].req.content \in Content
<1>1. worker[w] \in Job
  BY DEF TypeOK, Busy, Idle, Job
<1>2. QED BY <1>1, RequestFields DEF Job

(* Goto moves one worker and leaves its request.                           *)
LEMMA GotoFacts ==
  ASSUME TypeOK, NEW w \in Worker, Busy(w), NEW pc \in Position, NEW o \in Object, Goto(w, pc, o)
  PROVE  /\ worker' \in [Worker -> {Idle} \cup Job]
         /\ worker'[w].pc = pc /\ worker'[w].obj = o /\ worker'[w].req = worker[w].req
         /\ \A v \in Worker : v # w => worker'[v] = worker[v]
<1>1. worker[w] \in Job
  BY BusyFacts
<1>2. worker \in [Worker -> {Idle} \cup Job]
  BY DEF TypeOK, Job
<1> DEFINE j == [worker[w] EXCEPT !.pc = pc, !.obj = o]
<1>3. j \in Job /\ j.pc = pc /\ j.obj = o /\ j.req = worker[w].req
  BY <1>1 DEF Job
<1>4. worker' = [worker EXCEPT ![w] = j]
  BY <1>1, <1>2 DEF Goto
<1> HIDE DEF j
<1>5. QED BY <1>2, <1>3, <1>4

(* Finish makes one worker idle.                                           *)
LEMMA FinishFacts ==
  ASSUME TypeOK, NEW w \in Worker, Finish(w)
  PROVE  /\ worker' \in [Worker -> {Idle} \cup Job]
         /\ worker'[w] = Idle
         /\ \A v \in Worker : v # w => worker'[v] = worker[v]
<1>1. worker \in [Worker -> {Idle} \cup Job]
  BY DEF TypeOK, Job
<1>2. QED BY <1>1 DEF Finish

(* Find and Lookup return a channel that was created, or nil.              *)
LEMMA FindFacts ==
  ASSUME TypeOK, Keyed, NEW r \in ClientRequest \cup NodeRequest
  PROVE  /\ Lookup(r.name) \in Object /\ Lookup(r.name) <= Len(channel)
         /\ Find(r) \in Object /\ Find(r) <= Len(channel)
         /\ Find(r) # 0 => Find(r) \in DOMAIN channel \ destroyed
<1>1. r.name \in Name \cup {NoName} /\ r.id \in Id
  BY RequestFields
<1>2. Len(channel) \in Nat /\ DOMAIN channel = 1..Len(channel) /\ 0 \in Object
  BY ChannelAssumption DEF TypeOK, Object
<1>3. \A n \in Name : ByName[n] \in Object /\ ByName[n] <= Len(channel)
                      /\ (ByName[n] # 0 => ByName[n] \in DOMAIN channel \ destroyed)
  BY <1>2 DEF TypeOK, Keyed
<1>4. \A i \in Id : ById[i] \in Object /\ ById[i] <= Len(channel)
                      /\ (ById[i] # 0 => ById[i] \in DOMAIN channel \ destroyed)
  BY <1>2 DEF TypeOK, Keyed
<1>5. QED BY <1>1, <1>2, <1>3, <1>4, ChannelAssumption DEF Find, Lookup

(* What is known of a channel, and of a worker that is about to change it. *)
LEMMA ChannelFacts ==
  ASSUME TypeOK
  PROVE  /\ Len(channel) \in Nat /\ DOMAIN channel = 1..Len(channel)
         /\ \A o \in DOMAIN channel :
              /\ channel[o] \in [id : Id, name : Name, value : Seq(Nat)]
              /\ channel[o].id \in Id /\ channel[o].name \in Name /\ channel[o].value \in Seq(Nat)
              /\ o # 0 /\ o <= Len(channel) /\ o \in Object
<1>1. channel \in Seq([id : Id, name : Name, value : Seq(Nat)]) /\ Len(channel) <= MaxObjects
  BY DEF TypeOK
<1>2. Len(channel) \in Nat /\ DOMAIN channel = 1..Len(channel) /\ MaxObjects \in Nat
  BY <1>1, ChannelAssumption
<1>3. \A o \in DOMAIN channel : channel[o] \in [id : Id, name : Name, value : Seq(Nat)]
  BY <1>1, <1>2, ElementOfSeq
<1>4. \A o \in DOMAIN channel : o # 0 /\ o <= Len(channel) /\ o \in Object
  BY <1>1, <1>2 DEF Object
<1>5. QED BY <1>2, <1>3, <1>4

(* A request that is about to write a channel has found one, which exists. *)
LEMMA WriterFacts ==
  ASSUME TypeOK, ControlOK, NEW w \in Worker, worker[w].pc \in {"set", "copy", "cast", "unregister"}
  PROVE  /\ worker[w].obj \in DOMAIN channel
         /\ worker[w].pc # "unregister" =>
              worker[w].req.op = "update" /\ worker[w].req.content \in Seq(Nat)
<1>1. Busy(w)
  BY DEF Busy
<1>2. worker[w].obj \in Object /\ (worker[w].req.op = "update" => worker[w].req.content \in Seq(Nat))
  BY <1>1, BusyFacts, ChannelAssumption
<1>3. worker[w].obj <= Len(channel) /\ worker[w].obj # 0
  BY DEF TypeOK, ControlOK, Placed
<1>4. worker[w].pc # "unregister" => worker[w].req.op = "update"
  BY DEF ControlOK, Placed
<1>5. QED BY <1>2, <1>3, <1>4, ChannelFacts, ChannelAssumption DEF Object
-----------------------------------------------------------------------------
(* The worker's part of the type invariant after a step of one worker.     *)
LEMMA OneWorker ==
  ASSUME TypeInv, NEW w \in Worker,
         worker' \in [Worker -> {Idle} \cup Job],
         \A v \in Worker : v # w => worker'[v] = worker[v],
         Len(channel) \in Nat, Len(channel') \in Nat, Len(channel) <= Len(channel'),
         worker'[w].obj <= Len(channel'),
         Placed(w)'
  PROVE  /\ ControlOK'
         /\ (worker \in [Worker -> {Idle} \cup [pc : Position, obj : Object, req : ClientRequest \cup NodeRequest]])'
         /\ \A v \in Worker : worker'[v].obj <= Len(channel')
<1>1. ControlOK'
  <2> SUFFICES ASSUME NEW v \in Worker, v # w PROVE Placed(v)'
    BY DEF ControlOK
  <2>1. QED BY DEF TypeInv, ControlOK, Placed
<1>2. \A v \in Worker : worker'[v].obj <= Len(channel')
  <2> SUFFICES ASSUME NEW v \in Worker PROVE worker'[v].obj <= Len(channel')
    OBVIOUS
  <2>1. worker[v].obj <= Len(channel) /\ worker[v].obj \in Nat
    <3>1. 0 \in Nat /\ Object \subseteq Nat
      BY ChannelAssumption DEF Object
    <3>2. worker[v] = Idle \/ worker[v] \in Job
      BY DEF TypeInv, TypeOK, Job
    <3>3. CASE worker[v] = Idle
      BY <3>3 DEF Idle, TypeInv, TypeOK
    <3>4. CASE worker[v] \in Job
      <4>1. worker[v].obj \in Object
        BY <3>4 DEF Job
      <4>2. QED BY <3>1, <4>1 DEF TypeInv, TypeOK
    <3>5. QED BY <3>2, <3>3, <3>4
  <2>2. QED BY <2>1
<1>3. QED BY <1>1, <1>2 DEF Job

(* Every step keeps the type invariant.                                    *)
LEMMA TypeStep ==
  ASSUME TypeInv, Keyed, [Next]_vars
  PROVE  TypeInv'
<1> USE DEF TypeInv
<1>0. /\ Len(channel) \in Nat /\ DOMAIN channel = 1..Len(channel) /\ 0 \in Object
      /\ Object \subseteq Nat /\ {MaxObjects, MaxId, MaxRequests} \subseteq Nat
  BY ChannelAssumption DEF TypeOK, Object
<1>1. ASSUME NEW w \in Worker, NEW r \in ClientRequest \cup NodeRequest, Start(w, r)
      PROVE  TypeInv'
  <2> DEFINE j == [pc |-> IF r.op = "create" /\ w \in Node THEN "register" ELSE "find", obj |-> 0, req |-> r]
  <2>1. j \in Job /\ j.obj = 0 /\ j.req = r /\ j.pc \in {"register", "find"} /\ (j.pc = "register" => r.op = "create")
    BY <1>0 DEF Job, Position
  <2>2. worker' = [worker EXCEPT ![w] = j] /\ UNCHANGED <<channel, maps, told, cast, unsettled, destroyed>>
    BY <1>1 DEF Start
  <2> HIDE DEF j
  <2>3. worker \in [Worker -> {Idle} \cup Job]
    BY DEF TypeOK, Job
  <2>4. /\ worker' \in [Worker -> {Idle} \cup Job] /\ worker'[w] = j
        /\ \A v \in Worker : v # w => worker'[v] = worker[v]
    BY <2>1, <2>2, <2>3
  <2>5. /\ ControlOK'
        /\ (worker \in [Worker -> {Idle} \cup [pc : Position, obj : Object, req : ClientRequest \cup NodeRequest]])'
        /\ \A v \in Worker : worker'[v].obj <= Len(channel')
    <3>1. Placed(w)' /\ worker'[w].obj <= Len(channel') /\ Len(channel') = Len(channel)
      BY <1>0, <2>1, <2>2, <2>4 DEF Placed
    <3>2. QED BY <1>0, <2>4, <3>1, OneWorker
  <2>6. count' \in 0..MaxRequests
    BY <1>0, <1>1 DEF Start, TypeOK
  <2>7. raced' \subseteq {"create", "destroy"}
    BY <1>1 DEF Start, TypeOK
  <2>8. QED BY <2>2, <2>5, <2>6, <2>7 DEF TypeOK, maps
<1>2. ASSUME NEW w \in Worker, UNCHANGED <<channel, maps, count>>,
             worker[w].pc # "idle",
             \/ Finish(w)
             \/ Goto(w, "register", 0) /\ worker[w].req.op = "create"
             \/ Goto(w, "create", 0) /\ worker[w].req.op = "create" /\ worker[w].req.name # NoName
             \/ Goto(w, "spin", 0)
             \/ \E o \in Object : (Goto(w, "tell", o) \/ Goto(w, "announce", o)) /\ o <= Len(channel) /\ o # 0
             \/ \E o \in Object : Goto(w, "set", o) /\ o <= Len(channel) /\ o # 0 /\ worker[w].req.op = "update"
             \/ \E o \in Object : Goto(w, "unregister", o) /\ o <= Len(channel) /\ o # 0 /\ worker[w].req.op = "destroy"
             \/ \E o \in Object : Goto(w, "cast", o) /\ o <= Len(channel) /\ o # 0 /\ worker[w].req.op = "update",
             told' \in [Node -> 0..Len(channel)], cast' \in [DOMAIN channel -> Seq(Nat)],
             (unsettled \cup destroyed \subseteq DOMAIN channel)', UNCHANGED raced
      PROVE  TypeInv'
  <2>1. Busy(w) /\ Idle.obj = 0
    BY <1>2 DEF Busy, Idle
  <2> DEFINE Moved == /\ worker' \in [Worker -> {Idle} \cup Job]
                      /\ \A v \in Worker : v # w => worker'[v] = worker[v]
                      /\ worker'[w].obj <= Len(channel')
                      /\ Placed(w)'
  <2>2. Moved
    <3> USE <1>0, <1>2, <2>1, GotoFacts DEF Position, Placed
    <3>1. CASE Finish(w)
      BY <3>1, FinishFacts DEF Idle
    <3>2. CASE Goto(w, "register", 0) /\ worker[w].req.op = "create"
      BY <3>2
    <3>3. CASE Goto(w, "create", 0) /\ worker[w].req.op = "create" /\ worker[w].req.name # NoName
      BY <3>3
    <3>4. CASE Goto(w, "spin", 0)
      BY <3>4
    <3>5. ASSUME NEW o \in Object, NEW pc \in {"tell", "announce"}, Goto(w, pc, o), o <= Len(channel), o # 0
          PROVE  Moved
      BY <3>5
    <3>6. ASSUME NEW o \in Object, NEW pc \in {"set", "cast"}, Goto(w, pc, o), o <= Len(channel), o # 0,
                 worker[w].req.op = "update"
          PROVE  Moved
      BY <3>6
    <3>7. ASSUME NEW o \in Object, Goto(w, "unregister", o), o <= Len(channel), o # 0,
                 worker[w].req.op = "destroy"
          PROVE  Moved
      BY <3>7
    <3>8. QED BY <1>2, <3>1, <3>2, <3>3, <3>4, <3>5, <3>6, <3>7, Zenon
  <2>3. /\ ControlOK'
        /\ (worker \in [Worker -> {Idle} \cup [pc : Position, obj : Object, req : ClientRequest \cup NodeRequest]])'
        /\ \A v \in Worker : worker'[v].obj <= Len(channel')
    BY <1>0, <1>2, <2>2, OneWorker
  <2>4. QED BY <1>2, <2>3 DEF TypeOK, maps
<1>3. ASSUME NEW w \in Worker, FindToCreate(w) PROVE TypeInv'
  <2>1. Finish(w) \/ Goto(w, "register", 0)
    BY <1>3, Zenon DEF FindToCreate
  <2>2. QED BY <1>2, <1>3, <2>1 DEF FindToCreate, TypeOK, history
<1>4. ASSUME NEW w \in Worker, Register(w) PROVE TypeInv'
  <2>1. Busy(w)
    BY <1>4 DEF Register, Busy
  <2> DEFINE o == Lookup(worker[w].req.name)
  <2>2. o \in Object /\ o <= Len(channel)
    BY <2>1, BusyFacts, FindFacts
  <2> HIDE DEF o
  <2>3. \/ Finish(w)
        \/ (Goto(w, "tell", o) \/ Goto(w, "announce", o)) /\ o # 0
        \/ Goto(w, "create", 0) /\ worker[w].req.name # NoName
    BY <1>4, Zenon DEF Register, Registered, o
  <2>4. worker[w].req.op = "create"
    BY <1>4 DEF Register, ControlOK, Placed
  <2>5. QED BY <1>2, <1>4, <2>2, <2>3, <2>4 DEF Register, TypeOK, history
<1>5. ASSUME NEW w \in Worker, Create(w) PROVE TypeInv'
  <2>1. Busy(w)
    BY <1>5 DEF Create, Busy
  <2>2. FreeId \in Id /\ NextId(FreeId) \in Id
    BY <1>5, FreeIdFacts DEF Create
  <2>3. worker[w].req.name \in Name
    BY <1>5, <2>1, BusyFacts DEF Create, ControlOK, Placed
  <2> DEFINE c == [id |-> FreeId, name |-> worker[w].req.name, value |-> <<>>]
             o == Len(channel) + 1
  <2>4. c \in [id : Id, name : Name, value : Seq(Nat)]
    BY <2>2, <2>3
  <2>5. /\ channel' = Append(channel, c) /\ cast' = Append(cast, <<>>) /\ Registered(w, o)
        /\ o <= MaxObjects /\ UNCHANGED <<count, told, unsettled, destroyed, raced>>
    BY <1>5 DEF Create
  <2>a. PICK pc \in {"tell", "announce"} : Goto(w, pc, o)
    BY <2>5 DEF Registered
  <2> HIDE DEF c
  <2>6. /\ channel' \in Seq([id : Id, name : Name, value : Seq(Nat)])
        /\ Len(channel') = o /\ DOMAIN channel' = 1..o
    BY <2>4, <2>5 DEF TypeOK
  <2>7. o \in Object
    BY <1>0, <2>5 DEF Object
  <2>8. cast' \in [DOMAIN channel' -> Seq(Nat)]
    <3>1. cast \in Seq(Seq(Nat)) /\ Len(cast) = Len(channel)
      <4>1. cast \in [1..Len(channel) -> Seq(Nat)]
        BY <1>0 DEF TypeOK
      <4>2. QED BY <1>0, <4>1
    <3>2. cast' \in Seq(Seq(Nat)) /\ Len(cast') = o
      BY <2>5, <3>1
    <3>3. QED BY <2>6, <3>2
  <2>9. ById' \in [Id -> Object] /\ ByName' \in [Name -> Object] /\ TopId' \in Id
    BY <1>5, <2>2, <2>7 DEF Create, TypeOK
  <2>10. Placed(w)'
    BY <1>0, <2>1, <2>a, <2>7, GotoFacts DEF Placed, Position
  <2>11. /\ ControlOK'
         /\ (worker \in [Worker -> {Idle} \cup [pc : Position, obj : Object, req : ClientRequest \cup NodeRequest]])'
         /\ \A v \in Worker : worker'[v].obj <= Len(channel')
    <3>1. /\ worker' \in [Worker -> {Idle} \cup Job] /\ worker'[w].obj = o
          /\ \A v \in Worker : v # w => worker'[v] = worker[v]
      BY <2>1, <2>a, <2>7, GotoFacts DEF Position
    <3>2. Len(channel') \in Nat /\ Len(channel) <= Len(channel') /\ worker'[w].obj <= Len(channel')
      BY <1>0, <2>6, <3>1
    <3>3. QED BY <1>0, <2>10, <3>1, <3>2, OneWorker
  <2>12. told' \in [Node -> 0..Len(channel')]
    BY <1>0, <2>5, <2>6 DEF TypeOK
  <2>13. (unsettled \cup destroyed)' \subseteq DOMAIN channel'
    BY <1>0, <2>5, <2>6 DEF TypeOK
  <2>14. QED BY <2>5, <2>6, <2>8, <2>9, <2>11, <2>12, <2>13 DEF TypeOK
<1>6. ASSUME NEW w \in Worker, Spin(w) PROVE TypeInv'
  BY <1>2, <1>6 DEF Spin, TypeOK, history
<1>7. ASSUME NEW w \in Worker, NodeTell(w) \/ Announce(w) PROVE TypeInv'
  <2> DEFINE o == worker[w].obj
  <2>1. o \in Object /\ o <= Len(channel) /\ o # 0 /\ o \in DOMAIN channel
    <3>1. o \in Object
      BY <1>7, BusyFacts DEF NodeTell, Announce, Busy
    <3>2. o <= Len(channel) /\ o # 0
      BY <1>7 DEF NodeTell, Announce, TypeOK, ControlOK, Placed
    <3> HIDE DEF o
    <3>3. o \in Nat
      BY <1>0, <3>1
    <3>4. o \in 1..Len(channel)
      BY <1>0, <3>2, <3>3
    <3>5. QED BY <1>0, <3>1, <3>2, <3>4
  <2>2. CASE NodeTell(w)
    <3>1. told' = [told EXCEPT ![w] = o] /\ Goto(w, "announce", o) /\ UNCHANGED <<channel, maps, count, history>>
      BY <2>2 DEF NodeTell
    <3> HIDE DEF o
    <3>2. told' \in [Node -> 0..Len(channel)]
      <4>1. o \in 0..Len(channel) /\ told \in [Node -> 0..Len(channel)]
        BY <1>0, <2>1 DEF TypeOK
      <4>2. QED BY <3>1, <4>1
    <3>3. worker[w].pc # "idle"
      BY <2>2 DEF NodeTell
    <3>4. QED BY <1>2, <2>1, <3>1, <3>2, <3>3 DEF TypeOK, history
  <2>3. CASE Announce(w)
    <3>1. /\ cast' = [cast EXCEPT ![o] = <<>>] /\ unsettled' \in {unsettled, unsettled \cup {o}}
          /\ Finish(w) /\ UNCHANGED <<channel, maps, count, told, destroyed, raced>>
          /\ worker[w].pc # "idle"
      BY <2>3 DEF Announce
    <3> HIDE DEF o
    <3>2. cast' \in [DOMAIN channel -> Seq(Nat)]
      <4>1. <<>> \in Seq(Nat) /\ cast \in [DOMAIN channel -> Seq(Nat)]
        BY DEF TypeOK
      <4>2. QED BY <3>1, <4>1
    <3>3. (unsettled \cup destroyed \subseteq DOMAIN channel)'
      BY <2>1, <3>1 DEF TypeOK
    <3>4. told' \in [Node -> 0..Len(channel)]
      BY <3>1 DEF TypeOK
    <3>5. QED BY <1>2, <3>1, <3>2, <3>3, <3>4
  <2>4. QED BY <1>7, <2>2, <2>3
<1>8. ASSUME NEW w \in Node, NodeLookup(w) PROVE TypeInv'
  <2> DEFINE o == Lookup(worker[w].req.name)
  <2>1. w \in Worker
    BY DEF Worker
  <2>2. o \in Object /\ o <= Len(channel)
    BY <1>8, <2>1, BusyFacts, FindFacts DEF NodeLookup, Busy
  <2>3. told' = [told EXCEPT ![w] = o] \/ told' = told
    BY <1>8 DEF NodeLookup
  <2> HIDE DEF o
  <2>4. told' \in [Node -> 0..Len(channel)]
    <3>1. o \in 0..Len(channel) /\ told \in [Node -> 0..Len(channel)]
      BY <1>0, <2>2 DEF TypeOK
    <3>2. QED BY <2>3, <3>1
  <2>5. QED BY <1>2, <1>8, <2>1, <2>4 DEF NodeLookup, TypeOK, history
<1>9. ASSUME NEW w \in Worker, FindToUse(w) PROVE TypeInv'
  <2> DEFINE o == Find(worker[w].req)
  <2>1. o \in Object /\ o <= Len(channel) /\ (o # 0 => o \in DOMAIN channel)
    BY <1>9, BusyFacts, FindFacts DEF FindToUse, Busy
  <2>2. \/ Finish(w)
        \/ o # 0 /\ worker[w].req.op = "update" /\ Goto(w, "set", o)
        \/ o # 0 /\ worker[w].req.op = "destroy" /\ Goto(w, "unregister", o)
    <3>1. CASE o = 0 \/ worker[w].req.op = "read"
      BY <1>9, <3>1 DEF FindToUse
    <3>2. CASE o # 0 /\ worker[w].req.op = "update"
      BY <1>9, <3>2 DEF FindToUse
    <3>3. CASE o # 0 /\ worker[w].req.op = "destroy"
      BY <1>9, <3>3 DEF FindToUse
    <3>4. QED BY <1>9, <3>1, <3>2, <3>3 DEF FindToUse
  <2>3. unsettled' = unsettled \/ (o # 0 /\ unsettled' = unsettled \cup {o}) \/ unsettled' = unsettled \ {o}
    <3>1. unsettled' \in {unsettled, unsettled \ {o}} \/ (o # 0 /\ unsettled' = unsettled \cup {o})
      BY <1>9, Zenon DEF FindToUse
    <3>2. QED BY <3>1
  <2> HIDE DEF o
  <2>4. unsettled' \subseteq DOMAIN channel
    BY <2>1, <2>3 DEF TypeOK
  <2>5. QED BY <1>2, <1>9, <2>1, <2>2, <2>4 DEF FindToUse, TypeOK
<1>10. ASSUME NEW w \in Worker, NEW o \in DOMAIN channel, NEW v \in Seq(Nat), NEW pc \in {"copy", "cast"},
              worker[w].pc # "idle", worker[w].req.op = "update", Goto(w, pc, o),
              channel' = [channel EXCEPT ![o].value = v],
              UNCHANGED <<maps, count, told, history>>
       PROVE  TypeInv'
  <2>1. channel[o] \in [id : Id, name : Name, value : Seq(Nat)]
    BY ChannelFacts
  <2> DEFINE c == [channel[o] EXCEPT !.value = v]
  <2>2. c \in [id : Id, name : Name, value : Seq(Nat)]
    BY <2>1
  <2>3. channel' = [channel EXCEPT ![o] = c]
    BY <1>10
  <2> HIDE DEF c
  <2>4. /\ channel' \in Seq([id : Id, name : Name, value : Seq(Nat)])
        /\ Len(channel') = Len(channel) /\ DOMAIN channel' = DOMAIN channel
    BY <2>2, <2>3 DEF TypeOK
  <2>5. Busy(w) /\ o \in Object /\ o <= Len(channel) /\ o # 0
    BY <1>10, ChannelFacts DEF Busy
  <2>6. Placed(w)'
    BY <1>10, <2>5, GotoFacts DEF Placed, Position
  <2>7. /\ ControlOK'
        /\ (worker \in [Worker -> {Idle} \cup [pc : Position, obj : Object, req : ClientRequest \cup NodeRequest]])'
        /\ \A u \in Worker : worker'[u].obj <= Len(channel')
    <3>1. /\ worker' \in [Worker -> {Idle} \cup Job] /\ worker'[w].obj = o
          /\ \A u \in Worker : u # w => worker'[u] = worker[u]
      BY <1>10, <2>5, GotoFacts DEF Position
    <3>2. Len(channel') \in Nat /\ Len(channel) <= Len(channel') /\ worker'[w].obj <= Len(channel')
      BY <1>0, <2>4, <2>5, <3>1
    <3>3. QED BY <1>0, <2>6, <3>1, <3>2, OneWorker
  <2>8. QED BY <1>10, <2>4, <2>7 DEF TypeOK, maps, history
<1>11. ASSUME NEW w \in Worker, worker[w].pc \in {"set", "copy", "cast", "unregister"}
       PROVE  /\ worker[w].obj \in DOMAIN channel /\ worker[w].obj \in Object
              /\ worker[w].pc # "unregister" => worker[w].req.op = "update" /\ worker[w].req.content \in Seq(Nat)
  BY <1>11, WriterFacts, ChannelFacts
<1>12. ASSUME NEW w \in Worker, SetContent(w) PROVE TypeInv'
  <2> DEFINE o == worker[w].obj
             n == worker[w].req.content
  <2>1. o \in DOMAIN channel /\ o \in Object /\ worker[w].req.op = "update" /\ n \in Seq(Nat)
    BY <1>11, <1>12 DEF SetContent
  <2>2. CASE Len(n) > MaxContent
    <3>1. /\ unsettled' = unsettled \cup {o} /\ Goto(w, "cast", o)
          /\ UNCHANGED <<channel, maps, count, told, cast, destroyed, raced>>
      BY <1>12, <2>2 DEF SetContent
    <3>2. o <= Len(channel) /\ o # 0
      BY <1>0, <2>1
    <3> HIDE DEF o
    <3>3. QED BY <1>2, <1>12, <2>1, <3>1, <3>2 DEF TypeOK, SetContent
  <2>3. CASE ~(Len(n) > MaxContent)
    <3> DEFINE z == [k \in 1..Len(n) |-> 0]
    <3>1. /\ channel' = [channel EXCEPT ![o].value = z] /\ Goto(w, "copy", o)
          /\ UNCHANGED <<maps, count, told, history>>
      BY <1>12, <2>3 DEF SetContent, history
    <3>2. z \in Seq(Nat)
      BY <2>1
    <3> HIDE DEF z, o
    <3>3. QED BY <1>10, <1>12, <2>1, <3>1, <3>2 DEF SetContent
  <2>4. QED BY <2>2, <2>3
<1>13. ASSUME NEW w \in Worker, CopyContent(w) PROVE TypeInv'
  <2> DEFINE o == worker[w].obj
             v == Overwrite(channel[o].value, worker[w].req.content)
  <2>1. o \in DOMAIN channel /\ worker[w].req.op = "update" /\ worker[w].req.content \in Seq(Nat)
    BY <1>11, <1>13 DEF CopyContent
  <2>2. channel[o].value \in Seq(Nat) /\ channel \in Seq([id : Id, name : Name, value : Seq(Nat)])
    BY <2>1, ChannelFacts DEF TypeOK
  <2>3. v \in Seq(Nat)
    <3>1. ASSUME NEW old \in Seq(Nat), NEW new \in Seq(Nat)
          PROVE  Overwrite(old, new) \in Seq(Nat)
      <4>1. DOMAIN old = 1..Len(old) /\ Len(old) \in Nat /\ Len(new) \in Nat
        OBVIOUS
      <4>2. \A k \in 1..Len(old) : old[k] \in Nat /\ (k <= Len(new) => new[k] \in Nat)
        OBVIOUS
      <4>3. Overwrite(old, new) \in [1..Len(old) -> Nat]
        BY <4>1, <4>2 DEF Overwrite
      <4>4. QED BY <4>1, <4>3, FunctionIsSeq
    <3>2. QED BY <2>1, <2>2, <3>1
  <2>4. channel' = [channel EXCEPT ![o].value = v]
    BY <1>13, <2>1, <2>2 DEF CopyContent
  <2>5. Goto(w, "cast", o) /\ UNCHANGED <<maps, count, told, history>>
    BY <1>13 DEF CopyContent
  <2> HIDE DEF v, o
  <2>6. QED BY <1>10, <1>13, <2>1, <2>3, <2>4, <2>5 DEF CopyContent
<1>14. ASSUME NEW w \in Worker, Broadcast(w) PROVE TypeInv'
  <2>1. cast' \in [DOMAIN channel -> Seq(Nat)]
    BY <1>11, <1>14 DEF Broadcast, TypeOK
  <2>2. QED BY <1>2, <1>14, <2>1 DEF Broadcast, TypeOK
<1>15. ASSUME NEW w \in Worker, Unregister(w) PROVE TypeInv'
  <2> DEFINE c == channel[worker[w].obj]
  <2>1. worker[w].obj \in DOMAIN channel
    BY <1>11, <1>15 DEF Unregister
  <2>2. c.id \in Id /\ c.name \in Name
    BY <2>1, ChannelFacts
  <2>3. ById' \in [Id -> Object] /\ ByName' \in [Name -> Object]
    BY <1>0, <1>15, <2>2 DEF Unregister, TypeOK
  <2>4. worker' \in [Worker -> {Idle} \cup Job] /\ worker'[w] = Idle /\ \A v \in Worker : v # w => worker'[v] = worker[v]
    BY <1>15, FinishFacts DEF Unregister
  <2>5. Placed(w)' /\ worker'[w].obj <= Len(channel)
    BY <1>0, <2>4 DEF Placed, Idle
  <2>6. /\ ControlOK'
        /\ (worker \in [Worker -> {Idle} \cup [pc : Position, obj : Object, req : ClientRequest \cup NodeRequest]])'
        /\ \A u \in Worker : worker'[u].obj <= Len(channel')
    BY <1>0, <1>15, <2>4, <2>5, OneWorker DEF Unregister
  <2>7. destroyed' \subseteq DOMAIN channel
    BY <1>15, <2>1 DEF Unregister, TypeOK
  <2>8. QED BY <1>15, <2>3, <2>6, <2>7 DEF Unregister, TypeOK
<1>16. CASE UNCHANGED vars
  BY <1>16 DEF vars, maps, history, TypeOK, ControlOK, Placed
<1>17. CASE Next
  <2>1. ASSUME NEW w \in Worker, Step(w) PROVE TypeInv'
    BY <2>1, <1>3, <1>4, <1>5, <1>6, <1>7, <1>8, <1>9, <1>12, <1>13, <1>14, <1>15 DEF Step
  <2>2. QED BY <1>1, <1>17, <2>1 DEF Next, Worker
<1>18. QED BY <1>16, <1>17
-----------------------------------------------------------------------------
(* The identity of the channels that exist.                                *)
Kept ==
  \A o \in DOMAIN channel :
    o \in DOMAIN channel' /\ channel'[o].id = channel[o].id /\ channel'[o].name = channel[o].name

(* What the start of a request changes.                                    *)
LEMMA StartFrame ==
  ASSUME TypeInv, NEW w \in Worker, NEW r \in ClientRequest \cup NodeRequest, Start(w, r)
  PROVE  /\ ~Busy(w)
         /\ \A v \in Worker : v # w => worker'[v] = worker[v]
         /\ worker'[w].req = r /\ worker'[w].pc \in {"register", "find"} /\ worker'[w].obj = 0
         /\ raced \subseteq raced'
         /\ r.op \notin raced' => ~ \E v \in Worker : \/ r.op = "create" /\ Creating(v, r.name)
                                                      \/ r.op = "destroy" /\ Destroying(v)
         /\ UNCHANGED <<channel, ById, ByName, cast, told, unsettled, destroyed>>
<1> DEFINE j == [pc |-> IF r.op = "create" /\ w \in Node THEN "register" ELSE "find", obj |-> 0, req |-> r]
<1>1. j.req = r /\ j.pc \in {"register", "find"} /\ j.obj = 0
  OBVIOUS
<1>2. worker' = [worker EXCEPT ![w] = j] /\ ~Busy(w) /\ UNCHANGED <<channel, maps, told, cast, unsettled, destroyed>>
  BY DEF Start
<1> HIDE DEF j
<1>3. worker'[w] = j /\ \A v \in Worker : v # w => worker'[v] = worker[v]
  BY <1>2 DEF TypeInv, TypeOK
<1>4. /\ raced \subseteq raced'
      /\ r.op \notin raced' => ~ \E v \in Worker : \/ r.op = "create" /\ Creating(v, r.name)
                                                   \/ r.op = "destroy" /\ Destroying(v)
  BY Zenon DEF Start
<1>5. QED BY <1>1, <1>2, <1>3, <1>4 DEF maps

(* What a step of a request changes.                                       *)
Framed(w) ==
  /\ Busy(w) /\ raced' = raced /\ Kept
  /\ \A v \in Worker : v # w => worker'[v] = worker[v]
  /\ \/ worker'[w] = Idle
     \/ /\ worker'[w].req = worker[w].req /\ worker'[w].pc \in Position
        /\ worker'[w].pc = "unregister" => worker'[w].obj \in DOMAIN channel \ destroyed
        /\ worker'[w].pc = "create" => ByName[worker[w].req.name] = 0
        /\ worker'[w].pc \in {"unregister", "create"} => UNCHANGED <<ByName, destroyed>>
  /\ \/ UNCHANGED <<ById, ByName, destroyed>> /\ DOMAIN channel' = DOMAIN channel
     \/ Create(w) \/ Unregister(w)

(* Every step of a request is of this form.                                *)
LEMMA StepFrame ==
  ASSUME TypeInv, Keyed, NEW w \in Worker, Step(w)
  PROVE  Framed(w)
<1> USE DEF TypeInv, Framed
<1>0. 0 \in Object
  BY ChannelAssumption DEF Object
<1>1. ASSUME Busy(w), UNCHANGED <<channel, maps, destroyed, raced>>,
             \/ Finish(w)
             \/ \E o \in Object, pc \in Position \ {"unregister", "create"} : Goto(w, pc, o)
             \/ \E o \in Object : o \in DOMAIN channel \ destroyed /\ Goto(w, "unregister", o)
             \/ ByName[worker[w].req.name] = 0 /\ Goto(w, "create", 0)
      PROVE  Framed(w)
  <2>1. CASE Finish(w)
    BY <1>1, <2>1, FinishFacts DEF Kept, maps
  <2>2. ASSUME NEW o \in Object, NEW pc \in Position \ {"unregister", "create"}, Goto(w, pc, o)
        PROVE  Framed(w)
    BY <1>1, <2>2, GotoFacts DEF Kept, maps
  <2>3. ASSUME NEW o \in Object, o \in DOMAIN channel \ destroyed, Goto(w, "unregister", o)
        PROVE  Framed(w)
    BY <1>1, <2>3, GotoFacts DEF Kept, maps, Position
  <2>4. CASE ByName[worker[w].req.name] = 0 /\ Goto(w, "create", 0)
    BY <1>0, <1>1, <2>4, GotoFacts DEF Kept, maps, Position
  <2>5. QED BY <1>1, <2>1, <2>2, <2>3, <2>4
<1>2. CASE FindToCreate(w)
  <2>1. Finish(w) \/ Goto(w, "register", 0)
    BY <1>2, Zenon DEF FindToCreate
  <2>2. QED BY <1>0, <1>1, <1>2, <2>1 DEF FindToCreate, history, Busy, Position
<1>3. CASE Register(w)
  <2> DEFINE o == Lookup(worker[w].req.name)
  <2>1. Busy(w)
    BY <1>3 DEF Register, Busy
  <2>2. o \in Object
    BY <2>1, BusyFacts, FindFacts
  <2>3. \/ Finish(w) \/ Goto(w, "tell", o) \/ Goto(w, "announce", o)
        \/ ByName[worker[w].req.name] = 0 /\ Goto(w, "create", 0)
    BY <1>3, Zenon DEF Register, Registered, Lookup
  <2> HIDE DEF o
  <2>4. QED BY <1>1, <1>3, <2>1, <2>2, <2>3 DEF Register, history, Position
<1>4. CASE Create(w)
  <2>1. Busy(w) /\ Len(channel) + 1 \in Object
    BY <1>4, ChannelFacts, ChannelAssumption DEF Create, Busy, Object
  <2>2. Kept
    <3>1. channel \in Seq([id : Id, name : Name, value : Seq(Nat)])
      BY DEF TypeOK
    <3> DEFINE c == [id |-> FreeId, name |-> worker[w].req.name, value |-> <<>>]
    <3>2. channel' = Append(channel, c)
      BY <1>4 DEF Create
    <3> HIDE DEF c
    <3>3. \A o \in DOMAIN channel : o \in DOMAIN channel' /\ channel'[o] = channel[o]
      BY <3>1, <3>2
    <3>4. QED BY <3>3 DEF Kept
  <2>3. PICK pc \in {"tell", "announce"} : Goto(w, pc, Len(channel) + 1) /\ raced' = raced
    BY <1>4 DEF Create, Registered
  <2>4. QED BY <1>4, <2>1, <2>2, <2>3, GotoFacts DEF Position
<1>5. CASE Spin(w)
  BY <1>0, <1>1, <1>5 DEF Spin, history, Busy, Position
<1>6. CASE NodeTell(w) \/ Announce(w)
  <2>1. CASE NodeTell(w)
    <3>1. Busy(w) /\ worker[w].obj \in Object
      BY <2>1, BusyFacts DEF NodeTell, Busy
    <3>2. QED BY <1>1, <2>1, <3>1 DEF NodeTell, history, Position
  <2>2. CASE Announce(w)
    BY <1>1, <2>2 DEF Announce, Busy
  <2>3. QED BY <1>6, <2>1, <2>2
<1>7. CASE NodeLookup(w)
  BY <1>1, <1>7 DEF NodeLookup, history, Busy
<1>8. CASE FindToUse(w)
  <2> DEFINE o == Find(worker[w].req)
  <2>1. Busy(w)
    BY <1>8 DEF FindToUse, Busy
  <2>2. o \in Object /\ (o # 0 => o \in DOMAIN channel \ destroyed)
    BY <2>1, BusyFacts, FindFacts
  <2>3. Finish(w) \/ (o # 0 /\ Goto(w, IF worker[w].req.op = "update" THEN "set" ELSE "unregister", o))
    BY <1>8, Zenon DEF FindToUse
  <2> HIDE DEF o
  <2>4. Finish(w) \/ Goto(w, "set", o) \/ (o # 0 /\ Goto(w, "unregister", o))
    BY <2>3
  <2>5. QED BY <1>1, <1>8, <2>1, <2>2, <2>4 DEF FindToUse, Position
<1>9. ASSUME NEW v, NEW pc \in {"copy", "cast"}, worker[w].pc \in {"set", "copy"},
             channel' = [channel EXCEPT ![worker[w].obj].value = v], Goto(w, pc, worker[w].obj),
             UNCHANGED <<maps, destroyed, raced>>
      PROVE  Framed(w)
  <2> DEFINE o == worker[w].obj
  <2>1. Busy(w) /\ o \in Object /\ o \in DOMAIN channel
    BY <1>9, WriterFacts, ChannelFacts DEF Busy
  <2>2. channel[o] \in [id : Id, name : Name, value : Seq(Nat)]
    BY <2>1, ChannelFacts
  <2> DEFINE c == [channel[o] EXCEPT !.value = v]
  <2>3. c.id = channel[o].id /\ c.name = channel[o].name
    BY <2>2
  <2>4. channel' = [channel EXCEPT ![o] = c]
    BY <1>9
  <2> HIDE DEF c, o
  <2>5. Kept /\ DOMAIN channel' = DOMAIN channel
    BY <2>1, <2>3, <2>4 DEF Kept
  <2>6. QED BY <1>9, <2>1, <2>5, GotoFacts DEF Position, maps, o
<1>10. CASE SetContent(w)
  <2>1. CASE Len(worker[w].req.content) > MaxContent
    <3>1. Goto(w, "cast", worker[w].obj) /\ UNCHANGED <<channel, maps, destroyed, raced>>
      BY <1>10, <2>1 DEF SetContent
    <3>2. Busy(w) /\ worker[w].obj \in Object
      BY <1>10, WriterFacts, ChannelFacts DEF SetContent, Busy
    <3>3. QED BY <1>1, <3>1, <3>2 DEF Position
  <2>2. CASE ~(Len(worker[w].req.content) > MaxContent)
    BY <1>9, <1>10, <2>2 DEF SetContent
  <2>3. QED BY <2>1, <2>2
<1>11. CASE CopyContent(w)
  <2> DEFINE v == Overwrite(channel[worker[w].obj].value, worker[w].req.content)
  <2>1. worker[w].obj \in DOMAIN channel
    BY <1>11, WriterFacts DEF CopyContent
  <2>2. channel' = [channel EXCEPT ![worker[w].obj].value = v]
    BY <1>11, <2>1, ChannelFacts DEF CopyContent, TypeOK
  <2> HIDE DEF v
  <2>3. QED BY <1>9, <1>11, <2>2 DEF CopyContent, history
<1>12. CASE Broadcast(w)
  BY <1>1, <1>12 DEF Broadcast, Busy
<1>13. CASE Unregister(w)
  BY <1>13, FinishFacts DEF Unregister, Busy, Kept
<1>14. QED
  BY <1>2, <1>3, <1>4, <1>5, <1>6, <1>7, <1>8, <1>10, <1>11, <1>12, <1>13 DEF Step

(* What Create and Unregister do to the maps.                              *)
LEMMA CreateFacts ==
  ASSUME TypeInv, NEW w \in Worker, Create(w)
  PROVE  LET o == Len(channel) + 1 IN
         /\ DOMAIN channel' = DOMAIN channel \cup {o} /\ o \notin DOMAIN channel /\ o # 0
         /\ channel'[o].id = FreeId /\ channel'[o].name = worker[w].req.name /\ channel'[o].value = <<>>
         /\ FreeId \in Id /\ ById[FreeId] = 0 /\ worker[w].req.name \in Name
         /\ Creating(w, worker[w].req.name)
         /\ ById' = [ById EXCEPT ![FreeId] = o]
         /\ ByName' = [ByName EXCEPT ![worker[w].req.name] = o]
         /\ destroyed' = destroyed /\ unsettled' = unsettled
         /\ cast' = Append(cast, <<>>)
         /\ \A p \in DOMAIN channel : channel'[p] = channel[p]
<1> DEFINE o == Len(channel) + 1
           c == [id |-> FreeId, name |-> worker[w].req.name, value |-> <<>>]
<1>1. FreeId \in Id /\ ById[FreeId] = 0
  BY FreeIdFacts DEF Create, TypeInv
<1>2. Busy(w) /\ worker[w].req.name \in Name /\ worker[w].req.op = "create"
  BY BusyFacts DEF Create, Busy, TypeInv, ControlOK, Placed
<1>3. channel' = Append(channel, c) /\ channel \in Seq([id : Id, name : Name, value : Seq(Nat)])
  BY DEF Create, TypeInv, TypeOK
<1>4. c.id = FreeId /\ c.name = worker[w].req.name /\ c.value = <<>>
  OBVIOUS
<1> HIDE DEF c
<1>5. /\ DOMAIN channel' = DOMAIN channel \cup {o} /\ o \notin DOMAIN channel /\ o # 0
      /\ channel'[o] = c /\ \A p \in DOMAIN channel : channel'[p] = channel[p]
  BY <1>3
<1>6. QED BY <1>1, <1>2, <1>4, <1>5 DEF Create, Creating

(* What Unregister removes from both maps.                                 *)
LEMMA UnregisterFacts ==
  ASSUME TypeInv, NEW w \in Worker, Unregister(w)
  PROVE  LET o == worker[w].obj IN
         /\ o \in DOMAIN channel /\ channel' = channel /\ Destroying(w)
         /\ channel[o].id \in Id /\ channel[o].name \in Name
         /\ ById' = [ById EXCEPT ![channel[o].id] = 0]
         /\ ByName' = [ByName EXCEPT ![channel[o].name] = 0]
         /\ destroyed' = destroyed \cup {o}
<1>1. worker[w].obj \in DOMAIN channel
  BY WriterFacts DEF Unregister, TypeInv
<1>2. channel[worker[w].obj].id \in Id /\ channel[worker[w].obj].name \in Name
  BY <1>1, ChannelFacts DEF TypeInv
<1>3. Destroying(w)
  BY DEF Unregister, Destroying, Busy, TypeInv, ControlOK, Placed
<1>4. QED BY <1>1, <1>2, <1>3 DEF Unregister

(* Every step keeps the maps leading to channels that have the key.        *)
LEMMA KeyedStep ==
  ASSUME TypeInv, Keyed, [Next]_vars
  PROVE  Keyed'
<1>0. /\ ById \in [Id -> Object] /\ ByName \in [Name -> Object] /\ destroyed \subseteq DOMAIN channel
  BY DEF TypeInv, TypeOK
<1>1. ASSUME Kept, UNCHANGED <<ById, ByName, destroyed>>, DOMAIN channel' = DOMAIN channel PROVE Keyed'
  BY <1>1 DEF Keyed, Kept
<1>2. ASSUME NEW w \in Worker, Create(w) PROVE Keyed'
  <2> DEFINE o == Len(channel) + 1
             name == worker[w].req.name
  <2>1. /\ DOMAIN channel' = DOMAIN channel \cup {o} /\ o \notin DOMAIN channel
        /\ channel'[o].id = FreeId /\ channel'[o].name = name
        /\ FreeId \in Id /\ name \in Name
        /\ ById' = [ById EXCEPT ![FreeId] = o] /\ ByName' = [ByName EXCEPT ![name] = o]
        /\ destroyed' = destroyed /\ \A p \in DOMAIN channel : channel'[p] = channel[p]
    BY <1>2, CreateFacts
  <2> HIDE DEF o, name
  <2>2. QED BY <1>0, <2>1 DEF Keyed
<1>3. ASSUME NEW w \in Worker, Unregister(w) PROVE Keyed'
  <2> DEFINE o == worker[w].obj
  <2>1. /\ o \in DOMAIN channel /\ channel' = channel /\ channel[o].id \in Id /\ channel[o].name \in Name
        /\ ById' = [ById EXCEPT ![channel[o].id] = 0] /\ ByName' = [ByName EXCEPT ![channel[o].name] = 0]
        /\ destroyed' = destroyed \cup {o}
    BY <1>3, UnregisterFacts
  <2> HIDE DEF o
  <2>2. QED BY <1>0, <2>1 DEF Keyed
<1>4. ASSUME NEW w \in Worker, Step(w) PROVE Keyed'
  BY <1>1, <1>2, <1>3, <1>4, StepFrame DEF Framed
<1>5. ASSUME NEW w \in Worker, NEW r \in ClientRequest \cup NodeRequest, Start(w, r) PROVE Keyed'
  BY <1>5, StartFrame DEF Keyed
<1>6. CASE UNCHANGED vars
  BY <1>6 DEF vars, maps, history, Keyed
<1>7. QED BY <1>4, <1>5, <1>6 DEF Next, Worker

(* Every step keeps IdInv: a destruction that starts while another one is  *)
(* under way is noted in raced, and a single one finds its channel there.  *)
LEMMA IdStep ==
  ASSUME TypeInv, Keyed, IdInv, [Next]_vars
  PROVE  IdInv'
<1> SUFFICES ASSUME "destroy" \notin raced'
             PROVE  /\ \A v, w \in Worker : Destroying(v)' /\ Destroying(w)' => v = w
                    /\ \A w \in Worker : worker'[w].pc = "unregister" => worker'[w].obj \notin destroyed'
                    /\ \A o \in DOMAIN channel' \ destroyed' : ById'[channel'[o].id] = o
  BY DEF IdInv
<1>0. /\ ById \in [Id -> Object] /\ destroyed \subseteq DOMAIN channel
      /\ \A o \in DOMAIN channel : o # 0 /\ channel[o].id \in Id
  BY ChannelFacts DEF TypeInv, TypeOK
<1>1. ASSUME NEW w \in Worker, NEW r \in ClientRequest \cup NodeRequest, Start(w, r) PROVE IdInv'
  <2>1. "destroy" \notin raced
    BY <1>1, StartFrame
  <2>2. /\ \A v \in Worker : v # w => worker'[v] = worker[v]
        /\ worker'[w].req = r /\ worker'[w].pc # "unregister" /\ ~Busy(w)
        /\ r.op = "destroy" => \A v \in Worker : ~Destroying(v)
        /\ UNCHANGED <<channel, ById, destroyed>>
    BY <1>1, StartFrame
  <2>3. \A u, v \in Worker : Destroying(u)' /\ Destroying(v)' => u = v
    BY <2>1, <2>2 DEF IdInv, Destroying, Busy
  <2>4. QED BY <2>1, <2>2, <2>3 DEF IdInv
<1>2. ASSUME NEW w \in Worker, Step(w) PROVE IdInv'
  <2>0. Framed(w)
    BY <1>2, StepFrame
  <2>1. "destroy" \notin raced
    BY <2>0 DEF Framed
  <2>2. \A v \in Worker : Destroying(v)' => Destroying(v)
    BY <2>0 DEF Framed, Destroying, Busy, Idle
  <2>3. \A u, v \in Worker : Destroying(u)' /\ Destroying(v)' => u = v
    BY <2>1, <2>2 DEF IdInv
  <2>4. ASSUME NEW v \in Worker, worker'[v].pc = "unregister" PROVE worker'[v].obj \notin destroyed'
    <3>1. CASE v = w
      BY <2>0, <2>4, <3>1 DEF Framed, Idle
    <3>2. CASE v # w
      <4>1. worker'[v] = worker[v] /\ worker[v].obj \notin destroyed /\ Destroying(v)
        BY <2>0, <2>1, <2>4, <3>2 DEF Framed, IdInv, Destroying, Busy, TypeInv, ControlOK, Placed
      <4>2. ~Unregister(w)
        BY <2>1, <3>2, <4>1, UnregisterFacts DEF IdInv
      <4>3. destroyed' = destroyed
        BY <2>0, <4>2, CreateFacts DEF Framed
      <4>4. QED BY <4>1, <4>3
    <3>3. QED BY <3>1, <3>2
  <2>5. \A o \in DOMAIN channel' \ destroyed' : ById'[channel'[o].id] = o
    <3>1. CASE UNCHANGED <<ById, ByName, destroyed>> /\ DOMAIN channel' = DOMAIN channel
      BY <2>0, <2>1, <3>1 DEF Framed, Kept, IdInv
    <3>2. CASE Create(w)
      <4> DEFINE o == Len(channel) + 1
      <4>1. /\ DOMAIN channel' = DOMAIN channel \cup {o} /\ channel'[o].id = FreeId
            /\ FreeId \in Id /\ ById[FreeId] = 0 /\ ById' = [ById EXCEPT ![FreeId] = o]
            /\ destroyed' = destroyed /\ \A p \in DOMAIN channel : channel'[p] = channel[p]
        BY <3>2, CreateFacts
      <4> HIDE DEF o
      <4>2. QED BY <1>0, <2>1, <4>1 DEF IdInv
    <3>3. CASE Unregister(w)
      <4> DEFINE o == worker[w].obj
      <4>1. /\ o \in DOMAIN channel /\ channel' = channel /\ channel[o].id \in Id
            /\ ById' = [ById EXCEPT ![channel[o].id] = 0] /\ destroyed' = destroyed \cup {o}
        BY <3>3, UnregisterFacts
      <4>2. o \notin destroyed
        BY <2>1, <3>3 DEF IdInv, Unregister
      <4> HIDE DEF o
      <4>3. QED BY <1>0, <2>1, <4>1, <4>2 DEF IdInv
    <3>4. QED BY <2>0, <3>1, <3>2, <3>3 DEF Framed
  <2>6. QED BY <2>3, <2>4, <2>5 DEF IdInv
<1>3. CASE UNCHANGED vars
  BY <1>3 DEF vars, maps, history, IdInv, Destroying, Busy
<1>4. QED BY <1>1, <1>2, <1>3 DEF Next, Worker, IdInv

(* Every step keeps NameInv: of two creations of a name the second one is  *)
(* noted in raced, and a single one finds that the name is still absent.   *)
LEMMA NameStep ==
  ASSUME TypeInv, Keyed, IdInv, NameInv, [Next]_vars
  PROVE  NameInv'
<1> SUFFICES ASSUME raced' = {}
             PROVE  /\ \A n \in Name : \A v, w \in Worker : Creating(v, n)' /\ Creating(w, n)' => v = w
                    /\ \A w \in Worker : worker'[w].pc = "create" => ByName'[worker'[w].req.name] = 0
                    /\ \A o \in DOMAIN channel' \ destroyed' : ByName'[channel'[o].name] = o
  BY DEF NameInv
<1>0. /\ ByName \in [Name -> Object] /\ destroyed \subseteq DOMAIN channel
      /\ \A o \in DOMAIN channel : o # 0 /\ channel[o].name \in Name
  BY ChannelFacts DEF TypeInv, TypeOK
<1>1. ASSUME NEW w \in Worker, NEW r \in ClientRequest \cup NodeRequest, Start(w, r) PROVE NameInv'
  <2>1. raced = {}
    BY <1>1, StartFrame
  <2>2. /\ \A v \in Worker : v # w => worker'[v] = worker[v]
        /\ worker'[w].req = r /\ worker'[w].pc # "create" /\ ~Busy(w)
        /\ r.op = "create" => \A v \in Worker : ~Creating(v, r.name)
        /\ UNCHANGED <<channel, ByName, destroyed>>
    BY <1>1, StartFrame
  <2>3. \A n \in Name : \A u, v \in Worker : Creating(u, n)' /\ Creating(v, n)' => u = v
    BY <2>1, <2>2 DEF NameInv, Creating, Busy
  <2>4. QED BY <2>1, <2>2, <2>3 DEF NameInv
<1>2. ASSUME NEW w \in Worker, Step(w) PROVE NameInv'
  <2>0. Framed(w)
    BY <1>2, StepFrame
  <2>1. raced = {}
    BY <2>0 DEF Framed
  <2>2. \A n \in Name : \A v \in Worker : Creating(v, n)' => Creating(v, n)
    BY <2>0 DEF Framed, Creating, Busy, Idle
  <2>3. \A n \in Name : \A u, v \in Worker : Creating(u, n)' /\ Creating(v, n)' => u = v
    BY <2>1, <2>2 DEF NameInv
  <2>4. ASSUME NEW v \in Worker, worker'[v].pc = "create" PROVE ByName'[worker'[v].req.name] = 0
    <3>1. CASE v = w
      BY <2>0, <2>4, <3>1 DEF Framed, Idle
    <3>2. CASE v # w
      <4> DEFINE name == worker[v].req.name
      <4>1. worker'[v] = worker[v] /\ worker[v].pc = "create" /\ ByName[name] = 0
        BY <2>0, <2>1, <2>4, <3>2 DEF Framed, NameInv
      <4>2. name \in Name /\ Creating(v, name)
        BY <4>1, BusyFacts DEF Creating, Busy, TypeInv, ControlOK, Placed
      <4>3. CASE Create(w)
        <5>1. worker[w].req.name # name
          BY <2>1, <3>2, <4>2, <4>3, CreateFacts DEF NameInv
        <5>2. QED BY <1>0, <4>1, <4>2, <4>3, <5>1, CreateFacts
      <4>4. CASE Unregister(w)
        BY <1>0, <4>1, <4>2, <4>4, UnregisterFacts
      <4>5. QED BY <2>0, <4>1, <4>3, <4>4 DEF Framed
    <3>3. QED BY <3>1, <3>2
  <2>5. \A o \in DOMAIN channel' \ destroyed' : ByName'[channel'[o].name] = o
    <3>1. CASE UNCHANGED <<ById, ByName, destroyed>> /\ DOMAIN channel' = DOMAIN channel
      BY <2>0, <2>1, <3>1 DEF Framed, Kept, NameInv
    <3>2. CASE Create(w)
      <4> DEFINE o == Len(channel) + 1
                 name == worker[w].req.name
      <4>1. /\ DOMAIN channel' = DOMAIN channel \cup {o} /\ channel'[o].name = name
            /\ name \in Name /\ ByName' = [ByName EXCEPT ![name] = o]
            /\ destroyed' = destroyed /\ \A p \in DOMAIN channel : channel'[p] = channel[p]
        BY <3>2, CreateFacts
      <4>2. ByName[name] = 0
        BY <2>1, <3>2 DEF NameInv, Create
      <4> HIDE DEF o, name
      <4>3. QED BY <1>0, <2>1, <4>1, <4>2 DEF NameInv
    <3>3. CASE Unregister(w)
      <4> DEFINE o == worker[w].obj
      <4>1. /\ o \in DOMAIN channel /\ channel' = channel /\ channel[o].name \in Name
            /\ ByName' = [ByName EXCEPT ![channel[o].name] = 0] /\ destroyed' = destroyed \cup {o}
        BY <3>3, UnregisterFacts
      <4>2. o \notin destroyed
        BY <2>1, <3>3 DEF IdInv, Unregister
      <4> HIDE DEF o
      <4>3. QED BY <1>0, <2>1, <4>1, <4>2 DEF NameInv
    <3>4. QED BY <2>0, <3>1, <3>2, <3>3 DEF Framed
  <2>6. QED BY <2>3, <2>4, <2>5 DEF NameInv
<1>3. CASE UNCHANGED vars
  BY <1>3 DEF vars, maps, history, NameInv, Creating, Busy
<1>4. QED BY <1>1, <1>2, <1>3 DEF Next, Worker, NameInv
-----------------------------------------------------------------------------
(* A step that concerns neither the contents nor the writers.              *)
LEMMA QuietStep ==
  ASSUME WriteInv, ViewsAgree, NEW w \in Worker,
         \A v \in Worker : v # w => worker'[v] = worker[v],
         worker[w].pc \notin {"set", "copy", "cast"}, worker'[w].pc \notin {"set", "copy", "cast"},
         UNCHANGED <<channel, cast, unsettled>>
  PROVE  WriteInv' /\ ViewsAgree'
<1>1. \A v \in Worker : \A o : Writing(v, o)' <=> Writing(v, o)
  BY DEF Writing
<1>2. WriteInv'
  BY <1>1 DEF WriteInv, Writing
<1>3. QED BY <1>1, <1>2 DEF ViewsAgree

(* Copying a content over one of its length gives that content.            *)
LEMMA OverwriteSame ==
  ASSUME NEW old \in Seq(Nat), NEW new \in Seq(Nat), Len(old) = Len(new)
  PROVE  Overwrite(old, new) = new
<1>1. DOMAIN old = 1..Len(new) /\ DOMAIN new = 1..Len(new) /\ Len(new) \in Nat
  OBVIOUS
<1>2. \A k \in DOMAIN old : (IF k <= Len(new) THEN new[k] ELSE old[k]) = new[k]
  BY <1>1
<1>3. Overwrite(old, new) = [k \in DOMAIN old |-> new[k]]
  BY <1>2 DEF Overwrite
<1>4. QED BY <1>1, <1>3

(* Every step keeps WriteInv and ViewsAgree.                               *)
LEMMA ViewsStep ==
  ASSUME TypeInv, Keyed, WriteInv, ViewsAgree, [Next]_vars
  PROVE  WriteInv' /\ ViewsAgree'
<1> USE DEF TypeInv
<1> DEFINE Goal == WriteInv' /\ ViewsAgree'
<1>1. ASSUME NEW w \in Worker, NEW r \in ClientRequest \cup NodeRequest, Start(w, r) PROVE Goal
  BY <1>1, StartFrame, QuietStep DEF Busy
<1>2. ASSUME NEW w \in Worker, UNCHANGED <<channel, cast, unsettled>>,
             worker[w].pc \in Position \ {"set", "copy", "cast"},
             \/ Finish(w)
             \/ \E o \in Object, pc \in Position \ {"set", "copy", "cast"} : Goto(w, pc, o)
      PROVE  Goal
  <2>1. Busy(w)
    BY <1>2 DEF Busy, Position
  <2>2. worker'[w].pc \notin {"set", "copy", "cast"} /\ \A v \in Worker : v # w => worker'[v] = worker[v]
    BY <1>2, <2>1, FinishFacts, GotoFacts DEF Idle
  <2>3. QED BY <1>2, <2>2, QuietStep
<1>3. 0 \in Object
  BY ChannelAssumption DEF Object
<1>4. ASSUME NEW w \in Worker, FindToCreate(w) PROVE Goal
  <2>1. Finish(w) \/ Goto(w, "register", 0)
    BY <1>4, Zenon DEF FindToCreate
  <2>2. QED BY <1>2, <1>3, <1>4, <2>1 DEF FindToCreate, history, Position
<1>5. ASSUME NEW w \in Worker, Register(w) PROVE Goal
  <2> DEFINE o == Lookup(worker[w].req.name)
  <2>1. o \in Object
    BY <1>5, BusyFacts, FindFacts DEF Register, Busy
  <2>2. Finish(w) \/ Goto(w, "tell", o) \/ Goto(w, "announce", o) \/ Goto(w, "create", 0)
    BY <1>5, Zenon DEF Register, Registered
  <2> HIDE DEF o
  <2>3. QED BY <1>2, <1>3, <1>5, <2>1, <2>2 DEF Register, history, Position
<1>6. ASSUME NEW w \in Worker, Spin(w) PROVE Goal
  BY <1>2, <1>3, <1>6 DEF Spin, history, Position
<1>7. ASSUME NEW w \in Worker, NodeTell(w) \/ Announce(w) \/ NodeLookup(w) PROVE Goal
  <2>1. CASE NodeLookup(w)
    BY <1>2, <2>1 DEF NodeLookup, history, Position
  <2>2. CASE NodeTell(w)
    <3>1. worker[w].obj \in Object
      BY <2>2, BusyFacts DEF NodeTell, Busy
    <3>2. QED BY <1>2, <2>2, <3>1 DEF NodeTell, history, Position
  <2>3. CASE Announce(w)
    <3> DEFINE o == worker[w].obj
    <3>1. /\ worker[w].pc = "announce" /\ channel' = channel /\ cast' = [cast EXCEPT ![o] = <<>>]
          /\ worker'[w] = Idle /\ \A v \in Worker : v # w => worker'[v] = worker[v]
          /\ DOMAIN cast = DOMAIN channel
      BY <2>3, FinishFacts DEF Announce, TypeOK
    <3>2. \/ unsettled' = unsettled \cup {o}
          \/ unsettled' = unsettled /\ (channel[o].value = <<>> \/ \E v \in Worker : Writing(v, o))
      BY <2>3, Zenon DEF Announce
    <3> HIDE DEF o
    <3>3. \A v \in Worker : \A p : Writing(v, p)' <=> Writing(v, p)
      BY <3>1 DEF Writing, Idle
    <3>4. WriteInv'
      <4> SUFFICES ASSUME NEW p \in DOMAIN channel \ unsettled', NEW v \in Worker, Writing(v, p)'
                   PROVE  /\ \A u \in Worker : Writing(u, p)' => u = v
                          /\ worker'[v].pc = "copy" => Len(channel[p].value) = Len(worker'[v].req.content)
                          /\ worker'[v].pc = "cast" => channel[p].value = worker'[v].req.content
        BY <3>1 DEF WriteInv
      <4>1. p \in DOMAIN channel \ unsettled /\ Writing(v, p) /\ v # w
        BY <3>1, <3>2, <3>3 DEF Writing
      <4>2. QED BY <3>1, <3>3, <4>1 DEF WriteInv
    <3>5. ViewsAgree'
      <4> SUFFICES ASSUME NEW p \in DOMAIN channel \ unsettled', \A v \in Worker : ~Writing(v, p)'
                   PROVE  channel[p].value = cast'[p]
        BY <3>1 DEF ViewsAgree
      <4>1. p \in DOMAIN channel \ unsettled /\ \A v \in Worker : ~Writing(v, p)
        BY <3>2, <3>3
      <4>2. CASE p = o
        BY <3>1, <3>2, <4>1, <4>2
      <4>3. CASE p # o
        BY <3>1, <4>1, <4>3 DEF ViewsAgree
      <4>4. QED BY <4>2, <4>3
    <3>6. QED BY <3>4, <3>5
  <2>4. QED BY <1>7, <2>1, <2>2, <2>3
<1>8. ASSUME NEW w \in Worker, Unregister(w) PROVE Goal
  BY <1>2, <1>8 DEF Unregister, Position
<1>9. ASSUME NEW w \in Worker, Create(w) PROVE Goal
  <2> DEFINE o == Len(channel) + 1
  <2>1. /\ DOMAIN channel' = DOMAIN channel \cup {o} /\ o \notin DOMAIN channel
        /\ channel'[o].value = <<>> /\ unsettled' = unsettled /\ cast' = Append(cast, <<>>)
        /\ \A p \in DOMAIN channel : channel'[p] = channel[p]
    BY <1>9, CreateFacts
  <2>2. /\ \A v \in Worker : v # w => worker'[v] = worker[v]
        /\ worker'[w].pc \in {"tell", "announce"} /\ worker[w].pc = "create"
    <3>1. Busy(w) /\ o \in Object
      BY <1>9, ChannelFacts, ChannelAssumption DEF Create, Busy, Object
    <3>2. PICK pc \in {"tell", "announce"} : Goto(w, pc, o)
      BY <1>9 DEF Create, Registered
    <3>3. QED BY <1>9, <3>1, <3>2, GotoFacts DEF Position, Create
  <2>3. cast'[o] = <<>> /\ \A p \in DOMAIN channel : cast'[p] = cast[p]
    <3>1. cast \in [1..Len(channel) -> Seq(Nat)] /\ Len(channel) \in Nat /\ DOMAIN channel = 1..Len(channel)
      BY ChannelFacts DEF TypeOK
    <3>2. cast \in Seq(Seq(Nat)) /\ Len(cast) = Len(channel)
      BY <3>1
    <3>3. QED BY <2>1, <3>1, <3>2
  <2>4. \A v \in Worker : \A p : Writing(v, p)' <=> Writing(v, p)
    BY <2>2 DEF Writing
  <2>5. \A v \in Worker : ~Writing(v, o)
    BY <2>1, WriterFacts DEF Writing
  <2> HIDE DEF o
  <2>6. WriteInv'
    <3> SUFFICES ASSUME NEW p \in DOMAIN channel' \ unsettled', NEW v \in Worker, Writing(v, p)'
                 PROVE  /\ \A u \in Worker : Writing(u, p)' => u = v
                        /\ worker'[v].pc = "copy" => Len(channel'[p].value) = Len(worker'[v].req.content)
                        /\ worker'[v].pc = "cast" => channel'[p].value = worker'[v].req.content
      BY DEF WriteInv
    <3>1. p \in DOMAIN channel \ unsettled /\ Writing(v, p) /\ v # w
      BY <2>1, <2>2, <2>4, <2>5 DEF Writing
    <3>2. QED BY <2>1, <2>2, <2>4, <3>1 DEF WriteInv
  <2>7. ViewsAgree'
    BY <2>1, <2>3, <2>4 DEF ViewsAgree
  <2>8. QED BY <2>6, <2>7
<1>10. ASSUME NEW w \in Worker, FindToUse(w) PROVE Goal
  <2> DEFINE o == Find(worker[w].req)
  <2>1. Busy(w) /\ worker[w].pc = "find" /\ UNCHANGED <<channel, cast>>
    BY <1>10 DEF FindToUse, Busy
  <2>2. o \in Object
    BY <2>1, BusyFacts, FindFacts
  <2>3. CASE o = 0 \/ worker[w].req.op # "update"
    <3>1. /\ Finish(w) \/ Goto(w, "unregister", o)
          /\ unsettled' = unsettled
      BY <1>10, <2>3 DEF FindToUse
    <3> HIDE DEF o
    <3>2. QED BY <1>2, <2>1, <2>2, <3>1 DEF Position
  <2>4. CASE o # 0 /\ worker[w].req.op = "update"
    <3>1. Goto(w, "set", o)
      BY <1>10, <2>4 DEF FindToUse
    <3>2. unsettled' = IF \E v \in Worker : Writing(v, o) THEN unsettled \cup {o} ELSE unsettled \ {o}
      BY <1>10, <2>4 DEF FindToUse
    <3> HIDE DEF o
    <3>3. /\ worker'[w].pc = "set" /\ worker'[w].obj = o
          /\ \A v \in Worker : v # w => worker'[v] = worker[v]
      BY <2>1, <2>2, <3>1, GotoFacts DEF Position
    <3>4. \A v \in Worker : \A p : Writing(v, p)' <=> Writing(v, p) \/ (v = w /\ p = o)
      BY <2>1, <3>3 DEF Writing
    <3>5. ASSUME NEW p \in DOMAIN channel \ unsettled', p # o
          PROVE  p \notin unsettled
      BY <3>2, <3>5
    <3>6. o \notin unsettled' => \A v \in Worker : ~Writing(v, o)
      BY <3>2
    <3>7. WriteInv'
      <4> SUFFICES ASSUME NEW p \in DOMAIN channel \ unsettled', NEW v \in Worker, Writing(v, p)'
                   PROVE  /\ \A u \in Worker : Writing(u, p)' => u = v
                          /\ worker'[v].pc = "copy" => Len(channel[p].value) = Len(worker'[v].req.content)
                          /\ worker'[v].pc = "cast" => channel[p].value = worker'[v].req.content
        BY <2>1 DEF WriteInv
      <4>1. CASE p = o
        BY <3>3, <3>4, <3>6, <4>1
      <4>2. CASE p # o
        <5>1. p \in DOMAIN channel \ unsettled /\ Writing(v, p) /\ v # w
          BY <2>1, <3>4, <3>5, <4>2 DEF Writing
        <5>2. QED BY <3>3, <3>4, <4>2, <5>1 DEF WriteInv
      <4>3. QED BY <4>1, <4>2
    <3>8. ViewsAgree'
      BY <2>1, <3>4, <3>5 DEF ViewsAgree
    <3>9. QED BY <3>7, <3>8
  <2>5. QED BY <2>3, <2>4
<1>11. ASSUME NEW w \in Worker, NEW o \in DOMAIN channel, Writing(w, o),
              \A v \in Worker : v # w => worker'[v] = worker[v],
              \A p : Writing(w, p)' => p = o,
              DOMAIN channel' = DOMAIN channel,
              \A p \in DOMAIN channel : p # o =>
                channel'[p] = channel[p] /\ cast'[p] = cast[p] /\ (p \in unsettled' <=> p \in unsettled),
              o \notin unsettled' =>
                /\ o \notin unsettled
                /\ worker'[w].pc = "copy" => Len(channel'[o].value) = Len(worker'[w].req.content)
                /\ worker'[w].pc = "cast" => channel'[o].value = worker'[w].req.content
                /\ ~Writing(w, o)' => channel'[o].value = cast'[o]
       PROVE  Goal
  <2>1. \A v \in Worker : \A p : v # w \/ p # o => (Writing(v, p)' <=> Writing(v, p))
    BY <1>11 DEF Writing
  <2>2. o \notin unsettled' => \A v \in Worker : Writing(v, o)' => v = w
    BY <1>11, <2>1 DEF WriteInv
  <2>3. WriteInv'
    <3> SUFFICES ASSUME NEW p \in DOMAIN channel \ unsettled', NEW v \in Worker, Writing(v, p)'
                 PROVE  /\ \A u \in Worker : Writing(u, p)' => u = v
                        /\ worker'[v].pc = "copy" => Len(channel'[p].value) = Len(worker'[v].req.content)
                        /\ worker'[v].pc = "cast" => channel'[p].value = worker'[v].req.content
      BY <1>11 DEF WriteInv
    <3>1. CASE p = o
      BY <1>11, <2>2, <3>1
    <3>2. CASE p # o
      <4>1. p \in DOMAIN channel \ unsettled /\ Writing(v, p) /\ v # w
        BY <1>11, <2>1, <3>2
      <4>2. QED BY <1>11, <2>1, <3>2, <4>1 DEF WriteInv
    <3>3. QED BY <3>1, <3>2
  <2>4. ViewsAgree'
    <3> SUFFICES ASSUME NEW p \in DOMAIN channel \ unsettled', \A v \in Worker : ~Writing(v, p)'
                 PROVE  channel'[p].value = cast'[p]
      BY <1>11 DEF ViewsAgree
    <3>1. CASE p = o
      BY <1>11, <3>1
    <3>2. CASE p # o
      BY <1>11, <2>1, <3>2 DEF ViewsAgree
    <3>3. QED BY <3>1, <3>2
  <2>5. QED BY <2>3, <2>4
<1>12. ASSUME NEW w \in Worker, worker[w].pc \in {"set", "copy", "cast"}
       PROVE  /\ Busy(w) /\ worker[w].obj \in DOMAIN channel /\ worker[w].obj \in Object
              /\ worker[w].req.content \in Seq(Nat) /\ Writing(w, worker[w].obj)
              /\ channel[worker[w].obj] \in [id : Id, name : Name, value : Seq(Nat)]
  BY <1>12, WriterFacts, ChannelFacts DEF Busy, Writing
<1>13. ASSUME NEW o \in DOMAIN channel, NEW v, channel' = [channel EXCEPT ![o].value = v]
       PROVE  /\ DOMAIN channel' = DOMAIN channel /\ channel'[o].value = v
              /\ \A p \in DOMAIN channel : p # o => channel'[p] = channel[p]
  <2> DEFINE c == [channel[o] EXCEPT !.value = v]
  <2>1. channel[o] \in [id : Id, name : Name, value : Seq(Nat)]
    BY ChannelFacts
  <2>2. c.value = v
    BY <2>1
  <2>3. channel' = [channel EXCEPT ![o] = c]
    BY <1>13
  <2> HIDE DEF c
  <2>4. QED BY <2>2, <2>3
<1>14. ASSUME NEW w \in Worker, SetContent(w) PROVE Goal
  <2>0. PICK o \in DOMAIN channel : o = worker[w].obj
    BY <1>12, <1>14 DEF SetContent
  <2> DEFINE n == worker[w].req.content
             z == [k \in 1..Len(n) |-> 0]
  <2>1. /\ Busy(w) /\ o \in DOMAIN channel /\ o \in Object /\ n \in Seq(Nat) /\ Writing(w, o)
        /\ worker[w].pc = "set" /\ cast' = cast
    BY <1>12, <1>14, <2>0 DEF SetContent
  <2>2. CASE Len(n) > MaxContent
    <3>1. unsettled' = unsettled \cup {o} /\ Goto(w, "cast", o) /\ channel' = channel
      BY <1>14, <2>0, <2>2 DEF SetContent
    <3> HIDE DEF n
    <3>2. worker'[w].obj = o /\ \A v \in Worker : v # w => worker'[v] = worker[v]
      BY <2>1, <3>1, GotoFacts DEF Position
    <3>3. QED BY <1>11, <2>1, <3>1, <3>2 DEF Writing
  <2>3. CASE ~(Len(n) > MaxContent)
    <3>1. unsettled' = unsettled /\ Goto(w, "copy", o) /\ channel' = [channel EXCEPT ![o].value = z]
      BY <1>14, <2>0, <2>3 DEF SetContent
    <3>2. Len(z) = Len(n)
      BY <2>1
    <3> HIDE DEF z
    <3>3. /\ DOMAIN channel' = DOMAIN channel /\ channel'[o].value = z
          /\ \A p \in DOMAIN channel : p # o => channel'[p] = channel[p]
      BY <1>13, <2>1, <3>1
    <3>4. /\ worker'[w].pc = "copy" /\ worker'[w].obj = o /\ worker'[w].req = worker[w].req
          /\ \A v \in Worker : v # w => worker'[v] = worker[v]
      BY <2>1, <3>1, GotoFacts DEF Position
    <3>5. Writing(w, o)' /\ \A p : Writing(w, p)' => p = o
      BY <3>4 DEF Writing
    <3>6. QED BY <1>11, <2>1, <3>1, <3>2, <3>3, <3>4, <3>5
  <2>4. QED BY <2>2, <2>3
<1>15. ASSUME NEW w \in Worker, CopyContent(w) PROVE Goal
  <2>0. PICK o \in DOMAIN channel : o = worker[w].obj
    BY <1>12, <1>15 DEF CopyContent
  <2> DEFINE n == worker[w].req.content
             z == Overwrite(channel[o].value, n)
  <2>1. /\ Busy(w) /\ o \in DOMAIN channel /\ o \in Object /\ n \in Seq(Nat) /\ Writing(w, o)
        /\ channel[o].value \in Seq(Nat)
        /\ worker[w].pc = "copy" /\ cast' = cast /\ unsettled' = unsettled /\ Goto(w, "cast", o)
    BY <1>12, <1>15, <2>0 DEF CopyContent, history
  <2>2. o \notin unsettled => z = n
    BY <2>0, <2>1, OverwriteSame DEF WriteInv
  <2>3. channel' = [channel EXCEPT ![o].value = z]
    BY <1>15, <2>0, <2>1 DEF CopyContent, TypeOK
  <2> HIDE DEF z
  <2>4. /\ DOMAIN channel' = DOMAIN channel /\ channel'[o].value = z
        /\ \A p \in DOMAIN channel : p # o => channel'[p] = channel[p]
    BY <1>13, <2>1, <2>3
  <2>5. /\ worker'[w].pc = "cast" /\ worker'[w].obj = o /\ worker'[w].req = worker[w].req
        /\ \A v \in Worker : v # w => worker'[v] = worker[v]
    BY <2>1, GotoFacts DEF Position
  <2>6. Writing(w, o)' /\ \A p : Writing(w, p)' => p = o
    BY <2>5 DEF Writing
  <2>7. QED BY <1>11, <2>1, <2>2, <2>4, <2>5, <2>6
<1>16. ASSUME NEW w \in Worker, Broadcast(w) PROVE Goal
  <2>0. PICK o \in DOMAIN channel : o = worker[w].obj
    BY <1>12, <1>16 DEF Broadcast
  <2>1. /\ o \in DOMAIN channel /\ Writing(w, o) /\ worker[w].pc = "cast" /\ Finish(w)
        /\ channel' = channel /\ unsettled' = unsettled
        /\ cast' = [cast EXCEPT ![o] = worker[w].req.content] /\ DOMAIN cast = DOMAIN channel
    BY <1>12, <1>16, <2>0 DEF Broadcast, TypeOK
  <2>2. o \notin unsettled => channel[o].value = worker[w].req.content
    BY <2>1 DEF WriteInv
  <2>3. worker'[w] = Idle /\ \A v \in Worker : v # w => worker'[v] = worker[v]
    BY <2>1, FinishFacts
  <2>4. worker'[w].pc = "idle" /\ \A p : ~Writing(w, p)'
    BY <2>3 DEF Writing, Idle
  <2>5. QED BY <1>11, <2>1, <2>2, <2>3, <2>4
<1>17. CASE UNCHANGED vars
  <2>1. UNCHANGED <<channel, cast, unsettled, worker>>
    BY <1>17 DEF vars, history
  <2>2. QED BY <2>1 DEF WriteInv, ViewsAgree, Writing
<1>18. CASE Next
  <2>1. ASSUME NEW w \in Worker, Step(w) PROVE Goal
    BY <2>1, <1>4, <1>5, <1>6, <1>7, <1>8, <1>9, <1>10, <1>14, <1>15, <1>16 DEF Step
  <2>2. QED BY <1>1, <1>18, <2>1 DEF Next, Worker
<1>19. QED BY <1>17, <1>18
-----------------------------------------------------------------------------
Inv == TypeInv /\ Keyed /\ IdInv /\ NameInv /\ WriteInv /\ ViewsAgree

(* The initial states satisfy the invariant.                               *)
LEMMA InitInv ==
  ASSUME Init
  PROVE  Inv
<1>0. 0 \in Object /\ 0 \in Id /\ 0 \in 0..MaxRequests /\ {MaxObjects, MaxId, MaxRequests} \subseteq Nat
  BY ChannelAssumption DEF Object, Id
<1>1. Len(channel) = 0 /\ DOMAIN channel = {} /\ channel \in Seq([id : Id, name : Name, value : Seq(Nat)])
  BY DEF Init
<1>2. \A w \in Worker : worker[w] = Idle /\ worker[w].pc = "idle" /\ worker[w].obj = 0
  BY DEF Init, Idle
<1>3. cast \in [DOMAIN channel -> Seq(Nat)]
  BY <1>1 DEF Init
<1>4. worker \in [Worker -> {Idle} \cup Job]
  BY DEF Init
<1>5. TypeOK
  BY <1>0, <1>1, <1>2, <1>3, <1>4 DEF Init, TypeOK, Job
<1>6. ControlOK
  BY <1>2 DEF ControlOK, Placed
<1>7. Keyed
  BY DEF Init, Keyed
<1>8. IdInv /\ NameInv
  BY <1>1, <1>2 DEF IdInv, NameInv, Destroying, Creating, Busy
<1>9. WriteInv /\ ViewsAgree
  BY <1>1 DEF WriteInv, ViewsAgree
<1>10. QED BY <1>5, <1>6, <1>7, <1>8, <1>9 DEF Inv, TypeInv

(* The invariant is inductive.                                             *)
LEMMA InvCorrect == Spec => []Inv
<1>1. Init => Inv
  BY InitInv
<1>2. Inv /\ [Next]_vars => Inv'
  BY TypeStep, KeyedStep, IdStep, NameStep, ViewsStep DEF Inv
<1>3. QED BY <1>1, <1>2, PTL DEF Spec

(* The variables have their types: the handlers of the clients and of the  *)
(* nodes, each running on its own, never follow a *Channel that Register   *)
(* did not create, nor give a channel an id outside of uint16.             *)
THEOREM TypeCorrect == Spec => []TypeOK
<1>1. Inv => TypeOK
  BY DEF Inv, TypeInv
<1>2. QED BY <1>1, InvCorrect, PTL

(* ById and ByName hold the same channels, each under its own id and name, *)
(* as long as no two creations of one name and no two destructions         *)
(* overlap: Register and Unregister (channel.go) keep the two maps in step *)
(* although a handler looks up, creates and deletes under separate locks.  *)
THEOREM MapsAgreeCorrect == Spec => []MapsAgree
<1>1. Inv => MapsAgree
  BY DEF Inv, Keyed, IdInv, NameInv, MapsAgree
<1>2. QED BY <1>1, InvCorrect, PTL

(* The id a node was told by SYS_CHANNEL_REGISTER_ACK or _LOOKUP_ACK       *)
(* stands for the same channel until that channel is destroyed, unless     *)
(* destructions overlap.                                                   *)
THEOREM ToldIdKeptCorrect == Spec => []ToldIdKept
<1>1. Inv => ToldIdKept
  <2> SUFFICES ASSUME Inv, NEW n \in Node, told[n] # 0, told[n] \notin destroyed, "destroy" \notin raced
               PROVE  ById[channel[told[n]].id] = told[n]
    BY DEF ToldIdKept
  <2>1. told[n] \in DOMAIN channel
    <3>1. told[n] \in 0..Len(channel) /\ Len(channel) \in Nat /\ DOMAIN channel = 1..Len(channel)
      BY ChannelFacts DEF Inv, TypeInv, TypeOK
    <3>2. QED BY <3>1
  <2>2. QED BY <2>1 DEF Inv, IdInv
<1>2. QED BY <1>1, InvCorrect, PTL

(* When nobody writes a channel, its content is what was broadcast last,   *)
(* unless the last writes overlapped, the last content was refused by      *)
(* SetContent, which locks nothing, or the channel was announced again as  *)
(* created, without its content.                                           *)
THEOREM ViewsAgreeCorrect == Spec => []ViewsAgree
<1>1. Inv => ViewsAgree
  BY DEF Inv
<1>2. QED BY <1>1, InvCorrect, PTL
=============================================================================
