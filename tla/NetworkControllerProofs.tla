----------------------- MODULE NetworkControllerProofs -----------------------
(***************************************************************************)
(* Proofs about NetworkController, for every number of devices and every   *)
(* size of the queues: at most one goroutine handles the messages of an id *)
(* (OneHandler), Serve sends to a closed queue only after a device has     *)
(* repeated a request (PanicNeedsRepeat), and a message is put together    *)
(* wrongly only after one was torn on the bus (MixedNeedsTear).            *)
(***************************************************************************)
EXTENDS NetworkController, SequenceTheorems, TLAPS

(* The bounds behind the types: a device numbers one message for each      *)
(* answer it gets, and there are as many answers as registrations.         *)
Configuring(i) == master.pc = "configure" /\ master.id = i

Counted ==
  \A i \in Id :
    /\ offered[i] <= gen[i]
    /\ device[i].no + offered[i] <= MaxMessages + gen[i]
    /\ Configuring(i) =>
         offered[i] < gen[i] /\ device[i].no + offered[i] < MaxMessages + gen[i]
    /\ device[i].k <= device[i].t
    /\ device[i].t > 0 \/ device[i].pc = "up" => device[i].no > 0 /\ gen[i] > 0

(* A frame is from a device that has been registered, and Serve sends a    *)
(* message it has put together.                                            *)
Known ==
  /\ \A a \in DOMAIN rx : rx[a].node # 0 => rx[a].k <= rx[a].t /\ gen[rx[a].node] > 0
  /\ serve.pc = "send" => pending[serve.node] # None

TypeInv == TypeOK /\ Counted /\ Known
-----------------------------------------------------------------------------
(* The fields of a state of Serve and of the master.                       *)
LEMMA Fields ==
  ASSUME TypeOK
  PROVE  /\ serve.pc \in {"idle", "panic", "request", "send"}
         /\ serve.pc = "request" => serve.from \in Id
         /\ serve.pc = "send" => serve.node \in Id /\ serve.gen \in Gen
         /\ master.pc \in {"idle", "panic", "terminate", "renew", "configure"}
         /\ master.pc \in {"terminate", "renew", "configure"} => master.id \in Id
BY DEF TypeOK

(* The constants are positive numbers, or numbers.                         *)
LEMMA Constants ==
  /\ QueueSize \in Nat /\ RxSize \in Nat /\ Capacity \in Nat /\ MaxFrames \in Nat
  /\ MaxFrames > 0 /\ MaxFrames <= Capacity
  /\ MaxMessages \in Nat /\ MaxAsked \in Nat /\ MaxLost \in Nat
BY ControllerAssumption

(* The numbers kept for a device.                                          *)
LEMMA Numbers ==
  ASSUME TypeOK, NEW i \in Id
  PROVE  /\ gen[i] \in Gen /\ gen[i] \in Nat /\ gen[i] <= MaxAsked /\ offered[i] \in Nat
         /\ device[i] \in DeviceState
         /\ device[i].no \in Nat /\ device[i].k \in Nat /\ device[i].t \in Nat
<1>1. gen[i] \in Gen /\ offered[i] \in Nat /\ device[i] \in DeviceState
  BY DEF TypeOK
<1>2. gen[i] \in Nat /\ gen[i] <= MaxAsked
  BY <1>1, Constants DEF Gen
<1>3. device[i].no \in Nat
  BY <1>1, Constants DEF DeviceState, Number
<1>4. device[i].k \in Nat /\ device[i].t \in Nat
  BY <1>1, Constants DEF DeviceState
<1>5. QED BY <1>1, <1>2, <1>3, <1>4

(* What is in the receive channel is a frame of a device or a request.     *)
LEMMA RxFacts ==
  ASSUME TypeOK, NEW a \in DOMAIN rx
  PROVE  /\ rx[a] \in Frame \cup Request
         /\ rx[a].node = 0 => rx[a] \in Request /\ rx[a].from \in Id
         /\ rx[a].node # 0 => rx[a] \in Frame /\ rx[a].node \in Id
<1>1. rx[a] \in Frame \cup Request
  BY ElementOfSeq DEF TypeOK
<1>2. QED BY <1>1, ControllerAssumption DEF Frame, Request

(* The head and the tail of the receive channel.                           *)
LEMMA RxTail ==
  ASSUME TypeOK, rx # <<>>
  PROVE  /\ 1 \in DOMAIN rx /\ Head(rx) = rx[1]
         /\ Tail(rx) \in Seq(Frame \cup Request) /\ Len(Tail(rx)) <= RxSize
         /\ \A a \in DOMAIN Tail(rx) : a + 1 \in DOMAIN rx /\ Tail(rx)[a] = rx[a + 1]
         /\ \A a \in DOMAIN rx : a # 1 => a - 1 \in DOMAIN Tail(rx)
<1>1. rx \in Seq(Frame \cup Request) /\ Len(rx) <= RxSize
  BY DEF TypeOK
<1>2. QED BY <1>1, Constants, HeadTailProperties

(* What Transmit does to the channel.                                      *)
LEMMA RxAppend ==
  ASSUME TypeOK, NEW f \in Frame \cup Request, Transmit(f)
  PROVE  /\ rx' \in Seq(Frame \cup Request) /\ Len(rx') <= RxSize /\ lost' \in 0..MaxLost
         /\ \A a \in DOMAIN rx' : \/ a \in DOMAIN rx /\ rx'[a] = rx[a]
                                  \/ a = Len(rx) + 1 /\ rx'[a] = f /\ lost' = lost
         /\ \A a \in DOMAIN rx : a \in DOMAIN rx' /\ rx'[a] = rx[a] /\ a < Len(rx) + 1
         /\ lost' = lost => Len(rx) + 1 \in DOMAIN rx' /\ rx'[Len(rx) + 1] = f
<1>1. rx \in Seq(Frame \cup Request) /\ Len(rx) <= RxSize /\ lost \in 0..MaxLost /\ DOMAIN rx = 1..Len(rx)
  BY DEF TypeOK
<1>2. CASE rx' = Append(rx, f) /\ Len(rx) < RxSize /\ UNCHANGED lost
  <2>1. rx' \in Seq(Frame \cup Request) /\ Len(rx') = Len(rx) + 1 /\ DOMAIN rx' = 1..(Len(rx) + 1)
    BY <1>1, <1>2, AppendProperties
  <2>2. rx'[Len(rx) + 1] = f /\ \A a \in DOMAIN rx : rx'[a] = rx[a]
    BY <1>1, <1>2, AppendProperties
  <2>3. Len(rx) \in Nat /\ Len(rx') <= RxSize
    BY <1>1, <1>2, <2>1, Constants
  <2>4. \A a \in DOMAIN rx' : a \in DOMAIN rx \/ a = Len(rx) + 1
    BY <1>1, <2>1, <2>3
  <2>5. \A a \in DOMAIN rx : a \in DOMAIN rx' /\ a < Len(rx) + 1
    BY <1>1, <2>1, <2>3
  <2>6. Len(rx) + 1 \in DOMAIN rx'
    BY <2>1, <2>3
  <2>7. QED BY <1>1, <1>2, <2>1, <2>2, <2>3, <2>4, <2>5, <2>6, Zenon
<1>3. CASE lost < MaxLost /\ lost' = lost + 1 /\ UNCHANGED rx
  <2>1. lost' \in 0..MaxLost /\ lost' # lost
    BY <1>1, <1>3, Constants
  <2>2. \A a \in DOMAIN rx : a < Len(rx) + 1
    BY <1>1
  <2>3. QED BY <1>1, <1>3, <2>1, <2>2, Zenon
<1>4. QED BY <1>2, <1>3 DEF Transmit

(* A frame and the message it goes into.                                   *)
LEMMA AssembleFacts ==
  ASSUME TypeOK, NEW f \in Frame, ~Discarded(f)
  PROVE  Assemble(f) \in Message /\ Assemble(f) # None
<1>1. f.node \in Id /\ f.kind \in Kind /\ f.no \in Number /\ f.k \in 1..MaxFrames
  BY DEF Frame
<1>2. CASE First(f)
  BY <1>1, <1>2, Constants DEF Assemble, NewMessage, Message, None
<1>3. CASE ~First(f)
  <2>1. pending[f.node] \in Message
    BY <1>1, <1>3 DEF TypeOK, Discarded
  <2>2. ASSUME NEW m \in Message PROVE AppendData(m, f) \in Message /\ AppendData(m, f).got # 0
    <3>1. m.got \in 1..Capacity /\ m.sound \in BOOLEAN
      BY DEF Message
    <3>2. CASE m.got = Capacity
      <4>1. AppendData(m, f) = [m EXCEPT !.sound = FALSE]
        BY <3>2 DEF AppendData
      <4>2. [m EXCEPT !.sound = FALSE] \in Message
        BY DEF Message
      <4>3. \A x \in Message : x.got # 0
        BY Constants DEF Message
      <4>4. QED BY <4>1, <4>2, <4>3
    <3>3. CASE m.got # Capacity
      <4>1. m.got + 1 \in 1..Capacity /\ m.got + 1 # 0
        BY <3>1, <3>3, Constants
      <4>2. (m.sound /\ f.no = m.no /\ f.k = m.got + 1) \in BOOLEAN
        BY Zenon
      <4> DEFINE b == m.sound /\ f.no = m.no /\ f.k = m.got + 1
      <4>3. AppendData(m, f) = [m EXCEPT !.got = m.got + 1, !.sound = b]
        BY <3>3 DEF AppendData, Message
      <4>4. b \in BOOLEAN
        BY <4>2
      <4> HIDE DEF b
      <4>5. QED BY <4>1, <4>3, <4>4 DEF Message
    <3>4. QED BY <3>2, <3>3
  <2>3. QED BY <1>3, <2>1, <2>2 DEF Assemble, None
<1>4. QED BY <1>2, <1>3
-----------------------------------------------------------------------------
(* The frames in the channel stay known when nothing but Transmit changes  *)
(* the channel and no registration is undone.                              *)
LEMMA TransmitKnown ==
  ASSUME TypeInv, NEW f \in Frame \cup Request, Transmit(f), UNCHANGED gen,
         f.node # 0 => f.k <= f.t /\ gen[f.node] > 0
  PROVE  \A a \in DOMAIN rx' : rx'[a].node # 0 => rx'[a].k <= rx'[a].t /\ gen'[rx'[a].node] > 0
<1>1. \A a \in DOMAIN rx : rx[a].node # 0 => rx[a].k <= rx[a].t /\ gen[rx[a].node] > 0
  BY DEF TypeInv, Known
<1>2. \A a \in DOMAIN rx' : (a \in DOMAIN rx /\ rx'[a] = rx[a]) \/ rx'[a] = f
  BY RxAppend DEF TypeInv
<1>3. QED BY <1>1, <1>2, Zenon

(* The steps of a device keep the types.                                   *)
LEMMA TypeDevice ==
  ASSUME TypeInv, NEW i \in Id, Device(i)
  PROVE  TypeInv'
<1>0. TypeOK /\ Counted /\ Known
  BY DEF TypeInv
<1>1. /\ device[i].pc \in {"off", "asking", "up"} /\ device[i].kind \in Kind
      /\ device[i].no \in Number \cup {0} /\ device[i].k \in 0..MaxFrames /\ device[i].t \in 0..MaxFrames
      /\ offered[i] \in Nat /\ gen[i] \in 0..MaxAsked
  BY <1>0 DEF TypeOK, Gen, DeviceState
<1>2. device[i].no \in Nat /\ gen[i] \in Nat /\ device[i].k \in Nat /\ device[i].t \in Nat /\ 1 \in 0..MaxFrames
  BY <1>1, Constants DEF Number
<1>3. CASE DeviceAsk(i)
  <2>0. UNCHANGED serverVars /\ UNCHANGED offered /\ Transmit([node |-> 0, from |-> i]) /\ asked[i] < MaxAsked
    BY <1>3 DEF DeviceAsk
  <2>1. [node |-> 0, from |-> i] \in Request
    BY DEF Request
  <2>2. rx' \in Seq(Frame \cup Request) /\ Len(rx') <= RxSize /\ lost' \in 0..MaxLost
    BY <1>0, <2>0, <2>1, RxAppend
  <2>3. asked' \in [Id -> 0..MaxAsked]
    <3>1. asked \in [Id -> 0..MaxAsked]
      BY <1>0 DEF TypeOK
    <3>2. asked[i] + 1 \in 0..MaxAsked
      BY <2>0, <3>1, Constants
    <3>3. asked' = [asked EXCEPT ![i] = asked[i] + 1]
      BY <1>3 DEF DeviceAsk
    <3>4. QED BY <3>1, <3>2, <3>3
  <2>4. {torn', repeated'} \subseteq [Id -> BOOLEAN]
    <3>1. {torn, repeated} \subseteq [Id -> BOOLEAN]
      BY <1>0 DEF TypeOK
    <3>2. /\ repeated' = [repeated EXCEPT ![i] = @ \/ device[i].pc = "asking" \/ offered[i] > 0]
          /\ torn' = [torn EXCEPT ![i] = @ \/ Sending(i)]
      BY <1>3 DEF DeviceAsk
    <3>3. QED BY <3>1, <3>2, Zenon
  <2>5. device' = [device EXCEPT ![i].pc = "asking", ![i].k = 0, ![i].t = 0]
    BY <1>3 DEF DeviceAsk
  <2>6. device' \in [Id -> DeviceState]
    <3>1. device \in [Id -> DeviceState] /\ 0 \in 0..MaxFrames
      BY <1>0, Constants DEF TypeOK
    <3>2. [device[i] EXCEPT !.pc = "asking", !.k = 0, !.t = 0] \in DeviceState
      BY <3>1 DEF DeviceState
    <3>3. device' = [device EXCEPT ![i] = [device[i] EXCEPT !.pc = "asking", !.k = 0, !.t = 0]]
      BY <2>5, <3>1 DEF DeviceState
    <3>4. QED BY <3>1, <3>2, <3>3
  <2>7. TypeOK'
    BY <1>0, <2>0, <2>2, <2>3, <2>4, <2>6 DEF TypeOK, serverVars
  <2>8. Counted'
    <3>1. /\ \A j \in Id \ {i} : device'[j] = device[j]
          /\ device'[i].no = device[i].no /\ device'[i].k = 0 /\ device'[i].t = 0 /\ device'[i].pc = "asking"
      BY <1>0, <2>5 DEF TypeOK, DeviceState
    <3>2. QED BY <1>0, <2>0, <3>1 DEF Counted, Configuring, serverVars
  <2>9. Known'
    <3>1. \A a \in DOMAIN rx' : rx'[a].node # 0 => rx'[a].k <= rx'[a].t /\ gen'[rx'[a].node] > 0
      BY <2>0, <2>1, TransmitKnown DEF serverVars, Request
    <3>2. QED BY <1>0, <2>0, <3>1 DEF Known, serverVars
  <2>10. QED BY <2>7, <2>8, <2>9 DEF TypeInv
<1>4. ASSUME NEW kind \in Kind, NEW t \in 1..MaxFrames, NEW o \in [Id -> Nat],
             device' = StartMessage(i, kind, t), offered' = o, gen[i] > 0,
             device[i].no + 1 <= MaxMessages + gen[i],
             device[i].no + 1 + o[i] <= MaxMessages + gen[i],
             Configuring(i) => device[i].no + 1 + o[i] < MaxMessages + gen[i],
             o[i] <= offered[i], \A j \in Id \ {i} : o[j] = offered[j],
             UNCHANGED <<rx, serverVars, asked, lost, torn, repeated>>
      PROVE  TypeInv'
  <2>1. /\ device'[i] = [pc |-> "up", kind |-> kind, no |-> device[i].no + 1, k |-> 0, t |-> t]
        /\ \A j \in Id \ {i} : device'[j] = device[j]
    BY <1>0, <1>4 DEF TypeOK, StartMessage
  <2>2. device[i].no + 1 \in Number
    BY <1>1, <1>2, <1>4, Constants DEF Number
  <2>3. device' \in [Id -> DeviceState]
    <3>1. [pc |-> "up", kind |-> kind, no |-> device[i].no + 1, k |-> 0, t |-> t]
            \in DeviceState
      BY <2>2, Constants DEF DeviceState
    <3>2. QED BY <1>0, <1>4, <3>1 DEF TypeOK, StartMessage
  <2>4. TypeOK'
    BY <1>0, <1>4, <2>3 DEF TypeOK, serverVars
  <2>5. Counted'
    <3>1. gen' = gen /\ master' = master /\ offered' = o
      BY <1>4 DEF serverVars
    <3>2. /\ device'[i].no = device[i].no + 1 /\ device'[i].k = 0 /\ device'[i].t = t /\ t \in Nat
          /\ o[i] \in Nat
      BY <1>4, <2>1, Constants
    <3>3. ASSUME NEW j \in Id \ {i}
          PROVE  o[j] = offered[j] /\ device'[j] = device[j]
      BY <1>4, <2>1
    <3>4. QED BY <1>0, <1>2, <1>1, <1>4, <3>1, <3>2, <3>3 DEF Counted, Configuring
  <2>6. Known'
    BY <1>0, <1>4 DEF Known, serverVars
  <2>7. QED BY <2>4, <2>5, <2>6 DEF TypeInv
<1>5. CASE DeviceConfigure(i)
  <2>1. offered[i] > 0 /\ offered' = [offered EXCEPT ![i] = @ - 1] /\ device' = StartMessage(i, "configure_ack", 1)
        /\ UNCHANGED <<rx, serverVars, asked, lost, torn, repeated>>
    BY <1>5 DEF DeviceConfigure
  <2>2. /\ offered[i] <= gen[i] /\ device[i].no + offered[i] <= MaxMessages + gen[i]
        /\ Configuring(i) => device[i].no + offered[i] < MaxMessages + gen[i]
    BY <1>0 DEF Counted
  <2>3. /\ offered' \in [Id -> Nat] /\ offered'[i] = offered[i] - 1
        /\ \A j \in Id \ {i} : offered'[j] = offered[j]
    <3>1. offered \in [Id -> Nat]
      BY <1>0 DEF TypeOK
    <3>2. offered[i] - 1 \in Nat
      BY <1>1, <2>1
    <3>3. QED BY <2>1, <3>1, <3>2
  <2> DEFINE o == [offered EXCEPT ![i] = @ - 1]
  <2>4. /\ o \in [Id -> Nat] /\ o[i] = offered[i] - 1
        /\ \A j \in Id \ {i} : o[j] = offered[j]
    BY <2>1, <2>3
  <2>5. 1 \in 1..MaxFrames /\ "configure_ack" \in Kind
    BY Constants DEF Kind
  <2>6. offered' = o
    BY <2>1
  <2> HIDE DEF o
  <2>7. /\ gen[i] > 0 /\ o[i] <= offered[i] /\ device[i].no + 1 <= MaxMessages + gen[i]
        /\ device[i].no + 1 + o[i] <= MaxMessages + gen[i]
        /\ Configuring(i) => device[i].no + 1 + o[i] < MaxMessages + gen[i]
    BY <1>1, <1>2, <2>1, <2>2, <2>4, Constants
  <2>8. QED BY <1>4, <2>1, <2>4, <2>5, <2>6, <2>7
<1>6. ASSUME NEW kind \in {"boot_ack", "other"}, NEW t \in 1..MaxFrames, DeviceSend(i, kind, t)
      PROVE  TypeInv'
  <2>1. /\ device[i].pc = "up" /\ device[i].no < MaxMessages /\ device' = StartMessage(i, kind, t)
        /\ UNCHANGED <<rx, serverVars, offered, asked, lost, torn, repeated>>
    BY <1>6 DEF DeviceSend
  <2>2. /\ offered[i] <= gen[i] /\ (Configuring(i) => offered[i] < gen[i])
    BY <1>0 DEF Counted
  <2>3. gen[i] > 0
    BY <1>0, <2>1 DEF Counted
  <2>4. /\ device[i].no + 1 <= MaxMessages + gen[i]
        /\ device[i].no + 1 + offered[i] <= MaxMessages + gen[i]
        /\ Configuring(i) => device[i].no + 1 + offered[i] < MaxMessages + gen[i]
    BY <1>1, <1>2, <2>1, <2>2, Constants
  <2>5. kind \in Kind /\ offered \in [Id -> Nat]
    BY <1>0 DEF Kind, TypeOK
  <2>7. offered' = offered /\ offered[i] <= offered[i]
    BY <1>1, <2>1
  <2>8. QED BY <1>4, <2>1, <2>3, <2>4, <2>5, <2>7
<1>7. CASE DeviceFrame(i)
  <2> DEFINE f == [node |-> i, kind |-> device[i].kind, no |-> device[i].no, k |-> device[i].k + 1, t |-> device[i].t]
  <2>0. Sending(i) /\ Transmit(f) /\ UNCHANGED serverVars /\ UNCHANGED <<offered, asked, repeated>>
        /\ device' = [device EXCEPT ![i].k = @ + 1]
    BY <1>7 DEF DeviceFrame
  <2>1. device[i].k < device[i].t /\ device[i].t > 0 /\ device[i].no > 0 /\ gen[i] > 0
    BY <1>0, <1>2, <2>0 DEF Sending, Counted
  <2>2. device[i].k + 1 \in 1..MaxFrames /\ device[i].t \in 1..MaxFrames /\ device[i].no \in Number
    BY <1>1, <1>2, <2>1, Constants
  <2>3. f \in Frame /\ f.node = i /\ f.k <= f.t
    BY <1>1, <1>2, <2>1, <2>2 DEF Frame
  <2> HIDE DEF f
  <2>4. rx' \in Seq(Frame \cup Request) /\ Len(rx') <= RxSize /\ lost' \in 0..MaxLost
    BY <1>0, <2>0, <2>3, RxAppend
  <2>5. /\ device' \in [Id -> DeviceState]
        /\ \A j \in Id \ {i} : device'[j] = device[j]
        /\ device'[i].no = device[i].no /\ device'[i].k = device[i].k + 1 /\ device'[i].t = device[i].t
    <3>1. device[i].k + 1 \in 0..MaxFrames
      BY <2>2, <1>2
    <3>2. device \in [Id -> DeviceState] /\ device' = [device EXCEPT ![i] = [device[i] EXCEPT !.k = device[i].k + 1]]
      BY <1>0, <2>0 DEF TypeOK
    <3>3. [device[i] EXCEPT !.k = device[i].k + 1] \in DeviceState
      BY <3>1, <3>2 DEF DeviceState
    <3>4. /\ [device[i] EXCEPT !.k = device[i].k + 1].no = device[i].no
          /\ [device[i] EXCEPT !.k = device[i].k + 1].t = device[i].t
          /\ [device[i] EXCEPT !.k = device[i].k + 1].k = device[i].k + 1
      BY <3>2 DEF DeviceState
    <3>5. QED BY <3>2, <3>3, <3>4
  <2>6. {torn', repeated'} \subseteq [Id -> BOOLEAN]
    <3>1. {torn, repeated} \subseteq [Id -> BOOLEAN]
      BY <1>0 DEF TypeOK
    <3>2. /\ repeated' = repeated
          /\ torn' = [torn EXCEPT ![i] = @ \/ (lost' # lost /\ device[i].t > 1)]
      BY <1>7 DEF DeviceFrame
    <3>3. QED BY <3>1, <3>2, Zenon
  <2>7. TypeOK'
    BY <1>0, <2>0, <2>4, <2>5, <2>6 DEF TypeOK, serverVars
  <2>8. Counted'
    <3>1. device[i].k + 1 <= device[i].t
      BY <1>2, <2>1
    <3>2. QED BY <1>0, <2>0, <2>5, <3>1 DEF Counted, Configuring, serverVars
  <2>9. Known'
    <3>1. \A a \in DOMAIN rx' : rx'[a].node # 0 => rx'[a].k <= rx'[a].t /\ gen'[rx'[a].node] > 0
      BY <2>0, <2>1, <2>3, TransmitKnown DEF serverVars
    <3>2. QED BY <1>0, <2>0, <3>1 DEF Known, serverVars
  <2>10. QED BY <2>7, <2>8, <2>9 DEF TypeInv
<1>8. QED BY <1>3, <1>5, <1>6, <1>7 DEF Device

(* The steps of Serve keep the types.                                      *)
LEMMA TypeServe ==
  ASSUME TypeInv, Serve
  PROVE  TypeInv'
<1>0. TypeOK /\ Counted /\ Known
  BY DEF TypeInv
<1>1. ASSUME rx # <<>>, rx' = Tail(rx), gen' = gen
      PROVE  /\ rx' \in Seq(Frame \cup Request) /\ Len(rx') <= RxSize
             /\ \A a \in DOMAIN rx' : rx'[a].node # 0 => rx'[a].k <= rx'[a].t /\ gen'[rx'[a].node] > 0
  <2>1. \A a \in DOMAIN rx' : a + 1 \in DOMAIN rx /\ rx'[a] = rx[a + 1]
    BY <1>0, <1>1, RxTail
  <2>2. \A a \in DOMAIN rx : rx[a].node # 0 => rx[a].k <= rx[a].t /\ gen[rx[a].node] > 0
    BY <1>0 DEF Known
  <2>3. \A a \in DOMAIN rx' : rx'[a].node # 0 => rx'[a].k <= rx'[a].t /\ gen'[rx'[a].node] > 0
    BY <1>1, <2>1, <2>2, Zenon
  <2>4. QED BY <1>0, <1>1, <2>3, RxTail
<1>2. CASE ServeDiscard
  <2>1. rx # <<>> /\ rx' = Tail(rx) /\ UNCHANGED <<serverVars, deviceVars>>
    BY <1>2 DEF ServeDiscard
  <2>2. gen' = gen
    BY <2>1 DEF serverVars
  <2>3. QED BY <1>0, <1>1, <2>1, <2>2 DEF TypeInv, TypeOK, Counted, Configuring, Known, serverVars, deviceVars
<1>3. CASE ServeFrame
  <2>1. PICK f \in Frame : /\ f = Head(rx) /\ ~Discarded(f) /\ f.node \in Id
                           /\ pending' = [pending EXCEPT ![f.node] = Assemble(f)]
                           /\ serve' = IF Last(f) THEN [pc |-> "send", node |-> f.node, gen |-> gen[f.node]] ELSE serve
    BY <1>0, <1>3, RxTail, RxFacts DEF ServeFrame
  <2>2. serve.pc = "idle" /\ rx # <<>> /\ rx' = Tail(rx)
        /\ UNCHANGED <<requests, master, gen, queue, closed, handler, mixed, deviceVars>>
    BY <1>3 DEF ServeFrame
  <2>3. Assemble(f) \in Message /\ Assemble(f) # None
    BY <1>0, <2>1, AssembleFacts
  <2>4. pending' \in [Id -> Message \cup {None}]
    BY <1>0, <2>1, <2>3 DEF TypeOK
  <2>5. serve' \in [pc : {"idle", "panic"}] \cup [pc : {"request"}, from : Id] \cup [pc : {"send"}, node : Id, gen : Gen]
    <3>1. gen[f.node] \in Gen /\ serve \in [pc : {"idle", "panic"}] \cup [pc : {"request"}, from : Id] \cup [pc : {"send"}, node : Id, gen : Gen]
      BY <1>0, <2>1 DEF TypeOK
    <3>2. QED BY <2>1, <3>1
  <2>6. TypeOK'
    BY <1>0, <1>1, <2>2, <2>4, <2>5 DEF TypeOK, deviceVars
  <2>7. Counted'
    BY <1>0, <2>2 DEF Counted, Configuring, deviceVars
  <2>8. Known'
    <3>1. \A a \in DOMAIN rx' : rx'[a].node # 0 => rx'[a].k <= rx'[a].t /\ gen'[rx'[a].node] > 0
      BY <1>1, <2>2
    <3>2. serve'.pc = "send" => serve'.node = f.node
      BY <2>1, <2>2
    <3>3. pending'[f.node] # None
      BY <1>0, <2>1, <2>3 DEF TypeOK
    <3>4. QED BY <3>1, <3>2, <3>3 DEF Known
  <2>9. QED BY <2>6, <2>7, <2>8 DEF TypeInv
<1>4. CASE ServeRequest
  <2>1. rx # <<>> /\ rx' = Tail(rx) /\ serve' = [pc |-> "request", from |-> Head(rx).from] /\ Head(rx).from \in Id
        /\ UNCHANGED <<pending, requests, master, gen, queue, closed, handler, mixed, deviceVars>>
    BY <1>0, <1>4, RxTail, RxFacts DEF ServeRequest
  <2>2. serve' \in [pc : {"request"}, from : Id] /\ serve'.pc # "send" /\ gen' = gen
    BY <2>1
  <2>3. QED BY <1>0, <1>1, <2>1, <2>2 DEF TypeInv, TypeOK, Counted, Configuring, Known, deviceVars
<1>5. CASE ServeSendRequest
  <2>1. serve.pc = "request" /\ Len(requests) < QueueSize /\ requests' = Append(requests, serve.from) /\ serve' = [pc |-> "idle"]
        /\ UNCHANGED <<rx, pending, master, gen, queue, closed, handler, mixed, deviceVars>>
    BY <1>5 DEF ServeSendRequest
  <2>2. serve.from \in Id /\ requests \in Seq(Id) /\ QueueSize \in Nat
    BY <1>0, <2>1, Fields, Constants DEF TypeOK
  <2>3. requests' \in Seq(Id) /\ Len(requests') <= QueueSize
    BY <2>1, <2>2
  <2>4. serve' \in [pc : {"idle", "panic"}] /\ serve'.pc # "send"
    BY <2>1
  <2>5. QED BY <1>0, <2>1, <2>3, <2>4 DEF TypeInv, TypeOK, Counted, Configuring, Known, deviceVars
<1>6. CASE ServeSend
  <2>1. /\ serve.pc = "send" /\ Len(queue[serve.node][serve.gen]) < QueueSize
        /\ queue' = [queue EXCEPT ![serve.node][serve.gen] = Append(queue[serve.node][serve.gen], pending[serve.node])]
        /\ pending' = [pending EXCEPT ![serve.node] = None] /\ serve' = [pc |-> "idle"]
        /\ UNCHANGED <<rx, requests, master, gen, closed, handler, mixed, deviceVars>>
    BY <1>6 DEF ServeSend
  <2>2. PICK i \in Id, g \in Gen : i = serve.node /\ g = serve.gen
    BY <1>0, <2>1, Fields
  <2>3. pending[i] \in Message /\ queue[i][g] \in Seq(Message) /\ QueueSize \in Nat
    BY <1>0, <2>1, <2>2, Constants DEF TypeOK, Known
  <2>4. Append(queue[i][g], pending[i]) \in Seq(Message) /\ Len(Append(queue[i][g], pending[i])) <= QueueSize
    BY <2>1, <2>2, <2>3
  <2>5. queue' \in [Id -> [Gen -> Seq(Message)]] /\ \A j \in Id, h \in Gen : Len(queue'[j][h]) <= QueueSize
    BY <1>0, <2>1, <2>2, <2>4 DEF TypeOK
  <2>6. pending' \in [Id -> Message \cup {None}]
    BY <1>0, <2>1, <2>2 DEF TypeOK
  <2>7. serve' \in [pc : {"idle", "panic"}] /\ serve'.pc # "send"
    BY <2>1
  <2>8. QED BY <1>0, <2>1, <2>5, <2>6, <2>7 DEF TypeInv, TypeOK, Counted, Configuring, Known, deviceVars
<1>7. CASE ServePanic
  <2>1. /\ serve' = [pc |-> "panic"] /\ master' = [pc |-> "panic"]
        /\ handler' = [i \in Id |-> [g \in Gen |-> "none"]]
        /\ UNCHANGED <<rx, pending, requests, gen, queue, closed, mixed, deviceVars>>
    BY <1>7 DEF ServePanic
  <2>2. /\ serve' \in [pc : {"idle", "panic"}] /\ serve'.pc # "send"
        /\ master' \in [pc : {"idle", "panic"}] /\ master'.pc # "configure"
        /\ handler' \in [Id -> [Gen -> {"none", "select", "expect", "tell", "report", "closing"}]]
    BY <2>1
  <2>3. QED BY <1>0, <2>1, <2>2 DEF TypeInv, TypeOK, Counted, Configuring, Known, deviceVars
<1>8. QED BY <1>2, <1>3, <1>4, <1>5, <1>6, <1>7 DEF Serve

(* The steps of the master keep the types.                                 *)
LEMMA TypeMaster ==
  ASSUME TypeInv, Master
  PROVE  TypeInv'
<1>0. TypeOK /\ Counted /\ Known
  BY DEF TypeInv
<1>1. CASE MasterTake
  <2>1. /\ requests # <<>> /\ requests' = Tail(requests)
        /\ master' = [pc |-> IF running(Head(requests)) THEN "terminate" ELSE "renew", id |-> Head(requests)]
        /\ UNCHANGED <<rx, pending, serve, gen, queue, closed, handler, mixed, deviceVars>>
    BY <1>1 DEF MasterTake
  <2>2. requests \in Seq(Id) /\ Len(requests) <= QueueSize /\ QueueSize \in Nat
    BY <1>0, Constants DEF TypeOK
  <2>3. requests' \in Seq(Id) /\ Len(requests') <= QueueSize /\ Head(requests) \in Id
    BY <2>1, <2>2
  <2>4. master' \in [pc : {"terminate", "renew", "configure"}, id : Id] /\ master'.pc # "configure"
    BY <2>1, <2>3
  <2>5. QED BY <1>0, <2>1, <2>3, <2>4 DEF TypeInv, TypeOK, Counted, Configuring, Known, deviceVars
<1>2. CASE MasterTerminate
  <2>1. /\ master.pc = "terminate" /\ handler' = [handler EXCEPT ![master.id][gen[master.id]] = "closing"]
        /\ master' = [master EXCEPT !.pc = "renew"]
        /\ UNCHANGED <<rx, pending, serve, requests, gen, queue, closed, mixed, deviceVars>>
    BY <1>2 DEF MasterTerminate
  <2>2. master.id \in Id /\ master \in [pc : {"terminate", "renew", "configure"}, id : Id]
    BY <1>0, <2>1, Fields DEF TypeOK
  <2>3. master' \in [pc : {"terminate", "renew", "configure"}, id : Id] /\ master'.pc # "configure"
    BY <2>1, <2>2
  <2>4. handler' \in [Id -> [Gen -> {"none", "select", "expect", "tell", "report", "closing"}]]
    BY <1>0, <2>1, <2>2 DEF TypeOK
  <2>5. QED BY <1>0, <2>1, <2>3, <2>4 DEF TypeInv, TypeOK, Counted, Configuring, Known, deviceVars
<1>3. CASE MasterRenew
  <2>1. PICK i \in Id : i = master.id
    BY <1>0, <1>3, Fields DEF MasterRenew
  <2>2. /\ master.pc = "renew" /\ gen[i] < MaxAsked /\ gen' = [gen EXCEPT ![i] = gen[i] + 1]
        /\ handler' = [handler EXCEPT ![i][gen[i] + 1] = "select"]
        /\ master' = [master EXCEPT !.pc = "configure"]
        /\ UNCHANGED <<rx, pending, serve, requests, queue, closed, mixed, deviceVars>>
    BY <1>3, <2>1 DEF MasterRenew
  <2>3. gen \in [Id -> Gen] /\ gen[i] \in Nat /\ gen[i] + 1 \in Gen
    <3>1. gen \in [Id -> Gen]
      BY <1>0 DEF TypeOK
    <3>2. gen[i] \in Nat /\ gen[i] < MaxAsked
      BY <1>0, <2>2, Numbers
    <3>3. QED BY <3>1, <3>2, Constants DEF Gen
  <2>4. gen' \in [Id -> Gen] /\ gen'[i] = gen[i] + 1 /\ \A j \in Id \ {i} : gen'[j] = gen[j]
    BY <2>2, <2>3
  <2>5. handler' \in [Id -> [Gen -> {"none", "select", "expect", "tell", "report", "closing"}]]
    BY <1>0, <2>2, <2>3 DEF TypeOK
  <2>6. master \in [pc : {"terminate", "renew", "configure"}, id : Id]
    BY <1>0, <2>2 DEF TypeOK
  <2>7. master' \in [pc : {"terminate", "renew", "configure"}, id : Id] /\ master'.id = i
    BY <2>1, <2>2, <2>6
  <2>8. TypeOK'
    BY <1>0, <2>2, <2>4, <2>5, <2>7 DEF TypeOK, deviceVars
  <2>9. Counted'
    <3>1. device' = device /\ offered' = offered
      BY <2>2 DEF deviceVars
    <3>2. \A j \in Id : offered[j] \in Nat /\ device[j].no \in Nat /\ gen[j] \in Nat
      BY <1>0, Numbers
    <3>3. \A j \in Id : Configuring(j)' => j = i
      BY <2>7 DEF Configuring
    <3>4. QED BY <1>0, <2>3, <2>4, <3>1, <3>2, <3>3, Constants DEF Counted
  <2>10. Known'
    <3>1. \A j \in Id : gen[j] > 0 => gen'[j] > 0
      BY <2>3, <2>4
    <3>2. \A a \in DOMAIN rx : rx[a].node # 0 => rx[a].node \in Id
      BY <1>0, RxFacts
    <3>3. QED BY <1>0, <2>2, <3>1, <3>2 DEF Known
  <2>11. QED BY <2>8, <2>9, <2>10 DEF TypeInv
<1>4. CASE MasterConfigure
  <2>1. PICK i \in Id : i = master.id
    BY <1>0, <1>4, Fields DEF MasterConfigure
  <2>2. /\ master.pc = "configure" /\ offered' = [offered EXCEPT ![i] = offered[i] + 1]
        /\ master' = [pc |-> "idle"]
        /\ UNCHANGED <<rx, pending, serve, requests, gen, queue, closed, handler, mixed, device,
                       asked, lost, torn, repeated>>
    BY <1>4, <2>1 DEF MasterConfigure
  <2>3. offered \in [Id -> Nat] /\ offered[i] \in Nat
    BY <1>0 DEF TypeOK
  <2>4. offered' \in [Id -> Nat] /\ offered'[i] = offered[i] + 1 /\ \A j \in Id \ {i} : offered'[j] = offered[j]
    BY <2>2, <2>3
  <2>5. master' \in [pc : {"idle", "panic"}] /\ master'.pc # "configure"
    BY <2>2
  <2>6. TypeOK'
    BY <1>0, <2>2, <2>4, <2>5 DEF TypeOK
  <2>7. Counted'
    <3>1. \A j \in Id : offered[j] \in Nat /\ device[j].no \in Nat /\ gen[j] \in Nat
      BY <1>0, Numbers
    <3>2. Configuring(i)
      BY <2>1, <2>2 DEF Configuring
    <3>3. /\ offered[i] < gen[i] /\ device[i].no + offered[i] < MaxMessages + gen[i]
      BY <1>0, <3>2 DEF Counted
    <3>4. offered'[i] <= gen[i] /\ device[i].no + offered'[i] <= MaxMessages + gen[i]
      BY <2>4, <3>1, <3>3, Constants
    <3>5. \A j \in Id : ~Configuring(j)'
      BY <2>5 DEF Configuring
    <3>6. QED BY <1>0, <2>2, <2>4, <3>4, <3>5 DEF Counted
  <2>8. Known'
    BY <1>0, <2>2 DEF Known
  <2>9. QED BY <2>6, <2>7, <2>8 DEF TypeInv
<1>5. QED BY <1>1, <1>2, <1>3, <1>4 DEF Master

(* The steps of the goroutines keep the types.                             *)
LEMMA TypeHandler ==
  ASSUME TypeInv, NEW i \in Id, NEW g \in Gen, Handler(i, g)
  PROVE  TypeInv'
<1>0. TypeOK /\ Counted /\ Known
  BY DEF TypeInv
<1>1. ASSUME NEW h \in Gen, NEW q \in Seq(Message), Len(q) <= QueueSize, queue' = [queue EXCEPT ![i][h] = q]
      PROVE  /\ queue' \in [Id -> [Gen -> Seq(Message)]]
             /\ \A j \in Id, l \in Gen : Len(queue'[j][l]) <= QueueSize
  BY <1>0, <1>1 DEF TypeOK
<1>2. ASSUME NEW h \in Gen, queue[i][h] # <<>>
      PROVE  Tail(queue[i][h]) \in Seq(Message) /\ Len(Tail(queue[i][h])) <= QueueSize
  <2>1. queue[i][h] \in Seq(Message) /\ Len(queue[i][h]) <= QueueSize /\ QueueSize \in Nat
    BY <1>0, Constants DEF TypeOK
  <2>2. QED BY <1>2, <2>1
<1>3. ASSUME NEW l \in {"none", "select", "expect", "tell", "report", "closing"},
             handler' = handler \/ handler' = [handler EXCEPT ![i][g] = l]
      PROVE  handler' \in [Id -> [Gen -> {"none", "select", "expect", "tell", "report", "closing"}]]
  <2>1. handler \in [Id -> [Gen -> {"none", "select", "expect", "tell", "report", "closing"}]]
    BY <1>0 DEF TypeOK
  <2>2. [handler EXCEPT ![i][g] = l] \in [Id -> [Gen -> {"none", "select", "expect", "tell", "report", "closing"}]]
    BY <2>1
  <2>3. QED BY <1>3, <2>1, <2>2
<1>4. ASSUME queue' \in [Id -> [Gen -> Seq(Message)]],
             \A j \in Id, l \in Gen : Len(queue'[j][l]) <= QueueSize,
             handler' \in [Id -> [Gen -> {"none", "select", "expect", "tell", "report", "closing"}]],
             mixed' \in BOOLEAN, closed' \in [Id -> SUBSET Gen],
             UNCHANGED <<rx, pending, serve, requests, master, gen, deviceVars>>
      PROVE  TypeInv'
  BY <1>0, <1>4 DEF TypeInv, TypeOK, Counted, Configuring, Known, deviceVars
<1>5. gen[i] \in Gen /\ mixed \in BOOLEAN /\ closed \in [Id -> SUBSET Gen]
      /\ queue \in [Id -> [Gen -> Seq(Message)]] /\ \A j \in Id, l \in Gen : Len(queue[j][l]) <= QueueSize
  BY <1>0 DEF TypeOK
<1>6. CASE HandlerTake(i, g)
  <2>1. /\ queue[i][g] # <<>> /\ queue' = [queue EXCEPT ![i][g] = Tail(queue[i][g])]
        /\ \/ handler' = handler
           \/ handler' = [handler EXCEPT ![i][g] = "expect"]
           \/ handler' = [handler EXCEPT ![i][g] = "tell"]
        /\ UNCHANGED <<rx, pending, serve, requests, master, gen, closed, deviceVars>>
    BY <1>6 DEF HandlerTake
  <2>2. mixed' \in BOOLEAN
    BY <1>6, Zenon DEF HandlerTake
  <2>3. handler' \in [Id -> [Gen -> {"none", "select", "expect", "tell", "report", "closing"}]]
    BY <1>3, <2>1
  <2>4. QED BY <1>1, <1>2, <1>4, <1>5, <2>1, <2>2, <2>3
<1>7. CASE HandlerExpect(i, g)
  <2>1. /\ queue[i][gen[i]] # <<>> /\ queue' = [queue EXCEPT ![i][gen[i]] = Tail(queue[i][gen[i]])]
        /\ \E pc \in {"expect", "report", "tell"} : handler' = [handler EXCEPT ![i][g] = pc]
        /\ UNCHANGED <<rx, pending, serve, requests, master, gen, closed, deviceVars>>
    BY <1>7 DEF HandlerExpect
  <2>2. mixed' \in BOOLEAN
    BY <1>7, Zenon DEF HandlerExpect
  <2>3. handler' \in [Id -> [Gen -> {"none", "select", "expect", "tell", "report", "closing"}]]
    BY <1>3, <2>1
  <2>4. QED BY <1>1, <1>2, <1>4, <1>5, <2>1, <2>2, <2>3
<1>8. CASE HandlerTold(i, g) \/ HandlerTimeout(i, g) \/ HandlerReport(i, g)
  <2>1. /\ \E pc \in {"expect", "select", "tell"} : handler' = [handler EXCEPT ![i][g] = pc]
        /\ UNCHANGED <<rx, pending, serve, requests, master, gen, queue, closed, mixed, deviceVars>>
    BY <1>8 DEF HandlerTold, HandlerTimeout, HandlerReport
  <2>2. handler' \in [Id -> [Gen -> {"none", "select", "expect", "tell", "report", "closing"}]]
    BY <1>3, <2>1
  <2>3. QED BY <1>4, <1>5, <2>1, <2>2
<1>9. CASE HandlerClose(i, g)
  <2>1. /\ closed' = [closed EXCEPT ![i] = @ \cup {g}] /\ queue' = [queue EXCEPT ![i][g] = <<>>]
        /\ handler' = [handler EXCEPT ![i][g] = "none"]
        /\ UNCHANGED <<rx, pending, serve, requests, master, gen, mixed, deviceVars>>
    BY <1>9 DEF HandlerClose
  <2>2. <<>> \in Seq(Message) /\ Len(<<>>) <= QueueSize
    BY Constants
  <2>3. closed' \in [Id -> SUBSET Gen]
    BY <1>5, <2>1
  <2>4. handler' \in [Id -> [Gen -> {"none", "select", "expect", "tell", "report", "closing"}]]
    BY <1>3, <2>1
  <2>5. QED BY <1>1, <1>4, <1>5, <2>1, <2>2, <2>3, <2>4
<1>10. QED BY <1>6, <1>7, <1>8, <1>9 DEF Handler
-----------------------------------------------------------------------------
Renewing(i) == master.pc = "renew" /\ master.id = i

(* Which goroutines there are: none for the registration that the master   *)
(* is about to replace, and only replaced ones close their queues.         *)
Replaced ==
  /\ \A i \in Id : handler[i][0] = "none"
  /\ \A i \in Id : Renewing(i) => handler[i][gen[i]] \notin Running
  /\ \A i \in Id, g \in Gen :
       g \in closed[i] \/ handler[i][g] = "closing" =>
         g < gen[i] \/ (g = gen[i] /\ (Renewing(i) \/ panic))

(* Where the request of a device can be on its way: in the receive         *)
(* channel, with Serve, in the queue of node id 0, with the master, and    *)
(* from there back to the device.                                          *)
Asks(f, i) == f.node = 0 /\ f.from = i
InRx(i) == \E a \in DOMAIN rx : Asks(rx[a], i)
InServe(i) == serve.pc = "request" /\ serve.from = i
InQueue(i) == \E a \in DOMAIN requests : requests[a] = i
InMaster(i) == master.pc \in {"terminate", "renew", "configure"} /\ master.id = i
Taken(i) == InServe(i) \/ InQueue(i) \/ InMaster(i) \/ offered[i] > 0

(* Nothing of the device is behind its request, and no frame of it is left.*)
NoneBehind(i) ==
  \A a, b \in DOMAIN rx : Asks(rx[a], i) /\ a < b => rx[b].node # i /\ ~Asks(rx[b], i)
NoFrames(i) == \A a \in DOMAIN rx : rx[a].node # i
Delivering(i) == serve.pc = "send" /\ serve.node = i

(* A device that does not repeat itself has one request on its way and     *)
(* sends no frames meanwhile; the frames it sent before are ahead of it,   *)
(* so that Serve is done with them when it takes the request.              *)
OneRequest(i) ==
  /\ InRx(i) \/ Taken(i) => device[i].pc = "asking"
  /\ InRx(i) => ~Taken(i)
  /\ InServe(i) => ~InQueue(i) /\ ~InMaster(i) /\ offered[i] = 0
  /\ InQueue(i) => ~InMaster(i) /\ offered[i] = 0
  /\ InMaster(i) => offered[i] = 0
  /\ offered[i] <= 1
  /\ \A a, b \in DOMAIN requests : requests[a] = i /\ requests[b] = i => a = b
  /\ NoneBehind(i)
  /\ Taken(i) => NoFrames(i) /\ ~Delivering(i)
  /\ Delivering(i) => serve.gen = gen[i]

Silent ==
  /\ \A i \in Id : device[i].pc = "asking" => device[i].t = 0
  /\ \A i \in Id : ~repeated[i] => OneRequest(i)
-----------------------------------------------------------------------------
(* The place of a frame in what its sender sends.                          *)
Precedes(no, k, f) == no < f.no \/ (no = f.no /\ k < f.k)

(* Frame k of message number no is the last one sent, and the next one is  *)
(* still to come.                                                          *)
ToSend(d, no, k) == d.no = no /\ d.k = k /\ k < d.t

(* The stream of a device d that tore none of its messages: the frames S   *)
(* in the receive channel continue the pending message m without a gap,    *)
(* and what d sends continues them.  If sent, m is complete and with Serve.*)
Continues(S, m, d, sent) ==
  /\ \A f \in S :
       /\ f.no <= d.no
       /\ f.no = d.no /\ d.t > 0 => f.t = d.t /\ f.k <= d.k
       /\ m # None => Precedes(m.no, m.got, f)
       /\ m # None /\ sent => m.no < f.no
       /\ f.k > 1 => \/ m # None /\ m.no = f.no /\ m.got = f.k - 1
                     \/ \E g \in S : g.no = f.no /\ g.k = f.k - 1
       /\ f.k < f.t => \/ ToSend(d, f.no, f.k)
                       \/ \E g \in S : g.no = f.no /\ g.k = f.k + 1
  /\ \A f, g \in S : f.no = g.no => f.t = g.t
  /\ m # None =>
       /\ m.sound
       /\ m.no <= d.no
       /\ m.no = d.no /\ d.t > 0 => m.got <= d.k
       /\ m.no = d.no /\ sent => d.k = d.t
       /\ ~sent => ToSend(d, m.no, m.got) \/ \E g \in S : g.no = m.no /\ g.k = m.got + 1
  /\ 0 < d.k /\ d.k < d.t => \/ m # None /\ m.no = d.no /\ m.got = d.k
                             \/ \E f \in S : f.no = d.no /\ f.k = d.k

(* The frames of a device in the receive channel, which are in order.      *)
Of(i) == {rx[a] : a \in {b \in DOMAIN rx : rx[b].node = i}}
Sorted(i) ==
  \A a, b \in DOMAIN rx :
    rx[a].node = i /\ rx[b].node = i /\ a < b => Precedes(rx[a].no, rx[a].k, rx[b])

Stream ==
  /\ \A i \in Id : ~panic /\ ~torn[i] =>
       Sorted(i) /\ Continues(Of(i), pending[i], device[i], Delivering(i))
  /\ \A i \in Id, g \in Gen : \A a \in DOMAIN queue[i][g] :
       ~queue[i][g][a].sound => torn[i]
-----------------------------------------------------------------------------
(* What a device does to its stream.  An address request: the device is    *)
(* between two messages.                                                   *)
LEMMA StreamAsk ==
  ASSUME NEW S \in SUBSET Frame, NEW m \in Message \cup {None}, NEW d \in DeviceState, NEW e \in DeviceState,
         NEW sent \in BOOLEAN, Continues(S, m, d, sent),
         d.k = d.t, e.no = d.no, e.k = 0, e.t = 0
  PROVE  Continues(S, m, e, sent)
<1>1. \A f \in S : f.no \in Nat /\ f.k \in Nat /\ f.t \in Nat
  BY Constants DEF Frame, Number
<1>2. m # None => m.no \in Nat /\ m.got \in Nat
  BY Constants DEF Message, Number
<1>3. d.no \in Nat /\ d.k \in Nat /\ d.t \in Nat
  BY Constants DEF DeviceState, Number
<1>4. \A no, k : ~ToSend(d, no, k)
  BY <1>3 DEF ToSend
<1>5. QED BY <1>1, <1>2, <1>3, <1>4 DEF Continues

(* A new message, when the last one has been sent.                         *)
LEMMA StreamStart ==
  ASSUME NEW S \in SUBSET Frame, NEW m \in Message \cup {None}, NEW d \in DeviceState, NEW e \in DeviceState,
         NEW sent \in BOOLEAN, Continues(S, m, d, sent),
         d.k = d.t, e.no = d.no + 1, e.k = 0
  PROVE  Continues(S, m, e, sent)
<1>1. \A f \in S : f.no \in Nat /\ f.k \in Nat /\ f.t \in Nat
  BY Constants DEF Frame, Number
<1>2. m # None => m.no \in Nat /\ m.got \in Nat
  BY Constants DEF Message, Number
<1>3. d.no \in Nat /\ d.k \in Nat /\ d.t \in Nat
  BY Constants DEF DeviceState, Number
<1>4. \A no, k : ~ToSend(d, no, k)
  BY <1>3 DEF ToSend
<1>5. (\A f \in S : f.no < e.no) /\ (m # None => m.no < e.no)
  BY <1>1, <1>2, <1>3 DEF Continues
<1>6. QED BY <1>1, <1>2, <1>3, <1>4, <1>5 DEF Continues

(* The only frame of a message may be lost.                                *)
LEMMA StreamLoss ==
  ASSUME NEW S \in SUBSET Frame, NEW m \in Message \cup {None}, NEW d \in DeviceState, NEW e \in DeviceState,
         NEW sent \in BOOLEAN, Continues(S, m, d, sent),
         d.k = 0, d.t = 1, e.no = d.no, e.k = 1, e.t = 1
  PROVE  Continues(S, m, e, sent)
<1>1. \A f \in S : f.no \in Nat /\ f.k \in Nat /\ f.t \in Nat /\ f.k > 0
  BY Constants DEF Frame, Number
<1>2. m # None => m.no \in Nat /\ m.got \in Nat /\ m.got > 0
  BY Constants DEF Message, Number
<1>3. d.no \in Nat
  BY Constants DEF DeviceState, Number
<1>4. (\A f \in S : f.no < d.no) /\ (m # None => m.no < d.no)
  BY <1>1, <1>2, <1>3 DEF Continues
<1>5. QED BY <1>1, <1>2, <1>3, <1>4 DEF Continues, ToSend

(* The next frame of a message goes behind the ones before.                *)
LEMMA StreamFrame ==
  ASSUME NEW S \in SUBSET Frame, NEW m \in Message \cup {None}, NEW d \in DeviceState, NEW e \in DeviceState,
         NEW sent \in BOOLEAN, Continues(S, m, d, sent), NEW n \in Frame,
         d.k < d.t, n.no = d.no, n.k = d.k + 1, n.t = d.t,
         e.no = d.no, e.k = d.k + 1, e.t = d.t
  PROVE  Continues(S \cup {n}, m, e, sent) /\ \A f \in S : Precedes(f.no, f.k, n)
<1>1. \A f \in S : f.no \in Nat /\ f.k \in Nat /\ f.t \in Nat /\ f.k > 0
  BY Constants DEF Frame, Number
<1>2. m # None => m.no \in Nat /\ m.got \in Nat /\ m.got > 0
  BY Constants DEF Message, Number
<1>3. d.no \in Nat /\ d.k \in Nat /\ d.t \in Nat /\ d.t > 0
  BY Constants DEF DeviceState, Number
<1>4. \A f \in S : f.no < d.no \/ (f.no = d.no /\ f.t = d.t /\ f.k <= d.k)
  BY <1>1, <1>3 DEF Continues
<1>5. m # None => m.no < d.no \/ (m.no = d.no /\ m.got <= d.k)
  BY <1>2, <1>3 DEF Continues
<1>6. m # None /\ sent => m.no < d.no
  BY <1>2, <1>3 DEF Continues
<1>7. \A f \in S : Precedes(f.no, f.k, n)
  BY <1>1, <1>3, <1>4 DEF Precedes
<1>8. ASSUME NEW f \in S \cup {n}
      PROVE  /\ f.no <= e.no
             /\ f.no = e.no /\ e.t > 0 => f.t = e.t /\ f.k <= e.k
             /\ m # None => Precedes(m.no, m.got, f)
             /\ m # None /\ sent => m.no < f.no
             /\ f.k > 1 => \/ m # None /\ m.no = f.no /\ m.got = f.k - 1
                           \/ \E g \in S \cup {n} : g.no = f.no /\ g.k = f.k - 1
             /\ f.k < f.t => \/ ToSend(e, f.no, f.k)
                             \/ \E g \in S \cup {n} : g.no = f.no /\ g.k = f.k + 1
  <2>1. CASE f = n
    <3>1. /\ f.no <= e.no /\ f.t = e.t /\ f.k <= e.k
          /\ m # None => Precedes(m.no, m.got, f)
          /\ m # None /\ sent => m.no < f.no
      BY <1>2, <1>3, <1>5, <1>6, <2>1 DEF Precedes
    <3>2. f.k > 1 => \/ m # None /\ m.no = f.no /\ m.got = f.k - 1
                     \/ \E g \in S \cup {n} : g.no = f.no /\ g.k = f.k - 1
      <4>1. f.k > 1 => 0 < d.k /\ f.k - 1 = d.k
        BY <1>3, <2>1
      <4>2. QED BY <2>1, <4>1 DEF Continues
    <3>3. f.k < f.t => ToSend(e, f.no, f.k)
      BY <2>1 DEF ToSend
    <3>4. QED BY <3>1, <3>2, <3>3
  <2>2. CASE f \in S
    <3>1. /\ f.no <= e.no /\ (f.no = e.no /\ e.t > 0 => f.t = e.t /\ f.k <= e.k)
      BY <1>1, <1>3, <1>4, <2>2
    <3>2. /\ m # None => Precedes(m.no, m.got, f)
          /\ m # None /\ sent => m.no < f.no
          /\ f.k > 1 => \/ m # None /\ m.no = f.no /\ m.got = f.k - 1
                        \/ \E g \in S \cup {n} : g.no = f.no /\ g.k = f.k - 1
      BY <2>2 DEF Continues
    <3>3. f.k < f.t => \E g \in S \cup {n} : g.no = f.no /\ g.k = f.k + 1
      BY <2>2 DEF Continues, ToSend
    <3>4. QED BY <3>1, <3>2, <3>3
  <2>3. QED BY <2>1, <2>2
<1>9. \A f, g \in S \cup {n} : f.no = g.no => f.t = g.t
  BY <1>1, <1>3, <1>4 DEF Continues
<1>10. m # None =>
         /\ m.sound
         /\ m.no <= e.no
         /\ m.no = e.no /\ e.t > 0 => m.got <= e.k
         /\ m.no = e.no /\ sent => e.k = e.t
         /\ ~sent => ToSend(e, m.no, m.got) \/ \E g \in S \cup {n} : g.no = m.no /\ g.k = m.got + 1
  <2>1. m # None => m.sound /\ m.no <= e.no /\ (m.no = e.no => m.got <= e.k) /\ (m.no = e.no => ~sent)
    BY <1>2, <1>3, <1>5, <1>6 DEF Continues
  <2>2. m # None /\ ~sent => \E g \in S \cup {n} : g.no = m.no /\ g.k = m.got + 1
    BY DEF Continues, ToSend
  <2>3. QED BY <2>1, <2>2
<1>11. \E f \in S \cup {n} : f.no = e.no /\ f.k = e.k
  OBVIOUS
<1>12. QED BY <1>7, <1>8, <1>9, <1>10, <1>11 DEF Continues

(* What Serve does to the stream.  The first frame in the channel is the   *)
(* next one of the pending message, or the first one of a new message.     *)
LEMMA StreamNext ==
  ASSUME NEW S \in SUBSET Frame, NEW m \in Message \cup {None}, NEW d \in DeviceState,
         Continues(S, m, d, FALSE), NEW f \in S,
         \A g \in S \ {f} : Precedes(f.no, f.k, g)
  PROVE  /\ m = None => f.k = 1
         /\ m # None => m.no = f.no /\ m.got = f.k - 1 /\ m.sound
<1>1. \A g \in S : g.no \in Nat /\ g.k \in Nat /\ g.t \in Nat /\ g.k > 0
  BY Constants DEF Frame, Number
<1>2. m # None => m.no \in Nat /\ m.got \in Nat /\ m.got > 0
  BY Constants DEF Message, Number
<1>3. d.no \in Nat /\ d.k \in Nat /\ d.t \in Nat
  BY Constants DEF DeviceState, Number
<1>4. \A g \in S : ~(g.no = f.no /\ g.k = f.k - 1)
  BY <1>1 DEF Precedes
<1>5. f.k > 1 => m # None /\ m.no = f.no /\ m.got = f.k - 1
  BY <1>4 DEF Continues
<1>6. ASSUME m # None PROVE f.k > 1
  <2>1. /\ Precedes(m.no, m.got, f)
        /\ f.no <= d.no
        /\ f.no = d.no /\ d.t > 0 => f.k <= d.k
        /\ ToSend(d, m.no, m.got) \/ \E g \in S : g.no = m.no /\ g.k = m.got + 1
    BY <1>6 DEF Continues
  <2>2. CASE ToSend(d, m.no, m.got)
    BY <1>1, <1>2, <1>3, <1>6, <2>1, <2>2 DEF ToSend, Precedes
  <2>3. ASSUME NEW g \in S, g.no = m.no, g.k = m.got + 1 PROVE f.k > 1
    <3>1. g = f \/ Precedes(f.no, f.k, g)
      OBVIOUS
    <3>2. QED BY <1>1, <1>2, <1>6, <2>1, <2>3, <3>1 DEF Precedes
  <2>4. QED BY <2>1, <2>2, <2>3
<1>7. QED BY <1>1, <1>5, <1>6 DEF Continues

(* Taking it leaves a stream that continues the longer message.            *)
LEMMA StreamTake ==
  ASSUME NEW S \in SUBSET Frame, NEW m \in Message \cup {None}, NEW d \in DeviceState,
         Continues(S, m, d, FALSE), NEW f \in S, \A g \in S : g.k <= g.t, d.k <= d.t,
         \A g \in S \ {f} : Precedes(f.no, f.k, g),
         NEW l \in Message, l.no = f.no, l.got = f.k, l.sound
  PROVE  Continues(S \ {f}, l, d, f.k = f.t)
<1>0. l # None
  BY DEF Message, None
<1>1. \A g \in S : g.no \in Nat /\ g.k \in Nat /\ g.t \in Nat /\ g.k > 0
  BY Constants DEF Frame, Number
<1>2. d.no \in Nat /\ d.k \in Nat /\ d.t \in Nat
  BY Constants DEF DeviceState, Number
<1>3. /\ m = None => f.k = 1
      /\ m # None => m.no = f.no /\ m.got = f.k - 1
  BY StreamNext
<1>4. ASSUME NEW g \in S \ {f}
      PROVE  /\ g.no <= d.no
             /\ g.no = d.no /\ d.t > 0 => g.t = d.t /\ g.k <= d.k
             /\ Precedes(l.no, l.got, g)
             /\ g.k > 1 => \/ l.no = g.no /\ l.got = g.k - 1
                           \/ \E h \in S \ {f} : h.no = g.no /\ h.k = g.k - 1
             /\ g.k < g.t => \/ ToSend(d, g.no, g.k)
                             \/ \E h \in S \ {f} : h.no = g.no /\ h.k = g.k + 1
  <2>1. Precedes(f.no, f.k, g)
    OBVIOUS
  <2>2. g.no <= d.no /\ (g.no = d.no /\ d.t > 0 => g.t = d.t /\ g.k <= d.k) /\ Precedes(l.no, l.got, g)
    BY <2>1 DEF Continues, Precedes
  <2>3. g.k > 1 => \/ l.no = g.no /\ l.got = g.k - 1
                   \/ \E h \in S \ {f} : h.no = g.no /\ h.k = g.k - 1
    <3>1. g.k > 1 => \/ m # None /\ m.no = g.no /\ m.got = g.k - 1
                     \/ \E h \in S : h.no = g.no /\ h.k = g.k - 1
      BY DEF Continues
    <3>2. ~(m # None /\ m.no = g.no /\ m.got = g.k - 1)
      BY <1>1, <1>3, <2>1 DEF Precedes
    <3>3. QED BY <3>1, <3>2
  <2>4. g.k < g.t => \/ ToSend(d, g.no, g.k)
                     \/ \E h \in S \ {f} : h.no = g.no /\ h.k = g.k + 1
    <3>1. g.k < g.t => \/ ToSend(d, g.no, g.k)
                       \/ \E h \in S : h.no = g.no /\ h.k = g.k + 1
      BY DEF Continues
    <3>2. ~(f.no = g.no /\ f.k = g.k + 1)
      BY <1>1, <2>1 DEF Precedes
    <3>3. QED BY <3>1, <3>2
  <2>5. QED BY <2>2, <2>3, <2>4
<1>5. ASSUME NEW g \in S \ {f}, f.k = f.t PROVE l.no < g.no
  <2>1. g.no = f.no => g.t = f.t
    BY DEF Continues
  <2>2. Precedes(f.no, f.k, g) /\ g.k <= g.t
    OBVIOUS
  <2>3. QED BY <1>1, <1>5, <2>1, <2>2 DEF Precedes
<1>6. \A g, h \in S \ {f} : g.no = h.no => g.t = h.t
  BY DEF Continues
<1>7. l.no <= d.no /\ (l.no = d.no /\ d.t > 0 => l.got <= d.k)
  BY DEF Continues
<1>8. l.no = d.no /\ f.k = f.t => d.k = d.t
  <2>1. f.no = d.no /\ d.t > 0 => f.t = d.t /\ f.k <= d.k
    BY DEF Continues
  <2>2. d.k <= d.t /\ f.k \in Nat /\ f.t \in Nat /\ l.no = f.no
    BY <1>1
  <2>3. QED BY <1>2, <2>1, <2>2
<1>9. f.k # f.t => ToSend(d, l.no, l.got) \/ \E g \in S \ {f} : g.no = l.no /\ g.k = l.got + 1
  <2>1. f.k # f.t => ToSend(d, f.no, f.k) \/ \E g \in S : g.no = f.no /\ g.k = f.k + 1
    BY <1>1 DEF Continues
  <2>2. f.k # f.k + 1
    BY <1>1
  <2>3. QED BY <2>1, <2>2
<1>10. 0 < d.k /\ d.k < d.t => \/ l.no = d.no /\ l.got = d.k
                               \/ \E g \in S \ {f} : g.no = d.no /\ g.k = d.k
  <2>1. 0 < d.k /\ d.k < d.t => \/ m # None /\ m.no = d.no /\ m.got = d.k
                                \/ \E g \in S : g.no = d.no /\ g.k = d.k
    BY DEF Continues
  <2>2. d.t > 0 => ~(m # None /\ m.no = d.no /\ m.got = d.k)
    BY <1>1, <1>2, <1>3 DEF Continues
  <2>3. QED BY <1>2, <2>1, <2>2
<1>11. QED BY <1>0, <1>4, <1>5, <1>6, <1>7, <1>8, <1>9, <1>10 DEF Continues

(* Handing the complete message over leaves none pending.                  *)
LEMMA StreamSend ==
  ASSUME NEW S \in SUBSET Frame, NEW m \in Message, NEW d \in DeviceState,
         Continues(S, m, d, TRUE)
  PROVE  Continues(S, None, d, FALSE)
<1>0. m # None
  BY DEF Message, None
<1>1. \A f \in S : f.no \in Nat /\ m.no \in Nat /\ d.k \in Nat /\ d.t \in Nat
  BY Constants DEF Frame, Message, Number, DeviceState
<1>2. \A f \in S : m.no # f.no
  BY <1>0, <1>1 DEF Continues
<1>3. m.no = d.no => ~(d.k < d.t)
  BY <1>0, Constants DEF Continues, DeviceState
<1>4. QED BY <1>0, <1>2, <1>3 DEF Continues

(* The frames of a device are frames.                                      *)
LEMMA OfFacts ==
  ASSUME TypeInv, NEW i \in Id
  PROVE  Of(i) \in SUBSET Frame /\ \A f \in Of(i) : f.node = i /\ f.k <= f.t
<1>1. \A a \in DOMAIN rx : rx[a].node = i => rx[a] \in Frame /\ rx[a].k <= rx[a].t
  BY RxFacts, ControllerAssumption DEF TypeInv, Known
<1>2. QED BY <1>1 DEF Of

(* How the frames of a device change when something is transmitted.        *)
LEMMA OfAppend ==
  ASSUME TypeOK, NEW i \in Id, NEW f \in Frame \cup Request, Transmit(f)
  PROVE  /\ f.node = i /\ lost' = lost => Of(i)' = Of(i) \cup {f}
         /\ f.node # i \/ lost' # lost => Of(i)' = Of(i)
         /\ Sorted(i) /\ (f.node = i => \A g \in Of(i) : Precedes(g.no, g.k, f)) => Sorted(i)'
<1>1. \A a \in DOMAIN rx' : \/ a \in DOMAIN rx /\ rx'[a] = rx[a]
                            \/ a = Len(rx) + 1 /\ rx'[a] = f /\ lost' = lost
  BY RxAppend
<1>2. \A a \in DOMAIN rx : a \in DOMAIN rx' /\ rx'[a] = rx[a] /\ a < Len(rx) + 1
  BY RxAppend
<1>3. lost' = lost => Len(rx) + 1 \in DOMAIN rx' /\ rx'[Len(rx) + 1] = f
  BY RxAppend
<1>4. ASSUME f.node = i, lost' = lost PROVE Of(i)' = Of(i) \cup {f}
  BY <1>1, <1>2, <1>3, <1>4 DEF Of
<1>5. ASSUME f.node # i \/ lost' # lost PROVE Of(i)' = Of(i)
  BY <1>1, <1>2, <1>5 DEF Of
<1>6. ASSUME Sorted(i), f.node = i => \A g \in Of(i) : Precedes(g.no, g.k, f) PROVE Sorted(i)'
  <2>1. SUFFICES ASSUME NEW a \in DOMAIN rx', NEW b \in DOMAIN rx', rx'[a].node = i, rx'[b].node = i, a < b
                 PROVE  Precedes(rx'[a].no, rx'[a].k, rx'[b])
    BY DEF Sorted, Precedes
  <2>2. CASE b \in DOMAIN rx /\ rx'[b] = rx[b]
    <3>1. a \in DOMAIN rx /\ rx'[a] = rx[a]
      <4>1. rx \in Seq(Frame \cup Request) /\ DOMAIN rx = 1..Len(rx)
        BY DEF TypeOK
      <4>2. a # Len(rx) + 1
        BY <2>1, <2>2, <4>1
      <4>3. QED BY <1>1, <4>2
    <3>2. QED BY <1>6, <2>1, <2>2, <3>1 DEF Sorted
  <2>3. CASE b = Len(rx) + 1 /\ rx'[b] = f
    <3>1. a # b
      BY <2>1, RxAppend
    <3>2. a \in DOMAIN rx /\ rx'[a] = rx[a]
      BY <1>1, <2>3, <3>1
    <3>3. rx[a] \in Of(i)
      BY <2>1, <3>2 DEF Of
    <3>4. QED BY <1>6, <2>1, <2>3, <3>2, <3>3
  <2>4. QED BY <1>1, <2>2, <2>3
<1>7. QED BY <1>4, <1>5, <1>6

(* How they change when Serve takes the first element of the channel.      *)
LEMMA OfTail ==
  ASSUME TypeOK, NEW i \in Id, rx # <<>>, rx' = Tail(rx), Sorted(i)
  PROVE  /\ Sorted(i)'
         /\ Head(rx).node # i => Of(i)' = Of(i)
         /\ Head(rx).node = i =>
              /\ Head(rx) \in Of(i) /\ Of(i)' = Of(i) \ {Head(rx)}
              /\ \A g \in Of(i) \ {Head(rx)} : Precedes(Head(rx).no, Head(rx).k, g)
<1>1. 1 \in DOMAIN rx /\ Head(rx) = rx[1]
  BY RxTail
<1>2. \A a \in DOMAIN rx' : a + 1 \in DOMAIN rx /\ rx'[a] = rx[a + 1]
  BY RxTail
<1>3. \A a \in DOMAIN rx : a # 1 => a - 1 \in DOMAIN rx' /\ rx'[a - 1] = rx[a] /\ 1 < a
  <2>1. DOMAIN rx = 1..Len(rx) /\ Len(rx) \in Nat
    BY DEF TypeOK
  <2>2. \A a \in DOMAIN rx : a # 1 => a - 1 \in DOMAIN rx'
    BY RxTail
  <2>3. \A a \in DOMAIN rx : a # 1 => 1 < a /\ (a - 1) + 1 = a
    BY <2>1
  <2>4. QED BY <1>2, <2>2, <2>3
<1>4. Sorted(i)'
  <2>1. SUFFICES ASSUME NEW a \in DOMAIN rx', NEW b \in DOMAIN rx', rx'[a].node = i, rx'[b].node = i, a < b
                 PROVE  Precedes(rx'[a].no, rx'[a].k, rx'[b])
    BY DEF Sorted, Precedes
  <2>2. a + 1 \in DOMAIN rx /\ b + 1 \in DOMAIN rx /\ rx'[a] = rx[a + 1] /\ rx'[b] = rx[b + 1]
    BY <1>2
  <2>3. a + 1 < b + 1
    <3>1. rx' \in Seq(Frame \cup Request)
      BY RxTail
    <3>2. a \in Nat /\ b \in Nat
      BY <3>1
    <3>3. QED BY <2>1, <3>2
  <2>4. QED BY <2>1, <2>2, <2>3 DEF Sorted
<1>5. ASSUME Head(rx).node # i PROVE Of(i)' = Of(i)
  <2>1. Of(i)' \subseteq Of(i)
    BY <1>2 DEF Of
  <2>2. ASSUME NEW g \in Of(i) PROVE g \in Of(i)'
    <3>1. PICK a \in DOMAIN rx : rx[a] = g /\ rx[a].node = i
      BY Zenon DEF Of
    <3>2. a - 1 \in DOMAIN rx' /\ rx'[a - 1] = g
      BY <1>1, <1>3, <1>5, <3>1, Zenon
    <3>3. QED BY <3>1, <3>2, Zenon DEF Of
  <2>3. QED BY <2>1, <2>2
<1>6. ASSUME Head(rx).node = i
      PROVE  /\ Head(rx) \in Of(i) /\ Of(i)' = Of(i) \ {Head(rx)}
             /\ \A g \in Of(i) \ {Head(rx)} : Precedes(Head(rx).no, Head(rx).k, g)
  <2>1. Head(rx) \in Of(i)
    BY <1>1, <1>6 DEF Of
  <2>2. \A a \in DOMAIN rx : a # 1 /\ rx[a].node = i => Precedes(rx[1].no, rx[1].k, rx[a])
    BY <1>1, <1>3, <1>6 DEF Sorted
  <2>3. \A a \in DOMAIN rx : a # 1 /\ rx[a].node = i => rx[a] # rx[1]
    <3>1. rx[1] \in Frame
      BY <1>1, <1>6, RxFacts, ControllerAssumption
    <3>2. rx[1].no \in Nat /\ rx[1].k \in Nat
      BY <3>1, Constants DEF Frame, Number
    <3>3. ~Precedes(rx[1].no, rx[1].k, rx[1])
      BY <3>2 DEF Precedes
    <3>4. QED BY <2>2, <3>3
  <2>4. Of(i) \ {Head(rx)} \subseteq Of(i)'
    <3>1. SUFFICES ASSUME NEW g \in Of(i), g # Head(rx) PROVE g \in Of(i)'
      OBVIOUS
    <3>2. PICK a \in DOMAIN rx : rx[a] = g /\ rx[a].node = i
      BY Zenon DEF Of
    <3>3. a - 1 \in DOMAIN rx' /\ rx'[a - 1] = g
      BY <1>1, <1>3, <3>1, <3>2, Zenon
    <3>4. QED BY <3>2, <3>3, Zenon DEF Of
  <2>5. Of(i)' \subseteq Of(i) \ {Head(rx)}
    <3>1. \A a \in DOMAIN rx' : a + 1 # 1
      <4>1. rx' \in Seq(Frame \cup Request)
        BY RxTail
      <4>2. QED BY <4>1
    <3>2. QED BY <1>1, <1>2, <2>3, <3>1 DEF Of
  <2>6. \A g \in Of(i) \ {Head(rx)} : Precedes(Head(rx).no, Head(rx).k, g)
    BY <1>1, <2>2 DEF Of
  <2>7. QED BY <2>1, <2>4, <2>5, <2>6
<1>7. QED BY <1>4, <1>5, <1>6
-----------------------------------------------------------------------------
(* Messages that are not torn now were not torn before.                    *)
LEMMA TornStays ==
  ASSUME TypeInv, [Next]_vars
  PROVE  \A i \in Id : ~torn'[i] => ~torn[i]
<1>0. torn \in [Id -> BOOLEAN]
  BY DEF TypeInv, TypeOK
<1>1. ASSUME NEW i \in Id, DeviceAsk(i) PROVE \A j \in Id : ~torn'[j] => ~torn[j]
  <2>1. torn' = [torn EXCEPT ![i] = @ \/ Sending(i)]
    BY <1>1 DEF DeviceAsk
  <2>2. QED BY <1>0, <2>1, Zenon
<1>2. ASSUME NEW i \in Id, DeviceFrame(i) PROVE \A j \in Id : ~torn'[j] => ~torn[j]
  <2>1. torn' = [torn EXCEPT ![i] = @ \/ (lost' # lost /\ device[i].t > 1)]
    BY <1>2 DEF DeviceFrame
  <2>2. QED BY <1>0, <2>1, Zenon
<1>3. ASSUME NEW i \in Id, DeviceConfigure(i) \/ \E kind \in {"boot_ack", "other"}, t \in 1..MaxFrames : DeviceSend(i, kind, t)
      PROVE  torn' = torn
  BY <1>3 DEF DeviceConfigure, DeviceSend
<1>4. ASSUME Serve \/ Master PROVE torn' = torn
  BY <1>4 DEF Serve, ServeDiscard, ServeFrame, ServeRequest, ServeSendRequest, ServeSend, ServePanic,
              Master, MasterTake, MasterTerminate, MasterRenew, MasterConfigure, deviceVars
<1>5. ASSUME NEW i \in Id, NEW g \in Gen, Handler(i, g) PROVE torn' = torn
  BY <1>5 DEF Handler, HandlerTake, HandlerTold, HandlerExpect, HandlerTimeout, HandlerReport, HandlerClose, deviceVars
<1>6. CASE UNCHANGED vars
  BY <1>6 DEF vars, deviceVars
<1>7. QED BY <1>1, <1>2, <1>3, <1>4, <1>5, <1>6 DEF Next, Device

(* The stream of a device that a step does not concern.                    *)
LEMMA StreamSame ==
  ASSUME Stream, NEW i \in Id, ~panic, ~torn[i],
         Sorted(i)', Of(i)' = Of(i), pending'[i] = pending[i], device'[i] = device[i],
         Delivering(i)' = Delivering(i)
  PROVE  Sorted(i)' /\ Continues(Of(i), pending[i], device[i], Delivering(i))'
<1>1. Continues(Of(i), pending[i], device[i], Delivering(i))
  BY DEF Stream
<1>2. QED BY <1>1 DEF Continues, ToSend, Precedes

(* The steps of a device keep its stream contiguous, and every other one.  *)
LEMMA StreamDevice ==
  ASSUME TypeInv, Silent, Stream, NEW j \in Id, Device(j)
  PROVE  Stream'
<1>0. TypeOK /\ Counted
  BY DEF TypeInv
<1>1. UNCHANGED serverVars
  BY DEF Device, DeviceAsk, DeviceConfigure, DeviceFrame, DeviceSend
<1>2. \A i \in Id : ~torn'[i] => ~torn[i]
  <2>1. Next
    BY DEF Next
  <2>2. QED BY <2>1, TornStays
<1>3. \A i \in Id, g \in Gen : \A a \in DOMAIN queue'[i][g] : ~queue'[i][g][a].sound => torn'[i]
  BY <1>1, <1>2 DEF Stream, serverVars
<1>4. pending' = pending /\ serve' = serve
  BY <1>1 DEF serverVars
<1>5. SUFFICES ASSUME NEW i \in Id, ~panic', ~torn'[i]
               PROVE  Sorted(i)' /\ Continues(Of(i), pending[i], device[i], Delivering(i))'
  BY <1>3 DEF Stream
<1>6. ~panic /\ ~torn[i] /\ Sorted(i) /\ Continues(Of(i), pending[i], device[i], Delivering(i))
  BY <1>2, <1>4, <1>5 DEF Stream, panic
<1>7. Of(i) \in SUBSET Frame /\ pending[i] \in Message \cup {None} /\ device[i] \in DeviceState
  BY <1>0, OfFacts DEF TypeOK
<1>8. device[i].k \in Nat /\ device[i].t \in Nat /\ device[i].k <= device[i].t
  BY <1>0, Numbers DEF Counted
<1>9. Delivering(i)' = Delivering(i) /\ Delivering(i) \in BOOLEAN
  BY <1>4 DEF Delivering
<1>10. device' \in [Id -> DeviceState]
  BY TypeDevice DEF TypeInv, TypeOK
<1>11. CASE DeviceAsk(j)
  <2>1. Transmit([node |-> 0, from |-> j]) /\ device' = [device EXCEPT ![j].pc = "asking", ![j].k = 0, ![j].t = 0]
        /\ torn' = [torn EXCEPT ![j] = @ \/ Sending(j)]
    BY <1>11 DEF DeviceAsk
  <2>2. [node |-> 0, from |-> j] \in Request /\ [node |-> 0, from |-> j].node # i
    BY ControllerAssumption DEF Request
  <2>3. Sorted(i)' /\ Of(i)' = Of(i)
    <3>1. PICK f \in Request : f = [node |-> 0, from |-> j]
      BY <2>2
    <3>2. QED BY <1>0, <1>6, <2>1, <2>2, <3>1, OfAppend
  <2>4. CASE i # j
    <3>1. device'[i] = device[i]
      BY <1>0, <2>1, <2>4 DEF TypeOK
    <3>2. QED BY <1>4, <1>6, <1>9, <2>3, <3>1, StreamSame
  <2>5. CASE i = j
    <3>1. device'[i].no = device[i].no /\ device'[i].k = 0 /\ device'[i].t = 0
      BY <1>0, <2>1, <2>5 DEF TypeOK, DeviceState
    <3>2. ~Sending(i)
      <4>1. torn \in [Id -> BOOLEAN]
        BY <1>0 DEF TypeOK
      <4>2. QED BY <1>5, <2>1, <2>5, <4>1, Zenon
    <3>3. device[i].k = device[i].t
      BY <1>8, <3>2 DEF Sending
    <3>4. PICK e \in DeviceState : e = device'[i]
      BY <1>10
    <3>5. Continues(Of(i), pending[i], e, Delivering(i))
      BY <1>6, <1>7, <1>9, <3>1, <3>3, <3>4, StreamAsk
    <3>6. QED BY <1>4, <1>9, <2>3, <3>4, <3>5 DEF Continues, ToSend, Precedes
  <2>6. QED BY <2>4, <2>5
<1>12. ASSUME NEW kind, NEW t, device' = StartMessage(j, kind, t), ~Sending(j), rx' = rx
       PROVE  Sorted(i)' /\ Continues(Of(i), pending[i], device[i], Delivering(i))'
  <2>1. Sorted(i)' /\ Of(i)' = Of(i)
    BY <1>6, <1>12 DEF Sorted, Of, Precedes
  <2>2. CASE i # j
    <3>1. device'[i] = device[i]
      BY <1>0, <1>12, <2>2 DEF TypeOK, StartMessage
    <3>2. QED BY <1>4, <1>6, <1>9, <2>1, <3>1, StreamSame
  <2>3. CASE i = j
    <3>1. device'[i].no = device[i].no + 1 /\ device'[i].k = 0
      BY <1>0, <1>12, <2>3 DEF TypeOK, StartMessage
    <3>2. device[i].k = device[i].t
      BY <1>8, <1>12, <2>3 DEF Sending
    <3>3. PICK e \in DeviceState : e = device'[i]
      BY <1>10
    <3>4. Continues(Of(i), pending[i], e, Delivering(i))
      BY <1>6, <1>7, <1>9, <3>1, <3>2, <3>3, StreamStart
    <3>5. QED BY <1>4, <1>9, <2>1, <3>3, <3>4 DEF Continues, ToSend, Precedes
  <2>4. QED BY <2>2, <2>3
<1>13. CASE DeviceConfigure(j)
  BY <1>12, <1>13 DEF DeviceConfigure
<1>14. ASSUME NEW kind, NEW t, DeviceSend(j, kind, t)
       PROVE  Sorted(i)' /\ Continues(Of(i), pending[i], device[i], Delivering(i))'
  BY <1>12, <1>14 DEF DeviceSend
<1>15. CASE DeviceFrame(j)
  <2> DEFINE F == [node |-> j, kind |-> device[j].kind, no |-> device[j].no, k |-> device[j].k + 1, t |-> device[j].t]
  <2>1. Sending(j) /\ Transmit(F) /\ device' = [device EXCEPT ![j].k = @ + 1]
        /\ torn' = [torn EXCEPT ![j] = @ \/ (lost' # lost /\ device[j].t > 1)]
    BY <1>15 DEF DeviceFrame
  <2>2. F \in Frame
    <3>1. device[j].k < device[j].t /\ device[j].t > 0 /\ device[j].no > 0 /\ device[j] \in DeviceState
      BY <1>0, <2>1, Numbers DEF Sending, Counted
    <3>2. device[j].k + 1 \in 1..MaxFrames /\ device[j].t \in 1..MaxFrames /\ device[j].no \in Number
      BY <3>1, Constants DEF DeviceState
    <3>3. QED BY <3>1, <3>2 DEF Frame, DeviceState
  <2>3. F.node = j /\ F.no = device[j].no /\ F.k = device[j].k + 1 /\ F.t = device[j].t
    OBVIOUS
  <2>4. PICK n \in Frame : n = F
    BY <2>2
  <2>5. Transmit(n) /\ n.node = j /\ n.no = device[j].no /\ n.k = device[j].k + 1 /\ n.t = device[j].t
    BY <2>1, <2>3, <2>4
  <2> HIDE DEF F
  <2>6. CASE i # j
    <3>1. device'[i] = device[i]
      BY <1>0, <2>1, <2>6 DEF TypeOK
    <3>2. Sorted(i)' /\ Of(i)' = Of(i)
      BY <1>0, <1>6, <2>5, <2>6, OfAppend
    <3>3. QED BY <1>4, <1>6, <1>9, <3>1, <3>2, StreamSame
  <2>7. CASE i = j
    <3>1. PICK e \in DeviceState : e = device'[i]
      BY <1>10
    <3>2. e.no = device[i].no /\ e.k = device[i].k + 1 /\ e.t = device[i].t
      BY <1>0, <2>1, <2>7, <3>1 DEF TypeOK, DeviceState
    <3>3. device[i].k < device[i].t
      BY <2>1, <2>7 DEF Sending
    <3>4. CASE lost' = lost
      <4>1. Continues(Of(i) \cup {n}, pending[i], e, Delivering(i)) /\ \A f \in Of(i) : Precedes(f.no, f.k, n)
        BY <1>6, <1>7, <1>9, <2>5, <2>7, <3>2, <3>3, StreamFrame
      <4>2. Sorted(i)' /\ Of(i)' = Of(i) \cup {n}
        BY <1>0, <1>6, <2>5, <2>7, <3>4, <4>1, OfAppend
      <4>3. QED BY <1>4, <1>9, <3>1, <4>1, <4>2 DEF Continues, ToSend, Precedes
    <3>5. CASE lost' # lost
      <4>1. ~(device[i].t > 1)
        <5>1. torn \in [Id -> BOOLEAN]
          BY <1>0 DEF TypeOK
        <5>2. QED BY <1>5, <2>1, <2>7, <3>5, <5>1, Zenon
      <4>2. device[i].k = 0 /\ device[i].t = 1
        BY <1>8, <3>3, <4>1
      <4>3. Continues(Of(i), pending[i], e, Delivering(i))
        BY <1>6, <1>7, <1>9, <3>2, <4>2, StreamLoss
      <4>4. Of(i)' = Of(i)
        BY <1>0, <2>5, <3>5, OfAppend
      <4>5. Sorted(i)'
        <5>1. rx' = rx
          BY <2>1, <3>5 DEF Transmit
        <5>2. QED BY <1>6, <5>1 DEF Sorted, Precedes
      <4>6. QED BY <1>4, <1>9, <3>1, <4>3, <4>4, <4>5 DEF Continues, ToSend, Precedes
    <3>6. QED BY <3>4, <3>5
  <2>8. QED BY <2>6, <2>7
<1>16. QED BY <1>11, <1>13, <1>14, <1>15 DEF Device

(* The steps of Serve keep the streams contiguous: it never has to discard *)
(* a frame of a device that tore no message.                               *)
LEMMA StreamServe ==
  ASSUME TypeInv, Stream, Serve
  PROVE  Stream'
<1>0. TypeOK /\ Counted /\ Known
  BY DEF TypeInv
<1>1. device' = device /\ torn' = torn
  BY DEF Serve, ServeDiscard, ServeFrame, ServeRequest, ServeSendRequest, ServeSend, ServePanic, deviceVars
<1>2. ASSUME NEW i \in Id, ~panic, ~torn[i]
      PROVE  /\ Sorted(i) /\ Continues(Of(i), pending[i], device[i], Delivering(i))
             /\ Of(i) \in SUBSET Frame /\ pending[i] \in Message \cup {None} /\ device[i] \in DeviceState
             /\ device[i].k <= device[i].t /\ \A f \in Of(i) : f.k <= f.t
             /\ rx' = rx => Sorted(i)' /\ Of(i)' = Of(i)
  <2>1. Sorted(i) /\ Continues(Of(i), pending[i], device[i], Delivering(i))
    BY <1>2 DEF Stream
  <2>2. pending[i] \in Message \cup {None} /\ device[i] \in DeviceState
    BY <1>0 DEF TypeOK
  <2>3. device[i].k <= device[i].t
    BY <1>0 DEF Counted
  <2>4. Of(i) \in SUBSET Frame /\ \A f \in Of(i) : f.k <= f.t
    BY OfFacts
  <2>5. rx' = rx => Sorted(i)' /\ Of(i)' = Of(i)
    BY <2>1 DEF Sorted, Of, Precedes
  <2>6. QED BY <2>1, <2>2, <2>3, <2>4, <2>5
<1>3. ASSUME queue' = queue
      PROVE  \A i \in Id, g \in Gen : \A a \in DOMAIN queue'[i][g] : ~queue'[i][g][a].sound => torn'[i]
  BY <1>1, <1>3 DEF Stream
<1>4. ASSUME NEW i \in Id, ~panic, ~torn[i], serve.pc = "idle", rx # <<>>, Head(rx).node = i, rx' = Tail(rx)
      PROVE  /\ Head(rx) \in Of(i) /\ Of(i)' = Of(i) \ {Head(rx)} /\ Sorted(i)'
             /\ \A g \in Of(i) \ {Head(rx)} : Precedes(Head(rx).no, Head(rx).k, g)
             /\ ~Delivering(i) /\ Continues(Of(i), pending[i], device[i], FALSE)
             /\ ~Discarded(Head(rx))
             /\ pending[i] = None => Head(rx).k = 1
             /\ pending[i] # None => /\ pending[i].no = Head(rx).no /\ pending[i].sound
                                     /\ pending[i].got = Head(rx).k - 1
  <2>1. /\ Head(rx) \in Of(i) /\ Of(i)' = Of(i) \ {Head(rx)} /\ Sorted(i)'
        /\ \A g \in Of(i) \ {Head(rx)} : Precedes(Head(rx).no, Head(rx).k, g)
    BY <1>0, <1>2, <1>4, OfTail
  <2>2. Delivering(i) = FALSE
    BY <1>4 DEF Delivering
  <2>3. Continues(Of(i), pending[i], device[i], FALSE)
    BY <1>2, <1>4, <2>2
  <2>4. /\ pending[i] = None => Head(rx).k = 1
        /\ pending[i] # None => /\ pending[i].no = Head(rx).no /\ pending[i].sound
                                /\ pending[i].got = Head(rx).k - 1
    <3>1. Of(i) \in SUBSET Frame /\ pending[i] \in Message \cup {None} /\ device[i] \in DeviceState
      BY <1>2, <1>4
    <3>2. PICK f \in Of(i) : f = Head(rx)
      BY <2>1
    <3>3. \A g \in Of(i) \ {f} : Precedes(f.no, f.k, g)
      BY <2>1, <3>2
    <3>4. /\ pending[i] = None => f.k = 1
          /\ pending[i] # None => pending[i].no = f.no /\ pending[i].got = f.k - 1 /\ pending[i].sound
      BY <2>3, <3>1, <3>3, StreamNext
    <3>5. QED BY <3>2, <3>4
  <2>5. running(i)
    <3>1. gen[i] > 0
      BY <1>0, <1>4, RxTail, ControllerAssumption DEF Known
    <3>2. QED BY <1>0, <3>1, Numbers DEF running
  <2>6. pending[i] # None => ~First(Head(rx))
    <3>1. pending[i] # None => pending[i].got \in Nat /\ pending[i].got # 0
      BY <1>2, <1>4, Constants DEF Message
    <3>2. QED BY <2>4, <3>1 DEF First
  <2>7. ~Discarded(Head(rx))
    BY <1>4, <2>4, <2>5, <2>6 DEF Discarded, First
  <2>8. QED BY <2>1, <2>2, <2>3, <2>4, <2>7
<1>5. CASE ServeDiscard
  <2>1. /\ serve.pc = "idle" /\ rx # <<>> /\ Head(rx).node # 0 /\ Discarded(Head(rx)) /\ rx' = Tail(rx)
        /\ pending' = pending /\ serve' = serve /\ queue' = queue
    BY <1>5 DEF ServeDiscard, serverVars
  <2>2. ~panic /\ ~panic'
    BY <2>1 DEF panic
  <2>3. ASSUME NEW i \in Id, ~torn'[i]
        PROVE  Sorted(i)' /\ Continues(Of(i), pending[i], device[i], Delivering(i))'
    <3>1. Head(rx).node # i
      BY <1>1, <1>4, <2>1, <2>2, <2>3
    <3>2. Sorted(i)' /\ Of(i)' = Of(i)
      BY <1>0, <1>1, <1>2, <2>1, <2>2, <2>3, <3>1, OfTail
    <3>3. Delivering(i)' = Delivering(i)
      BY <2>1 DEF Delivering
    <3>4. QED BY <1>1, <2>1, <2>2, <2>3, <3>2, <3>3, StreamSame
  <2>4. QED BY <1>3, <2>1, <2>3 DEF Stream
<1>6. CASE ServeFrame
  <2>1. PICK f \in Frame : /\ f = Head(rx) /\ ~Discarded(f) /\ f.node \in Id
                           /\ pending' = [pending EXCEPT ![f.node] = Assemble(f)]
                           /\ serve' = IF Last(f) THEN [pc |-> "send", node |-> f.node, gen |-> gen[f.node]] ELSE serve
    BY <1>0, <1>6, RxTail, RxFacts DEF ServeFrame
  <2>2. serve.pc = "idle" /\ rx # <<>> /\ rx' = Tail(rx) /\ queue' = queue
    BY <1>6 DEF ServeFrame
  <2>3. ~panic
    BY <2>2 DEF panic
  <2>4. PICK l \in Message : l = Assemble(f)
    BY <1>0, <2>1, AssembleFacts
  <2>5. ASSUME NEW i \in Id, ~torn'[i]
        PROVE  Sorted(i)' /\ Continues(Of(i), pending[i], device[i], Delivering(i))'
    <3>1. CASE f.node # i
      <4>1. pending'[i] = pending[i]
        BY <1>0, <2>1, <3>1 DEF TypeOK
      <4>2. Sorted(i)' /\ Of(i)' = Of(i)
        BY <1>0, <1>1, <1>2, <2>1, <2>2, <2>3, <2>5, <3>1, OfTail
      <4>3. Delivering(i)' = Delivering(i)
        BY <2>1, <2>2, <3>1 DEF Delivering
      <4>4. QED BY <1>1, <2>3, <2>5, <4>1, <4>2, <4>3, StreamSame
    <3>2. CASE f.node = i
      <4>1. pending'[i] = l
        BY <1>0, <2>1, <2>4, <3>2 DEF TypeOK
      <4>2. /\ f \in Of(i) /\ Of(i)' = Of(i) \ {f} /\ Sorted(i)'
            /\ \A g \in Of(i) \ {f} : Precedes(f.no, f.k, g)
            /\ Continues(Of(i), pending[i], device[i], FALSE)
            /\ pending[i] = None => f.k = 1
            /\ pending[i] # None => /\ pending[i].no = f.no /\ pending[i].sound
                                    /\ pending[i].got = f.k - 1
        BY <1>1, <1>4, <2>1, <2>2, <2>3, <2>5, <3>2
      <4>3. f.k \in Nat /\ f.k > 0 /\ f.k <= Capacity
        BY Constants DEF Frame
      <4>4. l.no = f.no /\ l.got = f.k /\ l.sound
        <5>1. CASE pending[i] = None
          BY <2>4, <4>2, <5>1 DEF Assemble, First, NewMessage
        <5>2. CASE pending[i] # None
          <6>1. pending[i] \in Message /\ pending[i].got \in Nat /\ pending[i].got > 0 /\ pending[i].got # Capacity
            <7>1. pending[i] \in Message
              BY <1>0, <5>2 DEF TypeOK
            <7>2. pending[i].got \in 1..Capacity
              BY <7>1 DEF Message
            <7>3. QED BY <4>2, <4>3, <5>2, <7>1, <7>2, Constants
          <6>2. ~First(f)
            BY <4>2, <4>3, <5>2, <6>1 DEF First
          <6>3. l = [pending[i] EXCEPT !.got = @ + 1, !.sound = @ /\ f.no = pending[i].no /\ f.k = pending[i].got + 1]
            BY <2>4, <3>2, <6>1, <6>2 DEF Assemble, AppendData
          <6>4. l.no = pending[i].no /\ l.got = pending[i].got + 1
                /\ l.sound = (pending[i].sound /\ f.no = pending[i].no /\ f.k = pending[i].got + 1)
            BY <6>1, <6>3 DEF Message
          <6>5. f.k = pending[i].got + 1
            BY <4>2, <4>3, <5>2, <6>1
          <6>6. QED BY <4>2, <5>2, <6>4, <6>5
        <5>3. QED BY <5>1, <5>2
      <4>5. Continues(Of(i) \ {f}, l, device[i], f.k = f.t)
        BY <1>1, <1>2, <2>3, <2>5, <4>2, <4>4, StreamTake
      <4>6. Delivering(i)' <=> f.k = f.t
        BY <2>1, <2>2, <3>2 DEF Delivering, Last
      <4>7. Continues(Of(i), pending[i], device[i], Delivering(i))'
        <5>1. Of(i)' = Of(i) \ {f} /\ pending'[i] = l /\ device'[i] = device[i]
          BY <1>1, <4>1, <4>2
        <5>2. CASE f.k = f.t
          BY <4>5, <4>6, <5>1, <5>2 DEF Continues, ToSend, Precedes
        <5>3. CASE f.k # f.t
          BY <4>5, <4>6, <5>1, <5>3 DEF Continues, ToSend, Precedes
        <5>4. QED BY <5>2, <5>3
      <4>8. QED BY <4>2, <4>7
    <3>3. QED BY <3>1, <3>2
  <2>6. QED BY <1>3, <2>2, <2>5 DEF Stream
<1>7. CASE ServeRequest
  <2>1. /\ serve.pc = "idle" /\ rx # <<>> /\ Head(rx).node = 0 /\ rx' = Tail(rx)
        /\ pending' = pending /\ serve'.pc = "request" /\ queue' = queue
    BY <1>7 DEF ServeRequest
  <2>2. ~panic
    BY <2>1 DEF panic
  <2>3. ASSUME NEW i \in Id, ~torn'[i]
        PROVE  Sorted(i)' /\ Continues(Of(i), pending[i], device[i], Delivering(i))'
    <3>1. Sorted(i)' /\ Of(i)' = Of(i)
      BY <1>0, <1>1, <1>2, <2>1, <2>2, <2>3, OfTail, ControllerAssumption
    <3>2. Delivering(i)' = Delivering(i)
      BY <2>1 DEF Delivering
    <3>3. QED BY <1>1, <2>1, <2>2, <2>3, <3>1, <3>2, StreamSame
  <2>4. QED BY <1>3, <2>1, <2>3 DEF Stream
<1>8. CASE ServeSendRequest
  <2>1. serve.pc = "request" /\ rx' = rx /\ pending' = pending /\ serve'.pc = "idle" /\ queue' = queue
    BY <1>8 DEF ServeSendRequest
  <2>2. ~panic
    BY <2>1 DEF panic
  <2>3. ASSUME NEW i \in Id, ~torn'[i]
        PROVE  Sorted(i)' /\ Continues(Of(i), pending[i], device[i], Delivering(i))'
    <3>1. Delivering(i)' = Delivering(i)
      BY <2>1 DEF Delivering
    <3>2. QED BY <1>1, <1>2, <2>1, <2>2, <2>3, <3>1, StreamSame
  <2>4. QED BY <1>3, <2>1, <2>3 DEF Stream
<1>9. CASE ServeSend
  <2>1. PICK n \in Id, h \in Gen : n = serve.node /\ h = serve.gen
    BY <1>0, <1>9, Fields DEF ServeSend
  <2>2. /\ serve.pc = "send" /\ rx' = rx /\ serve'.pc = "idle"
        /\ queue' = [queue EXCEPT ![n][h] = Append(queue[n][h], pending[n])]
        /\ pending' = [pending EXCEPT ![n] = None]
    BY <1>9, <2>1 DEF ServeSend
  <2>3. ~panic /\ pending[n] \in Message /\ pending[n] # None
    BY <1>0, <2>1, <2>2 DEF panic, TypeOK, Known
  <2>4. ASSUME NEW i \in Id, ~torn'[i]
        PROVE  Sorted(i)' /\ Continues(Of(i), pending[i], device[i], Delivering(i))'
    <3>1. CASE i # n
      <4>1. pending'[i] = pending[i]
        BY <1>0, <2>2, <3>1 DEF TypeOK
      <4>2. Delivering(i)' = Delivering(i)
        BY <2>1, <2>2, <3>1 DEF Delivering
      <4>3. QED BY <1>1, <1>2, <2>2, <2>3, <2>4, <4>1, <4>2, StreamSame
    <3>2. CASE i = n
      <4>1. pending'[i] = None
        BY <1>0, <2>2, <3>2 DEF TypeOK
      <4>2. Delivering(i)' = FALSE /\ Delivering(i) = TRUE
        BY <2>1, <2>2, <3>2 DEF Delivering
      <4>3. Continues(Of(i), pending[i], device[i], TRUE)
        BY <1>1, <1>2, <2>3, <2>4, <4>2
      <4>4. Continues(Of(i), None, device[i], FALSE)
        BY <1>1, <1>2, <2>3, <2>4, <3>2, <4>3, StreamSend
      <4>5. Sorted(i)' /\ Of(i)' = Of(i)
        BY <1>1, <1>2, <2>2, <2>3, <2>4
      <4>6. QED BY <1>1, <4>1, <4>2, <4>4, <4>5 DEF Continues, ToSend, Precedes
    <3>3. QED BY <3>1, <3>2
  <2>5. ASSUME NEW i \in Id, NEW g \in Gen, NEW a \in DOMAIN queue'[i][g], ~queue'[i][g][a].sound
        PROVE  torn'[i]
    <3>1. queue[i][g] \in Seq(Message) /\ queue[n][h] \in Seq(Message) /\ queue \in [Id -> [Gen -> Seq(Message)]]
      BY <1>0 DEF TypeOK
    <3>2. CASE i = n /\ g = h
      <4>1. queue'[i][g] = Append(queue[n][h], pending[n])
        BY <2>2, <3>1, <3>2
      <4>2. CASE a = Len(queue[n][h]) + 1
        <5>1. queue'[i][g][a] = pending[n]
          BY <2>3, <3>1, <4>1, <4>2
        <5>2. ~torn[n] => pending[n].sound
          BY <1>2, <2>3 DEF Continues
        <5>3. QED BY <1>1, <2>5, <3>2, <5>1, <5>2
      <4>3. CASE a # Len(queue[n][h]) + 1
        <5>1. a \in DOMAIN queue[n][h] /\ queue'[i][g][a] = queue[n][h][a]
          BY <2>3, <2>5, <3>1, <4>1, <4>3
        <5>2. QED BY <1>1, <2>5, <3>2, <5>1 DEF Stream
      <4>4. QED BY <4>2, <4>3
    <3>3. CASE ~(i = n /\ g = h)
      <4>1. queue'[i][g] = queue[i][g]
        BY <2>2, <3>1, <3>3
      <4>2. QED BY <1>1, <2>5, <4>1 DEF Stream
    <3>4. QED BY <3>2, <3>3
  <2>6. QED BY <2>4, <2>5 DEF Stream
<1>10. CASE ServePanic
  <2>1. panic' /\ queue' = queue
    BY <1>10 DEF ServePanic, panic
  <2>2. QED BY <1>3, <2>1 DEF Stream
<1>11. QED BY <1>5, <1>6, <1>7, <1>8, <1>9, <1>10 DEF Serve

(* The other goroutines only take messages out of the queues.              *)
LEMMA StreamQueues ==
  ASSUME TypeInv, Stream, UNCHANGED <<rx, pending, serve, device, torn>>,
         \A i \in Id, g \in Gen :
           queue'[i][g] \in {queue[i][g], <<>>} \/ (queue[i][g] # <<>> /\ queue'[i][g] = Tail(queue[i][g]))
  PROVE  Stream'
<1>1. ASSUME NEW i \in Id, ~panic', ~torn'[i]
      PROVE  Sorted(i)' /\ Continues(Of(i), pending[i], device[i], Delivering(i))'
  <2>1. ~panic /\ ~torn[i] /\ Sorted(i)
    BY <1>1 DEF panic, Stream
  <2>2. Of(i)' = Of(i) /\ Delivering(i)' = Delivering(i) /\ Sorted(i)'
    BY <2>1 DEF Of, Delivering, Sorted, Precedes
  <2>3. QED BY <2>1, <2>2, StreamSame
<1>2. ASSUME NEW i \in Id, NEW g \in Gen, NEW a \in DOMAIN queue'[i][g], ~queue'[i][g][a].sound
      PROVE  torn'[i]
  <2>1. queue[i][g] \in Seq(Message)
    BY DEF TypeInv, TypeOK
  <2>2. CASE queue'[i][g] = queue[i][g]
    BY <1>2, <2>2 DEF Stream
  <2>3. CASE queue'[i][g] = <<>>
    BY <1>2, <2>3
  <2>4. CASE queue[i][g] # <<>> /\ queue'[i][g] = Tail(queue[i][g])
    <3>1. a + 1 \in DOMAIN queue[i][g] /\ queue'[i][g][a] = queue[i][g][a + 1]
      BY <1>2, <2>1, <2>4
    <3>2. QED BY <1>2, <3>1 DEF Stream
  <2>5. QED BY <2>2, <2>3, <2>4
<1>3. QED BY <1>1, <1>2 DEF Stream

(* The frames of every device that tore no message stay in order, and only *)
(* a torn message is put together wrongly.                                 *)
LEMMA StreamStep ==
  ASSUME TypeInv, Silent, Stream, [Next]_vars
  PROVE  Stream'
<1>0. queue \in [Id -> [Gen -> Seq(Message)]] /\ gen \in [Id -> Gen]
  BY DEF TypeInv, TypeOK
<1>1. CASE Master
  <2>1. UNCHANGED <<rx, pending, serve, device, torn>> /\ queue' = queue
    BY <1>1 DEF Master, MasterTake, MasterTerminate, MasterRenew, MasterConfigure, deviceVars
  <2>2. QED BY <2>1, StreamQueues
<1>2. ASSUME NEW i \in Id, NEW g \in Gen, Handler(i, g) PROVE Stream'
  <2>1. UNCHANGED <<rx, pending, serve, device, torn>>
    BY <1>2 DEF Handler, HandlerTake, HandlerTold, HandlerExpect, HandlerTimeout, HandlerReport, HandlerClose, deviceVars
  <2>2. CASE HandlerTake(i, g)
    <3>1. queue[i][g] # <<>> /\ queue' = [queue EXCEPT ![i][g] = Tail(queue[i][g])]
      BY <2>2 DEF HandlerTake
    <3>2. QED BY <1>0, <2>1, <3>1, StreamQueues
  <2>3. CASE HandlerExpect(i, g)
    <3>1. queue[i][gen[i]] # <<>> /\ queue' = [queue EXCEPT ![i][gen[i]] = Tail(queue[i][gen[i]])] /\ gen[i] \in Gen
      BY <1>0, <2>3 DEF HandlerExpect
    <3>2. QED BY <1>0, <2>1, <3>1, StreamQueues
  <2>4. CASE HandlerTold(i, g) \/ HandlerTimeout(i, g) \/ HandlerReport(i, g)
    BY <2>1, <2>4, StreamQueues DEF HandlerTold, HandlerTimeout, HandlerReport
  <2>5. CASE HandlerClose(i, g)
    <3>1. queue' = [queue EXCEPT ![i][g] = <<>>]
      BY <2>5 DEF HandlerClose
    <3>2. QED BY <1>0, <2>1, <3>1, StreamQueues
  <2>6. QED BY <1>2, <2>2, <2>3, <2>4, <2>5 DEF Handler
<1>3. CASE UNCHANGED vars
  <2>1. UNCHANGED <<rx, pending, serve, device, torn>> /\ queue' = queue
    BY <1>3 DEF vars, serverVars, deviceVars
  <2>2. QED BY <2>1, StreamQueues
<1>4. QED BY <1>1, <1>2, <1>3, StreamDevice, StreamServe DEF Next
-----------------------------------------------------------------------------
(* A device that has not repeated itself now has not done so before.       *)
LEMMA RepeatedStays ==
  ASSUME TypeInv, [Next]_vars
  PROVE  \A i \in Id : repeated[i] => repeated'[i]
<1>0. repeated \in [Id -> BOOLEAN]
  BY DEF TypeInv, TypeOK
<1>1. ASSUME NEW i \in Id, DeviceAsk(i) PROVE \A j \in Id : repeated[j] => repeated'[j]
  <2>1. repeated' = [repeated EXCEPT ![i] = @ \/ device[i].pc = "asking" \/ offered[i] > 0]
    BY <1>1 DEF DeviceAsk
  <2>2. QED BY <1>0, <2>1, Zenon
<1>2. ASSUME NEW i \in Id, \/ DeviceConfigure(i)
                           \/ DeviceFrame(i)
                           \/ \E kind \in {"boot_ack", "other"}, t \in 1..MaxFrames : DeviceSend(i, kind, t)
      PROVE  repeated' = repeated
  BY <1>2 DEF DeviceConfigure, DeviceSend, DeviceFrame
<1>3. ASSUME Serve \/ Master PROVE repeated' = repeated
  BY <1>3 DEF Serve, ServeDiscard, ServeFrame, ServeRequest, ServeSendRequest, ServeSend, ServePanic,
              Master, MasterTake, MasterTerminate, MasterRenew, MasterConfigure, deviceVars
<1>4. ASSUME NEW i \in Id, NEW g \in Gen, Handler(i, g) PROVE repeated' = repeated
  BY <1>4 DEF Handler, HandlerTake, HandlerTold, HandlerExpect, HandlerTimeout, HandlerReport, HandlerClose, deviceVars
<1>5. CASE UNCHANGED vars
  BY <1>5 DEF vars, deviceVars
<1>6. QED BY <1>1, <1>2, <1>3, <1>4, <1>5 DEF Next, Device

(* What is behind a request when something is transmitted...               *)
LEMMA RxGrows ==
  ASSUME TypeOK, NEW i \in Id, NEW f \in Frame \cup Request, Transmit(f)
  PROVE  /\ InRx(i)' => InRx(i) \/ Asks(f, i)
         /\ NoFrames(i) /\ f.node # i => NoFrames(i)'
         /\ NoneBehind(i) /\ (InRx(i) => f.node # i /\ ~Asks(f, i)) => NoneBehind(i)'
<1>1. \A a \in DOMAIN rx' : \/ a \in DOMAIN rx /\ rx'[a] = rx[a]
                            \/ a = Len(rx) + 1 /\ rx'[a] = f
  BY RxAppend
<1>2. \A a \in DOMAIN rx : a < Len(rx) + 1
  BY RxAppend
<1>3. InRx(i)' => InRx(i) \/ Asks(f, i)
  BY <1>1 DEF InRx, Asks
<1>4. NoFrames(i) /\ f.node # i => NoFrames(i)'
  BY <1>1 DEF NoFrames
<1>5. ASSUME NoneBehind(i), InRx(i) => f.node # i /\ ~Asks(f, i) PROVE NoneBehind(i)'
  <2>1. SUFFICES ASSUME NEW a \in DOMAIN rx', NEW b \in DOMAIN rx', Asks(rx'[a], i), a < b
                 PROVE  rx'[b].node # i /\ ~Asks(rx'[b], i)
    BY DEF NoneBehind, Asks
  <2>2. a \in DOMAIN rx /\ rx'[a] = rx[a]
    <3>1. rx' \in Seq(Frame \cup Request) /\ rx \in Seq(Frame \cup Request)
      BY RxAppend DEF TypeOK
    <3>2. a \in Nat /\ b \in Nat /\ Len(rx) \in Nat
      BY <3>1
    <3>3. CASE a = Len(rx) + 1
      BY <1>1, <1>2, <2>1, <3>2, <3>3
    <3>4. QED BY <1>1, <3>3
  <2>3. InRx(i)
    BY <2>1, <2>2 DEF InRx
  <2>4. CASE b \in DOMAIN rx /\ rx'[b] = rx[b]
    BY <1>5, <2>1, <2>2, <2>4 DEF NoneBehind
  <2>5. CASE rx'[b] = f
    BY <1>5, <2>3, <2>5
  <2>6. QED BY <1>1, <2>4, <2>5
<1>6. QED BY <1>3, <1>4, <1>5

(* ... and when Serve takes the first element of the channel.              *)
LEMMA RxShrinks ==
  ASSUME TypeOK, NEW i \in Id, rx # <<>>, rx' = Tail(rx), NoneBehind(i)
  PROVE  /\ InRx(i)' => InRx(i)
         /\ NoFrames(i) => NoFrames(i)'
         /\ NoneBehind(i)'
         /\ Asks(Head(rx), i) => InRx(i) /\ ~InRx(i)' /\ NoFrames(i)'
         /\ Head(rx).node = i => ~NoFrames(i)
<1>1. 1 \in DOMAIN rx /\ Head(rx) = rx[1]
  BY RxTail
<1>2. \A a \in DOMAIN rx' : a + 1 \in DOMAIN rx /\ rx'[a] = rx[a + 1]
  BY RxTail
<1>3. \A a \in DOMAIN rx' : a \in Nat /\ 1 < a + 1
  <2>1. rx' \in Seq(Frame \cup Request)
    BY RxTail
  <2>2. QED BY <2>1
<1>4. (InRx(i)' => InRx(i)) /\ (NoFrames(i) => NoFrames(i)')
  BY <1>2 DEF InRx, NoFrames, Asks
<1>5. NoneBehind(i)'
  <2>1. SUFFICES ASSUME NEW a \in DOMAIN rx', NEW b \in DOMAIN rx', Asks(rx'[a], i), a < b
                 PROVE  rx'[b].node # i /\ ~Asks(rx'[b], i)
    BY DEF NoneBehind, Asks
  <2>2. a + 1 < b + 1
    BY <1>3, <2>1
  <2>3. QED BY <1>2, <2>1, <2>2 DEF NoneBehind
<1>6. ASSUME Asks(Head(rx), i) PROVE InRx(i) /\ ~InRx(i)' /\ NoFrames(i)'
  <2>1. \A a \in DOMAIN rx' : rx'[a].node # i /\ ~Asks(rx'[a], i)
    BY <1>1, <1>2, <1>3, <1>6 DEF NoneBehind
  <2>2. QED BY <1>1, <1>6, <2>1 DEF InRx, NoFrames, Asks
<1>7. Head(rx).node = i => ~NoFrames(i)
  BY <1>1 DEF NoFrames
<1>8. QED BY <1>4, <1>5, <1>6, <1>7

(* The steps of a device: it asks only when no request is on its way.      *)
LEMMA SilentDevice ==
  ASSUME TypeInv, Silent, NEW j \in Id, Device(j)
  PROVE  Silent'
<1>0. TypeOK /\ Counted
  BY DEF TypeInv
<1>1. serve' = serve /\ requests' = requests /\ master' = master /\ gen' = gen
  BY DEF Device, DeviceAsk, DeviceConfigure, DeviceFrame, DeviceSend, serverVars
<1>2. \A i \in Id : repeated[i] => repeated'[i]
  <2>1. Next
    BY DEF Next
  <2>2. QED BY <2>1, RepeatedStays
<1>3. /\ \A i \in Id : InServe(i)' = InServe(i) /\ InMaster(i)' = InMaster(i) /\ Delivering(i)' = Delivering(i)
      /\ \A i \in Id : InQueue(i)' = InQueue(i)
  BY <1>1 DEF InServe, InMaster, Delivering, InQueue
<1>4. CASE DeviceAsk(j)
  <2>1. /\ Transmit([node |-> 0, from |-> j]) /\ offered' = offered
        /\ device' = [device EXCEPT ![j].pc = "asking", ![j].k = 0, ![j].t = 0]
        /\ repeated' = [repeated EXCEPT ![j] = @ \/ device[j].pc = "asking" \/ offered[j] > 0]
    BY <1>4 DEF DeviceAsk
  <2>2. /\ device'[j].pc = "asking" /\ device'[j].t = 0
        /\ \A i \in Id \ {j} : device'[i] = device[i]
    BY <1>0, <2>1 DEF TypeOK, DeviceState
  <2>3. PICK f \in Request : f = [node |-> 0, from |-> j]
    BY DEF Request
  <2>4. Transmit(f) /\ Asks(f, j) /\ \A i \in Id : f.node # i /\ (i # j => ~Asks(f, i))
    BY <2>1, <2>3, ControllerAssumption DEF Asks
  <2>5. ASSUME NEW i \in Id, ~repeated'[i] PROVE OneRequest(i)'
    <3>1. OneRequest(i)
      BY <1>2, <2>5 DEF Silent
    <3>2. /\ InRx(i)' => InRx(i) \/ Asks(f, i)
          /\ NoFrames(i) => NoFrames(i)'
          /\ NoneBehind(i) /\ (InRx(i) => ~Asks(f, i)) => NoneBehind(i)'
      BY <1>0, <2>4, RxGrows
    <3>3. Taken(i)' = Taken(i)
      BY <1>3, <2>1 DEF Taken
    <3>4. CASE i = j
      <4>1. device[i].pc # "asking"
        <5>1. repeated \in [Id -> BOOLEAN]
          BY <1>0 DEF TypeOK
        <5>2. QED BY <2>1, <2>5, <3>4, <5>1, Zenon
      <4>2. ~InRx(i) /\ ~Taken(i)
        BY <3>1, <4>1 DEF OneRequest
      <4>3. ~InServe(i) /\ ~InQueue(i) /\ ~InMaster(i) /\ ~(offered[i] > 0)
        BY <4>2 DEF Taken
      <4>4. QED BY <1>1, <1>3, <2>1, <2>2, <3>1, <3>2, <3>3, <3>4, <4>2, <4>3 DEF OneRequest
    <3>5. CASE i # j
      <4>1. ~Asks(f, i) /\ device'[i] = device[i]
        BY <2>2, <2>4, <3>5
      <4>2. QED BY <1>1, <1>3, <2>1, <3>1, <3>2, <3>3, <4>1 DEF OneRequest
    <3>6. QED BY <3>4, <3>5
  <2>6. \A i \in Id : device'[i].pc = "asking" => device'[i].t = 0
    BY <2>2 DEF Silent
  <2>7. QED BY <2>5, <2>6 DEF Silent
<1>5. ASSUME NEW kind, NEW t, device' = StartMessage(j, kind, t), rx' = rx,
             \A i \in Id \ {j} : offered'[i] = offered[i],
             ~repeated'[j] => ~InRx(j)' /\ ~Taken(j)' /\ offered'[j] <= 1
      PROVE  Silent'
  <2>1. /\ device'[j].pc = "up"
        /\ \A i \in Id \ {j} : device'[i] = device[i]
    BY <1>0, <1>5 DEF TypeOK, StartMessage
  <2>2. \A i \in Id : InRx(i)' = InRx(i) /\ (NoFrames(i)' <=> NoFrames(i)) /\ (NoneBehind(i)' <=> NoneBehind(i))
    BY <1>5 DEF InRx, NoFrames, NoneBehind, Asks
  <2>3. ASSUME NEW i \in Id, ~repeated'[i] PROVE OneRequest(i)'
    <3>1. OneRequest(i)
      BY <1>2, <2>3 DEF Silent
    <3>2. CASE i = j
      <4>1. ~InServe(i)' /\ ~InQueue(i)' /\ ~InMaster(i)' /\ ~InRx(i)' /\ ~Taken(i)' /\ offered'[i] <= 1
        BY <1>5, <2>3, <3>2 DEF Taken
      <4>2. QED BY <1>1, <1>3, <2>2, <3>1, <4>1 DEF OneRequest
    <3>3. CASE i # j
      <4>1. offered'[i] = offered[i] /\ device'[i] = device[i]
        BY <1>5, <2>1, <3>3
      <4>2. Taken(i)' <=> Taken(i)
        BY <1>3, <4>1 DEF Taken
      <4>3. QED BY <1>1, <1>3, <2>2, <3>1, <4>1, <4>2 DEF OneRequest
    <3>4. QED BY <3>2, <3>3
  <2>4. \A i \in Id : device'[i].pc = "asking" => device'[i].t = 0
    BY <2>1 DEF Silent
  <2>5. QED BY <2>3, <2>4 DEF Silent
<1>6. CASE DeviceConfigure(j)
  <2>1. /\ offered[j] > 0 /\ offered' = [offered EXCEPT ![j] = @ - 1] /\ rx' = rx
        /\ device' = StartMessage(j, "configure_ack", 1)
    BY <1>6 DEF DeviceConfigure
  <2>2. offered'[j] = offered[j] - 1 /\ (\A i \in Id \ {j} : offered'[i] = offered[i]) /\ offered[j] \in Nat
    BY <1>0, <2>1, Numbers DEF TypeOK
  <2>3. ASSUME ~repeated'[j] PROVE ~InRx(j)' /\ ~Taken(j)' /\ offered'[j] <= 1
    <3>1. OneRequest(j) /\ Taken(j)
      BY <1>2, <2>1, <2>3 DEF Silent, Taken
    <3>2. ~InRx(j) /\ ~InServe(j) /\ ~InQueue(j) /\ ~InMaster(j) /\ offered[j] <= 1
      BY <2>1, <2>2, <3>1 DEF OneRequest
    <3>3. ~InRx(j)'
      BY <2>1, <3>2 DEF InRx, Asks
    <3>4. QED BY <1>3, <2>1, <2>2, <3>2, <3>3 DEF Taken
  <2>4. QED BY <1>5, <2>1, <2>2, <2>3
<1>7. ASSUME NEW kind, NEW t, DeviceSend(j, kind, t) PROVE Silent'
  <2>1. device[j].pc = "up" /\ offered' = offered /\ rx' = rx /\ device' = StartMessage(j, kind, t)
    BY <1>7 DEF DeviceSend
  <2>2. ASSUME ~repeated'[j] PROVE ~InRx(j)' /\ ~Taken(j)' /\ offered'[j] <= 1
    <3>1. OneRequest(j)
      BY <1>2, <2>2 DEF Silent
    <3>2. ~InRx(j) /\ ~Taken(j) /\ offered[j] <= 1
      BY <2>1, <3>1 DEF OneRequest
    <3>3. ~InRx(j)'
      BY <2>1, <3>2 DEF InRx, Asks
    <3>4. QED BY <1>3, <2>1, <3>2, <3>3 DEF Taken
  <2>3. QED BY <1>5, <2>1, <2>2
<1>8. CASE DeviceFrame(j)
  <2> DEFINE F == [node |-> j, kind |-> device[j].kind, no |-> device[j].no, k |-> device[j].k + 1, t |-> device[j].t]
  <2>1. Sending(j) /\ Transmit(F) /\ device' = [device EXCEPT ![j].k = @ + 1] /\ offered' = offered
    BY <1>8 DEF DeviceFrame
  <2>2. device[j].k < device[j].t /\ device[j].t > 0 /\ device[j].no > 0 /\ device[j] \in DeviceState
    BY <1>0, <2>1, Numbers DEF Sending, Counted
  <2>3. F \in Frame
    <3>1. device[j].k + 1 \in 1..MaxFrames /\ device[j].t \in 1..MaxFrames /\ device[j].no \in Number
      BY <2>2, Constants DEF DeviceState
    <3>2. QED BY <2>2, <3>1 DEF Frame, DeviceState
  <2>4. PICK f \in Frame : f = F
    BY <2>3
  <2>5. Transmit(f) /\ f.node = j
    BY <2>1, <2>4
  <2> HIDE DEF F
  <2>6. \A i \in Id : device'[i].pc = device[i].pc /\ device'[i].t = device[i].t
    <3>1. device \in [Id -> DeviceState] /\ device' = [device EXCEPT ![j] = [device[j] EXCEPT !.k = device[j].k + 1]]
      BY <1>0, <2>1 DEF TypeOK
    <3>2. \A x : [device[j] EXCEPT !.k = x].pc = device[j].pc /\ [device[j] EXCEPT !.k = x].t = device[j].t
      BY <2>2 DEF DeviceState
    <3>3. QED BY <3>1, <3>2
  <2>7. \A i \in Id : ~Asks(f, i)
    BY <2>5, ControllerAssumption DEF Asks
  <2>8. device[j].pc # "asking"
    BY <1>0, <2>2, Numbers DEF Silent
  <2>9. ASSUME NEW i \in Id, ~repeated'[i] PROVE OneRequest(i)'
    <3>1. OneRequest(i)
      BY <1>2, <2>9 DEF Silent
    <3>2. i = j => ~InRx(i) /\ ~Taken(i)
      BY <2>8, <3>1 DEF OneRequest
    <3>3. Taken(i)' <=> Taken(i)
      BY <1>3, <2>1 DEF Taken
    <3>4. /\ InRx(i)' => InRx(i)
          /\ NoFrames(i) /\ f.node # i => NoFrames(i)'
          /\ NoneBehind(i) /\ (InRx(i) => f.node # i) => NoneBehind(i)'
      BY <1>0, <2>5, <2>7, RxGrows
    <3>5. NoneBehind(i)' /\ (Taken(i) => NoFrames(i)')
      BY <2>5, <3>1, <3>2, <3>4 DEF OneRequest
    <3>6. QED BY <1>1, <1>3, <2>1, <2>6, <3>1, <3>3, <3>4, <3>5 DEF OneRequest
  <2>10. QED BY <2>6, <2>9 DEF Silent
<1>9. QED BY <1>4, <1>6, <1>7, <1>8 DEF Device

(* The stages of the way a request goes, as Serve sees them.               *)
LEMMA SilentServe ==
  ASSUME TypeInv, Silent, Serve
  PROVE  Silent'
<1>0. TypeOK /\ Counted
  BY DEF TypeInv
<1>1. gen' = gen /\ device' = device /\ offered' = offered /\ repeated' = repeated
  BY DEF Serve, ServeDiscard, ServeFrame, ServeRequest, ServeSendRequest, ServeSend, ServePanic, deviceVars, serverVars
<1>2. SUFFICES ASSUME NEW i \in Id, OneRequest(i) PROVE OneRequest(i)'
  BY <1>1 DEF Silent
<1>3. NoneBehind(i)
  BY <1>2 DEF OneRequest
<1>4. rx' = rx => /\ InRx(i)' <=> InRx(i)
                  /\ NoFrames(i)' <=> NoFrames(i)
                  /\ NoneBehind(i)'
  BY <1>3 DEF InRx, NoFrames, NoneBehind, Asks
<1>5. /\ master' = master => (InMaster(i)' <=> InMaster(i))
      /\ requests' = requests => (InQueue(i)' <=> InQueue(i))
  BY DEF InMaster, InQueue
<1>6. \A a, b \in DOMAIN requests : requests[a] = i /\ requests[b] = i => a = b
  BY <1>2 DEF OneRequest
<1>7. CASE ServeDiscard
  <2>1. rx # <<>> /\ rx' = Tail(rx) /\ serve' = serve /\ master' = master /\ requests' = requests
    BY <1>7 DEF ServeDiscard, serverVars
  <2>2. (InRx(i)' => InRx(i)) /\ (NoFrames(i) => NoFrames(i)') /\ NoneBehind(i)'
    BY <1>0, <1>3, <2>1, RxShrinks
  <2>3. (InServe(i)' <=> InServe(i)) /\ (Delivering(i)' <=> Delivering(i)) /\ (Taken(i)' <=> Taken(i))
    BY <1>1, <1>5, <2>1 DEF InServe, Delivering, Taken
  <2>4. QED BY <1>1, <1>2, <1>5, <2>1, <2>2, <2>3 DEF OneRequest
<1>8. CASE ServeFrame
  <2>1. PICK f \in Frame : /\ f = Head(rx) /\ f.node \in Id
                           /\ serve' = IF Last(f) THEN [pc |-> "send", node |-> f.node, gen |-> gen[f.node]] ELSE serve
    BY <1>0, <1>8, RxTail, RxFacts DEF ServeFrame
  <2>2. serve.pc = "idle" /\ rx # <<>> /\ rx' = Tail(rx) /\ master' = master /\ requests' = requests
    BY <1>8 DEF ServeFrame
  <2>3. (InRx(i)' => InRx(i)) /\ (NoFrames(i) => NoFrames(i)') /\ NoneBehind(i)' /\ (f.node = i => ~NoFrames(i))
    BY <1>0, <1>3, <2>1, <2>2, RxShrinks
  <2>4. ~InServe(i) /\ ~InServe(i)' /\ (Delivering(i)' => f.node = i /\ serve'.gen = gen[i])
    BY <2>1, <2>2 DEF InServe, Delivering
  <2>5. Taken(i)' <=> Taken(i)
    BY <1>1, <1>5, <2>2, <2>4 DEF Taken
  <2>6. QED BY <1>1, <1>2, <1>5, <2>2, <2>3, <2>4, <2>5 DEF OneRequest
<1>9. CASE ServeRequest
  <2>1. /\ serve.pc = "idle" /\ rx # <<>> /\ rx' = Tail(rx) /\ master' = master /\ requests' = requests
        /\ Head(rx).node = 0 /\ serve'.pc = "request" /\ serve'.from = Head(rx).from
    BY <1>9 DEF ServeRequest
  <2>2. /\ (InRx(i)' => InRx(i)) /\ (NoFrames(i) => NoFrames(i)') /\ NoneBehind(i)'
        /\ Asks(Head(rx), i) => InRx(i) /\ ~InRx(i)' /\ NoFrames(i)'
    BY <1>0, <1>3, <2>1, RxShrinks
  <2>3. ~InServe(i) /\ (InServe(i)' <=> Asks(Head(rx), i)) /\ ~Delivering(i)'
    BY <2>1 DEF InServe, Delivering, Asks
  <2>4. Taken(i)' <=> Taken(i) \/ InServe(i)'
    BY <1>1, <1>5, <2>1, <2>3 DEF Taken
  <2>5. CASE Asks(Head(rx), i)
    <3>1. InRx(i) /\ ~InRx(i)' /\ NoFrames(i)' /\ ~Taken(i)
      BY <1>2, <2>2, <2>5 DEF OneRequest
    <3>2. ~InQueue(i) /\ ~InMaster(i) /\ ~(offered[i] > 0) /\ offered[i] = 0
      <4>1. ~InQueue(i) /\ ~InMaster(i) /\ ~(offered[i] > 0)
        BY <3>1 DEF Taken
      <4>2. QED BY <1>0, <4>1, Numbers
    <3>3. QED BY <1>1, <1>2, <1>5, <2>1, <2>2, <2>3, <3>1, <3>2 DEF OneRequest
  <2>6. CASE ~Asks(Head(rx), i)
    BY <1>1, <1>2, <1>5, <2>1, <2>2, <2>3, <2>4, <2>6 DEF OneRequest
  <2>7. QED BY <2>5, <2>6
<1>10. CASE ServeSendRequest
  <2>1. /\ serve.pc = "request" /\ requests' = Append(requests, serve.from) /\ serve'.pc = "idle" /\ rx' = rx
        /\ master' = master
    BY <1>10 DEF ServeSendRequest
  <2>2. requests \in Seq(Id) /\ serve.from \in Id
    BY <1>0, <2>1, Fields DEF TypeOK
  <2>3. /\ \A a \in DOMAIN requests' : \/ a \in DOMAIN requests /\ requests'[a] = requests[a]
                                       \/ a = Len(requests) + 1 /\ requests'[a] = serve.from
        /\ \A a \in DOMAIN requests : a \in DOMAIN requests' /\ requests'[a] = requests[a]
        /\ Len(requests) + 1 \in DOMAIN requests' /\ requests'[Len(requests) + 1] = serve.from
    <3>1. DOMAIN requests' = 1..(Len(requests) + 1) /\ DOMAIN requests = 1..Len(requests) /\ Len(requests) \in Nat
      BY <2>1, <2>2, AppendProperties
    <3>2. requests'[Len(requests) + 1] = serve.from /\ \A a \in DOMAIN requests : requests'[a] = requests[a]
      BY <2>1, <2>2, AppendProperties
    <3>3. QED BY <3>1, <3>2
  <2>4. InServe(i) <=> serve.from = i
    BY <2>1 DEF InServe
  <2>5. InQueue(i)' <=> InQueue(i) \/ InServe(i)
    BY <2>3, <2>4 DEF InQueue
  <2>6. ~InServe(i)' /\ ~Delivering(i)'
    BY <2>1 DEF InServe, Delivering
  <2>7. Taken(i)' <=> Taken(i)
    BY <1>1, <1>5, <2>1, <2>5, <2>6 DEF Taken
  <2>8. ASSUME NEW a \in DOMAIN requests', NEW b \in DOMAIN requests', requests'[a] = i, requests'[b] = i
        PROVE  a = b
    <3>1. CASE InServe(i)
      <4>1. ~InQueue(i)
        BY <1>2, <3>1 DEF OneRequest
      <4>2. QED BY <2>3, <2>8, <4>1 DEF InQueue
    <3>2. CASE ~InServe(i)
      BY <1>6, <2>3, <2>4, <2>8, <3>2
    <3>3. QED BY <3>1, <3>2
  <2>9. InServe(i) => ~InMaster(i) /\ offered[i] = 0 /\ ~InRx(i)
    BY <1>2 DEF OneRequest, Taken
  <2>10. QED BY <1>1, <1>2, <1>4, <1>5, <2>1, <2>5, <2>6, <2>7, <2>8, <2>9 DEF OneRequest
<1>11. CASE ServeSend
  <2>1. serve.pc = "send" /\ serve'.pc = "idle" /\ rx' = rx /\ requests' = requests /\ master' = master
    BY <1>11 DEF ServeSend
  <2>2. ~InServe(i)' /\ ~InServe(i) /\ ~Delivering(i)'
    BY <2>1 DEF InServe, Delivering
  <2>3. Taken(i)' <=> Taken(i)
    BY <1>1, <1>5, <2>1, <2>2 DEF Taken
  <2>4. QED BY <1>1, <1>2, <1>4, <1>5, <2>1, <2>2, <2>3 DEF OneRequest
<1>12. CASE ServePanic
  <2>1. serve.pc = "send" /\ serve'.pc = "panic" /\ rx' = rx /\ requests' = requests /\ master'.pc = "panic"
    BY <1>12 DEF ServePanic
  <2>2. ~InServe(i)' /\ ~InServe(i) /\ ~Delivering(i)' /\ ~InMaster(i)'
    BY <2>1 DEF InServe, Delivering, InMaster
  <2>3. Taken(i)' => Taken(i)
    BY <1>1, <1>5, <2>1, <2>2 DEF Taken
  <2>4. QED BY <1>1, <1>2, <1>4, <1>5, <2>1, <2>2, <2>3 DEF OneRequest
<1>13. QED BY <1>7, <1>8, <1>9, <1>10, <1>11, <1>12 DEF Serve

(* The same for the master.                                                *)
LEMMA SilentMaster ==
  ASSUME TypeInv, Silent, Master
  PROVE  Silent'
<1>0. TypeOK /\ Counted
  BY DEF TypeInv
<1>1. device' = device /\ repeated' = repeated /\ rx' = rx /\ serve' = serve
  BY DEF Master, MasterTake, MasterTerminate, MasterRenew, MasterConfigure, deviceVars
<1>2. SUFFICES ASSUME NEW i \in Id, OneRequest(i) PROVE OneRequest(i)'
  BY <1>1 DEF Silent
<1>3. NoneBehind(i)
  BY <1>2 DEF OneRequest
<1>4. /\ InRx(i)' <=> InRx(i)
      /\ NoFrames(i)' <=> NoFrames(i)
      /\ NoneBehind(i)'
      /\ InServe(i)' <=> InServe(i)
      /\ Delivering(i)' <=> Delivering(i)
      /\ requests' = requests => (InQueue(i)' <=> InQueue(i))
  BY <1>1, <1>3 DEF InRx, NoFrames, NoneBehind, Asks, InServe, Delivering, InQueue
<1>5. offered[i] \in Nat
  BY <1>0, Numbers
<1>6. CASE MasterTake
  <2>1. /\ requests # <<>> /\ requests' = Tail(requests) /\ gen' = gen /\ offered' = offered
        /\ master.pc = "idle" /\ master'.pc \in {"terminate", "renew"} /\ master'.id = Head(requests)
    BY <1>6 DEF MasterTake, deviceVars
  <2>2. requests \in Seq(Id) /\ requests # <<>>
    BY <1>0, <2>1 DEF TypeOK
  <2>3. /\ 1 \in DOMAIN requests /\ Head(requests) = requests[1]
        /\ \A a \in DOMAIN requests' : a + 1 \in DOMAIN requests /\ requests'[a] = requests[a + 1] /\ a + 1 # 1 /\ a \in Nat
    BY <2>1, <2>2
  <2>4. ~InMaster(i) /\ (InMaster(i)' <=> Head(requests) = i)
    BY <2>1 DEF InMaster
  <2>5. InMaster(i)' => InQueue(i)
    BY <2>3, <2>4 DEF InQueue
  <2>6. InQueue(i)' => InQueue(i) /\ ~InMaster(i)'
    <3>1. \A a, b \in DOMAIN requests : requests[a] = i /\ requests[b] = i => a = b
      BY <1>2 DEF OneRequest
    <3>2. QED BY <2>3, <2>4, <3>1 DEF InQueue
  <2>7. \A a, b \in DOMAIN requests' : requests'[a] = i /\ requests'[b] = i => a = b
    <3>1. \A a, b \in DOMAIN requests : requests[a] = i /\ requests[b] = i => a = b
      BY <1>2 DEF OneRequest
    <3>2. SUFFICES ASSUME NEW a \in DOMAIN requests', NEW b \in DOMAIN requests', requests'[a] = i, requests'[b] = i
                   PROVE  a = b
      OBVIOUS
    <3>3. a + 1 = b + 1 /\ a \in Nat /\ b \in Nat
      BY <2>3, <3>1, <3>2
    <3>4. QED BY <3>3
  <2>8. Taken(i)' => Taken(i)
    BY <1>4, <2>1, <2>5, <2>6 DEF Taken
  <2>9. QED BY <1>1, <1>2, <1>4, <2>1, <2>4, <2>5, <2>6, <2>7, <2>8 DEF OneRequest
<1>7. CASE MasterTerminate
  <2>1. /\ master.pc = "terminate" /\ master' = [master EXCEPT !.pc = "renew"]
        /\ requests' = requests /\ gen' = gen /\ offered' = offered
    BY <1>7 DEF MasterTerminate, deviceVars
  <2>2. master'.pc = "renew" /\ master'.id = master.id
    BY <1>0, <2>1 DEF TypeOK
  <2>3. InMaster(i)' <=> InMaster(i)
    BY <2>1, <2>2 DEF InMaster
  <2>4. Taken(i)' <=> Taken(i)
    BY <1>4, <2>1, <2>3 DEF Taken
  <2>5. QED BY <1>1, <1>2, <1>4, <2>1, <2>3, <2>4 DEF OneRequest
<1>8. CASE MasterRenew
  <2>1. /\ master.pc = "renew" /\ master' = [master EXCEPT !.pc = "configure"]
        /\ gen' = [gen EXCEPT ![master.id] = @ + 1]
        /\ requests' = requests /\ offered' = offered
    BY <1>8 DEF MasterRenew, deviceVars
  <2>2. master'.pc = "configure" /\ master'.id = master.id /\ master.id \in Id
    BY <1>0, <2>1, Fields DEF TypeOK
  <2>3. InMaster(i)' <=> InMaster(i)
    BY <2>1, <2>2 DEF InMaster
  <2>4. Taken(i)' <=> Taken(i)
    BY <1>4, <2>1, <2>3 DEF Taken
  <2>5. gen'[i] = gen[i] \/ InMaster(i)
    BY <1>0, <2>1, <2>2 DEF TypeOK, InMaster
  <2>6. Delivering(i) => ~InMaster(i)
    BY <1>2 DEF OneRequest, Taken
  <2>7. QED BY <1>1, <1>2, <1>4, <2>1, <2>3, <2>4, <2>5, <2>6 DEF OneRequest
<1>9. CASE MasterConfigure
  <2>1. /\ master.pc = "configure" /\ master'.pc = "idle" /\ gen' = gen /\ requests' = requests
        /\ offered' = [offered EXCEPT ![master.id] = @ + 1]
    BY <1>9 DEF MasterConfigure
  <2>2. master.id \in Id /\ offered \in [Id -> Nat]
    BY <1>0, <2>1, Fields DEF TypeOK
  <2>3. ~InMaster(i)' /\ (InMaster(i) <=> i = master.id)
    BY <2>1 DEF InMaster
  <2>4. CASE i = master.id
    <3>1. InMaster(i) /\ offered[i] = 0 /\ ~InServe(i) /\ ~InQueue(i) /\ ~InRx(i) /\ Taken(i)
      BY <1>2, <2>3, <2>4 DEF OneRequest, Taken
    <3>2. offered'[i] = 1
      BY <2>1, <2>2, <2>4, <3>1
    <3>3. QED BY <1>1, <1>2, <1>4, <2>1, <2>3, <3>1, <3>2 DEF OneRequest
  <2>5. CASE i # master.id
    <3>1. offered'[i] = offered[i]
      BY <2>1, <2>2, <2>5
    <3>2. Taken(i)' <=> Taken(i)
      BY <1>4, <2>1, <2>3, <2>5, <3>1 DEF Taken
    <3>3. QED BY <1>1, <1>2, <1>4, <2>1, <2>3, <2>5, <3>1, <3>2 DEF OneRequest
  <2>6. QED BY <2>4, <2>5
<1>10. QED BY <1>6, <1>7, <1>8, <1>9 DEF Master

(* A device that does not repeat itself has one request on its way.        *)
LEMMA SilentStep ==
  ASSUME TypeInv, Silent, [Next]_vars
  PROVE  Silent'
<1>1. ASSUME UNCHANGED <<rx, serve, requests, master, gen, device, offered, repeated>> PROVE Silent'
  <2>1. ASSUME NEW i \in Id, OneRequest(i) PROVE OneRequest(i)'
    BY <1>1, <2>1 DEF OneRequest, InRx, Asks, InServe, InQueue, InMaster, Taken, NoneBehind, NoFrames, Delivering
  <2>2. QED BY <1>1, <2>1 DEF Silent
<1>2. ASSUME NEW i \in Id, NEW g \in Gen, Handler(i, g) PROVE Silent'
  <2>1. UNCHANGED <<rx, serve, requests, master, gen, device, offered, repeated>>
    BY <1>2 DEF Handler, HandlerTake, HandlerTold, HandlerExpect, HandlerTimeout, HandlerReport, HandlerClose, deviceVars
  <2>2. QED BY <1>1, <2>1
<1>3. CASE UNCHANGED vars
  BY <1>1, <1>3 DEF vars, serverVars, deviceVars
<1>4. QED BY <1>2, <1>3, SilentDevice, SilentServe, SilentMaster DEF Next
-----------------------------------------------------------------------------
(* A goroutine is started only when the one before it has been told to     *)
(* stop, and only the queue of one that has been told so is closed.        *)
LEMMA ReplacedStep ==
  ASSUME TypeInv, OneHandler, Replaced, [Next]_vars
  PROVE  OneHandler' /\ Replaced'
<1>0. /\ TypeOK
      /\ handler \in [Id -> [Gen -> {"none", "select", "expect", "tell", "report", "closing"}]]
      /\ gen \in [Id -> Gen] /\ closed \in [Id -> SUBSET Gen]
      /\ \A i \in Id : gen[i] \in Nat
      /\ 0 \in Gen /\ \A g \in Gen : g \in Nat
  <2>1. TypeOK
    BY DEF TypeInv
  <2>2. 0 \in Gen /\ \A g \in Gen : g \in Nat
    BY Constants DEF Gen
  <2>3. QED BY <2>1, <2>2, Numbers DEF TypeOK
<1>1. ASSUME UNCHANGED <<handler, gen, closed, master, serve>> PROVE OneHandler' /\ Replaced'
  BY <1>1 DEF OneHandler, Replaced, Renewing, panic
<1>2. ASSUME NEW i \in Id, Device(i) PROVE OneHandler' /\ Replaced'
  <2>1. UNCHANGED serverVars
    BY <1>2 DEF Device, DeviceAsk, DeviceConfigure, DeviceFrame, DeviceSend
  <2>2. QED BY <1>1, <2>1 DEF serverVars
<1>3. CASE UNCHANGED vars
  BY <1>1, <1>3 DEF vars, serverVars
<1>4. CASE ServeDiscard \/ ServeFrame \/ ServeRequest \/ ServeSendRequest \/ ServeSend
  <2>1. UNCHANGED <<handler, gen, closed, master>>
    BY <1>4 DEF ServeDiscard, ServeFrame, ServeRequest, ServeSendRequest, ServeSend, serverVars
  <2>2. ~panic
    BY <1>4 DEF ServeDiscard, ServeFrame, ServeRequest, ServeSendRequest, ServeSend, panic
  <2>3. QED BY <2>1, <2>2 DEF OneHandler, Replaced, Renewing
<1>5. CASE ServePanic
  <2>1. /\ serve.pc = "send" /\ serve'.pc = "panic" /\ master'.pc = "panic" /\ gen' = gen /\ closed' = closed
        /\ handler' = [i \in Id |-> [g \in Gen |-> "none"]]
    BY <1>5 DEF ServePanic
  <2>2. \A i \in Id, g \in Gen : handler'[i][g] = "none"
    BY <2>1
  <2>3. panic' /\ \A i \in Id : ~Renewing(i)'
    BY <2>1 DEF panic, Renewing
  <2>4. QED BY <1>0, <2>1, <2>2, <2>3 DEF OneHandler, Replaced, Running
<1>6. CASE MasterTake
  <2>1. /\ requests # <<>> /\ gen' = gen /\ closed' = closed /\ handler' = handler /\ serve' = serve
        /\ master.pc = "idle" /\ master'.id = Head(requests) /\ Head(requests) \in Id
        /\ master'.pc = "renew" => ~running(Head(requests))
    BY <1>0, <1>6 DEF MasterTake, TypeOK
  <2>2. \A i \in Id : ~Renewing(i) /\ (Renewing(i)' => gen[i] = 0)
    BY <2>1 DEF Renewing, running
  <2>3. QED BY <1>0, <2>1, <2>2 DEF OneHandler, Replaced, Running, panic
<1>7. CASE MasterTerminate
  <2>1. PICK i \in Id : i = master.id
    BY <1>0, <1>7, Fields DEF MasterTerminate
  <2>2. /\ master.pc = "terminate" /\ handler[i][gen[i]] = "select" /\ gen' = gen /\ closed' = closed /\ serve' = serve
        /\ handler' = [handler EXCEPT ![i][gen[i]] = "closing"]
        /\ master' = [master EXCEPT !.pc = "renew"]
    BY <1>7, <2>1 DEF MasterTerminate
  <2>3. master'.pc = "renew" /\ master'.id = i
    BY <1>0, <2>1, <2>2 DEF TypeOK
  <2>4. \A j \in Id : ~Renewing(j) /\ (Renewing(j)' <=> j = i)
    BY <2>2, <2>3 DEF Renewing
  <2>5. \A j \in Id, g \in Gen : handler'[j][g] = IF j = i /\ g = gen[i] THEN "closing" ELSE handler[j][g]
    BY <1>0, <2>2
  <2>6. gen[i] # 0
    BY <1>0, <2>2 DEF Replaced
  <2>7. OneHandler'
    BY <2>2, <2>5 DEF OneHandler, Running
  <2>8. \A j \in Id : Renewing(j)' => handler'[j][gen'[j]] \notin Running
    BY <1>0, <2>2, <2>4, <2>5 DEF Running
  <2>9. QED BY <1>0, <2>2, <2>4, <2>5, <2>6, <2>7, <2>8 DEF Replaced, panic
<1>8. CASE MasterRenew
  <2>1. PICK i \in Id : i = master.id
    BY <1>0, <1>8, Fields DEF MasterRenew
  <2>2. /\ master.pc = "renew" /\ gen[i] < MaxAsked /\ gen' = [gen EXCEPT ![i] = gen[i] + 1]
        /\ handler' = [handler EXCEPT ![i][gen[i] + 1] = "select"] /\ closed' = closed /\ serve' = serve
        /\ master' = [master EXCEPT !.pc = "configure"]
    BY <1>8, <2>1 DEF MasterRenew
  <2>3. gen[i] + 1 \in Gen /\ gen[i] + 1 # 0
    BY <1>0, <2>2, Constants DEF Gen
  <2>4. master'.pc = "configure"
    BY <1>0, <2>2 DEF TypeOK
  <2>5. \A j \in Id : ~Renewing(j)' /\ (Renewing(j) <=> j = i)
    BY <2>1, <2>2, <2>4 DEF Renewing
  <2>6. \A j \in Id, g \in Gen : handler'[j][g] = IF j = i /\ g = gen[i] + 1 THEN "select" ELSE handler[j][g]
    BY <1>0, <2>2, <2>3
  <2>7. gen'[i] = gen[i] + 1 /\ \A j \in Id \ {i} : gen'[j] = gen[j]
    BY <1>0, <2>2
  <2>8. handler[i][gen[i]] \notin Running
    BY <2>5 DEF Replaced
  <2>9. OneHandler'
    <3>1. \A g \in Gen : handler'[i][g] \in Running => g = gen'[i]
      BY <2>6, <2>7, <2>8 DEF OneHandler
    <3>2. \A j \in Id \ {i}, g \in Gen : handler'[j][g] = handler[j][g]
      BY <2>6
    <3>3. QED BY <2>7, <3>1, <3>2 DEF OneHandler
  <2>10. Replaced'
    <3>1. \A j \in Id : handler'[j][0] = "none"
      BY <1>0, <2>3, <2>6 DEF Replaced
    <3>2. \A j \in Id, g \in Gen : g \in closed[j] \/ handler[j][g] = "closing" =>
            g < gen[j] \/ (g = gen[j] /\ (j = i \/ panic))
      BY <2>5 DEF Replaced
    <3>3. \A j \in Id, g \in Gen : handler'[j][g] = "closing" => handler[j][g] = "closing"
      BY <2>6
    <3>4. \A g \in Gen : g \in closed[i] \/ handler[i][g] = "closing" => g < gen[i] + 1
      BY <1>0, <3>2
    <3>5. \A g \in Gen : g \in closed'[i] \/ handler'[i][g] = "closing" => g < gen'[i]
      BY <2>2, <2>7, <3>3, <3>4
    <3>6. \A j \in Id \ {i}, g \in Gen : g \in closed'[j] \/ handler'[j][g] = "closing" =>
            g < gen'[j] \/ (g = gen'[j] /\ panic')
      BY <2>2, <2>7, <3>2, <3>3 DEF panic
    <3>7. QED BY <2>5, <3>1, <3>5, <3>6 DEF Replaced
  <2>11. QED BY <2>9, <2>10
<1>9. CASE MasterConfigure
  <2>1. UNCHANGED <<handler, gen, closed, serve>> /\ master.pc = "configure" /\ master'.pc = "idle"
    BY <1>9 DEF MasterConfigure
  <2>2. \A i \in Id : ~Renewing(i)' /\ ~Renewing(i)
    BY <2>1 DEF Renewing
  <2>3. QED BY <2>1, <2>2 DEF OneHandler, Replaced, panic
<1>10. ASSUME NEW i \in Id, NEW g \in Gen, Handler(i, g) PROVE OneHandler' /\ Replaced'
  <2>1. gen' = gen /\ master' = master /\ serve' = serve
    BY <1>10 DEF Handler, HandlerTake, HandlerTold, HandlerExpect, HandlerTimeout, HandlerReport, HandlerClose
  <2>2. \A j \in Id : Renewing(j)' <=> Renewing(j)
    BY <2>1 DEF Renewing
  <2>3. panic' <=> panic
    BY <2>1 DEF panic
  <2>4. ASSUME NEW l \in Running, handler[i][g] \in Running, closed' = closed,
               handler' = [handler EXCEPT ![i][g] = l]
        PROVE  OneHandler' /\ Replaced'
    <3>1. \A j \in Id, h \in Gen : handler'[j][h] = IF j = i /\ h = g THEN l ELSE handler[j][h]
      BY <1>0, <2>4
    <3>2. g = gen[i] /\ ~Renewing(i)
      BY <2>4 DEF OneHandler, Replaced
    <3>3. handler[i][0] = "none" /\ "none" \notin Running /\ l # "closing"
      BY <2>4 DEF Replaced, Running
    <3>4. g # 0
      BY <2>4, <3>3
    <3>5. OneHandler'
      BY <2>1, <3>1, <3>2 DEF OneHandler
    <3>6. \A j \in Id : Renewing(j)' => handler'[j][gen'[j]] \notin Running
      BY <1>0, <2>1, <2>2, <3>1, <3>2 DEF Replaced
    <3>7. QED BY <1>0, <2>1, <2>2, <2>3, <2>4, <3>1, <3>3, <3>4, <3>5, <3>6 DEF Replaced
  <2>5. CASE HandlerTake(i, g) \/ HandlerTold(i, g) \/ HandlerExpect(i, g)
               \/ HandlerTimeout(i, g) \/ HandlerReport(i, g)
    <3>1. /\ handler[i][g] \in Running /\ closed' = closed
          /\ \/ handler' = handler
             \/ \E l \in Running : handler' = [handler EXCEPT ![i][g] = l]
      BY <2>5 DEF HandlerTake, HandlerTold, HandlerExpect, HandlerTimeout, HandlerReport, Running
    <3>2. QED BY <1>1, <2>1, <2>4, <3>1
  <2>6. CASE HandlerClose(i, g)
    <3>1. /\ handler[i][g] = "closing" /\ closed' = [closed EXCEPT ![i] = @ \cup {g}]
          /\ handler' = [handler EXCEPT ![i][g] = "none"]
      BY <2>6 DEF HandlerClose
    <3>2. \A j \in Id, h \in Gen : handler'[j][h] = IF j = i /\ h = g THEN "none" ELSE handler[j][h]
      BY <1>0, <3>1
    <3>3. \A j \in Id, h \in Gen : h \in closed'[j] => h \in closed[j] \/ (j = i /\ h = g)
      BY <1>0, <3>1
    <3>4. QED BY <1>0, <2>1, <2>2, <2>3, <3>1, <3>2, <3>3 DEF OneHandler, Replaced, Running
  <2>7. QED BY <1>10, <2>5, <2>6 DEF Handler
<1>11. QED BY <1>2, <1>3, <1>4, <1>5, <1>6, <1>7, <1>8, <1>9, <1>10 DEF Next, Serve, Master

(* Serve finds a closed queue only for a device that repeated itself.      *)
LEMMA PanicStep ==
  ASSUME TypeInv, Replaced, Silent, PanicNeedsRepeat, [Next]_vars
  PROVE  PanicNeedsRepeat'
<1>0. TypeOK /\ \A i \in Id : repeated[i] => repeated'[i]
  BY RepeatedStays DEF TypeInv
<1>1. CASE ServePanic
  <2>1. PICK i \in Id, g \in Gen : i = serve.node /\ g = serve.gen /\ serve.pc = "send" /\ g \in closed[i]
    BY <1>0, <1>1, Fields DEF ServePanic
  <2>2. ~OneRequest(i)
    <3>1. SUFFICES ASSUME OneRequest(i) PROVE FALSE
      OBVIOUS
    <3>2. Delivering(i) /\ g = gen[i] /\ ~Taken(i)
      BY <2>1, <3>1 DEF OneRequest, Delivering
    <3>3. ~Renewing(i) /\ ~panic
      BY <2>1, <3>2 DEF Taken, InMaster, Renewing, panic
    <3>4. gen[i] \in Nat
      BY <1>0, Numbers
    <3>5. QED BY <2>1, <3>2, <3>3, <3>4 DEF Replaced
  <2>3. repeated[i]
    BY <2>2 DEF Silent
  <2>4. QED BY <1>0, <2>3 DEF PanicNeedsRepeat
<1>2. CASE ~ServePanic
  <2>1. panic' => panic
    <3>1. ASSUME NEW i \in Id, Device(i) PROVE serve' = serve
      BY <3>1 DEF Device, DeviceAsk, DeviceConfigure, DeviceFrame, DeviceSend, serverVars
    <3>2. CASE ServeDiscard \/ ServeFrame \/ ServeRequest \/ ServeSendRequest \/ ServeSend
      <4>1. serve.pc # "panic" /\ (serve' = serve \/ serve'.pc \in {"send", "request", "idle"})
        BY <3>2 DEF ServeDiscard, ServeFrame, ServeRequest, ServeSendRequest, ServeSend, serverVars
      <4>2. QED BY <4>1 DEF panic
    <3>3. CASE Master
      BY <3>3 DEF Master, MasterTake, MasterTerminate, MasterRenew, MasterConfigure, panic
    <3>4. ASSUME NEW i \in Id, NEW g \in Gen, Handler(i, g) PROVE serve' = serve
      BY <3>4 DEF Handler, HandlerTake, HandlerTold, HandlerExpect, HandlerTimeout, HandlerReport, HandlerClose
    <3>5. CASE UNCHANGED vars
      BY <3>5 DEF vars, serverVars, panic
    <3>6. QED BY <1>2, <3>1, <3>2, <3>3, <3>4, <3>5 DEF Next, Serve, panic
  <2>2. QED BY <1>0, <2>1 DEF PanicNeedsRepeat
<1>3. QED BY <1>1, <1>2

(* A message put together wrongly is handled only if one was torn.         *)
LEMMA MixedStep ==
  ASSUME TypeInv, Stream, MixedNeedsTear, [Next]_vars
  PROVE  MixedNeedsTear'
<1>0. TypeOK /\ \A i \in Id : torn[i] => torn'[i]
  BY TornStays DEF TypeInv
<1>1. ASSUME mixed' = mixed PROVE MixedNeedsTear'
  BY <1>0, <1>1 DEF MixedNeedsTear
<1>2. ASSUME NEW i \in Id, Device(i) PROVE mixed' = mixed
  BY <1>2 DEF Device, DeviceAsk, DeviceConfigure, DeviceFrame, DeviceSend, serverVars
<1>3. ASSUME Serve \/ Master PROVE mixed' = mixed
  BY <1>3 DEF Serve, ServeDiscard, ServeFrame, ServeRequest, ServeSendRequest, ServeSend, ServePanic,
              Master, MasterTake, MasterTerminate, MasterRenew, MasterConfigure, serverVars
<1>4. ASSUME NEW i \in Id, NEW g \in Gen, queue[i][g] # <<>>, mixed' = (mixed \/ ~Head(queue[i][g]).sound)
      PROVE  MixedNeedsTear'
  <2>1. queue[i][g] \in Seq(Message)
    BY <1>0 DEF TypeOK
  <2>2. 1 \in DOMAIN queue[i][g] /\ Head(queue[i][g]) = queue[i][g][1]
    BY <1>4, <2>1
  <2>3. ~Head(queue[i][g]).sound => torn[i]
    BY <2>2 DEF Stream
  <2>4. QED BY <1>0, <1>4, <2>3, Zenon DEF MixedNeedsTear
<1>5. ASSUME NEW i \in Id, NEW g \in Gen, Handler(i, g) PROVE MixedNeedsTear'
  <2>1. CASE HandlerTake(i, g)
    BY <1>4, <2>1 DEF HandlerTake
  <2>2. CASE HandlerExpect(i, g)
    BY <1>0, <1>4, <2>2, Numbers DEF HandlerExpect
  <2>3. CASE HandlerTold(i, g) \/ HandlerTimeout(i, g) \/ HandlerReport(i, g) \/ HandlerClose(i, g)
    BY <1>1, <2>3 DEF HandlerTold, HandlerTimeout, HandlerReport, HandlerClose
  <2>4. QED BY <1>5, <2>1, <2>2, <2>3 DEF Handler
<1>6. CASE UNCHANGED vars
  BY <1>1, <1>6 DEF vars, serverVars
<1>7. QED BY <1>1, <1>2, <1>3, <1>5, <1>6 DEF Next
-----------------------------------------------------------------------------
(* The inductive invariant.                                                *)
Inv ==
  /\ TypeInv /\ OneHandler /\ Replaced /\ Silent /\ Stream
  /\ PanicNeedsRepeat /\ MixedNeedsTear

(* The initial states satisfy the invariant.                               *)
LEMMA InitInv ==
  ASSUME Init
  PROVE  Inv
<1>1. /\ rx = <<>> /\ requests = <<>> /\ DOMAIN rx = {} /\ DOMAIN requests = {}
      /\ serve.pc = "idle" /\ master.pc = "idle" /\ ~mixed /\ lost = 0
      /\ 0 \in Gen
  BY Constants DEF Init, Gen
<1>2. ASSUME NEW i \in Id
      PROVE  /\ pending[i] = None /\ gen[i] = 0 /\ closed[i] = {} /\ offered[i] = 0
             /\ device[i].pc = "off" /\ device[i].no = 0 /\ device[i].k = 0 /\ device[i].t = 0
             /\ \A g \in Gen : handler[i][g] = "none" /\ queue[i][g] = <<>>
  BY DEF Init
<1>3. TypeOK
  <2>1. rx \in Seq(Frame \cup Request) /\ Len(rx) <= RxSize /\ requests \in Seq(Id) /\ Len(requests) <= QueueSize
    BY <1>1, Constants
  <2>2. /\ serve \in [pc : {"idle", "panic"}] /\ master \in [pc : {"idle", "panic"}]
        /\ lost \in 0..MaxLost /\ mixed \in BOOLEAN
    <3>1. 0 \in 0..MaxLost
      BY Constants
    <3>2. QED BY <3>1 DEF Init
  <2>3. pending \in [Id -> Message \cup {None}] /\ gen \in [Id -> Gen] /\ offered \in [Id -> Nat]
    BY <1>1 DEF Init
  <2>4. /\ queue \in [Id -> [Gen -> Seq(Message)]]
        /\ \A i \in Id, g \in Gen : Len(queue[i][g]) <= QueueSize
        /\ closed \in [Id -> SUBSET Gen]
        /\ handler \in [Id -> [Gen -> {"none", "select", "expect", "tell", "report", "closing"}]]
    BY Constants DEF Init
  <2>5. device \in [Id -> DeviceState]
    <3>1. [pc |-> "off", kind |-> "other", no |-> 0, k |-> 0, t |-> 0] \in DeviceState
      BY Constants DEF DeviceState, Kind
    <3>2. QED BY <3>1 DEF Init
  <2>6. asked \in [Id -> 0..MaxAsked]
    BY Constants DEF Init
  <2>7. {torn, repeated} \subseteq [Id -> BOOLEAN]
    BY Zenon DEF Init
  <2>8. QED BY <2>1, <2>2, <2>3, <2>4, <2>5, <2>6, <2>7 DEF TypeOK
<1>4. Counted
  <2>1. \A i \in Id : ~Configuring(i)
    BY <1>1 DEF Configuring
  <2>2. QED BY <1>2, <2>1, Constants DEF Counted
<1>5. Known
  BY <1>1 DEF Known
<1>6. OneHandler /\ Replaced
  BY <1>1, <1>2 DEF OneHandler, Replaced, Renewing, Running
<1>7. Silent
  <2>1. ASSUME NEW i \in Id
        PROVE  ~InRx(i) /\ ~InServe(i) /\ ~InQueue(i) /\ ~InMaster(i) /\ ~Taken(i) /\ ~Delivering(i) /\ NoneBehind(i)
    <3>1. ~InRx(i) /\ ~InServe(i) /\ ~InQueue(i) /\ ~InMaster(i) /\ ~Delivering(i) /\ NoneBehind(i)
      BY <1>1 DEF InRx, InServe, InQueue, InMaster, Delivering, NoneBehind
    <3>2. offered[i] = 0
      BY <1>2
    <3>3. QED BY <3>1, <3>2 DEF Taken
  <2>2. ASSUME NEW i \in Id PROVE OneRequest(i)
    <3>1. offered[i] = 0 /\ offered[i] <= 1
      BY <1>2
    <3>2. QED BY <1>1, <2>1, <3>1 DEF OneRequest
  <2>3. QED BY <1>2, <2>2 DEF Silent
<1>8. Stream
  <2>1. ASSUME NEW i \in Id PROVE Of(i) = {} /\ Sorted(i)
    BY <1>1 DEF Of, Sorted
  <2>2. ASSUME NEW i \in Id PROVE Continues(Of(i), pending[i], device[i], Delivering(i))
    <3>1. pending[i] = None /\ device[i].k = 0 /\ Of(i) = {}
      BY <1>2, <2>1
    <3>2. QED BY <3>1 DEF Continues
  <2>3. \A i \in Id, g \in Gen : DOMAIN queue[i][g] = {}
    BY <1>2
  <2>4. QED BY <2>1, <2>2, <2>3 DEF Stream
<1>9. PanicNeedsRepeat /\ MixedNeedsTear
  BY <1>1 DEF PanicNeedsRepeat, MixedNeedsTear, panic
<1>10. QED BY <1>3, <1>4, <1>5, <1>6, <1>7, <1>8, <1>9 DEF Inv, TypeInv

(* The types are kept by every step.                                       *)
LEMMA TypeStep ==
  ASSUME TypeInv, [Next]_vars
  PROVE  TypeInv'
<1>1. CASE UNCHANGED vars
  BY <1>1 DEF vars, serverVars, deviceVars, TypeInv, TypeOK, Counted, Configuring, Known
<1>2. QED BY <1>1, TypeDevice, TypeServe, TypeMaster, TypeHandler DEF Next

(* The invariant is inductive.                                             *)
LEMMA InvCorrect == Spec => []Inv
<1>1. Init => Inv
  BY InitInv
<1>2. Inv /\ [Next]_vars => Inv'
  BY TypeStep, ReplacedStep, SilentStep, StreamStep, PanicStep, MixedStep DEF Inv
<1>3. QED BY <1>1, <1>2, PTL DEF Spec

(* The types hold: no queue and no channel has more elements than its      *)
(* capacity, and no message more frames than fit into it.                  *)
THEOREM TypeCorrect == Spec => []TypeOK
<1>1. Inv => TypeOK
  BY DEF Inv, TypeInv
<1>2. QED BY <1>1, InvCorrect, PTL

(* There is never more than one goroutine handleBusNode that handles the   *)
(* messages of an id, and it reads the queue that Serve sends to.          *)
THEOREM OneHandlerCorrect == Spec => []OneHandler
<1>1. Inv => OneHandler
  BY DEF Inv
<1>2. QED BY <1>1, InvCorrect, PTL

(* Serve sends to a closed inputQueue, which ends the daemon, only if some *)
(* device has repeated its address request before it was answered.         *)
THEOREM PanicNeedsRepeatCorrect == Spec => []PanicNeedsRepeat
<1>1. Inv => PanicNeedsRepeat
  BY DEF Inv
<1>2. QED BY <1>1, InvCorrect, PTL

(* Serve puts the frames of every message together rightly as long as no   *)
(* device was interrupted within a message and none of its frames is lost. *)
THEOREM MixedNeedsTearCorrect == Spec => []MixedNeedsTear
<1>1. Inv => MixedNeedsTear
  BY DEF Inv
<1>2. QED BY <1>1, InvCorrect, PTL
=============================================================================
