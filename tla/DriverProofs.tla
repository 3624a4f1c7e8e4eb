---------------------------- MODULE DriverProofs -----------------------------
(***************************************************************************)
(* Proofs about the receiving half of Driver, for every number of frames,  *)
(* every capacity of CanRxChannel and every interleaving of the interrupt  *)
(* thread with DriverInitialize: no frame is lost, repeated or overtaken   *)
(* (RxExact), and no wake-up is lost (NoLostEdge).                         *)
(***************************************************************************)
EXTENDS Driver, SequenceTheorems, TLAPS

(* The types of the receiving half.                                        *)
RxState == [pc : {"off", "check", "fetch", "ack", "put"}, frame : Nat]

RxTypes ==
  /\ fifo \in Seq(Nat) /\ received \in Seq(Nat)
  /\ arrived \in Nat /\ first \in Nat /\ fails \in Nat
  /\ rx \in [Thread -> RxState]
  /\ raced \in BOOLEAN /\ edge \in BOOLEAN

(* Nothing is received before the interrupt is set up, and main calls      *)
(* CanRxInterrupt only after that.                                         *)
NotYet ==
  /\ init # "ready" => rx["main"].pc = "off"
  /\ init \notin Started => received = <<>> /\ ~edge /\ rx["isr"].pc = "off"

(* Without a race and without an error, one thread at most is in           *)
(* CanRxInterrupt, and what it has fetched is still the first of the fifo  *)
(* until it acknowledges it.                                               *)
Exclusive ==
  raced \/ fails > 0
  \/ /\ rx["main"].pc = "off" \/ rx["isr"].pc = "off"
     /\ \A h \in Thread : rx[h].pc = "ack" => fifo # <<>> /\ rx[h].frame = Head(fifo)

Counting == first <= arrived + 1

RxInv == RxTypes /\ NotYet /\ Exclusive /\ Counting /\ RxExact /\ NoLostEdge
-----------------------------------------------------------------------------
(* The numbers of the frames from a to b.                                  *)
Count(a, b) == [k \in 1..(b - a + 1) |-> a + k - 1]

(* Sequences put together in another way.                                  *)
LEMMA ConcatFacts ==
  ASSUME NEW r \in Seq(Nat), NEW s \in Seq(Nat), NEW e \in Nat
  PROVE  /\ r \o <<>> \o s = r \o s
         /\ r \o s \in Seq(Nat)
         /\ r \o Append(s, e) = Append(r \o s, e)
         /\ Append(r, e) \o s = r \o <<e>> \o s
<1>1. r \o <<>> = r /\ r \o s \in Seq(Nat)
  BY ConcatEmptySeq, ConcatProperties
<1>2. r \o Append(s, e) = Append(r \o s, e)
  <2>1. Append(s, e) \in Seq(Nat) /\ Len(Append(s, e)) = Len(s) + 1
    BY AppendProperties
  <2>2. QED BY <1>1, <2>1
<1>3. r \o <<e>> = Append(r, e)
  OBVIOUS
<1>4. QED BY <1>1, <1>2, <1>3

(* ConcatAssociative for the sequences of this module.                     *)
LEMMA NatAssociative ==
  ASSUME NEW a \in Seq(Nat), NEW b \in Seq(Nat), NEW c \in Seq(Nat)
  PROVE  a \o b \o c = a \o (b \o c)
BY ConcatAssociative, SMTT(30)

(* A frame that moves from the fifo into the hand of the thread keeps its  *)
(* place.                                                                  *)
LEMMA ConcatHead ==
  ASSUME NEW r \in Seq(Nat), NEW s \in Seq(Nat), s # <<>>
  PROVE  r \o <<Head(s)>> \o Tail(s) = r \o <<>> \o s
<1>1. <<Head(s)>> \o Tail(s) = s /\ Head(s) \in Nat /\ Tail(s) \in Seq(Nat) /\ <<Head(s)>> \in Seq(Nat)
  OBVIOUS
<1> DEFINE h == <<Head(s)>>
           t == Tail(s)
<1>2. r \o h \o t = r \o (h \o t)
  <2>1. h \in Seq(Nat) /\ t \in Seq(Nat)
    BY <1>1
  <2> HIDE DEF h, t
  <2>2. QED BY <2>1, NatAssociative, Zenon
<1>3. QED BY <1>1, <1>2, ConcatEmptySeq

(* One more number.                                                        *)
LEMMA CountNext ==
  ASSUME NEW a \in Nat, NEW b \in Nat, a <= b + 1
  PROVE  Append(Count(a, b), b + 1) = Count(a, b + 1) /\ Count(b + 1, b) = <<>>
<1>1. Count(a, b) \in Seq(Nat) /\ Len(Count(a, b)) = b - a + 1
  <2>1. b - a + 1 \in Nat
    OBVIOUS
  <2>2. \A k \in 1..(b - a + 1) : a + k - 1 \in Nat
    OBVIOUS
  <2>3. QED BY <2>1, <2>2 DEF Count
<1>2. Append(Count(a, b), b + 1) = Count(a, b + 1)
  BY <1>1 DEF Count
<1>3. QED BY <1>2 DEF Count
-----------------------------------------------------------------------------
(* The steps that leave the receiving half alone; SPI may fail in them.    *)
LEMMA Elsewhere ==
  ASSUME RxInv, UNCHANGED <<init, fifo, rxVars>>, fails' = fails \/ fails' = fails + 1
  PROVE  RxInv'
<1>1. RxTypes'
  BY DEF RxInv, RxTypes, rxVars
<1>2. fails' > 0 \/ fails' = fails
  BY DEF RxInv, RxTypes
<1>3. NotYet' /\ Counting'
  BY DEF RxInv, NotYet, Counting, rxVars
<1>4. InHand' = InHand
  BY DEF InHand, rxVars
<1>5. Exclusive' /\ RxExact' /\ NoLostEdge'
  <2>1. CASE fails' > 0
    <3>1. fails' # 0
      BY <1>1, <2>1 DEF RxTypes
    <3>2. QED BY <2>1, <3>1 DEF Exclusive, RxExact, NoLostEdge
  <2>2. CASE fails' = fails
    BY <1>4, <2>2 DEF RxInv, Exclusive, RxExact, NoLostEdge, rxVars
  <2>3. QED BY <1>2, <2>1, <2>2
<1>6. QED BY <1>1, <1>3, <1>5 DEF RxInv

(* A transfer that fails is counted, but for the ones before the set-up.   *)
LEMMA FailFacts ==
  ASSUME RxTypes
  PROVE  /\ SPIFails => (init = "spi" /\ fails' = fails) \/ (fails' = fails + 1 /\ fails' > 0 /\ fails' \in Nat)
         /\ SPIWorks => fails' = fails
BY DEF SPIFails, SPIWorks, RxTypes

(* What the thread in CanRxInterrupt has in hand when there is only one.   *)
LEMMA InHandFacts ==
  ASSUME RxTypes, NEW h \in Thread, NEW g \in Thread, g # h, rx[g].pc = "off"
  PROVE  InHand = IF rx[h].pc = "put" THEN <<rx[h].frame>> ELSE <<>>
BY DEF InHand, Thread

(* The steps of DriverInitialize.                                          *)
LEMMA RxInitialize ==
  ASSUME RxInv, Initialize
  PROVE  RxInv'
<1>0. RxTypes
  BY DEF RxInv
<1>1. ASSUME init \notin Started, UNCHANGED <<fifo, rxVars>>, init' \notin Started \/ (init' = "drain" /\ fails' = fails),
             fails' = fails \/ (fails' = fails + 1 /\ fails' > 0 /\ fails' \in Nat)
      PROVE  RxInv'
  <2>1. RxTypes'
    <3>1. fails' \in Nat
      BY <1>0, <1>1 DEF RxTypes
    <3>2. UNCHANGED <<fifo, edge, arrived, first, rx, received, raced>>
      BY <1>1 DEF rxVars
    <3>3. QED BY <1>0, <3>1, <3>2 DEF RxTypes
  <2>2. NotYet' /\ Counting'
    BY <1>1 DEF RxInv, NotYet, Counting, Started, rxVars
  <2>3. Exclusive' /\ RxExact'
    <3>1. InHand' = InHand
      BY <1>1 DEF InHand, rxVars
    <3>2. QED BY <1>1, <3>1 DEF RxInv, Exclusive, RxExact, rxVars
  <2>4. NoLostEdge'
    BY <1>1 DEF NoLostEdge, Started
  <2>5. QED BY <2>1, <2>2, <2>3, <2>4 DEF RxInv
<1>2. CASE InitSPI \/ InitWait \/ InitSignature
  <2>1. init \notin Started /\ UNCHANGED <<fifo, rxVars>>
    BY <1>2 DEF InitSPI, InitWait, InitSignature, Started
  <2>2. init' \notin Started \/ (init' = "drain" /\ fails' = fails)
    BY <1>2 DEF InitSPI, InitWait, InitSignature, Started, SPIWorks
  <2>3. fails' = fails \/ (fails' = fails + 1 /\ fails' > 0 /\ fails' \in Nat)
    BY <1>0, <1>2, FailFacts DEF InitSPI, InitWait, InitSignature
  <2>4. QED BY <1>1, <2>1, <2>2, <2>3
<1>3. CASE InitReset
  <2>1. init = "reset" /\ UNCHANGED <<edge, arrived, rx, CanRxChannel, received, raced>>
    BY <1>3 DEF InitReset
  <2>2. CASE init' = "failed" /\ UNCHANGED <<fifo, first>>
    <3>1. fails' = fails \/ (fails' = fails + 1 /\ fails' > 0 /\ fails' \in Nat)
      BY <1>0, <1>3, FailFacts DEF InitReset
    <3>2. QED BY <1>1, <2>1, <2>2, <3>1 DEF Started, rxVars
  <2>3. CASE SPIWorks /\ init' = "wait" /\ fifo' = <<>> /\ first' = arrived + 1
    <3>1. fails' = fails /\ arrived \in Nat /\ arrived' = arrived
      BY <1>0, <2>1, <2>3, FailFacts DEF RxTypes
    <3>2. received = <<>> /\ ~edge /\ rx["main"].pc = "off" /\ rx["isr"].pc = "off"
      BY <2>1 DEF RxInv, NotYet, Started
    <3>3. RxTypes'
      BY <1>0, <2>1, <2>3, <3>1 DEF RxTypes
    <3>4. NotYet' /\ Counting'
      BY <2>1, <2>3, <3>1, <3>2 DEF NotYet, Counting
    <3>5. Exclusive' /\ NoLostEdge'
      BY <2>1, <2>3, <3>2 DEF Exclusive, NoLostEdge, Thread
    <3>6. RxExact'
      <4>1. InHand' = <<>>
        BY <2>1, <3>2 DEF InHand, Thread
      <4>2. received' \o InHand' \o fifo' = <<>>
        BY <2>1, <2>3, <3>2, <4>1
      <4>3. Count(first', arrived') = <<>>
        BY <2>3, <3>1 DEF Count
      <4>4. QED BY <4>2, <4>3 DEF RxExact, Count
    <3>7. QED BY <3>3, <3>4, <3>5, <3>6 DEF RxInv
  <2>4. QED BY <1>3, <2>2, <2>3 DEF InitReset
<1>4. CASE InitDrain
  <2>1. /\ init = "drain" /\ init' = "ready" /\ fails' = fails
        /\ UNCHANGED <<fifo, edge, arrived, first, CanRxChannel, received>>
        /\ IF RxLow THEN Enter("main") ELSE UNCHANGED <<rx, raced>>
    BY <1>4 DEF InitDrain
  <2>2. NotYet' /\ Counting'
    BY <2>1 DEF RxInv, NotYet, Counting, Started
  <2>3. CASE ~RxLow
    <3>1. rx' = rx /\ raced' = raced /\ fifo = <<>>
      BY <2>1, <2>3 DEF RxLow
    <3>2. InHand' = InHand
      BY <3>1 DEF InHand
    <3>3. RxTypes' /\ Exclusive' /\ RxExact' /\ NoLostEdge'
      BY <1>0, <2>1, <3>1, <3>2 DEF RxInv, RxTypes, Exclusive, RxExact, NoLostEdge
    <3>4. QED BY <2>2, <3>3 DEF RxInv
  <2>4. CASE RxLow
    <3>1. /\ rx' = [rx EXCEPT !["main"].pc = "check"]
          /\ raced' = (raced \/ \E g \in Thread \ {"main"} : rx[g].pc # "off")
      BY <2>1, <2>4 DEF Enter
    <3>2. /\ rx' \in [Thread -> RxState] /\ rx'["main"].pc = "check" /\ rx'["isr"] = rx["isr"]
      BY <1>0, <3>1 DEF RxTypes, RxState, Thread
    <3>3. raced' \in BOOLEAN /\ (~raced' => ~raced /\ rx["isr"].pc = "off")
      BY <3>1, Zenon DEF Thread
    <3>4. RxTypes'
      BY <1>0, <2>1, <3>2, <3>3 DEF RxTypes
    <3>5. Exclusive'
      BY <2>1, <3>2, <3>3 DEF RxInv, Exclusive, Thread
    <3>6. NoLostEdge'
      BY <3>2 DEF NoLostEdge, Thread
    <3>7. RxExact'
      <4>1. CASE raced'
        BY <4>1 DEF RxExact
      <4>2. CASE ~raced'
        <5>1. rx["main"].pc = "off"
          BY <2>1 DEF RxInv, NotYet
        <5>2. InHand = <<>> /\ InHand' = <<>>
          BY <3>2, <3>3, <4>2, <5>1 DEF InHand
        <5>3. QED BY <2>1, <3>3, <4>2, <5>2 DEF RxInv, RxExact
      <4>3. QED BY <4>1, <4>2
    <3>8. QED BY <2>2, <3>4, <3>5, <3>6, <3>7 DEF RxInv
  <2>5. QED BY <2>3, <2>4
<1>5. QED BY <1>2, <1>3, <1>4 DEF Initialize

(* Frames from the bus: the edge is kept if nobody fetches frames.         *)
LEMMA RxArrive ==
  ASSUME RxInv, McuReceive
  PROVE  RxInv'
<1>0. RxTypes /\ init' = init /\ fails' = fails /\ UNCHANGED <<first, rx, received, raced>>
      /\ arrived' = arrived + 1 /\ fifo' = Append(fifo, arrived + 1)
      /\ edge' = (edge \/ (~RxLow /\ init \in Started))
  BY DEF RxInv, McuReceive
<1>1. edge' \in BOOLEAN
  BY <1>0, Zenon
<1>2. arrived + 1 \in Nat /\ fifo \in Seq(Nat) /\ received \in Seq(Nat) /\ fifo' \in Seq(Nat) /\ fifo' # <<>>
  <2>1. arrived \in Nat /\ fifo \in Seq(Nat) /\ received \in Seq(Nat)
    BY <1>0 DEF RxTypes
  <2>2. ASSUME NEW q \in Seq(Nat), NEW n \in Nat
        PROVE  n + 1 \in Nat /\ Append(q, n + 1) \in Seq(Nat) /\ Append(q, n + 1) # <<>>
    OBVIOUS
  <2>3. QED BY <1>0, <2>1, <2>2, Zenon
<1>3. RxTypes'
  BY <1>0, <1>1, <1>2 DEF RxTypes
<1>4. NotYet' /\ Counting'
  <2>1. init \notin Started => ~edge'
    BY <1>0, Zenon DEF RxInv, NotYet
  <2>2. QED BY <1>0, <2>1 DEF RxInv, NotYet, Counting, RxTypes
<1>5. Exclusive'
  <2>1. fifo # <<>> => Head(fifo') = Head(fifo)
    BY <1>0, <1>2
  <2>2. QED BY <1>0, <1>2, <2>1 DEF RxInv, Exclusive
<1>6. NoLostEdge'
  <2>1. init = "ready" /\ fifo = <<>> => edge'
    BY <1>0, Zenon DEF RxLow, Started
  <2>2. edge => edge'
    BY <1>0, Zenon
  <2>3. QED BY <1>0, <2>1, <2>2 DEF RxInv, NoLostEdge
<1>7. RxExact'
  <2>1. CASE raced \/ fails > 0
    BY <1>0, <2>1 DEF RxExact
  <2>2. CASE ~raced /\ ~(fails > 0)
    <3>1. received \o InHand \o fifo = Count(first, arrived)
      BY <2>2 DEF RxInv, RxExact, Count
    <3>2. InHand' = InHand /\ InHand \in Seq(Nat)
      BY <1>0 DEF InHand, RxTypes, RxState, Thread
    <3>3. received \o InHand \in Seq(Nat)
      BY <1>2, <3>2, ConcatFacts
    <3>4. received' \o InHand' \o fifo' = Append(received \o InHand \o fifo, arrived + 1)
      <4>1. received' = received /\ fifo' = Append(fifo, arrived + 1)
        BY <1>0
      <4>2. fifo \in Seq(Nat) /\ arrived + 1 \in Nat
        BY <1>0 DEF RxTypes
      <4>3. (received \o InHand) \o Append(fifo, arrived + 1) = Append((received \o InHand) \o fifo, arrived + 1)
        BY <3>3, <4>2, ConcatFacts, Zenon
      <4>4. QED BY <3>2, <4>1, <4>3, Zenon
    <3>5. Append(Count(first, arrived), arrived + 1) = Count(first, arrived + 1)
      BY <1>0, CountNext DEF RxInv, Counting, RxTypes
    <3>6. received' \o InHand' \o fifo' = Count(first', arrived')
      BY <1>0, <3>1, <3>4, <3>5
    <3>7. QED BY <3>6 DEF RxExact, Count
  <2>3. QED BY <2>1, <2>2
<1>8. QED BY <1>3, <1>4, <1>5, <1>6, <1>7 DEF RxInv

(* The interrupt thread starts.                                            *)
LEMMA RxInterrupt ==
  ASSUME RxInv, Interrupt
  PROVE  RxInv'
<1>0. /\ RxTypes /\ edge /\ ~edge' /\ edge' \in BOOLEAN /\ rx["isr"].pc = "off" /\ init' = init /\ fails' = fails
      /\ UNCHANGED <<fifo, arrived, first, received>>
      /\ rx' = [rx EXCEPT !["isr"].pc = "check"]
      /\ raced' = (raced \/ \E g \in Thread \ {"isr"} : rx[g].pc # "off")
  BY DEF RxInv, Interrupt, Enter
<1>1. rx' \in [Thread -> RxState] /\ rx'["isr"].pc = "check" /\ rx'["main"] = rx["main"]
  BY <1>0 DEF RxTypes, RxState, Thread
<1>2. raced' \in BOOLEAN /\ (~raced' => ~raced /\ rx["main"].pc = "off")
  BY <1>0, Zenon DEF Thread
<1>3. RxTypes'
  BY <1>0, <1>1, <1>2 DEF RxTypes
<1>4. init \in Started
  BY <1>0 DEF RxInv, NotYet
<1>5. NotYet' /\ Counting'
  BY <1>0, <1>1, <1>4 DEF RxInv, NotYet, Counting
<1>6. Exclusive'
  BY <1>0, <1>1, <1>2 DEF Exclusive, Thread
<1>7. NoLostEdge'
  BY <1>1 DEF NoLostEdge, Thread
<1>8. RxExact'
  <2>1. CASE raced'
    BY <2>1 DEF RxExact
  <2>2. CASE ~raced'
    <3>1. InHand = <<>> /\ InHand' = <<>>
      BY <1>0, <1>1, <1>2, <2>2 DEF InHand
    <3>2. QED BY <1>0, <1>2, <2>2, <3>1 DEF RxInv, RxExact
  <2>3. QED BY <2>1, <2>2
<1>9. QED BY <1>3, <1>5, <1>6, <1>7, <1>8 DEF RxInv

(* A step of CanRxInterrupt.                                               *)
LEMMA RxThread ==
  ASSUME RxInv, NEW h \in Thread, Rx(h)
  PROVE  RxInv'
<1>0. RxTypes /\ init' = init /\ UNCHANGED <<edge, arrived, first, raced>> /\ rx[h].pc # "off"
  BY DEF RxInv, Rx, RxCheck, RxFetch, RxAck, RxPut
<1>1. init \in Started /\ init # "spi"
  BY <1>0 DEF RxInv, NotYet, Thread, Started
<1>2. PICK p \in {"off", "check", "fetch", "ack", "put"}, f \in Nat : rx' = [rx EXCEPT ![h] = [pc |-> p, frame |-> f]]
  <2>1. fifo # <<>> => Head(fifo) \in Nat
    BY <1>0 DEF RxTypes
  <2>2. rx[h].frame \in Nat
    BY <1>0 DEF RxTypes, RxState
  <2>3. QED BY <2>1, <2>2 DEF Rx, RxCheck, RxFetch, RxAck, RxPut, RxGoto, RxLow
<1>3. rx' \in [Thread -> RxState] /\ rx'[h] = [pc |-> p, frame |-> f] /\ \A g \in Thread \ {h} : rx'[g] = rx[g]
  <2>1. [pc |-> p, frame |-> f] \in RxState
    BY DEF RxState
  <2>2. QED BY <1>0, <1>2, <2>1 DEF RxTypes
<1>4. PICK g \in Thread : g # h /\ \A t \in Thread : t = g \/ t = h
  BY DEF Thread
<1>5. fifo' \in Seq(Nat) /\ received' \in Seq(Nat)
  <2>1. fifo \in Seq(Nat) /\ received \in Seq(Nat) /\ rx[h].frame \in Nat
    BY <1>0 DEF RxTypes, RxState
  <2>2. fifo' = fifo \/ (fifo # <<>> /\ fifo' = Tail(fifo))
    BY DEF Rx, RxCheck, RxFetch, RxAck, RxPut, RxLow
  <2>3. received' = received \/ received' = Append(received, rx[h].frame)
    BY DEF Rx, RxCheck, RxFetch, RxAck, RxPut
  <2>4. fifo' \in Seq(Nat)
    <3>1. fifo # <<>> => Tail(fifo) \in Seq(Nat)
      BY <2>1, HeadTailProperties
    <3>2. QED BY <2>1, <2>2, <3>1
  <2>5. Append(received, rx[h].frame) \in Seq(Nat)
    BY <2>1
  <2>6. QED BY <2>1, <2>3, <2>4, <2>5
<1>6. fails' = fails \/ (fails' > 0 /\ fails' \in Nat)
  BY <1>0, FailFacts DEF Rx, RxCheck, RxFetch, RxAck, RxPut
<1>7. RxTypes'
  BY <1>0, <1>3, <1>5, <1>6 DEF RxTypes
<1>8. NotYet' /\ Counting'
  <2>1. h = "main" => init = "ready"
    BY <1>0 DEF RxInv, NotYet
  <2>2. h # "main" => rx'["main"] = rx["main"]
    BY <1>3 DEF Thread
  <2>3. QED BY <1>0, <1>1, <2>1, <2>2 DEF RxInv, NotYet, Counting
<1>9. CASE fails' > 0
  <2>1. fails' # 0
    BY <1>7, <1>9 DEF RxTypes
  <2>2. QED BY <1>7, <1>8, <1>9, <2>1 DEF RxInv, Exclusive, RxExact, NoLostEdge
<1>10. CASE fails' = fails /\ fails = 0 /\ ~SPIFails
  <2>1. NoLostEdge'
    <3>1. CASE p = "off"
      <4>1. fifo' = <<>>
        BY <1>0, <1>2, <1>3, <1>10, <3>1 DEF Rx, RxCheck, RxFetch, RxAck, RxPut, RxGoto, RxLow
      <4>2. QED BY <4>1 DEF NoLostEdge
    <3>2. CASE p # "off"
      BY <1>3, <3>2 DEF NoLostEdge
    <3>3. QED BY <3>1, <3>2
  <2>2. CASE raced
    BY <1>0, <1>7, <1>8, <2>1, <2>2 DEF RxInv, Exclusive, RxExact
  <2>3. CASE ~raced
    <3>0. ~(fails > 0)
      BY <1>10
    <3>1. rx[g].pc = "off" /\ (rx[h].pc = "ack" => fifo # <<>> /\ rx[h].frame = Head(fifo))
      BY <1>0, <1>4, <2>3, <3>0 DEF RxInv, Exclusive, Thread
    <3>2. rx'[g] = rx[g]
      BY <1>3, <1>4
    <3>3. /\ InHand = IF rx[h].pc = "put" THEN <<rx[h].frame>> ELSE <<>>
          /\ InHand' = IF p = "put" THEN <<f>> ELSE <<>>
      BY <1>0, <1>3, <1>4, <1>7, <3>1, <3>2, InHandFacts DEF InHand, Thread
    <3>4. received \o InHand \o fifo = Count(first, arrived)
      BY <2>3, <3>0 DEF RxInv, RxExact, Count
    <3>5. ASSUME p = "ack" => fifo' # <<>> /\ f = Head(fifo'),
                 received' \o InHand' \o fifo' = received \o InHand \o fifo
          PROVE  RxInv'
      <4>1. Exclusive'
        BY <1>3, <1>4, <3>1, <3>2, <3>5 DEF Exclusive, Thread
      <4>2. RxExact'
        BY <1>0, <3>4, <3>5 DEF RxExact, Count
      <4>3. QED BY <1>7, <1>8, <2>1, <4>1, <4>2 DEF RxInv
    <3>6. CASE RxCheck(h)
      <4>1. p \in {"fetch", "off"} /\ rx[h].pc = "check" /\ fifo' = fifo /\ received' = received
        BY <1>0, <1>3, <3>6 DEF RxCheck, RxGoto, RxTypes
      <4>2. QED BY <3>3, <3>5, <4>1
    <3>7. CASE RxFetch(h)
      <4>1. /\ rx[h].pc = "fetch" /\ fifo' = fifo /\ received' = received
            /\ p = "off" \/ (p = "ack" /\ fifo # <<>> /\ f = Head(fifo))
        BY <1>0, <1>3, <1>10, <3>7 DEF RxFetch, RxGoto, RxTypes, RxLow
      <4>2. QED BY <3>3, <3>5, <4>1
    <3>8. CASE RxAck(h)
      <4>1. fifo # <<>> /\ rx[h].frame = Head(fifo) /\ rx[h].pc = "ack"
        BY <3>1, <3>8 DEF RxAck
      <4>2. fifo' = Tail(fifo) /\ received' = received /\ p = "put" /\ f = Head(fifo)
        BY <1>0, <1>3, <1>10, <3>8, <4>1 DEF RxAck, RxGoto, RxTypes, RxLow
      <4>3. received \o <<Head(fifo)>> \o Tail(fifo) = received \o <<>> \o fifo
        BY <1>0, <4>1, ConcatHead DEF RxTypes
      <4>4. QED BY <3>3, <3>5, <4>1, <4>2, <4>3
    <3>9. CASE RxPut(h)
      <4>1. rx[h].pc = "put" /\ p = "check" /\ fifo' = fifo /\ received' = Append(received, rx[h].frame)
        BY <1>0, <1>3, <3>9 DEF RxPut, RxGoto, RxTypes
      <4>2. fifo \in Seq(Nat) /\ received \in Seq(Nat) /\ rx[h].frame \in Nat /\ received' \in Seq(Nat)
        BY <1>0, <1>5 DEF RxTypes, RxState
      <4>3. received' \o <<>> \o fifo = received \o <<rx[h].frame>> \o fifo
        BY <4>1, <4>2, ConcatFacts
      <4>4. QED BY <3>3, <3>5, <4>1, <4>3
    <3>10. QED BY <3>6, <3>7, <3>8, <3>9 DEF Rx
  <2>4. QED BY <2>2, <2>3
<1>11. SPIFails => fails' > 0
  BY <1>0, <1>1, FailFacts
<1>12. fails' = fails /\ ~(fails' > 0) => fails = 0
  BY <1>0 DEF RxTypes
<1>13. QED BY <1>6, <1>9, <1>10, <1>11, <1>12

(* The invariant of the receiving half is inductive.                       *)
LEMMA RxInvCorrect == Spec => []RxInv
<1>1. Init => RxInv
  <2>1. SUFFICES ASSUME Init PROVE RxInv
    OBVIOUS
  <2>2. /\ fifo \in {<<>>, <<1>>} /\ arrived = Len(fifo) /\ first = 1 /\ received = <<>>
        /\ ~edge /\ ~raced /\ init = "spi" /\ fails = 0
        /\ rx \in [Thread -> RxState] /\ \A h \in Thread : rx[h].pc = "off"
    BY <2>1 DEF Init, RxState
  <2>3. RxTypes
    <3>1. fifo \in Seq(Nat)
      <4>1. <<>> \in Seq(Nat)
        OBVIOUS
      <4>2. <<1>> \in Seq(Nat)
        OBVIOUS
      <4>3. QED BY <2>2, <4>1, <4>2
    <3>2. arrived \in Nat /\ received \in Seq(Nat)
      BY <2>2, <3>1
    <3>3. raced \in BOOLEAN /\ edge \in BOOLEAN
      BY <2>1, Zenon DEF Init
    <3>4. QED BY <2>2, <3>1, <3>2, <3>3 DEF RxTypes
  <2>4. NotYet /\ Exclusive /\ Counting /\ NoLostEdge
    BY <2>2, <2>3 DEF NotYet, Exclusive, Counting, NoLostEdge, Thread, RxTypes
  <2>5. RxExact
    <3>1. InHand = <<>>
      BY <2>2 DEF InHand, Thread
    <3>2. received \o InHand \o fifo = fifo
      BY <2>2, <2>3, <3>1 DEF RxTypes
    <3>3. CASE fifo = <<>>
      BY <2>2, <3>2, <3>3 DEF RxExact
    <3>4. CASE fifo = <<1>>
      BY <2>2, <3>2, <3>4 DEF RxExact
    <3>5. QED BY <2>2, <3>3, <3>4
  <2>6. QED BY <2>3, <2>4, <2>5 DEF RxInv
<1>2. RxInv /\ [Next]_vars => RxInv'
  <2>1. SUFFICES ASSUME RxInv, [Next]_vars PROVE RxInv'
    OBVIOUS
  <2>2. ASSUME NEW s \in Sender, SendFrame(s) \/ \E i \in NodeId, t \in 1..MaxFrames : SendBegin(s, i, t)
        PROVE  RxInv'
    BY <2>1, <2>2, Elsewhere DEF SendFrame, SendBegin
  <2>3. CASE Tx
    <3>1. UNCHANGED <<init, fifo, rxVars>>
      BY <2>3 DEF Tx, TxTake, TxStore, TxSend
    <3>2. fails' = fails \/ fails' = fails + 1
      BY <2>1, <2>3, FailFacts DEF Tx, TxTake, TxStore, TxSend, RxInv
    <3>3. QED BY <2>1, <3>1, <3>2, Elsewhere
  <2>4. CASE McuTransmit
    BY <2>1, <2>4, Elsewhere DEF McuTransmit
  <2>5. CASE ServeTake
    <3>1. UNCHANGED <<init, fails, fifo, edge, arrived, first, rx, received, raced>>
      BY <2>5 DEF ServeTake
    <3>2. QED BY <2>1, <3>1 DEF RxInv, RxTypes, NotYet, Exclusive, Counting, RxExact, NoLostEdge, InHand
  <2>6. CASE UNCHANGED vars
    BY <2>1, <2>6, Elsewhere DEF vars
  <2>7. QED BY <2>1, <2>2, <2>3, <2>4, <2>5, <2>6, RxInitialize, RxArrive, RxInterrupt, RxThread DEF Next
<1>3. QED BY <1>1, <1>2, PTL DEF Spec

(* The frames that reach CanRxChannel are those that came from the bus     *)
(* since the reset, in order and each once, unless a transfer failed or    *)
(* two threads met in CanRxInterrupt.                                      *)
THEOREM RxExactCorrect == Spec => []RxExact
<1>1. RxInv => RxExact
  BY DEF RxInv
<1>2. QED BY <1>1, RxInvCorrect, PTL

(* The wake-up of CanRxInterrupt is never lost, also not to a race between *)
(* the interrupt thread and DriverInitialize.                              *)
THEOREM NoLostEdgeCorrect == Spec => []NoLostEdge
<1>1. RxInv => NoLostEdge
  BY DEF RxInv
<1>2. QED BY <1>1, RxInvCorrect, PTL
=============================================================================
