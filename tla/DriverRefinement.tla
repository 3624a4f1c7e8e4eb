-------------------------- MODULE DriverRefinement ---------------------------
(***************************************************************************)
(* Proof that Driver implements MessageBus, for every number of senders,   *)
(* node ids, messages and frames, every capacity of CanTxChannel and every *)
(* pattern of failed transfers.                                            *)
(***************************************************************************)
EXTENDS Driver, SequenceTheorems, TLAPS

(* The frames on their way to the bus, in order: the one that the          *)
(* microcontroller is sending, the one that the goroutine has taken, and   *)
(* those in CanTxChannel.                                                  *)
OnBus == IF mcu.sending THEN <<mcu.frame>> ELSE <<>>
InHands == IF tx.pc = "idle" THEN <<>> ELSE <<tx.frame>>
Queue == OnBus \o InHands \o CanTxChannel

(* The messages of each node id that have begun and are not over.          *)
In(q) == {q[k] : k \in DOMAIN q}
Current == [i \in NodeId |-> In(line[i])]

Piece == [to : NodeId, no : Nat, k : Nat \ {0}, t : Nat \ {0}]
Sending == [to : NodeId, no : Nat, k : Nat, t : Nat \ {0}] \cup {None}
Entry == [no : Nat, from : Sender, open : BOOLEAN, overlap : BOOLEAN]

Control ==
  /\ CanTxChannel \in Seq(Piece)
  /\ tx \in [pc : {"idle"}] \cup [pc : {"store", "send"}, frame : Piece]
  /\ mcu \in [sending : BOOLEAN, frame : Piece \cup {None}]
  /\ mcu.sending => mcu.frame # None
  /\ tx.pc = "send" => ~mcu.sending /\ mcu.frame \in {None, tx.frame}

Types ==
  /\ sender \in [Sender -> Sending]
  /\ next \in Nat
  /\ pending \in [NodeId -> Seq(Piece)]
  /\ got \in [NodeId -> Seq(Nat)]
  /\ line \in [NodeId -> Seq(Entry)]
  /\ broken \subseteq NodeId

Increasing(q) == \A j, k \in DOMAIN q : j < k => q[j].no < q[k].no

(* The parts of the invariant are about a number n, the messages S of the  *)
(* senders, the messages L of the lines, the frames Q on their way and     *)
(* what the nodes have, P.                                                 *)

(* Message numbers are used once.  A message is open while its sender has  *)
(* frames of it left.                                                      *)
Numbered(n, S, L) ==
  /\ \A i \in NodeId : \A e \in L[i] :
       /\ e.no < n
       /\ e.open => S[e.from] # None /\ S[e.from].no = e.no /\ S[e.from].to = i
  /\ \A s \in Sender : S[s] # None =>
       /\ S[s].no < n /\ S[s].k < S[s].t
       /\ \E e \in L[S[s].to] : e.no = S[s].no /\ e.from = s /\ e.open
  /\ \A r, s \in Sender : S[r] # None /\ S[s] # None /\ S[r].no = S[s].no => r = s

(* The frames of a message are in order, and its last one is there when it *)
(* is not open any more.                                                   *)
Listed(i, no, L) == \E e \in L[i] : e.no = no
Last(i, no, Q) == \E a \in DOMAIN Q : Q[a].to = i /\ Q[a].no = no /\ Q[a].k = Q[a].t

Queued(n, S, L, Q) ==
  /\ \A a \in DOMAIN Q : Q[a].no < n /\ Q[a].k <= Q[a].t /\ Listed(Q[a].to, Q[a].no, L)
  /\ \A a, b \in DOMAIN Q : a < b /\ Q[a].no = Q[b].no =>
       Q[a].to = Q[b].to /\ Q[a].k < Q[b].k /\ Q[a].t = Q[b].t
  /\ \A a \in DOMAIN Q, s \in Sender : S[s] # None /\ Q[a].no = S[s].no =>
       Q[a].to = S[s].to /\ Q[a].k <= S[s].k /\ Q[a].t = S[s].t
  /\ \A i \in NodeId : \A e \in L[i] : e.open \/ Last(i, e.no, Q)

(* Only messages that overlap overtake each other.                         *)
Mixed(i, no, L) == \A e \in L[i] : e.no = no => e.overlap

Ordered(L, Q) ==
  /\ \A i \in NodeId : \A d, e \in L[i] : d.no < e.no /\ d.open => d.overlap /\ e.overlap
  /\ \A a, b \in DOMAIN Q : a < b /\ Q[a].to = Q[b].to /\ Q[b].no < Q[a].no =>
       Mixed(Q[a].to, Q[a].no, L) /\ Mixed(Q[a].to, Q[b].no, L)

(* The first c frames of a message are with its node, or the last of them  *)
(* is on its way before position p.                                        *)
Has(q, no, c) == c > 0 /\ Len(q) = c /\ \A j \in 1..c : q[j].no = no /\ q[j].k = j
Before(i, no, c, Q, p) == \E b \in DOMAIN Q : b < p /\ Q[b].to = i /\ Q[b].no = no /\ Q[b].k = c
Sent(i, no, c, Q, p, q) == c = 0 \/ Before(i, no, c, Q, p) \/ Has(q, no, c)

(* What a node i has begins a message that is not over, whose first frame  *)
(* is not on its way any more; if it went ahead of an older one, the two   *)
(* overlap.                                                                *)
Begun(i, S, L, Q, q) ==
  q # <<>> =>
    /\ Listed(i, q[1].no, L)
    /\ \A a \in DOMAIN Q : Q[a].to = i /\ Q[a].no = q[1].no => Q[a].k > 1
    /\ \A s \in Sender : S[s] # None /\ S[s].to = i /\ S[s].no = q[1].no => S[s].k > 0
    /\ \A e \in L[i] : e.no < q[1].no => e.overlap /\ Mixed(i, q[1].no, L)

(* Nothing is missing of a message to i that does not overlap.             *)
Complete(i, S, L, Q, q) ==
  \A e \in L[i] : ~e.overlap =>
    /\ \A a \in DOMAIN Q : Q[a].to = i /\ Q[a].no = e.no => Sent(i, e.no, Q[a].k - 1, Q, a, q)
    /\ \A s \in Sender : S[s] # None /\ S[s].to = i /\ S[s].no = e.no =>
         Sent(i, e.no, S[s].k, Q, Len(Q) + 1, q)

Unbroken(B, S, L, Q, P) ==
  \A i \in NodeId \ B : Begun(i, S, L, Q, P[i]) /\ Complete(i, S, L, Q, P[i])

Inv ==
  /\ Control /\ Types
  /\ \A i \in NodeId : Increasing(line[i])
  /\ Numbered(next, sender, Current)
  /\ Queued(next, sender, Current, Queue)
  /\ Ordered(Current, Queue)
  /\ Unbroken(broken, sender, Current, Queue, pending)
-----------------------------------------------------------------------------
(* The kinds of steps.  A message begins; a sender adds a frame to the     *)
(* queue; the first frame leaves it, lost or sent; nothing happens.        *)
Begins(s, i, t) ==
  /\ sender[s] = None
  /\ sender' = [sender EXCEPT ![s] = [to |-> i, no |-> next, k |-> 0, t |-> t]]
  /\ line' = [line EXCEPT ![i] = Bus!Opened(s, i)]
  /\ next' = next + 1
  /\ Queue' = Queue
  /\ UNCHANGED <<pending, got, broken>>

Adds(s) ==
  LET m == sender[s] IN
  /\ m.k < m.t
  /\ Queue' = Append(Queue, [m EXCEPT !.k = @ + 1])
  /\ sender' = [sender EXCEPT ![s] = IF m.k + 1 = m.t THEN None ELSE [m EXCEPT !.k = @ + 1]]
  /\ line' = IF m.k + 1 = m.t THEN [line EXCEPT ![m.to] = Bus!Closed(s, m.to)] ELSE line
  /\ UNCHANGED <<next, pending, got, broken>>

Leaves(f) ==
  /\ Queue # <<>>
  /\ f = Head(Queue)
  /\ Queue' = Tail(Queue)
  /\ line' = IF f.k < f.t THEN line ELSE [line EXCEPT ![f.to] = Ended(@, f.no)]
  /\ UNCHANGED <<sender, next>>

Lost(f) ==
  /\ Leaves(f)
  /\ broken' = broken \cup {f.to}
  /\ UNCHANGED <<pending, got>>

Arrives(f) ==
  /\ Leaves(f)
  /\ pending' = [pending EXCEPT ![f.to] =
       IF Refused(f) THEN @ ELSE IF f.k = f.t THEN <<>> ELSE Assembled(f)]
  /\ got' = IF Refused(f) \/ f.k < f.t THEN got
            ELSE [got EXCEPT ![f.to] = Append(@, IF Whole(Assembled(f)) THEN f.no ELSE Bus!Damaged)]
  /\ UNCHANGED broken

Still == Queue' = Queue /\ UNCHANGED <<sender, next, pending, got, line, broken>>

Kind ==
  \/ \E s \in Sender : Adds(s) \/ \E i \in NodeId, t \in Nat \ {0} : Begins(s, i, t)
  \/ \E f \in Piece : Lost(f) \/ Arrives(f)
  \/ Still
-----------------------------------------------------------------------------
(* A frame at the front of the queue, one at its end, and one that the     *)
(* goroutine takes from CanTxChannel.                                      *)
LEMMA Front ==
  ASSUME NEW S, NEW x \in S, NEW r \in Seq(S), NEW s \in Seq(S)
  PROVE  /\ <<x>> \o r \o s \in Seq(S)
         /\ <<x>> \o r \o s # <<>>
         /\ Head(<<x>> \o r \o s) = x
         /\ Tail(<<x>> \o r \o s) = <<>> \o r \o s
<1>1. <<x>> \in Seq(S) /\ Len(<<x>>) = 1 /\ <<x>>[1] = x /\ <<>> \o r = r /\ r \o s \in Seq(S)
  OBVIOUS
<1>2. <<x>> \o r \o s = <<x>> \o (r \o s)
  BY <1>1, ConcatAssociative
<1>3. QED BY <1>1, <1>2

(* A frame put at the end of CanTxChannel is at the end of the queue.      *)
LEMMA Back ==
  ASSUME NEW S, NEW x \in S, NEW r \in Seq(S), NEW s \in Seq(S)
  PROVE  r \o Append(s, x) = Append(r \o s, x)
<1>1. Append(s, x) \in Seq(S) /\ Len(Append(s, x)) = Len(s) + 1 /\ r \o s \in Seq(S)
  OBVIOUS
<1>2. QED BY <1>1

(* TxTake moves the first frame of CanTxChannel into the goroutine's       *)
(* hands: the queue stays the same.                                        *)
LEMMA Taken ==
  ASSUME NEW S, NEW r \in Seq(S), NEW s \in Seq(S), s # <<>>
  PROVE  r \o <<Head(s)>> \o Tail(s) = r \o <<>> \o s
<1>1. <<Head(s)>> \o Tail(s) = s /\ Head(s) \in S /\ Tail(s) \in Seq(S) /\ <<Head(s)>> \in Seq(S)
  OBVIOUS
<1>2. r \o <<Head(s)>> \o Tail(s) = r \o (<<Head(s)>> \o Tail(s))
  BY <1>1, ConcatAssociative
<1>3. QED BY <1>1, <1>2, ConcatEmptySeq

(* The first frame of the queue is the one that the microcontroller        *)
(* sends, or else the one that the goroutine has.                          *)
LEMMA QueueFacts ==
  ASSUME Control
  PROVE  /\ OnBus \in Seq(Piece) /\ InHands \in Seq(Piece) /\ Queue \in Seq(Piece)
         /\ mcu.sending => /\ mcu.frame \in Piece /\ Queue # <<>> /\ Head(Queue) = mcu.frame
                           /\ Tail(Queue) = <<>> \o InHands \o CanTxChannel
         /\ ~mcu.sending /\ tx.pc # "idle" =>
              /\ tx.frame \in Piece /\ Queue # <<>> /\ Head(Queue) = tx.frame
              /\ Tail(Queue) = <<>> \o <<>> \o CanTxChannel
<1>1. mcu.sending => mcu.frame \in Piece
  BY DEF Control
<1>2. tx.pc # "idle" => tx.frame \in Piece
  BY DEF Control
<1>3. OnBus \in Seq(Piece) /\ InHands \in Seq(Piece) /\ CanTxChannel \in Seq(Piece)
  BY <1>1, <1>2 DEF OnBus, InHands, Control
<1>4. Queue \in Seq(Piece)
  <2>1. OnBus \o InHands \in Seq(Piece)
    BY <1>3
  <2>2. QED BY <1>3, <2>1 DEF Queue
<1>5. ASSUME mcu.sending
      PROVE  Queue # <<>> /\ Head(Queue) = mcu.frame /\ Tail(Queue) = <<>> \o InHands \o CanTxChannel
  <2>1. OnBus = <<mcu.frame>>
    BY <1>5 DEF OnBus
  <2>2. Queue = <<mcu.frame>> \o InHands \o CanTxChannel
    BY <2>1 DEF Queue
  <2>3. mcu.frame \in Piece
    BY <1>1, <1>5
  <2>4. ASSUME NEW x \in Piece, NEW r \in Seq(Piece), NEW s \in Seq(Piece)
        PROVE  /\ <<x>> \o r \o s # <<>> /\ Head(<<x>> \o r \o s) = x
               /\ Tail(<<x>> \o r \o s) = <<>> \o r \o s
    BY Front
  <2>5. QED BY <1>3, <2>2, <2>3, <2>4, Zenon
<1>6. ASSUME ~mcu.sending, tx.pc # "idle"
      PROVE  Queue # <<>> /\ Head(Queue) = tx.frame /\ Tail(Queue) = <<>> \o <<>> \o CanTxChannel
  <2>1. OnBus = <<>> /\ InHands = <<tx.frame>>
    BY <1>6 DEF OnBus, InHands
  <2>2. <<>> \o <<tx.frame>> = <<tx.frame>> \o <<>>
    BY <1>2, <1>6
  <2>3. Queue = <<tx.frame>> \o <<>> \o CanTxChannel
    BY <2>1, <2>2 DEF Queue
  <2>4. <<>> \in Seq(Piece)
    OBVIOUS
  <2>5. QED BY <1>2, <1>3, <1>6, <2>3, <2>4, Front
<1>7. QED BY <1>1, <1>2, <1>3, <1>4, <1>5, <1>6

(* Steps that leave the way to the bus alone.                              *)
LEMMA Nothing ==
  ASSUME Control, UNCHANGED <<txVars, mcu>>
  PROVE  Control' /\ Kind
<1>1. UNCHANGED <<sender, next, CanTxChannel, tx, mcu, pending, got, line, broken>>
  BY DEF txVars
<1>2. Control'
  BY <1>1 DEF Control
<1>3. Queue' = Queue
  BY <1>1 DEF Queue, OnBus, InHands
<1>4. QED BY <1>1, <1>2, <1>3 DEF Kind, Still

(* The first frame is lost.                                                *)
LEMMA DroppedFirst ==
  ASSUME NEW f \in Piece, Dropped(f), Queue # <<>>, f = Head(Queue), Queue' = Tail(Queue),
         UNCHANGED <<sender, next, pending, got>>
  PROVE  Kind
<1>1. f # None
  BY DEF Piece, None
<1>2. Lost(f)
  BY <1>1 DEF Lost, Leaves, Dropped
<1>3. QED BY <1>2 DEF Kind

(* DriverInitialize: the reset loses what the microcontroller sends.       *)
LEMMA KindReset ==
  ASSUME Control, InitReset
  PROVE  Control' /\ Kind
<1>1. CASE mcu' = [sending |-> FALSE, frame |-> None] /\ Dropped(IF mcu.sending THEN mcu.frame ELSE None)
  <2>1. UNCHANGED <<sender, next, CanTxChannel, tx, pending, got>>
    BY DEF InitReset
  <2>2. Control'
    BY <1>1, <2>1 DEF Control
  <2>3. Queue' = <<>> \o InHands \o CanTxChannel
    BY <1>1, <2>1 DEF Queue, OnBus, InHands
  <2>4. CASE mcu.sending
    BY <1>1, <2>1, <2>2, <2>3, <2>4, QueueFacts, DroppedFirst
  <2>5. CASE ~mcu.sending
    <3>1. broken' = broken /\ line' = line
      BY <1>1, <2>5 DEF Dropped
    <3>2. Queue' = Queue
      BY <2>3, <2>5 DEF Queue, OnBus
    <3>3. QED BY <2>1, <2>2, <3>1, <3>2 DEF Kind, Still
  <2>6. QED BY <2>4, <2>5
<1>2. CASE UNCHANGED <<mcu, broken, line>>
  BY <1>2, Nothing DEF InitReset, txVars
<1>3. QED BY <1>1, <1>2 DEF InitReset

(* SendMessage.                                                            *)
LEMMA KindBegin ==
  ASSUME Control, NEW s \in Sender, NEW i \in NodeId, NEW t \in 1..MaxFrames, SendBegin(s, i, t)
  PROVE  Control' /\ Kind
<1>1. UNCHANGED <<CanTxChannel, tx, mcu>>
  BY DEF SendBegin
<1>2. Control'
  BY <1>1 DEF Control
<1>3. Queue' = Queue
  BY <1>1 DEF Queue, OnBus, InHands
<1>4. t \in Nat \ {0}
  BY DriverAssumption
<1>5. Begins(s, i, t)
  BY <1>3 DEF SendBegin, Begins
<1>6. QED BY <1>2, <1>4, <1>5 DEF Kind

(* DriverSendCanFrame puts a frame at the end of the queue.                *)
LEMMA KindFrame ==
  ASSUME Control, Types, NEW s \in Sender, SendFrame(s)
  PROVE  Control' /\ Kind
<1>1. DEFINE m == sender[s]
             x == [m EXCEPT !.k = @ + 1]
<1>2. UNCHANGED <<tx, mcu>> /\ m.k < m.t /\ CanTxChannel' = Append(CanTxChannel, x)
  BY DEF SendFrame
<1>3. x \in Piece
  <2>1. m \in Sending
    BY DEF Types
  <2>2. m # None
    BY <1>2 DEF None
  <2>3. m \in [to : NodeId, no : Nat, k : Nat, t : Nat \ {0}]
    BY <2>1, <2>2 DEF Sending
  <2>4. QED BY <2>3 DEF Piece
<1>4. Control'
  <2>1. CanTxChannel' \in Seq(Piece)
    BY <1>2, <1>3 DEF Control
  <2>2. QED BY <1>2, <2>1 DEF Control
<1>5. Queue' = Append(Queue, x)
  <2>1. OnBus \o InHands \in Seq(Piece) /\ CanTxChannel \in Seq(Piece)
    BY QueueFacts DEF Control
  <2>2. Queue' = OnBus \o InHands \o Append(CanTxChannel, x)
    BY <1>2 DEF Queue, OnBus, InHands
  <2>3. QED BY <1>3, <2>1, <2>2, Back DEF Queue
<1>6. Adds(s)
  BY <1>2, <1>5 DEF SendFrame, Adds
<1>7. QED BY <1>4, <1>6 DEF Kind

(* The goroutine that hands frames over.                                   *)
LEMMA KindTake ==
  ASSUME Control, TxTake
  PROVE  Control' /\ Kind
<1>1. /\ tx.pc = "idle" /\ CanTxChannel # <<>> /\ CanTxChannel' = Tail(CanTxChannel)
      /\ tx' = [pc |-> "store", frame |-> Head(CanTxChannel)]
      /\ UNCHANGED <<sender, next, mcu, pending, got, line, broken>>
  BY DEF TxTake
<1>2. CanTxChannel \in Seq(Piece) /\ Head(CanTxChannel) \in Piece /\ CanTxChannel' \in Seq(Piece)
  BY <1>1 DEF Control
<1>3. Control'
  BY <1>1, <1>2 DEF Control
<1>4. Queue' = OnBus \o <<Head(CanTxChannel)>> \o Tail(CanTxChannel)
  BY <1>1 DEF Queue, OnBus, InHands
<1>5. Queue = OnBus \o <<>> \o CanTxChannel
  BY <1>1 DEF Queue, InHands
<1>6. Queue' = Queue
  BY <1>1, <1>2, <1>4, <1>5, QueueFacts, Taken
<1>7. QED BY <1>1, <1>3, <1>6 DEF Kind, Still

(* The frame of the goroutine is lost in a transfer.                       *)
LEMMA KindLost ==
  ASSUME Control, tx.pc # "idle", ~mcu.sending, tx' = [pc |-> "idle"], Dropped(tx.frame),
         UNCHANGED <<sender, next, CanTxChannel, mcu, pending, got>>
  PROVE  Control' /\ Kind
<1>1. Control'
  BY DEF Control
<1>2. Queue' = <<>> \o <<>> \o CanTxChannel
  BY DEF Queue, OnBus, InHands
<1>3. QED BY <1>1, <1>2, QueueFacts, DroppedFirst

(* SPI_OP_STORE_DATA: the frame stays the first of the queue, or is lost.  *)
LEMMA KindStore ==
  ASSUME Control, TxStore
  PROVE  Control' /\ Kind
<1>1. tx.pc = "store" /\ ~mcu.sending /\ UNCHANGED <<sender, next, CanTxChannel, pending, got>>
  BY DEF TxStore, TxHigh
<1>2. CASE /\ mcu' = [mcu EXCEPT !.frame = tx.frame] /\ tx' = [tx EXCEPT !.pc = "send"]
           /\ UNCHANGED <<line, broken>>
  <2>1. tx.frame \in Piece /\ tx'.frame = tx.frame /\ tx'.pc = "send"
        /\ tx' \in [pc : {"store", "send"}, frame : Piece]
    BY <1>1, <1>2 DEF Control
  <2>2. /\ mcu' \in [sending : BOOLEAN, frame : Piece \cup {None}]
        /\ ~mcu'.sending /\ mcu'.frame = tx.frame
    BY <1>1, <1>2, <2>1 DEF Control
  <2>3. Control'
    BY <1>1, <2>1, <2>2 DEF Control
  <2>4. Queue' = Queue
    BY <1>1, <2>1, <2>2 DEF Queue, OnBus, InHands
  <2>5. QED BY <1>1, <1>2, <2>3, <2>4 DEF Kind, Still
<1>3. CASE tx' = [pc |-> "idle"] /\ Dropped(tx.frame) /\ UNCHANGED mcu
  BY <1>1, <1>3, KindLost
<1>4. QED BY <1>2, <1>3 DEF TxStore

(* SPI_OP_SEND_REQ: the frame goes from the goroutine to the               *)
(* microcontroller, or is lost.                                            *)
LEMMA KindSend ==
  ASSUME Control, TxSend
  PROVE  Control' /\ Kind
<1>1. /\ tx.pc = "send" /\ tx' = [pc |-> "idle"] /\ ~mcu.sending /\ mcu.frame \in {None, tx.frame}
      /\ UNCHANGED <<sender, next, CanTxChannel, pending, got>>
  BY DEF TxSend, Control
<1>2. CASE mcu.frame # None /\ mcu' = [mcu EXCEPT !.sending = TRUE] /\ UNCHANGED <<line, broken>>
  <2>1. tx.frame \in Piece /\ mcu.frame = tx.frame
    BY <1>1, <1>2 DEF Control
  <2>2. /\ mcu' \in [sending : BOOLEAN, frame : Piece \cup {None}]
        /\ mcu'.sending /\ mcu'.frame = tx.frame
    BY <1>1, <1>2, <2>1 DEF Control
  <2>3. Control'
    BY <1>1, <1>2, <2>1, <2>2 DEF Control
  <2>4. Queue' = <<tx.frame>> \o <<>> \o CanTxChannel /\ Queue = <<>> \o <<tx.frame>> \o CanTxChannel
    BY <1>1, <2>2 DEF Queue, OnBus, InHands
  <2>5. <<tx.frame>> \o <<>> = <<>> \o <<tx.frame>>
    BY <2>1
  <2>6. QED BY <1>1, <1>2, <2>3, <2>4, <2>5 DEF Kind, Still
<1>3. CASE Dropped(tx.frame) /\ UNCHANGED mcu
  BY <1>1, <1>3, KindLost
<1>4. QED BY <1>2, <1>3 DEF TxSend

(* The microcontroller has sent a frame.                                   *)
LEMMA KindTransmit ==
  ASSUME Control, McuTransmit
  PROVE  Control' /\ Kind
<1>1. /\ mcu.sending /\ mcu' = [sending |-> FALSE, frame |-> None]
      /\ UNCHANGED <<sender, next, CanTxChannel, tx, broken>>
  BY DEF McuTransmit
<1>2. Control'
  BY <1>1 DEF Control
<1>3. Queue' = <<>> \o InHands \o CanTxChannel
  BY <1>1 DEF Queue, OnBus, InHands
<1>4. mcu.frame \in Piece /\ Queue # <<>> /\ Head(Queue) = mcu.frame /\ Queue' = Tail(Queue)
  BY <1>1, <1>3, QueueFacts
<1>5. Arrives(mcu.frame)
  BY <1>1, <1>4 DEF McuTransmit, Arrives, Leaves
<1>6. QED BY <1>2, <1>4, <1>5 DEF Kind

(* Every step of the driver is of one of the kinds.                        *)
LEMMA Kinds ==
  ASSUME Control, Types, [Next]_vars
  PROVE  Control' /\ Kind
<1>1. CASE InitSPI \/ InitWait \/ InitSignature \/ InitDrain
  BY <1>1, Nothing DEF InitSPI, InitWait, InitSignature, InitDrain
<1>2. CASE McuReceive \/ Interrupt \/ ServeTake
  BY <1>2, Nothing DEF McuReceive, Interrupt, ServeTake
<1>3. ASSUME NEW h \in Thread, Rx(h) PROVE Control' /\ Kind
  BY <1>3, Nothing DEF Rx, RxCheck, RxFetch, RxAck, RxPut
<1>4. CASE UNCHANGED vars
  BY <1>4, Nothing DEF vars
<1>5. QED
  BY <1>1, <1>2, <1>3, <1>4, KindReset, KindBegin, KindFrame, KindTake, KindStore, KindSend, KindTransmit
     DEF Next, Initialize, Tx
-----------------------------------------------------------------------------
Senders == [Sender -> Sending]
Lines == [NodeId -> SUBSET Entry]
Unique(L) == \A i \in NodeId : \A d, e \in L[i] : d.no = e.no => d = e

(* The fields of messages, entries and frames.                             *)
LEMMA Fields ==
  ASSUME NEW S \in Senders, NEW L \in Lines, NEW Q \in Seq(Piece)
  PROVE  /\ \A s \in Sender : S[s] # None =>
              S[s].to \in NodeId /\ S[s].no \in Nat /\ S[s].k \in Nat /\ S[s].t \in Nat
         /\ \A i \in NodeId : \A e \in L[i] :
              e \in Entry /\ e.no \in Nat /\ e.from \in Sender /\ e.open \in BOOLEAN /\ e.overlap \in BOOLEAN
         /\ Len(Q) \in Nat /\ DOMAIN Q = 1..Len(Q)
         /\ \A a \in DOMAIN Q : Q[a] \in Piece /\ Q[a].to \in NodeId /\ Q[a].no \in Nat
                                /\ Q[a].k \in Nat /\ Q[a].k > 0 /\ Q[a].t \in Nat
<1>1. \A s \in Sender : S[s] # None =>
        S[s].to \in NodeId /\ S[s].no \in Nat /\ S[s].k \in Nat /\ S[s].t \in Nat
  BY DEF Senders, Sending
<1>2. \A i \in NodeId : \A e \in L[i] :
        e \in Entry /\ e.no \in Nat /\ e.from \in Sender /\ e.open \in BOOLEAN /\ e.overlap \in BOOLEAN
  BY DEF Lines, Entry
<1>3. Len(Q) \in Nat /\ DOMAIN Q = 1..Len(Q) /\ \A a \in DOMAIN Q : Q[a] \in Piece
  OBVIOUS
<1>4. \A f \in Piece : f.to \in NodeId /\ f.no \in Nat /\ f.k \in Nat /\ f.k > 0 /\ f.t \in Nat
  BY DEF Piece
<1>5. QED BY <1>1, <1>2, <1>3, <1>4

(* A message begins.                                                       *)
Opening(e, d, B) ==
  /\ e.no = d.no /\ e.from = d.from /\ e.open = d.open
  /\ e.overlap = (d.overlap \/ (d.open /\ B))

Opens(n, S, L, s, j, t, B, x, T, M) ==
  /\ S[s] = None
  /\ T = [S EXCEPT ![s] = [to |-> j, no |-> n, k |-> 0, t |-> t]]
  /\ B <=> \E r \in Sender : S[r] # None /\ S[r].to = j
  /\ \A i \in NodeId : i # j => M[i] = L[i]
  /\ x \in M[j] /\ x.no = n /\ x.from = s /\ x.open /\ x.overlap = B
  /\ \A e \in M[j] : e = x \/ \E d \in L[j] : Opening(e, d, B)
  /\ \A d \in L[j] : \E e \in M[j] : Opening(e, d, B)

(* SendMessage begins a message, with a new number: the numbers stay       *)
(* unique, the order is kept, and nothing is missing of it yet.            *)
LEMMA BeginStep ==
  ASSUME NEW n \in Nat, NEW S \in Senders, NEW L \in Lines, NEW Q \in Seq(Piece), NEW D,
         NEW P \in [NodeId -> Seq(Piece)],
         Numbered(n, S, L), Queued(n, S, L, Q), Ordered(L, Q), Unbroken(D, S, L, Q, P),
         NEW s \in Sender, NEW j \in NodeId, NEW t \in Nat \ {0}, NEW B \in BOOLEAN, NEW x,
         NEW T \in Senders, NEW M \in Lines, Opens(n, S, L, s, j, t, B, x, T, M)
  PROVE  Numbered(n + 1, T, M) /\ Queued(n + 1, T, M, Q) /\ Ordered(M, Q) /\ Unbroken(D, T, M, Q, P)
<1> DEFINE m == [to |-> j, no |-> n, k |-> 0, t |-> t]
<1> /\ S[s] = None
    /\ T = [S EXCEPT ![s] = [to |-> j, no |-> n, k |-> 0, t |-> t]]
    /\ B <=> \E r \in Sender : S[r] # None /\ S[r].to = j
    /\ \A i \in NodeId : i # j => M[i] = L[i]
    /\ x \in M[j] /\ x.no = n /\ x.from = s /\ x.open /\ x.overlap = B
    /\ \A e \in M[j] : e = x \/ \E d \in L[j] : Opening(e, d, B)
    /\ \A d \in L[j] : \E e \in M[j] : Opening(e, d, B)
  BY DEF Opens
<1>0. /\ T[s] = m /\ m # None /\ m.to = j /\ m.no = n /\ m.k = 0 /\ m.t = t
      /\ \A r \in Sender : r # s => T[r] = S[r]
  <2>1. m # None
    BY DEF None
  <2>2. QED BY <2>1 DEF Senders
<1>1. \A i \in NodeId : \A e \in M[i] :
        (i = j /\ e = x) \/ \E d \in L[i] : /\ e.no = d.no /\ e.from = d.from /\ e.open = d.open
                                            /\ d.overlap => e.overlap
                                            /\ i = j /\ d.open /\ B => e.overlap
  <2>1. \A e \in M[j] : e = x \/ \E d \in L[j] : Opening(e, d, B)
    OBVIOUS
  <2>2. ASSUME NEW e, NEW d \in L[j], Opening(e, d, B)
        PROVE  /\ e.no = d.no /\ e.from = d.from /\ e.open = d.open
               /\ d.overlap => e.overlap
               /\ d.open /\ B => e.overlap
    BY <2>2 DEF Opening
  <2>3. ASSUME NEW i \in NodeId, i # j, NEW e \in M[i] PROVE e \in L[i]
    BY <2>3
  <2>4. QED BY <2>1, <2>2, <2>3
<1>2. \A i \in NodeId : \A d \in L[i] : \E e \in M[i] :
        e.no = d.no /\ e.from = d.from /\ e.open = d.open
  <2>1. ASSUME NEW d \in L[j] PROVE \E e \in M[j] : e.no = d.no /\ e.from = d.from /\ e.open = d.open
    <3>1. PICK e \in M[j] : Opening(e, d, B)
      OBVIOUS
    <3>2. QED BY <3>1 DEF Opening
  <2>2. ASSUME NEW i \in NodeId, i # j PROVE M[i] = L[i]
    BY <2>2
  <2>3. QED BY <2>1, <2>2
<1>3. \A i \in NodeId : \A d \in L[i] : d.no \in Nat /\ d.no < n
  BY Fields DEF Numbered
<1>4. Numbered(n + 1, T, M)
  <2>1. ASSUME NEW i \in NodeId, NEW e \in M[i]
        PROVE  e.no < n + 1 /\ (e.open => T[e.from] # None /\ T[e.from].no = e.no /\ T[e.from].to = i)
    <3>1. CASE i = j /\ e = x
      BY <1>0, <3>1
    <3>2. CASE \E d \in L[i] : e.no = d.no /\ e.from = d.from /\ e.open = d.open
      <4>1. PICK d \in L[i] : e.no = d.no /\ e.from = d.from /\ e.open = d.open
        BY <3>2
      <4>2. d.open => S[d.from] # None /\ S[d.from].no = d.no /\ S[d.from].to = i
        BY DEF Numbered
      <4>3. d.from \in Sender
        BY Fields
      <4>4. d.open => T[d.from] = S[d.from]
        BY <1>0, <4>2, <4>3
      <4>5. QED BY <1>3, <4>1, <4>2, <4>4
    <3>3. QED BY <1>1, <3>1, <3>2
  <2>2. ASSUME NEW r \in Sender, T[r] # None
        PROVE  /\ T[r].no < n + 1 /\ T[r].k < T[r].t
               /\ \E e \in M[T[r].to] : e.no = T[r].no /\ e.from = r /\ e.open
    <3>1. CASE r = s
      <4>1. T[r].no < n + 1 /\ T[r].k < T[r].t
        BY <1>0, <3>1
      <4>2. x \in M[T[r].to] /\ x.no = T[r].no /\ x.from = r /\ x.open
        BY <1>0, <3>1
      <4>3. QED BY <4>1, <4>2
    <3>2. CASE r # s
      <4>1. T[r] = S[r] /\ S[r] # None /\ S[r].to \in NodeId /\ S[r].no \in Nat
        BY <1>0, <2>2, <3>2, Fields
      <4>2. S[r].no < n /\ S[r].k < S[r].t /\ \E e \in L[S[r].to] : e.no = S[r].no /\ e.from = r /\ e.open
        BY <4>1 DEF Numbered
      <4>3. PICK d \in L[S[r].to] : d.no = S[r].no /\ d.from = r /\ d.open
        BY <4>2
      <4>4. PICK e \in M[S[r].to] : e.no = d.no /\ e.from = d.from /\ e.open = d.open
        BY <1>2, <4>1, <4>3
      <4>5. T[r].no < n + 1
        BY <4>1, <4>2
      <4>6. e \in M[T[r].to] /\ e.no = T[r].no /\ e.from = r /\ e.open
        BY <4>1, <4>3, <4>4
      <4>7. T[r].k < T[r].t
        BY <4>1, <4>2
      <4>8. QED BY <4>5, <4>6, <4>7
    <3>3. QED BY <3>1, <3>2
  <2>3. ASSUME NEW r \in Sender, NEW q \in Sender, T[r] # None, T[q] # None, T[r].no = T[q].no
        PROVE  r = q
    <3>1. \A u \in Sender : S[u] # None => S[u].no \in Nat /\ S[u].no < n
      BY Fields DEF Numbered
    <3>2. QED BY <1>0, <2>3, <3>1 DEF Numbered
  <2>4. QED BY <2>1, <2>2, <2>3 DEF Numbered
<1>5. ASSUME NEW i \in NodeId, NEW no, Listed(i, no, L) PROVE Listed(i, no, M)
  <2>1. PICK d \in L[i] : d.no = no
    BY <1>5 DEF Listed
  <2>2. PICK e \in M[i] : e.no = d.no
    BY <1>2, <2>1
  <2>3. QED BY <2>1, <2>2 DEF Listed
<1>6. \A a \in DOMAIN Q : Q[a].no \in Nat /\ Q[a].no < n /\ Q[a].to \in NodeId
  BY Fields DEF Queued
<1>7. Queued(n + 1, T, M, Q)
  <2>1. \A a \in DOMAIN Q : Q[a].no < n + 1 /\ Q[a].k <= Q[a].t /\ Listed(Q[a].to, Q[a].no, M)
    BY <1>5, <1>6 DEF Queued
  <2>2. \A a \in DOMAIN Q, r \in Sender : T[r] # None /\ Q[a].no = T[r].no =>
          Q[a].to = T[r].to /\ Q[a].k <= T[r].k /\ Q[a].t = T[r].t
    BY <1>0, <1>6 DEF Queued
  <2>3. \A i \in NodeId : \A e \in M[i] : e.open \/ Last(i, e.no, Q)
    BY <1>1 DEF Queued
  <2>4. QED BY <2>1, <2>2, <2>3 DEF Queued
<1>8. \A i \in NodeId : \A no \in Nat : no < n /\ Mixed(i, no, L) => Mixed(i, no, M)
  <2>1. ASSUME NEW i \in NodeId, NEW no \in Nat, no < n, Mixed(i, no, L), NEW e \in M[i], e.no = no
        PROVE  e.overlap
    <3>1. CASE i = j /\ e = x
      <4>1. e.no = n /\ ~(n < n)
        BY <3>1
      <4>2. QED BY <2>1, <4>1
    <3>2. CASE \E d \in L[i] : e.no = d.no /\ (d.overlap => e.overlap)
      BY <2>1, <3>2, Zenon DEF Mixed
    <3>3. QED BY <1>1, <3>1, <3>2, Zenon
  <2>2. QED BY <2>1, Zenon DEF Mixed
<1>9. Ordered(M, Q)
  <2>1. ASSUME NEW i \in NodeId, NEW d \in M[i], NEW e \in M[i], d.no < e.no, d.open
        PROVE  d.overlap /\ e.overlap
    <3>1. e.no < n + 1 /\ e.no \in Nat /\ d.no \in Nat
      BY <1>4, Fields DEF Numbered
    <3>2. d # x
      BY <2>1, <3>1
    <3>3. PICK b \in L[i] : /\ d.no = b.no /\ d.from = b.from /\ d.open = b.open
                            /\ b.overlap => d.overlap
                            /\ i = j /\ b.open /\ B => d.overlap
      BY <1>1, <3>2
    <3>4. CASE i = j /\ e = x
      <4>1. b.from \in Sender /\ S[b.from] # None /\ S[b.from].to = j
        BY <2>1, <3>3, <3>4, Fields DEF Numbered
      <4>2. B
        BY <4>1
      <4>3. QED BY <2>1, <3>3, <3>4, <4>2
    <3>5. CASE ~(i = j /\ e = x)
      <4>1. PICK c \in L[i] : e.no = c.no /\ (c.overlap => e.overlap)
        BY <1>1, <3>5
      <4>2. b.overlap /\ c.overlap
        BY <2>1, <3>3, <4>1 DEF Ordered
      <4>3. QED BY <3>3, <4>1, <4>2
    <3>6. QED BY <3>4, <3>5
  <2>2. QED BY <1>6, <1>8, <2>1 DEF Ordered
<1>10. ASSUME NEW i \in NodeId \ D PROVE Begun(i, T, M, Q, P[i])
  <2>1. Begun(i, S, L, Q, P[i])
    BY DEF Unbroken
  <2>2. SUFFICES ASSUME P[i] # <<>> PROVE Begun(i, T, M, Q, P[i])
    BY DEF Begun
  <2>3. PICK d \in L[i] : d.no = P[i][1].no
    BY <2>1, <2>2 DEF Begun, Listed
  <2>4. P[i][1].no \in Nat /\ P[i][1].no < n
    BY <1>3, <2>3
  <2>5. \A r \in Sender : T[r] # None /\ T[r].to = i /\ T[r].no = P[i][1].no => T[r].k > 0
    BY <1>0, <2>1, <2>2, <2>4 DEF Begun
  <2>6. ASSUME NEW e \in M[i], e.no < P[i][1].no
        PROVE  e.overlap /\ Mixed(i, P[i][1].no, M)
    <3>1. e # x
      BY <2>4, <2>6
    <3>2. PICK c \in L[i] : e.no = c.no /\ (c.overlap => e.overlap)
      BY <1>1, <3>1
    <3>3. c.overlap /\ Mixed(i, P[i][1].no, L)
      BY <2>1, <2>2, <2>6, <3>2 DEF Begun
    <3>4. QED BY <1>8, <2>4, <3>2, <3>3
  <2>7. QED BY <1>5, <2>1, <2>2, <2>5, <2>6 DEF Begun
<1>11. ASSUME NEW i \in NodeId \ D PROVE Complete(i, T, M, Q, P[i])
  <2>1. Complete(i, S, L, Q, P[i])
    BY DEF Unbroken
  <2>2. SUFFICES ASSUME NEW e \in M[i], ~e.overlap
                 PROVE  /\ \A a \in DOMAIN Q :
                             Q[a].to = i /\ Q[a].no = e.no => Sent(i, e.no, Q[a].k - 1, Q, a, P[i])
                        /\ \A r \in Sender : T[r] # None /\ T[r].to = i /\ T[r].no = e.no =>
                             Sent(i, e.no, T[r].k, Q, Len(Q) + 1, P[i])
    BY DEF Complete
  <2>3. CASE i = j /\ e = x
    <3>1. \A r \in Sender : r # s /\ S[r] # None => S[r].no \in Nat /\ S[r].no < n
      BY Fields DEF Numbered
    <3>2. \A r \in Sender : T[r] # None /\ T[r].no = e.no => T[r].k = 0
      BY <1>0, <2>3, <3>1
    <3>3. QED BY <1>6, <2>3, <3>2 DEF Sent
  <2>4. CASE ~(i = j /\ e = x)
    <3>1. PICK d \in L[i] : e.no = d.no /\ (d.overlap => e.overlap)
      BY <1>1, <2>4
    <3>2. ~d.overlap /\ d.no < n /\ d.no \in Nat
      BY <1>3, <2>2, <3>1
    <3>3. QED BY <1>0, <2>1, <3>1, <3>2 DEF Complete
  <2>5. QED BY <2>3, <2>4
<1>12. QED BY <1>4, <1>7, <1>9, <1>10, <1>11 DEF Unbroken

(* A sender adds a frame, its last one if Z.                               *)
Closing(e, d, c) ==
  /\ e.no = d.no /\ e.from = d.from /\ e.overlap = d.overlap
  /\ e.open = (d.open /\ ~c)

Extends(S, L, Q, s, x, Z, T, M, R) ==
  /\ S[s] # None /\ x.to = S[s].to /\ x.no = S[s].no /\ x.k = S[s].k + 1 /\ x.t = S[s].t
  /\ R = Append(Q, x)
  /\ Z <=> x.k = x.t
  /\ T[s] = (IF Z THEN None ELSE x) /\ \A r \in Sender : r # s => T[r] = S[r]
  /\ \A i \in NodeId : \A e \in M[i] : \E d \in L[i] : Closing(e, d, Z /\ i = x.to /\ d.from = s)
  /\ \A i \in NodeId : \A d \in L[i] : \E e \in M[i] : Closing(e, d, Z /\ i = x.to /\ d.from = s)

(* SendMessage puts the next frame of a message at the end of the queue,   *)
(* after those before it; with the last one the message is not open any    *)
(* more.                                                                   *)
LEMMA AddStep ==
  ASSUME NEW n \in Nat, NEW S \in Senders, NEW L \in Lines, NEW Q \in Seq(Piece), NEW D,
         NEW P \in [NodeId -> Seq(Piece)], Unique(L),
         Numbered(n, S, L), Queued(n, S, L, Q), Ordered(L, Q), Unbroken(D, S, L, Q, P),
         NEW s \in Sender, NEW x \in Piece, NEW R \in Seq(Piece), NEW Z \in BOOLEAN,
         NEW T \in Senders, NEW M \in Lines, Extends(S, L, Q, s, x, Z, T, M, R)
  PROVE  Numbered(n, T, M) /\ Queued(n, T, M, R) /\ Ordered(M, R) /\ Unbroken(D, T, M, R, P)
<1> DEFINE m == S[s]
<1> /\ S[s] # None /\ x.to = S[s].to /\ x.no = S[s].no /\ x.k = S[s].k + 1 /\ x.t = S[s].t
    /\ R = Append(Q, x)
    /\ Z <=> x.k = x.t
    /\ T[s] = (IF Z THEN None ELSE x) /\ \A r \in Sender : r # s => T[r] = S[r]
    /\ \A i \in NodeId : \A e \in M[i] : \E d \in L[i] : Closing(e, d, Z /\ i = x.to /\ d.from = s)
    /\ \A i \in NodeId : \A d \in L[i] : \E e \in M[i] : Closing(e, d, Z /\ i = x.to /\ d.from = s)
  BY DEF Extends
<1>0. /\ m.to \in NodeId /\ m.no \in Nat /\ m.k \in Nat /\ m.t \in Nat /\ m.no < n /\ m.k < m.t
      /\ x.k <= x.t /\ x # None
  <2>1. m.to \in NodeId /\ m.no \in Nat /\ m.k \in Nat /\ m.t \in Nat /\ m.no < n /\ m.k < m.t
    BY Fields DEF Numbered
  <2>2. x # None
    BY <2>1 DEF None
  <2>3. QED BY <2>1, <2>2
<1>1. /\ Len(R) = Len(Q) + 1 /\ Len(Q) \in Nat /\ DOMAIN Q = 1..Len(Q) /\ DOMAIN R = 1..(Len(Q) + 1)
      /\ R[Len(Q) + 1] = x
      /\ \A a \in DOMAIN Q : a \in DOMAIN R /\ R[a] = Q[a]
      /\ \A a \in DOMAIN R : a \in DOMAIN Q \/ a = Len(Q) + 1
  OBVIOUS
<1>2. PICK h \in L[m.to] : h.no = m.no /\ h.from = s /\ h.open
  BY DEF Numbered
<1>3. ASSUME NEW i \in NodeId, NEW e \in M[i]
      PROVE  \E d \in L[i] : /\ e.no = d.no /\ e.from = d.from /\ e.overlap = d.overlap
                             /\ e.open => d.open /\ ~(Z /\ i = x.to /\ d.from = s)
                             /\ d.open /\ ~e.open => Z /\ i = x.to /\ d.from = s
  <2>1. PICK d \in L[i] : Closing(e, d, Z /\ i = x.to /\ d.from = s)
    OBVIOUS
  <2>2. QED BY <2>1 DEF Closing
<1>4. ASSUME NEW i \in NodeId, NEW d \in L[i]
      PROVE  \E e \in M[i] : /\ e.no = d.no /\ e.from = d.from
                             /\ d.open /\ ~(Z /\ i = x.to /\ d.from = s) => e.open
  <2>1. PICK e \in M[i] : Closing(e, d, Z /\ i = x.to /\ d.from = s)
    OBVIOUS
  <2>2. QED BY <2>1 DEF Closing
<1>5. ASSUME NEW i \in NodeId, NEW no, Listed(i, no, L) PROVE Listed(i, no, M)
  <2>1. PICK d \in L[i] : d.no = no
    BY <1>5 DEF Listed
  <2>2. PICK e \in M[i] : e.no = d.no
    BY <1>4, <2>1
  <2>3. QED BY <2>1, <2>2 DEF Listed
<1>6. ASSUME NEW i \in NodeId, NEW no, Mixed(i, no, L) PROVE Mixed(i, no, M)
  BY <1>3, <1>6 DEF Mixed
<1>7. \A r \in Sender : T[r] # None =>
        /\ S[r] # None /\ T[r].to = S[r].to /\ T[r].no = S[r].no /\ T[r].t = S[r].t
        /\ r # s => T[r] = S[r]
        /\ r = s => ~Z /\ T[r].k = x.k
  OBVIOUS
<1>8. Numbered(n, T, M)
  <2>1. ASSUME NEW i \in NodeId, NEW e \in M[i]
        PROVE  e.no < n /\ (e.open => T[e.from] # None /\ T[e.from].no = e.no /\ T[e.from].to = i)
    <3>1. PICK d \in L[i] : /\ e.no = d.no /\ e.from = d.from
                            /\ e.open => d.open /\ ~(Z /\ i = x.to /\ d.from = s)
      BY <1>3
    <3>2. d.no < n /\ (d.open => S[d.from] # None /\ S[d.from].no = d.no /\ S[d.from].to = i)
      BY DEF Numbered
    <3>3. d.from \in Sender
      BY Fields
    <3>4. CASE d.from # s
      BY <3>1, <3>2, <3>3, <3>4
    <3>5. CASE d.from = s
      BY <1>0, <3>1, <3>2, <3>5
    <3>6. QED BY <3>4, <3>5
  <2>2. ASSUME NEW r \in Sender, T[r] # None
        PROVE  /\ T[r].no < n /\ T[r].k < T[r].t
               /\ \E e \in M[T[r].to] : e.no = T[r].no /\ e.from = r /\ e.open
    <3>1. S[r] # None /\ T[r].to = S[r].to /\ T[r].no = S[r].no /\ S[r].to \in NodeId
      BY <1>7, <2>2, Fields
    <3>2. /\ S[r].no < n /\ S[r].k < S[r].t
          /\ \E d \in L[S[r].to] : d.no = S[r].no /\ d.from = r /\ d.open
      BY <3>1 DEF Numbered
    <3>3. PICK d \in L[S[r].to] : d.no = S[r].no /\ d.from = r /\ d.open
      BY <3>2
    <3>4. ~(Z /\ d.from = s)
      BY <1>7, <2>2, <3>3
    <3>5. PICK e \in M[S[r].to] : /\ e.no = d.no /\ e.from = d.from
                                  /\ d.open /\ ~(Z /\ S[r].to = x.to /\ d.from = s) => e.open
      BY <1>4, <3>1
    <3>6. e.open
      BY <3>3, <3>4, <3>5
    <3>7. T[r].k < T[r].t
      BY <1>0, <1>7, <2>2, <3>2
    <3>8. QED BY <3>1, <3>2, <3>3, <3>5, <3>6, <3>7
  <2>3. ASSUME NEW r \in Sender, NEW q \in Sender, T[r] # None, T[q] # None, T[r].no = T[q].no
        PROVE  r = q
    BY <1>7, <2>3 DEF Numbered
  <2>4. QED BY <2>1, <2>2, <2>3 DEF Numbered
<1>9. Queued(n, T, M, R)
  <2>1. ASSUME NEW a \in DOMAIN R PROVE R[a].no < n /\ R[a].k <= R[a].t /\ Listed(R[a].to, R[a].no, M)
    <3>1. CASE a \in DOMAIN Q
      <4>1. R[a] = Q[a] /\ Q[a].to \in NodeId
        BY <1>1, <3>1, Fields
      <4>2. QED BY <1>5, <3>1, <4>1 DEF Queued
    <3>2. CASE a = Len(Q) + 1
      <4>1. Listed(m.to, m.no, L)
        BY <1>2 DEF Listed
      <4>2. QED BY <1>0, <1>1, <1>5, <3>2, <4>1
    <3>3. QED BY <1>1, <3>1, <3>2
  <2>2. ASSUME NEW a \in DOMAIN R, NEW b \in DOMAIN R, a < b, R[a].no = R[b].no
        PROVE  R[a].to = R[b].to /\ R[a].k < R[b].k /\ R[a].t = R[b].t
    <3>1. a \in DOMAIN Q /\ R[a] = Q[a]
      BY <1>1, <2>2
    <3>2. CASE b \in DOMAIN Q
      BY <1>1, <2>2, <3>1, <3>2 DEF Queued
    <3>3. CASE b = Len(Q) + 1
      <4>1. Q[a].to = m.to /\ Q[a].k <= m.k /\ Q[a].t = m.t
        BY <1>1, <2>2, <3>1, <3>3 DEF Queued
      <4>2. Q[a].k \in Nat
        BY <3>1, Fields
      <4>3. QED BY <1>0, <1>1, <3>1, <3>3, <4>1, <4>2
    <3>4. QED BY <1>1, <3>2, <3>3
  <2>3. ASSUME NEW a \in DOMAIN R, NEW r \in Sender, T[r] # None, R[a].no = T[r].no
        PROVE  R[a].to = T[r].to /\ R[a].k <= T[r].k /\ R[a].t = T[r].t
    <3>1. CASE a \in DOMAIN Q
      <4>1. S[r] # None /\ Q[a].no = S[r].no /\ R[a] = Q[a] /\ Q[a].k \in Nat /\ S[r].k \in Nat
        BY <1>1, <1>7, <2>3, <3>1, Fields
      <4>2. Q[a].to = S[r].to /\ Q[a].k <= S[r].k /\ Q[a].t = S[r].t
        BY <3>1, <4>1 DEF Queued
      <4>3. QED BY <1>0, <1>7, <2>3, <4>1, <4>2
    <3>2. CASE a = Len(Q) + 1
      <4>1. R[a] = x /\ S[r].no = m.no /\ S[r] # None
        BY <1>1, <1>7, <2>3, <3>2
      <4>2. r = s
        BY <4>1 DEF Numbered
      <4>3. QED BY <1>0, <1>7, <2>3, <4>1, <4>2
    <3>3. QED BY <1>1, <3>1, <3>2
  <2>4. ASSUME NEW i \in NodeId, NEW e \in M[i] PROVE e.open \/ Last(i, e.no, R)
    <3>1. PICK d \in L[i] : e.no = d.no /\ (d.open /\ ~e.open => Z /\ i = x.to /\ d.from = s)
      BY <1>3
    <3>2. CASE Last(i, d.no, Q)
      <4>1. PICK a \in DOMAIN Q : Q[a].to = i /\ Q[a].no = d.no /\ Q[a].k = Q[a].t
        BY <3>2 DEF Last
      <4>2. a \in DOMAIN R /\ R[a] = Q[a]
        BY <1>1
      <4>3. QED BY <3>1, <4>1, <4>2 DEF Last
    <3>3. CASE d.open /\ ~e.open
      <4>1. x.k = x.t /\ x.to = i /\ x.no = d.no
        BY <3>1, <3>3 DEF Numbered
      <4>2. Len(Q) + 1 \in DOMAIN R /\ R[Len(Q) + 1] = x
        BY <1>1
      <4>3. QED BY <3>1, <4>1, <4>2 DEF Last
    <3>4. QED BY <3>2, <3>3 DEF Queued
  <2>5. QED BY <2>1, <2>2, <2>3, <2>4 DEF Queued
<1>10. Ordered(M, R)
  <2>1. ASSUME NEW i \in NodeId, NEW d \in M[i], NEW e \in M[i], d.no < e.no, d.open
        PROVE  d.overlap /\ e.overlap
    <3>1. PICK b \in L[i] : d.no = b.no /\ d.overlap = b.overlap /\ b.open
      BY <1>3, <2>1
    <3>2. PICK c \in L[i] : e.no = c.no /\ e.overlap = c.overlap
      BY <1>3
    <3>3. QED BY <2>1, <3>1, <3>2 DEF Ordered
  <2>2. ASSUME NEW a \in DOMAIN R, NEW b \in DOMAIN R, a < b, R[a].to = R[b].to, R[b].no < R[a].no
        PROVE  Mixed(R[a].to, R[a].no, M) /\ Mixed(R[a].to, R[b].no, M)
    <3>1. a \in DOMAIN Q /\ R[a] = Q[a] /\ Q[a].to \in NodeId
      BY <1>1, <2>2, Fields
    <3>2. Mixed(Q[a].to, Q[a].no, L) /\ Mixed(Q[a].to, R[b].no, L)
      <4>1. CASE b \in DOMAIN Q
        BY <1>1, <2>2, <3>1, <4>1 DEF Ordered
      <4>2. CASE b = Len(Q) + 1
        <5>1. h \in L[Q[a].to] /\ h.no < Q[a].no /\ R[b].no = h.no
          BY <1>1, <1>2, <2>2, <3>1, <4>2
        <5>2. \A e \in L[Q[a].to] : e.no = Q[a].no => h.overlap /\ e.overlap
          BY <1>2, <3>1, <5>1 DEF Ordered
        <5>3. \E e \in L[Q[a].to] : e.no = Q[a].no
          BY <3>1 DEF Queued, Listed
        <5>4. \A e \in L[Q[a].to] : e.no = h.no => e = h
          BY <3>1, <5>1 DEF Unique
        <5>5. QED BY <5>1, <5>2, <5>3, <5>4 DEF Mixed
      <4>3. QED BY <1>1, <4>1, <4>2
    <3>3. QED BY <1>6, <3>1, <3>2
  <2>3. QED BY <2>1, <2>2 DEF Ordered
<1>11. ASSUME NEW i \in NodeId \ D PROVE Begun(i, T, M, R, P[i])
  <2>1. Begun(i, S, L, Q, P[i])
    BY DEF Unbroken
  <2>2. SUFFICES ASSUME P[i] # <<>> PROVE Begun(i, T, M, R, P[i])
    BY DEF Begun
  <2>3. Listed(i, P[i][1].no, M)
    BY <1>5, <2>1, <2>2 DEF Begun
  <2>4. S[s].to = i /\ S[s].no = P[i][1].no => S[s].k > 0
    BY <2>1, <2>2 DEF Begun
  <2>5. \A a \in DOMAIN R : R[a].to = i /\ R[a].no = P[i][1].no => R[a].k > 1
    <3>1. \A a \in DOMAIN Q : R[a].to = i /\ R[a].no = P[i][1].no => R[a].k > 1
      BY <1>1, <2>1, <2>2 DEF Begun
    <3>2. x.to = i /\ x.no = P[i][1].no => x.k > 1
      BY <1>0, <2>4
    <3>3. QED BY <1>1, <3>1, <3>2
  <2>6. \A r \in Sender : T[r] # None /\ T[r].to = i /\ T[r].no = P[i][1].no => T[r].k > 0
    BY <1>0, <1>7, <2>1, <2>2 DEF Begun
  <2>7. ASSUME NEW e \in M[i], e.no < P[i][1].no PROVE e.overlap /\ Mixed(i, P[i][1].no, M)
    <3>1. PICK d \in L[i] : e.no = d.no /\ e.overlap = d.overlap
      BY <1>3
    <3>2. d.overlap /\ Mixed(i, P[i][1].no, L)
      BY <2>1, <2>2, <2>7, <3>1 DEF Begun
    <3>3. QED BY <1>6, <3>1, <3>2
  <2>8. QED BY <2>3, <2>5, <2>6, <2>7 DEF Begun
<1>12. ASSUME NEW i \in NodeId \ D PROVE Complete(i, T, M, R, P[i])
  <2>1. Complete(i, S, L, Q, P[i])
    BY DEF Unbroken
  <2>2. SUFFICES ASSUME NEW e \in M[i], ~e.overlap
                 PROVE  /\ \A a \in DOMAIN R :
                             R[a].to = i /\ R[a].no = e.no => Sent(i, e.no, R[a].k - 1, R, a, P[i])
                        /\ \A r \in Sender : T[r] # None /\ T[r].to = i /\ T[r].no = e.no =>
                             Sent(i, e.no, T[r].k, R, Len(R) + 1, P[i])
    BY DEF Complete
  <2>3. PICK d \in L[i] : e.no = d.no /\ e.overlap = d.overlap
    BY <1>3
  <2>4. ASSUME NEW c, NEW p \in Nat, NEW q \in Nat, p <= q, Sent(i, e.no, c, Q, p, P[i])
        PROVE  Sent(i, e.no, c, R, q, P[i])
    BY <1>1, <2>4 DEF Sent, Before
  <2>5. ASSUME NEW a \in DOMAIN R, R[a].to = i, R[a].no = e.no
        PROVE  Sent(i, e.no, R[a].k - 1, R, a, P[i])
    <3>1. CASE a \in DOMAIN Q
      <4>1. Sent(i, e.no, Q[a].k - 1, Q, a, P[i])
        BY <1>1, <2>1, <2>2, <2>3, <2>5, <3>1 DEF Complete
      <4>2. QED BY <1>1, <2>4, <3>1, <4>1
    <3>2. CASE a = Len(Q) + 1
      <4>1. Sent(i, e.no, m.k, Q, Len(Q) + 1, P[i])
        BY <1>1, <2>1, <2>2, <2>3, <2>5, <3>2 DEF Complete
      <4>2. R[a].k - 1 = m.k
        <5>1. R[a] = x /\ x.k = m.k + 1 /\ m.k \in Nat
          BY <1>0, <1>1, <3>2
        <5>2. \A y \in Nat : (y + 1) - 1 = y
          OBVIOUS
        <5>3. R[a].k = m.k + 1
          BY <5>1, Zenon
        <5>4. QED BY <5>1, <5>2, <5>3, Zenon
      <4>3. QED BY <1>1, <2>4, <3>2, <4>1, <4>2
    <3>3. QED BY <1>1, <3>1, <3>2
  <2>6. ASSUME NEW r \in Sender, T[r] # None, T[r].to = i, T[r].no = e.no
        PROVE  Sent(i, e.no, T[r].k, R, Len(R) + 1, P[i])
    <3>1. CASE r # s
      <4>1. Sent(i, e.no, T[r].k, Q, Len(Q) + 1, P[i])
        BY <1>7, <2>1, <2>2, <2>3, <2>6, <3>1 DEF Complete
      <4>2. QED BY <1>1, <2>4, <4>1
    <3>2. CASE r = s
      <4>1. T[r].k = x.k /\ x.to = i /\ x.no = e.no
        BY <1>7, <2>6, <3>2
      <4>2. Len(Q) + 1 \in DOMAIN R /\ R[Len(Q) + 1] = x /\ Len(Q) + 1 < Len(R) + 1
        BY <1>1
      <4>3. QED BY <4>1, <4>2 DEF Sent, Before
    <3>3. QED BY <3>1, <3>2
  <2>7. QED BY <2>5, <2>6
<1>13. QED BY <1>8, <1>9, <1>10, <1>11, <1>12 DEF Unbroken

(* The first frame leaves the queue, and its message the line if it was    *)
(* the last one.                                                           *)
Over(f, i) == i = f.to /\ f.k = f.t
Left(L, f) == [i \in NodeId |-> {e \in L[i] : ~(Over(f, i) /\ e.no = f.no)}]

(* The queue without its first frame.                                      *)
LEMMA TailFacts ==
  ASSUME NEW Q \in Seq(Piece), Q # <<>>, NEW R, R = Tail(Q)
  PROVE  /\ R \in Seq(Piece) /\ Len(Q) \in Nat /\ Len(R) = Len(Q) - 1 /\ 1 \in DOMAIN Q /\ Head(Q) = Q[1]
         /\ DOMAIN Q = 1..Len(Q) /\ DOMAIN R = 1..Len(R)
         /\ \A a \in DOMAIN R : a + 1 \in DOMAIN Q /\ a + 1 > 1 /\ R[a] = Q[a + 1]
         /\ \A b \in DOMAIN Q : b # 1 => b - 1 \in DOMAIN R /\ R[b - 1] = Q[b]
OBVIOUS

(* The first frame leaves the queue, and with the last frame of a message  *)
(* its entry: the numbering and the order are kept.                        *)
LEMMA LeaveStep ==
  ASSUME NEW n \in Nat, NEW S \in Senders, NEW L \in Lines, NEW Q \in Seq(Piece),
         Numbered(n, S, L), Queued(n, S, L, Q), Ordered(L, Q),
         Q # <<>>, NEW R, R = Tail(Q), NEW f \in Piece, f = Head(Q)
  PROVE  LET M == Left(L, f) IN Numbered(n, S, M) /\ Queued(n, S, M, R) /\ Ordered(M, R)
<1> DEFINE M == Left(L, f)
<1>0. f = Q[1] /\ 1 \in DOMAIN Q /\ f.to \in NodeId /\ f.no \in Nat /\ f.k \in Nat /\ f.t \in Nat
  BY TailFacts, Fields
<1>1. \A i \in NodeId : M[i] = {e \in L[i] : ~(Over(f, i) /\ e.no = f.no)}
  BY DEF Left
<1>2. Numbered(n, S, M)
  <2>1. ASSUME NEW r \in Sender, S[r] # None
        PROVE  \E e \in M[S[r].to] : e.no = S[r].no /\ e.from = r /\ e.open
    <3>1. PICK e \in L[S[r].to] : e.no = S[r].no /\ e.from = r /\ e.open
      BY <2>1 DEF Numbered
    <3>2. f.no = S[r].no => f.k < f.t
      <4>1. S[r].k < S[r].t /\ S[r].k \in Nat /\ S[r].t \in Nat
        BY <2>1, Fields DEF Numbered
      <4>2. f.no = S[r].no => f.k <= S[r].k /\ f.t = S[r].t
        BY <1>0, <2>1 DEF Queued
      <4>3. QED BY <1>0, <4>1, <4>2
    <3>3. S[r].to \in NodeId
      BY <2>1, Fields
    <3>4. e \in M[S[r].to]
      BY <1>0, <1>1, <3>1, <3>2, <3>3 DEF Over
    <3>5. QED BY <3>1, <3>4
  <2>2. QED BY <1>1, <2>1 DEF Numbered
<1>3. Queued(n, S, M, R)
  <2>1. ASSUME NEW a \in DOMAIN R PROVE R[a].no < n /\ R[a].k <= R[a].t /\ Listed(R[a].to, R[a].no, M)
    <3>1. a + 1 \in DOMAIN Q /\ 1 < a + 1 /\ R[a] = Q[a + 1] /\ R[a].to \in NodeId /\ R[a].k \in Nat
          /\ R[a].t \in Nat
      BY TailFacts, Fields
    <3>2. R[a].no < n /\ R[a].k <= R[a].t /\ Listed(R[a].to, R[a].no, L)
      BY <3>1 DEF Queued
    <3>3. R[a].no = f.no => f.k < f.t
      <4>1. R[a].no = f.no => f.k < R[a].k /\ f.t = R[a].t
        BY <1>0, <3>1 DEF Queued
      <4>2. QED BY <1>0, <3>1, <3>2, <4>1
    <3>4. PICK e \in L[R[a].to] : e.no = R[a].no
      BY <3>2 DEF Listed
    <3>5. e \in M[R[a].to]
      BY <1>0, <1>1, <3>1, <3>3, <3>4 DEF Over
    <3>6. QED BY <3>2, <3>4, <3>5 DEF Listed
  <2>2. ASSUME NEW a \in DOMAIN R, NEW b \in DOMAIN R, a < b, R[a].no = R[b].no
        PROVE  R[a].to = R[b].to /\ R[a].k < R[b].k /\ R[a].t = R[b].t
    <3>1. /\ a + 1 \in DOMAIN Q /\ R[a] = Q[a + 1] /\ b + 1 \in DOMAIN Q /\ R[b] = Q[b + 1]
          /\ a + 1 < b + 1
      BY <2>2, TailFacts
    <3>2. QED BY <2>2, <3>1 DEF Queued
  <2>3. \A a \in DOMAIN R, s \in Sender : S[s] # None /\ R[a].no = S[s].no =>
          R[a].to = S[s].to /\ R[a].k <= S[s].k /\ R[a].t = S[s].t
    BY TailFacts DEF Queued
  <2>4. ASSUME NEW i \in NodeId, NEW e \in M[i], ~e.open PROVE Last(i, e.no, R)
    <3>1. e \in L[i] /\ ~(Over(f, i) /\ e.no = f.no)
      BY <1>1
    <3>2. PICK b \in DOMAIN Q : Q[b].to = i /\ Q[b].no = e.no /\ Q[b].k = Q[b].t
      BY <2>4, <3>1 DEF Queued, Last
    <3>3. b # 1
      BY <1>0, <3>1, <3>2 DEF Over
    <3>4. b - 1 \in DOMAIN R /\ R[b - 1] = Q[b]
      BY <3>3, TailFacts
    <3>5. QED BY <3>2, <3>4 DEF Last
  <2>5. QED BY <2>1, <2>2, <2>3, <2>4 DEF Queued
<1>4. Ordered(M, R)
  <2>1. \A i \in NodeId : \A d, e \in M[i] : d.no < e.no /\ d.open => d.overlap /\ e.overlap
    BY <1>1 DEF Ordered
  <2>2. ASSUME NEW a \in DOMAIN R, NEW b \in DOMAIN R, a < b, R[a].to = R[b].to, R[b].no < R[a].no
        PROVE  Mixed(R[a].to, R[a].no, M) /\ Mixed(R[a].to, R[b].no, M)
    <3>1. /\ a + 1 \in DOMAIN Q /\ R[a] = Q[a + 1] /\ b + 1 \in DOMAIN Q /\ R[b] = Q[b + 1]
          /\ a + 1 < b + 1 /\ R[a].to \in NodeId
      BY <2>2, TailFacts, Fields
    <3>2. Mixed(R[a].to, R[a].no, L) /\ Mixed(R[a].to, R[b].no, L)
      BY <2>2, <3>1 DEF Ordered
    <3>3. QED BY <1>1, <3>1, <3>2 DEF Mixed
  <2>3. QED BY <2>1, <2>2 DEF Ordered
<1>5. QED BY <1>2, <1>3, <1>4

(* Other nodes than that of the frame do not notice.                       *)
LEMMA LeaveOther ==
  ASSUME NEW S \in Senders, NEW L \in Lines, NEW Q \in Seq(Piece),
         Q # <<>>, NEW R, R = Tail(Q), NEW f \in Piece, f = Head(Q),
         NEW i \in NodeId, i # f.to, NEW q \in Seq(Piece), Begun(i, S, L, Q, q), Complete(i, S, L, Q, q)
  PROVE  Begun(i, S, Left(L, f), R, q) /\ Complete(i, S, Left(L, f), R, q)
<1> DEFINE M == Left(L, f)
<1>1. M[i] = L[i]
  BY DEF Left, Over
<1>2. Begun(i, S, M, R, q)
  <2>1. \A a \in DOMAIN R : \E b \in DOMAIN Q : R[a] = Q[b]
    BY TailFacts
  <2>2. \A no : Mixed(i, no, L) => Mixed(i, no, M)
    BY <1>1 DEF Mixed
  <2>3. QED BY <1>1, <2>1, <2>2 DEF Begun, Listed
<1>3. ASSUME NEW no, NEW c, NEW p \in Nat, p > 0, Sent(i, no, c, Q, p, q)
      PROVE  Sent(i, no, c, R, p - 1, q)
  <2>1. ASSUME Before(i, no, c, Q, p) PROVE Before(i, no, c, R, p - 1)
    <3>1. PICK b \in DOMAIN Q : b < p /\ Q[b].to = i /\ Q[b].no = no /\ Q[b].k = c
      BY <2>1 DEF Before
    <3>2. b # 1
      BY <3>1, TailFacts
    <3>3. b - 1 \in DOMAIN R /\ R[b - 1] = Q[b] /\ b - 1 < p - 1
      BY <3>1, <3>2, TailFacts
    <3>4. QED BY <3>1, <3>3 DEF Before
  <2>2. QED BY <1>3, <2>1 DEF Sent
<1>4. Complete(i, S, M, R, q)
  <2>1. SUFFICES ASSUME NEW e \in L[i], ~e.overlap
                 PROVE  /\ \A a \in DOMAIN R :
                             R[a].to = i /\ R[a].no = e.no => Sent(i, e.no, R[a].k - 1, R, a, q)
                        /\ \A r \in Sender : S[r] # None /\ S[r].to = i /\ S[r].no = e.no =>
                             Sent(i, e.no, S[r].k, R, Len(R) + 1, q)
    BY <1>1 DEF Complete
  <2>2. ASSUME NEW a \in DOMAIN R, R[a].to = i, R[a].no = e.no
        PROVE  Sent(i, e.no, R[a].k - 1, R, a, q)
    <3>1. a \in Nat /\ a + 1 \in DOMAIN Q /\ R[a] = Q[a + 1] /\ a = (a + 1) - 1 /\ a + 1 \in Nat /\ a + 1 > 0
      BY TailFacts
    <3>2. Sent(i, e.no, R[a].k - 1, Q, a + 1, q)
      BY <2>1, <2>2, <3>1 DEF Complete
    <3>3. QED BY <1>3, <3>1, <3>2
  <2>3. ASSUME NEW r \in Sender, S[r] # None, S[r].to = i, S[r].no = e.no
        PROVE  Sent(i, e.no, S[r].k, R, Len(R) + 1, q)
    <3>1. Len(R) + 1 = (Len(Q) + 1) - 1 /\ Len(Q) + 1 \in Nat /\ Len(Q) + 1 > 0
      BY TailFacts
    <3>2. Sent(i, e.no, S[r].k, Q, Len(Q) + 1, q)
      BY <2>1, <2>3 DEF Complete
    <3>3. QED BY <1>3, <3>1, <3>2
  <2>4. QED BY <2>2, <2>3
<1>5. QED BY <1>2, <1>4

(* The first frame f and the node i that it is for: messages older than    *)
(* that of f overlap with it; a message that does not overlap is not       *)
(* interrupted; and f continues what the node has of its message, if that  *)
(* does not overlap.                                                       *)
LEMMA FirstFrame ==
  ASSUME NEW n \in Nat, NEW S \in Senders, NEW L \in Lines, NEW Q \in Seq(Piece),
         Numbered(n, S, L), Queued(n, S, L, Q), Ordered(L, Q),
         Q # <<>>, NEW f \in Piece, f = Head(Q),
         NEW i \in NodeId, i = f.to, NEW q \in Seq(Piece), Begun(i, S, L, Q, q), Complete(i, S, L, Q, q)
  PROVE  /\ \A e \in L[i] : e.no < f.no => e.overlap /\ Mixed(i, f.no, L)
         /\ \A d \in L[i] : ~d.overlap /\ q # <<>> /\ q[1].no = d.no => f.no = d.no
         /\ \A d \in L[i] : ~d.overlap /\ d.no = f.no =>
              IF f.k = 1 THEN q = <<>> ELSE Has(q, f.no, f.k - 1)
<1>0. f = Q[1] /\ 1 \in DOMAIN Q /\ DOMAIN Q = 1..Len(Q) /\ f.no \in Nat /\ f.k \in Nat /\ f.k > 0 /\ f.t \in Nat
  BY TailFacts, Fields
<1>1. PICK h \in L[i] : h.no = f.no
  BY <1>0 DEF Queued, Listed
<1>2. ASSUME NEW e \in L[i], e.no < f.no PROVE e.overlap /\ Mixed(i, f.no, L)
  <2>1. CASE e.open
    <3>1. \A g \in L[i] : g.no = f.no => e.overlap /\ g.overlap
      BY <1>2, <2>1 DEF Ordered
    <3>2. QED BY <1>1, <3>1 DEF Mixed
  <2>2. CASE ~e.open
    <3>1. PICK b \in DOMAIN Q : Q[b].to = i /\ Q[b].no = e.no
      BY <2>2 DEF Queued, Last
    <3>2. e.no \in Nat
      BY Fields
    <3>3. 1 < b
      BY <1>0, <1>2, <3>1, <3>2
    <3>4. Mixed(i, f.no, L) /\ Mixed(i, e.no, L)
      BY <1>0, <1>2, <3>1, <3>3 DEF Ordered
    <3>5. QED BY <3>4 DEF Mixed
  <2>3. QED BY <2>1, <2>2
<1>3. ASSUME NEW d \in L[i], ~d.overlap, q # <<>>, q[1].no = d.no PROVE f.no = d.no
  <2>1. d.no \in Nat
    BY Fields
  <2>2. ~(d.no < f.no)
    BY <1>2, <1>3
  <2>3. ~(f.no < d.no)
    <3>1. SUFFICES ASSUME f.no < d.no PROVE FALSE
      OBVIOUS
    <3>2. Mixed(i, q[1].no, L)
      BY <1>1, <1>3, <3>1 DEF Begun
    <3>3. QED BY <1>3, <3>2 DEF Mixed
  <2>4. QED BY <1>0, <2>1, <2>2, <2>3
<1>4. ASSUME NEW d \in L[i], ~d.overlap, d.no = f.no, f.k = 1, q # <<>> PROVE FALSE
  <2>1. PICK e \in L[i] : e.no = q[1].no
    BY <1>4 DEF Begun, Listed
  <2>2. e.no \in Nat
    BY Fields
  <2>3. e.no # f.no
    BY <1>0, <1>4, <2>1 DEF Begun
  <2>4. ~(e.no < f.no)
    BY <1>2, <1>4 DEF Mixed
  <2>5. ~(f.no < e.no)
    BY <1>4, <2>1 DEF Begun
  <2>6. QED BY <1>0, <2>2, <2>3, <2>4, <2>5
<1>5. ASSUME NEW d \in L[i], ~d.overlap, d.no = f.no, f.k # 1 PROVE Has(q, f.no, f.k - 1)
  <2>1. Sent(i, f.no, f.k - 1, Q, 1, q)
    BY <1>0, <1>5 DEF Complete
  <2>2. ~Before(i, f.no, f.k - 1, Q, 1)
    BY <1>0 DEF Before
  <2>3. f.k - 1 # 0
    BY <1>0, <1>5
  <2>4. QED BY <2>1, <2>2, <2>3 DEF Sent
<1>6. QED BY <1>2, <1>3, <1>4, <1>5

(* Frames that are there stay when one is added.                           *)
LEMMA AppendFacts ==
  ASSUME NEW q \in Seq(Piece), NEW f \in Piece
  PROVE  /\ Len(Append(q, f)) = Len(q) + 1 /\ Append(q, f)[Len(q) + 1] = f
         /\ \A j \in 1..Len(q) : Append(q, f)[j] = q[j]
OBVIOUS

(* What the node has after it got a frame.                                 *)
Takes(q, f) ==
  IF (f.k = 1) # (q = <<>>) THEN q
  ELSE IF f.k = f.t THEN <<>>
  ELSE IF f.k = 1 THEN <<f>> ELSE Append(q, f)

(* A node gets the first frame of the queue: what it has then is still     *)
(* the beginning of one message, and nothing is missing.                   *)
LEMMA ArriveStep ==
  ASSUME NEW n \in Nat, NEW S \in Senders, NEW L \in Lines, NEW Q \in Seq(Piece),
         Numbered(n, S, L), Queued(n, S, L, Q), Ordered(L, Q),
         Q # <<>>, NEW R, R = Tail(Q), NEW f \in Piece, f = Head(Q),
         NEW i \in NodeId, i = f.to, NEW q \in Seq(Piece), Begun(i, S, L, Q, q), Complete(i, S, L, Q, q)
  PROVE  Begun(i, S, Left(L, f), R, Takes(q, f)) /\ Complete(i, S, Left(L, f), R, Takes(q, f))
<1> DEFINE M == Left(L, f)
           p == Takes(q, f)
<1>0. f = Q[1] /\ 1 \in DOMAIN Q /\ DOMAIN Q = 1..Len(Q) /\ f.no \in Nat /\ f.k \in Nat /\ f.k > 0 /\ f.t \in Nat
      /\ f.k <= f.t
  BY TailFacts, Fields DEF Queued
<1>1. M[i] = {e \in L[i] : ~(f.k = f.t /\ e.no = f.no)}
  BY DEF Left, Over
<1>2. \A no : Mixed(i, no, L) => Mixed(i, no, M)
  BY <1>1 DEF Mixed
<1>3. \A a \in DOMAIN R : a \in Nat /\ a + 1 \in DOMAIN Q /\ a + 1 > 1 /\ R[a] = Q[a + 1]
  BY TailFacts
<1>4. \A a \in DOMAIN R : R[a].no = f.no => f.k < R[a].k
  <2>1. \A b \in DOMAIN Q : 1 < b /\ Q[1].no = Q[b].no => Q[1].k < Q[b].k
    BY <1>0 DEF Queued
  <2>2. ASSUME NEW a \in DOMAIN R, R[a].no = f.no PROVE f.k < R[a].k
    <3>1. a + 1 \in DOMAIN Q /\ 1 < a + 1 /\ R[a] = Q[a + 1]
      BY <1>3
    <3>2. QED BY <1>0, <2>1, <2>2, <3>1
  <2>3. QED BY <2>2
<1>5. \A r \in Sender : S[r] # None /\ S[r].no = f.no => f.k <= S[r].k /\ S[r].k \in Nat
  BY <1>0, Fields DEF Queued
<1>6. \A a \in DOMAIN R : R[a].k \in Nat
  BY TailFacts, Fields
<1>f. /\ \A e \in L[i] : e.no < f.no => e.overlap /\ Mixed(i, f.no, L)
      /\ \A d \in L[i] : ~d.overlap /\ q # <<>> /\ q[1].no = d.no => f.no = d.no
      /\ \A d \in L[i] : ~d.overlap /\ d.no = f.no =>
           IF f.k = 1 THEN q = <<>> ELSE Has(q, f.no, f.k - 1)
  BY FirstFrame
<1>7. Begun(i, S, M, R, p)
  <2>1. CASE (f.k = 1) # (q = <<>>)
    <3>1. p = q
      BY <2>1 DEF Takes
    <3>2. SUFFICES ASSUME q # <<>> PROVE Begun(i, S, M, R, q)
      BY <3>1 DEF Begun
    <3>3. q[1].no # f.no
      BY <1>0, <2>1, <3>2 DEF Begun
    <3>4. Listed(i, q[1].no, M)
      BY <1>1, <3>2, <3>3 DEF Begun, Listed
    <3>5. \A a \in DOMAIN R : R[a].to = i /\ R[a].no = q[1].no => R[a].k > 1
      BY <1>3, <3>2 DEF Begun
    <3>6. \A e \in M[i] : e.no < q[1].no => e.overlap /\ Mixed(i, q[1].no, M)
      BY <1>1, <1>2, <3>2 DEF Begun
    <3>7. QED BY <3>2, <3>4, <3>5, <3>6 DEF Begun
  <2>2. CASE ~((f.k = 1) # (q = <<>>)) /\ f.k = f.t
    BY <2>2 DEF Takes, Begun
  <2>3. CASE ~((f.k = 1) # (q = <<>>)) /\ f.k # f.t /\ f.k = 1
    <3>1. p = <<f>> /\ p[1] = f
      BY <2>3 DEF Takes
    <3>2. M[i] = L[i]
      BY <1>1, <2>3
    <3>3. Listed(i, f.no, M)
      BY <1>0, <3>2 DEF Queued, Listed
    <3>4. \A a \in DOMAIN R : R[a].no = f.no => R[a].k > 1
      BY <1>4, <1>6, <2>3
    <3>5. \A r \in Sender : S[r] # None /\ S[r].no = f.no => S[r].k > 0
      BY <1>5, <2>3
    <3>6. \A e \in M[i] : e.no < f.no => e.overlap /\ Mixed(i, f.no, M)
      BY <1>2, <1>f, <3>2
    <3>7. QED BY <3>1, <3>3, <3>4, <3>5, <3>6 DEF Begun
  <2>4. CASE ~((f.k = 1) # (q = <<>>)) /\ f.k # f.t /\ f.k # 1
    <3>1. p = Append(q, f) /\ q # <<>>
      BY <2>4 DEF Takes
    <3>2. p[1] = q[1]
      BY <3>1
    <3>3. M[i] = L[i]
      BY <1>1, <2>4
    <3>4. Listed(i, q[1].no, M)
      BY <3>1, <3>3 DEF Begun, Listed
    <3>5. \A a \in DOMAIN R : R[a].to = i /\ R[a].no = q[1].no => R[a].k > 1
      BY <1>3, <3>1 DEF Begun
    <3>6. \A e \in M[i] : e.no < q[1].no => e.overlap /\ Mixed(i, q[1].no, M)
      BY <1>2, <3>1, <3>3 DEF Begun
    <3>7. QED BY <3>1, <3>2, <3>4, <3>5, <3>6 DEF Begun
  <2>5. QED BY <2>1, <2>2, <2>3, <2>4
<1>8. ASSUME NEW d \in M[i], ~d.overlap, NEW c \in Nat, f.no = d.no => f.k <= c,
             NEW a \in Nat, Sent(i, d.no, c, Q, a + 1, q)
      PROVE  Sent(i, d.no, c, R, a, p)
  <2>0. d \in L[i] /\ (d.no = f.no => f.k # f.t)
    BY <1>1
  <2>f. /\ q # <<>> /\ q[1].no = d.no => f.no = d.no
        /\ d.no = f.no => IF f.k = 1 THEN q = <<>> ELSE Has(q, f.no, f.k - 1)
    BY <1>8, <1>f, <2>0
  <2>1. ASSUME NEW b \in DOMAIN Q, b < a + 1, b # 1, Q[b].to = i, Q[b].no = d.no, Q[b].k = c
        PROVE  Sent(i, d.no, c, R, a, p)
    <3>1. b - 1 \in DOMAIN R /\ R[b - 1] = Q[b] /\ b - 1 < a
      <4>1. b \in 1..Len(Q) /\ Len(Q) \in Nat
        BY <1>0
      <4>2. b - 1 < a
        BY <2>1, <4>1
      <4>3. QED BY <2>1, <4>1, <4>2, TailFacts
    <3>2. QED BY <2>1, <3>1 DEF Sent, Before
  <2>2. ASSUME f.no = d.no, f.k = c
        PROVE  Sent(i, d.no, c, R, a, p)
    <3>0. IF f.k = 1 THEN q = <<>> ELSE Has(q, f.no, f.k - 1)
      BY <2>2, <2>f
    <3>1. CASE f.k = 1
      <4>1. q = <<>>
        BY <3>0, <3>1
      <4>2. p = <<f>>
        BY <2>0, <2>2, <3>1, <4>1 DEF Takes
      <4>3. Has(p, d.no, c)
        BY <2>2, <3>1, <4>2 DEF Has
      <4>4. QED BY <4>3 DEF Sent
    <3>2. CASE f.k # 1
      <4>1. Has(q, f.no, f.k - 1)
        BY <3>0, <3>2
      <4>2. Len(q) = f.k - 1 /\ q # <<>> /\ \A j \in 1..(f.k - 1) : q[j].no = f.no /\ q[j].k = j
        BY <1>0, <3>2, <4>1 DEF Has
      <4>3. p = Append(q, f)
        BY <2>0, <2>2, <3>2, <4>2 DEF Takes
      <4>4. Len(p) = f.k /\ p[f.k] = f /\ \A j \in 1..(f.k - 1) : p[j] = q[j]
        <5>1. f.k \in Nat /\ Len(q) = f.k - 1 /\ (f.k - 1) + 1 = f.k
          BY <1>0, <4>2
        <5>2. /\ Len(p) = Len(q) + 1 /\ p[Len(q) + 1] = f
              /\ \A j \in 1..Len(q) : p[j] = q[j]
          BY <4>3, AppendFacts
        <5>3. QED BY <5>1, <5>2, Zenon
      <4>5. \A j \in 1..f.k : p[j].no = f.no /\ p[j].k = j
        <5>1. \A j \in 1..f.k : j = f.k \/ j \in 1..(f.k - 1)
          BY <1>0
        <5>2. QED BY <4>2, <4>4, <5>1
      <4>6. Has(p, d.no, c)
        BY <1>0, <2>2, <4>4, <4>5 DEF Has
      <4>7. QED BY <4>6 DEF Sent
    <3>3. QED BY <3>1, <3>2
  <2>3. ~Has(q, d.no, c)
    <3>1. SUFFICES ASSUME Has(q, d.no, c) PROVE FALSE
      OBVIOUS
    <3>2. q # <<>> /\ q[1].no = d.no /\ Len(q) = c
      BY <3>1 DEF Has
    <3>3. f.no = d.no
      BY <2>f, <3>2
    <3>4. IF f.k = 1 THEN q = <<>> ELSE Has(q, f.no, f.k - 1)
      BY <2>f, <3>3
    <3>5. Len(q) = f.k - 1
      BY <3>2, <3>4 DEF Has
    <3>6. QED BY <1>0, <1>8, <3>2, <3>3, <3>5
  <2>4. CASE c = 0
    BY <2>4 DEF Sent
  <2>5. CASE Before(i, d.no, c, Q, a + 1)
    <3>1. PICK b \in DOMAIN Q : b < a + 1 /\ Q[b].to = i /\ Q[b].no = d.no /\ Q[b].k = c
      BY <2>5 DEF Before
    <3>2. QED BY <1>0, <2>1, <2>2, <3>1
  <2>6. QED BY <1>8, <2>3, <2>4, <2>5 DEF Sent
<1>9. Complete(i, S, M, R, p)
  <2>1. SUFFICES ASSUME NEW d \in M[i], ~d.overlap
                 PROVE  /\ \A a \in DOMAIN R :
                             R[a].to = i /\ R[a].no = d.no => Sent(i, d.no, R[a].k - 1, R, a, p)
                        /\ \A r \in Sender : S[r] # None /\ S[r].to = i /\ S[r].no = d.no =>
                             Sent(i, d.no, S[r].k, R, Len(R) + 1, p)
    BY DEF Complete
  <2>2. d \in L[i]
    BY <1>1
  <2>3. ASSUME NEW a \in DOMAIN R, R[a].to = i, R[a].no = d.no
        PROVE  Sent(i, d.no, R[a].k - 1, R, a, p)
    <3>1. Sent(i, d.no, R[a].k - 1, Q, a + 1, q)
      BY <1>3, <2>1, <2>2, <2>3 DEF Complete
    <3>2. R[a].k \in Nat /\ R[a].k > 0
      BY TailFacts, Fields
    <3>3. R[a].k - 1 \in Nat /\ (f.no = d.no => f.k <= R[a].k - 1)
      <4>1. f.no = d.no => f.k < R[a].k
        BY <1>4, <2>3
      <4>2. f.k \in Nat
        BY <1>0
      <4>3. QED BY <3>2, <4>1, <4>2
    <3>4. a \in Nat
      BY <1>3
    <3>5. QED BY <1>8, <2>1, <3>1, <3>3, <3>4
  <2>4. ASSUME NEW r \in Sender, S[r] # None, S[r].to = i, S[r].no = d.no
        PROVE  Sent(i, d.no, S[r].k, R, Len(R) + 1, p)
    <3>1. Sent(i, d.no, S[r].k, Q, Len(Q) + 1, q)
      BY <2>1, <2>2, <2>4 DEF Complete
    <3>2. Len(R) + 1 = Len(Q) /\ Len(Q) \in Nat
      BY TailFacts
    <3>3. S[r].k \in Nat /\ (f.no = d.no => f.k <= S[r].k)
      BY <1>5, <2>4, Fields
    <3>4. QED BY <1>8, <2>1, <3>1, <3>2, <3>3
  <2>5. QED BY <2>3, <2>4
<1>10. QED BY <1>7, <1>9
-----------------------------------------------------------------------------
(* Entries of a line and the set of them.                                  *)
LEMMA CurrentFacts ==
  ASSUME line \in [NodeId -> Seq(Entry)]
  PROVE  /\ Current \in Lines
         /\ \A i \in NodeId : Current[i] = In(line[i])
         /\ \A i \in NodeId : \A k \in DOMAIN line[i] : line[i][k] \in Entry
         /\ (\A i \in NodeId : Increasing(line[i])) => Unique(Current)
<1>1. \A i \in NodeId : Current[i] = In(line[i])
  BY DEF Current
<1>2. \A i \in NodeId : \A k \in DOMAIN line[i] : line[i][k] \in Entry
  <2>1. \A i \in NodeId : line[i] \in Seq(Entry)
    OBVIOUS
  <2>2. \A q \in Seq(Entry) : \A k \in DOMAIN q : q[k] \in Entry
    OBVIOUS
  <2>3. QED BY <2>1, <2>2
<1>3. Current \in Lines
  <2>1. \A i \in NodeId : In(line[i]) \in SUBSET Entry
    BY <1>2 DEF In
  <2>2. QED BY <2>1 DEF Current, Lines
<1>4. ASSUME \A i \in NodeId : Increasing(line[i]), NEW i \in NodeId, NEW d \in Current[i], NEW e \in Current[i],
             d.no = e.no
      PROVE  d = e
  <2>1. PICK j \in DOMAIN line[i] : d = line[i][j]
    BY <1>1 DEF In
  <2>2. PICK k \in DOMAIN line[i] : e = line[i][k]
    BY <1>1 DEF In
  <2>3. j \in Nat /\ k \in Nat
    <3>1. line[i] \in Seq(Entry)
      OBVIOUS
    <3>2. DOMAIN line[i] \subseteq Nat
      BY <3>1
    <3>3. QED BY <3>2
  <2>4. line[i][j].no \in Nat /\ line[i][k].no \in Nat
    BY <1>2 DEF Entry
  <2>5. ~(j < k) /\ ~(k < j)
    BY <1>4, <2>1, <2>2, <2>4 DEF Increasing
  <2>6. QED BY <2>1, <2>2, <2>3, <2>5
<1>5. QED BY <1>1, <1>2, <1>3, <1>4 DEF Unique

(* A sequence given by its elements.                                       *)
LEMMA MapSeq ==
  ASSUME NEW S, NEW T, NEW q \in Seq(T), NEW w, w \in [DOMAIN q -> S]
  PROVE  w \in Seq(S) /\ Len(w) = Len(q) /\ DOMAIN w = DOMAIN q /\ DOMAIN w = 1..Len(w) /\ Len(w) \in Nat
<1>1. DOMAIN q = 1..Len(q) /\ Len(q) \in Nat
  OBVIOUS
<1>2. QED BY <1>1

(* A message begins.                                                       *)
LEMMA OpenedFacts ==
  ASSUME Inv, NEW s \in Sender, NEW j \in NodeId, NEW B, B = (Bus!Others(j) # {})
  PROVE  LET x == [no |-> next, from |-> s, open |-> TRUE, overlap |-> B]
             q == Bus!Opened(s, j)
         IN  /\ x \in Entry /\ q \in Seq(Entry) /\ Increasing(q) /\ x \in In(q)
             /\ \A e \in In(q) : e = x \/ \E d \in Current[j] : Opening(e, d, B)
             /\ \A d \in Current[j] : \E e \in In(q) : Opening(e, d, B)
<1> DEFINE x == [no |-> next, from |-> s, open |-> TRUE, overlap |-> B]
           w == [k \in DOMAIN line[j] |->
                   [line[j][k] EXCEPT !.overlap = @ \/ (line[j][k].open /\ B)]]
           q == Bus!Opened(s, j)
<1>0. B \in BOOLEAN /\ line[j] \in Seq(Entry) /\ next \in Nat
  BY DEF Inv, Types
<1>1. x \in Entry /\ x.no = next
  BY <1>0 DEF Entry
<1>2. q = Append(w, x)
  BY DEF Bus!Opened
<1>3. \A k \in DOMAIN line[j] : line[j][k] \in Entry
  BY CurrentFacts DEF Inv, Types
<1>4. \A k \in DOMAIN line[j] : w[k] \in Entry /\ Opening(w[k], line[j][k], B)
  BY <1>0, <1>3 DEF Entry, Opening
<1>5. w \in Seq(Entry) /\ Len(w) = Len(line[j]) /\ DOMAIN w = DOMAIN line[j] /\ DOMAIN w = 1..Len(w) /\ Len(w) \in Nat
  <2>1. w \in [DOMAIN line[j] -> Entry]
    BY <1>4
  <2> HIDE DEF w
  <2>2. QED BY <1>0, <2>1, MapSeq
<1> HIDE DEF w, x, q
<1>6. /\ q \in Seq(Entry) /\ Len(q) = Len(w) + 1 /\ DOMAIN q = 1..(Len(w) + 1) /\ q[Len(w) + 1] = x
      /\ \A k \in DOMAIN w : k \in DOMAIN q /\ q[k] = w[k]
      /\ \A k \in DOMAIN q : k \in DOMAIN w \/ k = Len(w) + 1
  BY <1>1, <1>2, <1>5
<1>7. Increasing(q)
  <2>1. ASSUME NEW a \in DOMAIN q, NEW b \in DOMAIN q, a < b PROVE q[a].no < q[b].no
    <3>0. \A k \in DOMAIN w : q[k].no = line[j][k].no
      BY <1>4, <1>5, <1>6 DEF Opening
    <3>1. a \in DOMAIN w /\ q[a].no = line[j][a].no
      <4>1. a \in DOMAIN w
        BY <1>5, <1>6, <2>1
      <4>2. QED BY <3>0, <4>1
    <3>2. CASE b \in DOMAIN w
      <4>1. line[j][a].no < line[j][b].no
        BY <1>5, <2>1, <3>1, <3>2 DEF Inv, Increasing
      <4>2. QED BY <3>0, <3>1, <3>2, <4>1
    <3>3. CASE b = Len(w) + 1
      <4>1. line[j][a] \in Current[j]
        BY <1>5, <3>1 DEF Current, In
      <4>2. line[j][a].no < next
        BY <4>1 DEF Inv, Numbered
      <4>3. QED BY <1>1, <1>6, <3>1, <3>3, <4>2
    <3>4. QED BY <1>6, <3>2, <3>3
  <2>2. QED BY <2>1 DEF Increasing
<1>8. x \in In(q)
  <2>1. Len(w) + 1 \in DOMAIN q
    BY <1>5, <1>6
  <2>2. QED BY <1>6, <2>1 DEF In
<1>9. ASSUME NEW e \in In(q) PROVE e = x \/ \E d \in Current[j] : Opening(e, d, B)
  <2>1. PICK k \in DOMAIN q : e = q[k]
    BY DEF In
  <2>2. CASE k \in DOMAIN w
    <3>1. line[j][k] \in Current[j]
      BY <1>5, <2>2 DEF Current, In
    <3>2. Opening(e, line[j][k], B)
      BY <1>4, <1>5, <1>6, <2>1, <2>2
    <3>3. QED BY <3>1, <3>2
  <2>3. QED BY <1>6, <2>1, <2>2
<1>10. ASSUME NEW d \in Current[j] PROVE \E e \in In(q) : Opening(e, d, B)
  <2>1. PICK k \in DOMAIN line[j] : d = line[j][k]
    BY DEF Current, In
  <2>2. q[k] \in In(q) /\ Opening(q[k], d, B)
    BY <1>4, <1>5, <1>6, <2>1 DEF In
  <2>3. QED BY <2>2
<1>11. QED BY <1>1, <1>6, <1>7, <1>8, <1>9, <1>10 DEF x, q

(* SendMessage begins a message.                                           *)
LEMMA InvBegins ==
  ASSUME Inv, Control', NEW s \in Sender, NEW j \in NodeId, NEW t \in Nat \ {0}, Begins(s, j, t)
  PROVE  Inv'
<1> DEFINE B == Bus!Others(j) # {}
           x == [no |-> next, from |-> s, open |-> TRUE, overlap |-> B]
           m == [to |-> j, no |-> next, k |-> 0, t |-> t]
<1>0. /\ Control /\ Types /\ (\A i \in NodeId : Increasing(line[i]))
      /\ Numbered(next, sender, Current) /\ Queued(next, sender, Current, Queue) /\ Ordered(Current, Queue)
      /\ Unbroken(broken, sender, Current, Queue, pending)
  BY DEF Inv
<1>1. /\ sender[s] = None /\ sender' = [sender EXCEPT ![s] = m] /\ next' = next + 1 /\ Queue' = Queue
      /\ line' = [line EXCEPT ![j] = Bus!Opened(s, j)] /\ UNCHANGED <<pending, got, broken>>
  BY DEF Begins
<1>2. /\ x \in Entry /\ Bus!Opened(s, j) \in Seq(Entry) /\ Increasing(Bus!Opened(s, j))
      /\ x \in In(Bus!Opened(s, j))
      /\ \A e \in In(Bus!Opened(s, j)) : e = x \/ \E d \in Current[j] : Opening(e, d, B)
      /\ \A d \in Current[j] : \E e \in In(Bus!Opened(s, j)) : Opening(e, d, B)
  BY OpenedFacts
<1>3. line' \in [NodeId -> Seq(Entry)] /\ line'[j] = Bus!Opened(s, j) /\ \A i \in NodeId : i # j => line'[i] = line[i]
  BY <1>0, <1>1, <1>2 DEF Types
<1>4. Types'
  <2>1. m \in Sending /\ next \in Nat
    BY <1>0 DEF Sending, Types
  <2>2. sender' \in [Sender -> Sending]
    BY <1>0, <1>1, <2>1 DEF Types
  <2>3. next' \in Nat
    BY <1>1, <2>1
  <2>4. QED BY <1>0, <1>1, <1>3, <2>2, <2>3 DEF Types
<1>5. \A i \in NodeId : Increasing(line'[i])
  BY <1>0, <1>2, <1>3
<1>6. /\ Current' \in Lines /\ Current \in Lines
      /\ Current'[j] = In(Bus!Opened(s, j)) /\ \A i \in NodeId : i # j => Current'[i] = Current[i]
  <2>1. \A i \in NodeId : Current'[i] = In(line'[i]) /\ Current[i] = In(line[i])
    BY DEF Current
  <2>2. Current' \in Lines
    <3>1. \A i \in NodeId : In(line'[i]) \in SUBSET Entry
      <4>1. \A q \in Seq(Entry) : In(q) \in SUBSET Entry
        BY DEF In
      <4>2. \A i \in NodeId : line'[i] \in Seq(Entry)
        BY <1>3
      <4>3. QED BY <4>1, <4>2
    <3>2. QED BY <3>1 DEF Current, Lines
  <2>3. QED BY <1>0, <1>3, <2>1, <2>2, CurrentFacts DEF Types
<1>7. B <=> \E r \in Sender : sender[r] # None /\ sender[r].to = j
  <2>1. Bus!Others(j) = {r \in Sender : (IF sender[r] = None THEN "nobody" ELSE sender[r].to) = j}
    BY DEF Bus!Others
  <2>2. j # "nobody"
    BY DriverAssumption
  <2>3. QED BY <2>1, <2>2
<1>8. /\ Numbered(next + 1, sender', Current') /\ Queued(next + 1, sender', Current', Queue)
      /\ Ordered(Current', Queue) /\ Unbroken(broken, sender', Current', Queue, pending)
  <2>1. sender \in Senders /\ sender' \in Senders /\ Queue \in Seq(Piece) /\ next \in Nat
        /\ pending \in [NodeId -> Seq(Piece)] /\ B \in BOOLEAN
    BY <1>0, <1>4, QueueFacts DEF Types, Senders
  <2>2. x \in Current'[j] /\ x.no = next /\ x.from = s /\ x.open /\ x.overlap = B
    BY <1>2, <1>6
  <2>3. /\ \A e \in Current'[j] : e = x \/ \E d \in Current[j] : Opening(e, d, B)
        /\ \A d \in Current[j] : \E e \in Current'[j] : Opening(e, d, B)
    BY <1>2, <1>6
  <2>4. Opens(next, sender, Current, s, j, t, B, x, sender', Current')
    BY <1>1, <1>6, <1>7, <2>1, <2>2, <2>3 DEF Opens
  <2>5. Current \in Lines /\ Current' \in Lines
    BY <1>6
  <2>6. /\ Numbered(next, sender, Current) /\ Queued(next, sender, Current, Queue) /\ Ordered(Current, Queue)
        /\ Unbroken(broken, sender, Current, Queue, pending)
    BY <1>0
  <2> HIDE DEF B, x
  <2>7. QED BY <2>1, <2>4, <2>5, <2>6, BeginStep
<1>9. QED BY <1>1, <1>4, <1>5, <1>8 DEF Inv

(* The lines after a step.                                                 *)
LEMMA NextCurrent ==
  ASSUME line' \in [NodeId -> Seq(Entry)]
  PROVE  Current' \in Lines /\ \A i \in NodeId : Current'[i] = In(line'[i])
<1>1. \A q \in Seq(Entry) : In(q) \in SUBSET Entry
  BY DEF In
<1>2. \A i \in NodeId : line'[i] \in Seq(Entry)
  OBVIOUS
<1>3. \A i \in NodeId : In(line'[i]) \in SUBSET Entry
  BY <1>1, <1>2
<1>4. QED BY <1>3 DEF Current, Lines

(* A sender has handed its message over.                                   *)
LEMMA ClosedFacts ==
  ASSUME Inv, NEW s \in Sender, NEW j \in NodeId
  PROVE  LET q == Bus!Closed(s, j)
         IN  /\ q \in Seq(Entry) /\ Increasing(q)
             /\ \A e \in In(q) : \E d \in Current[j] : Closing(e, d, d.from = s)
             /\ \A d \in Current[j] : \E e \in In(q) : Closing(e, d, d.from = s)
<1> DEFINE q == Bus!Closed(s, j)
<1>0. line[j] \in Seq(Entry)
  BY DEF Inv, Types
<1>1. q = [k \in DOMAIN line[j] |-> [line[j][k] EXCEPT !.open = @ /\ line[j][k].from # s]]
  BY DEF Bus!Closed
<1>2. \A k \in DOMAIN line[j] : line[j][k] \in Entry
  BY CurrentFacts DEF Inv, Types
<1> DEFINE w == [k \in DOMAIN line[j] |-> [line[j][k] EXCEPT !.open = @ /\ line[j][k].from # s]]
<1>3. \A k \in DOMAIN line[j] : w[k] \in Entry /\ Closing(w[k], line[j][k], line[j][k].from = s)
  BY <1>2 DEF Entry, Closing
<1>4. w \in [DOMAIN line[j] -> Entry]
  BY <1>3
<1> HIDE DEF w, q
<1>5. q = w /\ q \in Seq(Entry) /\ DOMAIN q = DOMAIN line[j]
  BY <1>0, <1>1, <1>4, MapSeq DEF w
<1>6. Increasing(q)
  <2>1. \A k \in DOMAIN q : q[k].no = line[j][k].no
    BY <1>3, <1>5 DEF Closing
  <2>2. Increasing(line[j])
    BY DEF Inv
  <2>3. QED BY <1>5, <2>1, <2>2 DEF Increasing
<1>7. ASSUME NEW e \in In(q) PROVE \E d \in Current[j] : Closing(e, d, d.from = s)
  <2>1. PICK k \in DOMAIN q : e = q[k]
    BY DEF In
  <2>2. line[j][k] \in Current[j]
    BY <1>5 DEF Current, In
  <2>3. QED BY <1>3, <1>5, <2>1, <2>2
<1>8. ASSUME NEW d \in Current[j] PROVE \E e \in In(q) : Closing(e, d, d.from = s)
  <2>1. PICK k \in DOMAIN line[j] : d = line[j][k]
    BY DEF Current, In
  <2>2. q[k] \in In(q)
    BY <1>5 DEF In
  <2>3. QED BY <1>3, <1>5, <2>1, <2>2
<1>9. QED BY <1>5, <1>6, <1>7, <1>8 DEF q

(* SendMessage hands a frame over.                                         *)
LEMMA InvAdds ==
  ASSUME Inv, Control', NEW s \in Sender, Adds(s)
  PROVE  Inv'
<1> DEFINE m == sender[s]
           x == [m EXCEPT !.k = @ + 1]
           Z == m.k + 1 = m.t
<1>0. /\ Control /\ Types /\ (\A i \in NodeId : Increasing(line[i]))
      /\ Numbered(next, sender, Current) /\ Queued(next, sender, Current, Queue) /\ Ordered(Current, Queue)
      /\ Unbroken(broken, sender, Current, Queue, pending)
  BY DEF Inv
<1>1. /\ m.k < m.t /\ Queue' = Append(Queue, x) /\ sender' = [sender EXCEPT ![s] = IF Z THEN None ELSE x]
      /\ line' = IF Z THEN [line EXCEPT ![m.to] = Bus!Closed(s, m.to)] ELSE line
      /\ UNCHANGED <<next, pending, got, broken>>
  BY DEF Adds
<1>2. m # None /\ m \in [to : NodeId, no : Nat, k : Nat, t : Nat \ {0}]
  <2>1. m \in Sending
    BY <1>0 DEF Types
  <2>2. m # None
    BY <1>1 DEF None
  <2>3. QED BY <2>1, <2>2 DEF Sending
<1>3. x \in Piece /\ x.to = m.to /\ x.no = m.no /\ x.k = m.k + 1 /\ x.t = m.t /\ m.to \in NodeId
  BY <1>2 DEF Piece
<1>4. LET q == Bus!Closed(s, m.to)
      IN  /\ q \in Seq(Entry) /\ Increasing(q)
          /\ \A e \in In(q) : \E d \in Current[m.to] : Closing(e, d, d.from = s)
          /\ \A d \in Current[m.to] : \E e \in In(q) : Closing(e, d, d.from = s)
  BY <1>3, ClosedFacts
<1>5. /\ line' \in [NodeId -> Seq(Entry)] /\ \A i \in NodeId : Increasing(line'[i])
      /\ Z => line'[m.to] = Bus!Closed(s, m.to)
      /\ \A i \in NodeId : ~(Z /\ i = m.to) => line'[i] = line[i]
  BY <1>0, <1>1, <1>3, <1>4 DEF Types
<1>6. Types'
  <2>1. (IF Z THEN None ELSE x) \in Sending
    BY <1>2 DEF Sending
  <2>2. sender' \in [Sender -> Sending]
    BY <1>0, <1>1, <2>1 DEF Types
  <2>3. QED BY <1>0, <1>1, <1>5, <2>2 DEF Types
<1>7. /\ Current' \in Lines /\ Current \in Lines /\ Unique(Current)
      /\ Z => Current'[m.to] = In(Bus!Closed(s, m.to))
      /\ \A i \in NodeId : ~(Z /\ i = m.to) => Current'[i] = Current[i]
  BY <1>0, <1>3, <1>5, CurrentFacts, NextCurrent DEF Types
<1>8. ASSUME NEW i \in NodeId
      PROVE  /\ \A e \in Current'[i] : \E d \in Current[i] : Closing(e, d, Z /\ i = x.to /\ d.from = s)
             /\ \A d \in Current[i] : \E e \in Current'[i] : Closing(e, d, Z /\ i = x.to /\ d.from = s)
  <2>1. CASE Z /\ i = m.to
    <3>1. \A d : (Z /\ i = x.to /\ d.from = s) = (d.from = s)
      BY <1>3, <2>1
    <3>2. QED BY <1>4, <1>7, <2>1, <3>1
  <2>2. CASE ~(Z /\ i = m.to)
    <3>1. Current'[i] = Current[i]
      BY <1>7, <2>2
    <3>2. ASSUME NEW d \in Current[i] PROVE Closing(d, d, Z /\ i = x.to /\ d.from = s)
      <4>1. d.open \in BOOLEAN
        BY <1>7 DEF Lines, Entry
      <4>2. ~(Z /\ i = x.to /\ d.from = s)
        BY <1>3, <2>2
      <4>3. QED BY <4>1, <4>2 DEF Closing
    <3>3. QED BY <3>1, <3>2
  <2>3. QED BY <2>1, <2>2
<1>9. /\ sender \in Senders /\ sender' \in Senders /\ Queue \in Seq(Piece) /\ Queue' \in Seq(Piece)
      /\ next \in Nat /\ pending \in [NodeId -> Seq(Piece)] /\ Z \in BOOLEAN
  <2>1. Queue \in Seq(Piece) /\ x \in Piece /\ Queue' = Append(Queue, x)
    BY <1>0, <1>1, <1>3, QueueFacts
  <2>2. Queue' \in Seq(Piece)
    <3> HIDE DEF x
    <3>1. QED BY <2>1
  <2>3. QED BY <1>0, <1>6, <2>1, <2>2 DEF Types, Senders
<1>10. Extends(sender, Current, Queue, s, x, Z, sender', Current', Queue')
  <2>1. sender'[s] = (IF Z THEN None ELSE x) /\ \A r \in Sender : r # s => sender'[r] = sender[r]
    BY <1>1, <1>9 DEF Senders
  <2> HIDE DEF x
  <2>2. QED BY <1>1, <1>2, <1>3, <1>8, <2>1 DEF Extends
<1>11. /\ Numbered(next, sender', Current') /\ Queued(next, sender', Current', Queue')
       /\ Ordered(Current', Queue') /\ Unbroken(broken, sender', Current', Queue', pending)
  <2>1. x \in Piece
    BY <1>3
  <2> HIDE DEF x, Z
  <2>2. QED BY <1>0, <1>7, <1>9, <1>10, <2>1, AddStep
<1>12. QED BY <1>1, <1>5, <1>6, <1>11 DEF Inv

(* A message is over.                                                      *)
LEMMA WithoutFacts ==
  ASSUME NEW q \in Seq(Entry), NEW k \in DOMAIN q
  PROVE  LET w == Bus!Without(q, k)
         IN  /\ w \in Seq(Entry) /\ Len(w) = Len(q) - 1
             /\ \A j \in 1..(Len(q) - 1) : w[j] = IF j < k THEN q[j] ELSE q[j + 1]
             /\ k = 1 => w = Tail(q)
<1> DEFINE u == SubSeq(q, 1, k - 1)
           v == SubSeq(q, k + 1, Len(q))
<1>1. Len(q) \in Nat /\ k \in 1..Len(q) /\ q # <<>>
  OBVIOUS
<1>2. u \in Seq(Entry) /\ Len(u) = k - 1 /\ \A j \in 1..(k - 1) : u[j] = q[j]
  BY <1>1
<1>3. v \in Seq(Entry) /\ Len(v) = Len(q) - k /\ \A j \in 1..(Len(q) - k) : v[j] = q[k + j]
  BY <1>1
<1>4. Bus!Without(q, k) = u \o v
  BY DEF Bus!Without
<1> HIDE DEF u, v
<1>5. u \o v \in Seq(Entry) /\ Len(u \o v) = Len(q) - 1
  BY <1>1, <1>2, <1>3
<1>6. ASSUME NEW j \in 1..(Len(q) - 1) PROVE (u \o v)[j] = IF j < k THEN q[j] ELSE q[j + 1]
  <2>1. CASE j < k
    <3>1. j \in 1..(k - 1) /\ j \in 1..Len(u) /\ j \in 1..(Len(u) + Len(v)) /\ j <= Len(u)
      BY <1>1, <1>2, <1>3, <2>1
    <3>2. (u \o v)[j] = u[j]
      <4>1. \A l \in 1..(Len(u) + Len(v)) : (u \o v)[l] = IF l <= Len(u) THEN u[l] ELSE v[l - Len(u)]
        BY <1>2, <1>3, ConcatProperties
      <4>2. QED BY <3>1, <4>1
    <3>3. QED BY <1>2, <2>1, <3>1, <3>2
  <2>2. CASE ~(j < k)
    <3>1. (u \o v)[j] = v[j - (k - 1)] /\ j - (k - 1) \in 1..(Len(q) - k) /\ k + (j - (k - 1)) = j + 1
      <4>1. \A l \in 1..(Len(u) + Len(v)) : (u \o v)[l] = IF l <= Len(u) THEN u[l] ELSE v[l - Len(u)]
        BY <1>2, <1>3, ConcatProperties
      <4>2. /\ j \in 1..(Len(u) + Len(v)) /\ ~(j <= Len(u)) /\ Len(u) = k - 1
            /\ j - (k - 1) \in 1..(Len(q) - k) /\ k + (j - (k - 1)) = j + 1
        <5>1. Len(u) = k - 1 /\ Len(v) = Len(q) - k /\ Len(q) \in Nat /\ k \in 1..Len(q)
          BY <1>1, <1>2, <1>3, Zenon
        <5>2. ASSUME NEW n \in Nat, k \in 1..n, j \in 1..(n - 1)
              PROVE  /\ j \in 1..((k - 1) + (n - k)) /\ ~(j <= k - 1)
                     /\ j - (k - 1) \in 1..(n - k) /\ k + (j - (k - 1)) = j + 1
          BY <2>2, <5>2
        <5>3. QED BY <5>1, <5>2, Zenon
      <4>3. QED BY <4>1, <4>2
    <3>2. QED BY <1>3, <2>2, <3>1
  <2>3. QED BY <2>1, <2>2
<1>7. ASSUME k = 1 PROVE u \o v = Tail(q)
  <2>1. Tail(q) \in Seq(Entry) /\ Len(Tail(q)) = Len(q) - 1 /\ \A j \in 1..(Len(q) - 1) : Tail(q)[j] = q[j + 1]
    BY <1>1
  <2>2. \A j \in 1..(Len(q) - 1) : (u \o v)[j] = Tail(q)[j]
    <3>1. \A j \in 1..(Len(q) - 1) : ~(j < k)
      BY <1>1, <1>7
    <3>2. QED BY <1>6, <2>1, <3>1
  <2>3. QED BY <1>5, <2>1, <2>2, SeqEqual
<1>8. QED BY <1>4, <1>5, <1>6, <1>7

(* The line without the message of a frame that was its last one.          *)
LEMMA EndedFacts ==
  ASSUME NEW q \in Seq(Entry), Increasing(q), NEW no \in Nat, \E e \in In(q) : e.no = no
  PROVE  \E k \in DOMAIN q :
           /\ q[k].no = no /\ Ended(q, no) = Bus!Without(q, k)
           /\ Ended(q, no) \in Seq(Entry) /\ Increasing(Ended(q, no))
           /\ In(Ended(q, no)) = {e \in In(q) : e.no # no}
<1> DEFINE k == CHOOSE k \in DOMAIN q : q[k].no = no
           w == Ended(q, no)
<1>1. k \in DOMAIN q /\ q[k].no = no
  BY DEF In
<1>2. w = Bus!Without(q, k)
  BY DEF Ended
<1> HIDE DEF k, w
<1>3. /\ w \in Seq(Entry) /\ Len(w) = Len(q) - 1
      /\ \A j \in 1..(Len(q) - 1) : w[j] = IF j < k THEN q[j] ELSE q[j + 1]
  BY <1>1, <1>2, WithoutFacts
<1>4. Len(q) \in Nat /\ DOMAIN q = 1..Len(q) /\ DOMAIN w = 1..(Len(q) - 1) /\ k \in 1..Len(q)
  BY <1>1, <1>3
<1>5. \A j \in DOMAIN w : j \in DOMAIN q /\ j + 1 \in DOMAIN q
  BY <1>4
<1>6. \A j \in DOMAIN q : q[j] \in Entry /\ q[j].no \in Nat
  <2>1. \A j \in DOMAIN q : q[j] \in Entry
    OBVIOUS
  <2>2. QED BY <2>1 DEF Entry
<1>7. \A a, b \in DOMAIN q : a < b => q[a].no < q[b].no
  BY DEF Increasing
<1>8. Increasing(w)
  <2>1. ASSUME NEW a \in DOMAIN w, NEW b \in DOMAIN w, a < b PROVE w[a].no < w[b].no
    <3>0. a \in DOMAIN q /\ b \in DOMAIN q /\ a + 1 \in DOMAIN q /\ b + 1 \in DOMAIN q /\ a \in Nat /\ b \in Nat /\ k \in Nat
      BY <1>4, <1>5
    <3>1. w[a] = (IF a < k THEN q[a] ELSE q[a + 1]) /\ w[b] = IF b < k THEN q[b] ELSE q[b + 1]
      BY <1>3, <1>4
    <3>2. CASE b < k
      <4>1. a < k
        BY <2>1, <3>0, <3>2
      <4>2. QED BY <1>7, <2>1, <3>0, <3>1, <3>2, <4>1
    <3>3. CASE ~(b < k) /\ a < k
      <4>1. a < b + 1
        BY <2>1, <3>0
      <4>2. QED BY <1>7, <3>0, <3>1, <3>3, <4>1
    <3>4. CASE ~(b < k) /\ ~(a < k)
      <4>1. a + 1 < b + 1
        BY <2>1, <3>0
      <4>2. QED BY <1>7, <3>0, <3>1, <3>4, <4>1
    <3>5. QED BY <3>2, <3>3, <3>4
  <2>2. QED BY <2>1 DEF Increasing
<1>9. ASSUME NEW e \in In(w) PROVE e \in In(q) /\ e.no # no
  <2>1. PICK j \in DOMAIN w : e = w[j]
    BY DEF In
  <2>2. j \in Nat /\ k \in Nat /\ w[j] = IF j < k THEN q[j] ELSE q[j + 1]
    BY <1>3, <1>4
  <2>3. CASE j < k
    <3>1. q[j].no < q[k].no /\ q[j].no \in Nat
      BY <1>1, <1>5, <1>6, <1>7, <2>3
    <3>2. QED BY <1>1, <1>5, <2>1, <2>2, <2>3, <3>1 DEF In
  <2>4. CASE ~(j < k)
    <3>1. k < j + 1 /\ j + 1 \in DOMAIN q
      BY <1>5, <2>2, <2>4
    <3>2. q[k].no < q[j + 1].no /\ q[j + 1].no \in Nat
      BY <1>1, <1>6, <1>7, <3>1
    <3>3. QED BY <1>1, <2>1, <2>2, <2>4, <3>1, <3>2 DEF In
  <2>5. QED BY <2>3, <2>4
<1>10. ASSUME NEW e \in In(q), e.no # no PROVE e \in In(w)
  <2>1. PICK j \in DOMAIN q : e = q[j]
    BY DEF In
  <2>2. j # k
    BY <1>1, <1>10, <2>1
  <2>3. CASE j < k
    <3>1. j \in DOMAIN w /\ w[j] = q[j]
      BY <1>3, <1>4, <2>3
    <3>2. QED BY <2>1, <3>1 DEF In
  <2>4. CASE ~(j < k)
    <3>1. j - 1 \in DOMAIN w /\ ~(j - 1 < k) /\ (j - 1) + 1 = j /\ j - 1 \in 1..(Len(q) - 1)
      BY <1>4, <2>2, <2>4
    <3>2. w[j - 1] = q[j]
      BY <1>3, <3>1
    <3>3. QED BY <2>1, <3>1, <3>2 DEF In
  <2>5. QED BY <2>3, <2>4
<1>11. In(w) = {e \in In(q) : e.no # no}
  BY <1>9, <1>10
<1>12. QED BY <1>1, <1>2, <1>3, <1>8, <1>11 DEF w

(* A frame leaves the queue.                                               *)
LEMMA LeavesFacts ==
  ASSUME Inv, NEW f \in Piece, Leaves(f)
  PROVE  /\ f.to \in NodeId /\ f.no \in Nat /\ f.k \in Nat /\ f.t \in Nat /\ f.k <= f.t
         /\ Listed(f.to, f.no, Current)
         /\ line' \in [NodeId -> Seq(Entry)] /\ \A i \in NodeId : Increasing(line'[i])
         /\ Current' = Left(Current, f)
         /\ f.k = f.t => \E k \in DOMAIN line[f.to] :
              line[f.to][k].no = f.no /\ line' = [line EXCEPT ![f.to] = Bus!Without(@, k)]
<1>0. /\ Control /\ Types /\ (\A i \in NodeId : Increasing(line[i]))
      /\ Queued(next, sender, Current, Queue) /\ line \in [NodeId -> Seq(Entry)]
  BY DEF Inv, Types
<1>1. f.to \in NodeId /\ f.no \in Nat /\ f.k \in Nat /\ f.t \in Nat
  BY DEF Piece
<1>2. 1 \in DOMAIN Queue /\ f = Queue[1]
  BY <1>0, QueueFacts DEF Leaves
<1>3. f.k <= f.t /\ Listed(f.to, f.no, Current)
  BY <1>0, <1>2 DEF Queued
<1>4. Current \in Lines /\ \A i \in NodeId : Current[i] = In(line[i])
  BY <1>0, CurrentFacts DEF Current
<1>5. line' = IF f.k < f.t THEN line ELSE [line EXCEPT ![f.to] = Ended(@, f.no)]
  BY DEF Leaves
<1>6. line[f.to] \in Seq(Entry) /\ Increasing(line[f.to]) /\ \E e \in In(line[f.to]) : e.no = f.no
  BY <1>0, <1>1, <1>3, <1>4 DEF Listed
<1> DEFINE w == Ended(line[f.to], f.no)
<1>7. PICK k \in DOMAIN line[f.to] :
        /\ line[f.to][k].no = f.no /\ w = Bus!Without(line[f.to], k)
        /\ w \in Seq(Entry) /\ Increasing(w)
        /\ In(w) = {e \in In(line[f.to]) : e.no # f.no}
  BY <1>1, <1>6, EndedFacts
<1> HIDE DEF w
<1>8. CASE f.k < f.t
  <2>1. line' = line
    BY <1>5, <1>8
  <2>2. Current' = Current
    BY <2>1 DEF Current
  <2>3. \A i \in NodeId : ~Over(f, i)
    BY <1>1, <1>8 DEF Over
  <2>4. Left(Current, f) = [i \in NodeId |-> Current[i]]
    BY <2>3 DEF Left
  <2>5. Current = [i \in NodeId |-> Current[i]]
    BY DEF Current
  <2>6. QED BY <1>0, <1>1, <1>3, <1>8, <2>1, <2>2, <2>4, <2>5
<1>9. CASE f.k = f.t
  <2>1. line' = [line EXCEPT ![f.to] = w]
    BY <1>1, <1>5, <1>9 DEF w
  <2>2. /\ line' \in [NodeId -> Seq(Entry)] /\ line'[f.to] = w
        /\ \A i \in NodeId : i # f.to => line'[i] = line[i]
    BY <1>0, <1>1, <1>7, <2>1
  <2>3. \A i \in NodeId : Increasing(line'[i])
    BY <1>0, <1>7, <2>2
  <2>4. Current' \in Lines /\ \A i \in NodeId : Current'[i] = In(line'[i])
    BY <2>2, NextCurrent
  <2>5. ASSUME NEW i \in NodeId PROVE Current'[i] = Left(Current, f)[i]
    <3>1. Left(Current, f)[i] = {e \in Current[i] : ~(Over(f, i) /\ e.no = f.no)}
      BY DEF Left
    <3>2. CASE i = f.to
      <4>1. Over(f, i) /\ Current'[i] = {e \in Current[i] : e.no # f.no}
        BY <1>4, <1>7, <1>9, <2>2, <2>4, <3>2 DEF Over
      <4>2. QED BY <3>1, <4>1
    <3>3. CASE i # f.to
      <4>1. ~Over(f, i) /\ Current'[i] = Current[i]
        BY <1>4, <2>2, <2>4, <3>3 DEF Over
      <4>2. QED BY <3>1, <4>1
    <3>4. QED BY <3>2, <3>3
  <2>6. Current' = Left(Current, f)
    BY <2>5 DEF Current, Left
  <2>7. line' = [line EXCEPT ![f.to] = Bus!Without(@, k)]
    BY <1>7, <2>1
  <2>8. QED BY <1>1, <1>3, <1>7, <2>2, <2>3, <2>6, <2>7
<1>10. QED BY <1>1, <1>3, <1>8, <1>9

(* What the rest of the invariant needs when a frame leaves the queue.     *)
LEMMA LeavesInv ==
  ASSUME Inv, Control', NEW f \in Piece, Leaves(f),
         pending' \in [NodeId -> Seq(Piece)], got' \in [NodeId -> Seq(Nat)], broken' \subseteq NodeId,
         Unbroken(broken', sender, Left(Current, f), Tail(Queue), pending')
  PROVE  Inv'
<1>0. /\ Control /\ Types /\ Numbered(next, sender, Current) /\ Queued(next, sender, Current, Queue)
      /\ Ordered(Current, Queue)
  BY DEF Inv
<1>1. Queue # <<>> /\ f = Head(Queue) /\ Queue' = Tail(Queue) /\ UNCHANGED <<sender, next>>
  BY DEF Leaves
<1>2. /\ line' \in [NodeId -> Seq(Entry)] /\ (\A i \in NodeId : Increasing(line'[i]))
      /\ Current' = Left(Current, f)
  BY LeavesFacts
<1>3. /\ sender \in Senders /\ Current \in Lines /\ Queue \in Seq(Piece) /\ next \in Nat
  BY <1>0, CurrentFacts, QueueFacts DEF Types, Senders
<1>4. Types'
  BY <1>0, <1>1, <1>2 DEF Types
<1>5. Numbered(next, sender, Current') /\ Queued(next, sender, Current', Queue') /\ Ordered(Current', Queue')
  BY <1>0, <1>1, <1>2, <1>3, LeaveStep
<1>6. QED BY <1>1, <1>2, <1>4, <1>5 DEF Inv

(* A frame is lost: its node may have anything from now on.                *)
LEMMA InvLost ==
  ASSUME Inv, Control', NEW f \in Piece, Lost(f)
  PROVE  Inv'
<1>0. /\ Control /\ Types /\ Unbroken(broken, sender, Current, Queue, pending)
  BY DEF Inv
<1>1. Leaves(f) /\ broken' = broken \cup {f.to} /\ UNCHANGED <<pending, got>>
  BY DEF Lost
<1>2. Queue # <<>> /\ f = Head(Queue) /\ f.to \in NodeId
  BY <1>1 DEF Leaves, Piece
<1>3. /\ sender \in Senders /\ Current \in Lines /\ Queue \in Seq(Piece)
      /\ pending \in [NodeId -> Seq(Piece)]
  BY <1>0, CurrentFacts, QueueFacts DEF Types, Senders
<1>4. ASSUME NEW i \in NodeId \ broken'
      PROVE  /\ Begun(i, sender, Left(Current, f), Tail(Queue), pending'[i])
             /\ Complete(i, sender, Left(Current, f), Tail(Queue), pending'[i])
  <2>1. i \in NodeId /\ i # f.to /\ pending[i] \in Seq(Piece) /\ pending'[i] = pending[i]
    BY <1>1, <1>3
  <2>2. Begun(i, sender, Current, Queue, pending[i]) /\ Complete(i, sender, Current, Queue, pending[i])
    BY <1>0, <1>1 DEF Unbroken
  <2>3. QED BY <1>2, <1>3, <2>1, <2>2, LeaveOther
<1>5. Unbroken(broken', sender, Left(Current, f), Tail(Queue), pending')
  BY <1>4 DEF Unbroken
<1>6. pending' \in [NodeId -> Seq(Piece)] /\ got' \in [NodeId -> Seq(Nat)] /\ broken' \subseteq NodeId
  BY <1>0, <1>1, <1>2 DEF Types
<1>7. QED BY <1>1, <1>5, <1>6, LeavesInv

(* A frame arrives: its node takes it, the others have what they had.      *)
LEMMA InvArrives ==
  ASSUME Inv, Control', NEW f \in Piece, Arrives(f)
  PROVE  Inv'
<1>0. /\ Control /\ Types /\ Numbered(next, sender, Current) /\ Queued(next, sender, Current, Queue)
      /\ Ordered(Current, Queue) /\ Unbroken(broken, sender, Current, Queue, pending)
  BY DEF Inv
<1>1. Leaves(f) /\ UNCHANGED broken
  BY DEF Arrives
<1>2. Queue # <<>> /\ f = Head(Queue) /\ f.to \in NodeId /\ f.no \in Nat
  BY <1>1 DEF Leaves, Piece
<1>3. /\ sender \in Senders /\ Current \in Lines /\ Queue \in Seq(Piece) /\ next \in Nat
      /\ pending \in [NodeId -> Seq(Piece)] /\ got \in [NodeId -> Seq(Nat)] /\ broken \subseteq NodeId
  BY <1>0, CurrentFacts, QueueFacts DEF Types, Senders
<1>4. pending' = [pending EXCEPT ![f.to] = Takes(pending[f.to], f)]
  BY DEF Arrives, Takes, Refused, Assembled
<1>5. pending[f.to] \in Seq(Piece) /\ Takes(pending[f.to], f) \in Seq(Piece)
  <2>1. pending[f.to] \in Seq(Piece)
    BY <1>2, <1>3
  <2>2. <<f>> \in Seq(Piece) /\ <<>> \in Seq(Piece) /\ Append(pending[f.to], f) \in Seq(Piece)
    BY <2>1
  <2>3. QED BY <2>1, <2>2 DEF Takes
<1>6. /\ pending' \in [NodeId -> Seq(Piece)] /\ pending'[f.to] = Takes(pending[f.to], f)
      /\ \A i \in NodeId : i # f.to => pending'[i] = pending[i]
  BY <1>2, <1>3, <1>4, <1>5
<1>7. got' \in [NodeId -> Seq(Nat)]
  <2>1. \A x \in Nat : [got EXCEPT ![f.to] = Append(@, x)] \in [NodeId -> Seq(Nat)]
    <3>1. \A x \in Nat : Append(got[f.to], x) \in Seq(Nat)
      BY <1>2, <1>3
    <3>2. QED BY <1>3, <3>1
  <2>2. (IF Whole(Assembled(f)) THEN f.no ELSE Bus!Damaged) \in Nat
    BY <1>2 DEF Bus!Damaged
  <2>3. CASE Refused(f) \/ f.k < f.t
    BY <1>3, <2>3 DEF Arrives
  <2>4. CASE ~(Refused(f) \/ f.k < f.t)
    BY <2>1, <2>2, <2>4 DEF Arrives
  <2>5. QED BY <2>3, <2>4
<1>8. ASSUME NEW i \in NodeId \ broken'
      PROVE  /\ Begun(i, sender, Left(Current, f), Tail(Queue), pending'[i])
             /\ Complete(i, sender, Left(Current, f), Tail(Queue), pending'[i])
  <2>1. i \in NodeId /\ pending[i] \in Seq(Piece)
    BY <1>3
  <2>2. Begun(i, sender, Current, Queue, pending[i]) /\ Complete(i, sender, Current, Queue, pending[i])
    BY <1>0, <1>1 DEF Unbroken
  <2>3. CASE i # f.to
    <3>1. pending'[i] = pending[i]
      BY <1>6, <2>1, <2>3
    <3>2. QED BY <1>2, <1>3, <2>1, <2>2, <2>3, <3>1, LeaveOther
  <2>4. CASE i = f.to
    <3>1. pending'[i] = Takes(pending[i], f)
      BY <1>6, <2>4
    <3>2. /\ Begun(i, sender, Left(Current, f), Tail(Queue), Takes(pending[i], f))
          /\ Complete(i, sender, Left(Current, f), Tail(Queue), Takes(pending[i], f))
      BY <1>0, <1>2, <1>3, <2>1, <2>2, <2>4, ArriveStep
    <3>3. QED BY <3>1, <3>2
  <2>5. QED BY <2>3, <2>4
<1>9. Unbroken(broken', sender, Left(Current, f), Tail(Queue), pending')
  BY <1>8 DEF Unbroken
<1>10. QED BY <1>1, <1>3, <1>6, <1>7, <1>9, LeavesInv

(* Steps that change none of it.                                           *)
LEMMA InvStill ==
  ASSUME Inv, Control', Still
  PROVE  Inv'
<1>1. Queue' = Queue /\ UNCHANGED <<sender, next, pending, got, line, broken>>
  BY DEF Still
<1>2. Current' = Current
  BY <1>1 DEF Current
<1>3. Types'
  BY <1>1 DEF Inv, Types
<1>4. QED BY <1>1, <1>2, <1>3 DEF Inv

(* At the start nothing is on its way.                                     *)
LEMMA InvInit ==
  ASSUME Init
  PROVE  Inv
<1>1. Control
  BY DEF Init, Control
<1>2. Types
  <2>1. None \in Sending /\ <<>> \in Seq(Piece) /\ <<>> \in Seq(Nat) /\ <<>> \in Seq(Entry)
    BY DEF Sending
  <2>2. QED BY <2>1 DEF Init, Types
<1>3. Queue = <<>>
  <2>1. OnBus = <<>> /\ InHands = <<>> /\ CanTxChannel = <<>>
    BY DEF Init, OnBus, InHands
  <2>2. <<>> \o <<>> = <<>>
    OBVIOUS
  <2>3. QED BY <2>1, <2>2 DEF Queue
<1>4. \A i \in NodeId : line[i] = <<>> /\ pending[i] = <<>>
  BY DEF Init
<1>5. \A i \in NodeId : Increasing(line[i]) /\ Current[i] = {}
  BY <1>4 DEF Increasing, Current, In
<1>6. \A s \in Sender : sender[s] = None
  BY DEF Init
<1>7. DOMAIN Queue = {}
  BY <1>3
<1>8. Numbered(next, sender, Current)
  BY <1>5, <1>6 DEF Numbered
<1>9. Queued(next, sender, Current, Queue) /\ Ordered(Current, Queue)
  BY <1>5, <1>6, <1>7 DEF Queued, Ordered
<1>10. Unbroken(broken, sender, Current, Queue, pending)
  BY <1>4, <1>5 DEF Unbroken, Begun, Complete
<1>11. QED BY <1>1, <1>2, <1>5, <1>8, <1>9, <1>10 DEF Inv

(* The invariant holds in every state.                                     *)
LEMMA InvCorrect == Spec => []Inv
<1>1. Init => Inv
  BY InvInit
<1>2. Inv /\ [Next]_vars => Inv'
  <2>1. SUFFICES ASSUME Inv, [Next]_vars PROVE Inv'
    OBVIOUS
  <2>2. Control' /\ Kind
    BY <2>1, Kinds DEF Inv
  <2>3. QED BY <2>1, <2>2, InvBegins, InvAdds, InvLost, InvArrives, InvStill DEF Kind
<1>3. QED BY <1>1, <1>2, PTL DEF Spec
-----------------------------------------------------------------------------
(* Every step is a step of MessageBus, or changes nothing of it.           *)
To == [s \in Sender |-> IF sender[s] = None THEN "nobody" ELSE sender[s].to]

(* A message begins.                                                       *)
LEMMA BusBegins ==
  ASSUME Inv, NEW s \in Sender, NEW j \in NodeId, NEW t \in Nat \ {0}, Begins(s, j, t)
  PROVE  Bus!Begin(s, j)
<1> DEFINE m == [to |-> j, no |-> next, k |-> 0, t |-> t]
<1>1. sender \in [Sender -> Sending]
  BY DEF Inv, Types
<1>2. /\ sender[s] = None /\ sender' = [sender EXCEPT ![s] = m] /\ next' = next + 1
      /\ line' = [line EXCEPT ![j] = Bus!Opened(s, j)] /\ UNCHANGED <<got, broken>>
  BY DEF Begins
<1>3. m # None /\ m.to = j
  BY DEF None
<1> HIDE DEF m
<1>4. To[s] = "nobody" /\ To' = [To EXCEPT ![s] = j]
  <2>1. sender'[s] = m /\ \A r \in Sender : r # s => sender'[r] = sender[r]
    BY <1>1, <1>2
  <2>2. \A r \in Sender : To'[r] = IF r = s THEN j ELSE To[r]
    BY <1>3, <2>1 DEF To
  <2>3. To[s] = "nobody"
    BY <1>2 DEF To
  <2>4. To' = [To EXCEPT ![s] = j]
    BY <2>2 DEF To
  <2>5. QED BY <2>3, <2>4
<1>5. QED BY <1>2, <1>4 DEF Bus!Begin, Bus!Nobody, To

(* A sender adds the last frame of its message, or another one.            *)
LEMMA BusAdds ==
  ASSUME Inv, NEW s \in Sender, Adds(s)
  PROVE  Bus!End(s) \/ UNCHANGED Bus!vars
<1> DEFINE m == sender[s]
           x == [m EXCEPT !.k = @ + 1]
<1>1. sender \in [Sender -> Sending] /\ m \in Sending
  BY DEF Inv, Types
<1>2. /\ m.k < m.t /\ sender' = [sender EXCEPT ![s] = IF m.k + 1 = m.t THEN None ELSE x]
      /\ line' = IF m.k + 1 = m.t THEN [line EXCEPT ![m.to] = Bus!Closed(s, m.to)] ELSE line
      /\ UNCHANGED <<next, got, broken>>
  BY DEF Adds
<1>3. m # None
  BY <1>2 DEF None
<1>4. m \in [to : NodeId, no : Nat, k : Nat, t : Nat \ {0}]
  BY <1>1, <1>3 DEF Sending
<1>5. m.to \in NodeId /\ m.to # "nobody" /\ To[s] = m.to
  BY <1>3, <1>4, DriverAssumption DEF To
<1>6. x # None /\ x.to = m.to
  BY <1>4 DEF None
<1> HIDE DEF x
<1>7. \A r \in Sender : r # s => sender'[r] = sender[r]
  BY <1>1, <1>2
<1>8. CASE m.k + 1 = m.t
  <2>1. sender'[s] = None
    BY <1>1, <1>2, <1>8
  <2>2. \A r \in Sender : To'[r] = IF r = s THEN "nobody" ELSE To[r]
    BY <1>7, <2>1 DEF To
  <2>3. To' = [To EXCEPT ![s] = "nobody"]
    BY <2>2 DEF To
  <2>4. line' = [line EXCEPT ![To[s]] = Bus!Closed(s, To[s])]
    BY <1>2, <1>5, <1>8
  <2>5. QED BY <1>2, <1>5, <2>3, <2>4 DEF Bus!End, Bus!Nobody, To
<1>9. CASE m.k + 1 # m.t
  <2>1. sender'[s] = x /\ line' = line
    BY <1>1, <1>2, <1>9
  <2>2. \A r \in Sender : To'[r] = To[r]
    BY <1>3, <1>6, <1>7, <2>1 DEF To
  <2>3. To' = To
    BY <2>2 DEF To
  <2>4. QED BY <1>2, <2>1, <2>3 DEF Bus!vars, To
<1>10. QED BY <1>8, <1>9

(* A frame is lost.                                                        *)
LEMMA BusLost ==
  ASSUME Inv, NEW f \in Piece, Lost(f)
  PROVE  Bus!Lose(f.to)
<1>1. Leaves(f) /\ broken' = broken \cup {f.to} /\ UNCHANGED got
  BY DEF Lost
<1>2. UNCHANGED <<sender, next>> /\ line' = IF f.k < f.t THEN line ELSE [line EXCEPT ![f.to] = Ended(@, f.no)]
  BY <1>1 DEF Leaves
<1>3. line' = line \/ \E k \in DOMAIN line[f.to] : line' = [line EXCEPT ![f.to] = Bus!Without(@, k)]
  <2>1. CASE f.k < f.t
    BY <1>2, <2>1
  <2>2. CASE ~(f.k < f.t)
    <3>1. f.k = f.t
      BY <1>1, <2>2, LeavesFacts
    <3>2. QED BY <1>1, <3>1, LeavesFacts
  <2>3. QED BY <2>1, <2>2
<1>4. To' = To
  BY <1>2 DEF To
<1>5. QED BY <1>1, <1>2, <1>3, <1>4 DEF Bus!Lose, To

(* The last frame of a message that does not overlap completes it.         *)
LEMMA Completed ==
  ASSUME NEW f \in Piece, NEW q \in Seq(Piece), q = pending[f.to],
         IF f.k = 1 THEN q = <<>> ELSE Has(q, f.no, f.k - 1)
  PROVE  ~Refused(f) /\ Whole(Assembled(f))
<1>0. f.k \in Nat /\ f.k > 0
  BY DEF Piece
<1>1. CASE f.k = 1
  <2>1. Assembled(f) = <<f>> /\ ~Refused(f)
    BY <1>1 DEF Assembled, Refused
  <2>2. QED BY <1>1, <2>1 DEF Whole
<1>2. CASE f.k # 1
  <2>1. /\ Len(q) = f.k - 1 /\ f.k - 1 > 0
        /\ \A j \in 1..(f.k - 1) : q[j].no = f.no /\ q[j].k = j
    BY <1>2 DEF Has
  <2>2. q # <<>>
    BY <1>0, <2>1
  <2>3. Assembled(f) = Append(q, f) /\ ~Refused(f)
    BY <1>2, <2>2 DEF Assembled, Refused
  <2> DEFINE w == Append(q, f)
  <2>4. DOMAIN w = 1..f.k /\ w[f.k] = f /\ \A j \in 1..(f.k - 1) : w[j] = q[j]
    <3>1. Len(w) = f.k /\ w[f.k] = f /\ \A j \in 1..(f.k - 1) : w[j] = q[j]
      BY <1>0, <2>1, AppendFacts
    <3>2. w \in Seq(Piece)
      OBVIOUS
    <3> HIDE DEF w
    <3>3. QED BY <3>1, <3>2
  <2> HIDE DEF w
  <2>5. ASSUME NEW j \in DOMAIN w PROVE w[j].no = f.no /\ w[j].k = j
    <3>1. j \in 1..(f.k - 1) \/ j = f.k
      BY <1>0, <2>4
    <3>2. QED BY <2>1, <2>4, <3>1
  <2>6. 1 \in DOMAIN w
    BY <1>0, <2>4
  <2>7. Whole(w)
    BY <2>5, <2>6 DEF Whole
  <2>8. QED BY <2>3, <2>7 DEF w
<1>3. QED BY <1>1, <1>2

(* A frame arrives, and with the last one the message is over.             *)
LEMMA BusArrives ==
  ASSUME Inv, NEW f \in Piece, Arrives(f)
  PROVE  \/ Bus!Arrive(f.to) \/ UNCHANGED Bus!vars
         \/ \E k \in DOMAIN line[f.to] : Bus!Disturbed(f.to, k)
<1> DEFINE i == f.to
<1>0. /\ Control /\ Types /\ Numbered(next, sender, Current) /\ Queued(next, sender, Current, Queue)
      /\ Ordered(Current, Queue) /\ Unbroken(broken, sender, Current, Queue, pending)
      /\ \A j \in NodeId : Increasing(line[j])
  BY DEF Inv
<1>1. /\ Leaves(f) /\ UNCHANGED broken
      /\ got' = IF Refused(f) \/ f.k < f.t THEN got
                ELSE [got EXCEPT ![i] = Append(@, IF Whole(Assembled(f)) THEN f.no ELSE Bus!Damaged)]
  BY DEF Arrives
<1>2. /\ UNCHANGED <<sender, next>> /\ Queue # <<>> /\ f = Head(Queue)
      /\ line' = IF f.k < f.t THEN line ELSE [line EXCEPT ![i] = Ended(@, f.no)]
  BY <1>1 DEF Leaves
<1>3. To' = To
  BY <1>2 DEF To
<1>4. i \in NodeId /\ f.no \in Nat /\ f.k \in Nat /\ f.t \in Nat /\ f.k <= f.t
  BY <1>1, LeavesFacts
<1>5. CASE f.k < f.t
  BY <1>1, <1>2, <1>3, <1>5 DEF Bus!vars, To
<1>6. CASE f.k = f.t
  <2>1. PICK k \in DOMAIN line[i] : line[i][k].no = f.no /\ line' = [line EXCEPT ![i] = Bus!Without(@, k)]
    BY <1>1, <1>6, LeavesFacts
  <2>2. CASE line[i][k].overlap \/ i \in broken
    <3>1. \/ UNCHANGED got
          \/ \E no \in {Bus!Damaged, line[i][k].no} : got' = [got EXCEPT ![i] = Append(@, no)]
      BY <1>1, <2>1
    <3>2. Bus!Disturbed(i, k)
      BY <1>1, <1>2, <1>3, <2>1, <2>2, <3>1 DEF Bus!Disturbed, To
    <3>3. QED BY <3>2
  <2>3. CASE ~line[i][k].overlap /\ i \notin broken
    <3> DEFINE d == line[i][k]
               q == pending[i]
    <3>1. /\ sender \in Senders /\ Current \in Lines /\ Queue \in Seq(Piece) /\ next \in Nat
          /\ q \in Seq(Piece) /\ line[i] \in Seq(Entry)
      BY <1>0, <1>4, CurrentFacts, QueueFacts DEF Types, Senders
    <3>2. Begun(i, sender, Current, Queue, q) /\ Complete(i, sender, Current, Queue, q)
      BY <1>0, <1>4, <2>3 DEF Unbroken
    <3>3. \A j \in DOMAIN line[i] : line[i][j] \in Current[i]
      BY <1>4 DEF Current, In
    <3> HIDE DEF q
    <3>4. /\ \A e \in Current[i] : e.no < f.no => e.overlap /\ Mixed(i, f.no, Current)
          /\ \A e \in Current[i] : ~e.overlap /\ e.no = f.no =>
               IF f.k = 1 THEN q = <<>> ELSE Has(q, f.no, f.k - 1)
      BY <1>0, <1>2, <1>4, <3>1, <3>2, FirstFrame
    <3>5. d \in Current[i] /\ d.no = f.no /\ ~d.overlap
      BY <2>1, <2>3, <3>3
    <3>6. ~Refused(f) /\ Whole(Assembled(f))
      <4>1. IF f.k = 1 THEN q = <<>> ELSE Has(q, f.no, f.k - 1)
        BY <3>4, <3>5
      <4>2. QED BY <3>1, <4>1, Completed DEF q
    <3>7. k = 1
      <4>1. 1 \in DOMAIN line[i] /\ k \in Nat /\ k >= 1
        BY <3>1
      <4>2. SUFFICES ASSUME 1 < k PROVE FALSE
        BY <4>1
      <4>3. line[i][1].no < f.no
        BY <1>0, <1>4, <2>1, <4>1, <4>2 DEF Increasing
      <4>4. Mixed(i, f.no, Current)
        BY <3>3, <3>4, <4>1, <4>3
      <4>5. QED BY <3>5, <4>4 DEF Mixed
    <3>8. line[i] # <<>> /\ Head(line[i]).no = f.no /\ line' = [line EXCEPT ![i] = Tail(@)]
      <4>1. Bus!Without(line[i], k) = Tail(line[i])
        BY <3>1, <3>7, WithoutFacts
      <4>2. line[i] # <<>> /\ Head(line[i]) = line[i][1]
        BY <2>1, <3>1
      <4>3. QED BY <2>1, <3>7, <4>1, <4>2
    <3>9. got' = [got EXCEPT ![i] = Append(@, Head(line[i]).no)]
      <4>1. ~(f.k < f.t)
        BY <1>4, <1>6
      <4>2. got' = [got EXCEPT ![i] = Append(@, f.no)]
        BY <1>1, <3>6, <4>1
      <4>3. QED BY <3>8, <4>2
    <3>10. Bus!Arrive(i)
      BY <1>1, <1>2, <1>3, <3>8, <3>9 DEF Bus!Arrive, To
    <3>11. QED BY <3>10
  <2>4. QED BY <2>2, <2>3
<1>7. QED BY <1>4, <1>5, <1>6

(* The messages arrive as MessageBus says, whatever the senders, the       *)
(* driver and the microcontroller do in which order, and whichever SPI     *)
(* transfers fail: the driver implements it.                               *)
THEOREM DeliversMessagesCorrect == Spec => DeliversMessages
<1>1. Init => Bus!Init
  BY DEF Init, Bus!Init, Bus!Nobody
<1>2. Inv /\ [Next]_vars => [Bus!Next]_(Bus!vars)
  <2>1. SUFFICES ASSUME Inv, [Next]_vars PROVE Bus!Next \/ UNCHANGED Bus!vars
    OBVIOUS
  <2>2. Kind
    BY <2>1, Kinds DEF Inv
  <2>3. CASE \E s \in Sender : Adds(s) \/ \E i \in NodeId, t \in Nat \ {0} : Begins(s, i, t)
    BY <2>1, <2>3, BusAdds, BusBegins DEF Bus!Next
  <2>4. CASE \E f \in Piece : Lost(f) \/ Arrives(f)
    <3>1. PICK f \in Piece : Lost(f) \/ Arrives(f)
      BY <2>4
    <3>2. f.to \in NodeId
      BY DEF Piece
    <3>3. QED BY <2>1, <3>1, <3>2, BusLost, BusArrives DEF Bus!Next
  <2>5. CASE Still
    <3>1. To' = To
      BY <2>5 DEF Still, To
    <3>2. QED BY <2>5, <3>1 DEF Still, Bus!vars, To
  <2>6. QED BY <2>2, <2>3, <2>4, <2>5 DEF Kind
<1>3. QED BY <1>1, <1>2, InvCorrect, PTL DEF Spec, DeliversMessages, Bus!Spec
=============================================================================
