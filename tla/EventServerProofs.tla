-------------------------- MODULE EventServerProofs --------------------------
(***************************************************************************)
(* Proofs about EventServer, for any connections, producers and channels,  *)
(* any capacity of the queues and any number of events.                    *)
(***************************************************************************)
EXTENDS EventServer, SequenceTheorems, WellFoundedInduction, TLAPS

Holding == {"walk", "send"}

(* Who holds the mutex is broadcasting, and only who broadcasts has an     *)
(* event and something left of the list.                                   *)
ControlOK ==
  /\ \A p \in Process : pc[p] \in Holding <=> mutex = p
  /\ \A p \in Process : pc[p] \in {"lock", "walk", "send"} <=> event[p] \in Event
  /\ \A p \in Process : pc[p] \notin Holding => walk[p] = <<>>
  /\ \A p \in Process : pc[p] = "send" => walk[p] # <<>>

(* The life of a descriptor: it is connected from NewClient until          *)
(* DeleteClient, which comes after its reader has ended, closes it.        *)
LifeInv ==
  \A c \in Conn :
    /\ pc[c] \in {"none", "hello", "greet", "refuse"} => sender[c] = "none"
    /\ sender[c] \in {"delete", "done"} => pc[c] = "done"
    /\ closed[c] <=> sender[c] = "done"
    /\ connected[c] <=> pc[c] # "none" /\ ~closed[c]

(* A descriptor that Broadcast has yet to visit is connected.              *)
WalkInv == \A p \in Process : \A k \in DOMAIN walk[p] : connected[walk[p][k]]

(* Broadcasts have numbers of their own.  While one is under way, what it  *)
(* has put into a queue is the last in there, and no descriptor it has yet *)
(* to visit has got it.                                                    *)
Has(s, n) == \E k \in DOMAIN s : s[k] = n

OrderInv ==
  /\ \A p \in Process : event[p] \in Event => event[p].n <= count
  /\ \A p, q \in Process : p # q /\ event[p] \in Event /\ event[q] \in Event => event[p].n # event[q].n
  /\ \A c \in Conn : \A k \in DOMAIN heard[c] : heard[c][k] <= count
  /\ \A p \in Process : IsInjective(walk[p])
  /\ \A p \in Process : pc[p] = "lock" => \A c \in Conn : ~Has(heard[c], event[p].n)
  /\ \A p \in Process : pc[p] \in Holding =>
       /\ \A c \in Conn : \A k \in DOMAIN heard[c] : heard[c][k] = event[p].n => k = Len(heard[c])
       /\ \A k \in DOMAIN walk[p] : ~Has(heard[walk[p][k]], event[p].n)

(* While the reader of a client that keeps to the numbering is in its      *)
(* loop, the client's counter is one ahead of the server's; and the        *)
(* request that is handled has the server's number, or none.               *)
InLoop == {"none", "hello", "greet", "receive", "lock", "walk", "send", "ack", "query", "reply"}
Handled == {"lock", "walk", "send", "ack", "query"}

NumberInv ==
  /\ \A c \in Conn : ~rogue[c] /\ pc[c] \in InLoop => msgId[c] = NextId(lastMsgId[c])
  /\ \A c \in Conn : pc[c] \in Handled /\ asked[c] # 0 => asked[c] = lastMsgId[c]
-----------------------------------------------------------------------------
(* The message numbers are uint16, and NextId never returns 0.             *)
LEMMA NumberFacts ==
  ASSUME NEW k \in Id
  PROVE  Increment(k) \in Id /\ NextId(k) \in Id /\ NextId(k) # 0 /\ NextId(0) = 1 /\ 0 \in Id /\ 1 \in Id
<1>1. MaxId \in Nat /\ MaxId > 0 /\ k \in Nat
  BY ServerAssumption DEF Id
<1>2. Increment(k) \in Id
  BY <1>1 DEF Increment, Id
<1>3. Increment(0) = 1 /\ 0 \in Id /\ 1 \in Id
  BY <1>1 DEF Increment, Id
<1>4. QED BY <1>2, <1>3 DEF NextId

(* Taking one element out of a list in which it is once leaves the others, *)
(* each of them once.                                                      *)
LEMMA RemoveFacts ==
  ASSUME NEW S, NEW s \in Seq(S), IsInjective(s), NEW i \in DOMAIN s
  PROVE  /\ RemoveFirst(s, s[i]) \in Seq(S) /\ IsInjective(RemoveFirst(s, s[i]))
         /\ {RemoveFirst(s, s[i])[k] : k \in DOMAIN RemoveFirst(s, s[i])} = {s[k] : k \in DOMAIN s} \ {s[i]}
<1>1. DOMAIN s = 1..Len(s) /\ Len(s) \in Nat
  OBVIOUS
<1>2. RemoveFirst(s, s[i]) = RemoveAt(s, i)
  <2> DEFINE I == {k \in 1..Len(s) : s[k] = s[i]}
  <2>1. I = {i}
    BY <1>1 DEF IsInjective
  <2>2. Min({i}) = i
    BY <1>1 DEF Min
  <2>3. SelectInSeq(s, LAMBDA v : v = s[i]) = i
    BY <2>1, <2>2 DEF SelectInSeq
  <2>4. QED BY <1>1, <2>3 DEF RemoveFirst
<1> DEFINE t == RemoveAt(s, i)
           old(k) == IF k < i THEN k ELSE k + 1
<1>3. t \in Seq(S) /\ Len(t) = Len(s) - 1 /\ \A k \in 1..Len(t) : t[k] = s[old(k)]
  <2> DEFINE a == SubSeq(s, 1, i - 1)
             b == SubSeq(s, i + 1, Len(s))
  <2>1. a \in Seq(S) /\ Len(a) = i - 1 /\ \A k \in 1..(i - 1) : a[k] = s[k]
    BY <1>1
  <2>2. b \in Seq(S) /\ Len(b) = Len(s) - i /\ \A k \in 1..(Len(s) - i) : b[k] = s[i + k]
    BY <1>1
  <2>3. t = a \o b
    BY DEF RemoveAt
  <2> HIDE DEF a, b, t
  <2>0. /\ t \in Seq(S) /\ Len(t) = Len(a) + Len(b)
        /\ \A k \in 1..(Len(a) + Len(b)) : t[k] = IF k <= Len(a) THEN a[k] ELSE b[k - Len(a)]
    BY <2>1, <2>2, <2>3, ConcatProperties
  <2>4. t \in Seq(S) /\ Len(t) = Len(s) - 1
    BY <1>1, <2>0, <2>1, <2>2
  <2>5. ASSUME NEW k \in 1..Len(t) PROVE t[k] = s[old(k)]
    <3>1. CASE k < i
      BY <1>1, <2>0, <2>1, <2>4, <3>1
    <3>2. CASE k >= i
      <4>1. t[k] = b[k - (i - 1)]
        BY <1>1, <2>0, <2>1, <2>4, <3>2
      <4>2. k - (i - 1) \in 1..(Len(s) - i) /\ i + (k - (i - 1)) = k + 1
        BY <1>1, <2>4, <3>2
      <4>3. QED BY <2>2, <3>2, <4>1, <4>2
    <3>3. QED BY <1>1, <2>4, <3>1, <3>2
  <2>6. QED BY <2>4, <2>5
<1> HIDE DEF t
<1>4. DOMAIN t = 1..Len(t) /\ Len(t) \in Nat
  BY <1>3
<1>5. \A k \in DOMAIN t : old(k) \in DOMAIN s /\ old(k) # i
  BY <1>1, <1>3, <1>4
<1>6. \A j, k \in DOMAIN t : old(j) = old(k) => j = k
  BY <1>1, <1>3, <1>4
<1>7. IsInjective(t)
  BY <1>3, <1>4, <1>5, <1>6 DEF IsInjective
<1>8. \A k \in DOMAIN s : k # i => \E j \in DOMAIN t : old(j) = k
  <2> SUFFICES ASSUME NEW k \in DOMAIN s, k # i PROVE \E j \in DOMAIN t : old(j) = k
    OBVIOUS
  <2>1. CASE k < i
    BY <1>1, <1>3, <1>4, <2>1
  <2>2. CASE k > i
    <3>1. k - 1 \in DOMAIN t /\ old(k - 1) = k
      BY <1>1, <1>3, <1>4, <2>2
    <3>2. QED BY <3>1
  <2>3. QED BY <1>1, <2>1, <2>2
<1> HIDE DEF old
<1>9. {t[k] : k \in DOMAIN t} = {s[k] : k \in DOMAIN s} \ {s[i]}
  <2>1. \A k \in DOMAIN t : t[k] \in {s[j] : j \in DOMAIN s} /\ t[k] # s[i]
    BY <1>3, <1>4, <1>5 DEF IsInjective
  <2>2. ASSUME NEW k \in DOMAIN s, s[k] # s[i] PROVE \E j \in DOMAIN t : t[j] = s[k]
    <3>1. PICK j \in DOMAIN t : old(j) = k
      BY <1>8, <2>2
    <3>2. QED BY <1>3, <1>4, <3>1
  <2>3. QED BY <2>1, <2>2
<1>10. QED BY <1>2, <1>3, <1>7, <1>9 DEF t
-----------------------------------------------------------------------------
(* Every step keeps the types.                                             *)
LEMMA TypeStep ==
  ASSUME TypeOK, ListExact, ControlOK, LifeInv, [Next]_vars
  PROVE  TypeOK'
<1> USE DEF TypeOK, Location, Goto, listVars, connVars, idVars
<1>0. /\ Conn \subseteq Process /\ MaxEvents \in Nat /\ QueueSize \in Nat /\ QueueSize > 0
      /\ \A k \in Id : Increment(k) \in Id /\ NextId(k) \in Id
      /\ 0 \in Id /\ 1 \in Id
  <2>1. 0 \in Id
    BY ServerAssumption DEF Id
  <2>2. \A k \in Id : Increment(k) \in Id /\ NextId(k) \in Id /\ 1 \in Id
    BY NumberFacts
  <2>3. Conn \subseteq Process /\ MaxEvents \in Nat /\ QueueSize \in Nat /\ QueueSize > 0
    BY ServerAssumption DEF Process
  <2>4. QED BY <2>1, <2>2, <2>3
<1>1. ASSUME NEW c \in Conn, NEW item \in Item, Put(c, item)
      PROVE  outputChan' \in [Conn -> Seq(Item)] /\ \A d \in Conn : Len(outputChan'[d]) <= QueueSize
  <2>1. CASE connected[c]
    <3>1. Len(outputChan[c]) < QueueSize /\ outputChan' = [outputChan EXCEPT ![c] = Append(@, item)]
      BY <1>1, <2>1 DEF Put
    <3>2. Append(outputChan[c], item) \in Seq(Item) /\ Len(Append(outputChan[c], item)) = Len(outputChan[c]) + 1
      BY <1>1
    <3>3. outputChan[c] \in Seq(Item) /\ Len(outputChan[c]) \in Nat
      OBVIOUS
    <3>4. QED BY <1>0, <3>1, <3>2, <3>3
  <2>2. CASE ~connected[c]
    BY <1>1, <2>2 DEF Put
  <2>3. QED BY <2>1, <2>2
<1>2. ASSUME NEW c \in Conn, NEW k \in {"ok", "bad", "event"}, SendAck(c, k)
      PROVE  outputChan' \in [Conn -> Seq(Item)] /\ \A d \in Conn : Len(outputChan'[d]) <= QueueSize
  <2>1. [kind |-> k, id |-> lastMsgId[c], re |-> asked[c]] \in Item
    BY DEF Item
  <2>2. QED BY <1>1, <1>2, <2>1 DEF SendAck
<1>3. ASSUME NEW c \in Conn, NEW id \in Id, Ask(c, id)
      PROVE  asked' \in [Conn -> Id] /\ msgId' \in [Conn -> Id] /\ rogue' \in [Conn -> BOOLEAN]
  <2>1. /\ asked' = [asked EXCEPT ![c] = id]
        /\ msgId' = [msgId EXCEPT ![c] = NextId(@)] \/ msgId' = msgId
        /\ rogue' = [rogue EXCEPT ![c] = TRUE] \/ rogue' = rogue
    BY <1>3, Zenon DEF Ask
  <2>2. NextId(msgId[c]) \in Id
    BY <1>0
  <2>3. QED BY <2>1, <2>2
<1>4. ASSUME NEW p \in Process, NEW about \in Channel \cup {NoChannel}, NEW exclude \in Conn \cup {Nobody},
             StartBroadcast(p, about, exclude)
      PROVE  /\ event' \in [Process -> Event \cup {NoEvent}] /\ count' \in 0..MaxEvents
             /\ pc' = [pc EXCEPT ![p] = "lock"]
  <2>1. count + 1 \in 1..MaxEvents
    BY <1>0, <1>4 DEF StartBroadcast
  <2>2. [n |-> count + 1, about |-> about, exclude |-> exclude] \in Event
    BY <2>1 DEF Event
  <2>3. QED BY <1>4, <2>1, <2>2 DEF StartBroadcast
<1>5. ASSUME NEW c \in Conn, NewClient(c) PROVE TypeOK'
  BY <1>0, <1>5 DEF NewClient
<1>6. ASSUME NEW c \in Conn, Hello(c) PROVE TypeOK'
  BY <1>0, <1>6 DEF Hello
<1>7. ASSUME NEW c \in Conn, Greet(c) PROVE TypeOK'
  <2>1. \/ \E id \in Id : lastMsgId' = [lastMsgId EXCEPT ![c] = id] /\ msgId' = [msgId EXCEPT ![c] = NextId(id)]
        \/ UNCHANGED <<lastMsgId, msgId>>
    BY <1>0, <1>7 DEF Greet
  <2>2. lastMsgId' \in [Conn -> Id] /\ msgId' \in [Conn -> Id]
    <3>1. lastMsgId \in [Conn -> Id] /\ msgId \in [Conn -> Id]
      OBVIOUS
    <3>2. CASE UNCHANGED <<lastMsgId, msgId>>
      BY <3>1, <3>2
    <3>3. ASSUME NEW id \in Id, lastMsgId' = [lastMsgId EXCEPT ![c] = id], msgId' = [msgId EXCEPT ![c] = NextId(id)]
          PROVE  lastMsgId' \in [Conn -> Id] /\ msgId' \in [Conn -> Id]
      <4>1. NextId(id) \in Id
        BY <1>0
      <4>2. QED BY <3>1, <3>3, <4>1
    <3>4. QED BY <2>1, <3>2, <3>3
  <2>3. /\ sender' = [sender EXCEPT ![c] = "select"] \/ sender' = sender
        /\ pc' = [pc EXCEPT ![c] = "receive"] \/ pc' = [pc EXCEPT ![c] = "refuse"]
    BY <1>7, Zenon DEF Greet
  <2>4. QED BY <1>0, <1>7, <2>2, <2>3 DEF Greet
<1>8. ASSUME NEW c \in Conn, Refuse(c) PROVE TypeOK'
  BY <1>0, <1>2, <1>8 DEF Refuse
<1>9. ASSUME NEW c \in Conn, ReceiveEnd(c) \/ ReceiveError(c) PROVE TypeOK'
  <2>1. CASE ReceiveEnd(c)
    BY <1>0, <2>1 DEF ReceiveEnd
  <2>2. CASE ReceiveError(c)
    <3>1. Increment(lastMsgId[c]) \in Id
      BY <1>0
    <3>2. QED BY <1>0, <2>2, <3>1 DEF ReceiveError
  <2>3. QED BY <1>9, <2>1, <2>2
<1>10. ASSUME NEW c \in Conn, NEW id \in Id
       PROVE  Numbered(c, id) \in Id /\ Increment(Numbered(c, id)) \in Id
  BY <1>0 DEF Numbered, Expected
<1>11. ASSUME NEW c \in Conn, NEW id \in Id, ReceiveMismatch(c, id) PROVE TypeOK'
  BY <1>0, <1>3, <1>10, <1>11 DEF ReceiveMismatch
<1>12. ASSUME NEW c \in Conn, NEW id \in Id, ReceiveUnhandled(c, id) PROVE TypeOK'
  BY <1>0, <1>3, <1>10, <1>12 DEF ReceiveUnhandled
<1>13. ASSUME NEW c \in Conn, NEW id \in Id, ReceiveQuery(c, id) PROVE TypeOK'
  <2>1. asked' \in [Conn -> Id] /\ msgId' \in [Conn -> Id] /\ rogue' \in [Conn -> BOOLEAN]
    BY <1>3, <1>13 DEF ReceiveQuery
  <2>2. lastMsgId' \in [Conn -> Id]
    BY <1>10, <1>13 DEF ReceiveQuery
  <2>3. pc' \in [Process -> Location]
    <3>1. pc \in [Process -> Location] /\ c \in Process /\ "ack" \in Location /\ "query" \in Location
      BY <1>0 DEF Location
    <3>2. pc' = [pc EXCEPT ![c] = "ack"] \/ pc' = [pc EXCEPT ![c] = "query"]
      BY <1>13, Zenon DEF ReceiveQuery, Goto
    <3>3. QED BY <3>1, <3>2, Zenon
  <2>4. QED BY <1>13, <2>1, <2>2, <2>3 DEF ReceiveQuery
<1>14. ASSUME NEW c \in Conn, NEW id \in Id, NEW f \in SUBSET Channel, ReceiveFilter(c, id, f) PROVE TypeOK'
  BY <1>0, <1>3, <1>10, <1>14 DEF ReceiveFilter
<1>15. ASSUME NEW c \in Conn, NEW id \in Id, NEW about \in Channel \cup {NoChannel}, ReceiveUpdate(c, id, about)
       PROVE  TypeOK'
  BY <1>0, <1>3, <1>4, <1>10, <1>15 DEF ReceiveUpdate
<1>16. ASSUME NEW c \in Conn, Ack(c) PROVE TypeOK'
  BY <1>0, <1>2, <1>16 DEF Ack
<1>17. ASSUME NEW c \in Conn, Reply(c) PROVE TypeOK'
  <2>1. [kind |-> "event", id |-> 0, re |-> 0] \in Item
    BY <1>0 DEF Item
  <2>2. QED BY <1>0, <1>1, <1>17, <2>1 DEF Reply
<1>18. ASSUME NEW c \in Conn, LastAck(c) PROVE TypeOK'
  BY <1>0, <1>2, <1>18 DEF LastAck
<1>19. ASSUME NEW c \in Conn, Terminate(c) PROVE TypeOK'
  BY <1>0, <1>19 DEF Terminate
<1>20. ASSUME NEW c \in Conn, Take(c) PROVE TypeOK'
  BY <1>0, <1>20 DEF Take
<1>21. ASSUME NEW c \in Conn, EncodeEvent(c) PROVE TypeOK'
  BY <1>0, <1>21 DEF EncodeEvent
<1>22. ASSUME NEW c \in Conn, DeleteClient(c) PROVE TypeOK'
  <2>1. connected[c] /\ IsInjective(clients)
    BY <1>22 DEF DeleteClient, LifeInv, ListExact
  <2>2. PICK i \in DOMAIN clients : clients[i] = c
    BY <2>1 DEF ListExact
  <2>3. clients' \in Seq(Conn)
    BY <1>22, <2>1, <2>2, RemoveFacts DEF DeleteClient
  <2>4. <<>> \in Seq(Item) /\ Len(<<>>) = 0
    OBVIOUS
  <2>5. outputChan' \in [Conn -> Seq(Item)] /\ \A d \in Conn : Len(outputChan'[d]) <= QueueSize
    <3>1. outputChan' = [outputChan EXCEPT ![c] = <<>>]
      BY <1>22 DEF DeleteClient
    <3>2. outputChan \in [Conn -> Seq(Item)] /\ \A d \in Conn : Len(outputChan[d]) <= QueueSize
      OBVIOUS
    <3>3. outputChan' \in [Conn -> Seq(Item)]
      BY <2>4, <3>1, <3>2, Zenon
    <3>4. \A d \in Conn : outputChan'[d] = <<>> \/ outputChan'[d] = outputChan[d]
      BY <3>1, <3>2, Zenon
    <3>5. 0 <= QueueSize
      BY <1>0
    <3>6. ASSUME NEW d \in Conn PROVE Len(outputChan'[d]) <= QueueSize
      BY <2>4, <3>2, <3>4, <3>5
    <3>7. QED BY <3>3, <3>6
  <2>6. lastMsgId' \in [Conn -> Id]
    BY <1>0, <1>22 DEF DeleteClient
  <2>7. QED BY <1>22, <2>3, <2>5, <2>6 DEF DeleteClient
<1>23. ASSUME NEW p \in Producer, NEW about \in Channel \cup {NoChannel}, Produce(p, about) PROVE TypeOK'
  BY <1>0, <1>4, <1>23 DEF Produce, Process
<1>24. ASSUME NEW p \in Process, Lock(p) PROVE TypeOK'
  BY <1>24 DEF Lock
<1>25. ASSUME NEW p \in Process, Walk(p) PROVE TypeOK'
  <2>1. Tail(walk[p]) \in Seq(Conn)
    BY <1>25 DEF Walk
  <2>2. /\ pc' = [pc EXCEPT ![p] = "send"] \/ pc' = pc
        /\ walk' = [walk EXCEPT ![p] = Tail(walk[p])] \/ walk' = walk
    BY <1>25, Zenon DEF Walk
  <2>3. QED BY <1>25, <2>1, <2>2 DEF Walk
<1>26. ASSUME NEW p \in Process, SendEvent(p) PROVE TypeOK'
  <2> DEFINE c == Head(walk[p])
             item == [kind |-> "event", id |-> 0, re |-> 0]
  <2>1. walk[p] # <<>>
    BY <1>26 DEF SendEvent, ControlOK
  <2>2. c \in Conn /\ Tail(walk[p]) \in Seq(Conn)
    BY <2>1
  <2>3. item \in Item
    BY <1>0 DEF Item
  <2>4. event[p].n \in 1..MaxEvents
    BY <1>26 DEF SendEvent, ControlOK, Event
  <2>5. /\ outputChan' = outputChan \/ (Len(outputChan[c]) < QueueSize
                                          /\ outputChan' = [outputChan EXCEPT ![c] = Append(@, item)])
        /\ heard' = [heard EXCEPT ![c] = Append(@, event[p].n)]
        /\ panic' \in BOOLEAN /\ walk' = [walk EXCEPT ![p] = Tail(@)]
    BY <1>26 DEF SendEvent
  <2> HIDE DEF c, item
  <2>6. Append(heard[c], event[p].n) \in Seq(1..MaxEvents)
    BY <2>2, <2>4
  <2>7. /\ Append(outputChan[c], item) \in Seq(Item) /\ Len(outputChan[c]) \in Nat
        /\ Len(Append(outputChan[c], item)) = Len(outputChan[c]) + 1
    BY <2>2, <2>3
  <2>8. outputChan' \in [Conn -> Seq(Item)] /\ \A d \in Conn : Len(outputChan'[d]) <= QueueSize
    <3>1. CASE outputChan' = outputChan
      BY <3>1
    <3>2. CASE Len(outputChan[c]) < QueueSize /\ outputChan' = [outputChan EXCEPT ![c] = Append(@, item)]
      <4>1. Len(Append(outputChan[c], item)) <= QueueSize
        BY <1>0, <2>7, <3>2
      <4>2. QED BY <2>2, <2>7, <3>2, <4>1
    <3>3. QED BY <2>5, <3>1, <3>2
  <2>9. heard' \in [Conn -> Seq(1..MaxEvents)] /\ walk' \in [Process -> Seq(Conn)]
    BY <2>2, <2>5, <2>6
  <2>10. QED BY <1>26, <2>5, <2>8, <2>9 DEF SendEvent
<1>27. ASSUME NEW p \in Process, Unlock(p) PROVE TypeOK'
  BY <1>27 DEF Unlock
<1>28. CASE UNCHANGED vars
  BY <1>28 DEF vars
<1>29. CASE Next
  BY <1>5, <1>6, <1>7, <1>8, <1>9, <1>11, <1>12, <1>13, <1>14, <1>15, <1>16, <1>17, <1>18, <1>19,
     <1>20, <1>21, <1>22, <1>23, <1>24, <1>25, <1>26, <1>27, <1>29
  DEF Next, Receive, Reader, Sender, Broadcast
<1>30. QED BY <1>28, <1>29
-----------------------------------------------------------------------------
Broadcasting == {"lock", "walk", "send"}

(* A step that has nothing to do with a broadcast.                         *)
Quiet ==
  /\ UNCHANGED <<mutex, walk, event, heard, count>>
  /\ \A p \in Process : pc'[p] = pc[p] \/ (pc[p] \notin Broadcasting /\ pc'[p] \notin Broadcasting)

(* A handler or a producer is about to broadcast.                          *)
Starts(p) ==
  /\ pc[p] \notin Broadcasting
  /\ pc' = [pc EXCEPT ![p] = "lock"]
  /\ \E e \in Event : e.n = count + 1 /\ event' = [event EXCEPT ![p] = e]
  /\ count' = count + 1
  /\ UNCHANGED <<mutex, walk, heard>>

(* What every step is with regard to broadcasts.                           *)
LEMMA StepKinds ==
  ASSUME TypeOK, [Next]_vars
  PROVE  \/ Quiet
         \/ \E p \in Process : Starts(p)
         \/ \E p \in Process : Lock(p) \/ Walk(p) \/ SendEvent(p) \/ Unlock(p)
<1> USE DEF listVars, connVars, idVars
<1>0. pc \in [Process -> Location] /\ Conn \subseteq Process
  BY DEF TypeOK, Process
<1>1. ASSUME NEW c \in Conn, NEW l \in Location \ Broadcasting, Goto(c, l), pc[c] \notin Broadcasting,
             UNCHANGED <<mutex, walk, event, heard, count>>
      PROVE  Quiet
  BY <1>0, <1>1 DEF Goto, Quiet
<1>2. ASSUME NEW c \in Conn, NewClient(c) \/ Hello(c) \/ Refuse(c) \/ Reply(c) \/ LastAck(c) \/ Terminate(c)
      PROVE  Quiet
  <2>1. CASE NewClient(c)
    BY <1>1, <2>1 DEF NewClient, Broadcasting, Location
  <2>2. CASE Hello(c)
    BY <1>1, <2>2 DEF Hello, Broadcasting, Location
  <2>3. CASE Refuse(c)
    BY <1>1, <2>3 DEF Refuse, Broadcasting, Location
  <2>4. CASE Reply(c)
    BY <1>1, <2>4 DEF Reply, Broadcasting, Location
  <2>5. CASE LastAck(c)
    BY <1>1, <2>5 DEF LastAck, Broadcasting, Location
  <2>6. CASE Terminate(c)
    BY <1>1, <2>6 DEF Terminate, Broadcasting, Location
  <2>7. QED BY <1>2, <2>1, <2>2, <2>3, <2>4, <2>5, <2>6
<1>3. ASSUME NEW c \in Conn, Ack(c) PROVE Quiet
  <2>1. Goto(c, "terminate") \/ Goto(c, "reply") \/ Goto(c, "receive")
    BY <1>3 DEF Ack
  <2>2. QED BY <1>1, <1>3, <2>1 DEF Ack, Broadcasting, Location
<1>4. ASSUME NEW c \in Conn, Greet(c) PROVE Quiet
  <2>1. Goto(c, "receive") \/ Goto(c, "refuse")
    BY <1>4 DEF Greet
  <2>2. QED BY <1>1, <1>4, <2>1 DEF Greet, Broadcasting, Location
<1>5. ASSUME NEW c \in Conn, ReceiveEnd(c) \/ ReceiveError(c) PROVE Quiet
  BY <1>1, <1>5 DEF ReceiveEnd, ReceiveError, Broadcasting, Location
<1>6. ASSUME NEW c \in Conn, NEW id \in Id, ReceiveMismatch(c, id) \/ ReceiveUnhandled(c, id) \/ ReceiveQuery(c, id)
      PROVE  Quiet
  <2>1. CASE ReceiveMismatch(c, id)
    BY <1>1, <2>1 DEF ReceiveMismatch, Broadcasting, Location
  <2>2. CASE ReceiveUnhandled(c, id)
    BY <1>1, <2>2 DEF ReceiveUnhandled, Broadcasting, Location
  <2>3. CASE ReceiveQuery(c, id)
    BY <1>1, <2>3 DEF ReceiveQuery, Broadcasting, Location
  <2>4. QED BY <1>6, <2>1, <2>2, <2>3
<1>7. ASSUME NEW c \in Conn, NEW id \in Id, NEW f \in SUBSET Channel, ReceiveFilter(c, id, f) PROVE Quiet
  BY <1>1, <1>7 DEF ReceiveFilter, Broadcasting, Location
<1>8. ASSUME NEW p \in Process, NEW about \in Channel \cup {NoChannel}, NEW exclude \in Conn \cup {Nobody},
             StartBroadcast(p, about, exclude), pc[p] \notin Broadcasting, UNCHANGED <<mutex, walk, heard>>
      PROVE  Starts(p)
  <2> DEFINE e == [n |-> count + 1, about |-> about, exclude |-> exclude]
  <2>1. e \in Event /\ e.n = count + 1
    BY <1>8, ServerAssumption DEF StartBroadcast, TypeOK, Event
  <2>2. event' = [event EXCEPT ![p] = e] /\ count' = count + 1 /\ Goto(p, "lock")
    BY <1>8 DEF StartBroadcast
  <2> HIDE DEF e
  <2>3. QED BY <1>8, <2>1, <2>2 DEF Starts, Goto
<1>9. ASSUME NEW c \in Conn, NEW id \in Id, NEW about \in Channel \cup {NoChannel}, ReceiveUpdate(c, id, about)
      PROVE  Starts(c)
  BY <1>0, <1>8, <1>9 DEF ReceiveUpdate, Broadcasting, Location
<1>10. ASSUME NEW p \in Producer, NEW about \in Channel \cup {NoChannel}, Produce(p, about) PROVE Starts(p)
  BY <1>8, <1>10 DEF Produce, Broadcasting, Process
<1>11. ASSUME NEW c \in Conn, Take(c) \/ EncodeEvent(c) \/ DeleteClient(c) PROVE Quiet
  BY <1>11 DEF Take, EncodeEvent, DeleteClient, Quiet
<1>12. CASE UNCHANGED vars
  BY <1>12 DEF vars, Quiet
<1>13. CASE Next
  <2>1. ASSUME NEW c \in Conn, NewClient(c) \/ Hello(c) \/ Greet(c) \/ Receive(c) \/ Reader(c) \/ Sender(c)
        PROVE  Quiet \/ \E p \in Process : Starts(p)
    BY <1>0, <1>2, <1>3, <1>4, <1>5, <1>6, <1>7, <1>9, <1>11, <2>1 DEF Receive, Reader, Sender
  <2>2. QED BY <1>10, <1>13, <2>1 DEF Next, Broadcast, Process
<1>14. QED BY <1>12, <1>13

(* Every step keeps ControlOK.                                             *)
LEMMA ControlStep ==
  ASSUME TypeOK, ControlOK, [Next]_vars
  PROVE  ControlOK'
<1> USE DEF ControlOK, Broadcasting, Holding
<1>0. /\ NoEvent \notin Event
      /\ Nobody \notin Process
      /\ pc \in [Process -> Location] /\ event \in [Process -> Event \cup {NoEvent}] /\ walk \in [Process -> Seq(Conn)]
  <2>1. \A e \in Event : e.n # 0
    BY DEF Event
  <2>2. QED BY <2>1, ServerAssumption DEF TypeOK, Process, NoEvent
<1>1. CASE Quiet
  BY <1>1 DEF Quiet
<1>2. ASSUME NEW p \in Process, Starts(p) PROVE ControlOK'
  BY <1>0, <1>2 DEF Starts
<1>3. ASSUME NEW p \in Process, Lock(p) PROVE ControlOK'
  BY <1>0, <1>3 DEF Lock, Goto
<1>4. ASSUME NEW p \in Process, Walk(p) PROVE ControlOK'
  <2>1. /\ \/ pc' = [pc EXCEPT ![p] = "send"] /\ walk' = walk
           \/ pc' = pc /\ walk' = [walk EXCEPT ![p] = Tail(@)]
        /\ pc[p] = "walk" /\ walk[p] # <<>> /\ UNCHANGED <<mutex, event>>
    BY <1>4, Zenon DEF Walk, Goto
  <2>2. QED BY <1>0, <2>1
<1>5. ASSUME NEW p \in Process, SendEvent(p) PROVE ControlOK'
  BY <1>0, <1>5 DEF SendEvent, Goto
<1>6. ASSUME NEW p \in Process, Unlock(p) PROVE ControlOK'
  <2>1. /\ \E l \in {"ack", "idle"} : pc' = [pc EXCEPT ![p] = l]
        /\ event' = [event EXCEPT ![p] = NoEvent] /\ mutex' = Nobody /\ walk' = walk
        /\ pc[p] = "walk" /\ walk[p] = <<>>
    BY <1>6 DEF Unlock, Goto
  <2>2. QED BY <1>0, <2>1
<1>7. QED BY <1>1, <1>2, <1>3, <1>4, <1>5, <1>6, StepKinds
-----------------------------------------------------------------------------
(* Every step keeps LifeInv.                                               *)
LEMMA LifeStep ==
  ASSUME TypeOK, ControlOK, LifeInv, [Next]_vars
  PROVE  LifeInv'
<1> USE DEF LifeInv, Goto, listVars, connVars, idVars
<1>0. /\ pc \in [Process -> Location] /\ Conn \subseteq Process
      /\ sender \in [Conn -> {"none", "select", "encode", "wait", "delete", "done"}]
      /\ connected \in [Conn -> BOOLEAN] /\ closed \in [Conn -> BOOLEAN]
  BY DEF TypeOK, Process
<1>1. ASSUME NEW p \in Process, NEW l \in Location,
             p \in Conn => pc[p] \notin {"none", "done"} /\ l \notin {"none", "hello", "greet", "refuse"},
             p \in Conn /\ pc[p] \in {"hello", "greet", "refuse"} => l = "done",
             Goto(p, l), UNCHANGED <<sender, connected, closed>>
      PROVE  LifeInv'
  BY <1>0, <1>1
<1>2. ASSUME NEW c \in Conn, NewClient(c) PROVE LifeInv'
  BY <1>0, <1>2 DEF NewClient
<1>3. ASSUME NEW c \in Conn, Hello(c) PROVE LifeInv'
  BY <1>0, <1>3 DEF Hello
<1>4. ASSUME NEW c \in Conn, Greet(c) PROVE LifeInv'
  BY <1>0, <1>4 DEF Greet
<1>5. ASSUME NEW c \in Conn, Refuse(c) PROVE LifeInv'
  BY <1>0, <1>1, <1>5 DEF Refuse, Location
<1>6. ASSUME NEW c \in Conn, ReceiveEnd(c) \/ ReceiveError(c) PROVE LifeInv'
  BY <1>0, <1>1, <1>6 DEF ReceiveEnd, ReceiveError, Location
<1>7. ASSUME NEW c \in Conn, NEW id \in Id, ReceiveMismatch(c, id) \/ ReceiveUnhandled(c, id) \/ ReceiveQuery(c, id)
      PROVE  LifeInv'
  BY <1>0, <1>1, <1>7 DEF ReceiveMismatch, ReceiveUnhandled, ReceiveQuery, Location
<1>8. ASSUME NEW c \in Conn, NEW id \in Id, NEW f \in SUBSET Channel, ReceiveFilter(c, id, f) PROVE LifeInv'
  BY <1>0, <1>1, <1>8 DEF ReceiveFilter, Location
<1>9. ASSUME NEW c \in Conn, NEW id \in Id, NEW about \in Channel \cup {NoChannel}, ReceiveUpdate(c, id, about)
      PROVE  LifeInv'
  BY <1>0, <1>1, <1>9 DEF ReceiveUpdate, StartBroadcast, Location
<1>10. ASSUME NEW c \in Conn, Ack(c) PROVE LifeInv'
  <2>1. Goto(c, "terminate") \/ Goto(c, "reply") \/ Goto(c, "receive")
    BY <1>10 DEF Ack
  <2>2. QED BY <1>0, <1>1, <1>10, <2>1 DEF Ack, Location
<1>11. ASSUME NEW c \in Conn, Reply(c) PROVE LifeInv'
  <2>1. Goto(c, "terminate") \/ Goto(c, "receive")
    BY <1>11 DEF Reply
  <2>2. QED BY <1>0, <1>1, <1>11, <2>1 DEF Reply, Location
<1>12. ASSUME NEW c \in Conn, LastAck(c) PROVE LifeInv'
  BY <1>0, <1>1, <1>12 DEF LastAck, Location
<1>13. ASSUME NEW c \in Conn, Terminate(c) PROVE LifeInv'
  BY <1>0, <1>13 DEF Terminate
<1>14. ASSUME NEW c \in Conn, Take(c) \/ EncodeEvent(c) PROVE LifeInv'
  <2>1. /\ \E l \in {"encode", "select", "wait"} : sender' = [sender EXCEPT ![c] = l]
        /\ sender[c] \in {"select", "encode"} /\ UNCHANGED <<pc, connected, closed>>
    BY <1>14 DEF Take, EncodeEvent
  <2>2. QED BY <1>0, <2>1
<1>15. ASSUME NEW c \in Conn, DeleteClient(c) PROVE LifeInv'
  BY <1>0, <1>15 DEF DeleteClient
<1>16. ASSUME NEW p \in Producer, NEW about \in Channel \cup {NoChannel}, Produce(p, about) PROVE LifeInv'
  <2>1. p \in Process /\ p \notin Conn
    BY ServerAssumption DEF Process
  <2>2. QED BY <1>1, <1>16, <2>1 DEF Produce, StartBroadcast, Location
<1>17. ASSUME NEW p \in Process, Lock(p) PROVE LifeInv'
  BY <1>1, <1>17 DEF Lock, Location
<1>18. ASSUME NEW p \in Process, Walk(p) PROVE LifeInv'
  <2>1. Goto(p, "send") \/ pc' = pc
    BY <1>18, Zenon DEF Walk
  <2>2. QED BY <1>1, <1>18, <2>1 DEF Walk, Location
<1>19. ASSUME NEW p \in Process, SendEvent(p) PROVE LifeInv'
  BY <1>1, <1>19 DEF SendEvent, Location
<1>20. ASSUME NEW p \in Process, Unlock(p) PROVE LifeInv'
  <2>1. Goto(p, "ack") \/ Goto(p, "idle")
    BY <1>20 DEF Unlock
  <2>2. QED BY <1>1, <1>20, <2>1 DEF Unlock, Location
<1>21. CASE UNCHANGED vars
  BY <1>21 DEF vars
<1>22. CASE Next
  BY <1>2, <1>3, <1>4, <1>5, <1>6, <1>7, <1>8, <1>9, <1>10, <1>11, <1>12, <1>13, <1>14, <1>15, <1>16,
     <1>17, <1>18, <1>19, <1>20, <1>22
  DEF Next, Receive, Reader, Sender, Broadcast
<1>23. QED BY <1>21, <1>22

(* Only NewClient and DeleteClient, with the mutex free, change the list   *)
(* and who is connected.                                                   *)
LEMMA ListFrame ==
  ASSUME TypeOK, [Next]_vars
  PROVE  \/ UNCHANGED <<clients, connected>>
         \/ \E c \in Conn : NewClient(c)
         \/ \E c \in Conn : DeleteClient(c)
<1> USE DEF listVars, connVars
<1>1. ASSUME NEW c \in Conn, Receive(c) PROVE UNCHANGED <<clients, connected>>
  BY <1>1 DEF Receive, ReceiveEnd, ReceiveError, ReceiveMismatch, ReceiveUnhandled, ReceiveQuery,
              ReceiveFilter, ReceiveUpdate
<1>2. ASSUME NEW c \in Conn, Hello(c) \/ Greet(c) \/ Reader(c) \/ Take(c) \/ EncodeEvent(c)
      PROVE  UNCHANGED <<clients, connected>>
  BY <1>2 DEF Hello, Greet, Reader, Refuse, Ack, Reply, LastAck, Terminate, Take, EncodeEvent
<1>3. ASSUME NEW p \in Process, Broadcast(p) PROVE UNCHANGED <<clients, connected>>
  BY <1>3 DEF Broadcast, Lock, Walk, SendEvent, Unlock
<1>4. ASSUME NEW p \in Producer, NEW about \in Channel \cup {NoChannel}, Produce(p, about)
      PROVE  UNCHANGED <<clients, connected>>
  BY <1>4 DEF Produce
<1>5. QED BY <1>1, <1>2, <1>3, <1>4 DEF Next, Sender, vars

(* Every step keeps ListExact and WalkInv.                                 *)
LEMMA ListStep ==
  ASSUME TypeOK, ControlOK, LifeInv, ListExact, WalkInv, [Next]_vars
  PROVE  ListExact' /\ WalkInv'
<1>0. /\ clients \in Seq(Conn) /\ DOMAIN clients = 1..Len(clients) /\ Len(clients) \in Nat
      /\ connected \in [Conn -> BOOLEAN] /\ walk \in [Process -> Seq(Conn)] /\ Conn \subseteq Process
      /\ Nobody \notin Process
  BY ServerAssumption DEF TypeOK, Process
<1>1. CASE UNCHANGED <<clients, connected>>
  <2>1. ListExact'
    BY <1>1 DEF ListExact
  <2>2. WalkInv'
    <3>1. CASE UNCHANGED walk
      BY <1>1, <3>1 DEF WalkInv
    <3>2. ASSUME NEW p \in Process, walk' = [walk EXCEPT ![p] = clients] PROVE WalkInv'
      BY <1>0, <1>1, <3>2 DEF WalkInv, ListExact
    <3>3. ASSUME NEW p \in Process, walk[p] # <<>>, walk' = [walk EXCEPT ![p] = Tail(@)] PROVE WalkInv'
      <4>1. walk[p] \in Seq(Conn)
        BY <1>0
      <4>2. \A k \in DOMAIN Tail(walk[p]) : k + 1 \in DOMAIN walk[p] /\ Tail(walk[p])[k] = walk[p][k + 1]
        BY <3>3, <4>1
      <4>3. QED BY <1>0, <1>1, <3>3, <4>2 DEF WalkInv
    <3>4. QED BY <3>1, <3>2, <3>3, StepKinds DEF Quiet, Starts, Lock, Walk, SendEvent, Unlock, ControlOK
  <2>3. QED BY <2>1, <2>2
<1>2. ASSUME NEW c \in Conn, NewClient(c) PROVE ListExact' /\ WalkInv'
  <2>1. clients' = <<c>> \o clients /\ connected' = [connected EXCEPT ![c] = TRUE] /\ walk' = walk
    BY <1>2 DEF NewClient
  <2>2. ~connected[c]
    BY <1>2 DEF NewClient, LifeInv
  <2>3. /\ clients' \in Seq(Conn) /\ Len(clients') = Len(clients) + 1 /\ clients'[1] = c
        /\ \A k \in 1..Len(clients) : clients'[k + 1] = clients[k]
    BY <1>0, <2>1
  <2>4. DOMAIN clients' = 1..(Len(clients) + 1)
    BY <2>3
  <2>5. \A k \in DOMAIN clients : clients[k] # c
    BY <2>2 DEF ListExact
  <2>6. \A k \in DOMAIN clients' : k = 1 \/ (k - 1 \in DOMAIN clients /\ clients'[k] = clients[k - 1])
    <3> SUFFICES ASSUME NEW k \in DOMAIN clients', k # 1
                 PROVE  k - 1 \in DOMAIN clients /\ clients'[k] = clients[k - 1]
      OBVIOUS
    <3>1. k - 1 \in 1..Len(clients) /\ (k - 1) + 1 = k
      BY <1>0, <2>4
    <3>2. QED BY <1>0, <2>3, <3>1
  <2>7. IsInjective(clients')
    <3> SUFFICES ASSUME NEW j \in DOMAIN clients', NEW k \in DOMAIN clients', clients'[j] = clients'[k]
                 PROVE  j = k
      BY DEF IsInjective
    <3>1. CASE j = 1 \/ k = 1
      BY <2>3, <2>5, <2>6, <3>1
    <3>2. CASE j # 1 /\ k # 1
      <4>1. j - 1 = k - 1
        BY <2>6, <3>2 DEF ListExact, IsInjective
      <4>2. QED BY <1>0, <2>4, <4>1
    <3>3. QED BY <3>1, <3>2
  <2>8. {clients'[k] : k \in DOMAIN clients'} = {clients[k] : k \in DOMAIN clients} \cup {c}
    <3>1. \A k \in DOMAIN clients' : clients'[k] \in {clients[j] : j \in DOMAIN clients} \cup {c}
      BY <2>3, <2>6
    <3>2. 1 \in DOMAIN clients' /\ \A k \in DOMAIN clients : k + 1 \in DOMAIN clients' /\ clients'[k + 1] = clients[k]
      BY <1>0, <2>3, <2>4
    <3>3. QED BY <2>3, <3>1, <3>2
  <2>9. {d \in Conn : connected'[d]} = {d \in Conn : connected[d]} \cup {c}
    BY <1>0, <2>1
  <2>10. WalkInv'
    BY <1>0, <2>1 DEF WalkInv
  <2>11. QED BY <2>7, <2>8, <2>9, <2>10 DEF ListExact
<1>3. ASSUME NEW c \in Conn, DeleteClient(c) PROVE ListExact' /\ WalkInv'
  <2>1. connected[c]
    BY <1>3 DEF DeleteClient, LifeInv
  <2>2. PICK i \in DOMAIN clients : clients[i] = c
    BY <2>1 DEF ListExact
  <2>3. clients' = RemoveFirst(clients, clients[i]) /\ connected' = [connected EXCEPT ![c] = FALSE]
        /\ mutex = Nobody /\ walk' = walk
    BY <1>3, <2>2 DEF DeleteClient
  <2>4. IsInjective(clients') /\ {clients'[k] : k \in DOMAIN clients'} = {clients[k] : k \in DOMAIN clients} \ {c}
    <3> DEFINE r == RemoveFirst(clients, clients[i])
    <3>1. IsInjective(r) /\ {r[k] : k \in DOMAIN r} = {clients[k] : k \in DOMAIN clients} \ {clients[i]}
      BY <1>0, RemoveFacts DEF ListExact
    <3> HIDE DEF r
    <3>2. clients' = r
      BY <2>3 DEF r
    <3>3. QED BY <2>2, <3>1, <3>2
  <2>5. {d \in Conn : connected'[d]} = {d \in Conn : connected[d]} \ {c}
    BY <1>0, <2>3
  <2>6. WalkInv'
    <3>1. \A p \in Process : walk'[p] = <<>>
      BY <1>0, <2>3 DEF ControlOK
    <3>2. QED BY <3>1 DEF WalkInv
  <2>7. QED BY <2>4, <2>5, <2>6 DEF ListExact
<1>4. QED BY <1>1, <1>2, <1>3, ListFrame

(* Every step keeps NoPanic.                                               *)
LEMMA PanicStep ==
  ASSUME TypeOK, ControlOK, LifeInv, WalkInv, NoPanic, [Next]_vars
  PROVE  NoPanic'
<1> USE DEF NoPanic
<1>1. ASSUME NEW c \in Conn, Terminate(c) PROVE ~panic'
  BY <1>1 DEF Terminate, LifeInv
<1>2. ASSUME NEW c \in Conn, DeleteClient(c) PROVE ~panic'
  BY <1>2 DEF DeleteClient, LifeInv
<1>3. ASSUME NEW p \in Process, SendEvent(p) PROVE ~panic'
  <2>1. walk[p] # <<>> /\ walk[p] \in Seq(Conn)
    BY <1>3 DEF SendEvent, ControlOK, TypeOK
  <2>2. 1 \in DOMAIN walk[p] /\ Head(walk[p]) = walk[p][1] /\ Head(walk[p]) \in Conn
    BY <2>1
  <2>3. ~closed[Head(walk[p])]
    BY <2>2 DEF WalkInv, LifeInv
  <2>4. QED BY <1>3, <2>3 DEF SendEvent
<1>4. ASSUME NEW c \in Conn, Receive(c) PROVE UNCHANGED panic
  BY <1>4 DEF Receive, ReceiveEnd, ReceiveError, ReceiveMismatch, ReceiveUnhandled, ReceiveQuery,
              ReceiveFilter, ReceiveUpdate
<1>5. ASSUME NEW c \in Conn,
             NewClient(c) \/ Hello(c) \/ Greet(c) \/ Refuse(c) \/ Ack(c) \/ Reply(c) \/ LastAck(c) \/ Take(c) \/ EncodeEvent(c)
      PROVE  UNCHANGED panic
  BY <1>5 DEF NewClient, Hello, Greet, Refuse, Ack, Reply, LastAck, Take, EncodeEvent
<1>6. ASSUME NEW p \in Process, Lock(p) \/ Walk(p) \/ Unlock(p) PROVE UNCHANGED panic
  BY <1>6 DEF Lock, Walk, Unlock
<1>7. ASSUME NEW p \in Producer, NEW about \in Channel \cup {NoChannel}, Produce(p, about) PROVE UNCHANGED panic
  BY <1>7 DEF Produce
<1>8. QED BY <1>1, <1>2, <1>3, <1>4, <1>5, <1>6, <1>7 DEF Next, Reader, Sender, Broadcast, vars
-----------------------------------------------------------------------------
(* The rest of a list without repetitions has none and lacks the head.     *)
LEMMA TailFacts ==
  ASSUME NEW S, NEW s \in Seq(S), s # <<>>, IsInjective(s)
  PROVE  /\ Head(s) \in S /\ 1 \in DOMAIN s /\ s[1] = Head(s)
         /\ \A k \in DOMAIN Tail(s) : k + 1 \in DOMAIN s /\ Tail(s)[k] = s[k + 1] /\ Tail(s)[k] # Head(s)
         /\ IsInjective(Tail(s))
<1>1. /\ Len(s) \in Nat /\ Len(s) > 0 /\ DOMAIN s = 1..Len(s) /\ DOMAIN Tail(s) = 1..(Len(s) - 1)
      /\ s[1] = Head(s) /\ \A k \in 1..(Len(s) - 1) : Tail(s)[k] = s[k + 1]
  OBVIOUS
<1>2. \A k \in DOMAIN Tail(s) : k + 1 \in DOMAIN s /\ k + 1 # 1 /\ k \in Nat
  BY <1>1
<1>3. IsInjective(Tail(s))
  <2> SUFFICES ASSUME NEW j \in DOMAIN Tail(s), NEW k \in DOMAIN Tail(s), Tail(s)[j] = Tail(s)[k]
               PROVE  j = k
    BY DEF IsInjective
  <2>1. j + 1 = k + 1
    BY <1>1, <1>2 DEF IsInjective
  <2>2. QED BY <1>2, <2>1
<1>4. 1 \in DOMAIN s /\ Head(s) \in S
  BY <1>1
<1>5. QED BY <1>1, <1>2, <1>3, <1>4 DEF IsInjective

(* What an append adds to the order of a sequence.                         *)
LEMMA AppendBefore ==
  ASSUME NEW S, NEW s \in Seq(S), NEW x \in S
  PROVE  /\ \A k \in DOMAIN Append(s, x) : (k \in DOMAIN s /\ Append(s, x)[k] = s[k])
                                           \/ (k = Len(Append(s, x)) /\ Append(s, x)[k] = x)
         /\ \A m, n : Before(m, n, Append(s, x)) => Before(m, n, s) \/ (n = x /\ Has(s, m))
<1> DEFINE t == Append(s, x)
<1>1. /\ DOMAIN s = 1..Len(s) /\ Len(s) \in Nat /\ DOMAIN t = 1..(Len(s) + 1) /\ Len(t) = Len(s) + 1
      /\ t[Len(s) + 1] = x /\ \A k \in DOMAIN s : t[k] = s[k]
  OBVIOUS
<1> HIDE DEF t
<1>2. \A k \in DOMAIN t : (k \in DOMAIN s /\ t[k] = s[k]) \/ (k = Len(t) /\ t[k] = x)
  BY <1>1
<1>3. ASSUME NEW m, NEW n, Before(m, n, t) PROVE Before(m, n, s) \/ (n = x /\ Has(s, m))
  <2>1. PICK j \in DOMAIN t, k \in DOMAIN t : j < k /\ t[j] = m /\ t[k] = n
    BY <1>3 DEF Before
  <2>2. j \in DOMAIN s /\ t[j] = s[j]
    BY <1>1, <2>1
  <2>3. CASE k \in DOMAIN s
    BY <1>1, <2>1, <2>2, <2>3 DEF Before
  <2>4. CASE k \notin DOMAIN s
    BY <1>2, <2>1, <2>2, <2>4 DEF Has
  <2>5. QED BY <2>3, <2>4
<1>4. QED BY <1>2, <1>3 DEF t

(* No two queues disagree about the order of two broadcasts, or of one     *)
(* with itself.                                                            *)
Ordered == \A c, d \in Conn : \A m, n : ~(Before(m, n, heard[c]) /\ Before(n, m, heard[d]))

(* Every step keeps OrderInv and Ordered.                                  *)
LEMMA OrderStep ==
  ASSUME TypeOK, ControlOK, ListExact, OrderInv, Ordered, [Next]_vars
  PROVE  OrderInv' /\ Ordered'
<1>0. /\ pc \in [Process -> Location] /\ event \in [Process -> Event \cup {NoEvent}]
      /\ walk \in [Process -> Seq(Conn)] /\ heard \in [Conn -> Seq(1..MaxEvents)]
      /\ count \in Nat /\ \A e \in Event : e.n \in Nat /\ e.n \in 1..MaxEvents
      /\ NoEvent \notin Event
  <2>1. \A e \in Event : e.n \in 1..MaxEvents
    BY DEF Event
  <2>2. NoEvent.n = 0
    BY DEF NoEvent
  <2>3. QED BY <2>1, <2>2, ServerAssumption DEF TypeOK
<1>a. \A c \in Conn : \A k \in DOMAIN heard[c] : heard[c][k] \in Nat
  <2> SUFFICES ASSUME NEW c \in Conn, NEW k \in DOMAIN heard[c] PROVE heard[c][k] \in Nat
    OBVIOUS
  <2>1. heard[c] \in Seq(1..MaxEvents)
    BY <1>0
  <2>2. heard[c][k] \in 1..MaxEvents
    <3>1. DOMAIN heard[c] = 1..Len(heard[c])
      BY <2>1
    <3>2. QED BY <2>1, <3>1, ElementOfSeq
  <2>3. QED BY <2>2, ServerAssumption
<1>1. CASE Quiet
  <2>1. OrderInv'
    BY <1>1 DEF Quiet, OrderInv, Broadcasting, Holding
  <2>2. QED BY <1>1, <2>1 DEF Quiet, Ordered
<1>2. ASSUME NEW p \in Process, Starts(p) PROVE OrderInv' /\ Ordered'
  <2>1. PICK e \in Event : e.n = count + 1 /\ event' = [event EXCEPT ![p] = e]
    BY <1>2 DEF Starts
  <2>2. /\ pc' = [pc EXCEPT ![p] = "lock"] /\ count' = count + 1 /\ UNCHANGED <<walk, heard>>
    BY <1>2 DEF Starts
  <2>3. \A q \in Process : event'[q] \in Event => event'[q].n <= count'
    BY <1>0, <2>1, <2>2 DEF OrderInv
  <2>4. \A q, r \in Process : q # r /\ event'[q] \in Event /\ event'[r] \in Event => event'[q].n # event'[r].n
    BY <1>0, <2>1 DEF OrderInv
  <2>5. \A c \in Conn : \A k \in DOMAIN heard[c] : heard[c][k] <= count /\ heard[c][k] <= count'
    BY <1>0, <1>a, <2>2 DEF OrderInv
  <2>6. \A c \in Conn : ~Has(heard[c], count + 1)
    BY <1>0, <1>a, <2>5 DEF Has
  <2>7. \A q \in Process : pc'[q] = "lock" => \A c \in Conn : ~Has(heard[c], event'[q].n)
    BY <1>0, <2>1, <2>2, <2>6 DEF OrderInv
  <2>8. ASSUME NEW q \in Process, pc'[q] \in Holding
        PROVE  /\ \A c \in Conn : \A k \in DOMAIN heard[c] : heard[c][k] = event'[q].n => k = Len(heard[c])
               /\ \A k \in DOMAIN walk[q] : ~Has(heard[walk[q][k]], event'[q].n)
    BY <1>0, <2>1, <2>2, <2>8 DEF OrderInv, Holding
  <2>9. OrderInv'
    BY <2>2, <2>3, <2>4, <2>5, <2>7, <2>8 DEF OrderInv
  <2>10. QED BY <2>2, <2>9 DEF Ordered
<1>3. ASSUME NEW p \in Process, Lock(p) PROVE OrderInv' /\ Ordered'
  <2>1. /\ pc[p] = "lock" /\ pc' = [pc EXCEPT ![p] = "walk"] /\ walk' = [walk EXCEPT ![p] = clients]
        /\ UNCHANGED <<event, heard, count>> /\ mutex = Nobody
    BY <1>3 DEF Lock, Goto
  <2>2. IsInjective(clients) /\ \A k \in DOMAIN clients : clients[k] \in Conn
    BY DEF ListExact
  <2>3. \A q \in Process : pc[q] \notin Holding
    BY <2>1, ServerAssumption DEF ControlOK, Process
  <2>4. \A c \in Conn : ~Has(heard[c], event[p].n)
    BY <2>1 DEF OrderInv
  <2>5. ASSUME NEW q \in Process, pc'[q] \in Holding
        PROVE  /\ \A c \in Conn : \A k \in DOMAIN heard[c] : heard[c][k] = event[q].n => k = Len(heard[c])
               /\ \A k \in DOMAIN walk'[q] : ~Has(heard[walk'[q][k]], event[q].n)
    <3>1. q = p
      BY <1>0, <2>1, <2>3, <2>5
    <3>2. QED BY <1>0, <2>1, <2>2, <2>4, <3>1 DEF Has
  <2>6. \A q \in Process : IsInjective(walk'[q])
    BY <1>0, <2>1, <2>2 DEF OrderInv
  <2>7. \A q \in Process : pc'[q] = "lock" => \A c \in Conn : ~Has(heard[c], event[q].n)
    BY <1>0, <2>1 DEF OrderInv
  <2>8. OrderInv'
    BY <2>1, <2>5, <2>6, <2>7 DEF OrderInv
  <2>9. QED BY <2>1, <2>8 DEF Ordered
<1>4. ASSUME NEW p \in Process, walk[p] # <<>>
      PROVE  /\ Head(walk[p]) \in Conn /\ 1 \in DOMAIN walk[p] /\ walk[p][1] = Head(walk[p])
             /\ IsInjective(Tail(walk[p]))
             /\ \A k \in DOMAIN Tail(walk[p]) :
                  k + 1 \in DOMAIN walk[p] /\ Tail(walk[p])[k] = walk[p][k + 1] /\ Tail(walk[p])[k] # Head(walk[p])
  BY <1>0, <1>4, TailFacts DEF OrderInv
<1>5. ASSUME NEW p \in Process, Walk(p) PROVE OrderInv' /\ Ordered'
  <2>1. /\ pc[p] = "walk" /\ walk[p] # <<>> /\ UNCHANGED <<event, heard, count>>
        /\ \/ pc' = [pc EXCEPT ![p] = "send"] /\ walk' = walk
           \/ pc' = pc /\ walk' = [walk EXCEPT ![p] = Tail(@)]
    BY <1>5, Zenon DEF Walk, Goto
  <2>2. CASE pc' = [pc EXCEPT ![p] = "send"] /\ walk' = walk
    <3>1. \A q \in Process : (pc'[q] \in Holding <=> pc[q] \in Holding) /\ (pc'[q] = "lock" <=> pc[q] = "lock")
      BY <1>0, <2>1, <2>2 DEF Holding
    <3>2. QED BY <2>1, <2>2, <3>1 DEF OrderInv, Ordered
  <2>3. CASE pc' = pc /\ walk' = [walk EXCEPT ![p] = Tail(@)]
    <3>1. \A q \in Process : IsInjective(walk'[q])
      BY <1>0, <1>4, <2>1, <2>3 DEF OrderInv
    <3>2. \A q \in Process : pc[q] \in Holding => \A k \in DOMAIN walk'[q] : ~Has(heard[walk'[q][k]], event[q].n)
      BY <1>0, <1>4, <2>1, <2>3 DEF OrderInv
    <3>3. QED BY <2>1, <2>3, <3>1, <3>2 DEF OrderInv, Ordered
  <2>4. QED BY <2>1, <2>2, <2>3
<1>6. ASSUME NEW p \in Process, SendEvent(p) PROVE OrderInv' /\ Ordered'
  <2> DEFINE c == Head(walk[p])
             n == event[p].n
  <2>1. /\ pc[p] = "send" /\ pc' = [pc EXCEPT ![p] = "walk"] /\ walk' = [walk EXCEPT ![p] = Tail(@)]
        /\ heard' = [heard EXCEPT ![c] = Append(@, n)] /\ UNCHANGED <<event, count>>
    BY <1>6 DEF SendEvent, Goto
  <2>2. walk[p] # <<>> /\ event[p] \in Event /\ pc[p] \in Holding
    BY <2>1 DEF ControlOK, Holding
  <2>3. c \in Conn /\ ~Has(heard[c], n) /\ n \in 1..MaxEvents /\ n <= count /\ n \in Nat
    BY <1>0, <1>4, <2>2 DEF OrderInv
  <2>4. \A q \in Process : pc'[q] \in Holding => q = p
    <3>1. \A q \in Process : pc'[q] \in Holding => pc[q] \in Holding
      BY <1>0, <2>1 DEF Holding
    <3>2. QED BY <2>2, <3>1 DEF ControlOK
  <2>5. \A q \in Process : IsInjective(walk'[q])
    BY <1>0, <1>4, <2>1, <2>2 DEF OrderInv
  <2> DEFINE t == Append(heard[c], n)
  <2>6. /\ \A k \in DOMAIN t : (k \in DOMAIN heard[c] /\ t[k] = heard[c][k]) \/ (k = Len(t) /\ t[k] = n)
        /\ \A m, o : Before(m, o, t) => Before(m, o, heard[c]) \/ (o = n /\ Has(heard[c], m))
    <3>1. heard[c] \in Seq(1..MaxEvents)
      BY <1>0, <2>3
    <3>2. QED BY <2>3, <3>1, AppendBefore
  <2>7. heard'[c] = t /\ \A d \in Conn : d # c => heard'[d] = heard[d]
    BY <1>0, <2>1, <2>3
  <2> HIDE DEF t, c, n
  <2>8. \A d \in Conn : \A k \in DOMAIN heard'[d] : heard'[d][k] <= count
    BY <2>3, <2>6, <2>7 DEF OrderInv
  <2>9. \A d \in Conn : \A m : Has(heard'[d], m) => Has(heard[d], m) \/ (d = c /\ m = n)
    BY <2>6, <2>7 DEF Has
  <2>10. \A q \in Process : pc'[q] = "lock" => \A d \in Conn : ~Has(heard'[d], event[q].n)
    <3> SUFFICES ASSUME NEW q \in Process, pc'[q] = "lock", NEW d \in Conn PROVE ~Has(heard'[d], event[q].n)
      OBVIOUS
    <3>1. q # p /\ pc[q] = "lock"
      BY <1>0, <2>1
    <3>2. event[q] \in Event /\ event[q].n # n /\ ~Has(heard[d], event[q].n)
      BY <2>2, <3>1 DEF ControlOK, OrderInv, n
    <3>3. QED BY <2>9, <3>2
  <2>11. \A d \in Conn : \A k \in DOMAIN heard'[d] : heard'[d][k] = n => k = Len(heard'[d])
    <3>1. \A d \in Conn : \A k \in DOMAIN heard[d] : heard[d][k] = n => k = Len(heard[d])
      BY <2>2 DEF OrderInv, n
    <3>2. QED BY <2>3, <2>6, <2>7, <3>1 DEF Has
  <2>12. \A k \in DOMAIN walk'[p] : ~Has(heard'[walk'[p][k]], n)
    <3> SUFFICES ASSUME NEW k \in DOMAIN walk'[p] PROVE ~Has(heard'[walk'[p][k]], n)
      OBVIOUS
    <3>1. walk'[p] = Tail(walk[p])
      BY <1>0, <2>1
    <3>2. k + 1 \in DOMAIN walk[p] /\ walk'[p][k] = walk[p][k + 1] /\ walk'[p][k] # c
      BY <1>4, <2>2, <3>1 DEF c
    <3>3. walk'[p][k] \in Conn /\ ~Has(heard[walk'[p][k]], n)
      BY <1>0, <2>2, <3>2 DEF OrderInv, n
    <3>4. QED BY <2>9, <3>2, <3>3
  <2>13. OrderInv'
    BY <2>1, <2>4, <2>5, <2>8, <2>10, <2>11, <2>12 DEF OrderInv, n
  <2>14. ASSUME NEW d \in Conn, NEW m PROVE ~Before(n, m, heard[d])
    <3>1. \A k \in DOMAIN heard[d] : heard[d][k] = n => k = Len(heard[d])
      BY <2>2 DEF OrderInv, n
    <3>2. DOMAIN heard[d] = 1..Len(heard[d]) /\ Len(heard[d]) \in Nat
      BY <1>0
    <3>3. QED BY <3>1, <3>2 DEF Before
  <2>15. \A d \in Conn : \A m, o : Before(m, o, heard'[d]) => Before(m, o, heard[d]) \/ (d = c /\ o = n /\ Has(heard[c], m))
    BY <2>6, <2>7
  <2>16. Ordered'
    <3> SUFFICES ASSUME NEW a \in Conn, NEW b \in Conn, NEW m, NEW o, Before(m, o, heard'[a]), Before(o, m, heard'[b])
                 PROVE  FALSE
      BY DEF Ordered
    <3>1. CASE Before(m, o, heard[a]) /\ Before(o, m, heard[b])
      BY <3>1 DEF Ordered
    <3>2. CASE o = n /\ Has(heard[c], m)
      BY <2>3, <2>14, <2>15, <3>2
    <3>3. CASE m = n /\ Has(heard[c], o)
      BY <2>3, <2>14, <2>15, <3>3
    <3>4. QED BY <2>15, <3>1, <3>2, <3>3
  <2>17. QED BY <2>13, <2>16
<1>7. ASSUME NEW p \in Process, Unlock(p) PROVE OrderInv' /\ Ordered'
  <2>1. /\ event' = [event EXCEPT ![p] = NoEvent] /\ UNCHANGED <<walk, heard, count>>
        /\ \E l \in {"ack", "idle"} : pc' = [pc EXCEPT ![p] = l]
    BY <1>7 DEF Unlock, Goto
  <2>2. \A q \in Process : pc'[q] \in {"lock", "walk", "send"} => q # p /\ pc'[q] = pc[q] /\ event'[q] = event[q]
    BY <1>0, <2>1
  <2>3. \A q \in Process : event'[q] \in Event => q # p /\ event'[q] = event[q]
    BY <1>0, <2>1
  <2>4. OrderInv'
    BY <2>1, <2>2, <2>3 DEF OrderInv, Holding
  <2>5. QED BY <2>1, <2>4 DEF Ordered
<1>8. QED BY <1>1, <1>2, <1>3, <1>5, <1>6, <1>7, StepKinds
-----------------------------------------------------------------------------
(* Every step keeps NumberInv and NumberingAgrees.                         *)
LEMMA NumberStep ==
  ASSUME TypeOK, LifeInv, NumberInv, NumberingAgrees, [Next]_vars
  PROVE  NumberInv' /\ NumberingAgrees'
<1> USE DEF Goto, listVars, connVars
<1> DEFINE Goal == NumberInv' /\ NumberingAgrees'
<1>0. /\ pc \in [Process -> Location] /\ Conn \subseteq Process /\ DOMAIN rogue = Conn /\ DOMAIN asked = Conn
      /\ lastMsgId \in [Conn -> Id] /\ msgId \in [Conn -> Id]
  BY DEF TypeOK, Process
<1>1. ASSUME NEW p \in Process, NEW l, Goto(p, l), l # "mismatch", UNCHANGED idVars,
             p \in Conn /\ l \in InLoop => pc[p] \in InLoop, p \in Conn /\ l \in Handled => pc[p] \in Handled
      PROVE  Goal
  BY <1>0, <1>1 DEF NumberInv, NumberingAgrees, idVars
<1>2. ASSUME NEW c \in Conn, NewClient(c) \/ Hello(c) \/ Refuse(c) \/ ReceiveEnd(c) \/ Terminate(c) PROVE Goal
  BY <1>0, <1>1, <1>2 DEF NewClient, Hello, Refuse, ReceiveEnd, Terminate, InLoop, Handled
<1>3. ASSUME NEW c \in Conn, Greet(c) PROVE Goal
  <2>1. CASE Goto(c, "refuse") /\ UNCHANGED <<lastMsgId, msgId>>
    <3>1. UNCHANGED idVars
      BY <1>3, <2>1 DEF Greet, idVars
    <3>2. QED BY <1>0, <1>1, <2>1, <3>1 DEF InLoop, Handled
  <2>2. ASSUME NEW id, lastMsgId' = [lastMsgId EXCEPT ![c] = id], msgId' = [msgId EXCEPT ![c] = NextId(id)],
               Goto(c, "receive")
        PROVE  Goal
    <3>1. UNCHANGED <<asked, rogue>>
      BY <1>3 DEF Greet
    <3>2. QED BY <1>0, <2>2, <3>1 DEF NumberInv, NumberingAgrees, Handled
  <2>3. QED BY <1>3, <2>1, <2>2 DEF Greet
<1>4. ASSUME NEW c \in Conn, NEW l \in {"garbled", "receive", "reply", "terminate"}, Goto(c, l),
             l \in InLoop => pc[c] \in InLoop /\ lastMsgId' = lastMsgId,
             \A d \in Conn : d # c => lastMsgId'[d] = lastMsgId[d],
             asked' = [asked EXCEPT ![c] = 0] \/ asked' = asked, UNCHANGED <<msgId, rogue>>
      PROVE  Goal
  <2>1. l \notin Handled /\ l # "mismatch"
    BY DEF Handled
  <2>2. QED BY <1>0, <1>4, <2>1 DEF NumberInv, NumberingAgrees
<1>5. ASSUME NEW c \in Conn, ReceiveError(c) PROVE Goal
  BY <1>0, <1>4, <1>5 DEF ReceiveError, InLoop
<1>6. ASSUME NEW c \in Conn, Ack(c) PROVE Goal
  <2>1. Goto(c, "terminate") \/ Goto(c, "reply") \/ Goto(c, "receive")
    BY <1>6 DEF Ack
  <2>2. QED BY <1>0, <1>4, <1>6, <2>1 DEF Ack, InLoop
<1>7. ASSUME NEW c \in Conn, Reply(c) PROVE Goal
  <2>1. Goto(c, "terminate") \/ Goto(c, "receive")
    BY <1>7 DEF Reply
  <2>2. QED BY <1>0, <1>4, <1>7, <2>1 DEF Reply, InLoop, idVars
<1>8. ASSUME NEW c \in Conn, LastAck(c) PROVE Goal
  BY <1>0, <1>4, <1>8 DEF LastAck, InLoop
<1>9. ASSUME NEW c \in Conn, NEW id \in Id, Ask(c, id), pc[c] = "receive"
      PROVE  /\ asked' = [asked EXCEPT ![c] = id]
             /\ \A d \in Conn : d # c => msgId'[d] = msgId[d] /\ (rogue'[d] <=> rogue[d])
             /\ ~rogue'[c] => /\ id = Expected(c) /\ id # 0 /\ Accepted(c, id)
                              /\ msgId'[c] = NextId(Numbered(c, id))
  <2>1. CASE id = msgId[c]
    <3>1. asked' = [asked EXCEPT ![c] = id] /\ msgId' = [msgId EXCEPT ![c] = NextId(@)] /\ rogue' = rogue
      BY <1>9, <2>1 DEF Ask
    <3>2. ~rogue[c] => id = Expected(c)
      BY <1>9, <2>1 DEF NumberInv, InLoop, Expected
    <3>3. Expected(c) # 0
      BY <1>0, NumberFacts DEF Expected
    <3>4. QED BY <1>0, <2>1, <3>1, <3>2, <3>3 DEF Accepted, Numbered
  <2>2. CASE id # msgId[c]
    BY <1>0, <1>9, <2>2 DEF Ask
  <2>3. QED BY <2>1, <2>2
<1>10. ASSUME NEW c \in Conn, NEW id \in Id, ReceiveMismatch(c, id) PROVE Goal
  <2>1. Ask(c, id) /\ pc[c] = "receive" /\ ~Accepted(c, id) /\ pc' = [pc EXCEPT ![c] = "mismatch"]
        /\ lastMsgId' = [lastMsgId EXCEPT ![c] = Numbered(c, id)]
    BY <1>10 DEF ReceiveMismatch
  <2>2. rogue'[c]
    BY <1>9, <2>1
  <2>3. pc'[c] = "mismatch" /\ pc'[c] \notin InLoop /\ pc'[c] \notin Handled
    BY <1>0, <2>1 DEF InLoop, Handled
  <2>4. QED BY <1>0, <1>9, <2>1, <2>2, <2>3 DEF NumberInv, NumberingAgrees
<1>11. ASSUME NEW c \in Conn, NEW id \in Id, ReceiveUnhandled(c, id) PROVE Goal
  <2>1. Ask(c, id) /\ pc[c] = "receive" /\ pc' = [pc EXCEPT ![c] = "unhandled"]
        /\ \A d \in Conn : d # c => lastMsgId'[d] = lastMsgId[d]
    BY <1>0, <1>11 DEF ReceiveUnhandled
  <2>2. pc'[c] = "unhandled" /\ pc'[c] \notin InLoop /\ pc'[c] \notin Handled
    BY <1>0, <2>1 DEF InLoop, Handled
  <2>3. QED BY <1>0, <1>9, <2>1, <2>2 DEF NumberInv, NumberingAgrees
<1>12. ASSUME NEW c \in Conn, NEW id \in Id, NEW l \in {"ack", "query", "lock"},
              Ask(c, id), pc[c] = "receive", Accepted(c, id), Goto(c, l),
              lastMsgId' = [lastMsgId EXCEPT ![c] = Numbered(c, id)]
       PROVE  Goal
  <2>1. pc'[c] = l /\ l # "mismatch" /\ \A d \in Conn : d # c => pc'[d] = pc[d] /\ lastMsgId'[d] = lastMsgId[d]
    BY <1>0, <1>12
  <2>2. lastMsgId'[c] = Numbered(c, id) /\ asked'[c] = id /\ \A d \in Conn : d # c => asked'[d] = asked[d]
    BY <1>0, <1>9, <1>12
  <2>3. ~rogue'[c] => msgId'[c] = NextId(lastMsgId'[c])
    BY <1>9, <1>12, <2>2
  <2>4. asked'[c] # 0 => asked'[c] = lastMsgId'[c]
    BY <1>12, <2>2 DEF Accepted, Numbered
  <2>5. QED BY <1>9, <1>12, <2>1, <2>2, <2>3, <2>4 DEF NumberInv, NumberingAgrees
<1>13. ASSUME NEW c \in Conn, NEW id \in Id, ReceiveQuery(c, id) PROVE Goal
  BY <1>12, <1>13 DEF ReceiveQuery
<1>14. ASSUME NEW c \in Conn, NEW id \in Id, NEW f \in SUBSET Channel, ReceiveFilter(c, id, f) PROVE Goal
  BY <1>12, <1>14 DEF ReceiveFilter
<1>15. ASSUME NEW c \in Conn, NEW id \in Id, NEW about \in Channel \cup {NoChannel}, ReceiveUpdate(c, id, about)
       PROVE  Goal
  BY <1>12, <1>15 DEF ReceiveUpdate, StartBroadcast
<1>16. ASSUME NEW c \in Conn, Take(c) \/ EncodeEvent(c) PROVE Goal
  <2>1. UNCHANGED <<pc, lastMsgId, msgId, asked, rogue>>
    BY <1>16 DEF Take, EncodeEvent, idVars
  <2>2. QED BY <2>1 DEF NumberInv, NumberingAgrees
<1>17. ASSUME NEW c \in Conn, DeleteClient(c) PROVE Goal
  <2>1. /\ UNCHANGED <<pc, msgId, asked, rogue>> /\ pc[c] = "done" /\ "done" \notin InLoop \cup Handled
        /\ \A d \in Conn : d # c => lastMsgId'[d] = lastMsgId[d]
    BY <1>0, <1>17 DEF DeleteClient, LifeInv, InLoop, Handled
  <2>2. QED BY <2>1 DEF NumberInv, NumberingAgrees
<1>18. ASSUME NEW p \in Producer, NEW about \in Channel \cup {NoChannel}, Produce(p, about) PROVE Goal
  <2>1. p \in Process /\ p \notin Conn
    BY ServerAssumption DEF Process
  <2>2. QED BY <1>1, <1>18, <2>1 DEF Produce, StartBroadcast
<1>19. ASSUME NEW p \in Process, Lock(p) \/ SendEvent(p) PROVE Goal
  BY <1>1, <1>19 DEF Lock, SendEvent, InLoop, Handled
<1>20. ASSUME NEW p \in Process, Walk(p) PROVE Goal
  <2>1. (Goto(p, "send") \/ pc' = pc) /\ UNCHANGED idVars /\ pc[p] = "walk"
    BY <1>20, Zenon DEF Walk
  <2>2. CASE Goto(p, "send")
    BY <1>1, <2>1, <2>2 DEF InLoop, Handled
  <2>3. CASE pc' = pc
    BY <2>1, <2>3 DEF NumberInv, NumberingAgrees, idVars
  <2>4. QED BY <2>1, <2>2, <2>3
<1>21. ASSUME NEW p \in Process, Unlock(p) PROVE Goal
  <2>1. (p \in Conn /\ Goto(p, "ack")) \/ (p \notin Conn /\ Goto(p, "idle"))
    BY <1>21 DEF Unlock
  <2>2. QED BY <1>1, <1>21, <2>1 DEF Unlock, InLoop, Handled
<1>22. CASE UNCHANGED vars
  BY <1>22 DEF vars, idVars, NumberInv, NumberingAgrees
<1>23. CASE Next
  BY <1>2, <1>3, <1>5, <1>6, <1>7, <1>8, <1>10, <1>11, <1>13, <1>14, <1>15, <1>16, <1>17, <1>18, <1>19, <1>20,
     <1>21, <1>23
  DEF Next, Receive, Reader, Sender, Broadcast
<1>24. QED BY <1>22, <1>23

(* An acknowledgement has the number of the request that it answers.       *)
Right(item) == item.kind = "ok" /\ item.re # 0 => item.id = item.re

(* Every step keeps AckAnswersRequest.                                     *)
LEMMA AckStep ==
  ASSUME TypeOK, ControlOK, NumberInv, AckAnswersRequest, [Next]_vars
  PROVE  AckAnswersRequest'
<1>0. outputChan \in [Conn -> Seq(Item)] /\ \A c \in Conn : \A k \in DOMAIN outputChan[c] : Right(outputChan[c][k])
  BY DEF TypeOK, AckAnswersRequest, Right
<1>1. ASSUME NEW c \in Conn, NEW q, \A k \in DOMAIN q : Right(q[k]), outputChan' = [outputChan EXCEPT ![c] = q]
      PROVE  AckAnswersRequest'
  <2>1. \A d \in Conn : \A k \in DOMAIN outputChan'[d] : Right(outputChan'[d][k])
    BY <1>0, <1>1
  <2>2. QED BY <2>1 DEF AckAnswersRequest, Right
<1>2. ASSUME NEW c \in Conn, NEW item, Right(item), outputChan' = [outputChan EXCEPT ![c] = Append(@, item)]
      PROVE  AckAnswersRequest'
  <2> DEFINE q == Append(outputChan[c], item)
  <2>1. \A k \in DOMAIN q : (k \in DOMAIN outputChan[c] /\ q[k] = outputChan[c][k]) \/ q[k] = item
    BY <1>0
  <2>2. outputChan' = [outputChan EXCEPT ![c] = q]
    BY <1>2
  <2> HIDE DEF q
  <2>3. \A k \in DOMAIN q : Right(q[k])
    BY <1>0, <1>2, <2>1
  <2>4. QED BY <1>1, <2>2, <2>3
<1>3. ASSUME UNCHANGED outputChan PROVE AckAnswersRequest'
  BY <1>3 DEF AckAnswersRequest
<1>4. ASSUME NEW c \in Conn, NEW item, Right(item), Put(c, item) PROVE AckAnswersRequest'
  BY <1>2, <1>3, <1>4 DEF Put
<1>5. ASSUME NEW c \in Conn, Refuse(c) \/ LastAck(c) PROVE AckAnswersRequest'
  <2> DEFINE item == [kind |-> "bad", id |-> lastMsgId[c], re |-> asked[c]]
  <2>1. Put(c, item)
    BY <1>5 DEF Refuse, LastAck, SendAck
  <2>2. Right(item)
    BY DEF Right
  <2> HIDE DEF item
  <2>3. QED BY <1>4, <2>1, <2>2
<1>6. ASSUME NEW c \in Conn, Ack(c) PROVE AckAnswersRequest'
  <2> DEFINE item == [kind |-> "ok", id |-> lastMsgId[c], re |-> asked[c]]
  <2>1. Put(c, item)
    BY <1>6 DEF Ack, SendAck
  <2>2. Right(item)
    BY <1>6 DEF Right, Ack, NumberInv, Handled
  <2> HIDE DEF item
  <2>3. QED BY <1>4, <2>1, <2>2
<1>7. ASSUME NEW c \in Conn, Reply(c) PROVE AckAnswersRequest'
  <2> DEFINE item == [kind |-> "event", id |-> 0, re |-> 0]
  <2>1. Put(c, item) /\ Right(item)
    BY <1>7 DEF Reply, Right
  <2> HIDE DEF item
  <2>2. QED BY <1>4, <2>1
<1>8. ASSUME NEW c \in Conn, Take(c) PROVE AckAnswersRequest'
  <2> DEFINE q == Tail(outputChan[c])
  <2>1. outputChan[c] # <<>> /\ outputChan' = [outputChan EXCEPT ![c] = q]
    BY <1>8 DEF Take
  <2>2. \A k \in DOMAIN q : k + 1 \in DOMAIN outputChan[c] /\ q[k] = outputChan[c][k + 1]
    BY <1>0, <2>1
  <2> HIDE DEF q
  <2>3. \A k \in DOMAIN q : Right(q[k])
    BY <1>0, <2>2
  <2>4. outputChan' = [outputChan EXCEPT ![c] = q]
    BY <2>1
  <2>5. QED BY <1>1, <2>3, <2>4
<1>9. ASSUME NEW c \in Conn, DeleteClient(c) PROVE AckAnswersRequest'
  <2>1. \A k \in DOMAIN <<>> : Right(<<>>[k])
    OBVIOUS
  <2>2. QED BY <1>1, <1>9, <2>1 DEF DeleteClient
<1>10. ASSUME NEW p \in Process, SendEvent(p) PROVE AckAnswersRequest'
  <2> DEFINE item == [kind |-> "event", id |-> 0, re |-> 0]
  <2>1. Right(item)
    BY DEF Right
  <2>2. outputChan' = outputChan \/ outputChan' = [outputChan EXCEPT ![Head(walk[p])] = Append(@, item)]
    BY <1>10 DEF SendEvent
  <2>3. Head(walk[p]) \in Conn
    BY <1>10 DEF SendEvent, ControlOK, TypeOK
  <2> HIDE DEF item
  <2>4. QED BY <1>2, <1>3, <2>1, <2>2, <2>3
<1>11. ASSUME NEW c \in Conn, NewClient(c) \/ Hello(c) \/ Greet(c) \/ Terminate(c) \/ EncodeEvent(c)
       PROVE  UNCHANGED outputChan
  BY <1>11 DEF NewClient, Hello, Greet, Terminate, EncodeEvent
<1>12. ASSUME NEW c \in Conn, Receive(c) PROVE UNCHANGED outputChan
  BY <1>12 DEF Receive, ReceiveEnd, ReceiveError, ReceiveMismatch, ReceiveUnhandled, ReceiveQuery,
               ReceiveFilter, ReceiveUpdate
<1>13. ASSUME NEW p \in Process, Lock(p) \/ Walk(p) \/ Unlock(p) PROVE UNCHANGED outputChan
  BY <1>13 DEF Lock, Walk, Unlock
<1>14. ASSUME NEW p \in Producer, NEW about \in Channel \cup {NoChannel}, Produce(p, about)
       PROVE  UNCHANGED outputChan
  BY <1>14 DEF Produce
<1>15. CASE UNCHANGED vars
  BY <1>3, <1>15 DEF vars
<1>16. CASE Next
  BY <1>3, <1>5, <1>6, <1>7, <1>8, <1>9, <1>10, <1>11, <1>12, <1>13, <1>14, <1>16
  DEF Next, Reader, Sender, Broadcast
<1>17. QED BY <1>15, <1>16
-----------------------------------------------------------------------------
Inv ==
  /\ TypeOK /\ ControlOK /\ LifeInv /\ ListExact /\ WalkInv /\ NoPanic
  /\ OrderInv /\ Ordered /\ NumberInv /\ NumberingAgrees /\ AckAnswersRequest

(* The initial states satisfy the invariant.                               *)
LEMMA InitInv ==
  ASSUME Init
  PROVE  Inv
<1>0. 0 \in Id /\ 1 \in Id /\ NextId(0) = 1 /\ Nobody \notin Process /\ QueueSize \in Nat /\ MaxEvents \in Nat
  BY ServerAssumption, NumberFacts DEF Id, Process
<1>1. TypeOK
  <2>1. clients \in Seq(Conn) /\ mutex \in Process \cup {Nobody} /\ walk \in [Process -> Seq(Conn)]
    BY DEF Init
  <2>2. pc \in [Process -> Location]
    BY DEF Init, Location
  <2>3. event \in [Process -> Event \cup {NoEvent}]
    BY DEF Init
  <2>4. /\ outputChan \in [Conn -> Seq(Item)] /\ heard \in [Conn -> Seq(1..MaxEvents)]
        /\ \A c \in Conn : Len(outputChan[c]) <= QueueSize
    BY <1>0, ServerAssumption DEF Init
  <2>5. /\ sender \in [Conn -> {"none", "select", "encode", "wait", "delete", "done"}]
        /\ conn \in [Conn -> {"none", "open", "closed"}]
        /\ filter \in [Conn -> SUBSET Channel]
    BY DEF Init
  <2>6. connected \in [Conn -> BOOLEAN] /\ closed \in [Conn -> BOOLEAN] /\ rogue \in [Conn -> BOOLEAN] /\ panic \in BOOLEAN
    BY DEF Init
  <2>7. lastMsgId \in [Conn -> Id] /\ msgId \in [Conn -> Id] /\ asked \in [Conn -> Id] /\ count \in 0..MaxEvents
    BY <1>0 DEF Init
  <2>8. QED BY <2>1, <2>2, <2>3, <2>4, <2>5, <2>6, <2>7 DEF TypeOK
<1>2. ControlOK
  <2>1. NoEvent \notin Event
    <3>1. \A e \in Event : e.n # 0
      BY DEF Event
    <3>2. QED BY <3>1 DEF NoEvent
  <2>2. QED BY <1>0, <2>1 DEF Init, ControlOK, Holding
<1>3. LifeInv
  BY DEF Init, LifeInv, Process
<1>4. ListExact
  <2>1. DOMAIN clients = {}
    BY DEF Init
  <2>2. {c \in Conn : connected[c]} = {}
    BY DEF Init
  <2>3. QED BY <2>1, <2>2 DEF ListExact, IsInjective
<1>5. WalkInv /\ NoPanic
  BY DEF Init, WalkInv, NoPanic
<1>6. OrderInv /\ Ordered
  <2>1. \A c \in Conn : DOMAIN heard[c] = {}
    BY DEF Init
  <2>2. \A p \in Process : DOMAIN walk[p] = {} /\ event[p] = NoEvent /\ pc[p] \notin {"lock", "walk", "send"}
    BY DEF Init
  <2>3. \A p \in Process : event[p] \notin Event
    BY <1>2, <2>2 DEF ControlOK
  <2>4. QED BY <2>1, <2>2, <2>3 DEF OrderInv, Ordered, Before, IsInjective, Holding
<1>7. NumberInv /\ NumberingAgrees /\ AckAnswersRequest
  <2>1. \A c \in Conn : DOMAIN outputChan[c] = {} /\ pc[c] = "none" /\ msgId[c] = 1 /\ lastMsgId[c] = 0
    BY DEF Init, Process
  <2>2. QED BY <1>0, <2>1 DEF NumberInv, NumberingAgrees, AckAnswersRequest, Handled
<1>8. QED BY <1>1, <1>2, <1>3, <1>4, <1>5, <1>6, <1>7 DEF Inv

(* The invariant is inductive.                                             *)
LEMMA InvCorrect == Spec => []Inv
<1>1. Init => Inv
  BY InitInv
<1>2. Inv /\ [Next]_vars => Inv'
  BY TypeStep, ControlStep, LifeStep, ListStep, PanicStep, OrderStep, NumberStep, AckStep DEF Inv
<1>3. QED BY <1>1, <1>2, PTL DEF Spec

(* The variables of the server have their types; in particular no          *)
(* OutputChan holds more than its capacity.                                *)
THEOREM TypeCorrect == Spec => []TypeOK
<1>1. Inv => TypeOK
  BY DEF Inv
<1>2. QED BY <1>1, InvCorrect, PTL

(* No goroutine sends on a channel that DeleteClient has closed, and no    *)
(* channel is closed twice, whatever the order of disconnections, errors   *)
(* and broadcasts.                                                         *)
THEOREM NoPanicCorrect == Spec => []NoPanic
<1>1. Inv => NoPanic
  BY DEF Inv
<1>2. QED BY <1>1, InvCorrect, PTL

(* The linked list of the server holds exactly the connected descriptors,  *)
(* each of them once, for any sequence of NewClient and DeleteClient.      *)
THEOREM ListExactCorrect == Spec => []ListExact
<1>1. Inv => ListExact
  BY DEF Inv
<1>2. QED BY <1>1, InvCorrect, PTL

(* Two broadcasts are put into the queues of all clients in one order, and *)
(* none of them twice into a queue: Broadcast holds the mutex for as long  *)
(* as it visits the list.                                                  *)
THEOREM SameOrderCorrect == Spec => []SameOrder
<1>1. Inv => SameOrder
  BY DEF Inv, Ordered, SameOrder
<1>2. QED BY <1>1, InvCorrect, PTL

(* runClient refuses no request of a client that counts as SendAsync does, *)
(* for any size of the message number.                                     *)
THEOREM NumberingAgreesCorrect == Spec => []NumberingAgrees
<1>1. Inv => NumberingAgrees
  BY DEF Inv
<1>2. QED BY <1>1, InvCorrect, PTL

(* The positive acknowledgement of a numbered request carries its number,  *)
(* for clients that number their requests in any way.                      *)
THEOREM AckAnswersRequestCorrect == Spec => []AckAnswersRequest
<1>1. Inv => AckAnswersRequest
  BY DEF Inv
<1>2. QED BY <1>1, InvCorrect, PTL
=============================================================================
