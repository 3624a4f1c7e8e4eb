-------------------------- MODULE EventClientProofs --------------------------
(***************************************************************************)
(* Proofs about EventClient, for every number of callers, connections,     *)
(* requests and message numbers: the numbers of requests follow each other *)
(* (NumbersConsecutive), requests are completed by their own answers       *)
(* (AnswerMatches), and one reader at a time takes events (OneReader).     *)
(***************************************************************************)
EXTENDS EventClient, SequenceTheorems, FiniteSetTheorems, TLAPS

(* The types that the arguments below need.                                *)
ReaderState ==
  {r \in [pc : {"none", "top", "read", "put", "end", "done"}, on : 0..MaxDials, event : Event] :
     r.pc = "read" => r.on # 0}
CallerState == [pc : {"idle", "write"}, id : Id, re : Request]

Types ==
  /\ conn \in Nat /\ msgId \in Id /\ sent \in Request
  /\ asked \in [Dial -> Seq(Event)] /\ inbox \in [Dial -> Seq(Event)] /\ eventChan \in Seq(Event)
  /\ pending \in [Id -> Request]
  /\ reader \in [Dial -> ReaderState]
  /\ answered \in Event
  /\ caller \in [Caller -> CallerState]
  /\ lastId \in [Dial -> Id]

(* Where the client may be before and after the first dial, and who holds  *)
(* the mutex.                                                              *)
Dialled ==
  /\ conn <= MaxDials
  /\ \A c \in Dial : reader[c].pc # "none" => c <= conn
  /\ loop \notin {"dial", "failed"} => conn > 0
  /\ \A p \in Caller : caller[p].pc = "write" => mutex = p

(* On the first connection: MsgId is the number after the last one written *)
(* when a request is to be sent, and the hello comes before all of them.   *)
Numbering ==
  conn <= 1 =>
    /\ ~gap
    /\ \A p \in Caller : caller[p].pc = "write" =>
         lastId[1] # 0 /\ caller[p].id = msgId /\ msgId # 0
    /\ connected \/ loop = "greeting" => lastId[1] # 0
    /\ conn = 0 \/ loop = "hello" => lastId[1] = 0
    /\ IF lastId[1] = 0 THEN msgId = 1 ELSE FirstFree(msgId) = (lastId[1] % MaxId) + 1

(* The events on their way from the server to their handlers, and the      *)
(* answers that requests on their way to the server may get.               *)
In(q) == {q[k] : k \in 1..Len(q)}
OnWay(e) ==
  \/ \E d \in Dial : e \in In(asked[d])
  \/ \E d \in Dial : e \in In(inbox[d])
  \/ e \in In(eventChan)
  \/ \E c \in Dial : e = reader[c].event
  \/ e = answered

(* The number of the next request before numbers come round.               *)
Upcoming == IF msgId = 0 THEN MaxId + 1 ELSE msgId

(* On the first connection, before numbers come round: the answers on      *)
(* their way belong to what is pending under their number, and the next    *)
(* number is that of no answer.                                            *)
Matching ==
  conn <= 1 /\ sent <= MaxId =>
    /\ ~mismatch
    /\ \A e \in Event : OnWay(e) /\ e.id # 0 => lastId[1] # 0 /\ pending[e.id] \in {0, e.re}
    /\ \A p \in Caller : caller[p].pc = "write" => pending[caller[p].id] = caller[p].re
    /\ lastId[1] # 0 /\ sent < MaxId =>
         /\ msgId # 1
         /\ Upcoming <= sent + 2
         /\ \A p \in Caller : caller[p].pc = "write" => Upcoming <= sent + 1
         /\ \A e \in Event : OnWay(e) => e.id # 1 /\ e.id < Upcoming

(* Before Terminate is called and as long as each Close got the end of a   *)
(* reader: a reader is there only between a dial and the Close that awaits *)
(* its end, and endOfReadChannel is empty before a dial.                   *)
Active(c) == reader[c].pc \notin {"none", "done"}
Quiet == ~endOfRead /\ \A c \in Dial : ~Active(c)
OneByOne ==
  /\ \A c, d \in Dial : Active(c) /\ Active(d) => c = d
  /\ endOfRead => \A c \in Dial : ~Active(c)
  /\ loop \in {"dial", "hello", "greeting", "closeDial", "waitDial", "failed"} => Quiet /\ ~connected
  /\ loop \in {"connect", "next", "handle", "expire", "close"} => connected
  /\ loop = "connect" => Started
  /\ loop = "wait" => ~connected
  /\ loop = "retry" /\ ~connected => Quiet
Reading == gaveUp \/ closer # "idle" \/ OneByOne

Core == Types /\ Dialled /\ Numbering /\ Matching
Inv == Core /\ Reading
-----------------------------------------------------------------------------
(* The number after n, and after the highest.                              *)
LEMMA NextNumber ==
  ASSUME NEW n \in 1..MaxId
  PROVE  /\ Increment(n) \in Id
         /\ FirstFree(Increment(n)) = (n % MaxId) + 1
         /\ Increment(n) = IF n = MaxId THEN 0 ELSE n + 1
<1>0. MaxId \in Nat \ {0}
  BY ClientAssumption
<1>1. CASE n = MaxId
  <2>1. (n + 1) % (MaxId + 1) = 0
    BY <1>0, <1>1
  <2>2. n % MaxId = 0
    BY <1>0, <1>1
  <2>3. QED BY <1>0, <1>1, <2>1, <2>2 DEF Increment, FirstFree, Id
<1>2. CASE n # MaxId
  <2>1. n + 1 \in 0..MaxId /\ n \in 0..(MaxId - 1)
    BY <1>0, <1>2
  <2>2. (n + 1) % (MaxId + 1) = n + 1
    BY <1>0, <2>1
  <2>3. n % MaxId = n
    BY <1>0, <2>1
  <2>4. QED BY <1>0, <1>2, <2>2, <2>3, <2>1 DEF Increment, FirstFree, Id
<1>3. QED BY <1>1, <1>2

(* Numbers stay in their range.                                            *)
LEMMA NumberTypes ==
  /\ 0 \in Id /\ 1 \in Id /\ 1 \in Dial /\ Id \subseteq Nat /\ Dial \subseteq Nat
  /\ \A n \in Id : FirstFree(n) \in 1..MaxId /\ Increment(n) \in Id
<1>0. MaxId \in Nat \ {0} /\ MaxDials \in Nat \ {0}
  BY ClientAssumption
<1>1. 0 \in Id /\ 1 \in Id /\ 1 \in Dial /\ Id \subseteq Nat /\ Dial \subseteq Nat
  BY <1>0 DEF Id, Dial
<1>2. ASSUME NEW n \in Id
      PROVE  FirstFree(n) \in 1..MaxId /\ Increment(n) \in Id
  <2>1. FirstFree(n) \in 1..MaxId
    BY <1>0 DEF FirstFree, Id
  <2>2. CASE n = 0
    <3>1. (0 + 1) % (MaxId + 1) = 1
      BY <1>0
    <3>2. QED BY <1>1, <2>1, <2>2, <3>1 DEF Increment
  <2>3. CASE n # 0
    BY <1>0, <2>1, <2>3, NextNumber DEF Id
  <2>4. QED BY <2>1, <2>2, <2>3
<1>3. QED BY <1>1, <1>2

(* What taking an event from a sequence and adding one leaves in it.       *)
LEMMA InFacts ==
  ASSUME NEW q \in Seq(Event)
  PROVE  /\ In(q) \subseteq Event
         /\ \A e \in Event : In(Append(q, e)) \subseteq In(q) \cup {e} /\ Append(q, e) \in Seq(Event)
         /\ q # <<>> => Head(q) \in In(q) /\ In(Tail(q)) \subseteq In(q) /\ Tail(q) \in Seq(Event)
         /\ In(<<>>) = {}
<1>1. In(q) \subseteq Event /\ In(<<>>) = {}
  BY DEF In
<1>2. ASSUME NEW e \in Event
      PROVE  In(Append(q, e)) \subseteq In(q) \cup {e} /\ Append(q, e) \in Seq(Event)
  BY AppendProperties DEF In
<1>3. ASSUME q # <<>>
      PROVE  Head(q) \in In(q) /\ In(Tail(q)) \subseteq In(q) /\ Tail(q) \in Seq(Event)
  <2>1. Head(q) = q[1] /\ Len(q) \in Nat /\ Len(q) > 0
    BY <1>3, EmptySeq
  <2>2. Tail(q) \in Seq(Event) /\ Len(Tail(q)) = Len(q) - 1 /\ \A k \in 1..Len(Tail(q)) : Tail(q)[k] = q[k + 1]
    BY <1>3, HeadTailProperties, <2>1
  <2>3. QED BY <2>1, <2>2 DEF In
<1>4. QED BY <1>1, <1>2, <1>3

(* Events without a number.                                                *)
LEMMA NoEventType == NoEvent \in Event /\ NoEvent.id = 0
<1>1. 0 \in Id /\ 0 \in Request
  BY ClientAssumption, NumberTypes DEF Request
<1>2. QED BY <1>1 DEF NoEvent, Event
-----------------------------------------------------------------------------
(* The steps that leave numbers and the table of requests alone and bring  *)
(* no new answer.                                                          *)
LEMMA Steady ==
  ASSUME Core,
         UNCHANGED <<conn, msgId, lastId, sent, gap, mismatch, caller, mutex, pending>>,
         connected' => connected \/ loop = "greeting",
         loop' \in {"hello", "greeting"} => loop' = loop,
         loop' \in {"dial", "failed"} \/ conn > 0,
         asked' \in [Dial -> Seq(Event)], inbox' \in [Dial -> Seq(Event)], eventChan' \in Seq(Event),
         reader' \in [Dial -> ReaderState], answered' \in Event,
         \A c \in Dial : reader'[c].pc # "none" => reader[c].pc # "none" \/ c = conn,
         \A e \in Event : OnWay(e)' => OnWay(e) \/ e = NoEvent
  PROVE  Core'
<1>1. Types' /\ Dialled'
  BY DEF Core, Types, Dialled
<1>2. Numbering'
  BY DEF Core, Numbering
<1>3. Matching'
  <2>0. Upcoming' = Upcoming
    BY DEF Upcoming
  <2>1. SUFFICES ASSUME conn <= 1, sent <= MaxId PROVE Matching!2'
    BY DEF Matching
  <2>2. ASSUME NEW e \in Event, OnWay(e)', e.id # 0
        PROVE  lastId[1] # 0 /\ pending[e.id] \in {0, e.re}
    BY <2>1, <2>2, NoEventType DEF Core, Matching
  <2>3. ASSUME NEW e \in Event, OnWay(e)', lastId[1] # 0, sent < MaxId
        PROVE  e.id # 1 /\ e.id < Upcoming
    <3>1. CASE OnWay(e)
      BY <2>1, <2>3, <3>1 DEF Core, Matching
    <3>2. CASE e = NoEvent
      <4>1. Upcoming > 0
        BY ClientAssumption DEF Core, Types, Id, Upcoming
      <4>2. QED BY <3>2, <4>1, NoEventType
    <3>3. QED BY <2>3, <3>1, <3>2
  <2>4. QED BY <2>0, <2>1, <2>2, <2>3 DEF Core, Matching
<1>4. QED BY <1>1, <1>2, <1>3 DEF Core

(* The same for the steps that leave the events alone too.                 *)
LEMMA SteadyLoop ==
  ASSUME Core,
         UNCHANGED <<conn, msgId, lastId, sent, gap, mismatch, caller, mutex, pending>>,
         connected' => connected \/ loop = "greeting",
         loop' \in {"hello", "greeting"} => loop' = loop,
         loop' \in {"dial", "failed"} \/ conn > 0,
         UNCHANGED <<asked, inbox, eventChan, answered>>,
         reader' \in [Dial -> ReaderState],
         \A c \in Dial : reader'[c].pc # "none" => reader[c].pc # "none" \/ c = conn,
         \A c \in Dial : reader'[c].event = reader[c].event \/ reader'[c].event = NoEvent
  PROVE  Core'
<1>1. /\ asked' \in [Dial -> Seq(Event)] /\ inbox' \in [Dial -> Seq(Event)]
      /\ eventChan' \in Seq(Event) /\ answered' \in Event
  BY DEF Core, Types
<1>2. \A e \in Event : OnWay(e)' => OnWay(e) \/ e = NoEvent
  BY DEF OnWay
<1>3. QED BY <1>1, <1>2, Steady

(* A client whose readers have started has dialled.                        *)
LEMMA StartedFacts ==
  ASSUME Core
  PROVE  /\ Started => conn > 0
         /\ loop \notin {"dial", "failed"} => conn > 0
         /\ conn > 0 => conn \in Dial
BY DEF Core, Types, Dialled, Started, Dial

(* The loop's steps around dial and Close, and Terminate.                  *)
LEMMA CoreLoop ==
  ASSUME Core,
         \/ ConnectAgain \/ Retry \/ DialGreeting \/ DialConnect \/ DialClose \/ DialWait
         \/ LoopClose \/ LoopWait \/ TerminateCall \/ TerminateClose \/ TerminateWait
  PROVE  Core'
<1>1. ASSUME UNCHANGED <<sharedVars, asked, inbox, eventChan, answered, reader, lastId, sent, gap, mismatch, caller>>,
             loop' \in {"hello", "greeting"} => loop' = loop,
             loop' \in {"dial", "failed"} \/ conn > 0
      PROVE  Core'
  BY <1>1, SteadyLoop DEF Core, Types, sharedVars
<1>2. ASSUME CloseSocket, loop' \in {"wait", "waitDial", loop}, conn > 0 \/ loop' = loop
      PROVE  Core'
  <2>1. UNCHANGED <<conn, msgId, lastId, sent, gap, mismatch, caller, mutex, pending, asked, inbox, eventChan, answered, reader>>
    BY <1>2 DEF CloseSocket, historyVars, channelVars
  <2>2. ~connected'
    BY <1>2 DEF CloseSocket
  <2>3. loop' \in {"hello", "greeting"} => loop' = loop
    BY <1>2
  <2>4. loop' \in {"dial", "failed"} \/ conn > 0
    BY <1>2, StartedFacts
  <2>5. reader' \in [Dial -> ReaderState]
    BY <2>1 DEF Core, Types
  <2>6. QED BY <2>1, <2>2, <2>3, <2>4, <2>5, SteadyLoop
<1>3. CASE ConnectAgain \/ Retry \/ DialConnect
  BY <1>1, <1>3, StartedFacts DEF ConnectAgain, Retry, DialConnect, DialError, LoopTop, channelVars, serverVars, historyVars
<1>4. CASE DialWait \/ LoopWait \/ TerminateWait
  BY <1>1, <1>4, StartedFacts DEF DialWait, LoopWait, TerminateWait, CloseWait, DialError, serverVars
<1>5. CASE DialClose \/ LoopClose \/ TerminateClose
  BY <1>2, <1>5, StartedFacts DEF DialClose, LoopClose, TerminateClose
<1>6. CASE TerminateCall
  <2>1. UNCHANGED <<conn, msgId, lastId, sent, gap, mismatch, caller, mutex, pending, asked, inbox, eventChan, answered, reader, connected, loop>>
    BY <1>6 DEF TerminateCall, historyVars, channelVars, serverVars
  <2>2. conn > 0
    BY <1>6, StartedFacts DEF TerminateCall
  <2>3. QED BY <2>1, <2>2, SteadyLoop DEF Core, Types
<1>7. CASE DialGreeting
  <2>1. /\ UNCHANGED <<conn, msgId, lastId, sent, gap, mismatch, caller, mutex, pending, asked, inbox, eventChan, answered>>
        /\ loop = "greeting" /\ loop' \in {"connect", "next", "closeDial"}
        /\ reader' = reader \/ reader' = [reader EXCEPT ![conn].pc = "top"]
    BY <1>7 DEF DialGreeting, historyVars, channelVars, serverVars
  <2>2. conn \in Dial /\ conn > 0
    BY <2>1, StartedFacts
  <2>3. reader \in [Dial -> ReaderState]
    BY DEF Core, Types
  <2>4. reader' \in [Dial -> ReaderState] /\ \A c \in Dial : reader'[c].event = reader[c].event /\ (c # conn => reader'[c] = reader[c])
    <3>1. [reader[conn] EXCEPT !.pc = "top"] \in ReaderState /\ [reader[conn] EXCEPT !.pc = "top"].event = reader[conn].event
      BY <2>2, <2>3 DEF ReaderState
    <3>2. reader' = reader \/ reader' = [reader EXCEPT ![conn] = [reader[conn] EXCEPT !.pc = "top"]]
      BY <2>1
    <3>3. QED BY <2>2, <2>3, <3>1, <3>2
  <2>5. QED BY <2>1, <2>2, <2>4, SteadyLoop
<1>8. QED BY <1>3, <1>4, <1>5, <1>6, <1>7

(* Events move on: from the server to a reader, to eventChannel, to the    *)
(* loop and to their handlers.                                             *)
LEMMA CoreEvents ==
  ASSUME Core,
         \/ NextEvent \/ HandleEvent \/ HandleUnexpected
         \/ \E c \in Dial : Read(c) \/ Server(c)
  PROVE  Core'
<1>0. /\ asked \in [Dial -> Seq(Event)] /\ inbox \in [Dial -> Seq(Event)] /\ eventChan \in Seq(Event)
      /\ reader \in [Dial -> ReaderState] /\ answered \in Event /\ conn \in 0..MaxDials
  BY ClientAssumption DEF Core, Types, Dialled
<1>1. ASSUME UNCHANGED <<conn, msgId, lastId, sent, gap, mismatch, caller, mutex, pending, connected, loop>>,
             asked' \in [Dial -> Seq(Event)], inbox' \in [Dial -> Seq(Event)], eventChan' \in Seq(Event),
             reader' \in [Dial -> ReaderState], answered' \in Event,
             \A c \in Dial : reader'[c].pc # "none" => reader[c].pc # "none",
             \A e \in Event : OnWay(e)' => OnWay(e) \/ e = NoEvent
      PROVE  Core'
  <2>1. loop' \in {"dial", "failed"} \/ conn > 0
    BY <1>1, StartedFacts
  <2>2. QED BY <1>1, <2>1, Steady
<1>2. CASE NextEvent
  <2>1. /\ UNCHANGED <<conn, msgId, lastId, sent, gap, mismatch, caller, mutex, pending, connected, asked, inbox, reader>>
        /\ loop' = "handle" /\ loop = "next" /\ eventChan # <<>>
        /\ answered' = Head(eventChan) /\ eventChan' = Tail(eventChan)
    BY <1>2 DEF NextEvent, sharedVars, historyVars, serverVars
  <2>2. eventChan' \in Seq(Event) /\ In(eventChan') \subseteq In(eventChan) /\ answered' \in In(eventChan) /\ answered' \in Event
    BY <1>0, <2>1, InFacts
  <2>3. \A e \in Event : OnWay(e)' => OnWay(e) \/ e = NoEvent
    BY <2>1, <2>2 DEF OnWay
  <2>4. conn > 0
    BY <2>1, StartedFacts
  <2>5. QED BY <1>0, <2>1, <2>2, <2>3, <2>4, Steady
<1>3. CASE HandleEvent \/ HandleUnexpected
  <2>1. /\ UNCHANGED <<conn, msgId, lastId, sent, gap, mismatch, caller, mutex, pending, connected, asked, inbox, reader, eventChan>>
        /\ loop' \in {"next", "dial", "close"} /\ loop = "handle" /\ answered' = NoEvent
    BY <1>3 DEF HandleEvent, HandleUnexpected, LoopTop, sharedVars, historyVars, serverVars, channelVars
  <2>2. \A e \in Event : OnWay(e)' => OnWay(e) \/ e = NoEvent
    BY <2>1 DEF OnWay
  <2>3. conn > 0
    BY <2>1, StartedFacts
  <2>4. QED BY <1>0, <2>1, <2>2, <2>3, NoEventType, Steady
<1>4. ASSUME NEW c \in Dial, Read(c)
      PROVE  Core'
  <2>0. UNCHANGED <<conn, msgId, lastId, sent, gap, mismatch, caller, mutex, pending, connected, loop, answered, asked>>
    BY <1>4 DEF Read, ReadFrom, ReadEvent, ReadError, ReadPut, ReadEnd, sharedVars, historyVars, serverVars
  <2>1. ASSUME NEW r \in ReaderState, reader' = [reader EXCEPT ![c] = r], reader[c].pc # "none",
               inbox' \in [Dial -> Seq(Event)], eventChan' \in Seq(Event),
               \A d \in Dial : In(inbox'[d]) \subseteq In(inbox[d]),
               In(eventChan') \subseteq In(eventChan) \cup {reader[c].event},
               r.event = reader[c].event \/ r.event = NoEvent \/ \E d \in Dial : r.event \in In(inbox[d])
        PROVE  Core'
    <3>1. reader' \in [Dial -> ReaderState] /\ reader'[c] = r /\ \A d \in Dial \ {c} : reader'[d] = reader[d]
      BY <1>0, <2>1
    <3>2. \A e \in Event : OnWay(e)' => OnWay(e) \/ e = NoEvent
      <4>1. SUFFICES ASSUME NEW e \in Event, OnWay(e)', e # NoEvent PROVE OnWay(e)
        OBVIOUS
      <4>2. CASE \E d \in Dial : e \in In(inbox'[d])
        BY <2>1, <4>2 DEF OnWay
      <4>3. CASE e \in In(eventChan')
        BY <2>1, <4>3 DEF OnWay
      <4>4. CASE \E d \in Dial : e = reader'[d].event
        BY <2>1, <3>1, <4>1, <4>4 DEF OnWay
      <4>5. CASE e = answered'
        BY <2>0, <4>5 DEF OnWay
      <4>6. CASE \E d \in Dial : e \in In(asked'[d])
        BY <2>0, <4>6 DEF OnWay
      <4>7. QED BY <4>1, <4>2, <4>3, <4>4, <4>5, <4>6 DEF OnWay
    <3>3. \A d \in Dial : reader'[d].pc # "none" => reader[d].pc # "none"
      BY <2>1, <3>1
    <3>4. QED BY <1>0, <1>1, <2>0, <2>1, <3>1, <3>2, <3>3
  <2>2. reader[c] \in ReaderState /\ reader[c].event \in Event /\ reader[c].on \in 0..MaxDials
    BY <1>0 DEF ReaderState
  <2>3. CASE ReadFrom(c)
    <3>0. conn # 0
      <4>1. reader[c].pc = "top" /\ c <= conn
        BY <2>3 DEF ReadFrom, Core, Dialled
      <4>2. c > 0 /\ c \in Nat
        BY NumberTypes DEF Dial
      <4>3. QED BY <1>0, <4>1, <4>2
    <3>1. [reader[c] EXCEPT !.pc = "read", !.on = conn] \in ReaderState
          /\ [reader[c] EXCEPT !.pc = "read", !.on = conn].event = reader[c].event
      BY <1>0, <2>2, <3>0 DEF ReaderState
    <3>2. /\ reader' = [reader EXCEPT ![c] = [reader[c] EXCEPT !.pc = "read", !.on = conn]]
          /\ inbox' = inbox /\ eventChan' = eventChan /\ reader[c].pc # "none"
      BY <1>0, <2>3 DEF ReadFrom, serverVars, channelVars
    <3>3. QED BY <1>0, <2>1, <3>1, <3>2
  <2>4. CASE ReadError(c) \/ ReadEnd(c)
    <3>1. PICK p \in {"end", "done"} : reader' = [reader EXCEPT ![c].pc = p]
      BY <2>4 DEF ReadError, ReadEnd
    <3>2. [reader[c] EXCEPT !.pc = p] \in ReaderState /\ [reader[c] EXCEPT !.pc = p].event = reader[c].event
      BY <2>2 DEF ReaderState
    <3>3. reader' = [reader EXCEPT ![c] = [reader[c] EXCEPT !.pc = p]]
      BY <1>0, <3>1
    <3>4. inbox' = inbox /\ eventChan' = eventChan /\ reader[c].pc # "none"
      BY <2>4 DEF ReadError, ReadEnd, serverVars, channelVars
    <3>5. QED BY <1>0, <2>1, <3>2, <3>3, <3>4
  <2>5. CASE ReadPut(c)
    <3>1. [reader[c] EXCEPT !.pc = "top", !.event = NoEvent] \in ReaderState
          /\ [reader[c] EXCEPT !.pc = "top", !.event = NoEvent].event = NoEvent
      BY <2>2, NoEventType DEF ReaderState
    <3>2. /\ reader' = [reader EXCEPT ![c] = [reader[c] EXCEPT !.pc = "top", !.event = NoEvent]]
          /\ inbox' = inbox /\ eventChan' = Append(eventChan, reader[c].event) /\ reader[c].pc # "none"
      BY <1>0, <2>5 DEF ReadPut, serverVars
    <3>3. eventChan' \in Seq(Event) /\ In(eventChan') \subseteq In(eventChan) \cup {reader[c].event}
      BY <1>0, <2>2, <3>2, InFacts
    <3>4. QED BY <1>0, <2>1, <3>1, <3>2, <3>3
  <2>6. CASE ReadEvent(c)
    <3>0. PICK d : d = reader[c].on
      OBVIOUS
    <3>1. /\ inbox[d] # <<>> /\ inbox' = [inbox EXCEPT ![d] = Tail(inbox[d])] /\ eventChan' = eventChan
          /\ reader[c].pc # "none"
          /\ reader' = [reader EXCEPT ![c].pc = "put", ![c].event = Head(inbox[d])]
      BY <2>6, <3>0 DEF ReadEvent, channelVars
    <3>2. CASE d \in Dial
      <4>1. inbox[d] \in Seq(Event)
        BY <1>0, <3>2
      <4>2. Head(inbox[d]) \in In(inbox[d]) /\ Head(inbox[d]) \in Event /\ In(Tail(inbox[d])) \subseteq In(inbox[d])
            /\ Tail(inbox[d]) \in Seq(Event)
        BY <3>1, <4>1, InFacts
      <4>3. [reader[c] EXCEPT !.pc = "put", !.event = Head(inbox[d])] \in ReaderState
            /\ [reader[c] EXCEPT !.pc = "put", !.event = Head(inbox[d])].event = Head(inbox[d])
        BY <2>2, <4>2 DEF ReaderState
      <4>4. reader' = [reader EXCEPT ![c] = [reader[c] EXCEPT !.pc = "put", !.event = Head(inbox[d])]]
        BY <1>0, <3>1
      <4>5. inbox' \in [Dial -> Seq(Event)] /\ \A x \in Dial : In(inbox'[x]) \subseteq In(inbox[x])
        BY <1>0, <3>1, <3>2, <4>2
      <4> DEFINE r == [reader[c] EXCEPT !.pc = "put", !.event = Head(inbox[d])]
      <4>6. r \in ReaderState /\ reader' = [reader EXCEPT ![c] = r] /\ r.event \in In(inbox[d])
        BY <4>2, <4>3, <4>4
      <4>7. eventChan' \in Seq(Event) /\ In(eventChan') \subseteq In(eventChan) \cup {reader[c].event} /\ reader[c].pc # "none"
        BY <1>0, <3>1
      <4> HIDE DEF r
      <4>8. QED BY <2>1, <3>2, <4>5, <4>6, <4>7
    <3>3. CASE d \notin Dial
      <4>1. d = 0
        BY <2>2, <3>0, <3>3 DEF Dial
      <4>2. reader[c].pc = "read" /\ reader[c].on # 0
        BY <1>0, <2>6 DEF ReadEvent, ReaderState
      <4>3. QED BY <3>0, <4>1, <4>2
    <3>4. QED BY <3>2, <3>3
  <2>7. QED BY <1>4, <2>3, <2>4, <2>5, <2>6 DEF Read
<1>5. ASSUME NEW c \in Dial, ServerEvent(c)
      PROVE  Core'
  <2>1. /\ UNCHANGED <<conn, msgId, lastId, sent, gap, mismatch, caller, mutex, pending, connected, loop, answered, reader,
                       eventChan, asked>>
        /\ inbox' = [inbox EXCEPT ![c] = Append(inbox[c], NoEvent)]
    BY <1>5 DEF ServerEvent, sharedVars, historyVars, channelVars
  <2>2. inbox[c] \in Seq(Event)
    BY <1>0
  <2>3. Append(inbox[c], NoEvent) \in Seq(Event) /\ In(Append(inbox[c], NoEvent)) \subseteq In(inbox[c]) \cup {NoEvent}
    BY <2>2, InFacts, NoEventType
  <2>4. inbox' \in [Dial -> Seq(Event)] /\ \A d \in Dial : In(inbox'[d]) \subseteq In(inbox[d]) \cup {NoEvent}
    BY <1>0, <2>1, <2>3
  <2>5. \A e \in Event : OnWay(e)' => OnWay(e) \/ e = NoEvent
    BY <2>1, <2>4 DEF OnWay
  <2>6. QED BY <1>0, <1>1, <2>1, <2>4, <2>5
<1>6. ASSUME NEW c \in Dial, ConnectionLost(c)
      PROVE  Core'
  <2>1. UNCHANGED <<conn, msgId, lastId, sent, gap, mismatch, caller, mutex, pending, connected, loop, answered, reader, eventChan, asked, inbox>>
    BY <1>6 DEF ConnectionLost, sharedVars, historyVars, channelVars
  <2>2. \A e \in Event : OnWay(e)' => OnWay(e) \/ e = NoEvent
    BY <2>1 DEF OnWay
  <2>3. QED BY <1>0, <1>1, <2>1, <2>2
<1>7. ASSUME NEW c \in Dial, ServerAnswer(c)
      PROVE  Core'
  <2>1. /\ UNCHANGED <<conn, msgId, lastId, sent, gap, mismatch, caller, mutex, pending, connected, loop, answered, reader, eventChan>>
        /\ asked[c] # <<>> /\ asked' = [asked EXCEPT ![c] = Tail(asked[c])]
        /\ inbox' = [inbox EXCEPT ![c] = Append(inbox[c], Head(asked[c]))]
    BY <1>7 DEF ServerAnswer, sharedVars, historyVars, channelVars
  <2>2. asked[c] \in Seq(Event) /\ inbox[c] \in Seq(Event)
    BY <1>0
  <2>3. PICK a : a = Head(asked[c])
    OBVIOUS
  <2>4. a \in Event /\ a \in In(asked[c]) /\ Tail(asked[c]) \in Seq(Event) /\ In(Tail(asked[c])) \subseteq In(asked[c])
    BY <2>1, <2>2, <2>3, InFacts
  <2>5. Append(inbox[c], a) \in Seq(Event) /\ In(Append(inbox[c], a)) \subseteq In(inbox[c]) \cup {a}
    BY <2>2, <2>4, InFacts
  <2>6. asked' \in [Dial -> Seq(Event)] /\ \A d \in Dial : In(asked'[d]) \subseteq In(asked[d])
    BY <1>0, <2>1, <2>4
  <2>7. inbox' \in [Dial -> Seq(Event)] /\ \A d \in Dial : In(inbox'[d]) \subseteq In(inbox[d]) \cup {a}
    BY <1>0, <2>1, <2>3, <2>5
  <2>8. OnWay(a)
    BY <2>4 DEF OnWay
  <2>9. \A e \in Event : OnWay(e)' => OnWay(e) \/ e = NoEvent
    <3>1. SUFFICES ASSUME NEW e \in Event, OnWay(e)' PROVE OnWay(e)
      OBVIOUS
    <3>2. CASE \E d \in Dial : e \in In(inbox'[d])
      BY <2>7, <2>8, <3>2 DEF OnWay
    <3>3. CASE \E d \in Dial : e \in In(asked'[d])
      BY <2>6, <3>3 DEF OnWay
    <3>4. QED BY <2>1, <3>1, <3>2, <3>3 DEF OnWay
  <2>10. QED BY <1>0, <1>1, <2>1, <2>6, <2>7, <2>9
<1>8. ASSUME NEW c \in Dial, ServerGarbage(c)
      PROVE  Core'
  <2>1. /\ UNCHANGED <<conn, msgId, lastId, sent, gap, mismatch, caller, mutex, pending, connected, loop, answered,
                       asked, inbox, eventChan>>
        /\ reader' = [reader EXCEPT ![c].pc = "end"] /\ reader[c].pc = "read"
    BY <1>8 DEF ServerGarbage, sharedVars, historyVars, channelVars
  <2>2. [reader[c] EXCEPT !.pc = "end"] \in ReaderState /\ [reader[c] EXCEPT !.pc = "end"].event = reader[c].event
    BY <1>0 DEF ReaderState
  <2>3. reader' = [reader EXCEPT ![c] = [reader[c] EXCEPT !.pc = "end"]]
    BY <1>0, <2>1
  <2>4. /\ reader' \in [Dial -> ReaderState]
        /\ \A d \in Dial : reader'[d].event = reader[d].event /\ (reader'[d].pc # "none" => reader[d].pc # "none")
    BY <1>0, <2>1, <2>2, <2>3
  <2>5. \A e \in Event : OnWay(e)' => OnWay(e) \/ e = NoEvent
    BY <2>1, <2>4 DEF OnWay
  <2>6. QED BY <1>0, <1>1, <2>1, <2>4, <2>5
<1>9. QED BY <1>2, <1>3, <1>4, <1>5, <1>6, <1>7, <1>8 DEF Server
-----------------------------------------------------------------------------
(* A dial.                                                                 *)
LEMMA CoreDialOpen ==
  ASSUME Core, DialOpen
  PROVE  Core'
<1>1. UNCHANGED <<lastId, sent, gap, mismatch, caller, mutex, pending, connected, asked, inbox, eventChan, answered, reader>>
  BY DEF DialOpen, channelVars, historyVars
<1>2. CASE UNCHANGED <<conn, msgId>> /\ DialError
  <2>1. loop' \in {"failed", "retry", "ended"} /\ (loop' \in {"dial", "failed"} \/ conn > 0)
    BY <1>2, StartedFacts DEF DialError
  <2>2. QED BY <1>1, <1>2, <2>1, SteadyLoop DEF Core, Types
<1>3. CASE conn < MaxDials /\ conn' = conn + 1 /\ msgId' = 1 /\ loop' = "hello"
  <2>0. conn \in Nat /\ MaxDials \in Nat
    BY ClientAssumption DEF Core, Types
  <2>1. Types'
    BY <1>1, <1>3, NumberTypes DEF Core, Types
  <2>2. Dialled'
    BY <1>1, <1>3, <2>0 DEF Core, Dialled, Dial
  <2>3. CASE conn = 0
    <3>1. /\ ~gap /\ lastId[1] = 0 /\ ~connected
          /\ \A p \in Caller : caller[p].pc # "write"
      BY <2>3 DEF Core, Numbering
    <3>2. Numbering'
      BY <1>1, <1>3, <3>1 DEF Numbering
    <3>3. Matching'
      BY <1>1, <2>3, <3>1 DEF Core, Matching, OnWay
    <3>4. QED BY <2>1, <2>2, <3>2, <3>3 DEF Core
  <2>4. CASE conn # 0
    <3>1. ~(conn' <= 1)
      BY <1>3, <2>0, <2>4
    <3>2. QED BY <2>1, <2>2, <3>1 DEF Core, Numbering, Matching
  <2>5. QED BY <2>3, <2>4
<1>4. QED BY <1>2, <1>3 DEF DialOpen

(* The hello has number 1.                                                 *)
LEMMA CoreDialHello ==
  ASSUME Core, DialHello
  PROVE  Core'
<1>1. /\ UNCHANGED <<conn, sent, gap, mismatch, caller, mutex, pending, connected, asked, inbox, eventChan, answered, reader>>
      /\ loop = "hello"
  BY DEF DialHello, channelVars, serverVars
<1>2. conn \in Dial /\ conn > 0 /\ conn \in Nat
  BY <1>1, StartedFacts DEF Core, Types
<1>3. CASE UNCHANGED <<msgId, lastId>> /\ loop' = "closeDial"
  BY <1>1, <1>2, <1>3, SteadyLoop DEF Core, Types
<1>4. CASE msgId' = Increment(msgId) /\ lastId' = [lastId EXCEPT ![conn] = 1] /\ loop' = "greeting"
  <2>1. Types'
    BY <1>1, <1>2, <1>4, NumberTypes DEF Core, Types
  <2>2. Dialled'
    BY <1>1, <1>2, <1>4 DEF Core, Dialled
  <2>3. CASE conn > 1
    BY <1>1, <1>2, <2>1, <2>2, <2>3 DEF Core, Numbering, Matching
  <2>4. CASE conn = 1
    <3>1. /\ ~gap /\ lastId[1] = 0 /\ ~connected /\ msgId = 1
          /\ \A p \in Caller : caller[p].pc # "write"
      BY <1>1, <2>4 DEF Core, Numbering
    <3>2. lastId'[1] = 1
      BY <1>4, <2>4, NumberTypes DEF Core, Types
    <3>3. /\ FirstFree(msgId') = (lastId'[1] % MaxId) + 1
          /\ msgId' = IF MaxId = 1 THEN 0 ELSE 2
      BY <1>4, <3>1, <3>2, NextNumber, ClientAssumption
    <3>4. Numbering'
      BY <1>1, <1>4, <2>4, <3>1, <3>2, <3>3 DEF Numbering
    <3>5. Matching'
      <4>1. SUFFICES ASSUME sent <= MaxId PROVE Matching!2'
        BY <1>1 DEF Matching
      <4>2. /\ ~mismatch /\ \A e \in Event : OnWay(e) => e.id = 0
        BY <2>4, <3>1, <4>1 DEF Core, Matching
      <4>3. \A e \in Event : OnWay(e)' => e.id = 0
        BY <1>1, <4>2 DEF OnWay
      <4>4. Upcoming' = 2 /\ msgId' # 1
        BY <3>3 DEF Upcoming
      <4>5. sent \in Nat
        BY ClientAssumption DEF Core, Types, Request
      <4>6. sent' + 2 >= 2 /\ Upcoming' <= sent' + 2
        BY <1>1, <4>4, <4>5
      <4>7. \A e \in Event : OnWay(e)' => e.id # 1 /\ e.id < Upcoming'
        BY <4>3, <4>4
      <4>8. QED BY <1>1, <3>1, <4>2, <4>3, <4>4, <4>6, <4>7
    <3>6. QED BY <2>1, <2>2, <3>4, <3>5 DEF Core
  <2>5. QED BY <1>2, <2>3, <2>4
<1>5. QED BY <1>3, <1>4 DEF DialHello

(* A request leaves the table: it is answered or has expired.              *)
LEMMA CoreForget ==
  ASSUME Core, HandleAnswer \/ HandleExpired
  PROVE  Core'
<1>1. /\ UNCHANGED <<conn, msgId, lastId, sent, gap, caller, mutex, connected, asked, inbox, eventChan, reader>>
      /\ loop \in {"handle", "expire"} /\ loop' \in {"next", "dial", "expire", "close"}
      /\ mutex = Nobody
  BY DEF HandleAnswer, HandleExpired, LoopTop, channelVars, serverVars, historyVars
<1>2. answered' \in {answered, NoEvent} /\ answered' \in Event
  BY NoEventType DEF HandleAnswer, HandleExpired, Core, Types
<1>3. pending' = pending \/ \E n \in Id : pending' = [pending EXCEPT ![n] = 0]
  <2>1. answered.id \in Id
    BY DEF Core, Types, Event
  <2>2. QED BY <2>1 DEF HandleAnswer, HandleExpired
<1>4. pending' \in [Id -> Request] /\ \A n \in Id : pending'[n] = pending[n] \/ pending'[n] = 0
  <2>1. 0 \in Request
    BY ClientAssumption DEF Request
  <2>2. pending \in [Id -> Request]
    BY DEF Core, Types
  <2>3. ASSUME NEW n \in Id, pending' = [pending EXCEPT ![n] = 0]
        PROVE  pending' \in [Id -> Request] /\ \A k \in Id : pending'[k] = pending[k] \/ pending'[k] = 0
    BY <2>1, <2>2, <2>3
  <2>4. QED BY <1>3, <2>2, <2>3
<1>5. conn > 0 /\ \A p \in Caller : caller[p].pc # "write"
  <2>1. \A p \in Caller : p # Nobody
    BY ClientAssumption
  <2>2. QED BY <1>1, <2>1, StartedFacts DEF Core, Dialled
<1>6. Types' /\ Dialled'
  BY <1>1, <1>2, <1>4, <1>5 DEF Core, Types, Dialled
<1>7. Numbering'
  BY <1>1, <1>5 DEF Core, Numbering
<1>8. Matching'
  <2>1. SUFFICES ASSUME conn <= 1, sent <= MaxId PROVE Matching!2'
    BY <1>1 DEF Matching
  <2>2. ~mismatch'
    <3>1. ~mismatch
      BY <2>1 DEF Core, Matching
    <3>2. CASE HandleExpired
      BY <3>1, <3>2 DEF HandleExpired, historyVars
    <3>3. CASE HandleAnswer
      <4>1. OnWay(answered) /\ answered \in Event
        BY DEF OnWay, Core, Types
      <4>2. answered.id # 0 /\ pending[answered.id] # 0
        BY <3>3 DEF HandleAnswer
      <4>3. pending[answered.id] = answered.re
        BY <2>1, <4>1, <4>2 DEF Core, Matching
      <4>4. mismatch' = (mismatch \/ pending[answered.id] # answered.re)
        BY <3>3 DEF HandleAnswer
      <4>5. QED BY <3>1, <4>3, <4>4, Zenon
    <3>4. QED BY <3>2, <3>3
  <2>3. ASSUME NEW e \in Event, OnWay(e)', e # NoEvent
        PROVE  OnWay(e)
    BY <1>1, <1>2, <2>3 DEF OnWay
  <2>4. ASSUME NEW e \in Event, OnWay(e)', e.id # 0
        PROVE  lastId[1] # 0 /\ pending'[e.id] \in {0, e.re}
    <3>1. OnWay(e)
      BY <2>3, <2>4, NoEventType
    <3>2. lastId[1] # 0 /\ pending[e.id] \in {0, e.re}
      BY <2>1, <2>4, <3>1 DEF Core, Matching
    <3>3. e.id \in Id
      BY DEF Event
    <3>4. QED BY <1>4, <3>2, <3>3
  <2>5. Upcoming' = Upcoming /\ Upcoming > 0
    BY <1>1, ClientAssumption DEF Upcoming, Core, Types, Id
  <2>6. ASSUME NEW e \in Event, OnWay(e)', lastId[1] # 0, sent < MaxId
        PROVE  e.id # 1 /\ e.id < Upcoming
    <3>1. CASE e = NoEvent
      BY <2>5, <3>1, NoEventType
    <3>2. CASE e # NoEvent
      BY <2>1, <2>3, <2>6, <3>2 DEF Core, Matching
    <3>3. QED BY <3>1, <3>2
  <2>7. QED BY <1>1, <1>5, <2>1, <2>2, <2>4, <2>5, <2>6 DEF Core, Matching
<1>9. QED BY <1>6, <1>7, <1>8 DEF Core

(* A request gets its number.                                              *)
LEMMA CoreSendAsync ==
  ASSUME Core, NEW p \in Caller, SendAsync(p)
  PROVE  Core'
<1>0. PICK n : n = FirstFree(msgId)
  OBVIOUS
<1>1. /\ UNCHANGED <<conn, lastId, gap, mismatch, connected, asked, inbox, eventChan, reader, answered, loop>>
      /\ connected /\ mutex = Nobody /\ mutex' = p /\ sent < MaxSent /\ sent' = sent + 1
      /\ msgId' = n /\ pending' = [pending EXCEPT ![n] = sent + 1]
      /\ caller' = [caller EXCEPT ![p] = [pc |-> "write", id |-> n, re |-> sent + 1]]
  BY <1>0 DEF SendAsync, channelVars, serverVars
<1>2. n \in 1..MaxId /\ n \in Id /\ n # 0 /\ FirstFree(n) = n
  BY <1>0, NumberTypes, ClientAssumption DEF Core, Types, Id, FirstFree
<1>3. sent \in Nat /\ sent + 1 \in Request
  BY <1>1, ClientAssumption DEF Core, Types, Request
<1>4. /\ caller' \in [Caller -> CallerState]
      /\ caller'[p] = [pc |-> "write", id |-> n, re |-> sent + 1]
      /\ \A q \in Caller \ {p} : caller'[q] = caller[q] /\ caller[q].pc # "write"
  <2>1. [pc |-> "write", id |-> n, re |-> sent + 1] \in CallerState
    BY <1>2, <1>3 DEF CallerState
  <2>2. \A q \in Caller : caller[q].pc # "write"
    BY <1>1, ClientAssumption DEF Core, Dialled
  <2>3. QED BY <1>1, <2>1, <2>2 DEF Core, Types
<1>5. pending' \in [Id -> Request] /\ pending'[n] = sent + 1 /\ \A k \in Id \ {n} : pending'[k] = pending[k]
  BY <1>1, <1>2, <1>3 DEF Core, Types
<1>6. Types'
  BY <1>1, <1>2, <1>3, <1>4, <1>5 DEF Core, Types
<1>7. Dialled'
  BY <1>1, <1>4 DEF Core, Dialled
<1>8. CASE conn <= 1
  <2>1. ~gap /\ lastId[1] # 0 /\ n = (lastId[1] % MaxId) + 1
    BY <1>0, <1>1, <1>8 DEF Core, Numbering
  <2>2. Numbering'
    BY <1>1, <1>2, <1>4, <1>8, <2>1 DEF Core, Numbering
  <2>3. Matching'
    <3>1. SUFFICES ASSUME sent + 1 <= MaxId PROVE Matching!2'
      BY <1>1 DEF Matching
    <3>2. sent < MaxId /\ sent <= MaxId
      BY <1>3, <3>1, ClientAssumption
    <3>3. /\ ~mismatch /\ msgId # 1 /\ Upcoming <= sent + 2
          /\ \A e \in Event : OnWay(e) => e.id # 1 /\ e.id < Upcoming
          /\ \A e \in Event : OnWay(e) /\ e.id # 0 => pending[e.id] \in {0, e.re}
      BY <1>8, <2>1, <3>2 DEF Core, Matching
    <3>4. \A e \in Event : OnWay(e)' => OnWay(e)
      BY <1>1 DEF OnWay
    <3>5. ASSUME NEW e \in Event, OnWay(e)', e.id # 0
          PROVE  pending'[e.id] \in {0, e.re}
      <4>1. e.id \in Id /\ e.id \in Nat
        BY NumberTypes DEF Event
      <4>2. e.id # 1 /\ e.id < Upcoming /\ pending[e.id] \in {0, e.re}
        BY <3>3, <3>4, <3>5
      <4>3. e.id # n
        BY <1>0, <4>1, <4>2 DEF Upcoming, FirstFree
      <4>4. QED BY <1>5, <4>1, <4>2, <4>3
    <3>6. ASSUME sent + 1 < MaxId
          PROVE  /\ msgId' # 1 /\ Upcoming' = Upcoming /\ Upcoming' <= sent' + 1
      <4>1. msgId # 0 /\ Upcoming = msgId /\ n = msgId
        BY <1>0, <1>3, <3>3, <3>6, ClientAssumption DEF Upcoming, FirstFree
      <4>2. Upcoming' = Upcoming
        BY <1>1, <4>1 DEF Upcoming
      <4>3. QED BY <1>1, <1>3, <3>3, <4>1, <4>2
    <3>7. \A q \in Caller : caller'[q].pc = "write" => pending'[caller'[q].id] = caller'[q].re
      BY <1>4, <1>5
    <3>8. sent' < MaxId => sent + 1 < MaxId
      BY <1>1
    <3>9. Upcoming' <= sent' + 1 => Upcoming' <= sent' + 2
      BY <1>1, <1>2, <1>3, ClientAssumption DEF Upcoming
    <3>10. QED BY <1>1, <2>1, <3>3, <3>4, <3>5, <3>6, <3>7, <3>8, <3>9
  <2>4. QED BY <1>6, <1>7, <2>2, <2>3 DEF Core
<1>9. CASE ~(conn <= 1)
  BY <1>1, <1>6, <1>7, <1>9 DEF Core, Numbering, Matching
<1>10. QED BY <1>8, <1>9

(* A request is written.                                                   *)
LEMMA CoreSendWrite ==
  ASSUME Core, NEW p \in Caller, SendWrite(p)
  PROVE  Core'
<1>0. PICK n, r : n = caller[p].id /\ r = caller[p].re
  OBVIOUS
<1>1. /\ UNCHANGED <<conn, sent, mismatch, connected, inbox, eventChan, reader, answered, loop>>
      /\ caller[p].pc = "write" /\ caller' = [caller EXCEPT ![p] = [pc |-> "idle", id |-> 0, re |-> 0]]
  BY DEF SendWrite, channelVars
<1>2. n \in Id /\ r \in Request /\ 0 \in Request /\ 0 \in Id
  <2>1. caller[p] \in CallerState
    BY DEF Core, Types
  <2>2. n \in Id /\ r \in Request
    BY <1>0, <2>1 DEF CallerState
  <2>3. QED BY <2>2, NumberTypes, ClientAssumption DEF Request
<1>3. caller' \in [Caller -> CallerState] /\ \A q \in Caller : caller'[q].pc # "write"
  <2>1. [pc |-> "idle", id |-> 0, re |-> 0] \in CallerState
    BY <1>2 DEF CallerState
  <2>2. \A q \in Caller \ {p} : caller[q].pc # "write"
    BY <1>1 DEF Core, Dialled
  <2>3. QED BY <1>1, <2>1, <2>2 DEF Core, Types
<1>4. [id |-> n, re |-> r] \in Event
  BY <1>2 DEF Event
<1>5. asked' = asked \/ asked' = [asked EXCEPT ![conn] = Append(asked[conn], [id |-> n, re |-> r])]
  BY <1>0 DEF SendWrite
<1>6. asked' \in [Dial -> Seq(Event)] /\ \A d \in Dial : In(asked'[d]) \subseteq In(asked[d]) \cup {[id |-> n, re |-> r]}
  <2>1. \A d \in Dial : asked[d] \in Seq(Event)
    BY DEF Core, Types
  <2>2. \A d \in Dial : /\ Append(asked[d], [id |-> n, re |-> r]) \in Seq(Event)
                        /\ In(Append(asked[d], [id |-> n, re |-> r])) \subseteq In(asked[d]) \cup {[id |-> n, re |-> r]}
    BY <1>4, <2>1, InFacts
  <2>3. asked \in [Dial -> Seq(Event)]
    BY DEF Core, Types
  <2>4. CASE asked' = asked
    BY <2>3, <2>4
  <2>5. CASE asked' = [asked EXCEPT ![conn] = Append(asked[conn], [id |-> n, re |-> r])]
    <3>1. ASSUME NEW d \in Dial
          PROVE  asked'[d] \in {asked[d], Append(asked[d], [id |-> n, re |-> r])}
      BY <2>3, <2>5
    <3>2. asked' = [d \in Dial |-> asked'[d]]
      BY <2>3, <2>5
    <3>3. QED BY <2>1, <2>2, <3>1, <3>2
  <2>6. QED BY <1>5, <2>4, <2>5
<1>7. /\ \/ gap' = (gap \/ n # (lastId[conn] % MaxId) + 1) /\ lastId' = [lastId EXCEPT ![conn] = n]
            /\ msgId' = Increment(msgId) /\ pending' = pending
         \/ UNCHANGED <<gap, lastId, asked, msgId>> /\ pending' = [pending EXCEPT ![n] = 0]
  BY <1>0 DEF SendWrite
<1>8. Types'
  <2>0. msgId \in Id /\ lastId \in [Dial -> Id] /\ pending \in [Id -> Request]
    BY DEF Core, Types
  <2>1. msgId' \in Id /\ lastId' \in [Dial -> Id] /\ pending' \in [Id -> Request]
    <3>1. CASE lastId' = [lastId EXCEPT ![conn] = n] /\ msgId' = Increment(msgId) /\ pending' = pending
      <4>1. Increment(msgId) \in Id
        BY <2>0, NumberTypes
      <4>2. QED BY <1>2, <2>0, <3>1, <4>1
    <3>2. CASE UNCHANGED <<lastId, msgId>> /\ pending' = [pending EXCEPT ![n] = 0]
      BY <1>2, <2>0, <3>2
    <3>3. QED BY <1>7, <3>1, <3>2
  <2>2. QED BY <1>1, <1>3, <1>6, <2>1 DEF Core, Types
<1>9. Dialled'
  BY <1>1, <1>3 DEF Core, Dialled
<1>10. CASE conn <= 1
  <2>1. ~gap /\ lastId[1] # 0 /\ n = msgId /\ msgId # 0 /\ conn # 0 /\ loop # "hello"
        /\ FirstFree(msgId) = (lastId[1] % MaxId) + 1
    BY <1>0, <1>1, <1>10 DEF Core, Numbering
  <2>2. conn = 1 /\ n \in 1..MaxId
    BY <1>2, <1>10, <2>1, ClientAssumption DEF Core, Types, Id
  <2>3. n = (lastId[1] % MaxId) + 1
    BY <2>1 DEF FirstFree
  <2>4. \A e \in Event : OnWay(e)' => OnWay(e) \/ e = [id |-> n, re |-> r]
    BY <1>1, <1>6 DEF OnWay
  <2>5. CASE gap' = (gap \/ n # (lastId[conn] % MaxId) + 1) /\ lastId' = [lastId EXCEPT ![conn] = n]
             /\ msgId' = Increment(msgId) /\ pending' = pending
    <3>1. ~gap'
      BY <2>1, <2>2, <2>3, <2>5, Zenon
    <3>2. lastId'[1] = n /\ FirstFree(msgId') = (n % MaxId) + 1 /\ msgId' = IF n = MaxId THEN 0 ELSE n + 1
      BY <2>1, <2>2, <2>5, NextNumber, NumberTypes DEF Core, Types
    <3>3. Numbering'
      BY <1>1, <1>3, <2>1, <2>2, <3>1, <3>2 DEF Core, Numbering
    <3>4. Matching'
      <4>1. SUFFICES ASSUME sent <= MaxId PROVE Matching!2'
        BY <1>1 DEF Matching
      <4>2. ~mismatch /\ pending[n] = r /\ \A e \in Event : OnWay(e) /\ e.id # 0 => pending[e.id] \in {0, e.re}
        BY <1>0, <1>1, <1>10, <4>1 DEF Core, Matching
      <4>3. \A e \in Event : OnWay(e)' /\ e.id # 0 => pending[e.id] \in {0, e.re}
        BY <2>4, <4>2
      <4>4. ASSUME sent < MaxId
            PROVE  /\ msgId' # 1 /\ Upcoming' <= sent + 2
                   /\ \A e \in Event : OnWay(e)' => e.id # 1 /\ e.id < Upcoming'
        <5>1. /\ msgId # 1 /\ Upcoming <= sent + 1
              /\ \A e \in Event : OnWay(e) => e.id # 1 /\ e.id < Upcoming
          BY <1>1, <1>10, <2>1, <4>1, <4>4 DEF Core, Matching
        <5>2. Upcoming = n /\ Upcoming' = n + 1 /\ msgId' # 1 /\ n \in Nat /\ MaxId \in Nat
          BY <2>1, <2>2, <3>2, ClientAssumption DEF Upcoming
        <5>3. sent \in Nat
          BY ClientAssumption DEF Core, Types, Request
        <5>4. \A e \in Event : e.id \in Nat
          BY NumberTypes DEF Event
        <5>5. \A e \in Event : OnWay(e)' => e.id # 1 /\ e.id < Upcoming'
          BY <2>1, <2>4, <5>1, <5>2, <5>4
        <5>6. QED BY <5>1, <5>2, <5>3, <5>5
      <4>5. QED BY <1>1, <1>3, <2>1, <2>5, <3>2, <4>2, <4>3, <4>4
    <3>5. QED BY <1>8, <1>9, <3>3, <3>4 DEF Core
  <2>6. CASE UNCHANGED <<gap, lastId, asked, msgId>> /\ pending' = [pending EXCEPT ![n] = 0]
    <3>1. Numbering'
      BY <1>1, <1>3, <2>1, <2>6 DEF Core, Numbering
    <3>2. \A e \in Event : OnWay(e)' => OnWay(e)
      BY <1>1, <2>6 DEF OnWay
    <3>3. \A k \in Id : pending'[k] = pending[k] \/ pending'[k] = 0
      BY <2>6 DEF Core, Types
    <3>4. \A e \in Event : e.id \in Id
      BY DEF Event
    <3>5. Upcoming' = Upcoming
      BY <2>6 DEF Upcoming
    <3>6. Matching'
      <4>1. SUFFICES ASSUME sent <= MaxId PROVE Matching!2'
        BY <1>1 DEF Matching
      <4>2. /\ ~mismatch /\ \A e \in Event : OnWay(e) /\ e.id # 0 => lastId[1] # 0 /\ pending[e.id] \in {0, e.re}
            /\ lastId[1] # 0 /\ sent < MaxId =>
                  /\ msgId # 1
                  /\ Upcoming <= sent + 2
                  /\ \A e \in Event : OnWay(e) => e.id # 1 /\ e.id < Upcoming
        BY <1>10, <4>1 DEF Core, Matching
      <4>3. \A e \in Event : OnWay(e)' /\ e.id # 0 => lastId[1] # 0 /\ pending'[e.id] \in {0, e.re}
        BY <3>2, <3>3, <3>4, <4>2
      <4>4. QED BY <1>1, <1>3, <2>6, <3>2, <3>5, <4>2, <4>3
    <3>7. QED BY <1>8, <1>9, <3>1, <3>6 DEF Core
  <2>7. QED BY <1>7, <2>5, <2>6
<1>11. CASE ~(conn <= 1)
  BY <1>1, <1>8, <1>9, <1>11 DEF Core, Numbering, Matching
<1>12. QED BY <1>10, <1>11
-----------------------------------------------------------------------------
(* The steps that leave readers and endOfReadChannel alone.                *)
LEMMA ReadingKept ==
  ASSUME Reading, UNCHANGED <<endOfRead, reader, gaveUp, closer, connected>>,
         \/ loop' = loop
         \/ loop = "dial" /\ loop' \in {"hello", "failed", "retry", "ended"}
         \/ loop = "failed" /\ loop' = "dial"
         \/ loop = "retry" /\ loop' = LoopTop
         \/ loop = "hello" /\ loop' \in {"greeting", "closeDial"}
         \/ loop = "greeting" /\ loop' = "closeDial"
         \/ loop = "connect" /\ loop' \in {"next", "retry", "ended", IF Started THEN "next" ELSE "failed"}
         \/ loop \in {"next", "handle", "expire"} /\ loop' \in {"handle", "expire", "close", LoopTop}
  PROVE  Reading'
<1>1. \A c \in Dial : Active(c)' = Active(c)
  BY DEF Active
<1>2. Quiet' = Quiet /\ Started' = Started
  BY DEF Quiet, Active, Started
<1>3. CASE gaveUp \/ closer # "idle"
  BY <1>3 DEF Reading
<1>4. CASE ~(gaveUp \/ closer # "idle")
  <2>1. OneByOne
    BY <1>4 DEF Reading
  <2>2. LoopTop \in {"next", "dial"} /\ (LoopTop = "dial" => ~connected) /\ (LoopTop = "next" => connected)
    BY DEF LoopTop
  <2>3. OneByOne'
    BY <1>1, <1>2, <2>1, <2>2 DEF OneByOne
  <2>4. QED BY <2>3 DEF Reading
<1>5. QED BY <1>3, <1>4

(* The steps of Close and Terminate.                                       *)
LEMMA ReadingClose ==
  ASSUME Reading,
         DialClose \/ DialWait \/ LoopClose \/ LoopWait \/ TerminateCall \/ TerminateClose \/ TerminateWait
  PROVE  Reading'
<1>1. CASE TerminateCall \/ TerminateClose \/ TerminateWait
  <2>1. closer' # "idle"
    BY <1>1 DEF TerminateCall, TerminateClose, TerminateWait
  <2>2. QED BY <2>1 DEF Reading
<1>2. CASE DialClose \/ LoopClose
  <2>1. /\ UNCHANGED <<endOfRead, reader, closer, gaveUp>> /\ ~connected'
        /\ (loop = "closeDial" /\ loop' = "waitDial") \/ (loop = "close" /\ loop' = "wait")
    BY <1>2 DEF DialClose, LoopClose, CloseSocket, channelVars, historyVars
  <2>2. (\A c \in Dial : Active(c)' = Active(c)) /\ Quiet' = Quiet
    BY <2>1 DEF Quiet, Active
  <2>3. CASE gaveUp \/ closer # "idle"
    BY <2>1, <2>3 DEF Reading
  <2>4. CASE OneByOne
    <3>1. OneByOne'
      BY <2>1, <2>2, <2>4 DEF OneByOne
    <3>2. QED BY <3>1 DEF Reading
  <2>5. QED BY <2>3, <2>4 DEF Reading
<1>3. CASE DialWait \/ LoopWait
  <2>1. /\ UNCHANGED <<reader, closer, connected>> /\ ~endOfRead' /\ gaveUp' = (gaveUp \/ ~endOfRead)
    BY <1>3 DEF DialWait, LoopWait, CloseWait, sharedVars
  <2>2. gaveUp \/ ~endOfRead => gaveUp'
    BY <2>1, Zenon
  <2>3. CASE gaveUp \/ closer # "idle" \/ ~endOfRead
    BY <2>1, <2>2, <2>3 DEF Reading
  <2>4. CASE OneByOne /\ endOfRead
    <3>1. \A c \in Dial : ~Active(c)
      BY <2>4 DEF OneByOne
    <3>2. (\A c \in Dial : ~Active(c)') /\ Quiet'
      BY <2>1, <3>1 DEF Active, Quiet
    <3>3. loop # "waitDial"
      BY <2>4 DEF OneByOne, Quiet
    <3>4. loop = "wait" /\ loop' \in {"ended", "dial"}
      BY <1>3, <3>3 DEF DialWait, LoopWait
    <3>5. ~connected'
      BY <2>1, <2>4, <3>4 DEF OneByOne
    <3>6. OneByOne'
      BY <2>1, <3>2, <3>4, <3>5 DEF OneByOne
    <3>7. QED BY <3>6 DEF Reading
  <2>5. QED BY <2>3, <2>4 DEF Reading
<1>4. QED BY <1>1, <1>2, <1>3

(* The steps of readers.                                                   *)
LEMMA ReadingRead ==
  ASSUME Core, Reading, NEW c \in Dial, Read(c)
  PROVE  Reading'
<1>0. reader \in [Dial -> ReaderState]
  BY DEF Core, Types
<1>1. UNCHANGED <<gaveUp, closer, connected, loop>>
  BY DEF Read, ReadFrom, ReadEvent, ReadError, ReadPut, ReadEnd, sharedVars, historyVars
<1>2. CASE gaveUp \/ closer # "idle"
  BY <1>1, <1>2 DEF Reading
<1>3. CASE OneByOne
  <2>1. Active(c)
    BY DEF Read, ReadFrom, ReadEvent, ReadError, ReadPut, ReadEnd, Active
  <2>2. ~endOfRead /\ ~Quiet /\ \A d \in Dial \ {c} : ~Active(d)
    BY <1>3, <2>1 DEF OneByOne, Quiet
  <2>3. PICK r : reader' = [reader EXCEPT ![c] = r] /\ r.pc # "none" /\ (endOfRead' => r.pc = "done")
    <3>1. CASE ReadFrom(c)
      <4>1. reader' = [reader EXCEPT ![c] = [reader[c] EXCEPT !.pc = "read", !.on = conn]] /\ endOfRead' = endOfRead
        BY <1>0, <3>1 DEF ReadFrom, channelVars
      <4>2. [reader[c] EXCEPT !.pc = "read", !.on = conn].pc = "read"
        BY <1>0 DEF ReaderState
      <4>3. QED BY <2>2, <4>1, <4>2
    <3>2. CASE ReadEvent(c)
      <4>0. PICK e : e = Head(inbox[reader[c].on])
        OBVIOUS
      <4>1. reader' = [reader EXCEPT ![c] = [reader[c] EXCEPT !.pc = "put", !.event = e]] /\ endOfRead' = endOfRead
        BY <1>0, <3>2, <4>0 DEF ReadEvent, channelVars
      <4>2. [reader[c] EXCEPT !.pc = "put", !.event = e].pc = "put"
        BY <1>0 DEF ReaderState
      <4>3. QED BY <2>2, <4>1, <4>2
    <3>3. CASE ReadError(c) \/ ReadEnd(c)
      <4>1. PICK p \in {"end", "done"} : reader' = [reader EXCEPT ![c].pc = p] /\ (p = "end" => endOfRead' = endOfRead)
        BY <3>3 DEF ReadError, ReadEnd, channelVars
      <4>2. reader' = [reader EXCEPT ![c] = [reader[c] EXCEPT !.pc = p]] /\ [reader[c] EXCEPT !.pc = p].pc = p
        BY <1>0, <4>1 DEF ReaderState
      <4>3. p # "none" /\ (endOfRead' => p = "done")
        BY <2>2, <4>1
      <4>4. QED BY <4>2, <4>3
    <3>4. CASE ReadPut(c)
      <4>1. reader' = [reader EXCEPT ![c] = [reader[c] EXCEPT !.pc = "top", !.event = NoEvent]] /\ endOfRead' = endOfRead
        BY <1>0, <3>4 DEF ReadPut
      <4>2. [reader[c] EXCEPT !.pc = "top", !.event = NoEvent].pc = "top"
        BY <1>0 DEF ReaderState
      <4>3. QED BY <2>2, <4>1, <4>2
    <3>5. QED BY <3>1, <3>2, <3>3, <3>4 DEF Read
  <2>4. reader'[c] = r /\ \A d \in Dial \ {c} : reader'[d] = reader[d]
    BY <1>0, <2>3
  <2>5. (\A d \in Dial \ {c} : ~Active(d)') /\ (endOfRead' => ~Active(c)')
    BY <2>2, <2>3, <2>4 DEF Active
  <2>6. Started'
    BY <2>3, <2>4 DEF Started
  <2>7. loop' \notin {"dial", "hello", "greeting", "closeDial", "waitDial", "failed"} /\ ~(loop' = "retry" /\ ~connected')
    BY <1>1, <1>3, <2>2 DEF OneByOne
  <2>8. OneByOne'
    BY <1>1, <1>3, <2>5, <2>6, <2>7 DEF OneByOne
  <2>9. QED BY <2>8 DEF Reading
<1>4. QED BY <1>2, <1>3 DEF Reading

(* A reader ends at something that is no event.                            *)
LEMMA ReadingGarbage ==
  ASSUME Core, Reading, NEW c \in Dial, ServerGarbage(c)
  PROVE  Reading'
<1>1. /\ UNCHANGED <<gaveUp, closer, connected, loop, endOfRead>> /\ Active(c)
      /\ reader' = [reader EXCEPT ![c].pc = "end"]
  BY DEF ServerGarbage, Active, sharedVars, channelVars, historyVars
<1>2. reader'[c].pc = "end" /\ \A d \in Dial \ {c} : reader'[d] = reader[d]
  BY <1>1 DEF Core, Types, ReaderState
<1>3. CASE gaveUp \/ closer # "idle"
  BY <1>1, <1>3 DEF Reading
<1>4. CASE OneByOne
  <2>1. ~endOfRead /\ ~Quiet /\ \A d \in Dial \ {c} : ~Active(d)
    BY <1>1, <1>4 DEF OneByOne, Quiet
  <2>2. ~endOfRead' /\ \A d \in Dial \ {c} : ~Active(d)'
    BY <1>1, <1>2, <2>1 DEF Active
  <2>3. Started'
    BY <1>2 DEF Started
  <2>4. loop' \notin {"dial", "hello", "greeting", "closeDial", "waitDial", "failed"} /\ ~(loop' = "retry" /\ ~connected')
    BY <1>1, <1>4, <2>1 DEF OneByOne
  <2>5. OneByOne'
    BY <1>1, <1>4, <2>2, <2>3, <2>4 DEF OneByOne
  <2>6. QED BY <2>5 DEF Reading
<1>5. QED BY <1>3, <1>4 DEF Reading

(* A reader starts.                                                        *)
LEMMA ReadingGreeting ==
  ASSUME Core, Reading, DialGreeting
  PROVE  Reading'
<1>0. reader \in [Dial -> ReaderState] /\ loop = "greeting" /\ UNCHANGED <<endOfRead, gaveUp, closer>> /\ conn \in Dial
  BY StartedFacts DEF Core, Types, DialGreeting, channelVars, historyVars
<1>1. CASE loop' = "closeDial" /\ UNCHANGED <<connected, reader>>
  BY <1>0, <1>1, ReadingKept
<1>2. CASE connected' /\ reader' = [reader EXCEPT ![conn].pc = "top"] /\ loop' = IF Started THEN "connect" ELSE "next"
  <2>1. reader' = [reader EXCEPT ![conn] = [reader[conn] EXCEPT !.pc = "top"]] /\ [reader[conn] EXCEPT !.pc = "top"].pc = "top"
    BY <1>0, <1>2 DEF ReaderState
  <2>2. reader'[conn].pc = "top" /\ \A d \in Dial \ {conn} : reader'[d] = reader[d]
    BY <1>0, <2>1
  <2>3. CASE gaveUp \/ closer # "idle"
    BY <1>0, <2>3 DEF Reading
  <2>4. CASE OneByOne
    <3>1. Quiet
      BY <1>0, <2>4 DEF OneByOne
    <3>2. ~endOfRead' /\ \A d \in Dial \ {conn} : ~Active(d)'
      BY <1>0, <2>2, <3>1 DEF Quiet, Active
    <3>3. Started'
      BY <1>0, <2>2 DEF Started
    <3>4. OneByOne'
      BY <1>0, <1>2, <3>2, <3>3 DEF OneByOne
    <3>5. QED BY <3>4 DEF Reading
  <2>5. QED BY <2>3, <2>4 DEF Reading
<1>3. QED BY <1>1, <1>2 DEF DialGreeting
-----------------------------------------------------------------------------
(* The invariant is inductive.                                             *)
LEMMA InvInit ==
  ASSUME Init
  PROVE  Inv
<1>1. Types
  <2>0. MaxDials \in Nat \ {0} /\ MaxId \in Nat \ {0} /\ MaxSent \in Nat
    BY ClientAssumption
  <2>1. conn = 0 /\ msgId = 1 /\ sent = 0 /\ eventChan = <<>> /\ answered = NoEvent
    BY DEF Init
  <2>2. asked \in [Dial -> Seq(Event)] /\ inbox \in [Dial -> Seq(Event)]
    BY DEF Init
  <2>3. pending \in [Id -> Request] /\ lastId \in [Dial -> Id]
    BY <2>0, NumberTypes DEF Init, Request
  <2>4. reader \in [Dial -> ReaderState]
    <3>1. [pc |-> "none", on |-> 0, event |-> NoEvent] \in ReaderState
      BY <2>0, NoEventType DEF ReaderState
    <3>2. QED BY <3>1 DEF Init
  <2>5. caller \in [Caller -> CallerState]
    <3>1. [pc |-> "idle", id |-> 0, re |-> 0] \in CallerState
      BY <2>0, NumberTypes DEF CallerState, Request
    <3>2. QED BY <3>1 DEF Init
  <2>6. QED BY <2>0, <2>1, <2>2, <2>3, <2>4, <2>5, NumberTypes, NoEventType DEF Types, Request
<1>2. /\ conn = 0 /\ loop = "dial" /\ msgId = 1 /\ lastId[1] = 0 /\ eventChan = <<>> /\ answered = NoEvent
      /\ \A c \in Dial : reader[c].pc = "none" /\ reader[c].event = NoEvent /\ asked[c] = <<>> /\ inbox[c] = <<>>
      /\ \A p \in Caller : caller[p].pc = "idle"
  BY NumberTypes DEF Init
<1>3. ~connected /\ ~endOfRead /\ ~gap /\ ~mismatch
  BY DEF Init
<1>4. Dialled
  BY <1>2, ClientAssumption DEF Dialled
<1>5. Numbering
  BY <1>2, <1>3 DEF Numbering
<1>6. Matching
  <2>1. ASSUME NEW e \in Event, OnWay(e)
        PROVE  e = NoEvent
    BY <1>2, <2>1 DEF OnWay, In
  <2>2. QED BY <1>2, <1>3, <2>1, NoEventType DEF Matching
<1>7. Reading
  BY <1>2, <1>3 DEF Reading, OneByOne, Active, Quiet
<1>8. QED BY <1>1, <1>4, <1>5, <1>6, <1>7 DEF Inv, Core

(* Every step keeps it.                                                    *)
LEMMA InvStep ==
  ASSUME Inv, [Next]_vars
  PROVE  Inv'
<1>0. Core /\ Reading
  BY DEF Inv
<1>1. CASE DialOpen
  <2>1. UNCHANGED <<endOfRead, reader, gaveUp, closer, connected>> /\ loop = "dial" /\ loop' \in {"hello", "failed", "retry", "ended"}
    BY <1>1 DEF DialOpen, DialError, channelVars, historyVars
  <2>2. QED BY <1>0, <1>1, <2>1, CoreDialOpen, ReadingKept DEF Inv
<1>2. CASE ConnectAgain \/ Retry \/ DialConnect
  <2>1. UNCHANGED <<endOfRead, reader, gaveUp, closer, connected>>
    BY <1>2 DEF ConnectAgain, Retry, DialConnect, sharedVars, channelVars, historyVars
  <2>2. \/ loop = "failed" /\ loop' = "dial"
        \/ loop = "retry" /\ loop' = LoopTop
        \/ loop = "connect" /\ loop' \in {"next", "retry", "ended", IF Started THEN "next" ELSE "failed"}
    BY <1>2 DEF ConnectAgain, Retry, DialConnect, DialError
  <2>3. QED BY <1>0, <1>2, <2>1, <2>2, CoreLoop, ReadingKept DEF Inv
<1>3. CASE DialHello
  <2>1. UNCHANGED <<endOfRead, reader, gaveUp, closer, connected>> /\ loop = "hello" /\ loop' \in {"greeting", "closeDial"}
    BY <1>3 DEF DialHello, channelVars
  <2>2. QED BY <1>0, <1>3, <2>1, CoreDialHello, ReadingKept DEF Inv
<1>4. CASE DialGreeting
  BY <1>0, <1>4, CoreLoop, ReadingGreeting DEF Inv
<1>5. CASE DialClose \/ DialWait \/ LoopClose \/ LoopWait \/ TerminateCall \/ Terminate
  BY <1>0, <1>5, CoreLoop, ReadingClose DEF Inv, Terminate
<1>6. CASE NextEvent \/ HandleEvent \/ HandleUnexpected \/ HandleAnswer \/ HandleExpired
  <2>1. UNCHANGED <<endOfRead, reader, gaveUp, closer, connected>>
    BY <1>6 DEF NextEvent, HandleEvent, HandleUnexpected, HandleAnswer, HandleExpired, sharedVars, channelVars, historyVars
  <2>2. loop \in {"next", "handle", "expire"} /\ loop' \in {"handle", "expire", "close", LoopTop}
    BY <1>6 DEF NextEvent, HandleEvent, HandleUnexpected, HandleAnswer, HandleExpired
  <2>3. Reading'
    BY <1>0, <2>1, <2>2, ReadingKept
  <2>4. Core'
    BY <1>0, <1>6, CoreEvents, CoreForget
  <2>5. QED BY <2>3, <2>4 DEF Inv
<1>7. ASSUME NEW p \in Caller, SendAsync(p) \/ SendWrite(p)
      PROVE  Inv'
  <2>1. UNCHANGED <<endOfRead, reader, gaveUp, closer, connected, loop>>
    BY <1>7 DEF SendAsync, SendWrite, channelVars
  <2>2. QED BY <1>0, <1>7, <2>1, CoreSendAsync, CoreSendWrite, ReadingKept DEF Inv
<1>8. ASSUME NEW c \in Dial, Read(c) \/ Server(c)
      PROVE  Inv'
  <2>1. Core'
    BY <1>0, <1>8, CoreEvents
  <2>2. CASE Read(c)
    BY <1>0, <2>1, <2>2, ReadingRead DEF Inv
  <2>3. CASE ServerAnswer(c) \/ ServerEvent(c) \/ ConnectionLost(c)
    <3>1. UNCHANGED <<endOfRead, reader, gaveUp, closer, connected, loop>>
      BY <2>3 DEF ServerAnswer, ServerEvent, ConnectionLost, sharedVars, channelVars, historyVars
    <3>2. QED BY <1>0, <2>1, <3>1, ReadingKept DEF Inv
  <2>4. CASE ServerGarbage(c)
    BY <1>0, <2>1, <2>4, ReadingGarbage DEF Inv
  <2>5. QED BY <1>8, <2>2, <2>3, <2>4 DEF Server
<1>9. CASE UNCHANGED vars
  <2>1. Reading'
    BY <1>0, <1>9, ReadingKept DEF vars, sharedVars, channelVars, historyVars
  <2>2. UNCHANGED <<conn, msgId, lastId, sent, gap, mismatch, caller, mutex, pending, connected, loop, asked, inbox, eventChan, answered, reader>>
    BY <1>9 DEF vars, sharedVars, channelVars, historyVars, serverVars
  <2>3. Core'
    BY <1>0, <2>2, StartedFacts, SteadyLoop DEF Core, Types
  <2>4. QED BY <2>1, <2>3 DEF Inv
<1>10. QED BY <1>1, <1>2, <1>3, <1>4, <1>5, <1>6, <1>7, <1>8, <1>9 DEF Next, DialStep, ProcessStep

(* The invariant holds.                                                    *)
LEMMA InvCorrect == Spec => []Inv
<1>1. Init => Inv
  BY InvInit
<1>2. Inv /\ [Next]_vars => Inv'
  BY InvStep
<1>3. QED BY <1>1, <1>2, PTL DEF Spec

(* The numbers on the first connection follow each other, whoever sends    *)
(* and whatever writes fail.                                               *)
THEOREM NumbersConsecutiveCorrect == Spec => []NumbersConsecutive
<1>1. Inv => NumbersConsecutive
  BY DEF Inv, Core, Types, Numbering, NumbersConsecutive
<1>2. QED BY <1>1, InvCorrect, PTL

(* Every request of the first connection is completed by its own answer,   *)
(* until the numbers come round.                                           *)
THEOREM AnswerMatchesCorrect == Spec => []AnswerMatches
<1>1. Inv => AnswerMatches
  <2>1. ASSUME Inv, mismatch PROVE conn > 1 \/ sent > MaxId
    <3>1. conn \in Nat /\ sent \in Nat /\ MaxId \in Nat
      BY <2>1, ClientAssumption DEF Inv, Core, Types, Request
    <3>2. ~(conn <= 1 /\ sent <= MaxId)
      BY <2>1 DEF Inv, Core, Matching
    <3>3. QED BY <3>1, <3>2
  <2>2. QED BY <2>1 DEF AnswerMatches
<1>2. QED BY <1>1, InvCorrect, PTL

(* Two readers never take events at the same time, unless a Close did not  *)
(* get the end of a reader or the application has called Terminate.        *)
THEOREM OneReaderCorrect == Spec => []OneReader
<1>1. Inv => OneReader
  <2>1. SUFFICES ASSUME Inv, ~(gaveUp \/ closer # "idle")
                 PROVE  ~(Cardinality({c \in Dial : reader[c].pc \in {"top", "read", "put"}}) > 1)
    BY DEF OneReader
  <2>2. PICK S : S = {c \in Dial : reader[c].pc \in {"top", "read", "put"}}
    OBVIOUS
  <2>3. \A c, d \in S : c = d
    BY <2>1, <2>2 DEF Inv, Reading, OneByOne, Active
  <2>4. S = {} \/ \E x : S = {x}
    BY <2>3
  <2>5. Cardinality(S) \in {0, 1}
    BY <2>4, FS_EmptySet, FS_Singleton
  <2>6. QED BY <2>2, <2>5
<1>2. QED BY <1>1, InvCorrect, PTL
=============================================================================
