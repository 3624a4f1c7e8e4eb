----------------------------- MODULE EventClient -----------------------------
(***************************************************************************)
(* The client side of the event protocol (socket/client.go): EventConn     *)
(* with the goroutines that share it:                                      *)
(*   - loop: Connect and then processEventLoop, which dials, takes events  *)
(*     from eventChannel, completes pending requests, closes and redials;  *)
(*   - a reader per successful dial (readEventLoop), which reads from the  *)
(*     connection the EventConn has at the time and fills eventChannel;    *)
(*   - callers of SendAsync, which number a request, note it as pending    *)
(*     and write it, under the mutex;                                      *)
(*   - the application's call of Terminate, from another goroutine.        *)
(* dial and Close do not take the mutex.  The server is external: it       *)
(* answers requests in order, if at all, sends events and what is no       *)
(* event, and may drop the connection.                                     *)
(***************************************************************************)
EXTENDS Naturals, Sequences, FiniteSets

CONSTANTS
  Caller,      (* goroutines that send requests                             *)
  Nobody,
  Redial,      (* EnableAutoRedial was called                               *)
  MayTerminate, (* the application calls Terminate                          *)
  ChannelSize, (* capacity of eventChannel: 32 in the code                  *)
  MaxId,       (* highest message number: 65535 in the code                 *)
  MaxDials,    (* bound on the connections                                  *)
  MaxSent,     (* bound on the requests                                     *)
  MaxEvents    (* bound on the events of the server                         *)

ASSUME ClientAssumption ==
  /\ Nobody \notin Caller
  /\ {Redial, MayTerminate} \subseteq BOOLEAN
  /\ {ChannelSize, MaxId, MaxDials} \subseteq Nat \ {0}
  /\ {MaxSent, MaxEvents} \subseteq Nat

VARIABLES
  conn,        (* the number of the current connection, 0 before any        *)
  socket,      (* the state of each connection                              *)
  asked,       (* requests on their way to the server, on each connection   *)
  inbox,       (* what the server has sent on each connection               *)
  connected,   (* Connected                                                 *)
  autoRedial,  (* AutoRedial                                                *)
  msgId,       (* MsgId                                                     *)
  pending,     (* pendingRequests: number -> request, 0 if absent           *)
  mutex,       (* who holds Mutex                                           *)
  eventChan,   (* eventChannel                                              *)
  endOfRead,   (* is there a value in endOfReadChannel, of capacity 1?      *)
  reader,      (* the reader each connection started                        *)
  loop,        (* where loop is                                             *)
  answered,    (* the event loop is working on                              *)
  caller,      (* each caller, with the number and request it sends         *)
  closer,      (* the goroutine that calls Terminate                        *)
  lastId,      (* history: last number written on each connection           *)
  sent,        (* number of requests so far                                 *)
  events,      (* number of events so far                                   *)
  gap,         (* history: a number that does not follow the last was sent  *)
  mismatch,    (* history: a request was completed by another one's answer  *)
  gaveUp       (* history: a Close did not wait for the end of a reader     *)

sharedVars == <<conn, connected, autoRedial, msgId, pending, mutex>>
channelVars == <<eventChan, endOfRead>>
serverVars == <<socket, asked, inbox, events>>
historyVars == <<lastId, sent, gap, mismatch, gaveUp>>
vars == <<sharedVars, channelVars, serverVars, historyVars, reader, loop,
          answered, caller, closer>>

Dial == 1..MaxDials
Id == 0..MaxId
Request == 0..MaxSent

(* An event; re is the request it answers, and id 0 an event without one.  *)
Event == [id : Id, re : Request]
NoEvent == [id |-> 0, re |-> 0]

TypeOK ==
  /\ conn \in 0..MaxDials
  /\ socket \in [Dial -> {"none", "open", "closed", "lost"}]
  /\ {asked, inbox} \subseteq [Dial -> Seq(Event)]
  /\ {connected, autoRedial, endOfRead, gap, mismatch, gaveUp} \subseteq BOOLEAN
  /\ msgId \in Id
  /\ pending \in [Id -> Request]
  /\ mutex \in Caller \cup {Nobody}
  /\ eventChan \in Seq(Event) /\ Len(eventChan) <= ChannelSize
  /\ reader \in [Dial -> [pc : {"none", "top", "read", "put", "end", "done"},
                          on : 0..MaxDials, event : Event]]
  /\ loop \in {"dial", "hello", "greeting", "connect", "closeDial", "waitDial", "failed", "retry",
               "next", "handle", "expire", "close", "wait", "ended"}
  /\ answered \in Event
  /\ caller \in [Caller -> [pc : {"idle", "write"}, id : Id, re : Request]]
  /\ closer \in {"idle", "close", "wait", "done"}
  /\ lastId \in [Dial -> Id]
  /\ sent \in Request
  /\ events \in 0..MaxEvents

Init ==
  /\ conn = 0
  /\ socket = [c \in Dial |-> "none"]
  /\ asked = [c \in Dial |-> <<>>]
  /\ inbox = [c \in Dial |-> <<>>]
  /\ connected = FALSE
  /\ autoRedial = Redial
  /\ msgId = 1
  /\ pending = [n \in Id |-> 0]
  /\ mutex = Nobody
  /\ eventChan = <<>>
  /\ endOfRead = FALSE
  /\ reader = [c \in Dial |-> [pc |-> "none", on |-> 0, event |-> NoEvent]]
  /\ loop = "dial"
  /\ answered = NoEvent
  /\ caller = [p \in Caller |-> [pc |-> "idle", id |-> 0, re |-> 0]]
  /\ closer = "idle"
  /\ lastId = [c \in Dial |-> 0]
  /\ sent = 0
  /\ events = 0
  /\ gap = FALSE
  /\ mismatch = FALSE
  /\ gaveUp = FALSE

(* MsgId++ on a uint16.                                                    *)
Increment(k) == (k + 1) % (MaxId + 1)

(* dialCount > 0, by which processEventLoop runs.                          *)
Started == \E c \in Dial : reader[c].pc # "none"

(* Where processEventLoop goes from the top of its loop.                   *)
LoopTop == IF connected THEN "next" ELSE "dial"
-----------------------------------------------------------------------------
(* dial, called by Connect and by processEventLoop.                        *)

(* What follows an error of dial: Connect returns it, and may be called    *)
(* again; processEventLoop ends without AutoRedial and else sleeps.        *)
DialError ==
  loop' = IF ~Started THEN "failed" ELSE IF autoRedial THEN "retry" ELSE "ended"

DialOpen ==
  /\ loop = "dial"
  /\ \/ /\ conn < MaxDials
        /\ conn' = conn + 1
        /\ socket' = [socket EXCEPT ![conn + 1] = "open"]
        /\ msgId' = 1
        /\ loop' = "hello"
     \/ /\ DialError
        /\ UNCHANGED <<conn, socket, msgId>>
  /\ UNCHANGED <<connected, autoRedial, pending, mutex, channelVars, asked, inbox, events,
                 historyVars, reader, answered, caller, closer>>

ConnectAgain ==
  /\ loop = "failed"
  /\ loop' = "dial"
  /\ UNCHANGED <<sharedVars, channelVars, serverVars, historyVars, reader, answered,
                 caller, closer>>

(* The sleep after an error of dial is over.                               *)
Retry ==
  /\ loop = "retry"
  /\ loop' = LoopTop
  /\ UNCHANGED <<sharedVars, channelVars, serverVars, historyVars, reader, answered,
                 caller, closer>>

(* The client-hello-event is written.                                      *)
DialHello ==
  /\ loop = "hello"
  /\ \/ /\ socket[conn] # "closed"
        /\ msgId' = Increment(msgId)
        /\ lastId' = [lastId EXCEPT ![conn] = 1]
        /\ loop' = "greeting"
     \/ /\ socket[conn] # "open"
        /\ loop' = "closeDial"
        /\ UNCHANGED <<msgId, lastId>>
  /\ UNCHANGED <<conn, connected, autoRedial, pending, mutex, channelVars, serverVars,
                 sent, gap, mismatch, gaveUp, reader, answered, caller, closer>>

(* The server-hello-event is read, and the reader starts, or what is read  *)
(* is not that.                                                            *)
DialGreeting ==
  /\ loop = "greeting"
  /\ \/ /\ socket[conn] = "open"
        /\ connected' = TRUE
        /\ reader' = [reader EXCEPT ![conn].pc = "top"]
        /\ loop' = IF Started THEN "connect" ELSE "next"
     \/ /\ loop' = "closeDial"
        /\ UNCHANGED <<connected, reader>>
  /\ UNCHANGED <<conn, autoRedial, msgId, pending, mutex, channelVars, serverVars,
                 historyVars, answered, caller, closer>>

(* processConnect, whose error does not close the connection.              *)
DialConnect ==
  /\ loop = "connect"
  /\ loop' = "next" \/ DialError
  /\ UNCHANGED <<sharedVars, channelVars, serverVars, historyVars, reader, answered,
                 caller, closer>>
-----------------------------------------------------------------------------
(* Close: the connection is closed, then the end of a reader is awaited,   *)
(* for five seconds at most.                                               *)

CloseSocket ==
  /\ connected' = FALSE
  /\ socket' = [socket EXCEPT ![conn] = "closed"]
  /\ UNCHANGED <<conn, autoRedial, msgId, pending, mutex, channelVars, asked, inbox, events,
                 historyVars, reader, answered, caller>>

(* Five seconds are enough for any reader that can reach its end.          *)
Stalled ==
  \A c \in Dial :
    \/ reader[c].pc \in {"none", "done"}
    \/ reader[c].pc = "put" /\ Len(eventChan) = ChannelSize
    \/ reader[c].pc = "read" /\ socket[reader[c].on] = "open" /\ inbox[reader[c].on] = <<>>

(* Mutant: Close does not wait.                                            *)
CloseWait_NoWait ==
  /\ endOfRead' = FALSE
  /\ UNCHANGED <<sharedVars, eventChan, serverVars, historyVars, reader, answered, caller>>

CloseWait ==
  /\ endOfRead \/ Stalled
  /\ gaveUp' = (gaveUp \/ ~endOfRead)
  /\ endOfRead' = FALSE
  /\ UNCHANGED <<sharedVars, eventChan, serverVars, lastId, sent, gap, mismatch, reader,
                 answered, caller>>

DialClose ==
  /\ loop = "closeDial"
  /\ CloseSocket
  /\ loop' = "waitDial"
  /\ UNCHANGED closer

DialWait ==
  /\ loop = "waitDial"
  /\ CloseWait
  /\ DialError
  /\ UNCHANGED closer

LoopClose ==
  /\ loop = "close"
  /\ CloseSocket
  /\ loop' = "wait"
  /\ UNCHANGED closer

(* The error was Terminate, or it was another one and is a reason to dial. *)
LoopWait ==
  /\ loop = "wait"
  /\ CloseWait
  /\ loop' = "ended" \/ (autoRedial /\ loop' = "dial")
  /\ UNCHANGED closer

(* Terminate: AutoRedial is cleared before Close.                          *)
TerminateCall ==
  /\ closer = "idle"
  /\ MayTerminate
  /\ Started
  /\ closer' = "close"
  /\ autoRedial' = FALSE
  /\ UNCHANGED <<conn, connected, msgId, pending, mutex, channelVars, serverVars,
                 historyVars, reader, loop, answered, caller>>

TerminateClose ==
  /\ closer = "close"
  /\ CloseSocket
  /\ closer' = "wait"
  /\ UNCHANGED loop

TerminateWait ==
  /\ closer = "wait"
  /\ CloseWait
  /\ closer' = "done"
  /\ UNCHANGED loop
-----------------------------------------------------------------------------
(* processNextEvent                                                        *)

NextEvent ==
  /\ loop = "next"
  /\ eventChan # <<>>
  /\ answered' = Head(eventChan)
  /\ eventChan' = Tail(eventChan)
  /\ loop' = "handle"
  /\ UNCHANGED <<sharedVars, endOfRead, serverVars, historyVars, reader, caller, closer>>

(* An event without a number goes to its callback, which may fail.         *)
HandleEvent ==
  /\ loop = "handle"
  /\ answered.id = 0
  /\ loop' \in {LoopTop, "close"}
  /\ answered' = NoEvent
  /\ UNCHANGED <<sharedVars, channelVars, serverVars, historyVars, reader, caller, closer>>

HandleUnexpected ==
  /\ loop = "handle"
  /\ answered.id # 0
  /\ mutex = Nobody
  /\ pending[answered.id] = 0
  /\ loop' = "close"
  /\ answered' = NoEvent
  /\ UNCHANGED <<sharedVars, channelVars, serverVars, historyVars, reader, caller, closer>>

(* Mutant: the request stays in the table.                                 *)
HandleAnswer_Keep ==
  /\ loop = "handle"
  /\ answered.id # 0
  /\ mutex = Nobody
  /\ pending[answered.id] # 0
  /\ mismatch' = (mismatch \/ pending[answered.id] # answered.re)
  /\ loop' \in {"expire", "close"}
  /\ answered' = NoEvent
  /\ UNCHANGED <<conn, connected, autoRedial, msgId, mutex, channelVars, serverVars,
                 lastId, sent, gap, gaveUp, pending, reader, caller, closer>>

(* The request leaves the table and its callback is called.                *)
HandleAnswer ==
  /\ loop = "handle"
  /\ answered.id # 0
  /\ mutex = Nobody
  /\ pending[answered.id] # 0
  /\ mismatch' = (mismatch \/ pending[answered.id] # answered.re)
  /\ pending' = [pending EXCEPT ![answered.id] = 0]
  /\ loop' \in {"expire", "close"}
  /\ answered' = NoEvent
  /\ UNCHANGED <<conn, connected, autoRedial, msgId, mutex, channelVars, serverVars,
                 lastId, sent, gap, gaveUp, reader, caller, closer>>

(* One of the pending requests may be older than three seconds; it is      *)
(* dropped, and the callback that may then fail is that of the request     *)
(* answered before.                                                        *)
HandleExpired ==
  /\ loop = "expire"
  /\ mutex = Nobody
  /\ \/ /\ loop' = LoopTop
        /\ UNCHANGED pending
     \/ \E n \in Id :
          /\ pending[n] # 0
          /\ pending' = [pending EXCEPT ![n] = 0]
          /\ loop' \in {LoopTop, "close"}
  /\ UNCHANGED <<conn, connected, autoRedial, msgId, mutex, channelVars, serverVars,
                 historyVars, reader, answered, caller, closer>>
-----------------------------------------------------------------------------
(* SendAsync                                                               *)

(* Mutant: the number is taken and noted without the mutex.                *)
SendAsync_NoLock(p) ==
  /\ caller[p].pc = "idle"
  /\ sent < MaxSent
  /\ sent' = sent + 1
  /\ connected
  /\ LET n == IF msgId = 0 THEN 1 ELSE msgId IN
     /\ msgId' = n
     /\ pending' = [pending EXCEPT ![n] = sent + 1]
     /\ caller' = [caller EXCEPT ![p] = [pc |-> "write", id |-> n, re |-> sent + 1]]
  /\ UNCHANGED <<conn, connected, autoRedial, mutex, channelVars, serverVars, lastId, gap,
                 mismatch, gaveUp, reader, loop, answered, closer>>

(* Mutant: a number that has wrapped to 0 is used.                         *)
FirstFree_Zero(k) == k

(* Number 0 is not for requests.                                           *)
FirstFree(k) == IF k = 0 THEN 1 ELSE k

(* The request gets the next number and is noted as pending.               *)
SendAsync(p) ==
  /\ caller[p].pc = "idle"
  /\ mutex = Nobody
  /\ sent < MaxSent
  /\ sent' = sent + 1
  /\ connected
  /\ LET n == FirstFree(msgId) IN
     /\ msgId' = n
     /\ pending' = [pending EXCEPT ![n] = sent + 1]
     /\ caller' = [caller EXCEPT ![p] = [pc |-> "write", id |-> n, re |-> sent + 1]]
  /\ mutex' = p
  /\ UNCHANGED <<conn, connected, autoRedial, channelVars, serverVars, lastId, gap,
                 mismatch, gaveUp, reader, loop, answered, closer>>

(* The request is written to the connection the EventConn has now, or this *)
(* fails and it is forgotten.                                              *)
SendWrite(p) ==
  /\ caller[p].pc = "write"
  /\ \/ /\ socket[conn] # "closed"
        /\ gap' = (gap \/ caller[p].id # (lastId[conn] % MaxId) + 1)
        /\ lastId' = [lastId EXCEPT ![conn] = caller[p].id]
        /\ asked' = IF socket[conn] = "open"
                    THEN [asked EXCEPT ![conn] =
                            Append(@, [id |-> caller[p].id, re |-> caller[p].re])]
                    ELSE asked
        /\ msgId' = Increment(msgId)
        /\ UNCHANGED pending
     \/ /\ socket[conn] # "open"
        /\ pending' = [pending EXCEPT ![caller[p].id] = 0]
        /\ UNCHANGED <<gap, lastId, asked, msgId>>
  /\ caller' = [caller EXCEPT ![p] = [pc |-> "idle", id |-> 0, re |-> 0]]
  /\ mutex' = Nobody
  /\ UNCHANGED <<conn, connected, autoRedial, channelVars, socket, inbox, events, sent,
                 mismatch, gaveUp, reader, loop, answered, closer>>
-----------------------------------------------------------------------------
(* readEventLoop                                                           *)

(* DecodeEvent(conn.Conn): the connection is looked up for each event.     *)
ReadFrom(c) ==
  /\ reader[c].pc = "top"
  /\ reader' = [reader EXCEPT ![c].pc = "read", ![c].on = conn]
  /\ UNCHANGED <<sharedVars, channelVars, serverVars, historyVars, loop, answered, caller, closer>>

ReadEvent(c) ==
  LET on == reader[c].on IN
  /\ reader[c].pc = "read"
  /\ socket[on] # "closed"
  /\ inbox[on] # <<>>
  /\ inbox' = [inbox EXCEPT ![on] = Tail(@)]
  /\ reader' = [reader EXCEPT ![c].pc = "put", ![c].event = Head(inbox[on])]
  /\ UNCHANGED <<sharedVars, channelVars, socket, asked, events, historyVars, loop, answered,
                 caller, closer>>

ReadError(c) ==
  LET on == reader[c].on IN
  /\ reader[c].pc = "read"
  /\ socket[on] = "closed" \/ (socket[on] = "lost" /\ inbox[on] = <<>>)
  /\ reader' = [reader EXCEPT ![c].pc = "end"]
  /\ UNCHANGED <<sharedVars, channelVars, serverVars, historyVars, loop, answered, caller, closer>>

ReadPut(c) ==
  /\ reader[c].pc = "put"
  /\ Len(eventChan) < ChannelSize
  /\ eventChan' = Append(eventChan, reader[c].event)
  /\ reader' = [reader EXCEPT ![c].pc = "top", ![c].event = NoEvent]
  /\ UNCHANGED <<sharedVars, endOfRead, serverVars, historyVars, loop, answered, caller, closer>>

ReadEnd(c) ==
  /\ reader[c].pc = "end"
  /\ ~endOfRead
  /\ endOfRead' = TRUE
  /\ reader' = [reader EXCEPT ![c].pc = "done"]
  /\ UNCHANGED <<sharedVars, eventChan, serverVars, historyVars, loop, answered, caller, closer>>
-----------------------------------------------------------------------------
(* The server answers a request, or sends an event or something that is no *)
(* event to a client whose hello it has answered, or the connection breaks.*)

ServerAnswer(c) ==
  /\ socket[c] = "open"
  /\ asked[c] # <<>>
  /\ asked' = [asked EXCEPT ![c] = Tail(@)]
  /\ inbox' = [inbox EXCEPT ![c] = Append(@, Head(asked[c]))]
  /\ UNCHANGED <<sharedVars, channelVars, socket, events, historyVars, reader, loop, answered,
                 caller, closer>>

ServerEvent(c) ==
  /\ socket[c] = "open"
  /\ reader[c].pc # "none"
  /\ events < MaxEvents
  /\ events' = events + 1
  /\ inbox' = [inbox EXCEPT ![c] = Append(@, NoEvent)]
  /\ UNCHANGED <<sharedVars, channelVars, socket, asked, historyVars, reader, loop, answered,
                 caller, closer>>

(* What the reader has waited for does not decode: it ends as at the end   *)
(* of the connection, which stays open.                                    *)
ServerGarbage(c) ==
  LET on == reader[c].on IN
  /\ reader[c].pc = "read"
  /\ socket[on] = "open"
  /\ inbox[on] = <<>>
  /\ events < MaxEvents
  /\ events' = events + 1
  /\ reader' = [reader EXCEPT ![c].pc = "end"]
  /\ UNCHANGED <<sharedVars, channelVars, socket, asked, inbox, historyVars, loop, answered,
                 caller, closer>>

ConnectionLost(c) ==
  /\ socket[c] = "open"
  /\ socket' = [socket EXCEPT ![c] = "lost"]
  /\ UNCHANGED <<sharedVars, channelVars, asked, inbox, events, historyVars, reader, loop, answered,
                 caller, closer>>
-----------------------------------------------------------------------------
DialStep == Retry \/ DialHello \/ DialGreeting \/ DialConnect \/ DialClose \/ DialWait
ProcessStep == NextEvent \/ HandleEvent \/ HandleUnexpected \/ HandleAnswer
                 \/ HandleExpired \/ LoopClose \/ LoopWait
Terminate == TerminateClose \/ TerminateWait
Read(c) == ReadFrom(c) \/ ReadEvent(c) \/ ReadError(c) \/ ReadPut(c) \/ ReadEnd(c)
Server(c) == ServerAnswer(c) \/ ServerEvent(c) \/ ServerGarbage(c) \/ ConnectionLost(c)

Next ==
  \/ DialOpen
  \/ ConnectAgain
  \/ DialStep
  \/ ProcessStep
  \/ TerminateCall
  \/ Terminate
  \/ \E p \in Caller : SendAsync(p) \/ SendWrite(p)
  \/ \E c \in Dial : Read(c) \/ Server(c)

(* Goroutines that can run do, and get the mutex in turn.  Nothing is      *)
(* assumed of the application, of the server or of an attempt to connect.  *)
Fairness ==
  /\ WF_vars(DialStep)
  /\ WF_vars(NextEvent \/ HandleEvent \/ LoopClose \/ LoopWait)
  /\ SF_vars(HandleUnexpected \/ HandleAnswer)
  /\ SF_vars(HandleExpired)
  /\ WF_vars(Terminate)
  /\ \A p \in Caller : WF_vars(SendWrite(p))
  /\ \A c \in Dial : WF_vars(Read(c))

Spec == Init /\ [][Next]_vars
FairSpec == Spec /\ Fairness
-----------------------------------------------------------------------------
(* On the first connection every request has the number after that of the  *)
(* request, or hello, before it, 1 after the highest, as the server        *)
(* demands, whoever sends and whatever writes fail.  A redial can break    *)
(* this: it changes MsgId and the connection under a SendAsync that has    *)
(* taken its number.                                                       *)
NumbersConsecutive == gap => conn > 1

(* A request is completed by its own answer and no other, even when        *)
(* writes failed or requests expired before, unless the client has dialled *)
(* again (Close leaves the table as it is) or numbers have come round.     *)
AnswerMatches == mismatch => conn > 1 \/ sent > MaxId

(* Two readers never take events from one EventConn, as the comment at the *)
(* top of the type demands, as long as every Close got the end of a reader *)
(* from endOfReadChannel and Terminate was not called: no redial leaves a  *)
(* value there by which a later Close would not wait.  Terminate may make  *)
(* the loop dial again, as that finds the connection closed before it has  *)
(* closed it itself.                                                       *)
OneReader ==
  Cardinality({c \in Dial : reader[c].pc \in {"top", "read", "put"}}) > 1 =>
    gaveUp \/ closer # "idle"

(* The answer to request k has arrived at the client.                      *)
Arrived(k) == \E c \in Dial : \E i \in DOMAIN inbox[c] : inbox[c][i].re = k

(* On the first connection a request whose answer has arrived does not     *)
(* stay pending: the reader, the loop and the callers do not wait for each *)
(* other in a circle, even at a full eventChannel.  The connection has to  *)
(* work, the loop has to run, and the reader has not to have ended at      *)
(* something that is no event, which the loop is never told.               *)
Completed ==
  \A k \in 1..MaxSent :
    (Arrived(k) /\ \E n \in Id : pending[n] = k) ~>
      \/ \A n \in Id : pending[n] # k
      \/ socket[1] # "open"
      \/ reader[1].pc \in {"end", "done"}
      \/ loop = "ended"
      \/ conn # 1
-----------------------------------------------------------------------------
(* The comment in processEventLoop: "Reconnect automatically if needed.    *)
(* Auto-redial defines the behaviour".  A client whose connection is lost  *)
(* dials again unless it is told to stop.                                  *)
Reconnects ==
  (connected /\ socket[conn] = "lost") ~> (loop \in {"dial", "ended"} \/ ~autoRedial)
=============================================================================
