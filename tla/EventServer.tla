----------------------------- MODULE EventServer -----------------------------
(***************************************************************************)
(* The event server of nocand (socket/server.go) and the shape of the      *)
(* request handlers it calls (controllers/event_server.go).                *)
(*                                                                         *)
(* Every connection has a descriptor and two goroutines: the reader, which *)
(* is runClient (handshake, then receive, check the message number, call   *)
(* the handler, acknowledge), and the sender it starts, which takes events *)
(* from the bounded OutputChan and writes them to the socket.  Broadcast   *)
(* is called by handlers and by other goroutines of the daemon (producers: *)
(* pinger, bus handlers, power monitor); it holds the server's mutex while *)
(* it puts the event into one OutputChan after the other and waits where   *)
(* one is full.  DeleteClient, called by the sender, needs the same mutex. *)
(*                                                                         *)
(* Of the handlers the one of firmware downloads is left out: its type     *)
(* assertion fails for every request, which ends the daemon                *)
(* (event_server.go:152).  Those of the power of the bus broadcast first,  *)
(* to all clients, as updates that are about no channel do here.           *)
(***************************************************************************)
EXTENDS Naturals, Sequences, SequencesExt

CONSTANTS
  Conn,       (* connections; each is accepted at most once                 *)
  Producer,   (* goroutines that broadcast on their own                     *)
  Nobody,
  Channel,    (* channels an update can be about                            *)
  QueueSize,  (* capacity of OutputChan: 16 in the code                     *)
  MaxId,      (* highest message number: 65535 in the code                  *)
  MaxEvents,  (* bound on the number of broadcasts                          *)
  AnyNumber   (* do clients connect that number requests in their own way?  *)

ASSUME ServerAssumption ==
  /\ Conn \cap Producer = {}
  /\ Nobody \notin Conn \cup Producer
  /\ QueueSize \in Nat \ {0}
  /\ MaxId \in Nat \ {0}
  /\ MaxEvents \in Nat
  /\ AnyNumber \in BOOLEAN

VARIABLES
  clients,    (* the linked list of descriptors, newest first               *)
  mutex,      (* who holds Server.Mutex                                     *)
  walk,       (* what is left of the list for each Broadcast                *)
  pc,         (* where each reader and each producer is                     *)
  event,      (* the event each reader or producer broadcasts               *)
  sender,     (* where each sender is                                       *)
  outputChan, (* the queue of each descriptor                               *)
  connected,  (* Connected                                                  *)
  closed,     (* DeleteClient has closed OutputChan and TerminationChan     *)
  conn,       (* the socket: "open" until Conn.Close()                      *)
  lastMsgId,  (* LastMsgId                                                  *)
  filter,     (* channels ChannelFilter includes; all of them without one   *)
  msgId,      (* the client's own counter, EventConn.MsgId                  *)
  asked,      (* number of the request being handled                        *)
  rogue,      (* the client has broken the numbering                        *)
  heard,      (* history: the broadcasts put into each OutputChan           *)
  count,      (* number of broadcasts so far                                *)
  panic       (* a goroutine has used a closed channel                      *)

listVars == <<clients, mutex, walk>>
connVars == <<connected, closed, conn>>
idVars == <<lastMsgId, msgId, asked, rogue>>
vars == <<listVars, pc, event, sender, outputChan, connVars, idVars, filter,
          heard, count, panic>>

Process == Conn \cup Producer
Id == 0..MaxId
NoChannel == "no channel"
Event == [n : 1..MaxEvents, about : Channel \cup {NoChannel}, exclude : Conn \cup {Nobody}]
NoEvent == [n |-> 0]

(* An element of OutputChan: re is the number of the request an            *)
(* acknowledgement is about, id the number it carries.                     *)
Item == [kind : {"ok", "bad", "event"}, id : Id, re : Id]

Location ==
  {"none", "hello", "greet", "refuse", "receive", "idle", "lock", "walk", "send",
   "ack", "query", "reply", "mismatch", "garbled", "unhandled", "terminate", "done"}

TypeOK ==
  /\ clients \in Seq(Conn)
  /\ mutex \in Process \cup {Nobody}
  /\ walk \in [Process -> Seq(Conn)]
  /\ pc \in [Process -> Location]
  /\ event \in [Process -> Event \cup {NoEvent}]
  /\ sender \in [Conn -> {"none", "select", "encode", "wait", "delete", "done"}]
  /\ outputChan \in [Conn -> Seq(Item)]
  /\ \A c \in Conn : Len(outputChan[c]) <= QueueSize
  /\ connected \in [Conn -> BOOLEAN]
  /\ closed \in [Conn -> BOOLEAN]
  /\ conn \in [Conn -> {"none", "open", "closed"}]
  /\ lastMsgId \in [Conn -> Id]
  /\ msgId \in [Conn -> Id]
  /\ asked \in [Conn -> Id]
  /\ rogue \in [Conn -> BOOLEAN]
  /\ filter \in [Conn -> SUBSET Channel]
  /\ heard \in [Conn -> Seq(1..MaxEvents)]
  /\ count \in 0..MaxEvents
  /\ panic \in BOOLEAN

Init ==
  /\ clients = <<>>
  /\ mutex = Nobody
  /\ walk = [p \in Process |-> <<>>]
  /\ pc = [p \in Process |-> IF p \in Conn THEN "none" ELSE "idle"]
  /\ event = [p \in Process |-> NoEvent]
  /\ sender = [c \in Conn |-> "none"]
  /\ outputChan = [c \in Conn |-> <<>>]
  /\ connected = [c \in Conn |-> FALSE]
  /\ closed = [c \in Conn |-> FALSE]
  /\ conn = [c \in Conn |-> "none"]
  /\ lastMsgId = [c \in Conn |-> 0]
  /\ msgId = [c \in Conn |-> 1]
  /\ asked = [c \in Conn |-> 0]
  /\ rogue = [c \in Conn |-> FALSE]
  /\ filter = [c \in Conn |-> Channel]
  /\ heard = [c \in Conn |-> <<>>]
  /\ count = 0
  /\ panic = FALSE

Goto(p, l) == pc' = [pc EXCEPT ![p] = l]

(* uint16 arithmetic, and the rule by which both sides skip the number 0.  *)
Increment(k) == (k + 1) % (MaxId + 1)
NextId(k) == IF Increment(k) = 0 THEN 1 ELSE Increment(k)
-----------------------------------------------------------------------------
(* Accept and NewClient: the descriptor becomes the head of the list.      *)
NewClient(c) ==
  /\ pc[c] = "none"
  /\ mutex = Nobody
  /\ clients' = <<c>> \o clients
  /\ connected' = [connected EXCEPT ![c] = TRUE]
  /\ conn' = [conn EXCEPT ![c] = "open"]
  /\ Goto(c, "hello")
  /\ UNCHANGED <<mutex, walk, event, sender, outputChan, closed, idVars, filter,
                 heard, count, panic>>

(* Step 1 of runClient: a client-hello-event, or anything else.            *)
Hello(c) ==
  /\ pc[c] = "hello"
  /\ Goto(c, "greet") \/ Goto(c, "refuse")
  /\ UNCHANGED <<listVars, event, sender, outputChan, connVars, idVars, filter,
                 heard, count, panic>>

(* Step 2: the server-hello-event is written, the numbering starts with    *)
(* the client's number (dial uses 1), and step 3 starts the sender; or the *)
(* write fails.                                                            *)
Greet(c) ==
  /\ pc[c] = "greet"
  /\ \/ /\ \E id \in IF AnyNumber THEN Id ELSE {1} :
             /\ lastMsgId' = [lastMsgId EXCEPT ![c] = id]
             /\ msgId' = [msgId EXCEPT ![c] = NextId(id)]
        /\ sender' = [sender EXCEPT ![c] = "select"]
        /\ Goto(c, "receive")
     \/ /\ Goto(c, "refuse")
        /\ UNCHANGED <<lastMsgId, msgId, sender>>
  /\ UNCHANGED <<listVars, event, outputChan, connVars, asked, rogue, filter,
                 heard, count, panic>>

(* SendEvent by the reader of c: an error without a connection, otherwise  *)
(* it waits while OutputChan is full.                                      *)
Put(c, item) ==
  /\ connected[c] => Len(outputChan[c]) < QueueSize
  /\ outputChan' = IF connected[c]
                   THEN [outputChan EXCEPT ![c] = Append(@, item)] ELSE outputChan

SendAck(c, k) == Put(c, [kind |-> k, id |-> lastMsgId[c], re |-> asked[c]])

(* The handshake failed: the reader leaves a last acknowledgement, which   *)
(* nothing sends, and ends.  The descriptor stays on the list.             *)
Refuse(c) ==
  /\ pc[c] = "refuse"
  /\ SendAck(c, "bad")
  /\ Goto(c, "done")
  /\ UNCHANGED <<listVars, event, sender, connVars, idVars, filter, heard, count, panic>>
-----------------------------------------------------------------------------
(* Step 4: DecodeEvent fails, with io.EOF or with another error.           *)
ReceiveEnd(c) ==
  /\ pc[c] = "receive"
  /\ conn[c] = "open"
  /\ Goto(c, "terminate")
  /\ UNCHANGED <<listVars, event, sender, outputChan, connVars, idVars, filter,
                 heard, count, panic>>

ReceiveError(c) ==
  /\ pc[c] = "receive"
  /\ lastMsgId' = [lastMsgId EXCEPT ![c] = Increment(@)]
  /\ asked' = [asked EXCEPT ![c] = 0]
  /\ Goto(c, "garbled")
  /\ UNCHANGED <<listVars, event, sender, outputChan, connVars, msgId, rogue,
                 filter, heard, count, panic>>

(* The number a client gives its next request: SendAsync counts like the   *)
(* server does; a client of another make may send any number.              *)
Ask(c, id) ==
  /\ conn[c] = "open"
  /\ AnyNumber \/ id = msgId[c]
  /\ asked' = [asked EXCEPT ![c] = id]
  /\ IF id = msgId[c]
     THEN msgId' = [msgId EXCEPT ![c] = NextId(@)] /\ UNCHANGED rogue
     ELSE rogue' = [rogue EXCEPT ![c] = TRUE] /\ UNCHANGED msgId

(* A number other than 0 advances LastMsgId, which it has to equal.        *)
Expected_NoSkip(c) == Increment(lastMsgId[c])
Expected(c) == NextId(lastMsgId[c])

Numbered_NotKept(c, id) == lastMsgId[c]
Numbered(c, id) == IF id = 0 THEN lastMsgId[c] ELSE Expected(c)
Accepted(c, id) == id = 0 \/ id = Expected(c)

ReceiveMismatch(c, id) ==
  /\ pc[c] = "receive"
  /\ Ask(c, id)
  /\ ~Accepted(c, id)
  /\ lastMsgId' = [lastMsgId EXCEPT ![c] = Numbered(c, id)]
  /\ Goto(c, "mismatch")
  /\ UNCHANGED <<listVars, event, sender, outputChan, connVars, filter, heard, count, panic>>

(* There is no handler: LastMsgId advances once more.                      *)
ReceiveUnhandled(c, id) ==
  /\ pc[c] = "receive"
  /\ Ask(c, id)
  /\ Accepted(c, id)
  /\ lastMsgId' = [lastMsgId EXCEPT ![c] = Increment(Numbered(c, id))]
  /\ Goto(c, "unhandled")
  /\ UNCHANGED <<listVars, event, sender, outputChan, connVars, filter, heard, count, panic>>

(* A request whose handler only acknowledges, or acknowledges and then     *)
(* sends what was asked for.                                               *)
ReceiveQuery(c, id) ==
  /\ pc[c] = "receive"
  /\ Ask(c, id)
  /\ Accepted(c, id)
  /\ lastMsgId' = [lastMsgId EXCEPT ![c] = Numbered(c, id)]
  /\ Goto(c, "ack") \/ Goto(c, "query")
  /\ UNCHANGED <<listVars, event, sender, outputChan, connVars, filter, heard, count, panic>>

(* clientChannelFilterHandler                                              *)
ReceiveFilter(c, id, f) ==
  /\ pc[c] = "receive"
  /\ Ask(c, id)
  /\ Accepted(c, id)
  /\ lastMsgId' = [lastMsgId EXCEPT ![c] = Numbered(c, id)]
  /\ filter' = [filter EXCEPT ![c] = f]
  /\ Goto(c, "ack")
  /\ UNCHANGED <<listVars, event, sender, outputChan, connVars, heard, count, panic>>

StartBroadcast(p, about, exclude) ==
  /\ count < MaxEvents
  /\ count' = count + 1
  /\ event' = [event EXCEPT ![p] = [n |-> count + 1, about |-> about, exclude |-> exclude]]
  /\ Goto(p, "lock")

(* A request whose handler broadcasts before it acknowledges: a channel    *)
(* update, not sent back to c, or the bus power, sent to everyone.         *)
ReceiveUpdate(c, id, about) ==
  /\ pc[c] = "receive"
  /\ Ask(c, id)
  /\ Accepted(c, id)
  /\ lastMsgId' = [lastMsgId EXCEPT ![c] = Numbered(c, id)]
  /\ StartBroadcast(c, about, IF about = NoChannel THEN Nobody ELSE c)
  /\ UNCHANGED <<listVars, sender, outputChan, connVars, filter, heard, panic>>

(* The acknowledgement of the handler, and the reply that may follow it.   *)
(* The loop ends when one of them is an error.                             *)
Ack(c) ==
  /\ pc[c] \in {"ack", "query"}
  /\ SendAck(c, "ok")
  /\ Goto(c, IF ~connected[c] THEN "terminate"
             ELSE IF pc[c] = "query" THEN "reply" ELSE "receive")
  /\ asked' = [asked EXCEPT ![c] = 0]
  /\ UNCHANGED <<listVars, event, sender, connVars, lastMsgId, msgId, rogue, filter,
                 heard, count, panic>>

Reply(c) ==
  /\ pc[c] = "reply"
  /\ Put(c, [kind |-> "event", id |-> 0, re |-> 0])
  /\ Goto(c, IF connected[c] THEN "receive" ELSE "terminate")
  /\ UNCHANGED <<listVars, event, sender, connVars, idVars, filter, heard, count, panic>>

(* The last acknowledgement before the reader leaves its loop.             *)
LastAck(c) ==
  /\ pc[c] \in {"garbled", "mismatch", "unhandled"}
  /\ SendAck(c, "bad")
  /\ Goto(c, "terminate")
  /\ asked' = [asked EXCEPT ![c] = 0]
  /\ UNCHANGED <<listVars, event, sender, connVars, lastMsgId, msgId, rogue, filter,
                 heard, count, panic>>

(* TerminationChan is not buffered: the reader hands over to the sender.   *)
(* On a closed channel it panics.                                          *)
Terminate(c) ==
  /\ pc[c] = "terminate"
  /\ closed[c] \/ sender[c] \in {"select", "wait"}
  /\ Goto(c, "done")
  /\ panic' = (panic \/ closed[c])
  /\ sender' = [sender EXCEPT ![c] = IF closed[c] THEN @ ELSE "delete"]
  /\ UNCHANGED <<listVars, event, outputChan, connVars, idVars, filter, heard, count>>
-----------------------------------------------------------------------------
(* The sender takes an event, writes it, and waits for the end of the      *)
(* reader when the write fails.                                            *)
Take(c) ==
  /\ sender[c] = "select"
  /\ outputChan[c] # <<>>
  /\ outputChan' = [outputChan EXCEPT ![c] = Tail(@)]
  /\ sender' = [sender EXCEPT ![c] = "encode"]
  /\ UNCHANGED <<listVars, pc, event, connVars, idVars, filter, heard, count, panic>>

Encode_NoWait(c) ==
  /\ sender[c] = "encode"
  /\ \/ sender' = [sender EXCEPT ![c] = "select"] /\ UNCHANGED conn
     \/ /\ sender' = [sender EXCEPT ![c] = "delete"]
        /\ conn' = [conn EXCEPT ![c] = "closed"]
  /\ UNCHANGED <<listVars, pc, event, outputChan, connected, closed, idVars, filter,
                 heard, count, panic>>

EncodeEvent(c) ==
  /\ sender[c] = "encode"
  /\ \/ sender' = [sender EXCEPT ![c] = "select"] /\ UNCHANGED conn
     \/ /\ sender' = [sender EXCEPT ![c] = "wait"]
        /\ conn' = [conn EXCEPT ![c] = "closed"]
  /\ UNCHANGED <<listVars, pc, event, outputChan, connected, closed, idVars, filter,
                 heard, count, panic>>

DeleteClient_FromHead(c) ==
  /\ sender[c] = "delete"
  /\ mutex = Nobody
  /\ connected' = [connected EXCEPT ![c] = FALSE]
  /\ conn' = [conn EXCEPT ![c] = "closed"]
  /\ closed' = [closed EXCEPT ![c] = TRUE]
  /\ clients' = SubSeq(clients, 1 + CHOOSE k \in DOMAIN clients : clients[k] = c, Len(clients))
  /\ sender' = [sender EXCEPT ![c] = "done"]
  /\ UNCHANGED <<mutex, walk, pc, event, outputChan, idVars, filter, heard, count, panic>>

(* DeleteClient, deferred by the sender.  What is left in the queue of the *)
(* descriptor, and its last number, are never looked at again.             *)
DeleteClient(c) ==
  /\ sender[c] = "delete"
  /\ mutex = Nobody
  /\ connected' = [connected EXCEPT ![c] = FALSE]
  /\ conn' = [conn EXCEPT ![c] = "closed"]
  /\ closed' = [closed EXCEPT ![c] = TRUE]
  /\ panic' = (panic \/ closed[c])
  /\ clients' = RemoveFirst(clients, c)
  /\ sender' = [sender EXCEPT ![c] = "done"]
  /\ outputChan' = [outputChan EXCEPT ![c] = <<>>]
  /\ lastMsgId' = [lastMsgId EXCEPT ![c] = 0]
  /\ UNCHANGED <<mutex, walk, pc, event, msgId, asked, rogue, filter, heard, count>>
-----------------------------------------------------------------------------
(* Broadcast.  A producer starts one at any time.                          *)
Produce(p, about) ==
  /\ p \in Producer
  /\ pc[p] = "idle"
  /\ StartBroadcast(p, about, Nobody)
  /\ UNCHANGED <<listVars, sender, outputChan, connVars, idVars, filter, heard, panic>>

Lock_Shared(p) ==
  /\ pc[p] = "lock"
  /\ mutex' = p
  /\ walk' = [walk EXCEPT ![p] = clients]
  /\ Goto(p, "walk")
  /\ UNCHANGED <<clients, event, sender, outputChan, connVars, idVars, filter,
                 heard, count, panic>>

Lock(p) ==
  /\ pc[p] = "lock"
  /\ mutex = Nobody
  /\ mutex' = p
  /\ walk' = [walk EXCEPT ![p] = clients]
  /\ Goto(p, "walk")
  /\ UNCHANGED <<clients, event, sender, outputChan, connVars, idVars, filter,
                 heard, count, panic>>

(* The next descriptor: excluded, filtered out, not connected, or one that *)
(* SendEvent will put the event into.                                      *)
Wanted(c, e) ==
  /\ c # e.exclude
  /\ e.about \in filter[c] \cup {NoChannel}
  /\ connected[c]

Walk(p) ==
  /\ pc[p] = "walk"
  /\ walk[p] # <<>>
  /\ IF Wanted(Head(walk[p]), event[p])
     THEN Goto(p, "send") /\ UNCHANGED walk
     ELSE walk' = [walk EXCEPT ![p] = Tail(@)] /\ UNCHANGED pc
  /\ UNCHANGED <<clients, mutex, event, sender, outputChan, connVars, idVars, filter,
                 heard, count, panic>>

(* OutputChan <- event, which waits while the channel is full and panics   *)
(* when it is closed.                                                      *)
SendEvent(p) ==
  /\ pc[p] = "send"
  /\ LET c == Head(walk[p]) IN
     /\ closed[c] \/ Len(outputChan[c]) < QueueSize
     /\ panic' = (panic \/ closed[c])
     /\ outputChan' = IF closed[c] THEN outputChan
                      ELSE [outputChan EXCEPT
                              ![c] = Append(@, [kind |-> "event", id |-> 0, re |-> 0])]
     /\ heard' = [heard EXCEPT ![c] = Append(@, event[p].n)]
  /\ walk' = [walk EXCEPT ![p] = Tail(@)]
  /\ Goto(p, "walk")
  /\ UNCHANGED <<clients, mutex, event, sender, connVars, idVars, filter, count>>

Unlock_Keep(p) ==
  /\ pc[p] = "walk"
  /\ walk[p] = <<>>
  /\ event' = [event EXCEPT ![p] = NoEvent]
  /\ Goto(p, IF p \in Conn THEN "ack" ELSE "idle")
  /\ UNCHANGED <<listVars, sender, outputChan, connVars, idVars, filter,
                 heard, count, panic>>

Unlock(p) ==
  /\ pc[p] = "walk"
  /\ walk[p] = <<>>
  /\ mutex' = Nobody
  /\ event' = [event EXCEPT ![p] = NoEvent]
  /\ Goto(p, IF p \in Conn THEN "ack" ELSE "idle")
  /\ UNCHANGED <<clients, walk, sender, outputChan, connVars, idVars, filter,
                 heard, count, panic>>
-----------------------------------------------------------------------------
Receive(c) ==
  \/ ReceiveEnd(c)
  \/ ReceiveError(c)
  \/ \E id \in Id :
       \/ ReceiveMismatch(c, id)
       \/ ReceiveUnhandled(c, id)
       \/ ReceiveQuery(c, id)
       \/ \E f \in SUBSET Channel : ReceiveFilter(c, id, f)
       \/ \E about \in Channel \cup {NoChannel} : ReceiveUpdate(c, id, about)

Reader(c) == Refuse(c) \/ Ack(c) \/ Reply(c) \/ LastAck(c) \/ Terminate(c)
Sender(c) == Take(c) \/ EncodeEvent(c) \/ DeleteClient(c)
Broadcast(p) == Lock(p) \/ Walk(p) \/ SendEvent(p) \/ Unlock(p)

Next ==
  \/ \E c \in Conn : NewClient(c) \/ Hello(c) \/ Greet(c) \/ Receive(c) \/ Reader(c) \/ Sender(c)
  \/ \E p \in Producer, about \in Channel \cup {NoChannel} : Produce(p, about)
  \/ \E p \in Process : Broadcast(p)

(* Scheduling.  A goroutine that can go on does so: sync.Mutex and the     *)
(* channels serve the waiting goroutines in turn.  A write to a socket     *)
(* ends, with or without success, and a read from a closed socket fails.   *)
(* Nothing is assumed of what a client sends, or of producers.             *)
Fairness ==
  /\ \A c \in Conn :
       /\ WF_vars(Greet(c))
       /\ WF_vars(Reader(c))
       /\ WF_vars(Take(c)) /\ WF_vars(EncodeEvent(c))
       /\ SF_vars(DeleteClient(c))
       /\ WF_vars(ReceiveError(c) /\ conn[c] = "closed")
  /\ \A p \in Process :
       /\ SF_vars(Lock(p))
       /\ WF_vars(Walk(p) \/ SendEvent(p) \/ Unlock(p))

Spec == Init /\ [][Next]_vars
FairSpec == Spec /\ Fairness
-----------------------------------------------------------------------------
(* No reader and no Broadcast sends on a channel that DeleteClient has     *)
(* closed, and no channel is closed twice: a descriptor is deleted by its  *)
(* sender only after its reader has stopped, and not during a Broadcast.   *)
NoPanic == ~panic

(* The list holds the connected descriptors, each of them once: the        *)
(* "Internal error" of DeleteClient is never reached.                      *)
ListExact ==
  /\ IsInjective(clients)
  /\ {clients[k] : k \in DOMAIN clients} = {c \in Conn : connected[c]}

(* Two broadcasts reach all clients in the same order.                     *)
Before(m, n, s) == \E j, k \in DOMAIN s : j < k /\ s[j] = m /\ s[k] = n

SameOrder ==
  \A c, d \in Conn : \A m, n \in 1..count :
    ~(Before(m, n, heard[c]) /\ Before(n, m, heard[d]))

(* A client that numbers its requests as SendAsync does is never refused   *)
(* for its numbers, even when they wrap around.                            *)
NumberingAgrees == \A c \in Conn : pc[c] = "mismatch" => rogue[c]

(* The acknowledgement of a handled request carries its number, unless the *)
(* request has none: it can neither be taken for another one nor overtake. *)
AckAnswersRequest ==
  \A c \in Conn : \A k \in DOMAIN outputChan[c] :
     LET item == outputChan[c][k] IN item.kind = "ok" /\ item.re # 0 => item.id = item.re

(* The comment at the end of runClient: the message to TerminationChan     *)
(* "will result in a call to s.DeleteClient(c) and the termination of the  *)
(* goroutine launched at step 3".                                          *)
TerminationDeletes == \A c \in Conn : pc[c] = "terminate" ~> sender[c] = "done"

(* It does as long as no OutputChan is ever full.                          *)
TerminationDeletesUnlessFull ==
  [](\A c \in Conn : Len(outputChan[c]) < QueueSize) => TerminationDeletes
=============================================================================
