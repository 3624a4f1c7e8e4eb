----------------------------- MODULE MessageBus ------------------------------
(***************************************************************************)
(* What the daemon expects of its way to the bus: a message that is sent   *)
(* to a node id arrives there whole, once, and in the order of sending.    *)
(* Two exceptions: messages to one node id that are sent at the same time  *)
(* may be lost or damaged, and after a frame for a node id was lost so may *)
(* be the messages that follow.                                            *)
(***************************************************************************)
EXTENDS Naturals, Sequences

CONSTANTS Sender, NodeId

Damaged == 0

VARIABLES
  sending, (* the node id each sender is sending to, if any                 *)
  line,    (* per node id, the messages begun and not over, in order:       *)
           (* number, sender, and whether another one was sent meanwhile    *)
  next,    (* the number of the next message                                *)
  broken,  (* the node ids for which a frame was lost                       *)
  got      (* per node id, the numbers of the messages that arrived         *)

vars == <<sending, line, next, broken, got>>

Nobody == "nobody"

Init ==
  /\ sending = [s \in Sender |-> Nobody]
  /\ line = [i \in NodeId |-> <<>>]
  /\ next = 1
  /\ broken = {}
  /\ got = [i \in NodeId |-> <<>>]

(* The line of i when s begins to send to i.  The message overlaps with    *)
(* those of whoever is sending to i.                                       *)
Others(i) == {r \in Sender : sending[r] = i}
Opened(s, i) ==
  Append([k \in DOMAIN line[i] |->
            [line[i][k] EXCEPT !.overlap = @ \/ (line[i][k].open /\ Others(i) # {})]],
         [no |-> next, from |-> s, open |-> TRUE, overlap |-> Others(i) # {}])

Begin(s, i) ==
  /\ sending[s] = Nobody
  /\ sending' = [sending EXCEPT ![s] = i]
  /\ line' = [line EXCEPT ![i] = Opened(s, i)]
  /\ next' = next + 1
  /\ UNCHANGED <<broken, got>>

(* The line of i when s has handed its message over.                       *)
Closed(s, i) ==
  [k \in DOMAIN line[i] |-> [line[i][k] EXCEPT !.open = @ /\ line[i][k].from # s]]

End(s) ==
  /\ sending[s] # Nobody
  /\ sending' = [sending EXCEPT ![s] = Nobody]
  /\ line' = [line EXCEPT ![sending[s]] = Closed(s, sending[s])]
  /\ UNCHANGED <<next, broken, got>>

Without(q, k) == SubSeq(q, 1, k - 1) \o SubSeq(q, k + 1, Len(q))

(* A message is over: the first of its line arrives.                       *)
Arrive(i) ==
  /\ line[i] # <<>>
  /\ line' = [line EXCEPT ![i] = Tail(@)]
  /\ got' = [got EXCEPT ![i] = Append(@, Head(line[i]).no)]
  /\ UNCHANGED <<sending, next, broken>>

(* A message that overlapped, or follows a lost frame, may end otherwise.  *)
Disturbed(i, k) ==
  /\ line[i][k].overlap \/ i \in broken
  /\ line' = [line EXCEPT ![i] = Without(@, k)]
  /\ \/ UNCHANGED got
     \/ \E no \in {Damaged, line[i][k].no} : got' = [got EXCEPT ![i] = Append(@, no)]
  /\ UNCHANGED <<sending, next, broken>>

(* A frame for i is lost, and with the last one the message.               *)
Lose(i) ==
  /\ broken' = broken \cup {i}
  /\ line' = line \/ \E k \in DOMAIN line[i] : line' = [line EXCEPT ![i] = Without(@, k)]
  /\ UNCHANGED <<sending, next, got>>

Next ==
  \/ \E s \in Sender : End(s) \/ \E i \in NodeId : Begin(s, i)
  \/ \E i \in NodeId : Arrive(i) \/ Lose(i) \/ \E k \in DOMAIN line[i] : Disturbed(i, k)

Spec == Init /\ [][Next]_vars
=============================================================================
