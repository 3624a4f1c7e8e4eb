--------------------------- MODULE FirmwareProofs ----------------------------
(***************************************************************************)
(* Proofs about Firmware, for every number of clients, uploads, pages,     *)
(* faults and reboot requests, and every capacity of the channels.         *)
(***************************************************************************)
EXTENDS Firmware, SequenceTheorems, TLAPS

(* The types that the arguments below need.                                *)
Operation == [client : Client, pages : Sizes, progress : ProgressReport]

Types ==
  /\ op \in Seq(Operation) /\ Len(op) <= MaxOps
  /\ pendingFirmwareOperation \in {0, Len(op)}
  /\ ask \in [Client -> [pc : {"idle", "boot", "update", "ack"}, op : 0..Len(op)]]
  /\ g \in [pc : {"select", "leave", "expect", "check", "put"}, fn : Fn, op : 0..Len(op), page : Page,
            then : {"page", "hundred", "success", "end"}]
  /\ toNode \in Seq(Message) /\ inputQueue \in Seq(Message)
  /\ node \in [boot : BOOLEAN, address : Page, buffer : Op]
  /\ flash \in [1..MaxPages -> Op]
  /\ out \in [Client -> Seq(0..Len(op))]
  /\ connected \in [Client -> BOOLEAN]
  /\ seen \in [1..MaxOps -> ProgressReport]

In(q) == {q[k] : k \in 1..Len(q)}

Reporting(then) == g.pc \in {"check", "put"} /\ g.then \in then

(* The messages of an operation; the others have no operation.             *)
Work(m) == m.op # 0
Sound(m) == m.op <= g.op /\ (Work(m) <=> m.fn \notin {"boot", "leave", "other"})

(* Operations are carried out in the order of their uploads, each once.    *)
Flow ==
  /\ Operating => g.op # 0
  /\ \A c \in Client : ask[c].pc \in {"boot", "update"} => ask[c].op # 0
  /\ ~Operating => pendingFirmwareOperation = 0 \/ pendingFirmwareOperation > g.op
  /\ \A o \in 1..Len(op) : o > g.op => op[o].progress = 0
  /\ \A m \in In(inputQueue) \cup In(toNode) : Sound(m)
  /\ g.pc = "expect" => \/ g.fn \in {"signature", "erase"} /\ g.page = 0
                        \/ g.fn = "address" /\ g.page <= op[g.op].pages
                        \/ g.fn \in {"write", "crc"} /\ g.page \in 1..op[g.op].pages
  /\ Reporting({"page"}) => g.page \in 1..op[g.op].pages
  /\ g.op # 0 /\ op[g.op].progress = ProgressSuccess => Reporting({"success"}) \/ ~Operating

(* What holds of a message a and a later one b on the way to the node and  *)
(* back: without overlap there is one request to boot and one message of   *)
(* an operation, in this order only if the boot request is the later one;  *)
(* and as long as no answer was mistaken for another there is one message  *)
(* of each operation, and the messages of older operations come first.     *)
Fits(over, mixed, a, b) ==
  /\ ~over => /\ ~(Work(a) /\ Work(b))
              /\ a.fn = "boot" => b.fn # "boot" /\ ~Work(b)
  /\ ~mixed => (Work(a) /\ Work(b) => a.op < b.op)

Chain(over, mixed, q) == \A i, j \in 1..Len(q) : i < j => Fits(over, mixed, q[i], q[j])
Chains(over, mixed, q, t) ==
  /\ Chain(over, mixed, q) /\ Chain(over, mixed, t)
  /\ \A a \in In(q), b \in In(t) : Fits(over, mixed, a, b)

Pipe == In(inputQueue) \cup In(toNode)
Same(m) == m.fn = g.fn /\ m.op = g.op /\ m.page = g.page

Pipeline ==
  /\ Chains(overlap, stale, inputQueue, toNode)
  /\ ~overlap =>
       /\ (\E m \in Pipe : m.fn = "boot") => ~Operating
       /\ g.pc = "expect" => \A m \in Pipe : Work(m) => Same(m)
       /\ Reporting({"page"}) => \A m \in Pipe : ~Work(m)
  /\ ~stale =>
       /\ g.pc = "expect" => \A m \in Pipe : m.op = g.op => Same(m)
       /\ Reporting({"page", "hundred", "success"}) => \A m \in Pipe : m.op # g.op

(* As long as no answer was mistaken for another and no error ignored: the *)
(* node has nothing else to do than what the operation asked for last, and *)
(* has written the pages that it has confirmed.                            *)
Succeeded == ~Operating /\ g.op # 0 /\ op[g.op].progress = ProgressSuccess
Holds(k) == \A q \in 1..k : flash[q] = g.op

Written ==
  ~stale =>
    /\ g.pc = "expect" /\ g.fn # "signature" => \A m \in In(toNode) : Work(m) => Same(m)
    /\ Reporting({"page", "hundred", "success"}) \/ Succeeded => \A m \in In(toNode) : ~Work(m)
    /\ ~ignored =>
         /\ g.pc = "expect" /\ g.fn = "address" /\ g.page > 0 =>
              \A m \in In(inputQueue) : m.op = g.op /\ m.ok => node.address \in {0, g.page}
         /\ g.pc = "expect" /\ g.fn \in {"write", "crc"} => node.address \in {0, g.page}
         /\ g.pc = "expect" /\ g.fn = "crc" =>
              \A m \in In(inputQueue) : m.op = g.op /\ m.ok => flash[g.page] = g.op
         /\ g.pc = "expect" /\ g.fn \in {"address", "write", "crc"} => Holds(g.page - 1)
         /\ Reporting({"page"}) => Holds(g.page)
         /\ Reporting({"hundred", "success"}) \/ Succeeded => Holds(op[g.op].pages)

(* A report is put into OutputChan only after Connected was seen.          *)
Departure ==
  /\ g.pc = "put" /\ ~connected[op[g.op].client] => op[g.op].client \in departed
  /\ panic => g.pc = "put" /\ ~connected[op[g.op].client]

(* The last report says how the operation ended, and is either waiting to  *)
(* be written to the client or was written, or writing to it has failed.   *)
Ending ==
  g.op # 0 /\ g.op \notin rewound =>
    /\ Reporting({"success", "end"}) => op[g.op].progress \in Final
    /\ ~Operating /\ connected[op[g.op].client] =>
         /\ op[g.op].progress \in Final
         /\ \/ g.op \in In(out[op[g.op].client]) \/ seen[g.op] \in Final
            \/ op[g.op].client \in broken

Inv == Types /\ Flow /\ Pipeline /\ Written /\ Departure /\ Ending /\ StaleNeedsOverlap
-----------------------------------------------------------------------------
(* What taking from a sequence and adding to it leaves in it.              *)
LEMMA InFacts ==
  ASSUME NEW S, NEW q \in Seq(S)
  PROVE  /\ In(q) \subseteq S
         /\ \A e \in S : In(Append(q, e)) = In(q) \cup {e} /\ Append(q, e) \in Seq(S)
         /\ q # <<>> => /\ Head(q) \in In(q) /\ Tail(q) \in Seq(S)
                        /\ In(q) = In(Tail(q)) \cup {Head(q)}
         /\ In(<<>>) = {}
<1>1. In(q) \subseteq S /\ In(<<>>) = {}
  BY DEF In
<1>2. ASSUME NEW e \in S
      PROVE  In(Append(q, e)) = In(q) \cup {e} /\ Append(q, e) \in Seq(S)
  <2>1. /\ Append(q, e) \in Seq(S) /\ Len(Append(q, e)) = Len(q) + 1 /\ Len(q) \in Nat
        /\ \A k \in 1..Len(q) : Append(q, e)[k] = q[k]
        /\ Append(q, e)[Len(q) + 1] = e
    BY AppendProperties
  <2>2. \A k \in 1..(Len(q) + 1) : k \in 1..Len(q) \/ k = Len(q) + 1
    BY <2>1
  <2>3. QED BY <2>1, <2>2 DEF In
<1>3. ASSUME q # <<>>
      PROVE  Head(q) \in In(q) /\ Tail(q) \in Seq(S) /\ In(q) = In(Tail(q)) \cup {Head(q)}
  <2>1. Head(q) = q[1] /\ Len(q) \in Nat /\ Len(q) > 0
    BY <1>3, EmptySeq
  <2>2. Tail(q) \in Seq(S) /\ Len(Tail(q)) = Len(q) - 1 /\ \A k \in 1..Len(Tail(q)) : Tail(q)[k] = q[k + 1]
    BY <1>3, HeadTailProperties, <2>1
  <2>3. \A k \in 1..Len(q) : k = 1 \/ k - 1 \in 1..Len(Tail(q))
    BY <2>1, <2>2
  <2>4. In(q) \subseteq In(Tail(q)) \cup {Head(q)}
    <3>1. ASSUME NEW k \in 1..Len(q), k # 1 PROVE q[k] \in In(Tail(q))
      <4>1. k - 1 \in 1..Len(Tail(q)) /\ Tail(q)[k - 1] = q[k]
        BY <2>2, <2>3, <3>1
      <4>2. QED BY <4>1 DEF In
    <3>2. QED BY <2>1, <3>1 DEF In
  <2>5. In(Tail(q)) \cup {Head(q)} \subseteq In(q)
    BY <2>1, <2>2 DEF In
  <2>6. QED BY <2>1, <2>2, <2>4, <2>5
<1>4. QED BY <1>1, <1>2, <1>3

(* A request to boot sees what is in both directions.                      *)
LEMMA RangeFacts ==
  ASSUME NEW S, NEW q \in Seq(S), NEW t \in Seq(S)
  PROVE  Range(q \o t) = In(q) \cup In(t)
<1>1. /\ q \o t \in Seq(S) /\ Len(q \o t) = Len(q) + Len(t) /\ Len(q) \in Nat /\ Len(t) \in Nat
      /\ \A k \in 1..(Len(q) + Len(t)) : (q \o t)[k] = IF k <= Len(q) THEN q[k] ELSE t[k - Len(q)]
  BY ConcatProperties
<1>2. DOMAIN (q \o t) = 1..(Len(q) + Len(t))
  BY <1>1
<1>3. Range(q \o t) \subseteq In(q) \cup In(t)
  BY <1>1, <1>2 DEF Range, In
<1>4. In(q) \subseteq Range(q \o t)
  BY <1>1, <1>2 DEF Range, In
<1>5. In(t) \subseteq Range(q \o t)
  <2>1. ASSUME NEW k \in 1..Len(t) PROVE t[k] \in Range(q \o t)
    <3>1. k + Len(q) \in 1..(Len(q) + Len(t)) /\ (q \o t)[k + Len(q)] = t[k]
      BY <1>1
    <3>2. QED BY <1>2, <3>1 DEF Range
  <2>2. QED BY <2>1 DEF In
<1>6. QED BY <1>3, <1>4, <1>5
-----------------------------------------------------------------------------
(* A chain without its head, and with another last message.                *)
LEMMA ChainFacts ==
  ASSUME NEW over, NEW mixed, NEW q \in Seq(Message), Chain(over, mixed, q)
  PROVE  /\ q # <<>> => Chain(over, mixed, Tail(q)) /\ \A b \in In(Tail(q)) : Fits(over, mixed, Head(q), b)
         /\ \A m \in Message : (\A a \in In(q) : Fits(over, mixed, a, m)) => Chain(over, mixed, Append(q, m))
<1>1. ASSUME q # <<>>
      PROVE  Chain(over, mixed, Tail(q)) /\ \A b \in In(Tail(q)) : Fits(over, mixed, Head(q), b)
  <2>1. Head(q) = q[1] /\ Len(q) \in Nat /\ Len(q) > 0
    BY <1>1, EmptySeq
  <2>2. Len(Tail(q)) = Len(q) - 1 /\ \A k \in 1..Len(Tail(q)) : Tail(q)[k] = q[k + 1]
    BY <1>1, HeadTailProperties, <2>1
  <2>3. \A k \in 1..Len(Tail(q)) : k + 1 \in 1..Len(q) /\ 1 < k + 1
    BY <2>1, <2>2
  <2>4. \A b \in In(Tail(q)) : Fits(over, mixed, Head(q), b)
    <3>1. ASSUME NEW k \in 1..Len(Tail(q)) PROVE Fits(over, mixed, Head(q), Tail(q)[k])
      BY <2>1, <2>2, <2>3 DEF Chain
    <3>2. QED BY <3>1 DEF In
  <2>5. ASSUME NEW i \in 1..Len(Tail(q)), NEW j \in 1..Len(Tail(q)), i < j
        PROVE  Fits(over, mixed, Tail(q)[i], Tail(q)[j])
    <3>1. i + 1 \in 1..Len(q) /\ j + 1 \in 1..Len(q) /\ i + 1 < j + 1
      BY <2>3, <2>5
    <3>2. QED BY <2>2, <3>1 DEF Chain
  <2>6. QED BY <2>4, <2>5 DEF Chain
<1>2. ASSUME NEW m \in Message, \A a \in In(q) : Fits(over, mixed, a, m)
      PROVE  Chain(over, mixed, Append(q, m))
  <2>1. /\ Len(Append(q, m)) = Len(q) + 1 /\ Len(q) \in Nat
        /\ \A k \in 1..Len(q) : Append(q, m)[k] = q[k]
        /\ Append(q, m)[Len(q) + 1] = m
    BY AppendProperties
  <2>2. ASSUME NEW i \in 1..(Len(q) + 1), NEW j \in 1..(Len(q) + 1), i < j
        PROVE  Fits(over, mixed, Append(q, m)[i], Append(q, m)[j])
    <3>1. i \in 1..Len(q)
      BY <2>1, <2>2
    <3>2. CASE j = Len(q) + 1
      BY <1>2, <2>1, <3>1, <3>2 DEF In
    <3>3. CASE j # Len(q) + 1
      <4>1. j \in 1..Len(q)
        BY <2>1, <3>3
      <4>2. QED BY <2>1, <2>2, <3>1, <4>1 DEF Chain
    <3>4. QED BY <3>2, <3>3
  <2>3. QED BY <2>1, <2>2 DEF Chain
<1>3. QED BY <1>1, <1>2

(* The pipeline as messages are taken, moved, lost and added.              *)
LEMMA ChainsFacts ==
  ASSUME NEW over, NEW mixed, NEW q \in Seq(Message), NEW t \in Seq(Message), Chains(over, mixed, q, t)
  PROVE  /\ q # <<>> => /\ Chains(over, mixed, Tail(q), t)
                        /\ \A b \in In(Tail(q)) \cup In(t) : Fits(over, mixed, Head(q), b)
         /\ t # <<>> => Chains(over, mixed, q, Tail(t))
         /\ \A m \in Message :
              (\A a \in In(q) \cup In(t) : Fits(over, mixed, a, m)) => Chains(over, mixed, q, Append(t, m))
         /\ \A m \in Message :
              (\A a \in In(q) : Fits(over, mixed, a, m)) /\ (\A b \in In(t) : Fits(over, mixed, m, b))
                => Chains(over, mixed, Append(q, m), t)
<1>1. Chain(over, mixed, q) /\ Chain(over, mixed, t) /\ \A a \in In(q), b \in In(t) : Fits(over, mixed, a, b)
  BY DEF Chains
<1>2. ASSUME q # <<>>
      PROVE  /\ Chains(over, mixed, Tail(q), t)
             /\ \A b \in In(Tail(q)) \cup In(t) : Fits(over, mixed, Head(q), b)
  <2>1. In(q) = In(Tail(q)) \cup {Head(q)}
    BY <1>2, InFacts
  <2>2. QED BY <1>1, <1>2, <2>1, ChainFacts DEF Chains
<1>3. ASSUME t # <<>>
      PROVE  Chains(over, mixed, q, Tail(t))
  <2>1. In(t) = In(Tail(t)) \cup {Head(t)}
    BY <1>3, InFacts
  <2>2. QED BY <1>1, <1>3, <2>1, ChainFacts DEF Chains
<1>4. ASSUME NEW m \in Message, \A a \in In(q) \cup In(t) : Fits(over, mixed, a, m)
      PROVE  Chains(over, mixed, q, Append(t, m))
  <2>1. In(Append(t, m)) = In(t) \cup {m}
    BY InFacts
  <2>2. QED BY <1>1, <1>4, <2>1, ChainFacts DEF Chains
<1>5. ASSUME NEW m \in Message, \A a \in In(q) : Fits(over, mixed, a, m), \A b \in In(t) : Fits(over, mixed, m, b)
      PROVE  Chains(over, mixed, Append(q, m), t)
  <2>1. In(Append(q, m)) = In(q) \cup {m}
    BY InFacts
  <2>2. QED BY <1>1, <1>5, <2>1, ChainFacts DEF Chains
<1>6. QED BY <1>2, <1>3, <1>4, <1>5

(* A message that the node answers keeps its place.                        *)
LEMMA ChainsMove ==
  ASSUME NEW over, NEW mixed, NEW q \in Seq(Message), NEW t \in Seq(Message), Chains(over, mixed, q, t), t # <<>>,
         NEW m \in Message, m.fn = Head(t).fn, m.op = Head(t).op
  PROVE  Chains(over, mixed, Append(q, m), Tail(t))
<1>1. /\ Tail(t) \in Seq(Message) /\ Head(t) \in In(t)
      /\ \A a \in In(q) : Fits(over, mixed, a, Head(t))
      /\ \A b \in In(Tail(t)) : Fits(over, mixed, Head(t), b)
      /\ Chains(over, mixed, q, Tail(t))
  BY InFacts, ChainFacts, ChainsFacts DEF Chains
<1>2. (\A a \in In(q) : Fits(over, mixed, a, m)) /\ \A b \in In(Tail(t)) : Fits(over, mixed, m, b)
  BY <1>1 DEF Fits, Work
<1>3. QED BY <1>1, <1>2, ChainsFacts

(* Less is demanded after an overlap, and after a mistaken answer.         *)
LEMMA ChainsWeaker ==
  ASSUME NEW over, NEW mixed, NEW over2, NEW mixed2, NEW q, NEW t, Chains(over, mixed, q, t),
         over => over2, mixed => mixed2
  PROVE  Chains(over2, mixed2, q, t)
BY DEF Chains, Chain, Fits

(* Percentages are no ends.                                                *)
LEMMA Percentage ==
  ASSUME NEW n \in Nat \ {0}, NEW p \in 1..n
  PROVE  ((p - 1) * 100) \div n \in 0..99
<1>1. PICK x \in Nat : x = (p - 1) * 100
  OBVIOUS
<1>2. x \div n \in Nat /\ n * (x \div n) <= x
  OBVIOUS
<1>3. PICK q \in Nat : q = x \div n
  BY <1>2
<1>4. x < n * 100
  BY <1>1
<1>5. ~(q >= 100)
  <2>1. q >= 100 => n * q >= n * 100
    OBVIOUS
  <2>2. QED BY <1>2, <1>3, <1>4, <2>1
<1>6. QED BY <1>1, <1>3, <1>5
-----------------------------------------------------------------------------
(* The operation that is carried out is one of the operations.             *)
LEMMA OpFacts ==
  ASSUME Types
  PROVE  /\ Len(op) \in Nat /\ MaxOps \in Nat /\ MaxPages \in Nat
         /\ \A o \in 1..Len(op) : /\ op[o] \in Operation /\ op[o].client \in Client
                                  /\ op[o].pages \in 1..MaxPages /\ op[o].pages \in Nat
         /\ g.op \in Nat /\ g.op <= Len(op) /\ (g.op # 0 => g.op \in 1..Len(op))
<1>1. Len(op) \in Nat /\ MaxOps \in Nat /\ MaxPages \in Nat /\ Sizes \subseteq 1..MaxPages
  BY FirmwareAssumption DEF Types
<1>2. ASSUME NEW o \in 1..Len(op)
      PROVE  op[o] \in Operation /\ op[o].client \in Client /\ op[o].pages \in 1..MaxPages /\ op[o].pages \in Nat
  <2>1. op[o] \in Operation
    BY DEF Types
  <2>2. op[o].client \in Client /\ op[o].pages \in Sizes
    BY <2>1 DEF Operation
  <2>3. op[o].pages \in 1..MaxPages
    BY <1>1, <2>2
  <2>4. \A n \in 1..MaxPages : n \in Nat
    BY <1>1
  <2>5. QED BY <2>1, <2>2, <2>3, <2>4
<1>3. g.op \in 0..Len(op)
  BY DEF Types
<1>4. QED BY <1>1, <1>2, <1>3

(* A report changes the progress of one operation.                         *)
LEMMA OpUpdate ==
  ASSUME Types, NEW o \in 1..Len(op), NEW v \in ProgressReport, op' = [op EXCEPT ![o].progress = v]
  PROVE  /\ op' \in Seq(Operation) /\ Len(op') = Len(op) /\ op'[o].progress = v
         /\ \A k \in 1..Len(op) : op'[k].client = op[k].client /\ op'[k].pages = op[k].pages
         /\ \A k \in 1..Len(op) : k # o => op'[k] = op[k]
<1>0. op \in Seq(Operation) /\ op[o] \in Operation
  BY OpFacts DEF Types
<1>1. PICK r : r = [op[o] EXCEPT !.progress = v]
  OBVIOUS
<1>2. r \in Operation /\ r.client = op[o].client /\ r.pages = op[o].pages /\ r.progress = v
  BY <1>0, <1>1 DEF Operation
<1>3. op' = [op EXCEPT ![o] = r]
  BY <1>0, <1>1
<1>4. op' \in Seq(Operation) /\ Len(op') = Len(op) /\ op'[o] = r /\ \A k \in 1..Len(op) : k # o => op'[k] = op[k]
  BY <1>0, <1>2, <1>3, ExceptSeq
<1>5. QED BY <1>2, <1>4

(* The steps of clients and their handlers that do not touch the node's    *)
(* goroutine or its messages.                                              *)
LEMMA Aside ==
  ASSUME Inv, UNCHANGED <<g, toNode, inputQueue, node, flash, overlap, stale, ignored>>,
         \A k \in 1..Len(op) : /\ op'[k].pages = op[k].pages
                               /\ op'[k].progress \in {op[k].progress, 0}
  PROVE  Pipeline' /\ Written' /\ StaleNeedsOverlap'
<1>0. Types
  BY DEF Inv
<1>1. Pipeline' /\ StaleNeedsOverlap'
  BY DEF Inv, Pipeline, Pipe, Reporting, Same, StaleNeedsOverlap, Operating
<1>2. g.op # 0 => op'[g.op].pages = op[g.op].pages
  BY <1>0, OpFacts
<1>3. Succeeded' => Succeeded
  BY <1>0, OpFacts DEF Succeeded, ProgressSuccess, Operating
<1>4. (\A k : Holds(k)' <=> Holds(k)) /\ (\A m : Same(m)' <=> Same(m)) /\ (\A t : Reporting(t)' <=> Reporting(t))
  BY DEF Holds, Same, Reporting, Operating
<1>5. Reporting({"hundred", "success"}) \/ Succeeded => g.op # 0
  BY DEF Inv, Flow, Reporting, Succeeded, Operating
<1>6. Written'
  BY <1>2, <1>3, <1>4, <1>5 DEF Inv, Written
<1>7. QED BY <1>1, <1>6
-----------------------------------------------------------------------------
(* clientFirmwareUploadHandler stores an operation.                        *)
LEMMA StepUpload ==
  ASSUME Inv, NEW c \in Client, NEW pages \in Sizes, Upload(c, pages)
  PROVE  Inv'
<1>0. Types /\ Len(op) \in Nat
  BY OpFacts DEF Inv
<1>1. /\ UNCHANGED <<g, toNode, inputQueue, node, flash, overlap, stale, ignored, out, connected, broken, seen, departed, panic, rewound>>
      /\ Len(op) < MaxOps /\ op' = Append(op, [client |-> c, pages |-> pages, progress |-> 0])
      /\ pendingFirmwareOperation' = Len(op) + 1 /\ ask' = [ask EXCEPT ![c] = [pc |-> "boot", op |-> Len(op) + 1]]
  BY DEF Upload, nodeVars, clientVars
<1>2. [client |-> c, pages |-> pages, progress |-> 0] \in Operation
  BY DEF Operation, ProgressReport
<1>3. /\ op' \in Seq(Operation) /\ Len(op') = Len(op) + 1 /\ op'[Len(op) + 1].progress = 0
      /\ \A k \in 1..Len(op) : op'[k] = op[k]
  BY <1>0, <1>1, <1>2, AppendProperties DEF Types
<1>4. Types'
  <2>1. 0..Len(op) \subseteq 0..Len(op') /\ Len(op') <= MaxOps /\ Len(op) + 1 \in 0..Len(op')
    BY <1>0, <1>1, <1>3, OpFacts
  <2>2. ask' \in [Client -> [pc : {"idle", "boot", "update", "ack"}, op : 0..Len(op')]]
    <3>1. [pc |-> "boot", op |-> Len(op) + 1] \in [pc : {"idle", "boot", "update", "ack"}, op : 0..Len(op')]
      BY <2>1
    <3>2. \A d \in Client : ask[d] \in [pc : {"idle", "boot", "update", "ack"}, op : 0..Len(op')]
      <4>1. SUFFICES ASSUME NEW d \in Client PROVE ask[d] \in [pc : {"idle", "boot", "update", "ack"}, op : 0..Len(op')]
        OBVIOUS
      <4>2. ask[d] \in [pc : {"idle", "boot", "update", "ack"}, op : 0..Len(op)]
        BY <1>0 DEF Types
      <4>3. QED BY <2>1, <4>2
    <3>3. QED BY <1>0, <1>1, <3>1, <3>2 DEF Types
  <2>3. g' \in [pc : {"select", "leave", "expect", "check", "put"}, fn : Fn, op : 0..Len(op'), page : Page,
                then : {"page", "hundred", "success", "end"}]
    BY <1>0, <1>1, <2>1 DEF Types
  <2>4. out' \in [Client -> Seq(0..Len(op'))]
    <3>1. \A d \in Client : out[d] \in Seq(0..Len(op'))
      <4>1. SUFFICES ASSUME NEW d \in Client PROVE out[d] \in Seq(0..Len(op'))
        OBVIOUS
      <4>2. out[d] \in Seq(0..Len(op))
        BY <1>0 DEF Types
      <4>3. QED BY <2>1, <4>2
    <3>2. QED BY <1>0, <1>1, <3>1 DEF Types
  <2>5. QED BY <1>0, <1>1, <1>3, <2>1, <2>2, <2>3, <2>4 DEF Types
<1>5. \A o \in 1..Len(op') : o \in 1..Len(op) \/ o = Len(op) + 1
  BY <1>0, <1>3
<1>6. g.op # 0 => op'[g.op] = op[g.op]
  BY <1>0, <1>3, OpFacts
<1>7. Flow'
  <2>1. \A d \in Client : ask'[d].pc \in {"boot", "update"} => ask'[d].op # 0
    BY <1>0, <1>1 DEF Inv, Flow, Types, Operating
  <2>2. pendingFirmwareOperation' > g.op
    BY <1>0, <1>1, OpFacts
  <2>3. \A o \in 1..Len(op') : o > g.op => op'[o].progress = 0
    BY <1>3, <1>5 DEF Inv, Flow, Operating
  <2>4. QED BY <1>1, <1>6, <2>1, <2>2, <2>3 DEF Inv, Flow, Reporting, Sound, Operating
<1>8. Departure' /\ Ending'
  BY <1>0, <1>1, <1>6 DEF Inv, Flow, Departure, Ending, Reporting, Operating
<1>9. QED BY <1>1, <1>3, <1>4, <1>7, <1>8, Aside DEF Inv

(* The handler resets the report it has already given to the operation.    *)
LEMMA StepUploadUpdate ==
  ASSUME Inv, NEW c \in Client, UploadUpdate(c)
  PROVE  Inv'
<1>0. Types
  BY DEF Inv
<1>1. PICK o : o = ask[c].op
  OBVIOUS
<1>2. /\ UNCHANGED <<g, toNode, inputQueue, node, flash, overlap, stale, ignored, out, connected, broken, seen, departed, panic,
                     pendingFirmwareOperation>>
      /\ op' = [op EXCEPT ![o].progress = 0] /\ rewound' = IF op[o].progress # 0 THEN rewound \cup {o} ELSE rewound
      /\ ask' = [ask EXCEPT ![c].pc = "ack"] /\ ask[c].pc = "update"
  BY <1>1 DEF UploadUpdate, nodeVars, clientVars
<1>3. o \in 1..Len(op) /\ ask[c] \in [pc : {"idle", "boot", "update", "ack"}, op : 0..Len(op)]
  <2>1. ask[c] \in [pc : {"idle", "boot", "update", "ack"}, op : 0..Len(op)]
    BY <1>0 DEF Types
  <2>2. o \in 0..Len(op) /\ o # 0
    BY <1>1, <1>2, <2>1 DEF Inv, Flow, Operating
  <2>3. QED BY <2>1, <2>2
<1>4. /\ op' \in Seq(Operation) /\ Len(op') = Len(op) /\ op'[o].progress = 0
      /\ \A k \in 1..Len(op) : op'[k].client = op[k].client /\ op'[k].pages = op[k].pages
      /\ \A k \in 1..Len(op) : k # o => op'[k] = op[k]
  <2>1. 0 \in ProgressReport
    BY DEF ProgressReport
  <2>2. QED BY <1>0, <1>2, <1>3, <2>1, OpUpdate
<1>5. /\ ask' \in [Client -> [pc : {"idle", "boot", "update", "ack"}, op : 0..Len(op)]]
      /\ \A d \in Client : ask'[d].pc \in {"boot", "update"} => ask'[d].op # 0
  <2>1. /\ [ask[c] EXCEPT !.pc = "ack"] \in [pc : {"idle", "boot", "update", "ack"}, op : 0..Len(op)]
        /\ [ask[c] EXCEPT !.pc = "ack"].pc = "ack"
    BY <1>3
  <2>2. ask' = [ask EXCEPT ![c] = [ask[c] EXCEPT !.pc = "ack"]]
    BY <1>0, <1>2 DEF Types
  <2>3. QED BY <1>0, <2>1, <2>2 DEF Inv, Flow, Types, Operating
<1>6. Types'
  BY <1>0, <1>2, <1>4, <1>5 DEF Types
<1>7. \A k \in 1..Len(op) : op'[k].pages = op[k].pages /\ op'[k].client = op[k].client /\ op'[k].progress \in {op[k].progress, 0}
  BY <1>4
<1>8. g.op # 0 => /\ op'[g.op].pages = op[g.op].pages /\ op'[g.op].client = op[g.op].client
                  /\ op'[g.op].progress \in {op[g.op].progress, 0}
  BY <1>0, <1>7, OpFacts
<1>9. Flow'
  <2>1. \A k \in 1..Len(op') : k > g.op => op'[k].progress = 0
    BY <1>4, <1>7 DEF Inv, Flow, Operating
  <2>2. QED BY <1>2, <1>4, <1>5, <1>8, <2>1 DEF Inv, Flow, Reporting, Sound, ProgressSuccess, Operating
<1>10. Departure'
  <2>1. g.pc = "put" \/ panic => g.op # 0
    BY DEF Inv, Flow, Departure, Operating
  <2>2. QED BY <1>2, <1>8, <2>1 DEF Inv, Departure
<1>11. Ending'
  <2>1. SUFFICES ASSUME g.op # 0, g.op \notin rewound' PROVE Ending!2'
    BY <1>2 DEF Ending, Operating
  <2>2. g.op \notin rewound /\ op'[g.op].progress = op[g.op].progress
    <3>1. CASE g.op = o
      BY <1>2, <1>4, <2>1, <3>1
    <3>2. CASE g.op # o
      BY <1>0, <1>2, <1>4, <2>1, <3>2, OpFacts
    <3>3. QED BY <3>1, <3>2
  <2>3. Ending!2
    BY <2>1, <2>2 DEF Inv, Ending, Operating
  <2>4. QED BY <1>2, <1>8, <2>1, <2>2, <2>3 DEF Reporting, Operating
<1>12. QED BY <1>2, <1>6, <1>7, <1>9, <1>10, <1>11, Aside DEF Inv

(* Events are put into OutputChan and written to clients, which leave.     *)
LEMMA StepClient ==
  ASSUME Inv, NEW c \in Client, UploadAck(c) \/ ClientSender(c) \/ Leave(c)
  PROVE  Inv'
<1>0. /\ Types /\ out[c] \in Seq(0..Len(op)) /\ 0 \in 0..Len(op) /\ out \in [Client -> Seq(0..Len(op))]
      /\ connected \in [Client -> BOOLEAN]
  BY OpFacts DEF Inv, Types
<1>1. /\ UNCHANGED <<op, pendingFirmwareOperation, g, toNode, inputQueue, node, flash, overlap, stale, ignored, panic, rewound>>
  BY DEF UploadAck, ClientSender, Leave, nodeVars, clientVars
<1>2. /\ ask' \in [Client -> [pc : {"idle", "boot", "update", "ack"}, op : 0..Len(op)]]
      /\ \A d \in Client : ask'[d].pc \in {"boot", "update"} => ask'[d].op # 0
  <2>1. ask' = ask \/ ask' = [ask EXCEPT ![c] = [pc |-> "idle", op |-> 0]]
    BY DEF UploadAck, ClientSender, Leave
  <2>2. ask \in [Client -> [pc : {"idle", "boot", "update", "ack"}, op : 0..Len(op)]]
    BY <1>0 DEF Types
  <2>3. \A d \in Client : ask[d].pc \in {"boot", "update"} => ask[d].op # 0
    BY DEF Inv, Flow, Operating
  <2>4. CASE ask' = [ask EXCEPT ![c] = [pc |-> "idle", op |-> 0]]
    <3>1. [pc |-> "idle", op |-> 0] \in [pc : {"idle", "boot", "update", "ack"}, op : 0..Len(op)]
      BY <1>0
    <3>2. QED BY <2>2, <2>3, <2>4, <3>1
  <2>5. QED BY <2>1, <2>2, <2>3, <2>4
<1>3. Flow'
  BY <1>1, <1>2 DEF Inv, Flow, Reporting, Sound, Operating
<1>4. Pipeline' /\ Written' /\ StaleNeedsOverlap'
  BY <1>1, Aside
<1>5. ASSUME out' \in [Client -> Seq(0..Len(op))], connected' \in [Client -> BOOLEAN],
             seen' \in [1..MaxOps -> ProgressReport], Departure', Ending'
      PROVE  Inv'
  <2>1. Types'
    BY <1>0, <1>1, <1>2, <1>5 DEF Types
  <2>2. QED BY <1>3, <1>4, <1>5, <2>1 DEF Inv
<1>6. CASE UploadAck(c)
  <2>1. out' = [out EXCEPT ![c] = Append(out[c], 0)] /\ UNCHANGED <<connected, broken, seen, departed>>
    BY <1>6 DEF UploadAck
  <2>2. Append(out[c], 0) \in Seq(0..Len(op)) /\ In(Append(out[c], 0)) = In(out[c]) \cup {0}
    BY <1>0, InFacts
  <2>3. out' \in [Client -> Seq(0..Len(op))] /\ \A d \in Client : In(out[d]) \subseteq In(out'[d])
    BY <1>0, <2>1, <2>2
  <2>4. Departure'
    BY <1>1, <2>1 DEF Inv, Departure
  <2>5. Ending'
    <3>1. g.op # 0 => op[g.op].client \in Client
      BY <1>0, OpFacts
    <3>2. QED BY <1>1, <2>1, <2>3, <3>1 DEF Inv, Ending, Reporting, Operating
  <2>6. QED BY <1>0, <1>5, <2>1, <2>3, <2>4, <2>5 DEF Types
<1>7. CASE ClientSender(c)
  <2>0. PICK o : o = Head(out[c])
    OBVIOUS
  <2>1. /\ out' = [out EXCEPT ![c] = Tail(out[c])] /\ UNCHANGED <<connected, departed>> /\ out[c] # <<>>
        /\ \/ seen' = (IF o = 0 THEN seen ELSE [seen EXCEPT ![o] = op[o].progress]) /\ broken' = broken
           \/ broken' = broken \cup {c} /\ seen' = seen
    BY <1>7, <2>0 DEF ClientSender
  <2>2. Tail(out[c]) \in Seq(0..Len(op)) /\ In(out[c]) = In(Tail(out[c])) \cup {o} /\ o \in 0..Len(op)
    BY <1>0, <2>0, <2>1, InFacts
  <2>3. out' \in [Client -> Seq(0..Len(op))] /\ \A d \in Client : In(out[d]) \subseteq In(out'[d]) \cup {o}
    BY <1>0, <2>1, <2>2
  <2>4. /\ seen' \in [1..MaxOps -> ProgressReport]
        /\ o # 0 => seen'[o] = op[o].progress \/ (c \in broken' /\ seen'[o] = seen[o])
        /\ broken \subseteq broken'
        /\ \A k \in 1..MaxOps : k # o => seen'[k] = seen[k]
    <3>1. CASE o = 0
      BY <1>0, <2>1, <3>1 DEF Types
    <3>2. CASE o # 0
      <4>1. o \in 1..Len(op) /\ o \in 1..MaxOps
        BY <1>0, <2>2, <3>2, OpFacts DEF Types
      <4>2. op[o].progress \in ProgressReport
        BY <1>0, <4>1, OpFacts DEF Operation
      <4>3. QED BY <1>0, <2>1, <3>2, <4>1, <4>2 DEF Types
    <3>3. QED BY <3>1, <3>2
  <2>5. \A d \in Client : d # c => out'[d] = out[d]
    BY <1>0, <2>1
  <2>6. Departure'
    BY <1>1, <2>1 DEF Inv, Departure
  <2>7. Ending'
    <3>1. g.op # 0 => op[g.op].client \in Client /\ g.op \in 1..MaxOps
      BY <1>0, OpFacts DEF Types
    <3>2. SUFFICES ASSUME g.op # 0, g.op \notin rewound PROVE Ending!2'
      BY <1>1 DEF Ending
    <3>3. Ending!2
      BY <3>2 DEF Inv, Ending
    <3>4. PICK d \in Client : d = op[g.op].client
      BY <3>1, <3>2
    <3>5. g.op # o => seen'[g.op] = seen[g.op]
      BY <2>4, <3>1, <3>2
    <3>6. op[g.op].progress \in Final /\ g.op = o => seen'[g.op] \in Final \/ (c \in broken' /\ seen'[g.op] = seen[g.op])
      BY <2>4, <3>2
    <3>7. g.op \in In(out[d]) => g.op \in In(out'[d]) \/ (d = c /\ g.op = o)
      BY <2>3, <2>5
    <3>8. op[g.op].progress \in Final /\ (g.op \in In(out[d]) \/ seen[g.op] \in Final \/ d \in broken)
            => g.op \in In(out'[d]) \/ seen'[g.op] \in Final \/ d \in broken'
      BY <2>4, <3>5, <3>6, <3>7
    <3>9. QED BY <1>1, <2>1, <3>3, <3>4, <3>8 DEF Reporting, Operating
  <2>8. QED BY <1>0, <1>5, <2>1, <2>3, <2>4, <2>6, <2>7
<1>8. CASE Leave(c)
  <2>1. /\ connected' = [connected EXCEPT ![c] = FALSE] /\ out' = [out EXCEPT ![c] = <<>>] /\ seen' = seen /\ broken' = broken /\ ~panic
        /\ departed' = IF Operating /\ op[g.op].client = c THEN departed \cup {c} ELSE departed
    BY <1>8 DEF Leave
  <2>2. out' \in [Client -> Seq(0..Len(op))] /\ connected' \in [Client -> BOOLEAN]
    BY <1>0, <2>1
  <2>3. \A d \in Client : d # c => out'[d] = out[d] /\ connected'[d] = connected[d]
    BY <1>0, <2>1
  <2>4. ~connected'[c]
    BY <1>0, <2>1
  <2>5. g.op # 0 => op[g.op].client \in Client
    BY <1>0, OpFacts
  <2>6. Departure'
    BY <1>1, <2>1, <2>3, <2>5 DEF Inv, Flow, Departure, Operating
  <2>7. Ending'
    BY <1>1, <2>1, <2>3, <2>4, <2>5 DEF Inv, Ending, Reporting, Operating
  <2>8. QED BY <1>0, <1>5, <2>1, <2>2, <2>6, <2>7 DEF Types
<1>9. QED BY <1>6, <1>7, <1>8
-----------------------------------------------------------------------------
(* The messages without an operation.                                      *)
LEMMA MsgFacts ==
  /\ \A fn \in {"boot", "leave", "other"} :
       Msg(fn, 0, 0) \in Message /\ Msg(fn, 0, 0).op = 0 /\ Msg(fn, 0, 0).fn = fn
  /\ \A fn \in Fn, o \in Op, p \in Page :
       /\ Msg(fn, o, p) \in Message /\ Msg(fn, o, p).op = o
       /\ Msg(fn, o, p).fn = fn /\ Msg(fn, o, p).page = p
  /\ \A m \in Message : m.fn \in Fn /\ m.op \in Op /\ m.page \in Page /\ m.op \in Nat /\ m.page \in Nat
<1>0. MaxOps \in Nat /\ MaxPages \in Nat
  BY FirmwareAssumption
<1>1. \A fn \in Fn, o \in Op, p \in Page :
       /\ Msg(fn, o, p) \in Message /\ Msg(fn, o, p).op = o
       /\ Msg(fn, o, p).fn = fn /\ Msg(fn, o, p).page = p
  BY DEF Msg, Message
<1>2. 0 \in Op /\ 0 \in Page /\ {"boot", "leave", "other"} \subseteq Fn
  BY <1>0 DEF Op, Page, Fn
<1>3. ASSUME NEW m \in Message
      PROVE  m.fn \in Fn /\ m.op \in Op /\ m.page \in Page /\ m.op \in Nat /\ m.page \in Nat
  <2>1. m.fn \in Fn /\ m.op \in Op /\ m.page \in Page
    BY DEF Message
  <2>2. QED BY <1>0, <2>1 DEF Op, Page
<1>4. QED BY <1>1, <1>2, <1>3

(* The node is asked to start its bootloader.                              *)
LEMMA StepBoot ==
  ASSUME Inv, NEW c \in Client, UploadBoot(c) \/ Reboot(c)
  PROVE  Inv'
<1>0. Types /\ toNode \in Seq(Message) /\ inputQueue \in Seq(Message)
  BY DEF Inv, Types
<1>1. PICK b \in Message : b = Msg("boot", 0, 0) /\ b.op = 0 /\ b.fn = "boot"
  BY MsgFacts
<1>2. /\ UNCHANGED <<op, pendingFirmwareOperation, g, inputQueue, node, flash, out, connected, broken, seen, departed, panic,
                     rewound, ignored, stale>>
      /\ toNode' = Append(toNode, b)
      /\ overlap' = (overlap \/ Operating \/ \E m \in Range(toNode \o inputQueue) : m.fn = "boot")
  BY <1>1 DEF UploadBoot, Reboot, RequestBoot, Starting, nodeVars, clientVars
<1>3. toNode' \in Seq(Message) /\ In(toNode') = In(toNode) \cup {b}
  BY <1>0, <1>2, InFacts
<1>4. overlap => overlap'
  BY <1>2, Zenon
<1>5. ~overlap' => ~overlap /\ ~Operating /\ \A m \in Pipe : m.fn # "boot"
  <2>1. Range(toNode \o inputQueue) = In(toNode) \cup In(inputQueue)
    BY <1>0, RangeFacts
  <2>2. ~overlap' => ~overlap /\ ~Operating /\ \A m \in Range(toNode \o inputQueue) : m.fn # "boot"
    BY <1>2, Zenon
  <2>3. QED BY <2>1, <2>2 DEF Pipe
<1>6. /\ ask' \in [Client -> [pc : {"idle", "boot", "update", "ack"}, op : 0..Len(op)]]
      /\ \A d \in Client : ask'[d].pc \in {"boot", "update"} => ask'[d].op # 0
  <2>1. /\ ask \in [Client -> [pc : {"idle", "boot", "update", "ack"}, op : 0..Len(op)]]
        /\ \A d \in Client : ask[d].pc \in {"boot", "update"} => ask[d].op # 0
    BY DEF Inv, Types, Flow, Operating
  <2>2. PICK r \in [pc : {"idle", "boot", "update", "ack"}, op : 0..Len(op)] :
          ask' = [ask EXCEPT ![c] = r] /\ (r.pc \in {"boot", "update"} => r.op # 0)
    <3>1. CASE UploadBoot(c)
      <4>1. ask[c] \in [pc : {"idle", "boot", "update", "ack"}, op : 0..Len(op)] /\ ask[c].op # 0
        BY <2>1, <3>1 DEF UploadBoot
      <4>2. /\ [ask[c] EXCEPT !.pc = "update"] \in [pc : {"idle", "boot", "update", "ack"}, op : 0..Len(op)]
            /\ [ask[c] EXCEPT !.pc = "update"].op = ask[c].op
        BY <4>1
      <4>3. ask' = [ask EXCEPT ![c] = [ask[c] EXCEPT !.pc = "update"]]
        BY <2>1, <3>1 DEF UploadBoot
      <4>4. QED BY <4>1, <4>2, <4>3
    <3>2. CASE Reboot(c)
      <4>1. [pc |-> "ack", op |-> 0] \in [pc : {"idle", "boot", "update", "ack"}, op : 0..Len(op)]
        BY <1>0, OpFacts
      <4>2. QED BY <3>2, <4>1 DEF Reboot
    <3>3. QED BY <3>1, <3>2
  <2>3. QED BY <2>1, <2>2
<1>7. Types'
  BY <1>0, <1>2, <1>3, <1>6 DEF Types
<1>8. Flow'
  <2>1. g.op \in Nat
    BY <1>0, OpFacts
  <2>2. \A m \in In(inputQueue') \cup In(toNode') : Sound(m)'
    BY <1>1, <1>2, <1>3, <2>1 DEF Inv, Flow, Sound, Work, Operating
  <2>3. QED BY <1>2, <1>6, <2>2 DEF Inv, Flow, Reporting, Operating
<1>9. Departure' /\ Ending'
  BY <1>2 DEF Inv, Departure, Ending, Reporting, Operating
<1>10. Pipeline'
  <2>1. Chains(overlap', stale, inputQueue, toNode)
    BY <1>4, ChainsWeaker DEF Inv, Pipeline, Operating
  <2>2. \A a \in In(inputQueue) \cup In(toNode) : Fits(overlap', stale, a, b)
    BY <1>1, <1>5 DEF Fits, Work, Pipe
  <2>3. Chains(overlap', stale, inputQueue, Append(toNode, b))
    BY <1>0, <2>1, <2>2, ChainsFacts
  <2>4. Pipe' = Pipe \cup {b}
    BY <1>2, <1>3 DEF Pipe
  <2>5. Operating => g.op # 0
    BY DEF Inv, Flow, Operating
  <2>6. QED BY <1>1, <1>2, <1>5, <2>3, <2>4, <2>5 DEF Inv, Pipeline, Reporting, Same, Operating
<1>11. Written'
  BY <1>1, <1>2, <1>3 DEF Inv, Written, Reporting, Succeeded, Holds, Same, Work, Operating
<1>12. StaleNeedsOverlap'
  BY <1>2, <1>4 DEF Inv, StaleNeedsOverlap
<1>13. QED BY <1>7, <1>8, <1>9, <1>10, <1>11, <1>12 DEF Inv
-----------------------------------------------------------------------------
(* What carrying out a message changes in the node.                        *)
LEMMA NodeDoFacts ==
  ASSUME Types, NEW m \in Message, NodeDo(m)
  PROVE  /\ node' \in [boot : BOOLEAN, address : Page, buffer : Op]
         /\ flash' \in [1..MaxPages -> Op]
         /\ m.fn = "address" => node'.address = m.page
         /\ m.fn # "address" => node'.address \in {0, node.address}
         /\ m.fn \notin {"erase", "crc"} => flash' = flash
         /\ m.fn = "crc" => \A q \in 1..MaxPages : flash'[q] \in {flash[q], m.op}
         /\ m.fn = "crc" /\ Matches(m) => flash'[node.address] = m.op
<1>0. /\ node \in [boot : BOOLEAN, address : Page, buffer : Op] /\ flash \in [1..MaxPages -> Op]
      /\ MaxPages \in Nat /\ MaxOps \in Nat
  BY OpFacts DEF Types
<1>1. m.op \in Op /\ m.page \in Page /\ 0 \in Page /\ 0 \in Op
  BY <1>0, MsgFacts DEF Page, Op
<1>2. PICK r : r = [Restarted EXCEPT !.boot = TRUE]
  OBVIOUS
<1>3. Restarted \in [boot : BOOLEAN, address : Page, buffer : Op] /\ Restarted.address = 0
  BY <1>1 DEF Restarted
<1>4. r \in [boot : BOOLEAN, address : Page, buffer : Op] /\ r.address = 0
  BY <1>2, <1>3
<1>5. /\ [node EXCEPT !.address = m.page] \in [boot : BOOLEAN, address : Page, buffer : Op]
      /\ [node EXCEPT !.address = m.page].address = m.page
  BY <1>0, <1>1
<1>6. \A o \in Op : /\ [node EXCEPT !.buffer = o] \in [boot : BOOLEAN, address : Page, buffer : Op]
                    /\ [node EXCEPT !.buffer = o].address = node.address
  BY <1>0, <1>1
<1>7. node' = CASE m.fn = "boot" -> r
                [] m.fn = "leave" -> Restarted
                [] m.fn = "address" -> [node EXCEPT !.address = m.page]
                [] m.fn = "write" -> [node EXCEPT !.buffer = m.op]
                [] m.fn = "crc" -> [node EXCEPT !.buffer = 0]
                [] OTHER -> node
  BY <1>2 DEF NodeDo
<1>8. /\ node' \in [boot : BOOLEAN, address : Page, buffer : Op]
      /\ m.fn = "address" => node'.address = m.page
      /\ m.fn # "address" => node'.address \in {0, node.address}
  BY <1>0, <1>1, <1>3, <1>4, <1>5, <1>6, <1>7
<1>9. flash' = CASE m.fn = "erase" -> [p \in 1..MaxPages |-> 0]
                 [] m.fn = "crc" /\ Matches(m) -> [flash EXCEPT ![node.address] = m.op]
                 [] OTHER -> flash
  BY DEF NodeDo
<1>10. CASE m.fn = "crc" /\ Matches(m)
  <2>1. node.address \in 1..MaxPages
    BY <1>0, <1>10 DEF Matches, Page
  <2>2. flash' = [flash EXCEPT ![node.address] = m.op]
    BY <1>9, <1>10
  <2>3. QED BY <1>0, <1>1, <1>8, <1>10, <2>1, <2>2
<1>11. CASE m.fn = "erase"
  <2>1. flash' = [p \in 1..MaxPages |-> 0]
    BY <1>9, <1>11
  <2>2. QED BY <1>1, <1>8, <1>11, <2>1
<1>12. CASE m.fn # "erase" /\ ~(m.fn = "crc" /\ Matches(m))
  <2>1. flash' = flash
    BY <1>9, <1>12
  <2>2. QED BY <1>0, <1>8, <1>12, <2>1
<1>13. QED BY <1>10, <1>11, <1>12

Like(x, m) == x.fn = m.fn /\ x.op = m.op /\ x.page = m.page

(* The node takes a message m, or it is lost on the way; the node answers, *)
(* or the answer is lost.  An answer with the code for success is an       *)
(* answer to what was carried out, except to a write.                      *)
Takes(m) ==
  /\ toNode # <<>> /\ m = Head(toNode) /\ toNode' = Tail(toNode)
  /\ UNCHANGED nodeVars \/ NodeDo(m)
  /\ \/ inputQueue' = inputQueue
     \/ \E x \in Message : /\ inputQueue' = Append(inputQueue, x) /\ Like(x, m)
                           /\ x.ok => m.fn = "write" \/ (NodeDo(m) /\ (m.fn = "crc" => Matches(m)))

Strays == /\ inputQueue' = Append(inputQueue, Msg("other", 0, 0))
          /\ UNCHANGED <<toNode, nodeVars>>

(* The node restarts and does not say so, or does.                         *)
Silent == /\ node' \in {Restarted, [Restarted EXCEPT !.boot = TRUE]}
          /\ UNCHANGED <<toNode, inputQueue, flash>>
Announces ==
  /\ node' = [Restarted EXCEPT !.boot = TRUE] /\ UNCHANGED <<toNode, flash>>
  /\ inputQueue' = Append(inputQueue, Msg("boot", 0, 0))
  /\ overlap' = (overlap \/ Starting \/ \E m \in Range(toNode) : m.op # 0)

(* What the node and the bus do.                                           *)
LEMMA NodeKinds ==
  ASSUME Types, NodeTake \/ Fault
  PROVE  (((\E m \in Message : Takes(m)) \/ Strays \/ Silent) /\ UNCHANGED overlap) \/ (Fault /\ Announces)
<1>0. toNode \in Seq(Message) /\ inputQueue \in Seq(Message)
  BY DEF Types
<1>1. PICK m : m = Head(toNode)
  OBVIOUS
<1>2. toNode # <<>> => m \in Message
  BY <1>0, <1>1
<1>3. ASSUME m \in Message, NEW v \in BOOLEAN
      PROVE  /\ [m EXCEPT !.ok = v] \in Message /\ Like([m EXCEPT !.ok = v], m)
             /\ [m EXCEPT !.ok = v].ok = v
  BY <1>3 DEF Message, Like
<1>4. ASSUME NodeTake, m \in Message, Takes(m)
      PROVE  (\E n \in Message : Takes(n)) /\ UNCHANGED overlap
  BY <1>4 DEF NodeTake
<1>5. CASE NodeTake
  <2>1. toNode # <<>> /\ toNode' = Tail(toNode) /\ m \in Message
    BY <1>1, <1>2, <1>5 DEF NodeTake
  <2>2. CASE NodeKnows(m)
    <3>1. PICK v \in BOOLEAN : v = (m.fn = "crc" => Matches(m))
      OBVIOUS
    <3>2. NodeDo(m) /\ inputQueue' = Append(inputQueue, [m EXCEPT !.ok = v])
      BY <1>1, <1>5, <2>2, <3>1 DEF NodeTake, Answer
    <3>3. Takes(m)
      BY <1>1, <1>3, <2>1, <3>1, <3>2 DEF Takes
    <3>4. QED BY <1>4, <1>5, <2>1, <3>3
  <2>3. CASE ~NodeKnows(m)
    <3>1. UNCHANGED <<inputQueue, nodeVars>>
      BY <1>1, <1>5, <2>3 DEF NodeTake
    <3>2. Takes(m)
      BY <1>1, <2>1, <3>1 DEF Takes
    <3>3. QED BY <1>4, <1>5, <2>1, <3>2
  <2>4. QED BY <2>2, <2>3
<1>6. CASE Fault
  <2>1. CASE toNode # <<>> /\ toNode' = Tail(toNode) /\ UNCHANGED <<inputQueue, nodeVars, overlap>>
    BY <1>1, <1>2, <2>1 DEF Takes
  <2>2. CASE /\ toNode # <<>> /\ toNode' = Tail(toNode)
             /\ Answer([m EXCEPT !.ok = m.fn = "write"]) /\ UNCHANGED <<nodeVars, overlap>>
    <3>1. PICK v \in BOOLEAN : v = (m.fn = "write")
      OBVIOUS
    <3>2. inputQueue' = Append(inputQueue, [m EXCEPT !.ok = v])
      BY <2>2, <3>1 DEF Answer
    <3>3. Takes(m)
      BY <1>1, <1>2, <1>3, <2>2, <3>1, <3>2 DEF Takes
    <3>4. QED BY <1>2, <2>2, <3>3
  <2>3. CASE toNode # <<>> /\ toNode' = Tail(toNode) /\ NodeDo(m) /\ UNCHANGED <<inputQueue, overlap>>
    BY <1>1, <1>2, <2>3 DEF Takes
  <2>4. CASE Silent /\ UNCHANGED overlap
    BY <2>4
  <2>5. CASE Announces
    BY <1>6, <2>5
  <2>6. CASE Answer(Msg("other", 0, 0)) /\ UNCHANGED <<toNode, nodeVars, overlap>>
    BY <2>6 DEF Strays, Answer
  <2>7. Restart /\ UNCHANGED <<toNode, flash>> => (Silent /\ UNCHANGED overlap) \/ Announces
    BY DEF Restart, Silent, Announces, Answer
  <2>8. QED BY <1>1, <1>6, <2>1, <2>2, <2>3, <2>4, <2>5, <2>6, <2>7 DEF Fault
<1>7. QED BY <1>5, <1>6

(* What the node's steps leave of the messages.                            *)
LEMMA NodePipe ==
  ASSUME Inv, (\E m \in Message : Takes(m)) \/ Strays \/ Silent, UNCHANGED <<overlap, stale>>
  PROVE  /\ toNode' \in Seq(Message) /\ inputQueue' \in Seq(Message)
         /\ In(toNode') \subseteq In(toNode)
         /\ \A x \in In(inputQueue') : \/ x \in In(inputQueue)
                                       \/ x.fn = "other" /\ x.op = 0
                                       \/ \E m \in In(toNode) : Like(x, m)
         /\ Chains(overlap, stale, inputQueue', toNode')
<1>0. toNode \in Seq(Message) /\ inputQueue \in Seq(Message) /\ Chains(overlap, stale, inputQueue, toNode)
  BY DEF Inv, Types, Pipeline, Operating
<1>1. CASE Silent
  BY <1>0, <1>1 DEF Silent
<1>2. CASE Strays
  <2>1. PICK x \in Message : x = Msg("other", 0, 0) /\ x.fn = "other" /\ x.op = 0
    BY MsgFacts
  <2>2. inputQueue' = Append(inputQueue, x) /\ toNode' = toNode
    BY <1>2, <2>1 DEF Strays
  <2>3. inputQueue' \in Seq(Message) /\ In(inputQueue') = In(inputQueue) \cup {x}
    BY <1>0, <2>2, InFacts
  <2>4. \A a : Fits(overlap, stale, a, x) /\ Fits(overlap, stale, x, a)
    BY <2>1 DEF Fits, Work
  <2>5. QED BY <1>0, <2>1, <2>2, <2>3, <2>4, ChainsFacts
<1>3. ASSUME NEW m \in Message, Takes(m)
      PROVE  /\ toNode' \in Seq(Message) /\ inputQueue' \in Seq(Message)
             /\ In(toNode') \subseteq In(toNode)
             /\ \A x \in In(inputQueue') : x \in In(inputQueue) \/ \E n \in In(toNode) : Like(x, n)
             /\ Chains(overlap, stale, inputQueue', toNode')
  <2>1. toNode # <<>> /\ m = Head(toNode) /\ toNode' = Tail(toNode)
    BY <1>3 DEF Takes
  <2>2. toNode' \in Seq(Message) /\ In(toNode) = In(toNode') \cup {m}
    BY <1>0, <2>1, InFacts
  <2>3. CASE inputQueue' = inputQueue
    BY <1>0, <2>1, <2>2, <2>3, ChainsFacts
  <2>4. ASSUME NEW x \in Message, inputQueue' = Append(inputQueue, x), Like(x, m)
        PROVE  /\ inputQueue' \in Seq(Message)
               /\ \A y \in In(inputQueue') : y \in In(inputQueue) \/ \E n \in In(toNode) : Like(y, n)
               /\ Chains(overlap, stale, inputQueue', toNode')
    <3>1. inputQueue' \in Seq(Message) /\ In(inputQueue') = In(inputQueue) \cup {x}
      BY <1>0, <2>4, InFacts
    <3>2. Chains(overlap, stale, Append(inputQueue, x), Tail(toNode))
      BY <1>0, <2>1, <2>4, ChainsMove DEF Like
    <3>3. QED BY <2>1, <2>2, <2>4, <3>1, <3>2
  <2>5. QED BY <1>3, <2>2, <2>3, <2>4 DEF Takes
<1>4. QED BY <1>1, <1>2, <1>3

(* The node only does what the operation has asked for last.               *)
LEMMA NodeWrites ==
  ASSUME Inv, NEW m \in Message, Takes(m), UNCHANGED <<op, g, ignored, stale>>
  PROVE  Written'
<1>0. /\ Types /\ toNode \in Seq(Message) /\ inputQueue \in Seq(Message)
      /\ node \in [boot : BOOLEAN, address : Page, buffer : Op] /\ flash \in [1..MaxPages -> Op]
      /\ g.page \in Page /\ MaxPages \in Nat
  BY OpFacts DEF Inv, Types
<1>1. toNode # <<>> /\ m = Head(toNode) /\ toNode' = Tail(toNode)
  BY DEF Takes
<1>2. In(toNode) = In(toNode') \cup {m}
  BY <1>0, <1>1, InFacts
<1>3. Sound(m) /\ m.op \in Nat /\ m.page \in Page
  BY <1>2, MsgFacts DEF Inv, Flow, Operating
<1>4. \A x \in In(inputQueue') :
        x \in In(inputQueue) \/ (Like(x, m) /\ (x.ok => m.fn = "write" \/ (NodeDo(m) /\ (m.fn = "crc" => Matches(m)))))
  <2>1. CASE inputQueue' = inputQueue
    BY <2>1
  <2>2. ASSUME NEW x \in Message, inputQueue' = Append(inputQueue, x)
        PROVE  \A y \in In(inputQueue') : y \in In(inputQueue) \/ y = x
    BY <1>0, <2>2, InFacts
  <2>3. QED BY <2>1, <2>2 DEF Takes
<1>5. /\ m.fn = "address" => node'.address \in {node.address, m.page}
      /\ m.fn # "address" => node'.address \in {0, node.address}
      /\ m.fn \notin {"erase", "crc"} => flash' = flash
      /\ m.fn = "crc" => \A q \in 1..MaxPages : flash'[q] \in {flash[q], m.op}
      /\ NodeDo(m) => /\ m.fn = "address" => node'.address = m.page
                      /\ m.fn = "crc" /\ Matches(m) => flash'[node.address] = m.op
  BY <1>0, NodeDoFacts DEF Takes, nodeVars
<1>6. SUFFICES ASSUME ~stale PROVE Written!2'
  BY DEF Written
<1>7. Written!2
  BY <1>6 DEF Inv, Written
<1>8. /\ g.pc = "expect" /\ g.fn # "signature" => \A n \in In(toNode') : Work(n) => Same(n)'
      /\ Reporting({"page", "hundred", "success"})' \/ Succeeded' => \A n \in In(toNode') : ~Work(n)
  BY <1>2, <1>7 DEF Reporting, Succeeded, Same, Operating
<1>9. SUFFICES ASSUME ~ignored PROVE Written!2!3!2'
  BY <1>6, <1>8 DEF Reporting, Succeeded, Same, Work, Operating
<1>10. Written!2!3!2
  BY <1>7, <1>9
<1>11. g.op # 0 => op[g.op].pages \in 1..MaxPages
  BY <1>0, OpFacts
<1>12. g.pc = "expect" => g.op # 0
  BY DEF Inv, Flow, Operating
<1>13. CASE g.pc = "expect" /\ g.fn \in {"address", "write", "crc"}
  <2>1. Work(m) => Same(m)
    BY <1>2, <1>7, <1>13
  <2>2. ~Work(m) => m.fn \in {"boot", "leave", "other"}
    BY <1>3 DEF Sound
  <2>3. g.fn = "address" => node'.address \in {node.address, g.page, 0}
    BY <1>5, <2>1, <2>2, <1>13 DEF Same
  <2>4. g.fn \in {"write", "crc"} => node'.address \in {node.address, 0}
    BY <1>5, <2>1, <2>2, <1>13 DEF Same
  <2>5. \A q \in 1..MaxPages : flash'[q] \in {flash[q], g.op}
    BY <1>5, <2>1, <2>2, <1>13 DEF Same
  <2>6. \A q \in 1..(g.page - 1) : q \in 1..MaxPages
    BY <1>0 DEF Page
  <2>7. Holds(g.page - 1)'
    BY <1>10, <1>13, <2>5, <2>6 DEF Holds
  <2>8. g.fn = "address" /\ g.page > 0 =>
          \A x \in In(inputQueue') : x.op = g.op /\ x.ok => node'.address \in {0, g.page}
    <3>1. SUFFICES ASSUME g.fn = "address", g.page > 0, NEW x \in In(inputQueue'), x.op = g.op, x.ok
                   PROVE  node'.address \in {0, g.page}
      OBVIOUS
    <3>2. CASE x \in In(inputQueue)
      BY <1>10, <1>13, <2>3, <3>1, <3>2
    <3>3. CASE x \notin In(inputQueue)
      BY <1>4, <1>5, <1>12, <1>13, <2>1, <3>1, <3>3 DEF Like, Work, Same
    <3>4. QED BY <3>2, <3>3
  <2>9. g.fn = "crc" => \A x \in In(inputQueue') : x.op = g.op /\ x.ok => flash'[g.page] = g.op
    <3>1. SUFFICES ASSUME g.fn = "crc", NEW x \in In(inputQueue'), x.op = g.op, x.ok
                   PROVE  flash'[g.page] = g.op
      OBVIOUS
    <3>2. CASE x \in In(inputQueue)
      <4>1. g.page \in 1..MaxPages
        BY <1>0, <1>11, <1>12, <1>13, <3>1 DEF Inv, Flow, Operating
      <4>2. QED BY <1>10, <1>13, <2>5, <3>1, <3>2, <4>1
    <3>3. CASE x \notin In(inputQueue)
      <4>1. NodeDo(m) /\ m.fn = "crc" /\ Matches(m) /\ m.op = g.op
        BY <1>4, <1>12, <1>13, <2>1, <3>1, <3>3 DEF Like, Work, Same
      <4>2. node.address = g.page
        BY <1>0, <1>10, <1>13, <3>1, <4>1 DEF Matches
      <4>3. QED BY <1>5, <4>1, <4>2
    <3>4. QED BY <3>2, <3>3
  <2>10. QED BY <1>10, <1>13, <2>4, <2>7, <2>8, <2>9 DEF Reporting, Succeeded, Operating
<1>14. CASE Reporting({"page", "hundred", "success"}) \/ Succeeded
  <2>1. ~Work(m)
    BY <1>2, <1>7, <1>14
  <2>2. flash' = flash
    BY <1>3, <1>5, <2>1 DEF Sound
  <2>3. QED BY <1>10, <1>14, <2>2 DEF Reporting, Succeeded, Holds, Operating
<1>15. QED BY <1>13, <1>14 DEF Reporting, Succeeded, Operating

(* The node and the bus, without a word that the node starts.              *)
LEMMA StepQuiet ==
  ASSUME Inv, NodeTake \/ Fault, (\E m \in Message : Takes(m)) \/ Strays \/ Silent, UNCHANGED overlap
  PROVE  Inv'
<1>0. Types /\ toNode \in Seq(Message) /\ inputQueue \in Seq(Message) /\ g.op \in Nat
  BY OpFacts DEF Inv, Types
<1>1. UNCHANGED <<op, pendingFirmwareOperation, ask, g, out, connected, broken, seen, departed, panic, rewound, ignored,
                  stale, overlap>>
  BY DEF NodeTake, Fault, clientVars
<1>2. (\E m \in Message : Takes(m)) \/ Strays \/ Silent
  OBVIOUS
<1>3. /\ toNode' \in Seq(Message) /\ inputQueue' \in Seq(Message) /\ In(toNode') \subseteq In(toNode)
      /\ \A x \in In(inputQueue') : \/ x \in In(inputQueue)
                                    \/ x.fn = "other" /\ x.op = 0
                                    \/ \E m \in In(toNode) : Like(x, m)
      /\ Chains(overlap, stale, inputQueue', toNode')
  BY <1>1, <1>2, NodePipe
<1>4. \A x \in Pipe' : (x.fn = "other" /\ x.op = 0) \/ \E m \in Pipe : Like(x, m)
  BY <1>3 DEF Pipe, Like
<1>5. node' \in [boot : BOOLEAN, address : Page, buffer : Op] /\ flash' \in [1..MaxPages -> Op]
  <2>1. node \in [boot : BOOLEAN, address : Page, buffer : Op] /\ flash \in [1..MaxPages -> Op]
    BY <1>0 DEF Types
  <2>2. CASE Strays
    BY <2>1, <2>2 DEF Strays, nodeVars
  <2>3. CASE Silent
    <3>1. 0 \in Page /\ 0 \in Op
      BY FirmwareAssumption DEF Page, Op
    <3>2. PICK r : r = [Restarted EXCEPT !.boot = TRUE]
      OBVIOUS
    <3>3. /\ Restarted \in [boot : BOOLEAN, address : Page, buffer : Op]
          /\ r \in [boot : BOOLEAN, address : Page, buffer : Op]
      BY <3>1, <3>2 DEF Restarted
    <3>4. QED BY <2>1, <2>3, <3>2, <3>3 DEF Silent
  <2>4. ASSUME NEW m \in Message, Takes(m)
        PROVE  node' \in [boot : BOOLEAN, address : Page, buffer : Op] /\ flash' \in [1..MaxPages -> Op]
    BY <1>0, <2>1, <2>4, NodeDoFacts DEF Takes, nodeVars
  <2>5. QED BY <1>2, <2>2, <2>3, <2>4
<1>6. Types'
  BY <1>0, <1>1, <1>3, <1>5 DEF Types
<1>7. Flow'
  <2>1. \A x \in In(inputQueue') \cup In(toNode') : Sound(x)
    BY <1>0, <1>4 DEF Inv, Flow, Sound, Work, Like, Pipe, Operating
  <2>2. QED BY <1>1, <2>1 DEF Inv, Flow, Reporting, Sound, Operating
<1>8. Pipeline'
  <2>1. Operating => g.op # 0
    BY DEF Inv, Flow, Operating
  <2>2. Pipeline!2 /\ Pipeline!3
    BY DEF Inv, Pipeline, Operating
  <2>3. Pipeline!2'
    BY <1>1, <1>4, <2>2 DEF Reporting, Same, Like, Work, Operating
  <2>4. Pipeline!3'
    BY <1>1, <1>4, <2>1, <2>2 DEF Reporting, Same, Like, Work, Operating
  <2>5. QED BY <1>1, <1>3, <2>3, <2>4 DEF Pipeline, Operating
<1>9. Written'
  <2>1. CASE Silent
    <3>1. node'.address = 0 /\ UNCHANGED <<toNode, inputQueue, flash>>
      BY <2>1 DEF Silent, Restarted
    <3>2. QED BY <1>1, <3>1 DEF Inv, Written, Reporting, Succeeded, Holds, Same, Operating
  <2>2. CASE Strays
    <3>1. PICK x \in Message : x = Msg("other", 0, 0) /\ x.op = 0
      BY MsgFacts
    <3>2. In(inputQueue') = In(inputQueue) \cup {x} /\ UNCHANGED <<toNode, node, flash>>
      BY <1>0, <2>2, <3>1, InFacts DEF Strays, nodeVars
    <3>3. g.pc = "expect" => g.op # 0
      BY DEF Inv, Flow, Operating
    <3>4. QED BY <1>1, <3>1, <3>2, <3>3 DEF Inv, Written, Reporting, Succeeded, Holds, Same, Operating
  <2>3. QED BY <1>1, <1>2, <2>1, <2>2, NodeWrites
<1>10. Departure' /\ Ending' /\ StaleNeedsOverlap'
  BY <1>1 DEF Inv, Departure, Ending, Reporting, StaleNeedsOverlap, Operating
<1>11. QED BY <1>6, <1>7, <1>8, <1>9, <1>10 DEF Inv
(* The node starts its bootloader by itself, and says so.                  *)
LEMMA StepAnnounces ==
  ASSUME Inv, Fault, Announces
  PROVE  Inv'
<1>0. /\ Types /\ toNode \in Seq(Message) /\ inputQueue \in Seq(Message) /\ g.op \in Nat
  BY OpFacts DEF Inv, Types
<1>1. PICK b \in Message : b = Msg("boot", 0, 0) /\ b.op = 0 /\ b.fn = "boot"
  BY MsgFacts
<1>2. /\ UNCHANGED <<op, pendingFirmwareOperation, ask, g, toNode, flash, out, connected, broken, seen, departed, panic,
                     rewound, ignored, stale>>
      /\ inputQueue' = Append(inputQueue, b)
      /\ overlap' = (overlap \/ Starting \/ \E m \in Range(toNode) : m.op # 0)
  BY <1>1 DEF Fault, Announces, clientVars
<1>3. inputQueue' \in Seq(Message) /\ In(inputQueue') = In(inputQueue) \cup {b}
  BY <1>0, <1>2, InFacts
<1>4. overlap => overlap'
  BY <1>2, Zenon
<1>5. ~overlap' => ~overlap /\ ~Operating /\ (\A m \in Pipe : m.fn # "boot") /\ \A m \in In(toNode) : ~Work(m)
  <2>1. Range(toNode \o inputQueue) = In(toNode) \cup In(inputQueue)
    BY <1>0, RangeFacts
  <2>2. Range(toNode) = In(toNode)
    BY <1>0 DEF Range, In
  <2>3. ~overlap' => ~overlap /\ ~Starting /\ \A m \in Range(toNode) : ~(m.op # 0)
    BY <1>2, Zenon
  <2>4. ~Starting => ~Operating /\ \A m \in Range(toNode \o inputQueue) : m.fn # "boot"
    BY Zenon DEF Starting
  <2>5. QED BY <2>1, <2>2, <2>3, <2>4 DEF Pipe, Work
<1>6. PICK r : r = [Restarted EXCEPT !.boot = TRUE]
  OBVIOUS
<1>7. node' = r /\ r \in [boot : BOOLEAN, address : Page, buffer : Op] /\ r.address = 0
  <2>1. 0 \in Page /\ 0 \in Op
    BY FirmwareAssumption DEF Page, Op
  <2>2. QED BY <1>6, <2>1 DEF Announces, Restarted
<1>8. Types'
  BY <1>0, <1>2, <1>3, <1>7 DEF Types
<1>9. Flow'
  <2>1. \A m \in In(inputQueue') \cup In(toNode') : Sound(m)'
    BY <1>0, <1>1, <1>2, <1>3 DEF Inv, Flow, Sound, Work
  <2>2. QED BY <1>2, <2>1 DEF Inv, Flow, Reporting, Operating
<1>10. Departure' /\ Ending'
  BY <1>2 DEF Inv, Departure, Ending, Reporting, Operating
<1>11. Pipeline'
  <2>1. Chains(overlap', stale, inputQueue, toNode)
    BY <1>4, ChainsWeaker DEF Inv, Pipeline
  <2>2. /\ \A a \in In(inputQueue) : Fits(overlap', stale, a, b)
        /\ \A a \in In(toNode) : Fits(overlap', stale, b, a)
    BY <1>1, <1>5 DEF Fits, Work, Pipe
  <2>3. Chains(overlap', stale, Append(inputQueue, b), toNode)
    BY <1>0, <2>1, <2>2, ChainsFacts
  <2>4. Pipe' = Pipe \cup {b}
    BY <1>2, <1>3 DEF Pipe
  <2>5. Operating => g.op # 0
    BY DEF Inv, Flow
  <2>6. QED BY <1>1, <1>2, <1>5, <2>3, <2>4, <2>5 DEF Inv, Pipeline, Reporting, Same, Operating
<1>12. Written'
  <2>1. g.pc = "expect" => g.op # 0
    BY DEF Inv, Flow, Operating
  <2>2. QED BY <1>1, <1>2, <1>3, <1>7, <2>1 DEF Inv, Written, Reporting, Succeeded, Holds, Same, Work, Operating
<1>13. StaleNeedsOverlap'
  BY <1>2, <1>4 DEF Inv, StaleNeedsOverlap
<1>14. QED BY <1>8, <1>9, <1>10, <1>11, <1>12, <1>13 DEF Inv

(* The node and the bus.                                                   *)
LEMMA StepNode ==
  ASSUME Inv, NodeTake \/ Fault
  PROVE  Inv'
<1>1. \/ ((\E m \in Message : Takes(m)) \/ Strays \/ Silent) /\ UNCHANGED overlap
      \/ Fault /\ Announces
  BY NodeKinds DEF Inv
<1>2. QED BY <1>1, StepQuiet, StepAnnounces
-----------------------------------------------------------------------------
(* The goroutine, between operations, takes a message.                     *)
LEMMA StepReceive ==
  ASSUME Inv, Receive
  PROVE  Inv'
<1>0. /\ Types /\ toNode \in Seq(Message) /\ inputQueue \in Seq(Message) /\ g.op \in Nat
      /\ pendingFirmwareOperation \in {0, Len(op)} /\ Len(op) \in Nat /\ MaxOps \in Nat /\ Len(op) <= MaxOps
  BY OpFacts DEF Inv, Types
<1>1. PICK m : m = Head(inputQueue)
  OBVIOUS
<1>2. /\ UNCHANGED <<pendingFirmwareOperation, ask, node, flash, out, connected, broken, seen, departed, panic, rewound, stale, overlap>>
      /\ ~panic /\ g.pc = "select" /\ inputQueue # <<>> /\ inputQueue' = Tail(inputQueue)
  BY DEF Receive, nodeVars, clientVars
<1>3. inputQueue' \in Seq(Message) /\ In(inputQueue) = In(inputQueue') \cup {m} /\ m \in Message
  BY <1>0, <1>1, <1>2, InFacts
<1>4. /\ Chains(overlap, stale, inputQueue', toNode)
      /\ \A b \in In(inputQueue') \cup In(toNode) : Fits(overlap, stale, m, b)
  BY <1>0, <1>1, <1>2, ChainsFacts DEF Inv, Pipeline, Operating
<1>5. ASSUME NEW pc \in {"select", "leave"}, g' = [g EXCEPT !.pc = pc], UNCHANGED <<op, toNode, ignored>>
      PROVE  Inv'
  <2>1. /\ g'.pc = pc /\ g'.fn = g.fn /\ g'.op = g.op /\ g'.page = g.page /\ g'.then = g.then
        /\ g' \in [pc : {"select", "leave", "expect", "check", "put"}, fn : Fn, op : 0..Len(op), page : Page,
                   then : {"page", "hundred", "success", "end"}]
    BY <1>0, <1>5 DEF Types
  <2>2. g'.pc \in {"select", "leave"} /\ ~Operating /\ ~Operating'
    BY <1>2, <2>1 DEF Operating
  <2>3. Pipe' \subseteq Pipe
    BY <1>3, <1>5 DEF Pipe
  <2>4. Types'
    BY <1>0, <1>2, <1>3, <1>5, <2>1 DEF Types
  <2>5. Flow'
    <3>1. \A x \in In(inputQueue') \cup In(toNode') : Sound(x)'
      BY <1>0, <1>3, <1>5, <2>1 DEF Inv, Flow, Sound, Work
    <3>2. QED BY <1>2, <1>5, <2>1, <2>2, <3>1 DEF Inv, Flow, Reporting
  <2>6. Pipeline'
    BY <1>2, <1>4, <1>5, <2>2, <2>3 DEF Inv, Pipeline, Reporting
  <2>7. Written'
    <3>1. \A k : Holds(k)' <=> Holds(k)
      BY <1>2, <2>1 DEF Holds
    <3>2. Succeeded' <=> Succeeded
      BY <1>5, <2>1, <2>2 DEF Succeeded
    <3>3. QED BY <1>2, <1>5, <2>1, <2>2, <3>1, <3>2 DEF Inv, Written, Reporting
  <2>8. Departure' /\ StaleNeedsOverlap'
    BY <1>2, <1>5, <2>2 DEF Inv, Departure, StaleNeedsOverlap
  <2>9. Ending'
    BY <1>2, <1>5, <2>1, <2>2 DEF Inv, Ending, Reporting
  <2>10. QED BY <2>4, <2>5, <2>6, <2>7, <2>8, <2>9 DEF Inv
<1>6. CASE m.fn = "boot" /\ pendingFirmwareOperation # 0
  <2>0. PICK o : o = pendingFirmwareOperation
    OBVIOUS
  <2>1. o = Len(op) /\ o \in Op /\ o \in 1..Len(op) /\ o > g.op /\ 0 \in Page /\ "signature" \in Fn
    <3>1. o = Len(op) /\ o # 0 /\ o > g.op
      BY <1>0, <1>2, <1>6, <2>0 DEF Inv, Flow, Operating
    <3>2. QED BY <1>0, <3>1, FirmwareAssumption DEF Op, Page, Fn
  <2>2. PICK w \in Message : w = Msg("signature", o, 0) /\ w.op = o /\ w.fn = "signature" /\ w.page = 0
    BY <2>1, MsgFacts
  <2>3. /\ toNode' = Append(toNode, w) /\ op' = op /\ ignored' = FALSE
        /\ g' = [pc |-> "expect", fn |-> "signature", op |-> o, page |-> 0, then |-> "end"]
    BY <1>1, <1>6, <2>0, <2>2 DEF Receive, Ask
  <2>4. toNode' \in Seq(Message) /\ In(toNode') = In(toNode) \cup {w}
    BY <1>0, <2>3, InFacts
  <2>5. g' \in [pc : {"select", "leave", "expect", "check", "put"}, fn : Fn, op : 0..Len(op), page : Page,
                then : {"page", "hundred", "success", "end"}]
    BY <2>1, <2>3
  <2>6. Types'
    BY <1>0, <1>2, <1>3, <2>3, <2>4, <2>5 DEF Types
  <2>7. \A x \in In(inputQueue') \cup In(toNode) : x.op <= g.op /\ x.op \in Nat
    <3>1. In(inputQueue) \subseteq Message /\ In(toNode) \subseteq Message
      BY <1>0, InFacts
    <3>2. QED BY <1>3, <3>1, MsgFacts DEF Inv, Flow, Sound, Operating
  <2>8. Flow'
    <3>1. \A x \in In(inputQueue') \cup In(toNode') : Sound(x)'
      <4>1. \A x \in In(inputQueue') \cup In(toNode) : x.op <= o
        BY <1>0, <2>1, <2>7
      <4>2. QED BY <1>3, <2>1, <2>2, <2>3, <2>4, <4>1 DEF Inv, Flow, Sound, Work, Operating
    <3>2. op[o].progress = 0 /\ \A k \in 1..Len(op) : k > o => op[k].progress = 0
      BY <1>0, <2>1 DEF Inv, Flow, Operating
    <3>3. QED BY <1>2, <2>1, <2>3, <3>1, <3>2 DEF Inv, Flow, Reporting, ProgressSuccess, Operating
  <2>9. Pipeline'
    <3>1. ~overlap => \A b \in In(inputQueue') \cup In(toNode) : b.fn # "boot" /\ ~Work(b)
      BY <1>4, <1>6 DEF Fits
    <3>2. \A a \in In(inputQueue') \cup In(toNode) : Fits(overlap, stale, a, w)
      BY <1>0, <2>1, <2>2, <2>7, <3>1 DEF Fits
    <3>3. Chains(overlap, stale, inputQueue', toNode')
      BY <1>0, <1>3, <1>4, <2>3, <3>2, ChainsFacts
    <3>4. Pipe' = In(inputQueue') \cup In(toNode) \cup {w}
      BY <2>4 DEF Pipe
    <3>5. \A x \in In(inputQueue') \cup In(toNode) : x.op # o
      BY <1>0, <2>1, <2>7
    <3>6. QED BY <1>2, <2>2, <2>3, <3>1, <3>3, <3>4, <3>5 DEF Pipeline, Reporting, Same, Operating
  <2>10. Written'
    BY <2>3 DEF Written, Reporting, Succeeded, Operating
  <2>11. Departure' /\ Ending' /\ StaleNeedsOverlap'
    BY <1>2, <2>3 DEF Inv, Departure, Ending, Reporting, StaleNeedsOverlap, Operating
  <2>12. QED BY <2>6, <2>8, <2>9, <2>10, <2>11 DEF Inv
<1>7. CASE ~(m.fn = "boot" /\ pendingFirmwareOperation # 0)
  <2>1. PICK pc \in {"select", "leave"} : g' = [g EXCEPT !.pc = pc] /\ UNCHANGED <<op, toNode, ignored>>
    <3>1. UNCHANGED <<op, toNode, ignored>> /\ (g' = g \/ g' = [g EXCEPT !.pc = "leave"])
      BY <1>1, <1>7 DEF Receive
    <3>2. g = [g EXCEPT !.pc = "select"]
      BY <1>0, <1>2 DEF Types
    <3>3. QED BY <3>1, <3>2
  <2>2. QED BY <1>5, <2>1
<1>8. QED BY <1>6, <1>7

(* There was no operation: the node is told to leave its bootloader.       *)
LEMMA StepBootLeave ==
  ASSUME Inv, BootLeave
  PROVE  Inv'
<1>0. /\ Types /\ toNode \in Seq(Message) /\ inputQueue \in Seq(Message) /\ g.op \in Nat /\ Len(op) \in Nat
      /\ g \in [pc : {"select", "leave", "expect", "check", "put"}, fn : Fn, op : 0..Len(op), page : Page,
                then : {"page", "hundred", "success", "end"}]
  BY OpFacts DEF Inv, Types
<1>1. PICK w \in Message : w = Msg("leave", 0, 0) /\ w.op = 0 /\ w.fn = "leave"
  BY MsgFacts
<1>2. /\ UNCHANGED <<op, ask, inputQueue, node, flash, out, connected, broken, seen, departed, panic, rewound, ignored,
                     stale, overlap>>
      /\ ~panic /\ g.pc = "leave" /\ g' = [g EXCEPT !.pc = "select"] /\ pendingFirmwareOperation' = 0
      /\ toNode' = Append(toNode, w)
  BY <1>1 DEF BootLeave, End, nodeVars, clientVars
<1>3. toNode' \in Seq(Message) /\ In(toNode') = In(toNode) \cup {w}
  BY <1>0, <1>2, InFacts
<1>4. /\ g'.pc = "select" /\ g'.fn = g.fn /\ g'.op = g.op /\ g'.page = g.page /\ g'.then = g.then
      /\ g' \in [pc : {"select", "leave", "expect", "check", "put"}, fn : Fn, op : 0..Len(op), page : Page,
                 then : {"page", "hundred", "success", "end"}]
  BY <1>0, <1>2
<1>5. ~Operating /\ ~Operating'
  BY <1>2, <1>4 DEF Operating
<1>6. Types'
  BY <1>0, <1>2, <1>3, <1>4 DEF Types
<1>7. Flow'
  <2>1. \A x \in In(inputQueue') \cup In(toNode') : Sound(x)'
    BY <1>0, <1>1, <1>2, <1>3, <1>4 DEF Inv, Flow, Sound, Work
  <2>2. QED BY <1>2, <1>4, <1>5, <2>1 DEF Inv, Flow, Reporting
<1>8. Pipeline'
  <2>1. \A a \in In(inputQueue) \cup In(toNode) : Fits(overlap, stale, a, w)
    BY <1>1 DEF Fits, Work
  <2>2. Chains(overlap, stale, inputQueue, Append(toNode, w))
    BY <1>0, <2>1, ChainsFacts DEF Inv, Pipeline
  <2>3. Pipe' = Pipe \cup {w}
    BY <1>2, <1>3 DEF Pipe
  <2>4. QED BY <1>1, <1>2, <1>4, <1>5, <2>2, <2>3 DEF Inv, Pipeline, Reporting
<1>9. Written'
  <2>1. \A k : Holds(k)' <=> Holds(k)
    BY <1>2, <1>4 DEF Holds
  <2>2. Succeeded' <=> Succeeded
    BY <1>2, <1>4, <1>5 DEF Succeeded
  <2>3. QED BY <1>1, <1>2, <1>3, <1>4, <2>1, <2>2 DEF Inv, Written, Reporting, Work
<1>10. Departure' /\ StaleNeedsOverlap'
  BY <1>2, <1>4 DEF Inv, Departure, StaleNeedsOverlap
<1>11. Ending'
  BY <1>2, <1>4, <1>5 DEF Inv, Ending, Reporting
<1>12. QED BY <1>6, <1>7, <1>8, <1>9, <1>10, <1>11 DEF Inv

(* The goroutine goes on with its operation: it has taken an answer from   *)
(* inputQueue or none, and leaves alone what belongs to others.            *)
Goes ==
  /\ Operating /\ ~panic /\ op[g.op].progress # ProgressSuccess
  /\ UNCHANGED <<pendingFirmwareOperation, ask, node, flash, connected, broken, seen, departed, panic, rewound, overlap>>
  /\ out' \in [Client -> Seq(0..Len(op))]
  /\ inputQueue' \in Seq(Message) /\ In(inputQueue') \subseteq In(inputQueue)
  /\ Chains(overlap, stale, inputQueue', toNode)
  /\ (stale => stale') /\ (stale' => overlap)

(* The goroutine asks the node for the next step of the operation.         *)
LEMMA StepAsk ==
  ASSUME Inv, Goes, NEW fn \in {"address", "erase", "write", "crc"}, NEW p \in Page, Ask(fn, g.op, p),
         fn = "erase" => p = 0, fn = "address" => p <= op[g.op].pages, fn \in {"write", "crc"} => p \in 1..op[g.op].pages,
         ~overlap => \A m \in In(inputQueue') \cup In(toNode) : ~Work(m),
         ~stale' => (\A m \in In(toNode) : ~Work(m)) /\ \A m \in In(inputQueue') : m.op # g.op,
         ~stale' /\ ~ignored' /\ fn \in {"write", "crc"} => node.address \in {0, p},
         ~stale' /\ ~ignored' /\ fn # "erase" => Holds(p - 1)
  PROVE  Inv'
<1>0. /\ Types /\ toNode \in Seq(Message) /\ inputQueue' \in Seq(Message) /\ g.op \in Nat /\ g.op \in 1..Len(op)
      /\ g.op \in Op /\ MaxOps \in Nat /\ g.op # 0
  <2>1. Types /\ toNode \in Seq(Message) /\ inputQueue' \in Seq(Message) /\ Len(op) <= MaxOps /\ g.op # 0
    BY DEF Inv, Goes, Flow, Types, Operating
  <2>2. g.op \in 1..Len(op) /\ MaxOps \in Nat /\ Len(op) \in Nat
    BY <2>1, OpFacts
  <2>3. QED BY <2>1, <2>2 DEF Op
<1>1. PICK w \in Message : w = Msg(fn, g.op, p) /\ w.op = g.op /\ w.fn = fn /\ w.page = p
  BY <1>0, MsgFacts DEF Fn
<1>2. /\ toNode' = Append(toNode, w) /\ op' = op
      /\ g' = [pc |-> "expect", fn |-> fn, op |-> g.op, page |-> p, then |-> "end"]
  BY <1>1 DEF Ask
<1>3. g'.pc = "expect" /\ g'.fn = fn /\ g'.op = g.op /\ g'.page = p /\ g'.then = "end"
  BY <1>2
<1>4. toNode' \in Seq(Message) /\ In(toNode') = In(toNode) \cup {w}
  BY <1>0, <1>2, InFacts
<1>5. Types'
  <2>1. g' \in [pc : {"select", "leave", "expect", "check", "put"}, fn : Fn, op : 0..Len(op), page : Page,
                then : {"page", "hundred", "success", "end"}]
    <3>1. g.op \in 0..Len(op) /\ fn \in Fn
      BY <1>0 DEF Fn, Types
    <3>2. QED BY <1>2, <3>1
  <2>2. QED BY <1>0, <1>2, <1>4, <2>1 DEF Types, Goes, Operating
<1>6. Flow'
  <2>1. \A m \in In(inputQueue') \cup In(toNode') : Sound(m)'
    BY <1>0, <1>1, <1>3, <1>4 DEF Inv, Flow, Goes, Sound, Work, Operating
  <2>2. QED BY <1>0, <1>2, <1>3, <2>1 DEF Inv, Flow, Goes, Reporting, Operating
<1>7. Pipeline'
  <2>1. Chains(overlap, stale', inputQueue', toNode)
    BY ChainsWeaker DEF Goes, Operating
  <2>2. ~stale' => \A m \in In(inputQueue') \cup In(toNode) : m.op # g.op
    BY <1>0 DEF Work
  <2>3. \A m \in In(inputQueue') \cup In(toNode) : m.op <= g.op /\ m.op \in Nat
    <3>1. In(inputQueue') \subseteq Message /\ In(toNode) \subseteq Message
      BY <1>0, InFacts
    <3>2. QED BY <3>1, MsgFacts DEF Inv, Flow, Sound, Goes, Operating
  <2>4. ~overlap => \A m \in In(inputQueue') \cup In(toNode) : m.fn # "boot"
    BY DEF Inv, Pipeline, Goes, Pipe, Operating
  <2>5. \A a \in In(inputQueue') \cup In(toNode) : Fits(overlap, stale', a, w)
    BY <1>0, <1>1, <2>2, <2>3, <2>4 DEF Fits
  <2>6. Chains(overlap, stale', inputQueue', toNode')
    BY <1>0, <1>2, <2>1, <2>5, ChainsFacts
  <2>7. Pipe' = In(inputQueue') \cup In(toNode) \cup {w}
    BY <1>4 DEF Pipe
  <2>8. w.fn # "boot" /\ overlap' = overlap
    BY <1>1 DEF Goes, Operating
  <2>9. QED BY <1>1, <1>3, <2>2, <2>4, <2>6, <2>7, <2>8 DEF Pipeline, Reporting, Same, Operating
<1>8. Written'
  <2>1. node' = node /\ flash' = flash
    BY DEF Goes, Operating
  <2>2. Holds(p - 1)' <=> Holds(p - 1)
    BY <1>3, <2>1 DEF Holds
  <2>3. SUFFICES ASSUME ~stale' PROVE Written!2'
    BY DEF Written
  <2>4. \A m \in In(toNode') : Work(m) => Same(m)'
    BY <1>1, <1>3, <1>4, <2>3 DEF Same
  <2>5. SUFFICES ASSUME ~ignored' PROVE Written!2!3!2'
    BY <1>3, <2>4 DEF Reporting, Succeeded, Work, Operating
  <2>6. fn \in {"write", "crc"} => node'.address \in {0, p}
    BY <2>1, <2>3, <2>5
  <2>7. fn # "erase" => Holds(p - 1)'
    BY <2>2, <2>3, <2>5
  <2>8. \A m \in In(inputQueue') : m.op # g'.op
    BY <1>3, <2>3
  <2>9. QED BY <1>3, <2>6, <2>7, <2>8 DEF Reporting, Succeeded, Operating
<1>9. Departure' /\ Ending' /\ StaleNeedsOverlap'
  BY <1>3 DEF Goes, Departure, Ending, Reporting, StaleNeedsOverlap, Operating
<1>10. QED BY <1>5, <1>6, <1>7, <1>8, <1>9 DEF Inv

(* The goroutine changes its report, which it is about to send.            *)
LEMMA StepReport ==
  ASSUME Inv, Goes, NEW v \in ProgressReport, NEW then \in {"page", "hundred", "success", "end"},
         Report(g.op, v, then), toNode' = toNode \/ toNode' = Append(toNode, Msg("leave", 0, 0)),
         v = ProgressSuccess => then = "success", then \in {"success", "end"} => v \in Final,
         then = "page" => g.page \in 1..op[g.op].pages,
         ~overlap /\ then = "page" => \A m \in In(inputQueue') \cup In(toNode) : ~Work(m),
         ~stale' /\ then # "end" => (\A m \in In(toNode) : ~Work(m)) /\ \A m \in In(inputQueue') : m.op # g.op,
         ~stale' /\ ~ignored' /\ then = "page" => Holds(g.page),
         ~stale' /\ ~ignored' /\ then \in {"hundred", "success"} => Holds(op[g.op].pages)
  PROVE  Inv'
<1>0. /\ Types /\ toNode \in Seq(Message) /\ inputQueue' \in Seq(Message) /\ g.op \in Nat /\ g.op \in 1..Len(op) /\ g.op # 0
      /\ g \in [pc : {"select", "leave", "expect", "check", "put"}, fn : Fn, op : 0..Len(op), page : Page,
                then : {"page", "hundred", "success", "end"}]
  <2>1. /\ Types /\ toNode \in Seq(Message) /\ inputQueue' \in Seq(Message) /\ g.op # 0
        /\ g \in [pc : {"select", "leave", "expect", "check", "put"}, fn : Fn, op : 0..Len(op), page : Page,
                  then : {"page", "hundred", "success", "end"}]
    BY DEF Inv, Goes, Flow, Types, Operating
  <2>2. QED BY <2>1, OpFacts
<1>1. PICK w \in Message : w = Msg("leave", 0, 0) /\ w.op = 0 /\ w.fn = "leave"
  BY MsgFacts
<1>2. op' = [op EXCEPT ![g.op].progress = v] /\ g' = [g EXCEPT !.pc = "check", !.then = then]
  BY DEF Report
<1>3. /\ op' \in Seq(Operation) /\ Len(op') = Len(op) /\ op'[g.op].progress = v
      /\ \A k \in 1..Len(op) : op'[k].client = op[k].client /\ op'[k].pages = op[k].pages
      /\ \A k \in 1..Len(op) : k # g.op => op'[k] = op[k]
  BY <1>0, <1>2, OpUpdate
<1>4. /\ g'.pc = "check" /\ g'.then = then /\ g'.fn = g.fn /\ g'.op = g.op /\ g'.page = g.page
      /\ g' \in [pc : {"select", "leave", "expect", "check", "put"}, fn : Fn, op : 0..Len(op), page : Page,
                 then : {"page", "hundred", "success", "end"}]
  BY <1>0, <1>2
<1>5. toNode' \in Seq(Message) /\ In(toNode') \subseteq In(toNode) \cup {w}
  <2>1. Append(toNode, w) \in Seq(Message) /\ In(Append(toNode, w)) = In(toNode) \cup {w}
    BY <1>0, InFacts
  <2>2. QED BY <1>0, <1>1, <2>1
<1>6. Types'
  <2>1. pendingFirmwareOperation' = pendingFirmwareOperation /\ ask' = ask /\ node' = node /\ flash' = flash
        /\ connected' = connected /\ seen' = seen /\ out' \in [Client -> Seq(0..Len(op))]
    BY DEF Goes, Operating
  <2>2. QED BY <1>0, <1>3, <1>4, <1>5, <2>1 DEF Types
<1>7. Flow'
  <2>1. \A m \in In(inputQueue') \cup In(toNode') : Sound(m)'
    BY <1>0, <1>1, <1>4, <1>5 DEF Inv, Flow, Goes, Sound, Work, Operating
  <2>2. \A k \in 1..Len(op') : k > g.op => op'[k].progress = 0
    BY <1>0, <1>3 DEF Inv, Flow, Operating
  <2>3. QED BY <1>0, <1>3, <1>4, <2>1, <2>2 DEF Inv, Flow, Goes, Reporting, Operating
<1>8. Pipeline'
  <2>1. Chains(overlap, stale', inputQueue', toNode')
    <3>1. Chains(overlap, stale', inputQueue', toNode)
      BY ChainsWeaker DEF Goes, Operating
    <3>2. \A a \in In(inputQueue') \cup In(toNode) : Fits(overlap, stale', a, w)
      BY <1>1 DEF Fits, Work
    <3>3. Chains(overlap, stale', inputQueue', Append(toNode, w))
      BY <1>0, <3>1, <3>2, ChainsFacts
    <3>4. QED BY <1>1, <3>1, <3>3
  <2>2. ~overlap => \A m \in In(inputQueue') \cup In(toNode) : m.fn # "boot"
    BY DEF Inv, Pipeline, Goes, Pipe, Operating
  <2>3. Pipe' \subseteq In(inputQueue') \cup In(toNode) \cup {w}
    BY <1>5 DEF Pipe
  <2>4. ~stale' /\ then # "end" => \A m \in In(inputQueue') \cup In(toNode) : m.op # g.op
    BY <1>0 DEF Work
  <2>5. overlap' = overlap
    BY DEF Goes, Operating
  <2>6. QED BY <1>0, <1>1, <1>4, <2>1, <2>2, <2>3, <2>4, <2>5 DEF Pipeline, Reporting, Work, Operating
<1>9. Written'
  <2>1. flash' = flash
    BY DEF Goes, Operating
  <2>2. \A k : Holds(k)' <=> Holds(k)
    BY <1>4, <2>1 DEF Holds
  <2>3. op'[g.op].pages = op[g.op].pages
    BY <1>0, <1>3
  <2>4. ~stale' /\ then # "end" => \A m \in In(toNode') : ~Work(m)
    BY <1>1, <1>5 DEF Work
  <2>5. QED BY <1>4, <2>2, <2>3, <2>4 DEF Written, Reporting, Succeeded, Operating
<1>10. Departure' /\ StaleNeedsOverlap'
  BY <1>4 DEF Goes, Departure, StaleNeedsOverlap, Operating
<1>11. Ending'
  BY <1>3, <1>4 DEF Ending, Reporting, Operating
<1>12. QED BY <1>6, <1>7, <1>8, <1>9, <1>10, <1>11 DEF Inv

(* The operation is over.                                                  *)
LEMMA StepEnd ==
  ASSUME Inv, g.pc \in {"check", "put"}, ~panic, End,
         UNCHANGED <<op, toNode, ask, inputQueue, node, flash, connected, broken, seen, departed, panic, rewound, ignored, stale, overlap>>,
         out' \in [Client -> Seq(0..Len(op))],
         connected[op[g.op].client] => g.then \in {"success", "end"} /\ g.op \in In(out'[op[g.op].client])
  PROVE  Inv'
<1>0. /\ Types /\ Len(op) \in Nat
      /\ g \in [pc : {"select", "leave", "expect", "check", "put"}, fn : Fn, op : 0..Len(op), page : Page,
                then : {"page", "hundred", "success", "end"}]
  BY OpFacts DEF Inv, Types
<1>1. g' = [g EXCEPT !.pc = "select"] /\ pendingFirmwareOperation' = 0
  BY DEF End
<1>2. /\ g'.pc = "select" /\ g'.fn = g.fn /\ g'.op = g.op /\ g'.page = g.page /\ g'.then = g.then
      /\ g' \in [pc : {"select", "leave", "expect", "check", "put"}, fn : Fn, op : 0..Len(op), page : Page,
                 then : {"page", "hundred", "success", "end"}]
  BY <1>0, <1>1
<1>3. Types'
  BY <1>0, <1>1, <1>2 DEF Types
<1>4. Flow'
  BY <1>1, <1>2 DEF Inv, Flow, Reporting, Sound, Operating
<1>5. Pipeline'
  BY <1>2 DEF Inv, Pipeline, Pipe, Reporting, Operating
<1>6. Written'
  <2>1. Succeeded' => Reporting({"success"})
    BY <1>2 DEF Inv, Flow, Succeeded, Operating
  <2>2. \A k : Holds(k)' <=> Holds(k)
    BY <1>2 DEF Holds
  <2>3. QED BY <1>2, <2>1, <2>2 DEF Inv, Written, Reporting, Succeeded, Operating
<1>7. Departure' /\ StaleNeedsOverlap'
  BY <1>2 DEF Inv, Departure, StaleNeedsOverlap
<1>8. Ending'
  BY <1>2 DEF Inv, Ending, Reporting, Operating
<1>9. QED BY <1>3, <1>4, <1>5, <1>6, <1>7, <1>8 DEF Inv

(* What follows a report.                                                  *)
LEMMA StepAfter ==
  ASSUME Inv, g.pc \in {"check", "put"}, ~panic, After,
         UNCHANGED <<ask, inputQueue, node, flash, connected, broken, seen, departed, panic, rewound, ignored, stale, overlap>>,
         out' \in [Client -> Seq(0..Len(op))],
         connected[op[g.op].client] => g.op \in In(out'[op[g.op].client])
  PROVE  Inv'
<1>0. /\ Types /\ Len(op) \in Nat /\ inputQueue \in Seq(Message) /\ g.op # 0 /\ g.op \in 1..Len(op)
      /\ g.page \in Page /\ g.then \in {"page", "hundred", "success", "end"} /\ MaxPages \in Nat
      /\ op[g.op].pages \in Nat /\ op[g.op].pages <= MaxPages
  <2>1. Types /\ inputQueue \in Seq(Message) /\ g.op # 0 /\ g.page \in Page
    BY DEF Inv, Flow, Types, Operating
  <2>2. g.then \in {"page", "hundred", "success", "end"}
    BY DEF Inv, Types
  <2>3. QED BY <2>1, <2>2, OpFacts
<1>1. g.then \in {"page", "hundred"} /\ UNCHANGED pendingFirmwareOperation => Goes
  BY <1>0 DEF Inv, Goes, Flow, Pipeline, Reporting, StaleNeedsOverlap, Operating
<1>2. g.then = "page" => g.page \in 1..op[g.op].pages
  BY DEF Inv, Flow, Reporting, Operating
<1>3. /\ ~overlap /\ g.then = "page" => \A m \in In(inputQueue') \cup In(toNode) : ~Work(m)
      /\ ~stale' /\ g.then \in {"page", "hundred"} => (\A m \in In(toNode) : ~Work(m)) /\ \A m \in In(inputQueue') : m.op # g.op
      /\ ~stale' /\ ~ignored' /\ g.then = "page" => Holds(g.page)
      /\ ~stale' /\ ~ignored' /\ g.then = "hundred" => Holds(op[g.op].pages)
  BY DEF Inv, Pipeline, Pipe, Written, Reporting, Operating
<1>4. CASE g.then = "page" /\ g.page < op[g.op].pages
  <2>1. PICK p : p = g.page + 1
    OBVIOUS
  <2>2. p \in Page /\ p <= op[g.op].pages /\ p - 1 = g.page
    <3>1. g.page \in Nat /\ op[g.op].pages \in Nat /\ op[g.op].pages <= MaxPages /\ MaxPages \in Nat
      BY <1>0 DEF Page
    <3>2. QED BY <1>4, <2>1, <3>1 DEF Page
  <2>3. Ask("address", g.op, p) /\ pendingFirmwareOperation' = pendingFirmwareOperation
    BY <1>0, <1>4, <2>1 DEF After
  <2>4. QED BY <1>1, <1>3, <1>4, <2>2, <2>3, StepAsk
<1>5. CASE g.then = "page" /\ g.page = op[g.op].pages
  <2>1. /\ Report(g.op, 100, "hundred") /\ toNode' = Append(toNode, Msg("leave", 0, 0))
        /\ UNCHANGED pendingFirmwareOperation
    BY <1>0, <1>5 DEF After
  <2>2. 100 \in ProgressReport /\ 100 # ProgressSuccess
    BY DEF ProgressReport, ProgressSuccess
  <2>3. QED BY <1>1, <1>3, <1>5, <2>1, <2>2, StepReport
<1>6. CASE g.then = "hundred"
  <2>1. Report(g.op, ProgressSuccess, "success") /\ UNCHANGED <<toNode, pendingFirmwareOperation>>
    BY <1>6 DEF After
  <2>2. ProgressSuccess \in ProgressReport /\ ProgressSuccess \in Final
    BY DEF ProgressReport, Final
  <2>3. QED BY <1>1, <1>3, <1>6, <2>1, <2>2, StepReport
<1>7. CASE g.then \in {"success", "end"}
  <2>1. End /\ op' = op /\ toNode' = toNode
    BY <1>7 DEF After
  <2>2. QED BY <1>7, <2>1, StepEnd
<1>8. g.then = "page" => g.page < op[g.op].pages \/ g.page = op[g.op].pages
  BY <1>0, <1>2
<1>9. QED BY <1>0, <1>4, <1>5, <1>6, <1>7, <1>8

(* The report is sent.                                                     *)
LEMMA StepSend ==
  ASSUME Inv, ReportCheck \/ ReportPut \/ ReportPanic
  PROVE  Inv'
<1>0. /\ Types /\ Len(op) \in Nat /\ out \in [Client -> Seq(0..Len(op))]
      /\ g \in [pc : {"select", "leave", "expect", "check", "put"}, fn : Fn, op : 0..Len(op), page : Page,
                then : {"page", "hundred", "success", "end"}]
  BY OpFacts DEF Inv, Types
<1>1. /\ ~panic /\ g.pc \in {"check", "put"}
      /\ UNCHANGED <<ask, inputQueue, node, flash, connected, broken, seen, departed, rewound, ignored, stale, overlap>>
  BY DEF ReportCheck, ReportPut, ReportPanic, nodeVars, clientVars
<1>2. g.op # 0 /\ g.op \in 0..Len(op) /\ op[g.op].client \in Client
  BY <1>0, <1>1, OpFacts DEF Inv, Flow, Operating
<1>3. CASE ReportCheck
  <2>1. UNCHANGED <<out, panic>> /\ g.pc = "check"
    BY <1>3 DEF ReportCheck, clientVars
  <2>2. CASE connected[op[g.op].client]
    <3>1. g' = [g EXCEPT !.pc = "put"] /\ UNCHANGED <<op, toNode, pendingFirmwareOperation>>
      BY <1>3, <2>2 DEF ReportCheck
    <3>2. /\ g'.pc = "put" /\ g'.fn = g.fn /\ g'.op = g.op /\ g'.page = g.page /\ g'.then = g.then
          /\ g' \in [pc : {"select", "leave", "expect", "check", "put"}, fn : Fn, op : 0..Len(op), page : Page,
                     then : {"page", "hundred", "success", "end"}]
      BY <1>0, <3>1
    <3>3. Types'
      BY <1>0, <1>1, <2>1, <3>1, <3>2 DEF Types
    <3>4. \A t : Reporting(t)' <=> Reporting(t)
      BY <2>1, <3>2 DEF Reporting, Operating
    <3>5. Flow'
      BY <1>1, <2>1, <3>1, <3>2, <3>4 DEF Inv, Flow, Sound, Operating
    <3>6. Pipeline'
      BY <1>1, <2>1, <3>1, <3>2, <3>4 DEF Inv, Pipeline, Pipe, Operating
    <3>7. Written'
      BY <1>1, <2>1, <3>1, <3>2, <3>4 DEF Inv, Written, Succeeded, Holds, Operating
    <3>8. Departure' /\ Ending' /\ StaleNeedsOverlap'
      BY <1>1, <2>1, <2>2, <3>1, <3>2, <3>4 DEF Inv, Departure, Ending, StaleNeedsOverlap, Operating
    <3>9. QED BY <3>3, <3>5, <3>6, <3>7, <3>8 DEF Inv
  <2>3. CASE ~connected[op[g.op].client] /\ g.then = "page"
    <3>1. End /\ UNCHANGED <<op, toNode>>
      BY <1>3, <2>3 DEF ReportCheck
    <3>2. QED BY <1>0, <1>1, <2>1, <2>3, <3>1, StepEnd
  <2>4. CASE ~connected[op[g.op].client] /\ g.then # "page"
    <3>1. After
      BY <1>3, <2>4 DEF ReportCheck
    <3>2. QED BY <1>0, <1>1, <2>1, <2>4, <3>1, StepAfter
  <2>5. QED BY <2>2, <2>3, <2>4
<1>4. CASE ReportPut
  <2>1. PICK c \in Client : c = op[g.op].client
    BY <1>2
  <2>2. After /\ UNCHANGED panic /\ out' = [out EXCEPT ![c] = Append(out[c], g.op)]
    BY <1>0, <1>4, <2>1 DEF ReportPut
  <2>3. Append(out[c], g.op) \in Seq(0..Len(op)) /\ g.op \in In(Append(out[c], g.op))
    BY <1>0, <1>2, InFacts
  <2>4. out' \in [Client -> Seq(0..Len(op))] /\ g.op \in In(out'[c])
    BY <1>0, <2>2, <2>3
  <2>5. QED BY <1>1, <2>1, <2>2, <2>4, StepAfter
<1>5. CASE ReportPanic
  <2>1. UNCHANGED <<op, pendingFirmwareOperation, g, toNode, out>> /\ g.pc = "put" /\ ~connected[op[g.op].client]
    BY <1>5 DEF ReportPanic, clientVars
  <2>2. Types'
    BY <1>0, <1>1, <2>1 DEF Types
  <2>3. Flow' /\ Pipeline'
    BY <1>1, <2>1 DEF Inv, Flow, Pipeline, Pipe, Sound, Same, Reporting, Operating
  <2>4. Written'
    BY <1>1, <2>1 DEF Inv, Written, Succeeded, Holds, Same, Reporting, Operating
  <2>5. Departure' /\ Ending' /\ StaleNeedsOverlap'
    BY <1>1, <2>1 DEF Inv, Departure, Ending, StaleNeedsOverlap, Reporting, Operating
  <2>6. QED BY <2>2, <2>3, <2>4, <2>5 DEF Inv
<1>6. QED BY <1>3, <1>4, <1>5

(* The operation fails.                                                    *)
LEMMA StepFail ==
  ASSUME Inv, Goes, Fail
  PROVE  Inv'
<1>1. Report(g.op, ProgressFailed, "end") /\ toNode' = toNode
  BY DEF Fail
<1>2. ProgressFailed \in ProgressReport /\ ProgressFailed # ProgressSuccess /\ ProgressFailed \in Final
  BY DEF ProgressReport, ProgressFailed, ProgressSuccess, Final
<1>3. QED BY <1>1, <1>2, StepReport

(* Nothing is left in the pipeline behind the answer to the last message.  *)
LEMMA Behind ==
  ASSUME Inv, g.pc = "expect", inputQueue # <<>>, Expected(Head(inputQueue))
  PROVE  /\ ~overlap => Same(Head(inputQueue))
         /\ ~overlap \/ (~stale /\ Same(Head(inputQueue))) =>
              \A b \in In(Tail(inputQueue)) \cup In(toNode) : ~Work(b)
<1>0. /\ toNode \in Seq(Message) /\ inputQueue \in Seq(Message) /\ g.op \in Nat /\ g.op # 0
      /\ g.fn \in {"signature", "address", "erase", "write", "crc"}
  BY OpFacts DEF Inv, Types, Flow, Operating
<1>1. PICK m : m = Head(inputQueue)
  OBVIOUS
<1>2. m \in In(inputQueue) /\ m \in Message /\ In(inputQueue) = In(Tail(inputQueue)) \cup {m}
  BY <1>0, <1>1, InFacts
<1>3. \A b \in In(Tail(inputQueue)) \cup In(toNode) : Fits(overlap, stale, m, b)
  BY <1>0, <1>1, ChainsFacts DEF Inv, Pipeline, Operating
<1>4. Sound(m) /\ Work(m)
  <2>1. Sound(m)
    BY <1>2 DEF Inv, Flow, Operating
  <2>2. m.fn \notin {"boot", "leave", "other"}
    BY <1>0, <1>1 DEF Expected, Function
  <2>3. QED BY <2>1, <2>2 DEF Sound
<1>5. ~overlap => Same(m)
  BY <1>2, <1>4 DEF Inv, Pipeline, Pipe, Operating
<1>6. \A b \in In(Tail(inputQueue)) \cup In(toNode) : b.op \in Nat /\ b.op <= g.op
  <2>1. In(inputQueue) \subseteq Message /\ In(toNode) \subseteq Message
    BY <1>0, InFacts
  <2>2. QED BY <1>2, <2>1, MsgFacts DEF Inv, Flow, Sound, Operating
<1>7. ~overlap => \A b \in In(Tail(inputQueue)) \cup In(toNode) : ~Work(b)
  BY <1>3, <1>4 DEF Fits
<1>8. ~stale /\ Same(m) => \A b \in In(Tail(inputQueue)) \cup In(toNode) : ~Work(b)
  BY <1>0, <1>3, <1>4, <1>6 DEF Fits, Same
<1>9. QED BY <1>1, <1>5, <1>7, <1>8

(* An answer arrives in time, or the wait for it ends.                     *)
LEMMA StepExpect ==
  ASSUME Inv, Expect \/ Timeout
  PROVE  Inv'
<1>0. /\ Types /\ toNode \in Seq(Message) /\ inputQueue \in Seq(Message) /\ out \in [Client -> Seq(0..Len(op))]
      /\ MaxPages \in Nat /\ g.page \in Page
  BY OpFacts DEF Inv, Types
<1>1. /\ UNCHANGED <<pendingFirmwareOperation, ask, node, flash, out, connected, broken, seen, departed, panic, rewound, overlap>>
      /\ ~panic /\ g.pc = "expect"
  BY DEF Expect, Timeout, nodeVars, clientVars
<1>2. /\ g.op # 0 /\ op[g.op].progress # ProgressSuccess
      /\ \/ g.fn \in {"signature", "erase"} /\ g.page = 0
         \/ g.fn = "address" /\ g.page <= op[g.op].pages
         \/ g.fn \in {"write", "crc"} /\ g.page \in 1..op[g.op].pages
  BY <1>1 DEF Inv, Flow, Reporting, Operating
<1>3. op[g.op].pages \in Nat /\ op[g.op].pages \in 1..MaxPages
  BY <1>0, <1>2, OpFacts
<1>4. Chains(overlap, stale, inputQueue, toNode) /\ (stale => overlap)
  BY DEF Inv, Pipeline, StaleNeedsOverlap, Operating
<1>5. CASE Timeout
  <2>1. UNCHANGED <<inputQueue, stale>> /\ Fail
    BY <1>5 DEF Timeout
  <2>2. Goes
    BY <1>0, <1>1, <1>2, <1>4, <2>1 DEF Goes, Operating
  <2>3. QED BY <2>1, <2>2, StepFail
<1>6. CASE Expect
  <2>0. PICK m : m = Head(inputQueue)
    OBVIOUS
  <2>1. inputQueue # <<>> /\ inputQueue' = Tail(inputQueue)
    BY <1>6 DEF Expect
  <2>2. /\ inputQueue' \in Seq(Message) /\ In(inputQueue') \subseteq In(inputQueue) /\ m \in In(inputQueue)
        /\ Chains(overlap, stale, inputQueue', toNode)
    <3>1. inputQueue' \in Seq(Message) /\ In(inputQueue) = In(inputQueue') \cup {m}
      BY <1>0, <2>0, <2>1, InFacts
    <3>2. Chains(overlap, stale, inputQueue', toNode)
      BY <1>0, <1>4, <2>1, ChainsFacts
    <3>3. QED BY <3>1, <3>2
  <2>3. CASE ~Expected(m) \/ (CodeChecked /\ ~m.ok)
    <3>1. Fail /\ stale' = stale
      BY <1>6, <2>0, <2>3 DEF Expect
    <3>2. Goes
      BY <1>0, <1>1, <1>2, <1>4, <2>2, <3>1 DEF Goes, Operating
    <3>3. QED BY <3>1, <3>2, StepFail
  <2>4. CASE Expected(m) /\ (CodeChecked => m.ok)
    <3>1. /\ Proceed
          /\ ignored' = (ignored \/ (~m.ok /\ g.fn \in {"address", "erase", "write"}))
          /\ stale' = (stale \/ <<m.fn, m.op, m.page>> # <<g.fn, g.op, g.page>>)
      BY <1>6, <2>0, <2>4 DEF Expect
    <3>2. (stale => stale') /\ (~stale' => ~stale /\ Same(m)) /\ (~ignored' => ~ignored)
      <4>1. (stale => stale') /\ (~ignored' => ~ignored) /\ (~stale' => ~stale)
        BY <3>1, Zenon
      <4>2. ~stale' => <<m.fn, m.op, m.page>> = <<g.fn, g.op, g.page>>
        BY <3>1, Zenon
      <4>3. QED BY <4>1, <4>2 DEF Same
    <3>3. ~ignored' => m.ok
      <4>1. ~ignored' => m.ok \/ g.fn \notin {"address", "erase", "write"}
        BY <3>1, Zenon
      <4>2. g.fn \in {"signature", "crc"} => m.ok
        BY <2>4 DEF CodeChecked
      <4>3. QED BY <1>2, <4>1, <4>2
    <3>4. /\ ~overlap => Same(m)
          /\ ~overlap \/ (~stale /\ Same(m)) => \A b \in In(inputQueue') \cup In(toNode) : ~Work(b)
      BY <1>1, <2>0, <2>1, <2>4, Behind
    <3>5. stale' => overlap
      <4>1. stale' => stale \/ ~Same(m)
        <5>1. stale' => stale \/ <<m.fn, m.op, m.page>> # <<g.fn, g.op, g.page>>
          BY <3>1, Zenon
        <5>2. QED BY <5>1 DEF Same
      <4>2. QED BY <1>4, <3>4, <4>1
    <3>6. Goes
      BY <1>0, <1>1, <1>2, <2>2, <3>2, <3>5 DEF Goes, Operating
    <3>7. /\ ~overlap => \A b \in In(inputQueue') \cup In(toNode) : ~Work(b)
          /\ ~stale' => (\A b \in In(toNode) : ~Work(b)) /\ \A b \in In(inputQueue') : b.op # g.op
      BY <1>2, <3>2, <3>4 DEF Work
    <3>8. ASSUME ~stale', ~ignored'
          PROVE  /\ g.fn \in {"address", "write"} /\ g.page > 0 => node.address \in {0, g.page}
                 /\ g.fn \in {"address", "write", "crc"} => Holds(g.page - 1)
                 /\ g.fn = "crc" => Holds(g.page)
      <4>1. ~stale /\ ~ignored /\ m.ok /\ m.op = g.op
        BY <3>2, <3>3, <3>8 DEF Same
      <4>2. Written!2!3!2
        BY <4>1 DEF Inv, Written
      <4>3. g.fn = "crc" => flash[g.page] = g.op
        BY <1>1, <2>2, <4>1, <4>2
      <4>4. g.fn \in {"address", "write", "crc"} => Holds(g.page - 1)
        BY <1>1, <4>2
      <4>5. g.fn = "crc" => Holds(g.page)
        <5>1. ASSUME g.fn = "crc", NEW q \in 1..g.page, q # g.page PROVE q \in 1..(g.page - 1)
          BY <1>2, <1>3, <5>1
        <5>2. QED BY <4>3, <4>4, <5>1 DEF Holds
      <4>6. g.fn \in {"address", "write"} /\ g.page > 0 => node.address \in {0, g.page}
        BY <1>1, <2>2, <4>1, <4>2
      <4>7. QED BY <4>4, <4>5, <4>6
    <3>9. 0 \in Page /\ 1 \in Page
      BY <1>0, <1>3 DEF Page
    <3>10. Holds(0) /\ Holds(0 - 1) /\ 1 - 1 = 0
      BY DEF Holds
    <3>11. CASE g.fn = "signature"
      <4>1. Ask("address", g.op, 0)
        BY <3>1, <3>11 DEF Proceed
      <4>2. QED BY <1>3, <3>6, <3>7, <3>9, <3>10, <4>1, StepAsk
    <3>12. CASE g.fn = "address" /\ g.page = 0
      <4>1. Ask("erase", g.op, 0)
        BY <3>1, <3>12 DEF Proceed
      <4>2. QED BY <3>6, <3>7, <3>9, <4>1, StepAsk
    <3>13. CASE g.fn = "erase"
      <4>1. Ask("address", g.op, 1)
        BY <3>1, <3>13 DEF Proceed
      <4>2. 1 <= op[g.op].pages
        BY <1>3
      <4>3. QED BY <3>6, <3>7, <3>9, <3>10, <4>1, <4>2, StepAsk
    <3>14. CASE g.fn = "address" /\ g.page > 0
      <4>0. g.page # 0
        BY <1>0, <3>14 DEF Page
      <4>1. Ask("write", g.op, g.page)
        BY <3>1, <3>14, <4>0 DEF Proceed
      <4>2. g.page \in 1..op[g.op].pages
        BY <1>0, <1>2, <1>3, <3>14 DEF Page
      <4>3. QED BY <1>0, <3>6, <3>7, <3>8, <3>14, <4>1, <4>2, StepAsk
    <3>15. CASE g.fn = "write"
      <4>1. Ask("crc", g.op, g.page)
        BY <3>1, <3>15 DEF Proceed
      <4>2. g.page \in 1..op[g.op].pages /\ g.page > 0
        BY <1>2, <1>3, <3>15
      <4>3. QED BY <1>0, <3>6, <3>7, <3>8, <3>15, <4>1, <4>2, StepAsk
    <3>16. CASE g.fn = "crc"
      <4>1. PICK v : v = ((g.page - 1) * 100) \div op[g.op].pages
        OBVIOUS
      <4>2. Report(g.op, v, "page") /\ toNode' = toNode
        BY <3>1, <3>16, <4>1 DEF Proceed
      <4>3. g.page \in 1..op[g.op].pages /\ op[g.op].pages \in Nat \ {0}
        BY <1>2, <1>3, <3>16
      <4>4. v \in 0..99
        BY <4>1, <4>3, Percentage
      <4>5. v \in ProgressReport /\ v # ProgressSuccess
        BY <4>4 DEF ProgressReport, ProgressSuccess
      <4>6. QED BY <3>6, <3>7, <3>8, <3>16, <4>2, <4>3, <4>5, StepReport
    <3>17. g.fn = "address" => g.page = 0 \/ g.page > 0
      BY <1>0 DEF Page
    <3>18. QED BY <1>2, <3>11, <3>12, <3>13, <3>14, <3>15, <3>16, <3>17
  <2>5. QED BY <2>3, <2>4
<1>7. QED BY <1>5, <1>6
-----------------------------------------------------------------------------
(* The invariant holds to begin with.                                      *)
LEMMA InvInit ==
  Init => Inv
<1>0. SUFFICES ASSUME Init PROVE Inv
  OBVIOUS
<1>1. MaxOps \in Nat /\ MaxPages \in Nat /\ 0 \in Op /\ 0 \in Page
  BY FirmwareAssumption DEF Op, Page
<1>2. op = <<>> /\ Len(op) = 0 /\ pendingFirmwareOperation = 0 /\ toNode = <<>> /\ inputQueue = <<>>
  BY <1>0 DEF Init
<1>3. g = [pc |-> "select", fn |-> "other", op |-> 0, page |-> 0, then |-> "end"]
  BY <1>0 DEF Init, Select
<1>4. Types
  <2>1. op \in Seq(Operation) /\ Len(op) <= MaxOps /\ toNode \in Seq(Message) /\ inputQueue \in Seq(Message)
    BY <1>1, <1>2
  <2>2. ask \in [Client -> [pc : {"idle", "boot", "update", "ack"}, op : 0..Len(op)]]
    BY <1>0, <1>2 DEF Init
  <2>3. g \in [pc : {"select", "leave", "expect", "check", "put"}, fn : Fn, op : 0..Len(op), page : Page,
               then : {"page", "hundred", "success", "end"}]
    BY <1>1, <1>2, <1>3 DEF Fn
  <2>4. node \in [boot : BOOLEAN, address : Page, buffer : Op] /\ flash \in [1..MaxPages -> Op]
    BY <1>0, <1>1 DEF Init
  <2>5. out \in [Client -> Seq(0..Len(op))] /\ connected \in [Client -> BOOLEAN]
    BY <1>0 DEF Init
  <2>6. seen \in [1..MaxOps -> ProgressReport]
    BY <1>0 DEF Init, ProgressReport
  <2>7. QED BY <1>2, <2>1, <2>2, <2>3, <2>4, <2>5, <2>6 DEF Types
<1>5. In(toNode) = {} /\ In(inputQueue) = {}
  BY <1>2 DEF In
<1>6. \A c \in Client : ask[c].pc = "idle"
  BY <1>0 DEF Init
<1>7. Flow
  BY <1>2, <1>3, <1>5, <1>6 DEF Flow, Reporting, Operating
<1>8. Pipeline
  BY <1>2, <1>3, <1>5 DEF Pipeline, Pipe, Chains, Chain, Reporting, Operating
<1>9. Written
  BY <1>3 DEF Written, Reporting, Succeeded, Operating
<1>10. panic = FALSE /\ stale = FALSE
  BY <1>0 DEF Init
<1>11. Departure /\ Ending /\ StaleNeedsOverlap
  BY <1>3, <1>10 DEF Departure, Ending, StaleNeedsOverlap, Operating
<1>12. QED BY <1>4, <1>7, <1>8, <1>9, <1>11 DEF Inv

(* Every step keeps the invariant.                                         *)
LEMMA InvStep ==
  Inv /\ [Next]_vars => Inv'
<1>0. SUFFICES ASSUME Inv, [Next]_vars PROVE Inv'
  OBVIOUS
<1>1. CASE UNCHANGED vars
  <2>1. UNCHANGED <<op, pendingFirmwareOperation, ask, g, toNode, inputQueue, node, flash, out, connected, broken, seen,
                    departed, panic, rewound, ignored, stale, overlap>>
    BY <1>1 DEF vars, nodeVars, clientVars
  <2>2. Types'
    BY <1>0, <2>1 DEF Inv, Types
  <2>3. Flow' /\ Pipeline'
    BY <1>0, <2>1 DEF Inv, Flow, Pipeline, Pipe, Sound, Same, Reporting, Operating
  <2>4. Written'
    BY <1>0, <2>1 DEF Inv, Written, Succeeded, Holds, Same, Reporting, Operating
  <2>5. Departure' /\ Ending' /\ StaleNeedsOverlap'
    BY <1>0, <2>1 DEF Inv, Departure, Ending, StaleNeedsOverlap, Reporting, Operating
  <2>6. QED BY <2>2, <2>3, <2>4, <2>5 DEF Inv
<1>2. ASSUME NEW c \in Client, NEW pages \in Sizes, Upload(c, pages) PROVE Inv'
  BY <1>0, <1>2, StepUpload
<1>3. ASSUME NEW c \in Client, Handler(c) \/ Reboot(c) \/ ClientSender(c) \/ Leave(c) PROVE Inv'
  BY <1>0, <1>3, StepBoot, StepUploadUpdate, StepClient DEF Handler
<1>4. CASE Goroutine \/ Timeout
  BY <1>0, <1>4, StepReceive, StepBootLeave, StepExpect, StepSend DEF Goroutine
<1>5. CASE NodeTake \/ Fault
  BY <1>0, <1>5, StepNode
<1>6. QED BY <1>0, <1>1, <1>2, <1>3, <1>4, <1>5 DEF Next

(* The invariant holds.                                                    *)
THEOREM InvCorrect == Spec => []Inv
BY InvInit, InvStep, PTL DEF Spec

(* An operation of the goroutine takes an answer to another message for    *)
(* its own only after the node was asked to boot while it was still busy:  *)
(* without that, ExpectSystemMessage reads what belongs to the operation,  *)
(* however many messages are lost or late.                                 *)
THEOREM StaleNeedsOverlapCorrect == Spec => []StaleNeedsOverlap
<1>1. Inv => StaleNeedsOverlap
  BY DEF Inv
<1>2. QED BY <1>1, InvCorrect, PTL

(* SendEvent uses a closed OutputChan only if the client of the operation  *)
(* left while the operation was going on.                                  *)
THEOREM PanicNeedsDepartureCorrect == Spec => []PanicNeedsDeparture
<1>1. Inv => PanicNeedsDeparture
  BY DEF Inv, Departure, PanicNeedsDeparture
<1>2. QED BY <1>1, InvCorrect, PTL

(* uploadFirmware reports success only when every page of the firmware is  *)
(* in the node, for firmwares of any size and any pattern of losses,       *)
(* restarts and damaged writes, unless it went past an error code that it  *)
(* does not look at or an answer that was not meant for it.                *)
THEOREM SuccessIsWrittenCorrect == Spec => []SuccessIsWritten
<1>1. Inv => SuccessIsWritten
  <2>1. SUFFICES ASSUME Inv, g.op # 0, op[g.op].progress = ProgressSuccess, ~ignored, ~stale
                 PROVE  \A p \in 1..op[g.op].pages : flash[p] = g.op
    BY DEF SuccessIsWritten
  <2>2. Reporting({"success"}) \/ Succeeded
    BY <2>1 DEF Inv, Flow, Succeeded, Operating
  <2>3. QED BY <2>1, <2>2 DEF Inv, Written, Holds, Reporting, Operating
<1>2. QED BY <1>1, InvCorrect, PTL

(* When the operation is over and the client has read all its reports, the *)
(* last one it has seen says how the operation ended, whatever the         *)
(* capacity of OutputChan and whenever the shared report was packed.       *)
THEOREM EndReportedCorrect == Spec => []EndReported
<1>1. Inv => EndReported
  <2>1. In(<<>>) = {}
    BY DEF In
  <2>2. QED BY <2>1 DEF Inv, Ending, EndReported, Left, Operating
<1>2. QED BY <1>1, InvCorrect, PTL
=============================================================================
