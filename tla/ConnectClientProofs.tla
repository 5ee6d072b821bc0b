------------------------- MODULE ConnectClientProofs -------------------------

(***************************************************************************)
(* What the connect client keeps to, for any number of connects, closes,   *)
(* pockets and frames.  A client that is connected has one read and at most*)
(* one output on their way.  One that is not, or not yet, may have aborted *)
(* operations of any number of earlier sockets before those of its own.    *)
(***************************************************************************)
EXTENDS ConnectClient, SequenceFacts, FiniteSetTheorems

(* The types of the client's fields.                                       *)
Item == {"none", "head", "body", "buffer", "pocket"} \X Nat \X BOOLEAN

ReadOperation == [kind : Reads, item : Item]
OutputOperation == [kind : Output, item : Item]
EndedOperation == [kind : Reads \cup Output, item : Item, failed : BOOLEAN]

Wire == [up : BOOLEAN, broken : BOOLEAN, sent : Nat, units : Seq(Item)]

ClientType ==
    [limit : Limits,
     m_is_connecting : BOOLEAN, m_is_connected : BOOLEAN,
     socket : Nat, open : BOOLEAN, m_memory : Nat,
     m_pocket_list : Seq(Item), m_executing : BOOLEAN,
     reads : Seq(ReadOperation), output : Seq(OutputOperation),
     ready : Seq(EndedOperation), wire : Wire,
     connects : Nat, closes : Nat, pockets : Nat,
     got : Seq(Nat), lost : Nat, orderly : BOOLEAN, settled : BOOLEAN,
     in_message : BOOLEAN,
     fate : {"running", "thrown", "garbled"}]

-----------------------------------------------------------------------------

(* A read, or an output, is on its way: it waits, or its handler does.     *)
Reading(c) ==
    c.reads # <<>> \/ \E i \in DOMAIN c.ready : c.ready[i].kind \in Reads

Writing(c) ==
    c.output # <<>> \/ \E i \in DOMAIN c.ready : c.ready[i].kind \in Output

(* There is at most one of either.                                         *)
Solo(c) ==
    /\ Len(c.reads) <= 1 /\ Len(c.output) <= 1
    /\ \A i, j \in DOMAIN c.ready :
          (c.ready[i].kind \in Reads <=> c.ready[j].kind \in Reads) => i = j
    /\ c.reads # <<>> => \A i \in DOMAIN c.ready : c.ready[i].kind \in Output
    /\ c.output # <<>> => \A i \in DOMAIN c.ready : c.ready[i].kind \in Reads

(* The unit that follows u is the body u announces, or the next head.      *)
Follows(u, v) ==
    IF u[1] = "head" /\ u[3] THEN v = <<"body", u[2], FALSE>>
                             ELSE v[1] = "head" /\ v[2] = u[2] + 1

Whole(u) == ~(u[1] = "head" /\ u[3])

(* What is on the wire goes on with the unit of this kind and number, and  *)
(* ends with all of the last message the peer has sent.                    *)
Aligned(w, kind, n) ==
    IF w.units = <<>> THEN kind = "head" /\ n = w.sent + 1
    ELSE /\ w.units[1][1] = kind /\ w.units[1][2] = n
         /\ kind = "body" => ~w.units[1][3]
         /\ \A i \in 1..(Len(w.units) - 1) : Follows(w.units[i], w.units[i + 1])
         /\ w.units[Len(w.units)][2] = w.sent /\ Whole(w.units[Len(w.units)])

(* The next message to be handed over, and what follows a unit of it.      *)
Due(c) == Len(c.got) + 1

AlignedAfter(c, unit) ==
    IF Whole(unit) THEN Aligned(c.wire, "head", Due(c) + 1)
                   ELSE Aligned(c.wire, "body", Due(c))

(* The memory is that of the message that is being read, or handed over.   *)
ReadHolds(c, op) ==
    op.kind = "body" => c.m_memory = Due(c) /\ op.item[2] = Due(c)

EndedHolds(c, op) ==
    ~op.failed /\ op.kind \in Reads =>
        /\ op.item[1] = op.kind /\ op.item[2] = Due(c)
        /\ op.kind = "body" => c.m_memory = Due(c) /\ ~op.item[3]

Memory(c) ==
    /\ c.in_message => ~Reading(c) /\ c.m_memory = Len(c.got)
    /\ ~Reading(c) /\ ~c.in_message => c.m_memory = 0
    /\ \A i \in DOMAIN c.reads : ReadHolds(c, c.reads[i])
    /\ \A i \in DOMAIN c.ready : EndedHolds(c, c.ready[i])

Counted(c) == \A i \in DOMAIN c.got : c.got[i] = i

(* Of the reads of earlier sockets nothing is left but failures when there *)
(* is one that got something, or one that waits.                           *)
Lone(c) ==
    /\ \A i, j \in DOMAIN c.ready :
          /\ ~c.ready[i].failed /\ c.ready[i].kind \in Reads
          /\ c.ready[j].kind \in Reads
          => i = j
    /\ c.reads # <<>> => \A i \in DOMAIN c.ready : c.ready[i].kind \in Output

Reported(c) == c.settled => c.lost <= 1

(* What holds in whatever phase the client is.                             *)
Kept(c) ==
    Lone(c) /\ Memory(c) /\ Counted(c) /\ Reported(c) /\ c.fate # "garbled"

(* The phases.                                                             *)
Quiet(c) == c.m_pocket_list = <<>> /\ ~c.m_executing

(* Only the connect of its own socket can have succeeded, and it is last.  *)
Opening(c) ==
    /\ ~c.m_is_connected /\ Quiet(c) /\ ~c.in_message /\ c.socket # 0
    /\ c.reads = <<>> /\ Len(c.output) <= 1
    /\ \A i \in DOMAIN c.output : c.output[i].kind = "connect"
    /\ c.output # <<>> => ~c.wire.up /\ ~c.wire.broken
    /\ \A i \in DOMAIN c.ready : ~c.ready[i].failed =>
          /\ c.ready[i].kind = "connect" /\ c.output = <<>> /\ c.wire.up
          /\ \A j \in DOMAIN c.ready : j <= i
    /\ c.settled => \A i \in DOMAIN c.ready : c.ready[i].kind = "connect"
    /\ c.got = <<>> /\ Aligned(c.wire, "head", 1)

OfSocket(c, item) == item = <<"pocket", c.socket, FALSE>>

OwnPockets(c) ==
    /\ \A i \in DOMAIN c.m_pocket_list : OfSocket(c, c.m_pocket_list[i])
    /\ \A i \in DOMAIN c.output :
          c.output[i].kind = "write" /\ OfSocket(c, c.output[i].item)
    /\ \A i \in DOMAIN c.ready : c.ready[i].kind # "connect"

Pocketed(c) ==
    /\ c.m_executing <=> Writing(c)
    /\ c.m_pocket_list # <<>> => c.m_executing

InStream(c) ==
    /\ \A i \in DOMAIN c.reads : Aligned(c.wire, c.reads[i].kind, Due(c))
    /\ \A i \in DOMAIN c.ready :
          c.ready[i].kind \in Reads /\ ~c.ready[i].failed =>
            AlignedAfter(c, c.ready[i].item)
    /\ c.in_message => Aligned(c.wire, "head", Due(c))

Live(c) ==
    /\ c.open /\ c.wire.up /\ c.lost = 0 /\ c.socket # 0
    /\ Reading(c) \/ c.in_message
    /\ InStream(c)

Open(c) == Solo(c) /\ Live(c) /\ OwnPockets(c) /\ Pocketed(c)

Gone(c) == c.reads = <<>> /\ c.output = <<>> /\ ~c.open

Shut(c) == Quiet(c) /\ Gone(c)

Phase(c) ==
    /\ c.m_is_connecting => Opening(c)
    /\ c.m_is_connected => Open(c)
    /\ ~c.m_is_connecting /\ ~c.m_is_connected => Shut(c) \/ Opening(c)

Good(c) == Kept(c) /\ Phase(c)

(* The invariant of the client, and between two handlers.                  *)
Sound(c) == c \in ClientType /\ (c.orderly => Good(c))

IInv == Sound(client) /\ ~client.in_message

-----------------------------------------------------------------------------

(* What the operations of the sockets leave behind is of the types.        *)
LEMMA Constants ==
    /\ Nothing \in Item /\ NoWire \in Wire
    /\ \A kind \in Reads, item \in Item : Operation(kind, item) \in ReadOperation
    /\ \A kind \in Output, item \in Item : Operation(kind, item) \in OutputOperation
    /\ \A kind \in Reads \cup Output, item \in Item, failed \in BOOLEAN :
          Ended(kind, item, failed) \in EndedOperation
<1>1. Nothing \in Item
  BY DEF Nothing, Item
<1>2. NoWire \in Wire
  BY DEF NoWire, Wire
<1>3. QED
  BY <1>1, <1>2
     DEF Operation, Ended, ReadOperation, OutputOperation, EndedOperation

LEMMA Fields ==
    ASSUME NEW c \in ClientType
    PROVE  /\ c.limit \in Limits /\ c.m_is_connecting \in BOOLEAN
           /\ c.m_is_connected \in BOOLEAN /\ c.socket \in Nat /\ c.open \in BOOLEAN
           /\ c.m_memory \in Nat /\ c.m_pocket_list \in Seq(Item)
           /\ c.m_executing \in BOOLEAN
           /\ c.reads \in Seq(ReadOperation) /\ c.output \in Seq(OutputOperation)
           /\ c.ready \in Seq(EndedOperation) /\ c.wire \in Wire
           /\ c.connects \in Nat /\ c.closes \in Nat /\ c.pockets \in Nat
           /\ c.got \in Seq(Nat) /\ c.lost \in Nat /\ c.orderly \in BOOLEAN
           /\ c.settled \in BOOLEAN
           /\ c.in_message \in BOOLEAN /\ c.fate \in {"running", "thrown", "garbled"}
  BY DEF ClientType

(* All but the operations are the same.                                    *)
SameButOperations(c, d) ==
    /\ d.m_is_connecting = c.m_is_connecting /\ d.m_is_connected = c.m_is_connected
    /\ d.socket = c.socket /\ d.open = c.open /\ d.m_memory = c.m_memory
    /\ d.m_pocket_list = c.m_pocket_list /\ d.m_executing = c.m_executing
    /\ d.wire = c.wire /\ d.got = c.got /\ d.lost = c.lost
    /\ d.orderly = c.orderly /\ d.settled = c.settled
    /\ d.in_message = c.in_message /\ d.fate = c.fate

LEMMA HandlerIs ==
    ASSUME NEW c \in ClientType, NEW op \in EndedOperation
    PROVE  LET d == Handler(c, op)
           IN  /\ d \in ClientType /\ SameButOperations(c, d)
               /\ d.reads = c.reads /\ d.output = c.output
               /\ d.ready = Append(c.ready, op)
<1>1. Append(c.ready, op) \in Seq(EndedOperation)
  BY DEF ClientType
<1>2. Handler(c, op) \in ClientType
  BY <1>1 DEF Handler, ClientType
<1>3. QED
  BY <1>2 DEF Handler, ClientType, SameButOperations

LEMMA BeginReadIs ==
    ASSUME NEW c \in ClientType, NEW kind \in Reads, NEW item \in Item
    PROVE  LET d == BeginRead(c, kind, item)
           IN  /\ d \in ClientType /\ SameButOperations(c, d) /\ d.output = c.output
               /\ c.open => /\ d.reads = Append(c.reads, Operation(kind, item))
                            /\ d.ready = c.ready
               /\ ~c.open => /\ d.ready = Append(c.ready, Ended(kind, item, TRUE))
                             /\ d.reads = c.reads
<1> DEFINE op == Operation(kind, item)
           ended == Ended(kind, item, TRUE)
           d == BeginRead(c, kind, item)
<1>1. op \in ReadOperation /\ ended \in EndedOperation
  BY Constants
<1>2. Append(c.reads, op) \in Seq(ReadOperation)
  BY <1>1, Fields, AppendIn
<1> HIDE DEF op, ended
<1>3. CASE c.open
  <2>1. d = [c EXCEPT !.reads = Append(@, op)]
    BY <1>3 DEF BeginRead, op
  <2>2. d \in ClientType
    BY <1>2, <2>1 DEF ClientType
  <2>3. QED
    BY <1>3, <2>1, <2>2 DEF ClientType, SameButOperations, op
<1>4. CASE ~c.open
  <2>1. d = Handler(c, ended)
    BY <1>4 DEF BeginRead, ended
  <2>2. QED
    BY <1>1, <1>4, <2>1, HandlerIs DEF ended
<1>5. QED
  BY <1>3, <1>4

LEMMA BeginOutputIs ==
    ASSUME NEW c \in ClientType, NEW kind \in Output, NEW item \in Item
    PROVE  LET d == BeginOutput(c, kind, item)
           IN  /\ d \in ClientType /\ SameButOperations(c, d) /\ d.reads = c.reads
               /\ c.open => /\ d.output = Append(c.output, Operation(kind, item))
                            /\ d.ready = c.ready
               /\ ~c.open => /\ d.ready = Append(c.ready, Ended(kind, item, TRUE))
                             /\ d.output = c.output
<1> DEFINE op == Operation(kind, item)
           ended == Ended(kind, item, TRUE)
           d == BeginOutput(c, kind, item)
<1>1. op \in OutputOperation /\ ended \in EndedOperation
  BY Constants
<1>2. Append(c.output, op) \in Seq(OutputOperation)
  BY <1>1, Fields, AppendIn
<1> HIDE DEF op, ended
<1>3. CASE c.open
  <2>1. d = [c EXCEPT !.output = Append(@, op)]
    BY <1>3 DEF BeginOutput, op
  <2>2. d \in ClientType
    BY <1>2, <2>1 DEF ClientType
  <2>3. QED
    BY <1>3, <2>1, <2>2 DEF ClientType, SameButOperations, op
<1>4. CASE ~c.open
  <2>1. d = Handler(c, ended)
    BY <1>4 DEF BeginOutput, ended
  <2>2. QED
    BY <1>1, <1>4, <2>1, HandlerIs DEF ended
<1>5. QED
  BY <1>3, <1>4

(* What a socket that is closed leaves to be run: the handlers there were, *)
(* and then those of the reads and of the output that waited, which fail.  *)
LEMMA CloseSocketIs ==
    ASSUME NEW c \in ClientType
    PROVE  LET d == CloseSocket(c)
               r == d.ready
           IN  /\ d \in ClientType
               /\ Len(r) = Len(c.ready) + Len(c.reads) + Len(c.output)
               /\ \A i \in 1..Len(c.ready) : r[i] = c.ready[i]
               /\ \A i \in (Len(c.ready) + 1)..Len(r) :
                     /\ r[i].failed
                     /\ r[i].kind \in Reads <=> i <= Len(c.ready) + Len(c.reads)
<1> DEFINE reads == c.reads
           output == c.output
           ready == c.ready
           Any == ReadOperation \cup OutputOperation
           ops == reads \o output
           ended == AllAborted(ops)
           r == ready \o ended
<1>14. /\ reads \in Seq(ReadOperation) /\ output \in Seq(OutputOperation)
      /\ ready \in Seq(EndedOperation)
  BY DEF ClientType
<1> HIDE DEF reads, output, ready
<1>1. reads \in Seq(Any) /\ output \in Seq(Any)
  BY <1>14, SeqMonotonic, Zenon
<1>2. /\ ops \in Seq(Any) /\ Len(ops) = Len(reads) + Len(output)
      /\ \A i \in 1..Len(ops) :
            ops[i] = IF i <= Len(reads) THEN reads[i] ELSE output[i - Len(reads)]
  BY <1>1, ConcatProperties
<1>3. Len(reads) \in Nat /\ Len(output) \in Nat /\ Len(ready) \in Nat /\ Len(ops) \in Nat
  BY <1>2, <1>14, LenProperties
<1>4. /\ \A i \in 1..Len(reads) : reads[i] \in ReadOperation
      /\ \A i \in 1..Len(output) : output[i] \in OutputOperation
  BY <1>14, ElementOfSeq
<1>5. \A i \in 1..Len(ops) :
         /\ i <= Len(reads) => ops[i] \in ReadOperation
         /\ i > Len(reads) => ops[i] \in OutputOperation
  BY <1>2, <1>3, <1>4
<1>6. /\ \A op \in ReadOperation : 
            Aborted(op) \in EndedOperation /\ Aborted(op).failed /\ Aborted(op).kind \in Reads
      /\ \A op \in OutputOperation : 
            Aborted(op) \in EndedOperation /\ Aborted(op).failed /\ Aborted(op).kind \in Output
  BY DEF Aborted, Ended, ReadOperation, OutputOperation, EndedOperation
<1>7. ended \in [1..Len(ops) -> EndedOperation]
  BY <1>3, <1>5, <1>6 DEF AllAborted
<1>8. ended \in Seq(EndedOperation) /\ Len(ended) = Len(ops)
  BY <1>3, <1>7, FunctionIsSeq
<1>9. /\ r \in Seq(EndedOperation) /\ Len(r) = Len(ready) + Len(ops)
      /\ \A i \in 1..(Len(ready) + Len(ops)) :
            r[i] = IF i <= Len(ready) THEN ready[i] ELSE ended[i - Len(ready)]
  BY <1>8, <1>14, ConcatProperties
<1>10. \A i \in (Len(ready) + 1)..Len(r) :
          r[i] = Aborted(ops[i - Len(ready)])
  BY <1>3, <1>9 DEF AllAborted
<1> HIDE DEF ended, ops
<1>11. ASSUME NEW i \in (Len(ready) + 1)..Len(r)
       PROVE  /\ r[i].failed
              /\ r[i].kind \in Reads <=> i <= Len(ready) + Len(reads)
  <2>1. i - Len(ready) \in 1..Len(ops)
    BY <1>3, <1>9
  <2> DEFINE op == ops[i - Len(ready)]
  <2>4. r[i] = Aborted(op)
    BY <1>10
  <2>2. CASE i <= Len(ready) + Len(reads)
    <3>1. op \in ReadOperation
      BY <1>3, <1>5, <2>1, <2>2
    <3>2. QED
      BY <1>6, <2>4, <2>2, <3>1
  <2>3. CASE ~(i <= Len(ready) + Len(reads))
    <3>1. op \in OutputOperation
      BY <1>3, <1>5, <2>1, <2>3
    <3>2. QED
      BY <1>6, <2>4, <2>3, <3>1 DEF Reads, Output
  <2>5. QED
    BY <2>2, <2>3
<1>12. /\ Len(r) = Len(ready) + Len(reads) + Len(output)
       /\ \A i \in 1..Len(ready) : r[i] = ready[i]
  BY <1>2, <1>3, <1>9
<1> HIDE DEF r
<1>13. CloseSocket(c) =
         [c EXCEPT !.open = FALSE, !.reads = <<>>, !.output = <<>>, !.ready = r]
  BY DEF CloseSocket, r, ended, ops, ready, reads, output
<1>15. <<>> \in Seq(ReadOperation) /\ <<>> \in Seq(OutputOperation)
  BY EmptySeq, Zenon
<1>16. CloseSocket(c) \in ClientType /\ CloseSocket(c).ready = r
  <2>1. r \in Seq(EndedOperation)
    BY <1>9
  <2>2. [c EXCEPT !.open = FALSE, !.reads = <<>>, !.output = <<>>, !.ready = r] \in ClientType
    BY <1>15, <2>1 DEF ClientType
  <2>3. QED
    BY <1>13, <2>2 DEF ClientType
<1>17. QED
  BY <1>11, <1>12, <1>16 DEF reads, output, ready

(* Close, and what it does to the fields that the invariant is about.      *)
LEMMA CloseIs ==
    ASSUME NEW c \in ClientType
    PROVE  LET d == Close(c)
               r == d.ready
           IN  /\ d \in ClientType
               /\ d.reads = <<>> /\ d.output = <<>> /\ ~d.open /\ Quiet(d)
               /\ ~d.m_is_connecting /\ ~d.m_is_connected
               /\ d.m_memory = c.m_memory /\ d.got = c.got /\ d.in_message = c.in_message
               /\ d.lost = c.lost /\ d.fate = c.fate /\ d.orderly = c.orderly
               /\ d.settled = c.settled
               /\ Len(r) = Len(c.ready) + Len(c.reads) + Len(c.output)
               /\ \A i \in 1..Len(c.ready) : r[i] = c.ready[i]
               /\ \A i \in (Len(c.ready) + 1)..Len(r) :
                     /\ r[i].failed
                     /\ r[i].kind \in Reads <=> i <= Len(c.ready) + Len(c.reads)
<1> DEFINE b == [ClearPockets(c) EXCEPT !.m_executing = FALSE,
                                        !.m_is_connecting = FALSE,
                                        !.m_is_connected = FALSE]
           d == CloseSocket(b)
<1>1. <<>> \in Seq(Item)
  BY EmptySeq, Zenon
<1>2. b \in ClientType /\ b.ready = c.ready /\ b.reads = c.reads /\ b.output = c.output
  BY <1>1 DEF ClientType, ClearPockets
<1>3. Close(c) = d
  BY DEF Close
<1>4. /\ d.reads = <<>> /\ d.output = <<>> /\ ~d.open /\ Quiet(d)
      /\ ~d.m_is_connecting /\ ~d.m_is_connected
      /\ d.m_memory = c.m_memory /\ d.got = c.got /\ d.in_message = c.in_message
      /\ d.lost = c.lost /\ d.fate = c.fate /\ d.orderly = c.orderly
      /\ d.settled = c.settled
  BY <1>1 DEF CloseSocket, ClearPockets, Quiet, ClientType
<1> HIDE DEF b
<1>5. /\ d \in ClientType
      /\ Len(d.ready) = Len(c.ready) + Len(c.reads) + Len(c.output)
      /\ \A i \in 1..Len(c.ready) : d.ready[i] = c.ready[i]
      /\ \A i \in (Len(c.ready) + 1)..Len(d.ready) :
            /\ d.ready[i].failed
            /\ d.ready[i].kind \in Reads <=> i <= Len(c.ready) + Len(c.reads)
  BY <1>2, CloseSocketIs
<1> HIDE DEF d
<1>6. QED
  BY <1>3, <1>4, <1>5, Zenon

LEMMA Kinds == \A kind \in Reads \cup Output : kind \in Reads <=> kind \notin Output
  BY DEF Reads, Output

LEMMA QueueTypes ==
    ASSUME NEW c \in ClientType
    PROVE  /\ c.ready \in Seq(EndedOperation) /\ c.reads \in Seq(ReadOperation)
           /\ c.output \in Seq(OutputOperation)
           /\ DOMAIN c.ready = 1..Len(c.ready) /\ DOMAIN c.reads = 1..Len(c.reads)
           /\ DOMAIN c.output = 1..Len(c.output)
           /\ Len(c.ready) \in Nat /\ Len(c.reads) \in Nat /\ Len(c.output) \in Nat
           /\ c.ready = <<>> <=> Len(c.ready) = 0
           /\ c.reads = <<>> <=> Len(c.reads) = 0
           /\ c.output = <<>> <=> Len(c.output) = 0
           /\ \A i \in 1..Len(c.ready) : 
                 c.ready[i].kind \in Reads \cup Output /\ c.ready[i].failed \in BOOLEAN /\ c.ready[i].item \in Item
<1>1. /\ c.ready \in Seq(EndedOperation) /\ c.reads \in Seq(ReadOperation)
      /\ c.output \in Seq(OutputOperation)
  BY DEF ClientType
<1>2. \A i \in 1..Len(c.ready) : c.ready[i] \in EndedOperation
  BY <1>1, ElementOfSeq
<1>3. QED
  BY <1>1, <1>2 DEF EndedOperation

LEMMA CloseGood ==
    ASSUME NEW c \in ClientType, Kept(c)
    PROVE  Good(Close(c)) /\ Shut(Close(c))
<1> DEFINE d == Close(c)
           n == Len(c.ready)
           m == Len(d.ready)
           k == Len(c.reads)
           l == Len(c.output)
<1>1. /\ d.reads = <<>> /\ d.output = <<>> /\ ~d.open /\ Quiet(d)
      /\ ~d.m_is_connecting /\ ~d.m_is_connected
      /\ d.m_memory = c.m_memory /\ d.got = c.got /\ d.in_message = c.in_message
      /\ d.lost = c.lost /\ d.fate = c.fate /\ d.orderly = c.orderly
      /\ d.settled = c.settled
  BY CloseIs
<1>2. /\ n \in Nat /\ k \in Nat /\ l \in Nat
      /\ DOMAIN c.ready = 1..n
      /\ c.reads = <<>> <=> k = 0
      /\ c.output = <<>> <=> l = 0
  BY QueueTypes
<1>3. d \in ClientType /\ m = n + k + l
  BY CloseIs
<1> HIDE DEF d, n, m, k, l
<1>4. m \in Nat /\ n <= m /\ DOMAIN d.ready = 1..m
  <2>1. DOMAIN d.ready = 1..m
    BY <1>3, QueueTypes, Zenon DEF m
  <2>2. QED
    BY <1>2, <1>3, <2>1
<1>5. \A i \in 1..n : d.ready[i] = c.ready[i]
  BY CloseIs DEF d, n
<1>6. \A i \in (n + 1)..m : d.ready[i].failed
  BY CloseIs DEF d, n, m
<1>7. \A i \in (n + 1)..m : d.ready[i].kind \in Reads <=> i <= n + k
  BY CloseIs DEF d, n, m, k
<1>8. \A i \in 1..m : d.ready[i].kind \in Reads <=> d.ready[i].kind \notin Output
  <2>1. \A i \in 1..m : d.ready[i].kind \in Reads \cup Output
    BY <1>3, QueueTypes DEF m
  <2>2. QED
    BY <2>1, Kinds
<1>9. Lone(d)
  <2>1. /\ \A i, j \in 1..n :
              ~c.ready[i].failed /\ c.ready[i].kind \in Reads /\ c.ready[j].kind \in Reads
              => i = j
        /\ k # 0 => \A i \in 1..n : c.ready[i].kind \in Output
    BY <1>2 DEF Kept, Lone
  <2>2. ASSUME NEW i \in 1..m, NEW j \in 1..m, ~d.ready[i].failed,
               d.ready[i].kind \in Reads, d.ready[j].kind \in Reads
        PROVE  i = j
    <3>1. i \in 1..n
      BY <1>2, <1>4, <1>6, <2>2
    <3>2. CASE j <= n
      <4>1. j \in 1..n
        BY <1>2, <1>4, <3>2
      <4>2. QED
        BY <1>5, <2>1, <2>2, <3>1, <4>1
    <3>3. CASE n < j
      <4>1. j \in (n + 1)..m
        BY <1>2, <1>4, <3>3
      <4>2. j <= n + k
        BY <1>7, <2>2, <4>1
      <4>3. k # 0
        BY <1>2, <4>1, <4>2
      <4>4. d.ready[i].kind \in Output
        BY <1>5, <2>1, <3>1, <4>3
      <4>5. i \in 1..m
        OBVIOUS
      <4>6. QED
        BY <1>8, <2>2, <4>4, <4>5
    <3>4. QED
      BY <1>2, <1>4, <3>2, <3>3
  <2>3. QED
    BY <1>1, <1>4, <2>2 DEF Lone
<1>10. Reading(c) <=> Reading(d)
  <2>1. CASE k # 0
    <3>1. n + 1 \in (n + 1)..m /\ n + 1 <= n + k
      BY <1>2, <1>3, <2>1
    <3>2. n + 1 \in 1..m /\ d.ready[n + 1].kind \in Reads
      BY <1>2, <1>7, <3>1
    <3>3. QED
      BY <1>2, <1>4, <2>1, <3>2 DEF Reading
  <2>2. CASE k = 0
    <3>1. ASSUME NEW i \in 1..m, d.ready[i].kind \in Reads
          PROVE  i \in 1..n
      BY <1>2, <1>4, <1>7, <2>2, <3>1
    <3>2. \A i \in 1..n : i \in 1..m
      BY <1>2, <1>4
    <3>3. QED
      BY <1>1, <1>2, <1>4, <1>5, <2>2, <3>1, <3>2 DEF Reading
  <2>3. QED
    BY <2>1, <2>2
<1>11. Memory(d)
  <2>1. \A i \in 1..n : EndedHolds(c, c.ready[i])
    BY <1>2 DEF Kept, Memory
  <2>2. \A i \in 1..n : EndedHolds(d, d.ready[i])
    BY <1>1, <1>5, <2>1 DEF EndedHolds, Due
  <2>3. \A i \in (n + 1)..m : EndedHolds(d, d.ready[i])
    BY <1>6 DEF EndedHolds
  <2>4. \A i \in 1..m : EndedHolds(d, d.ready[i])
    BY <1>2, <1>4, <2>2, <2>3
  <2>5. DOMAIN d.reads = {}
    BY <1>1
  <2>6. QED
    BY <1>1, <1>4, <1>10, <2>4, <2>5 DEF Kept, Memory
<1>12. Kept(d)
  BY <1>1, <1>9, <1>11 DEF Kept, Counted, Reported
<1>13. Phase(d) /\ Shut(d)
  <2>1. Shut(d)
    BY <1>1 DEF Shut, Gone
  <2>2. QED
    BY <1>1, <2>1 DEF Phase
<1>14. QED
  BY <1>12, <1>13 DEF Good, d

-----------------------------------------------------------------------------

(* The calls of the application.                                           *)
LEMMA ConnectSound ==
    ASSUME NEW c \in ClientType, Sound(c), NEW valid \in BOOLEAN,
           ~c.m_is_connecting, ~c.m_is_connected
    PROVE  LET d == Connect(c, valid)
           IN  /\ Sound(d) /\ d.in_message = c.in_message
               /\ d.orderly => c.orderly /\ ~c.in_message
<1> DEFINE e == CloseSocket(c)
           new == [e EXCEPT
                     !.m_is_connecting = TRUE, !.socket = @ + 1,
                     !.open = valid, !.wire = NoWire, !.got = <<>>,
                     !.connects = @ + 1,
                     !.orderly = /\ @ /\ ~c.in_message
                                 /\ \A i \in DOMAIN e.ready : e.ready[i].failed,
                     !.settled = @ /\ e.ready = <<>>]
           op == Operation("connect", Nothing)
           ended == Ended("connect", Nothing, TRUE)
           d == Connect(c, valid)
<1>1. e \in ClientType
  BY CloseSocketIs
<1>2. <<>> \in Seq(Nat) /\ NoWire \in Wire
  BY EmptySeq, Constants, Zenon
<1>3. new \in ClientType
  <2> DEFINE orderly == /\ e.orderly /\ ~c.in_message
                        /\ \A i \in DOMAIN e.ready : e.ready[i].failed
             settled == e.settled /\ e.ready = <<>>
  <2> HIDE DEF e
  <2>1. e.socket + 1 \in Nat /\ e.connects + 1 \in Nat
    <3>1. e.socket \in Nat /\ e.connects \in Nat
      BY <1>1, Fields
    <3>2. QED
      BY <3>1
  <2>2. orderly \in BOOLEAN /\ settled \in BOOLEAN
    OBVIOUS
  <2> HIDE DEF orderly, settled
  <2>3. [e EXCEPT !.m_is_connecting = TRUE, !.socket = e.socket + 1,
                  !.open = valid, !.wire = NoWire, !.got = <<>>,
                  !.connects = e.connects + 1, !.orderly = orderly,
                  !.settled = settled] \in ClientType
    BY <1>1, <1>2, <2>1, <2>2 DEF ClientType
  <2>4. QED
    BY <2>3 DEF orderly, settled
<1>4. d = BeginOutput(new, "connect", Nothing)
  BY DEF Connect
<1>6. /\ e.m_is_connected = c.m_is_connected /\ e.m_pocket_list = c.m_pocket_list
      /\ e.m_executing = c.m_executing /\ e.m_memory = c.m_memory /\ e.lost = c.lost
      /\ e.in_message = c.in_message /\ e.fate = c.fate /\ e.orderly = c.orderly /\ e.settled = c.settled
      /\ e.socket = c.socket /\ e.reads = <<>> /\ e.output = <<>>
  BY DEF CloseSocket, ClientType
<1> HIDE DEF e
<1>7. /\ new.m_is_connecting /\ new.m_is_connected = c.m_is_connected
      /\ new.m_pocket_list = c.m_pocket_list
      /\ new.m_executing = c.m_executing /\ new.m_memory = c.m_memory /\ new.lost = c.lost
      /\ new.in_message = c.in_message /\ new.fate = c.fate
      /\ new.orderly = (/\ c.orderly /\ ~c.in_message
                        /\ \A i \in DOMAIN e.ready : e.ready[i].failed)
      /\ new.settled = (c.settled /\ e.ready = <<>>)
      /\ new.socket = c.socket + 1 /\ new.reads = <<>> /\ new.output = <<>>
      /\ new.ready = e.ready /\ new.open = valid /\ new.wire = NoWire /\ new.got = <<>>
  BY <1>1, <1>6 DEF ClientType
<1> HIDE DEF new
<1>8. /\ d \in ClientType /\ SameButOperations(new, d) /\ d.reads = <<>>
      /\ valid => d.output = Append(<<>>, op) /\ d.ready = e.ready
      /\ ~valid => d.output = <<>> /\ d.ready = Append(e.ready, ended)
  <2>1. Nothing \in Item /\ "connect" \in Output
    BY Constants DEF Output
  <2>2. /\ d \in ClientType /\ SameButOperations(new, d) /\ d.reads = new.reads
        /\ new.open => d.output = Append(new.output, op) /\ d.ready = new.ready
        /\ ~new.open => d.ready = Append(new.ready, ended) /\ d.output = new.output
    <3> HIDE DEF d
    <3>1. QED
      BY <1>3, <1>4, <2>1, BeginOutputIs
  <2>3. /\ new.reads = <<>> /\ new.output = <<>>
        /\ new.ready = e.ready /\ new.open = valid
    BY <1>7
  <2> HIDE DEF d
  <2>4. QED
    BY <2>2, <2>3, Zenon
<1>9. /\ d.m_is_connecting /\ d.m_is_connected = c.m_is_connected
      /\ d.m_pocket_list = c.m_pocket_list
      /\ d.m_executing = c.m_executing /\ d.m_memory = c.m_memory /\ d.lost = c.lost
      /\ d.in_message = c.in_message /\ d.fate = c.fate
      /\ d.orderly = (/\ c.orderly /\ ~c.in_message
                        /\ \A i \in DOMAIN e.ready : e.ready[i].failed)
      /\ d.settled = (c.settled /\ e.ready = <<>>)
      /\ d.socket = c.socket + 1 /\ d.wire = NoWire /\ d.got = <<>>
  BY <1>7, <1>8 DEF SameButOperations
<1> HIDE DEF d
<1>10. ASSUME d.orderly
       PROVE  Good(d)
  <2>1. /\ c.orderly /\ ~c.in_message
        /\ \A i \in DOMAIN e.ready : e.ready[i].failed
    BY <1>9, <1>10
  <2>2. Kept(c) /\ c.reads = <<>> /\ Quiet(c)
    BY <2>1 DEF Sound, Good, Phase, Shut, Gone, Opening
  <2>3. \A i \in DOMAIN c.ready : i \in DOMAIN e.ready /\ e.ready[i] = c.ready[i]
    <3> DEFINE n == Len(c.ready)
               m == Len(e.ready)
               k == Len(c.reads)
               l == Len(c.output)
    <3>1. m = n + k + l /\ \A i \in 1..n : e.ready[i] = c.ready[i]
      BY CloseSocketIs DEF e
    <3>2. /\ n \in Nat /\ k \in Nat /\ l \in Nat
          /\ DOMAIN c.ready = 1..n /\ DOMAIN e.ready = 1..m
      BY <1>1, QueueTypes
    <3> HIDE DEF n, m, k, l
    <3>3. QED
      BY <3>1, <3>2
  <2>4. /\ op.kind = "connect" /\ ended.kind = "connect" /\ ended.failed
        /\ "connect" \in Output /\ "connect" \notin Reads
    BY DEF Operation, Ended, Reads, Output
  <2>5. ended \in EndedOperation
    BY Constants DEF Output
  <2> HIDE DEF op, ended
  <2>6. /\ d.m_memory = c.m_memory /\ d.lost = c.lost /\ d.fate = c.fate
        /\ d.got = <<>> /\ d.reads = <<>> /\ ~d.in_message /\ d.socket # 0
        /\ d.m_is_connecting /\ ~d.m_is_connected /\ d.wire = NoWire
        /\ d.settled = (c.settled /\ e.ready = <<>>)
    <3>1. c.socket \in Nat
      BY DEF ClientType
    <3>2. QED
      BY <1>8, <1>9, <2>1, <3>1
  <2>7. Quiet(d)
    BY <1>9, <2>2 DEF Quiet
  <2>8. /\ \A i \in DOMAIN e.ready : i \in DOMAIN d.ready /\ d.ready[i] = e.ready[i]
        /\ \A i \in DOMAIN d.ready :
              \/ i \in DOMAIN e.ready /\ d.ready[i] = e.ready[i]
              \/ d.ready[i] = ended
        /\ Len(d.output) <= 1
        /\ \A i \in DOMAIN d.output : d.output[i].kind = "connect"
    <3>1. CASE valid
      <4>1. d.output = Append(<<>>, op) /\ d.ready = e.ready
        BY <1>8, <3>1
      <4>2. Len(d.output) = 1 /\ DOMAIN d.output = {1} /\ d.output[1] = op
        BY <4>1, SingleIs
      <4>3. QED
        BY <2>4, <4>1, <4>2
    <3>2. CASE ~valid
      <4> DEFINE r == e.ready
      <4>1. d.ready = Append(r, ended) /\ d.output = <<>>
        BY <1>8, <3>2
      <4>2. r \in Seq(EndedOperation)
        BY <1>1, Fields
      <4> HIDE DEF r
      <4>3. /\ \A i \in DOMAIN r : i \in DOMAIN d.ready /\ d.ready[i] = r[i]
            /\ \A i \in DOMAIN d.ready :
                  \/ i \in DOMAIN r /\ d.ready[i] = r[i]
                  \/ i = Len(r) + 1 /\ d.ready[i] = ended
        BY <2>5, <4>1, <4>2, AppendIs
      <4>4. QED
        BY <4>1, <4>3, EmptyIs DEF r
    <3>3. QED
      BY <3>1, <3>2
  <2>9. \A i \in DOMAIN d.ready : d.ready[i].failed
    BY <2>1, <2>4, <2>8
  <2>10. Lone(d)
    BY <2>6, <2>9 DEF Lone
  <2>11. Memory(d)
    <3>1. Reading(c) => Reading(d)
      BY <2>2, <2>3, <2>8 DEF Reading
    <3>2. ~Reading(d) => d.m_memory = 0
      BY <2>1, <2>2, <2>6, <3>1 DEF Kept, Memory
    <3>3. \A i \in DOMAIN d.ready : EndedHolds(d, d.ready[i])
      BY <2>9 DEF EndedHolds
    <3>4. DOMAIN d.reads = {}
      BY <2>6, EmptyIs
    <3>5. QED
      BY <2>6, <3>2, <3>3, <3>4 DEF Memory
  <2>12. Aligned(d.wire, "head", 1) /\ ~d.wire.up /\ ~d.wire.broken
    BY <2>6 DEF Aligned, NoWire
  <2>13. d.settled => \A i \in DOMAIN d.ready : d.ready[i].kind = "connect"
    BY <2>4, <2>6, <2>8, EmptyIs
  <2>14. Opening(d)
    BY <2>6, <2>7, <2>8, <2>9, <2>12, <2>13 DEF Opening
  <2>15. Kept(d)
    BY <2>2, <2>6, <2>10, <2>11, EmptyIs DEF Kept, Counted, Reported
  <2>16. QED
    BY <2>6, <2>14, <2>15 DEF Good, Phase
<1>11. QED
  BY <1>8, <1>9, <1>10 DEF Sound, d

(* Who owns the pockets is told by the lists and the socket alone.         *)
LEMMA OwnPocketsHold ==
    ASSUME NEW c, NEW d, OwnPockets(c),
           d.socket = c.socket, d.m_pocket_list = c.m_pocket_list,
           d.output = c.output, d.ready = c.ready
    PROVE  OwnPockets(d)
<1>1. \A i \in DOMAIN d.m_pocket_list : OfSocket(d, d.m_pocket_list[i])
  BY DEF OwnPockets, OfSocket
<1>2. \A i \in DOMAIN d.output :
         d.output[i].kind = "write" /\ OfSocket(d, d.output[i].item)
  BY DEF OwnPockets, OfSocket
<1>3. \A i \in DOMAIN d.ready : d.ready[i].kind # "connect"
  BY DEF OwnPockets
<1>4. QED
  BY <1>1, <1>2, <1>3 DEF OwnPockets

(* What holds does not depend on the pockets, the phase and the counters.  *)
SameConnection(c, d) ==
    /\ d.reads = c.reads /\ d.output = c.output /\ d.ready = c.ready
    /\ d.m_memory = c.m_memory /\ d.got = c.got /\ d.in_message = c.in_message
    /\ d.lost = c.lost /\ d.settled = c.settled /\ d.fate = c.fate
    /\ d.open = c.open /\ d.wire = c.wire /\ d.socket = c.socket

LEMMA SameHolds ==
    ASSUME NEW c, NEW d, SameConnection(c, d)
    PROVE  /\ Reading(c) => Reading(d)
           /\ Writing(c) <=> Writing(d)
           /\ Solo(c) => Solo(d)
           /\ Kept(c) => Kept(d)
           /\ Live(c) => Live(d)
           /\ Gone(c) => Gone(d)
<1>1. /\ Reading(c) <=> Reading(d)
      /\ Writing(c) <=> Writing(d)
      /\ Solo(c) => Solo(d)
      /\ Gone(c) => Gone(d)
      /\ Lone(c) => Lone(d)
      /\ Counted(c) => Counted(d)
      /\ Reported(c) => Reported(d)
  BY DEF SameConnection, Reading, Writing, Solo, Lone, Gone, Counted, Reported
<1>2. \A op : /\ ReadHolds(c, op) => ReadHolds(d, op)
              /\ EndedHolds(c, op) => EndedHolds(d, op)
  BY DEF SameConnection, ReadHolds, EndedHolds, Due
<1>3. Memory(c) => Memory(d)
  BY <1>1, <1>2 DEF SameConnection, Memory
<1>4. InStream(c) => InStream(d)
  BY DEF SameConnection, InStream, AlignedAfter, Due
<1>5. QED
  BY <1>1, <1>3, <1>4 DEF SameConnection, Kept, Live

LEMMA NextSendType ==
    ASSUME NEW c \in ClientType
    PROVE  LET d == NextSend(c)
           IN  /\ d \in ClientType
               /\ d.orderly = c.orderly /\ d.in_message = c.in_message
               /\ d.got = c.got /\ d.m_memory = c.m_memory
<1> DEFINE d == NextSend(c)
           list == c.m_pocket_list
<1>1. CASE list = <<>> \/ c.socket = 0
  <2>1. d = [c EXCEPT !.m_executing = FALSE]
    BY <1>1 DEF NextSend
  <2>2. d \in ClientType
    BY <2>1 DEF ClientType
  <2>3. QED
    BY <2>1, <2>2 DEF ClientType
<1>2. CASE list # <<>> /\ c.socket # 0
  <2> DEFINE b == [c EXCEPT !.m_pocket_list = Tail(@)]
             item == Head(list)
  <2>1. Tail(list) \in Seq(Item) /\ item \in Item
    BY <1>2, Fields, HeadTailIn
  <2>2. b \in ClientType
    BY <2>1 DEF ClientType
  <2>3. /\ b.orderly = c.orderly /\ b.in_message = c.in_message
        /\ b.got = c.got /\ b.m_memory = c.m_memory
    BY DEF ClientType
  <2>4. d = BeginOutput(b, "write", item)
    BY <1>2 DEF NextSend
  <2> HIDE DEF b, d, item
  <2>5. d \in ClientType /\ SameButOperations(b, d)
    BY <2>1, <2>2, <2>4, BeginOutputIs DEF Output
  <2>6. QED
    BY <2>3, <2>5 DEF SameButOperations, d
<1>3. QED
  BY <1>1, <1>2

(* A client whose write is over, or which has none, and its next pocket.   *)
Sendable(c) ==
    /\ Kept(c) /\ ~c.m_is_connecting
    /\ c.m_is_connected =>
         /\ Solo(c) /\ ~Writing(c) /\ Live(c) /\ OwnPockets(c)
         /\ c.m_pocket_list # <<>> => c.m_executing
    /\ ~c.m_is_connected => Gone(c) /\ c.m_pocket_list = <<>>

LEMMA NextSendGood ==
    ASSUME NEW c \in ClientType, Sendable(c)
    PROVE  LET d == NextSend(c)
           IN  /\ d \in ClientType /\ Good(d)
               /\ d.orderly = c.orderly /\ d.in_message = c.in_message
               /\ d.got = c.got /\ d.m_memory = c.m_memory
<1> DEFINE d == NextSend(c)
           list == c.m_pocket_list
<1>1. CASE list = <<>> \/ c.socket = 0
  <2>1. d = [c EXCEPT !.m_executing = FALSE]
    BY <1>1 DEF NextSend
  <2>2. d \in ClientType
    BY <2>1 DEF ClientType
  <2>3. /\ SameConnection(c, d) /\ d.orderly = c.orderly /\ ~d.m_executing
        /\ d.m_is_connecting = c.m_is_connecting /\ d.m_is_connected = c.m_is_connected
        /\ d.m_pocket_list = list
    BY <2>1 DEF ClientType, SameConnection
  <2> HIDE DEF d
  <2>4. Kept(d) /\ ~d.m_is_connecting
    BY <2>3, SameHolds DEF Sendable
  <2>5. ASSUME d.m_is_connected PROVE Open(d)
    <3>1. Solo(c) /\ ~Writing(c) /\ Live(c) /\ OwnPockets(c) /\ list = <<>>
      BY <1>1, <2>3, <2>5 DEF Sendable, Live
    <3>2. Solo(d) /\ ~Writing(d) /\ Live(d)
      BY <2>3, <3>1, SameHolds
    <3>3. OwnPockets(d)
      BY <2>3, <3>1, OwnPocketsHold DEF SameConnection
    <3>4. QED
      BY <2>3, <3>1, <3>2, <3>3 DEF Open, Pocketed
  <2>6. ASSUME ~d.m_is_connected PROVE Shut(d)
    <3>1. Gone(d)
      BY <2>3, <2>6, SameHolds DEF Sendable
    <3>2. QED
      BY <2>3, <2>6, <3>1 DEF Shut, Quiet, Sendable
  <2>7. QED
    BY <2>2, <2>3, <2>4, <2>5, <2>6 DEF Good, Phase, SameConnection, d
<1>2. CASE list # <<>> /\ c.socket # 0
  <2> DEFINE b == [c EXCEPT !.m_pocket_list = Tail(@)]
             item == Head(list)
             op == Operation("write", item)
  <2>1. /\ c.m_is_connected /\ ~c.m_is_connecting /\ Kept(c) /\ Live(c)
        /\ Solo(c) /\ OwnPockets(c) /\ c.m_executing /\ ~Writing(c)
    BY <1>2, Fields DEF Sendable
  <2>2. Tail(list) \in Seq(Item) /\ item \in Item
    BY <1>2, Fields, HeadTailIn
  <2>3. \A i \in DOMAIN Tail(list) : OfSocket(c, Tail(list)[i])
    BY <1>2, <2>1, Fields, HeadTailProperties DEF OwnPockets
  <2>4. OfSocket(c, item)
    BY <1>2, <2>1, Fields DEF OwnPockets
  <2>5. b \in ClientType
    BY <2>2 DEF ClientType
  <2>6. /\ SameConnection(c, b) /\ b.orderly = c.orderly /\ b.m_executing = c.m_executing
        /\ b.m_is_connecting = c.m_is_connecting /\ b.m_is_connected = c.m_is_connected
        /\ b.m_pocket_list = Tail(list)
    BY <2>5 DEF ClientType, SameConnection
  <2>7. d = BeginOutput(b, "write", item)
    BY <1>2 DEF NextSend
  <2> HIDE DEF b, d, item
  <2>8. Kept(b) /\ Solo(b) /\ Live(b) /\ ~Writing(b) /\ b.open
    BY <2>1, <2>6, SameHolds DEF Live
  <2>9. "write" \in Output
    BY DEF Output
  <2>10. /\ d \in ClientType /\ SameButOperations(b, d) /\ d.reads = b.reads
         /\ d.output = Append(b.output, op) /\ d.ready = b.ready
    BY <2>2, <2>5, <2>7, <2>8, <2>9, BeginOutputIs
  <2>11. b.output = <<>> /\ \A i \in DOMAIN b.ready : b.ready[i].kind \notin Output
    BY <2>8 DEF Writing
  <2>12. /\ d.output # <<>> /\ Len(d.output) <= 1
         /\ DOMAIN d.output = {1} /\ d.output[1] = op
    BY <2>10, <2>11, SingleIs
  <2>13. Writing(d) /\ (Reading(b) <=> Reading(d))
    BY <2>10, <2>12 DEF Writing, Reading
  <2>14. \A i \in DOMAIN b.ready : b.ready[i].kind \in Reads
    BY <2>5, <2>11, QueueTypes
  <2>15. Solo(d)
    BY <2>8, <2>10, <2>12, <2>14 DEF Solo
  <2>16. Memory(d)
    <3>1. \A o : /\ ReadHolds(b, o) => ReadHolds(d, o)
                 /\ EndedHolds(b, o) => EndedHolds(d, o)
      BY <2>10 DEF SameButOperations, ReadHolds, EndedHolds, Due
    <3>2. QED
      BY <2>8, <2>10, <2>13, <3>1 DEF Kept, Memory, SameButOperations
  <2>17. Kept(d)
    BY <2>8, <2>10, <2>16 DEF Kept, Lone, Counted, Reported, SameButOperations
  <2>18. Live(d)
    BY <2>8, <2>10, <2>13 DEF Live, InStream, AlignedAfter, Due, SameButOperations
  <2>19. OwnPockets(d)
    <3>1. /\ d.m_pocket_list = Tail(list) /\ d.socket = c.socket /\ d.ready = c.ready
          /\ op.kind = "write" /\ op.item = item
      BY <2>6, <2>10 DEF SameButOperations, SameConnection, Operation
    <3>2. QED
      BY <2>1, <2>3, <2>4, <2>12, <3>1 DEF OwnPockets, OfSocket
  <2>20. Pocketed(d)
    BY <2>1, <2>6, <2>10, <2>13 DEF Pocketed, SameButOperations
  <2>21. d.m_is_connected /\ ~d.m_is_connecting
    BY <2>1, <2>6, <2>10 DEF SameButOperations
  <2>22. Good(d)
    BY <2>15, <2>17, <2>18, <2>19, <2>20, <2>21 DEF Good, Phase, Open
  <2>23. QED
    BY <2>6, <2>10, <2>22 DEF SameButOperations, SameConnection, d
<1>3. QED
  BY <1>1, <1>2

(* What a call, or several, may do: the client that they leave is sound,   *)
(* and is orderly only if it was.                                          *)
Allowed(c, d) ==
    Sound(d) /\ d.in_message = c.in_message /\ (d.orderly => c.orderly)

LEMMA SendPocketSound ==
    ASSUME NEW c \in ClientType, Sound(c)
    PROVE  Allowed(c, SendPocket(c))
<1> DEFINE item == <<"pocket", c.socket, FALSE>>
           list == Append(c.m_pocket_list, item)
           e == [c EXCEPT !.m_pocket_list = list,
                          !.pockets = @ + 1,
                          !.orderly = @ /\ c.m_is_connected]
           s == [e EXCEPT !.m_executing = TRUE]
           d == SendPocket(c)
<1>1. item \in Item
  BY Fields DEF Item
<1> HIDE DEF item
<1>2. list \in Seq(Item)
  BY <1>1, Fields, AppendIn
<1>3. \A i \in DOMAIN list :
         (i \in DOMAIN c.m_pocket_list /\ list[i] = c.m_pocket_list[i]) \/ list[i] = item
  <2> DEFINE old == c.m_pocket_list
  <2>1. old \in Seq(Item)
    BY Fields
  <2> HIDE DEF old
  <2>2. QED
    BY <1>1, <2>1 DEF old
<1> HIDE DEF list
<1>4. e \in ClientType
  <2> DEFINE orderly == c.orderly /\ c.m_is_connected
  <2>1. c.pockets + 1 \in Nat
    <3>1. c.pockets \in Nat
      BY Fields
    <3>2. QED
      BY <3>1
  <2>2. orderly \in BOOLEAN
    OBVIOUS
  <2> HIDE DEF orderly
  <2>3. [c EXCEPT !.m_pocket_list = list, !.pockets = c.pockets + 1,
                  !.orderly = orderly] \in ClientType
    BY <1>2, <2>1, <2>2 DEF ClientType
  <2>4. QED
    BY <2>3 DEF orderly
<1>5. s \in ClientType
  <2> HIDE DEF e
  <2>1. QED
    BY <1>4 DEF ClientType
<1>6. /\ SameConnection(c, e) /\ e.orderly = (c.orderly /\ c.m_is_connected)
      /\ e.m_executing = c.m_executing /\ e.m_pocket_list = list
      /\ e.m_is_connecting = c.m_is_connecting /\ e.m_is_connected = c.m_is_connected
  BY DEF ClientType, SameConnection
<1> HIDE DEF e
<1>7. /\ SameConnection(e, s) /\ s.orderly = e.orderly
      /\ s.m_executing /\ s.m_pocket_list = list
      /\ s.m_is_connecting = c.m_is_connecting /\ s.m_is_connected = c.m_is_connected
  BY <1>4, <1>6 DEF ClientType, SameConnection
<1> HIDE DEF s
<1>8. d = IF e.m_executing THEN e ELSE NextSend(s)
  BY DEF SendPocket, SendUnlessSending, e, s, list, item
<1> HIDE DEF d
<1>9. ASSUME c.orderly, c.m_is_connected
      PROVE  /\ Kept(e) /\ Solo(e) /\ Live(e) /\ OwnPockets(e)
             /\ ~c.m_is_connecting
             /\ c.m_executing <=> Writing(e)
  <2>1. Kept(c) /\ Open(c)
    BY <1>9 DEF Sound, Good, Phase
  <2>2. ~c.m_is_connecting
    BY <1>9 DEF Sound, Good, Phase, Opening
  <2>3. Kept(e) /\ Solo(e) /\ Live(e) /\ (Writing(c) <=> Writing(e))
    BY <1>6, <2>1, SameHolds DEF Open
  <2>4. OwnPockets(e)
    BY <1>3, <1>6, <2>1 DEF Open, OwnPockets, OfSocket, SameConnection, item
  <2>5. QED
    BY <2>1, <2>2, <2>3, <2>4 DEF Open, Pocketed
<1>10. /\ e.in_message = c.in_message /\ e.got = c.got /\ e.m_memory = c.m_memory
       /\ s.in_message = c.in_message /\ s.got = c.got /\ s.m_memory = c.m_memory
       /\ e.orderly => c.orderly
       /\ s.orderly = e.orderly
  BY <1>6, <1>7 DEF SameConnection
<1>11. CASE e.m_executing
  <2>1. d = e
    BY <1>8, <1>11
  <2>2. ASSUME e.orderly PROVE Good(e)
    <3>1. Pocketed(e)
      BY <1>6, <1>9, <1>11, <2>2 DEF Pocketed
    <3>2. QED
      BY <1>6, <1>9, <2>2, <3>1 DEF Good, Phase, Open
  <2>3. QED
    BY <1>4, <1>10, <2>1, <2>2 DEF Allowed, Sound, d
<1>12. CASE ~e.m_executing
  <2>1. d = NextSend(s)
    BY <1>8, <1>12
  <2>2. ASSUME e.orderly PROVE Sendable(s)
    <3>1. Kept(s) /\ Solo(s) /\ Live(s) /\ ~Writing(s)
      BY <1>6, <1>7, <1>9, <1>12, <2>2, SameHolds
    <3>2. OwnPockets(s)
      <4>1. OwnPockets(e)
        BY <1>6, <1>9, <2>2
      <4>2. s.m_pocket_list = e.m_pocket_list
        BY <1>6, <1>7
      <4>3. QED
        BY <1>7, <4>1, <4>2, OwnPocketsHold DEF SameConnection
    <3>3. s.m_is_connected /\ ~s.m_is_connecting /\ s.m_executing
      BY <1>6, <1>7, <1>9, <2>2
    <3>4. QED
      BY <3>1, <3>2, <3>3 DEF Sendable
  <2>3. d \in ClientType /\ d.orderly = s.orderly /\ d.in_message = s.in_message
    BY <1>5, <2>1, NextSendType
  <2>4. ASSUME e.orderly
        PROVE  Good(d) /\ d.got = s.got /\ d.m_memory = s.m_memory
    BY <1>5, <2>1, <2>2, <2>4, NextSendGood
  <2>5. QED
    BY <1>10, <2>3, <2>4 DEF Allowed, Sound, d
<1>13. QED
  BY <1>11, <1>12

(* A call outside of a callback or in one.                                 *)
LEMMA CallsSound ==
    ASSUME NEW c \in ClientType, Sound(c), NEW d \in Calls(c)
    PROVE  Allowed(c, d)
<1>1. CASE d = [Close(c) EXCEPT !.closes = @ + 1]
  <2> DEFINE e == Close(c)
  <2>1. /\ e \in ClientType /\ e.in_message = c.in_message /\ e.orderly = c.orderly
        /\ e.got = c.got /\ e.m_memory = c.m_memory
        /\ ~e.m_is_connecting /\ ~e.m_is_connected /\ Quiet(e)
    BY CloseIs
  <2>2. c.orderly => Kept(e) /\ Gone(e)
    BY <2>1, CloseGood DEF Sound, Good, Phase, Shut
  <2> HIDE DEF e
  <2>3. e.closes + 1 \in Nat
    <3>1. e.closes \in Nat
      BY <2>1, Fields
    <3>2. QED
      BY <3>1
  <2>4. d = [e EXCEPT !.closes = e.closes + 1]
    BY <1>1 DEF e
  <2>5. d \in ClientType
    BY <2>1, <2>3, <2>4 DEF ClientType
  <2>6. /\ SameConnection(e, d) /\ d.orderly = e.orderly
        /\ d.m_is_connecting = e.m_is_connecting /\ d.m_is_connected = e.m_is_connected
        /\ d.m_executing = e.m_executing /\ d.m_pocket_list = e.m_pocket_list
    BY <2>1, <2>4 DEF ClientType, SameConnection
  <2>7. Quiet(d) /\ ~d.m_is_connecting /\ ~d.m_is_connected
    BY <2>1, <2>6 DEF Quiet
  <2>8. d.orderly => Good(d)
    <3>1. c.orderly => Kept(d) /\ Gone(d)
      BY <2>2, <2>6, SameHolds
    <3>2. QED
      BY <2>1, <2>6, <2>7, <3>1 DEF Good, Phase, Shut
  <2>9. QED
    BY <2>1, <2>5, <2>6, <2>8 DEF Allowed, Sound, SameConnection
<1>2. CASE /\ \E valid \in BOOLEAN : d = Connect(c, valid)
           /\ ~c.m_is_connected /\ ~c.m_is_connecting
  BY <1>2, ConnectSound DEF Allowed
<1>3. CASE d = SendPocket(c)
  BY <1>3, SendPocketSound
<1>4. QED
  BY <1>1, <1>2, <1>3 DEF Calls

LEMMA CallbackSound ==
    ASSUME NEW c \in ClientType, Sound(c), NEW d \in Callback(c)
    PROVE  Allowed(c, d)
<1>1. CASE d = c
  BY <1>1 DEF Allowed
<1>2. CASE d \in Calls(c)
  BY <1>2, CallsSound
<1>3. CASE \E e \in Calls(c) : d \in Calls(e)
  <2>1. PICK e \in Calls(c) : d \in Calls(e)
    BY <1>3
  <2>2. Allowed(c, e)
    BY CallsSound
  <2>3. e \in ClientType /\ Sound(e)
    BY <2>2 DEF Allowed, Sound
  <2>4. Allowed(e, d)
    BY <2>1, <2>3, CallsSound
  <2>5. QED
    BY <2>2, <2>4 DEF Allowed
<1>4. QED
  BY <1>1, <1>2, <1>3 DEF Callback

-----------------------------------------------------------------------------

(* What the handlers are built from.  Between two reads, the handler of    *)
(* the one that is over has not begun the next one.                        *)
Between(c) ==
    /\ Counted(c) /\ Reported(c) /\ c.fate # "garbled"
    /\ ~Reading(c) /\ ~c.in_message /\ ~c.m_is_connecting
    /\ c.m_is_connected =>
         /\ Solo(c) /\ c.open /\ c.wire.up /\ c.lost = 0 /\ c.socket # 0
         /\ OwnPockets(c) /\ Pocketed(c)
    /\ ~c.m_is_connected => Quiet(c) /\ c.output = <<>> /\ ~c.open

LEMMA BetweenIs ==
    ASSUME NEW c \in ClientType, Between(c)
    PROVE  /\ c.reads = <<>> /\ DOMAIN c.reads = {}
           /\ \A i \in DOMAIN c.ready :
                 c.ready[i].kind \in Output /\ c.ready[i].kind \notin Reads
           /\ c.m_is_connected => \A i, j \in DOMAIN c.ready : i = j
           /\ Lone(c)
<1>1. c.reads = <<>> /\ \A i \in DOMAIN c.ready : c.ready[i].kind \notin Reads
  BY DEF Between, Reading
<1>2. \A i \in DOMAIN c.ready : c.ready[i].kind \in Reads \cup Output
  BY QueueTypes
<1>3. c.m_is_connected => \A i, j \in DOMAIN c.ready : i = j
  BY <1>1 DEF Between, Solo
<1>4. Lone(c)
  BY <1>1 DEF Lone
<1>5. QED
  BY <1>1, <1>2, <1>3, <1>4, EmptyIs

LEMMA ReadBegunGood ==
    ASSUME NEW c \in ClientType, Between(c), NEW kind \in Reads, NEW item \in Item,
           kind = "body" => c.m_memory = Due(c) /\ item[2] = Due(c),
           c.m_is_connected => Aligned(c.wire, kind, Due(c))
    PROVE  Good(BeginRead(c, kind, item))
<1> DEFINE d == BeginRead(c, kind, item)
           op == Operation(kind, item)
           ended == Ended(kind, item, TRUE)
<1>1. /\ d \in ClientType /\ SameButOperations(c, d) /\ d.output = c.output
      /\ c.open => d.reads = Append(c.reads, op) /\ d.ready = c.ready
      /\ ~c.open => d.ready = Append(c.ready, ended) /\ d.reads = c.reads
  BY BeginReadIs
<1>2. /\ op.kind = kind /\ op.item = item
      /\ ended.kind = kind /\ ended.failed
  BY DEF Operation, Ended
<1>3. kind \notin Output
  BY Kinds
<1> HIDE DEF d, op, ended
<1>4. /\ c.reads = <<>> /\ DOMAIN c.reads = {}
      /\ \A i \in DOMAIN c.ready :
            c.ready[i].kind \in Output /\ c.ready[i].kind \notin Reads
      /\ c.m_is_connected => \A i, j \in DOMAIN c.ready : i = j
  BY BetweenIs
<1>5. /\ Counted(c) /\ Reported(c) /\ c.fate # "garbled"
      /\ ~c.in_message /\ ~c.m_is_connecting
      /\ c.m_is_connected =>
           /\ Len(c.output) <= 1
           /\ c.output # <<>> => \A i \in DOMAIN c.ready : c.ready[i].kind \in Reads
  BY DEF Between, Solo
<1>6. Counted(d) /\ Reported(d) /\ d.fate # "garbled"
  BY <1>1, <1>5 DEF SameButOperations, Counted, Reported
<1>7. CASE c.m_is_connected
  <2>1. d.reads = Append(<<>>, op) /\ d.ready = c.ready
    BY <1>1, <1>4, <1>7 DEF Between
  <2>2. /\ d.reads # <<>> /\ Len(d.reads) <= 1
        /\ DOMAIN d.reads = {1} /\ d.reads[1] = op
    BY <2>1, SingleIs
  <2>3. Reading(d) /\ (Writing(c) <=> Writing(d))
    BY <1>1, <2>1, <2>2 DEF Reading, Writing
  <2>4. Solo(d) /\ Lone(d)
    BY <1>1, <1>4, <1>5, <1>7, <2>1, <2>2 DEF Solo, Lone
  <2>5. Memory(d)
    <3>1. ~d.in_message /\ Due(d) = Due(c) /\ d.m_memory = c.m_memory
      BY <1>1, <1>5 DEF SameButOperations, Due
    <3>2. ReadHolds(d, op)
      BY <1>2, <3>1 DEF ReadHolds
    <3>3. \A i \in DOMAIN d.ready : EndedHolds(d, d.ready[i])
      BY <1>4, <2>1 DEF EndedHolds
    <3>4. QED
      BY <2>2, <2>3, <3>1, <3>2, <3>3 DEF Memory
  <2>6. InStream(d)
    <3>1. ~d.in_message /\ Due(d) = Due(c) /\ d.wire = c.wire
      BY <1>1, <1>5 DEF SameButOperations, Due
    <3>2. QED
      BY <1>2, <1>4, <1>7, <2>1, <2>2, <3>1 DEF InStream
  <2>7. Live(d)
    BY <1>1, <1>7, <2>3, <2>6 DEF Live, Between, SameButOperations
  <2>8. OwnPockets(d) /\ Pocketed(d)
    <3>1. OwnPockets(c) /\ Pocketed(c)
      BY <1>7 DEF Between
    <3>2. /\ d.m_pocket_list = c.m_pocket_list /\ d.socket = c.socket
          /\ d.m_executing = c.m_executing
          /\ d.output = c.output /\ d.ready = c.ready
      BY <1>1, <2>1 DEF SameButOperations
    <3>3. OwnPockets(d)
      BY <3>1, <3>2, OwnPocketsHold
    <3>4. Pocketed(d)
      BY <2>3, <3>1, <3>2 DEF Pocketed
    <3>5. QED
      BY <3>3, <3>4
  <2>9. d.m_is_connected /\ ~d.m_is_connecting
    BY <1>1, <1>5, <1>7 DEF SameButOperations
  <2>10. QED
    BY <1>6, <2>4, <2>5, <2>7, <2>8, <2>9 DEF Good, Kept, Phase, Open, d
<1>8. CASE ~c.m_is_connected
  <2>1. d.reads = <<>> /\ d.ready = Append(c.ready, ended) /\ d.output = <<>>
    BY <1>1, <1>4, <1>8 DEF Between
  <2>2. /\ \A i \in DOMAIN d.ready :
              \/ i \in DOMAIN c.ready /\ d.ready[i] = c.ready[i]
              \/ i = Len(c.ready) + 1 /\ d.ready[i] = ended
        /\ Len(c.ready) + 1 \in DOMAIN d.ready
        /\ d.ready[Len(c.ready) + 1] = ended
    <3> DEFINE r == c.ready
    <3>1. r \in Seq(EndedOperation)
      BY Fields
    <3>2. ended \in EndedOperation
      BY Constants DEF ended
    <3> HIDE DEF r
    <3>3. /\ \A i \in DOMAIN Append(r, ended) :
                \/ i \in DOMAIN r /\ Append(r, ended)[i] = r[i]
                \/ i = Len(r) + 1 /\ Append(r, ended)[i] = ended
          /\ Len(r) + 1 \in DOMAIN Append(r, ended)
          /\ Append(r, ended)[Len(r) + 1] = ended
      BY <3>1, <3>2, AppendIs
    <3>4. QED
      BY <2>1, <3>3 DEF r
  <2>3. Reading(d)
    BY <1>2, <2>2 DEF Reading
  <2>4. Lone(d)
    BY <1>2, <1>4, <2>1, <2>2 DEF Lone
  <2>5. Memory(d)
    <3>1. ~d.in_message
      BY <1>1, <1>5 DEF SameButOperations
    <3>2. \A i \in DOMAIN d.ready : EndedHolds(d, d.ready[i])
      BY <1>2, <1>4, <2>2 DEF EndedHolds
    <3>3. QED
      BY <2>1, <2>3, <3>1, <3>2, EmptyIs DEF Memory
  <2>6. Shut(d)
    BY <1>1, <1>8, <2>1 DEF Between, SameButOperations, Shut, Gone, Quiet
  <2>7. ~d.m_is_connected /\ ~d.m_is_connecting
    BY <1>1, <1>5, <1>8 DEF SameButOperations
  <2>8. QED
    BY <1>6, <2>4, <2>5, <2>6, <2>7 DEF Good, Kept, Phase, d
<1>9. QED
  BY <1>7, <1>8

LEMMA NextReadHeadSound ==
    ASSUME NEW c \in ClientType, ~c.in_message,
           c.orderly => /\ Between(c) /\ c.m_memory = 0
                        /\ c.m_is_connected => Aligned(c.wire, "head", Due(c))
    PROVE  LET d == NextReadHead(c)
           IN  Sound(d) /\ ~d.in_message /\ d.orderly = c.orderly
<1> DEFINE d == NextReadHead(c)
<1>1. CASE c.socket = 0
  <2>1. d = c
    BY <1>1 DEF NextReadHead
  <2>2. c.orderly => Good(c)
    <3>1. SUFFICES ASSUME c.orderly PROVE Good(c)
      OBVIOUS
    <3>2. Between(c) /\ c.m_memory = 0
      BY <3>1
    <3>3. ~c.m_is_connected /\ ~c.m_is_connecting
      BY <1>1, <3>2 DEF Between
    <3>4. /\ c.reads = <<>> /\ DOMAIN c.reads = {}
          /\ \A i \in DOMAIN c.ready : c.ready[i].kind \notin Reads
          /\ Lone(c)
      BY <3>2, BetweenIs
    <3>5. Memory(c)
      BY <3>2, <3>4 DEF Memory, Between, EndedHolds
    <3>6. Shut(c)
      BY <3>2, <3>3, <3>4 DEF Between, Shut, Gone
    <3>7. QED
      BY <3>2, <3>3, <3>4, <3>5, <3>6 DEF Good, Kept, Phase, Between
  <2>3. QED
    BY <2>1, <2>2 DEF Sound
<1>2. CASE c.socket # 0
  <2>1. d = BeginRead(c, "head", Nothing)
    BY <1>2 DEF NextReadHead
  <2>2. "head" \in Reads /\ Nothing \in Item
    BY Constants DEF Reads
  <2> HIDE DEF d
  <2>3. d \in ClientType /\ SameButOperations(c, d)
    BY <2>1, <2>2, BeginReadIs
  <2>4. c.orderly => Good(d)
    BY <2>1, <2>2, ReadBegunGood
  <2>5. QED
    BY <2>3, <2>4 DEF Sound, SameButOperations, d
<1>3. QED
  BY <1>1, <1>2

(* What holds of the operations does not depend on the other fields.       *)
LEMMA OperationsHold ==
    ASSUME NEW c, NEW d,
           d.reads = c.reads, d.output = c.output, d.ready = c.ready
    PROVE  /\ Reading(c) <=> Reading(d)
           /\ Writing(c) <=> Writing(d)
           /\ Solo(c) <=> Solo(d)
           /\ Lone(c) <=> Lone(d)
  BY DEF Reading, Writing, Solo, Lone

LEMMA DisconnectSound ==
    ASSUME NEW c \in ClientType, ~c.in_message,
           c.orderly => Kept(c),
           c.orderly /\ c.settled /\ ~ClosedBySelf(c) => c.lost = 0,
           NEW d \in ExecuteDisconnectCallback(c)
    PROVE  Sound(d) /\ ~d.in_message
<1> DEFINE e == Close(c)
           f == [e EXCEPT !.lost = @ + 1]
<1>1. /\ e \in ClientType /\ ~e.in_message /\ e.orderly = c.orderly
      /\ ~e.m_is_connecting /\ ~e.m_is_connected /\ e.lost = c.lost
      /\ e.settled = c.settled
  BY CloseIs
<1>2. c.orderly => Kept(e) /\ Shut(e)
  BY CloseGood DEF Good
<1>3. d = e \/ (~ClosedBySelf(c) /\ d \in Callback(f))
  BY DEF ExecuteDisconnectCallback
<1> HIDE DEF e
<1>4. CASE d = e
  BY <1>1, <1>2, <1>4 DEF Sound, Good, Phase
<1>5. CASE ~ClosedBySelf(c) /\ d \in Callback(f)
  <2>1. f \in ClientType
    <3>1. e.lost \in Nat
      BY <1>1, Fields
    <3>2. e.lost + 1 \in Nat
      BY <3>1
    <3>3. QED
      BY <1>1, <3>2 DEF ClientType
  <2>2. /\ f.reads = e.reads /\ f.output = e.output /\ f.ready = e.ready
        /\ f.lost = e.lost + 1 /\ f.in_message = e.in_message
        /\ f.orderly = e.orderly /\ f.settled = e.settled
        /\ f.m_memory = e.m_memory /\ f.got = e.got
        /\ f.fate = e.fate /\ f.open = e.open /\ f.m_executing = e.m_executing
        /\ f.m_pocket_list = e.m_pocket_list
        /\ f.m_is_connecting = e.m_is_connecting /\ f.m_is_connected = e.m_is_connected
    BY <1>1 DEF ClientType
  <2> HIDE DEF f
  <2>3. ASSUME c.orderly PROVE Good(f)
    <3>1. c.settled => c.lost = 0
      BY <1>5, <2>3
    <3>2. Kept(e) /\ Shut(e)
      BY <1>2, <2>3
    <3>3. Reported(f)
      BY <1>1, <2>2, <3>1 DEF Reported
    <3>4. Lone(f) /\ (Reading(e) <=> Reading(f))
      BY <2>2, <3>2, OperationsHold DEF Kept
    <3>5. \A op : /\ ReadHolds(e, op) => ReadHolds(f, op)
                  /\ EndedHolds(e, op) => EndedHolds(f, op)
      BY <2>2 DEF ReadHolds, EndedHolds, Due
    <3>6. Memory(f)
      BY <2>2, <3>2, <3>4, <3>5 DEF Kept, Memory
    <3>7. Kept(f)
      BY <2>2, <3>2, <3>3, <3>4, <3>6 DEF Kept, Counted
    <3>8. Shut(f)
      BY <2>2, <3>2 DEF Shut, Gone, Quiet
    <3>9. QED
      BY <1>1, <2>2, <3>7, <3>8 DEF Good, Phase
  <2>4. Sound(f)
    BY <1>1, <2>1, <2>2, <2>3 DEF Sound
  <2>5. Allowed(f, d)
    BY <1>5, <2>1, <2>4, CallbackSound
  <2>6. QED
    BY <1>1, <2>2, <2>5 DEF Allowed
<1>6. QED
  BY <1>3, <1>4, <1>5

(* A message is handed over: the client whose callback is being called.    *)
LEMMA HandedOverSound ==
    ASSUME NEW c \in ClientType, ~c.in_message,
           c.orderly => /\ Between(c) /\ c.m_memory = Due(c)
                        /\ c.m_is_connected => Aligned(c.wire, "head", Due(c) + 1)
    PROVE  LET e == [c EXCEPT !.got = Append(@, c.m_memory), !.in_message = TRUE]
           IN  e \in ClientType /\ Sound(e) /\ e.in_message
<1> DEFINE got == Append(c.got, c.m_memory)
           e == [c EXCEPT !.got = got, !.in_message = TRUE]
           n == Len(c.got)
<1>1. c.got \in Seq(Nat) /\ c.m_memory \in Nat /\ n \in Nat
  BY Fields
<1>2. /\ got \in Seq(Nat) /\ Len(got) = n + 1
      /\ \A i \in DOMAIN got :
            \/ i \in DOMAIN c.got /\ got[i] = c.got[i]
            \/ i = n + 1 /\ got[i] = c.m_memory
  BY <1>1, AppendIs
<1> HIDE DEF got, n
<1>3. e \in ClientType
  BY <1>2 DEF ClientType
<1>4. /\ e.reads = c.reads /\ e.output = c.output /\ e.ready = c.ready
      /\ e.got = got /\ e.in_message
      /\ e.lost = c.lost /\ e.settled = c.settled /\ e.orderly = c.orderly /\ e.m_memory = c.m_memory
      /\ e.fate = c.fate /\ e.open = c.open /\ e.m_executing = c.m_executing
      /\ e.m_pocket_list = c.m_pocket_list
      /\ e.m_is_connecting = c.m_is_connecting /\ e.m_is_connected = c.m_is_connected
      /\ e.wire = c.wire /\ e.socket = c.socket
  BY DEF ClientType
<1>5. e = [c EXCEPT !.got = Append(@, c.m_memory), !.in_message = TRUE]
  BY DEF got
<1> HIDE DEF e
<1>6. ASSUME c.orderly PROVE Good(e)
  <2>1. Between(c) /\ c.m_memory = n + 1 /\ Due(e) = n + 2
        /\ (c.m_is_connected => Aligned(c.wire, "head", n + 2))
    BY <1>1, <1>2, <1>4, <1>6 DEF Due, n
  <2>2. /\ c.reads = <<>> /\ DOMAIN c.reads = {}
        /\ \A i \in DOMAIN c.ready : c.ready[i].kind \notin Reads
        /\ Lone(c)
    BY <2>1, BetweenIs
  <2>3. Lone(e) /\ (Solo(c) <=> Solo(e)) /\ ~Reading(e) /\ (Writing(c) <=> Writing(e))
    BY <1>4, <2>1, <2>2, OperationsHold DEF Between
  <2>4. Counted(e)
    BY <1>2, <1>4, <2>1 DEF Between, Counted
  <2>5. Memory(e)
    BY <1>2, <1>4, <2>1, <2>2, <2>3 DEF Memory, EndedHolds
  <2>6. Kept(e)
    BY <1>4, <2>1, <2>3, <2>4, <2>5 DEF Kept, Between, Reported
  <2>7. ASSUME c.m_is_connected PROVE Open(e)
    <3>1. InStream(e)
      BY <1>4, <2>1, <2>2, <2>7 DEF InStream
    <3>2. Live(e)
      BY <1>4, <2>1, <2>7, <3>1 DEF Live, Between
    <3>3. Solo(c) /\ OwnPockets(c) /\ Pocketed(c)
      BY <2>1, <2>7 DEF Between
    <3>4. OwnPockets(e)
      BY <1>4, <3>3, OwnPocketsHold
    <3>5. Pocketed(e)
      BY <1>4, <2>3, <3>3 DEF Pocketed
    <3>6. QED
      BY <2>3, <3>2, <3>3, <3>4, <3>5 DEF Open
  <2>8. ASSUME ~c.m_is_connected PROVE Shut(e)
    BY <1>4, <2>1, <2>2, <2>8 DEF Between, Shut, Gone, Quiet
  <2>9. ~c.m_is_connecting
    BY <2>1 DEF Between
  <2>10. QED
    BY <1>4, <2>6, <2>7, <2>8, <2>9 DEF Good, Phase
<1>7. QED
  BY <1>3, <1>4, <1>5, <1>6 DEF Sound

LEMMA CompleteSound ==
    ASSUME NEW c \in ClientType, ~c.in_message,
           c.orderly => /\ Between(c) /\ c.m_memory = Due(c)
                        /\ c.m_is_connected => Aligned(c.wire, "head", Due(c) + 1),
           NEW d \in CompleteAndReadOn(c)
    PROVE  Sound(d) /\ ~d.in_message
<1> DEFINE e == [c EXCEPT !.got = Append(@, c.m_memory), !.in_message = TRUE]
<1>1. e \in ClientType /\ Sound(e) /\ e.in_message
  BY HandedOverSound
<1>2. PICK f \in Callback(e) : 
         d = NextReadHead([f EXCEPT !.m_memory = 0, !.in_message = FALSE])
  BY DEF CompleteAndReadOn, ReadComplete
<1> HIDE DEF e
<1>3. Sound(f) /\ f.in_message
  BY <1>1, <1>2, CallbackSound DEF Allowed
<1> DEFINE g == [f EXCEPT !.m_memory = 0, !.in_message = FALSE]
<1>4. f \in ClientType
  BY <1>3 DEF Sound
<1>5. g \in ClientType
  BY <1>4 DEF ClientType
<1>6. /\ g.reads = f.reads /\ g.output = f.output /\ g.ready = f.ready
      /\ g.got = f.got /\ ~g.in_message /\ g.m_memory = 0
      /\ g.lost = f.lost /\ g.settled = f.settled /\ g.orderly = f.orderly
      /\ g.fate = f.fate /\ g.open = f.open /\ g.m_executing = f.m_executing
      /\ g.m_pocket_list = f.m_pocket_list
      /\ g.m_is_connecting = f.m_is_connecting /\ g.m_is_connected = f.m_is_connected
      /\ g.wire = f.wire /\ g.socket = f.socket
  BY <1>4 DEF ClientType
<1> HIDE DEF g
<1>7. ASSUME g.orderly
      PROVE  Between(g) /\ (g.m_is_connected => Aligned(g.wire, "head", Due(g)))
  <2>1. Kept(f) /\ Phase(f)
    BY <1>3, <1>6, <1>7 DEF Sound, Good
  <2>2. ~f.m_is_connecting
    BY <1>3, <2>1 DEF Phase, Opening
  <2>3. (Solo(f) <=> Solo(g)) /\ ~Reading(g) /\ (Writing(f) <=> Writing(g))
    BY <1>3, <1>6, <2>1, OperationsHold DEF Kept, Memory
  <2>4. Counted(g) /\ Reported(g) /\ g.fate # "garbled"
    BY <1>6, <2>1 DEF Kept, Counted, Reported
  <2>5. ASSUME f.m_is_connected
        PROVE  /\ Solo(g) /\ f.open /\ f.wire.up /\ f.lost = 0 /\ f.socket # 0
               /\ OwnPockets(g) /\ Pocketed(g) /\ Aligned(g.wire, "head", Due(g))
    <3>1. Solo(f) /\ Live(f) /\ OwnPockets(f) /\ Pocketed(f)
      BY <2>1, <2>5 DEF Phase, Open
    <3>2. Aligned(g.wire, "head", Due(g))
      BY <1>3, <1>6, <3>1 DEF Live, InStream, Due
    <3>3. OwnPockets(g)
      BY <1>6, <3>1, OwnPocketsHold
    <3>4. Pocketed(g)
      BY <1>6, <2>3, <3>1 DEF Pocketed
    <3>5. QED
      BY <2>3, <3>1, <3>2, <3>3, <3>4 DEF Live
  <2>6. ASSUME ~f.m_is_connected
        PROVE  Quiet(g) /\ g.output = <<>> /\ ~g.open
    <3>1. Quiet(f) /\ Gone(f)
      BY <1>3, <2>1, <2>2, <2>6 DEF Phase, Shut, Opening
    <3>2. QED
      BY <1>3, <1>6, <3>1 DEF Quiet, Gone
  <2>7. Between(g)
    BY <1>6, <2>2, <2>3, <2>4, <2>5, <2>6 DEF Between
  <2>8. QED
    BY <1>6, <2>5, <2>7
<1>8. d = NextReadHead(g)
  BY <1>2 DEF g
<1>9. QED
  BY <1>5, <1>6, <1>7, <1>8, NextReadHeadSound

-----------------------------------------------------------------------------

(* The handlers.  The io_service takes the first one from its queue.       *)
Took(b) == [b EXCEPT !.ready = Tail(@)]

LEMMA TookIs ==
    ASSUME NEW b \in ClientType, b.ready # <<>>
    PROVE  LET c == Took(b)
           IN  /\ c \in ClientType
               /\ c.reads = b.reads /\ c.output = b.output
               /\ SameButOperations(b, c)
               /\ Head(b.ready) \in EndedOperation
               /\ 1 \in DOMAIN b.ready /\ Head(b.ready) = b.ready[1]
               /\ \A i \in DOMAIN c.ready :
                     /\ i \in Nat /\ i >= 1 /\ i + 1 \in DOMAIN b.ready
                     /\ c.ready[i] = b.ready[i + 1]
               /\ \A i \in DOMAIN b.ready : i = 1 \/ i - 1 \in DOMAIN c.ready
<1> DEFINE ready == b.ready
           rest == Tail(ready)
           c == Took(b)
<1>1. ready \in Seq(EndedOperation)
  BY Fields
<1> HIDE DEF ready
<1>2. /\ rest \in Seq(EndedOperation)
      /\ Head(ready) \in EndedOperation
      /\ 1 \in DOMAIN ready /\ Head(ready) = ready[1]
      /\ \A i \in DOMAIN rest :
            /\ i \in Nat /\ i >= 1 /\ i + 1 \in DOMAIN ready
            /\ rest[i] = ready[i + 1]
      /\ \A i \in DOMAIN ready : i = 1 \/ i - 1 \in DOMAIN rest
  BY <1>1, TailIs DEF ready
<1> HIDE DEF rest
<1>3. c = [b EXCEPT !.ready = rest]
  BY DEF Took, rest, ready
<1>4. c \in ClientType
  BY <1>2, <1>3 DEF ClientType
<1>5. /\ c.reads = b.reads /\ c.output = b.output /\ c.ready = rest
      /\ SameButOperations(b, c)
  BY <1>3 DEF ClientType, SameButOperations
<1> HIDE DEF c
<1>6. QED
  BY <1>2, <1>4, <1>5 DEF c, ready

(* The loss of the present connection has not been reported yet.           *)
Unreported(c) == c.settled /\ ~ClosedBySelf(c) => c.lost = 0

(* What is left when the handler of a read, or of an output, is taken.     *)
LEMMA TookKept ==
    ASSUME NEW b \in ClientType, b.ready # <<>>, Kept(b), ~b.in_message
    PROVE  LET c == Took(b)
               op == Head(b.ready)
           IN  /\ Lone(c) /\ Counted(c) /\ Reported(c) /\ c.fate # "garbled"
               /\ ~op.failed /\ op.kind \in Reads => ~Reading(c)
               /\ op.failed /\ op.kind \in Reads =>
                    /\ c.reads = <<>>
                    /\ \A i \in DOMAIN c.ready :
                          c.ready[i].kind \in Reads => c.ready[i].failed
               /\ op.kind \in Output => Kept(c)
               /\ EndedHolds(c, op)
<1> DEFINE c == Took(b)
           op == Head(b.ready)
<1>1. /\ c \in ClientType
      /\ c.reads = b.reads /\ c.output = b.output
      /\ SameButOperations(b, c)
      /\ op \in EndedOperation
      /\ 1 \in DOMAIN b.ready /\ op = b.ready[1]
  BY TookIs
<1>2. \A i \in DOMAIN c.ready :
         /\ i \in Nat /\ i >= 1 /\ i + 1 \in DOMAIN b.ready
         /\ c.ready[i] = b.ready[i + 1]
  BY TookIs
<1>3. \A i \in DOMAIN b.ready : i = 1 \/ i - 1 \in DOMAIN c.ready
  BY TookIs
<1>4. DOMAIN b.ready = 1..Len(b.ready) /\ Len(b.ready) \in Nat
  BY QueueTypes
<1>5. op.kind \in Reads \cup Output /\ (op.kind \in Reads <=> op.kind \notin Output)
  BY <1>1, Kinds DEF EndedOperation
<1> HIDE DEF c, op
<1>6. /\ \A i, j \in DOMAIN b.ready :
            ~b.ready[i].failed /\ b.ready[i].kind \in Reads /\ b.ready[j].kind \in Reads
            => i = j
      /\ b.reads # <<>> => \A i \in DOMAIN b.ready : b.ready[i].kind \in Output
  BY DEF Kept, Lone
<1>7. Lone(c)
  <2>1. ASSUME NEW i \in DOMAIN c.ready, NEW j \in DOMAIN c.ready,
               ~c.ready[i].failed, c.ready[i].kind \in Reads, c.ready[j].kind \in Reads
        PROVE  i = j
    <3>1. /\ i + 1 \in DOMAIN b.ready /\ j + 1 \in DOMAIN b.ready
          /\ i \in Nat /\ j \in Nat
          /\ c.ready[i] = b.ready[i + 1] /\ c.ready[j] = b.ready[j + 1]
      BY <1>2
    <3>2. i + 1 = j + 1
      BY <1>6, <2>1, <3>1
    <3>3. QED
      BY <3>1, <3>2
  <2>2. c.reads # <<>> => \A i \in DOMAIN c.ready : c.ready[i].kind \in Output
    BY <1>1, <1>2, <1>6
  <2>3. QED
    BY <2>1, <2>2 DEF Lone
<1>8. Counted(c) /\ Reported(c) /\ c.fate # "garbled"
  BY <1>1 DEF Kept, Counted, Reported, SameButOperations
<1>9. \A o : /\ EndedHolds(b, o) => EndedHolds(c, o)
             /\ ReadHolds(b, o) => ReadHolds(c, o)
  BY <1>1 DEF SameButOperations, EndedHolds, ReadHolds, Due
<1>10. EndedHolds(c, op)
  BY <1>1, <1>9 DEF Kept, Memory
<1>11. ASSUME op.kind \in Reads
       PROVE  c.reads = <<>>
  BY <1>1, <1>5, <1>6, <1>11
<1>12. ASSUME op.kind \in Reads, ~op.failed
       PROVE  ~Reading(c)
  <2>1. ASSUME NEW i \in DOMAIN c.ready, c.ready[i].kind \in Reads
        PROVE  FALSE
    <3>1. i + 1 \in DOMAIN b.ready /\ i \in Nat /\ i >= 1 /\ c.ready[i] = b.ready[i + 1]
      BY <1>2
    <3>2. 1 = i + 1
      BY <1>1, <1>6, <1>12, <2>1, <3>1
    <3>3. QED
      BY <3>1, <3>2
  <2>2. QED
    BY <1>11, <1>12, <2>1 DEF Reading
<1>13. ASSUME op.kind \in Reads, op.failed,
              NEW i \in DOMAIN c.ready, c.ready[i].kind \in Reads
       PROVE  c.ready[i].failed
  <2>1. i + 1 \in DOMAIN b.ready /\ i \in Nat /\ i >= 1 /\ c.ready[i] = b.ready[i + 1]
    BY <1>2
  <2>2. SUFFICES ASSUME ~c.ready[i].failed PROVE FALSE
    OBVIOUS
  <2>3. i + 1 = 1
    BY <1>1, <1>6, <1>13, <2>1, <2>2
  <2>4. QED
    BY <2>1, <2>3
<1>14. ASSUME op.kind \in Output PROVE Kept(c)
  <2>1. \A i \in DOMAIN c.ready : EndedHolds(c, c.ready[i])
    BY <1>2, <1>9 DEF Kept, Memory
  <2>2. \A i \in DOMAIN c.reads : ReadHolds(c, c.reads[i])
    BY <1>1, <1>9 DEF Kept, Memory
  <2>3. ~c.in_message /\ c.m_memory = b.m_memory
    BY <1>1 DEF SameButOperations
  <2>4. ASSUME NEW i \in DOMAIN b.ready, b.ready[i].kind \in Reads
        PROVE  \E j \in DOMAIN c.ready : c.ready[j].kind \in Reads
    <3>1. i # 1
      BY <1>1, <1>5, <1>14, <2>4
    <3>2. i - 1 \in DOMAIN c.ready /\ i \in Nat
      BY <1>3, <1>4, <3>1
    <3>3. c.ready[i - 1] = b.ready[(i - 1) + 1] /\ (i - 1) + 1 = i
      BY <1>2, <3>2
    <3>4. QED
      BY <2>4, <3>2, <3>3
  <2>5. Reading(b) => Reading(c)
    BY <1>1, <2>4 DEF Reading
  <2>6. ~Reading(c) => c.m_memory = 0
    BY <2>3, <2>5 DEF Kept, Memory
  <2>7. Memory(c)
    BY <2>1, <2>2, <2>3, <2>6 DEF Memory
  <2>8. QED
    BY <1>7, <1>8, <2>7 DEF Kept
<1>15. QED
  BY <1>7, <1>8, <1>10, <1>11, <1>12, <1>13, <1>14 DEF c, op

(* ... of a client that is connected.                                      *)
LEMMA TookSolo ==
    ASSUME NEW b \in ClientType, b.ready # <<>>, Solo(b)
    PROVE  LET c == Took(b)
               op == Head(b.ready)
           IN  /\ Solo(c)
               /\ op.kind \in Reads => Writing(b) <=> Writing(c)
               /\ op.kind \in Output => ~Writing(c) /\ (Reading(b) <=> Reading(c))
<1> DEFINE c == Took(b)
           op == Head(b.ready)
<1>1. /\ c \in ClientType
      /\ c.reads = b.reads /\ c.output = b.output
      /\ SameButOperations(b, c)
      /\ op \in EndedOperation
      /\ 1 \in DOMAIN b.ready /\ op = b.ready[1]
  BY TookIs
<1>2. \A i \in DOMAIN c.ready :
         /\ i \in Nat /\ i >= 1 /\ i + 1 \in DOMAIN b.ready
         /\ c.ready[i] = b.ready[i + 1]
  BY TookIs
<1>3. \A i \in DOMAIN b.ready : i = 1 \/ i - 1 \in DOMAIN c.ready
  BY TookIs
<1>4. DOMAIN b.ready = 1..Len(b.ready) /\ Len(b.ready) \in Nat
  BY QueueTypes
<1>5. op.kind \in Reads \cup Output /\ (op.kind \in Reads <=> op.kind \notin Output)
  BY <1>1, Kinds DEF EndedOperation
<1> HIDE DEF c, op
<1>6. \A i \in DOMAIN b.ready : i # 1 =>
         (b.ready[i].kind \in Reads <=> op.kind \notin Reads)
  BY <1>1 DEF Solo
<1>7. \A i \in DOMAIN c.ready : c.ready[i].kind \in Reads <=> op.kind \notin Reads
  <2>1. ASSUME NEW i \in DOMAIN c.ready
        PROVE  c.ready[i].kind \in Reads <=> op.kind \notin Reads
    <3>1. i + 1 # 1
      BY <1>2
    <3>2. QED
      BY <1>2, <1>6, <3>1
  <2>2. QED
    BY <2>1
<1>8. \A i \in DOMAIN c.ready : c.ready[i].kind \in Reads <=> c.ready[i].kind \notin Output
  <2>1. \A i \in DOMAIN c.ready : c.ready[i].kind \in Reads \cup Output
    BY <1>1, QueueTypes
  <2>2. QED
    BY <2>1, Kinds
<1>9. Solo(c)
  <2>1. ASSUME NEW i \in DOMAIN c.ready, NEW j \in DOMAIN c.ready PROVE i = j
    <3>1. /\ i + 1 \in DOMAIN b.ready /\ j + 1 \in DOMAIN b.ready
          /\ i \in Nat /\ j \in Nat
          /\ c.ready[i] = b.ready[i + 1] /\ c.ready[j] = b.ready[j + 1]
      BY <1>2
    <3>2. c.ready[i].kind \in Reads <=> c.ready[j].kind \in Reads
      BY <1>7
    <3>3. i + 1 = j + 1
      BY <3>1, <3>2 DEF Solo
    <3>4. QED
      BY <3>1, <3>3
  <2>2. /\ Len(c.reads) <= 1 /\ Len(c.output) <= 1
        /\ c.reads # <<>> => \A i \in DOMAIN c.ready : c.ready[i].kind \in Output
        /\ c.output # <<>> => \A i \in DOMAIN c.ready : c.ready[i].kind \in Reads
    BY <1>1, <1>2 DEF Solo
  <2>3. QED
    BY <2>1, <2>2 DEF Solo
<1>10. ASSUME op.kind \in Reads
       PROVE  Writing(b) <=> Writing(c)
  <2>1. ASSUME NEW i \in DOMAIN b.ready, b.ready[i].kind \in Output
        PROVE  \E j \in DOMAIN c.ready : c.ready[j].kind \in Output
    <3>1. i # 1
      BY <1>1, <1>5, <1>10, <2>1
    <3>2. i - 1 \in DOMAIN c.ready /\ i \in Nat
      BY <1>3, <1>4, <3>1
    <3>3. c.ready[i - 1] = b.ready[(i - 1) + 1] /\ (i - 1) + 1 = i
      BY <1>2, <3>2
    <3>4. QED
      BY <2>1, <3>2, <3>3
  <2>2. \A j \in DOMAIN c.ready : \E i \in DOMAIN b.ready : c.ready[j] = b.ready[i]
    BY <1>2
  <2>3. Writing(b) <=> Writing(c)
    BY <1>1, <2>1, <2>2 DEF Writing
  <2>4. QED
    BY <2>3
<1>11. ASSUME op.kind \in Output
       PROVE  ~Writing(c) /\ (Reading(b) <=> Reading(c))
  <2>1. b.output = <<>>
    BY <1>1, <1>5, <1>11 DEF Solo
  <2>2. ~Writing(c)
    BY <1>1, <1>5, <1>7, <1>8, <1>11, <2>1 DEF Writing
  <2>3. ASSUME NEW i \in DOMAIN b.ready, b.ready[i].kind \in Reads
        PROVE  \E j \in DOMAIN c.ready : c.ready[j].kind \in Reads
    <3>1. i # 1
      BY <1>1, <1>5, <1>11, <2>3
    <3>2. i - 1 \in DOMAIN c.ready /\ i \in Nat
      BY <1>3, <1>4, <3>1
    <3>3. c.ready[i - 1] = b.ready[(i - 1) + 1] /\ (i - 1) + 1 = i
      BY <1>2, <3>2
    <3>4. QED
      BY <2>3, <3>2, <3>3
  <2>4. \A j \in DOMAIN c.ready : \E i \in DOMAIN b.ready : c.ready[j] = b.ready[i]
    BY <1>2
  <2>5. Reading(b) <=> Reading(c)
    BY <1>1, <2>3, <2>4 DEF Reading
  <2>6. QED
    BY <2>2, <2>5
<1>12. QED
  BY <1>9, <1>10, <1>11 DEF c, op

LEMMA TookRead ==
    ASSUME NEW b \in ClientType, b.ready # <<>>, Good(b), ~b.in_message,
           Head(b.ready).kind \in Reads, ~Head(b.ready).failed
    PROVE  LET c == Took(b)
               op == Head(b.ready)
           IN  /\ Between(c)
               /\ c.m_is_connected => AlignedAfter(c, op.item)
<1> DEFINE c == Took(b)
           op == Head(b.ready)
<1>1. /\ c.reads = b.reads /\ c.output = b.output
      /\ SameButOperations(b, c)
      /\ 1 \in DOMAIN b.ready /\ op = b.ready[1]
  BY TookIs
<1>2. \A i \in DOMAIN c.ready :
         i + 1 \in DOMAIN b.ready /\ c.ready[i] = b.ready[i + 1]
  BY TookIs
<1>3. Kept(b) /\ op.kind \notin Output
  BY Kinds DEF Good
<1>4. Counted(c) /\ Reported(c) /\ c.fate # "garbled" /\ ~Reading(c)
  BY <1>3, TookKept
<1>5. Solo(b) => Solo(c) /\ (Writing(b) <=> Writing(c))
  BY TookSolo
<1> HIDE DEF c, op
<1>6. ~c.in_message
  BY <1>1 DEF SameButOperations
<1>7. ~Opening(b) /\ ~b.m_is_connecting
  BY <1>1, <1>3 DEF Good, Phase, Opening, op, Output
<1>8. ASSUME b.m_is_connected
      PROVE  /\ Solo(c) /\ c.open /\ c.wire.up /\ c.lost = 0 /\ c.socket # 0
             /\ OwnPockets(c) /\ Pocketed(c)
             /\ AlignedAfter(c, op.item)
  <2>1. Solo(b) /\ Live(b) /\ OwnPockets(b) /\ Pocketed(b)
    BY <1>8 DEF Good, Phase, Open
  <2>2. c.open /\ c.wire.up /\ c.lost = 0 /\ c.socket # 0
    BY <1>1, <2>1 DEF Live, SameButOperations
  <2>3. /\ c.m_pocket_list = b.m_pocket_list /\ c.socket = b.socket
        /\ c.m_executing = b.m_executing /\ c.wire = b.wire /\ c.got = b.got
    BY <1>1 DEF SameButOperations
  <2>4. OwnPockets(c)
    BY <1>1, <1>2, <2>1, <2>3 DEF OwnPockets, OfSocket
  <2>5. Pocketed(c)
    BY <1>5, <2>1, <2>3 DEF Pocketed
  <2>6. AlignedAfter(b, op.item)
    BY <1>1, <1>3, <2>1 DEF Live, InStream, op
  <2>7. AlignedAfter(c, op.item)
    BY <2>3, <2>6 DEF AlignedAfter, Due
  <2>8. QED
    BY <1>5, <2>1, <2>2, <2>4, <2>5, <2>7
<1>9. ASSUME ~b.m_is_connected
      PROVE  Quiet(c) /\ c.output = <<>> /\ ~c.open
  BY <1>1, <1>7, <1>9 DEF Good, Phase, Shut, Gone, Quiet, SameButOperations
<1>10. /\ c.m_is_connecting = b.m_is_connecting /\ c.m_is_connected = b.m_is_connected
  BY <1>1 DEF SameButOperations
<1>11. Between(c)
  BY <1>4, <1>6, <1>7, <1>8, <1>9, <1>10 DEF Between
<1>12. QED
  BY <1>8, <1>10, <1>11 DEF c, op

(* A read that has failed: what is left when the memory is given up.       *)
Failing(c) ==
    /\ Lone(c) /\ Counted(c) /\ Reported(c) /\ c.fate # "garbled"
    /\ c.reads = <<>>
    /\ \A i \in DOMAIN c.ready : c.ready[i].kind \in Reads => c.ready[i].failed

(* The handler of a failed read or write may be of an earlier socket: then *)
(* the client is not settled.                                              *)
LEMMA TookUnreported ==
    ASSUME NEW b \in ClientType, b.ready # <<>>, Good(b),
           Head(b.ready).kind # "connect"
    PROVE  Unreported(Took(b))
<1> DEFINE c == Took(b)
           op == Head(b.ready)
<1>1. /\ SameButOperations(b, c)
      /\ 1 \in DOMAIN b.ready /\ op = b.ready[1]
  BY TookIs
<1> HIDE DEF c, op
<1>2. b.m_is_connected => b.lost = 0
  BY DEF Good, Phase, Open, Live
<1>3. b.m_is_connecting => ~b.settled
  BY <1>1 DEF Good, Phase, Opening, op
<1>4. QED
  BY <1>1, <1>2, <1>3 DEF Unreported, ClosedBySelf, SameButOperations, c

LEMMA TookFailedRead ==
    ASSUME NEW b \in ClientType, b.ready # <<>>, Good(b), ~b.in_message,
           Head(b.ready).kind \in Reads, Head(b.ready).failed
    PROVE  Failing(Took(b)) /\ Unreported(Took(b))
<1>1. Kept(b) /\ Head(b.ready).kind # "connect"
  BY DEF Good, Reads
<1>2. Failing(Took(b))
  BY <1>1, TookKept DEF Failing
<1>3. QED
  BY <1>1, <1>2, TookUnreported

LEMMA TookWrite ==
    ASSUME NEW b \in ClientType, b.ready # <<>>, Good(b), ~b.in_message,
           Head(b.ready).kind = "write"
    PROVE  LET c == Took(b)
               op == Head(b.ready)
           IN  /\ Kept(c) /\ Unreported(c)
               /\ ~op.failed => Sendable(c)
<1> DEFINE c == Took(b)
           op == Head(b.ready)
<1>1. /\ c.reads = b.reads /\ c.output = b.output
      /\ SameButOperations(b, c)
      /\ 1 \in DOMAIN b.ready /\ op = b.ready[1]
  BY TookIs
<1>2. \A i \in DOMAIN c.ready :
         i + 1 \in DOMAIN b.ready /\ c.ready[i] = b.ready[i + 1]
  BY TookIs
<1>3. Kept(b) /\ op.kind \in Output /\ op.kind # "connect"
  BY DEF Good, Output
<1>4. Kept(c) /\ Unreported(c)
  BY <1>3, TookKept, TookUnreported
<1>5. Solo(b) => Solo(c) /\ ~Writing(c) /\ (Reading(b) <=> Reading(c))
  BY <1>3, TookSolo
<1> HIDE DEF c, op
<1>6. /\ c.m_pocket_list = b.m_pocket_list /\ c.socket = b.socket
      /\ c.m_executing = b.m_executing /\ c.wire = b.wire /\ c.got = b.got
      /\ c.open = b.open /\ c.lost = b.lost /\ c.in_message = b.in_message
      /\ c.m_is_connecting = b.m_is_connecting /\ c.m_is_connected = b.m_is_connected
  BY <1>1 DEF SameButOperations
<1>7. ASSUME b.m_is_connected
      PROVE  /\ Solo(c) /\ ~Writing(c) /\ Live(c) /\ OwnPockets(c)
             /\ c.m_pocket_list # <<>> => c.m_executing
  <2>1. Solo(b) /\ Live(b) /\ OwnPockets(b) /\ Pocketed(b)
    BY <1>7 DEF Good, Phase, Open
  <2>2. OwnPockets(c)
    BY <1>1, <1>2, <1>6, <2>1 DEF OwnPockets, OfSocket
  <2>3. InStream(c)
    BY <1>1, <1>2, <1>6, <2>1 DEF Live, InStream, AlignedAfter, Due
  <2>4. Live(c)
    BY <1>5, <1>6, <2>1, <2>3 DEF Live
  <2>5. QED
    BY <1>5, <1>6, <2>1, <2>2, <2>4 DEF Pocketed
<1>8. ASSUME ~op.failed
      PROVE  Sendable(c)
  <2>1. ~Opening(b) /\ ~b.m_is_connecting
    BY <1>1, <1>3, <1>8 DEF Good, Phase, Opening
  <2>2. ~b.m_is_connected => Gone(c) /\ c.m_pocket_list = <<>>
    BY <1>1, <1>6, <2>1 DEF Good, Phase, Shut, Gone, Quiet
  <2>3. QED
    BY <1>4, <1>6, <1>7, <2>1, <2>2 DEF Sendable
<1>9. QED
  BY <1>4, <1>8 DEF c, op

(* What is known of a client whose connect has ended.                      *)
Attempted(c, failed) ==
    /\ Kept(c) /\ (Shut(c) \/ Opening(c))
    /\ ~failed /\ c.open =>
         /\ c.ready = <<>> /\ c.reads = <<>> /\ c.output = <<>>
         /\ c.got = <<>> /\ c.socket # 0 /\ c.m_pocket_list = <<>>
         /\ c.wire.up /\ Aligned(c.wire, "head", 1)

LEMMA TookConnect ==
    ASSUME NEW b \in ClientType, b.ready # <<>>, Good(b), ~b.in_message,
           Head(b.ready).kind = "connect"
    PROVE  Attempted(Took(b), Head(b.ready).failed)
<1> DEFINE c == Took(b)
           op == Head(b.ready)
<1>1. /\ c.reads = b.reads /\ c.output = b.output /\ c \in ClientType
      /\ SameButOperations(b, c)
      /\ 1 \in DOMAIN b.ready /\ op = b.ready[1]
  BY TookIs
<1>2. \A i \in DOMAIN c.ready :
         /\ i \in Nat /\ i >= 1 /\ i + 1 \in DOMAIN b.ready
         /\ c.ready[i] = b.ready[i + 1]
  BY TookIs
<1>3. \A i \in DOMAIN b.ready : i = 1 \/ i - 1 \in DOMAIN c.ready
  BY TookIs
<1>4. Kept(b) /\ op.kind \in Output
  BY DEF Good, Output
<1>5. Kept(c)
  BY <1>4, TookKept
<1> HIDE DEF c, op
<1>6. ~b.m_is_connected
  BY <1>1 DEF Good, Phase, Open, OwnPockets, op
<1>7. /\ c.m_pocket_list = b.m_pocket_list /\ c.socket = b.socket
      /\ c.wire = b.wire /\ c.got = b.got /\ c.open = b.open
      /\ c.m_executing = b.m_executing /\ c.in_message = b.in_message
      /\ c.m_is_connected = b.m_is_connected /\ c.settled = b.settled
  BY <1>1 DEF SameButOperations
<1>8. CASE Shut(b)
  BY <1>1, <1>5, <1>7, <1>8 DEF Shut, Gone, Quiet, Attempted, c, op
<1>9. CASE Opening(b)
  <2>1. \A i \in DOMAIN c.ready : ~c.ready[i].failed =>
           /\ c.ready[i].kind = "connect" /\ c.output = <<>> /\ c.wire.up
           /\ \A j \in DOMAIN c.ready : j <= i
    <3>1. ASSUME NEW i \in DOMAIN c.ready, ~c.ready[i].failed
          PROVE  /\ c.ready[i].kind = "connect" /\ c.output = <<>> /\ c.wire.up
                 /\ \A j \in DOMAIN c.ready : j <= i
      <4>1. i \in Nat /\ i + 1 \in DOMAIN b.ready /\ c.ready[i] = b.ready[i + 1]
        BY <1>2
      <4>2. /\ b.ready[i + 1].kind = "connect" /\ b.output = <<>> /\ b.wire.up
            /\ \A j \in DOMAIN b.ready : j <= i + 1
        BY <1>9, <3>1, <4>1 DEF Opening
      <4>3. ASSUME NEW j \in DOMAIN c.ready PROVE j <= i
        <5>1. j \in Nat /\ j + 1 <= i + 1
          BY <1>2, <4>2
        <5>2. QED
          BY <4>1, <5>1
      <4>4. QED
        BY <1>1, <1>7, <4>1, <4>2, <4>3
    <3>2. QED
      BY <3>1
  <2>2. c.settled => \A i \in DOMAIN c.ready : c.ready[i].kind = "connect"
    BY <1>2, <1>7, <1>9 DEF Opening
  <2>3. Opening(c)
    BY <1>1, <1>7, <1>9, <2>1, <2>2 DEF Opening, Quiet
  <2>4. ASSUME ~op.failed
        PROVE  c.ready = <<>> /\ c.output = <<>> /\ c.wire.up
    <3>1. /\ b.output = <<>> /\ b.wire.up
          /\ \A j \in DOMAIN b.ready : j <= 1
      BY <1>1, <1>9, <2>4 DEF Opening
    <3>2. ASSUME NEW i \in DOMAIN c.ready PROVE FALSE
      <4>1. i \in Nat /\ i >= 1 /\ i + 1 <= 1
        BY <1>2, <3>1
      <4>2. QED
        BY <4>1
    <3>3. c.ready = <<>>
      <4> DEFINE n == Len(c.ready)
      <4>1. n \in Nat /\ DOMAIN c.ready = 1..n /\ (n = 0 => c.ready = <<>>)
        BY <1>1, QueueTypes
      <4> HIDE DEF n
      <4>2. 1 \notin 1..n
        BY <3>2, <4>1
      <4>3. n = 0
        BY <4>1, <4>2
      <4>4. QED
        BY <4>1, <4>3
    <3>4. QED
      BY <1>1, <1>7, <3>1, <3>3
  <2>5. /\ c.reads = <<>> /\ c.got = <<>> /\ c.socket # 0
        /\ c.m_pocket_list = <<>> /\ Aligned(c.wire, "head", 1)
    BY <2>3 DEF Opening, Quiet
  <2>6. QED
    BY <1>5, <2>3, <2>4, <2>5 DEF Attempted, c, op
<1>10. QED
  BY <1>6, <1>8, <1>9 DEF Good, Phase

(* HandleAsyncConnect: the attempt is over, and may have failed.           *)
LEMMA AttemptOverIs ==
    ASSUME NEW c \in ClientType
    PROVE  LET d == AttemptOver(c)
           IN  /\ d \in ClientType
               /\ d.reads = c.reads /\ d.output = c.output /\ d.ready = c.ready
               /\ ~d.m_is_connecting /\ ~d.m_is_connected /\ ~d.m_executing
               /\ d.m_pocket_list = c.m_pocket_list
               /\ d.m_memory = c.m_memory /\ d.got = c.got
               /\ d.in_message = c.in_message
               /\ d.lost = c.lost /\ d.fate = c.fate /\ d.orderly = c.orderly
               /\ d.settled = c.settled
               /\ d.open = c.open /\ d.wire = c.wire /\ d.socket = c.socket
<1> DEFINE d == AttemptOver(c)
<1>1. d \in ClientType
  BY DEF AttemptOver, ClientType
<1>2. QED
  BY <1>1 DEF AttemptOver, ClientType

LEMMA AsyncConnectSound ==
    ASSUME NEW c \in ClientType, ~c.in_message, NEW failed \in BOOLEAN,
           c.orderly => Attempted(c, failed),
           NEW d \in HandleAsyncConnect(c, failed)
    PROVE  Sound(d) /\ ~d.in_message
<1> DEFINE a == AttemptOver(c)
<1>1. /\ a \in ClientType
      /\ a.reads = c.reads /\ a.output = c.output /\ a.ready = c.ready
      /\ ~a.m_is_connecting /\ ~a.m_is_connected /\ ~a.m_executing
      /\ a.m_pocket_list = c.m_pocket_list
      /\ a.m_memory = c.m_memory /\ a.got = c.got
      /\ a.in_message = c.in_message /\ ~a.in_message
      /\ a.lost = c.lost /\ a.fate = c.fate /\ a.orderly = c.orderly
      /\ a.open = c.open /\ a.wire = c.wire /\ a.socket = c.socket
      /\ a.settled = c.settled
  BY AttemptOverIs
<1>2. \/ failed /\ d \in Callback(a)
      \/ ~failed /\ ~a.open /\ d = [a EXCEPT !.fate = "thrown"]
      \/ /\ ~failed /\ a.open
         /\ d \in Callback([StartReading([a EXCEPT !.m_is_connected = TRUE])
                              EXCEPT !.lost = 0])
  BY DEF HandleAsyncConnect
<1> HIDE DEF a
<1>3. ASSUME c.orderly
      PROVE  Kept(a) /\ (Shut(a) \/ Opening(a))
  <2>1. Kept(c) /\ (Shut(c) \/ Opening(c))
    BY <1>3 DEF Attempted
  <2>2. SameConnection(c, a)
    BY <1>1 DEF SameConnection
  <2>3. Kept(a)
    BY <2>1, <2>2, SameHolds
  <2>4. Shut(c) => Shut(a)
    BY <1>1 DEF Shut, Gone, Quiet
  <2>5. Opening(c) => Opening(a)
    BY <1>1 DEF Opening, Quiet
  <2>6. QED
    BY <2>1, <2>3, <2>4, <2>5
<1>4. CASE failed /\ d \in Callback(a)
  <2>1. Sound(a)
    BY <1>1, <1>3 DEF Sound, Good, Phase
  <2>2. QED
    BY <1>1, <1>4, <2>1, CallbackSound DEF Allowed
<1>5. CASE ~failed /\ ~a.open /\ d = [a EXCEPT !.fate = "thrown"]
  <2>1. d \in ClientType
    BY <1>1, <1>5 DEF ClientType
  <2>2. /\ d.reads = a.reads /\ d.output = a.output /\ d.ready = a.ready
        /\ ~d.m_is_connecting /\ ~d.m_is_connected /\ ~d.m_executing
        /\ d.m_pocket_list = a.m_pocket_list
        /\ d.m_memory = a.m_memory /\ d.got = a.got /\ ~d.in_message
        /\ d.lost = a.lost /\ d.fate = "thrown" /\ d.orderly = a.orderly
        /\ d.settled = a.settled /\ d.open = a.open
        /\ d.wire = a.wire /\ d.socket = a.socket
    BY <1>1, <1>5 DEF ClientType
  <2>3. ASSUME c.orderly PROVE Good(d)
    <3>1. Lone(d) /\ (Reading(a) <=> Reading(d))
      BY <1>3, <2>2, <2>3, OperationsHold DEF Kept
    <3>2. \A op : /\ ReadHolds(a, op) => ReadHolds(d, op)
                  /\ EndedHolds(a, op) => EndedHolds(d, op)
      BY <2>2 DEF ReadHolds, EndedHolds, Due
    <3>3. Memory(d)
      BY <1>1, <1>3, <2>2, <2>3, <3>1, <3>2 DEF Kept, Memory
    <3>4. Kept(d)
      BY <1>3, <2>2, <2>3, <3>1, <3>3 DEF Kept, Counted, Reported
    <3>5. Shut(d) \/ Opening(d)
      <4>1. Shut(a) => Shut(d)
        BY <2>2 DEF Shut, Gone, Quiet
      <4>2. Opening(a) => Opening(d)
        BY <2>2 DEF Opening, Quiet
      <4>3. QED
        BY <1>3, <2>3, <4>1, <4>2
    <3>6. QED
      BY <2>2, <3>4, <3>5 DEF Good, Phase
  <2>4. QED
    BY <1>1, <2>1, <2>2, <2>3 DEF Sound
<1>6. CASE /\ ~failed /\ a.open
           /\ d \in Callback([StartReading([a EXCEPT !.m_is_connected = TRUE])
                                EXCEPT !.lost = 0])
  <2> DEFINE e == [a EXCEPT !.m_is_connected = TRUE]
             r == NextReadHead(e)
             f == [r EXCEPT !.lost = 0]
  <2>1. e \in ClientType
    BY <1>1 DEF ClientType
  <2>2. /\ e.reads = a.reads /\ e.output = a.output /\ e.ready = a.ready
        /\ ~e.m_is_connecting /\ e.m_is_connected /\ ~e.m_executing
        /\ e.m_pocket_list = a.m_pocket_list
        /\ e.m_memory = a.m_memory /\ e.got = a.got /\ ~e.in_message
        /\ e.lost = a.lost /\ e.settled = a.settled /\ e.fate = a.fate /\ e.orderly = a.orderly
        /\ e.open = a.open /\ e.wire = a.wire /\ e.socket = a.socket
    BY <1>1 DEF ClientType
  <2>3. d \in Callback(f)
    BY <1>6 DEF StartReading
  <2> HIDE DEF e
  <2>4. r \in ClientType /\ r.orderly = e.orderly /\ r.in_message = e.in_message
    <3>1. CASE e.socket = 0
      BY <2>1, <3>1 DEF NextReadHead
    <3>2. CASE e.socket # 0
      <4>1. r = BeginRead(e, "head", Nothing)
        BY <3>2 DEF NextReadHead
      <4>2. "head" \in Reads /\ Nothing \in Item
        BY Constants DEF Reads
      <4> HIDE DEF r
      <4>3. r \in ClientType /\ SameButOperations(e, r)
        BY <2>1, <4>1, <4>2, BeginReadIs
      <4>4. QED
        BY <4>3 DEF SameButOperations
    <3>3. QED
      BY <3>1, <3>2
  <2>5. ASSUME c.orderly PROVE Good(f)
    <3> DEFINE g == [e EXCEPT !.lost = 0]
    <3>1. /\ DOMAIN c.ready = {} /\ c.ready = <<>> /\ c.got = <<>> /\ c.socket # 0
          /\ c.wire.up /\ Aligned(c.wire, "head", 1)
          /\ Kept(c) /\ c.m_pocket_list = <<>>
          /\ c.reads = <<>> /\ c.output = <<>>
      BY <1>1, <1>6, <2>5, EmptyIs DEF Attempted
    <3>2. g \in ClientType
      BY <2>1 DEF ClientType
    <3>3. /\ g.reads = <<>> /\ g.output = <<>> /\ g.ready = <<>>
          /\ ~g.m_is_connecting /\ g.m_is_connected /\ ~g.m_executing
          /\ g.m_pocket_list = <<>> /\ g.got = <<>> /\ ~g.in_message
          /\ g.lost = 0 /\ g.fate = c.fate /\ g.open
          /\ g.wire = c.wire /\ g.socket # 0
      BY <1>1, <1>6, <2>1, <2>2, <3>1 DEF ClientType
    <3>4. f = BeginRead(g, "head", Nothing)
      <4>1. r = [e EXCEPT !.reads = Append(@, Operation("head", Nothing))]
        BY <1>1, <1>6, <2>2, <3>1 DEF NextReadHead, BeginRead
      <4>2. BeginRead(g, "head", Nothing) =
              [g EXCEPT !.reads = Append(e.reads, Operation("head", Nothing))]
        BY <2>2, <3>1, <3>3, <1>1 DEF BeginRead
      <4> DEFINE reads == Append(e.reads, Operation("head", Nothing))
      <4> HIDE DEF reads
      <4>3. [[e EXCEPT !.reads = reads] EXCEPT !.lost = 0] =
              [[e EXCEPT !.lost = 0] EXCEPT !.reads = reads]
        OBVIOUS
      <4>4. QED
        BY <4>1, <4>2, <4>3 DEF reads
    <3> HIDE DEF g
    <3>5. Between(g)
      <4>1. Solo(g) /\ ~Reading(g) /\ ~Writing(g)
        BY <3>3, EmptyIs DEF Solo, Reading, Writing
      <4>2. Counted(g) /\ g.fate # "garbled"
        BY <3>1, <3>3, EmptyIs DEF Counted, Kept
      <4>3. OwnPockets(g)
        BY <3>3, EmptyIs DEF OwnPockets
      <4>4. Pocketed(g)
        BY <3>3, <4>1 DEF Pocketed
      <4>5. QED
        BY <3>1, <3>3, <4>1, <4>2, <4>3, <4>4 DEF Between, Reported
    <3>6. Aligned(g.wire, "head", Due(g))
      <4>1. Due(g) = 1
        BY <3>3, EmptyIs DEF Due
      <4>2. QED
        BY <3>1, <3>3, <4>1
    <3>7. "head" \in Reads /\ Nothing \in Item
      BY Constants DEF Reads
    <3>8. QED
      BY <3>2, <3>4, <3>5, <3>6, <3>7, ReadBegunGood
  <2> HIDE DEF r
  <2>6. f \in ClientType /\ f.orderly = r.orderly /\ f.in_message = r.in_message
    <3>1. f \in ClientType
      BY <2>4 DEF ClientType
    <3>2. QED
      BY <2>4, <3>1 DEF ClientType
  <2>7. Sound(f)
    BY <1>1, <2>2, <2>4, <2>5, <2>6 DEF Sound
  <2>8. Allowed(f, d)
    BY <2>3, <2>6, <2>7, CallbackSound
  <2>9. QED
    BY <2>2, <2>4, <2>6, <2>8 DEF Allowed
<1>7. QED
  BY <1>2, <1>4, <1>5, <1>6

(* The handlers of the reads.                                              *)
LEMMA ReadFailedSound ==
    ASSUME NEW c \in ClientType, ~c.in_message,
           c.orderly => Failing(c) /\ Unreported(c),
           NEW d \in ReadFailed(c)
    PROVE  Sound(d) /\ ~d.in_message
<1> DEFINE e == [c EXCEPT !.m_memory = 0]
<1>1. e \in ClientType
  BY DEF ClientType
<1>2. /\ e.reads = c.reads /\ e.output = c.output /\ e.ready = c.ready
      /\ e.m_memory = 0 /\ e.got = c.got /\ ~e.in_message
      /\ e.lost = c.lost /\ e.settled = c.settled /\ e.fate = c.fate
      /\ e.orderly = c.orderly
      /\ e.m_is_connecting = c.m_is_connecting /\ e.m_is_connected = c.m_is_connected
  BY DEF ClientType
<1>3. d \in ExecuteDisconnectCallback(e)
  BY DEF ReadFailed
<1> HIDE DEF e
<1>4. ASSUME c.orderly
      PROVE  Kept(e) /\ Unreported(e)
  <2>1. Failing(c) /\ Unreported(c)
    BY <1>4
  <2>2. DOMAIN e.reads = {}
    BY <1>2, <2>1, EmptyIs DEF Failing
  <2>3. Lone(e)
    BY <1>2, <2>1, OperationsHold DEF Failing
  <2>4. Memory(e)
    BY <1>2, <2>1, <2>2 DEF Memory, EndedHolds, Failing
  <2>5. Kept(e)
    BY <1>2, <2>1, <2>3, <2>4 DEF Kept, Failing, Counted, Reported
  <2>6. Unreported(e)
    BY <1>2, <2>1 DEF Unreported, ClosedBySelf
  <2>7. QED
    BY <2>5, <2>6
<1>5. QED
  BY <1>1, <1>2, <1>3, <1>4, DisconnectSound DEF Unreported

LEMMA GarbledSound ==
    ASSUME NEW c \in ClientType, ~c.in_message, ~c.orderly,
           NEW d, d = [c EXCEPT !.fate = "garbled"]
    PROVE  Sound(d) /\ ~d.in_message
<1>1. d \in ClientType
  BY DEF ClientType
<1>2. ~d.orderly /\ ~d.in_message
  BY DEF ClientType
<1>3. QED
  BY <1>1, <1>2 DEF Sound

(* Between two reads the memory is not needed.                             *)
LEMMA RememberBetween ==
    ASSUME NEW c \in ClientType, NEW n \in Nat
    PROVE  LET d == [c EXCEPT !.m_memory = n]
           IN  /\ d \in ClientType /\ d.m_memory = n /\ d.orderly = c.orderly
               /\ d.m_is_connected = c.m_is_connected
               /\ d.wire = c.wire /\ d.got = c.got /\ d.in_message = c.in_message
               /\ Between(c) => Between(d)
<1> DEFINE d == [c EXCEPT !.m_memory = n]
<1>1. d \in ClientType
  BY DEF ClientType
<1>2. /\ d.reads = c.reads /\ d.output = c.output /\ d.ready = c.ready
      /\ d.m_memory = n /\ d.got = c.got /\ d.in_message = c.in_message
      /\ d.lost = c.lost /\ d.settled = c.settled /\ d.fate = c.fate
      /\ d.orderly = c.orderly
      /\ d.m_is_connecting = c.m_is_connecting /\ d.m_is_connected = c.m_is_connected
      /\ d.open = c.open /\ d.wire = c.wire /\ d.socket = c.socket
      /\ d.m_pocket_list = c.m_pocket_list /\ d.m_executing = c.m_executing
  BY DEF ClientType
<1> HIDE DEF d
<1>3. ASSUME Between(c) PROVE Between(d)
  <2>1. (Solo(c) <=> Solo(d)) /\ ~Reading(d) /\ (Writing(c) <=> Writing(d))
    BY <1>2, <1>3, OperationsHold DEF Between
  <2>2. ASSUME c.m_is_connected PROVE OwnPockets(d) /\ Pocketed(d)
    <3>1. OwnPockets(c) /\ Pocketed(c)
      BY <1>3, <2>2 DEF Between
    <3>2. OwnPockets(d)
      BY <1>2, <3>1 DEF OwnPockets, OfSocket
    <3>3. Pocketed(d)
      BY <1>2, <2>1, <3>1 DEF Pocketed
    <3>4. QED
      BY <3>2, <3>3
  <2>3. ASSUME ~c.m_is_connected PROVE Quiet(d) /\ d.output = <<>> /\ ~d.open
    BY <1>2, <1>3, <2>3 DEF Between, Quiet
  <2>4. Counted(d) /\ Reported(d)
    BY <1>2, <1>3 DEF Between, Counted, Reported
  <2>5. QED
    BY <1>2, <1>3, <2>1, <2>2, <2>3, <2>4 DEF Between
<1>4. QED
  BY <1>1, <1>2, <1>3 DEF d

LEMMA ReadHeadSound ==
    ASSUME NEW c \in ClientType, ~c.in_message,
           NEW failed \in BOOLEAN, NEW unit \in Item,
           c.orderly /\ failed => Failing(c) /\ Unreported(c),
           c.orderly /\ ~failed =>
             /\ Between(c)
             /\ unit[1] = "head" /\ unit[2] = Due(c)
             /\ c.m_is_connected => AlignedAfter(c, unit),
           NEW d \in HandleReadHead(c, failed, unit)
    PROVE  Sound(d) /\ ~d.in_message
<1> DEFINE e == [c EXCEPT !.m_memory = unit[2]]
<1>1. unit[2] \in Nat /\ unit[3] \in BOOLEAN
  BY DEF Item
<1>2. \/ failed /\ d \in ReadFailed(c)
      \/ ~failed /\ unit[1] # "head" /\ d = [c EXCEPT !.fate = "garbled"]
      \/ ~failed /\ unit[1] = "head" /\ unit[3] /\ d = ReadBody(e, unit[2])
      \/ ~failed /\ unit[1] = "head" /\ ~unit[3] /\ d \in CompleteAndReadOn(e)
  BY DEF HandleReadHead
<1>3. /\ e \in ClientType /\ e.m_memory = unit[2] /\ e.orderly = c.orderly
      /\ e.m_is_connected = c.m_is_connected
      /\ e.wire = c.wire /\ e.got = c.got /\ ~e.in_message
      /\ Between(c) => Between(e)
  BY <1>1, RememberBetween
<1> HIDE DEF e
<1>4. Due(e) = Due(c)
  BY <1>3 DEF Due
<1>5. CASE failed /\ d \in ReadFailed(c)
  BY <1>5, ReadFailedSound
<1>6. CASE ~failed /\ unit[1] # "head" /\ d = [c EXCEPT !.fate = "garbled"]
  BY <1>6, GarbledSound
<1>7. CASE ~failed /\ unit[1] = "head" /\ unit[3] /\ d = ReadBody(e, unit[2])
  <2> DEFINE item == <<"buffer", unit[2], FALSE>>
  <2>1. item \in Item /\ item[2] = unit[2] /\ "body" \in Reads
    BY <1>1 DEF Item, Reads
  <2> HIDE DEF item
  <2>2. d = BeginRead(e, "body", item)
    BY <1>7 DEF ReadBody, item
  <2>3. d \in ClientType /\ SameButOperations(e, d)
    BY <1>3, <2>1, <2>2, BeginReadIs
  <2>4. ASSUME c.orderly PROVE Good(d)
    <3>1. Between(e) /\ unit[2] = Due(e)
      BY <1>3, <1>4, <1>7, <2>4
    <3>2. c.m_is_connected => AlignedAfter(c, unit)
      BY <1>7, <2>4
    <3>3. e.m_is_connected => Aligned(e.wire, "body", Due(e))
      BY <1>3, <1>4, <1>7, <3>2 DEF AlignedAfter, Whole
    <3>4. QED
      BY <1>3, <2>1, <2>2, <3>1, <3>3, ReadBegunGood
  <2>5. QED
    BY <1>3, <2>3, <2>4 DEF Sound, SameButOperations
<1>8. CASE ~failed /\ unit[1] = "head" /\ ~unit[3] /\ d \in CompleteAndReadOn(e)
  <2>1. ASSUME c.orderly
        PROVE  /\ Between(e) /\ e.m_memory = Due(e)
               /\ e.m_is_connected => Aligned(e.wire, "head", Due(e) + 1)
    <3>1. Between(e) /\ e.m_memory = Due(e)
      BY <1>3, <1>4, <1>8, <2>1
    <3>2. c.m_is_connected => AlignedAfter(c, unit)
      BY <1>8, <2>1
    <3>3. e.m_is_connected => Aligned(e.wire, "head", Due(e) + 1)
      BY <1>3, <1>4, <1>8, <3>2 DEF AlignedAfter, Whole
    <3>4. QED
      BY <3>1, <3>3
  <2>2. QED
    BY <1>3, <1>8, <2>1, CompleteSound
<1>9. QED
  BY <1>2, <1>5, <1>6, <1>7, <1>8

LEMMA ReadBodySound ==
    ASSUME NEW c \in ClientType, ~c.in_message,
           NEW failed \in BOOLEAN, NEW unit \in Item,
           c.orderly /\ failed => Failing(c) /\ Unreported(c),
           c.orderly /\ ~failed =>
             /\ Between(c)
             /\ unit[1] = "body" /\ c.m_memory = Due(c) /\ ~unit[3]
             /\ c.m_is_connected => AlignedAfter(c, unit),
           NEW d \in HandleReadBody(c, failed, unit)
    PROVE  Sound(d) /\ ~d.in_message
<1>1. \/ failed /\ d \in ReadFailed(c)
      \/ ~failed /\ unit[1] # "body" /\ d = [c EXCEPT !.fate = "garbled"]
      \/ ~failed /\ unit[1] = "body" /\ d \in CompleteAndReadOn(c)
  BY DEF HandleReadBody
<1>2. CASE failed /\ d \in ReadFailed(c)
  BY <1>2, ReadFailedSound
<1>3. CASE ~failed /\ unit[1] # "body" /\ d = [c EXCEPT !.fate = "garbled"]
  BY <1>3, GarbledSound
<1>4. CASE ~failed /\ unit[1] = "body" /\ d \in CompleteAndReadOn(c)
  <2>1. ASSUME c.orderly
        PROVE  /\ Between(c) /\ c.m_memory = Due(c)
               /\ c.m_is_connected => Aligned(c.wire, "head", Due(c) + 1)
    <3>1. Between(c) /\ c.m_memory = Due(c)
      BY <1>4, <2>1
    <3>2. c.m_is_connected => AlignedAfter(c, unit)
      BY <1>4, <2>1
    <3>3. QED
      BY <1>4, <3>1, <3>2 DEF AlignedAfter, Whole
  <2>2. QED
    BY <1>4, <2>1, CompleteSound
<1>5. QED
  BY <1>1, <1>2, <1>3, <1>4

LEMMA SendSound ==
    ASSUME NEW c \in ClientType, ~c.in_message, NEW failed \in BOOLEAN,
           c.orderly => Kept(c) /\ Unreported(c),
           c.orderly /\ ~failed => Sendable(c),
           NEW d \in HandleSend(c, failed)
    PROVE  Sound(d) /\ ~d.in_message
<1>1. \/ failed /\ d \in ExecuteDisconnectCallback(c)
      \/ ~failed /\ d = NextSend(c)
  BY DEF HandleSend
<1>2. CASE failed /\ d \in ExecuteDisconnectCallback(c)
  BY <1>2, DisconnectSound DEF Unreported
<1>3. CASE ~failed /\ d = NextSend(c)
  <2>1. d \in ClientType /\ d.orderly = c.orderly /\ d.in_message = c.in_message
    BY <1>3, NextSendType
  <2>2. c.orderly => Good(d)
    BY <1>3, NextSendGood
  <2>3. QED
    BY <2>1, <2>2 DEF Sound
<1>4. QED
  BY <1>1, <1>2, <1>3

LEMMA RunHandlerSound ==
    ASSUME IInv, RunHandler
    PROVE  IInv'
<1> DEFINE b == client
           c == Took(b)
           op == Head(b.ready)
           d == client'
<1>1. Sound(b) /\ ~b.in_message /\ b.ready # <<>>
  BY DEF IInv, RunHandler
<1>2. b \in ClientType
  BY <1>1 DEF Sound
<1>3. d \in Handled(c, op)
  BY DEF RunHandler, Took
<1> SUFFICES Sound(d) /\ ~d.in_message
  BY DEF IInv
<1> HIDE DEF b, d
<1>4. /\ c \in ClientType /\ op \in EndedOperation /\ SameButOperations(b, c)
  BY <1>1, <1>2, TookIs
<1>5. ~c.in_message /\ c.orderly = b.orderly
  BY <1>1, <1>4 DEF SameButOperations
<1>6. b.orderly => Good(b)
  BY <1>1 DEF Sound
<1>7. /\ op.failed \in BOOLEAN /\ op.item \in Item
      /\ op.kind \in {"connect", "head", "body", "write"}
  BY <1>4 DEF EndedOperation, Reads, Output
<1>8. b.orderly => EndedHolds(c, op)
  BY <1>1, <1>2, <1>6, TookKept DEF Good
<1> HIDE DEF c, op
<1>9. CASE op.kind = "connect"
  <2>1. d \in HandleAsyncConnect(c, op.failed)
    BY <1>3, <1>9 DEF Handled
  <2>2. c.orderly => Attempted(c, op.failed)
    BY <1>1, <1>2, <1>5, <1>6, <1>9, TookConnect DEF c, op
  <2>3. QED
    BY <1>4, <1>5, <1>7, <2>1, <2>2, AsyncConnectSound
<1>10. ASSUME c.orderly, op.kind \in Reads
       PROVE  /\ op.failed => Failing(c) /\ Unreported(c)
              /\ ~op.failed => /\ Between(c)
                               /\ op.item[1] = op.kind /\ op.item[2] = Due(c)
                               /\ op.kind = "body" => c.m_memory = Due(c) /\ ~op.item[3]
                               /\ c.m_is_connected => AlignedAfter(c, op.item)
  <2>1. op.failed => Failing(c) /\ Unreported(c)
    BY <1>1, <1>2, <1>5, <1>6, <1>10, TookFailedRead DEF c, op
  <2>2. ~op.failed => /\ Between(c)
                      /\ c.m_is_connected => AlignedAfter(c, op.item)
    BY <1>1, <1>2, <1>5, <1>6, <1>10, TookRead DEF c, op
  <2>3. EndedHolds(c, op)
    BY <1>5, <1>8, <1>10
  <2>4. QED
    BY <1>10, <2>1, <2>2, <2>3 DEF EndedHolds
<1>11. CASE op.kind = "head"
  <2>1. d \in HandleReadHead(c, op.failed, op.item)
    BY <1>3, <1>11 DEF Handled
  <2>2. op.kind \in Reads
    BY <1>11 DEF Reads
  <2>3. QED
    BY <1>4, <1>5, <1>7, <1>10, <1>11, <2>1, <2>2, ReadHeadSound
<1>12. CASE op.kind = "body"
  <2>1. d \in HandleReadBody(c, op.failed, op.item)
    BY <1>3, <1>12 DEF Handled
  <2>2. op.kind \in Reads
    BY <1>12 DEF Reads
  <2>3. QED
    BY <1>4, <1>5, <1>7, <1>10, <1>12, <2>1, <2>2, ReadBodySound
<1>13. CASE op.kind = "write"
  <2>1. d \in HandleSend(c, op.failed)
    BY <1>3, <1>13 DEF Handled
  <2>2. c.orderly => /\ Kept(c) /\ Unreported(c)
                     /\ ~op.failed => Sendable(c)
    BY <1>1, <1>2, <1>5, <1>6, <1>13, TookWrite DEF c, op
  <2>3. QED
    BY <1>4, <1>5, <1>7, <2>1, <2>2, SendSound
<1>14. QED
  BY <1>7, <1>9, <1>11, <1>12, <1>13

-----------------------------------------------------------------------------

(* The stream on the wire.  When its first unit is taken, the rest follows *)
(* that unit.                                                              *)
LEMMA UnitTaken ==
    ASSUME NEW w \in Wire, NEW v \in Wire, NEW kind \in Reads, NEW n \in Nat,
           w.units # <<>>, v.units = Tail(w.units), v.sent = w.sent,
           Aligned(w, kind, n)
    PROVE  LET u == Head(w.units)
           IN  /\ u \in Item /\ u[1] = kind /\ u[2] = n /\ (kind = "body" => ~u[3])
               /\ IF Whole(u) THEN Aligned(v, "head", n + 1)
                              ELSE Aligned(v, "body", n)
<1> DEFINE s == w.units
           t == v.units
           m == Len(s)
           u == Head(s)
<1>1. s \in Seq(Item) /\ s # <<>> /\ t = Tail(s)
  BY DEF Wire
<1> HIDE DEF s, t
<1>2. /\ t \in Seq(Item) /\ u \in Item /\ u = s[1]
      /\ m \in Nat /\ Len(t) = m - 1 /\ DOMAIN s = 1..m
      /\ m >= 1
  BY <1>1, TailIs
<1>3. \A i \in 1..(m - 1) : t[i] = s[i + 1]
  BY <1>1, HeadTailProperties
<1>4. /\ u[1] = kind /\ u[2] = n /\ (kind = "body" => ~u[3])
      /\ \A i \in 1..(m - 1) : Follows(s[i], s[i + 1])
      /\ s[m][2] = w.sent /\ Whole(s[m])
  BY <1>1, <1>2 DEF Aligned, s
<1> HIDE DEF m, u
<1>5. t = <<>> <=> m = 1
  BY <1>2
<1>6. CASE m = 1
  <2>1. Whole(u) /\ n = v.sent
    BY <1>2, <1>4, <1>6
  <2>2. Aligned(v, "head", n + 1)
    BY <1>5, <1>6, <2>1 DEF Aligned, t
  <2>3. QED
    BY <1>2, <1>4, <2>1, <2>2 DEF u, s
<1>7. CASE m # 1
  <2>1. m >= 2 /\ t # <<>> /\ Len(t) = m - 1 /\ Len(t) \in Nat
    BY <1>2, <1>5, <1>7
  <2>2. \A i \in 1..(Len(t) - 1) : Follows(t[i], t[i + 1])
    <3>1. ASSUME NEW i \in 1..(Len(t) - 1) PROVE Follows(t[i], t[i + 1])
      <4>1. i \in 1..(m - 1) /\ i + 1 \in 1..(m - 1)
        BY <1>2, <2>1
      <4>2. t[i] = s[i + 1] /\ t[i + 1] = s[(i + 1) + 1]
        BY <1>3, <4>1
      <4>3. QED
        BY <1>4, <4>1, <4>2
    <3>2. QED
      BY <3>1
  <2>3. t[1] = s[2] /\ Follows(u, t[1])
    <3>1. 1 \in 1..(m - 1)
      BY <1>2, <2>1
    <3>2. t[1] = s[1 + 1] /\ Follows(s[1], s[1 + 1])
      BY <1>3, <1>4, <3>1
    <3>3. QED
      BY <1>2, <3>2
  <2>4. t[Len(t)] = s[m]
    <3>1. m - 1 \in 1..(m - 1) /\ (m - 1) + 1 = m
      BY <1>2, <2>1
    <3>2. QED
      BY <1>3, <2>1, <3>1
  <2>5. t[Len(t)][2] = v.sent /\ Whole(t[Len(t)])
    BY <1>4, <2>4
  <2>6. CASE Whole(u)
    <3>1. t[1][1] = "head" /\ t[1][2] = n + 1
      BY <1>4, <2>3, <2>6 DEF Follows, Whole
    <3>2. Aligned(v, "head", n + 1)
      BY <2>1, <2>2, <2>5, <3>1 DEF Aligned, t
    <3>3. QED
      BY <1>2, <1>4, <2>6, <3>2 DEF u, s
  <2>7. CASE ~Whole(u)
    <3>1. t[1] = <<"body", n, FALSE>>
      BY <1>4, <2>3, <2>7 DEF Follows, Whole
    <3>2. t[1][1] = "body" /\ t[1][2] = n /\ ~t[1][3]
      BY <3>1
    <3>3. Aligned(v, "body", n)
      BY <2>1, <2>2, <2>5, <3>2 DEF Aligned, t
    <3>4. QED
      BY <1>2, <1>4, <2>7, <3>3 DEF u, s
  <2>8. QED
    BY <2>6, <2>7
<1>8. QED
  BY <1>6, <1>7

LEMMA UnitIs ==
    ASSUME NEW kind \in {"head", "body"}, NEW n \in Nat, NEW more \in BOOLEAN
    PROVE  <<kind, n, more>> \in Item
  BY DEF Item

(* What the peer sends of one message.                                    *)
Message(n, body) ==
    IF body THEN <<<<"head", n, TRUE>>, <<"body", n, FALSE>>>>
            ELSE <<<<"head", n, FALSE>>>>

(* A message that the peer sends goes on with what is on the wire.         *)
LEMMA StreamGrows ==
    ASSUME NEW w \in Wire, NEW v \in Wire, NEW body \in BOOLEAN,
           v.sent = w.sent + 1,
           v.units = w.units \o Message(v.sent, body),
           NEW kind, NEW n, Aligned(w, kind, n)
    PROVE  Aligned(v, kind, n)
<1> DEFINE h == <<"head", v.sent, body>>
           b == <<"body", v.sent, FALSE>>
           s == w.units
           t == v.units
           m == Len(s)
           more == IF body THEN <<h, b>> ELSE <<h>>
           l == Len(more)
<1>1. s \in Seq(Item) /\ w.sent \in Nat /\ v.sent \in Nat /\ t = s \o more
  BY DEF Wire, Message
<1>2. h \in Item /\ b \in Item
  <2> DEFINE x == v.sent
  <2>1. x \in Nat /\ h = <<"head", x, body>> /\ b = <<"body", x, FALSE>>
    BY <1>1
  <2> HIDE DEF x
  <2>2. QED
    BY <2>1, UnitIs
<1>3. /\ h[1] = "head" /\ h[2] = v.sent /\ h[3] = body
      /\ b[1] = "body" /\ b[2] = v.sent
      /\ b = <<"body", h[2], FALSE>>
  OBVIOUS
<1> HIDE DEF h, b
<1>4. /\ more \in Seq(Item) /\ l = (IF body THEN 2 ELSE 1)
      /\ more[1] = h /\ (body => more[2] = b)
  <2>1. /\ <<h>> \in Seq(Item) /\ Len(<<h>>) = 1 /\ <<h>>[1] = h
        /\ <<h, b>> \in Seq(Item) /\ Len(<<h, b>>) = 2
        /\ <<h, b>>[1] = h /\ <<h, b>>[2] = b
    BY <1>2, WrittenOut
  <2>2. CASE body
    <3>1. more = <<h, b>>
      BY <2>2
    <3> HIDE DEF more
    <3>2. QED
      BY <2>1, <2>2, <3>1
  <2>3. CASE ~body
    <3>1. more = <<h>>
      BY <2>3
    <3> HIDE DEF more
    <3>2. QED
      BY <2>1, <2>3, <3>1
  <2>4. QED
    BY <2>2, <2>3
<1> HIDE DEF s, t, more
<1>5. /\ t \in Seq(Item) /\ m \in Nat /\ l \in Nat /\ Len(t) = m + l
      /\ \A i \in 1..(m + l) : t[i] = IF i <= m THEN s[i] ELSE more[i - m]
  <2>1. m \in Nat /\ l \in Nat
    BY <1>1, <1>4
  <2>2. /\ s \o more \in Seq(Item) /\ Len(s \o more) = Len(s) + Len(more)
        /\ \A i \in 1..(Len(s) + Len(more)) :
              (s \o more)[i] = IF i <= Len(s) THEN s[i] ELSE more[i - Len(s)]
    BY <1>1, <1>4, ConcatProperties
  <2>3. QED
    BY <1>1, <2>1, <2>2
<1> HIDE DEF m, l
<1>14. l = (IF body THEN 2 ELSE 1)
  BY <1>4 DEF l
<1>6. /\ \A i \in 1..m : t[i] = s[i]
      /\ t[m + 1] = h /\ (body => t[m + 2] = b)
      /\ t # <<>>
  <2>1. \A i \in 1..m : t[i] = s[i]
    <3>1. \A i \in 1..m : i \in 1..(m + l) /\ i <= m
      BY <1>5
    <3>2. QED
      BY <1>5, <3>1
  <2>2. m + 1 \in 1..(m + l) /\ ~(m + 1 <= m) /\ (m + 1) - m = 1
    BY <1>5, <1>14
  <2>3. t[m + 1] = h
    BY <1>4, <1>5, <2>2
  <2>4. ASSUME body PROVE t[m + 2] = b
    <3>1. m + 2 \in 1..(m + l) /\ ~(m + 2 <= m) /\ (m + 2) - m = 2
      BY <1>5, <1>14, <2>4
    <3>2. QED
      BY <1>4, <1>5, <2>4, <3>1
  <2>5. t # <<>>
    BY <1>5, <1>14
  <2>6. QED
    BY <2>1, <2>3, <2>4, <2>5
<1>7. /\ s = <<>> <=> m = 0
      /\ s # <<>> => 1 \in 1..m /\ m \in 1..m
  BY <1>1, <1>5 DEF m
<1>8. s = <<>> => kind = "head" /\ n = v.sent
  BY DEF Aligned, s
<1>9. s # <<>> => /\ s[1][1] = kind /\ s[1][2] = n /\ (kind = "body" => ~s[1][3])
                  /\ \A i \in 1..(m - 1) : Follows(s[i], s[i + 1])
                  /\ s[m][2] = w.sent /\ Whole(s[m])
  BY DEF Aligned, s, m
<1>10. t[1][1] = kind /\ t[1][2] = n /\ (kind = "body" => ~t[1][3])
  <2>1. CASE s = <<>>
    <3>1. m + 1 = 1 /\ kind = "head" /\ n = v.sent
      BY <1>5, <1>7, <1>8, <2>1
    <3>2. t[1] = h
      BY <1>6, <3>1
    <3>3. QED
      BY <1>3, <3>1, <3>2
  <2>2. CASE s # <<>>
    BY <1>6, <1>7, <1>9, <2>2
  <2>3. QED
    BY <2>1, <2>2
<1>11. ASSUME NEW i \in 1..(Len(t) - 1) PROVE Follows(t[i], t[i + 1])
  <2>1. CASE i < m
    <3>1. i \in 1..(m - 1) /\ i \in 1..m /\ i + 1 \in 1..m
      BY <1>5, <2>1
    <3>2. s # <<>>
      BY <1>5, <1>7, <2>1
    <3>3. t[i] = s[i] /\ t[i + 1] = s[i + 1]
      BY <1>6, <3>1
    <3>4. QED
      BY <1>9, <3>1, <3>2, <3>3
  <2>2. CASE i = m
    <3>1. s # <<>>
      BY <1>5, <1>7, <2>2
    <3>2. t[i] = s[m] /\ t[i + 1] = h /\ Whole(s[m]) /\ s[m][2] = w.sent
      BY <1>6, <1>7, <1>9, <2>2, <3>1
    <3>3. h[1] = "head" /\ h[2] = w.sent + 1
      BY <1>3
    <3>4. QED
      BY <3>2, <3>3 DEF Follows, Whole
  <2>3. CASE i > m
    <3>1. i = m + 1 /\ body /\ i + 1 = m + 2
      BY <1>5, <1>14, <2>3
    <3>2. t[i] = h /\ t[i + 1] = b
      BY <1>6, <3>1
    <3>3. QED
      BY <1>3, <3>1, <3>2 DEF Follows
  <2>4. QED
    BY <1>5, <2>1, <2>2, <2>3
<1>12. t[Len(t)][2] = v.sent /\ Whole(t[Len(t)])
  <2>1. CASE body
    <3>1. Len(t) = m + 2
      BY <1>5, <1>14, <2>1
    <3>2. t[Len(t)] = b
      BY <1>6, <2>1, <3>1
    <3>3. QED
      BY <1>3, <3>2 DEF Whole
  <2>2. CASE ~body
    <3>1. Len(t) = m + 1
      BY <1>5, <1>14, <2>2
    <3>2. t[Len(t)] = h
      BY <1>6, <3>1
    <3>3. QED
      BY <1>3, <2>2, <3>2 DEF Whole
  <2>3. QED
    BY <2>1, <2>2
<1>13. QED
  BY <1>6, <1>10, <1>11, <1>12 DEF Aligned, t

-----------------------------------------------------------------------------

(* What the network does.  All but the wire and the operations is the same.*)
SameClient(c, d) ==
    /\ d.m_is_connecting = c.m_is_connecting /\ d.m_is_connected = c.m_is_connected
    /\ d.socket = c.socket /\ d.open = c.open /\ d.m_memory = c.m_memory
    /\ d.m_pocket_list = c.m_pocket_list /\ d.m_executing = c.m_executing
    /\ d.got = c.got /\ d.lost = c.lost
    /\ d.orderly = c.orderly /\ d.settled = c.settled
    /\ d.in_message = c.in_message /\ d.fate = c.fate

LEMMA WireIs ==
    ASSUME NEW c \in ClientType, NEW w \in Wire
    PROVE  LET d == [c EXCEPT !.wire = w]
           IN  /\ d \in ClientType /\ SameClient(c, d) /\ d.wire = w
               /\ d.reads = c.reads /\ d.output = c.output /\ d.ready = c.ready
<1>1. [c EXCEPT !.wire = w] \in ClientType
  BY DEF ClientType
<1>2. QED
  BY <1>1 DEF ClientType, SameClient

LEMMA EndReadIs ==
    ASSUME NEW c \in ClientType, c = client, c.reads # <<>>,
           NEW item \in Item, NEW failed \in BOOLEAN
    PROVE  LET d == EndRead(item, failed)
               op == Head(c.reads)
               ended == Ended(op.kind, item, failed)
           IN  /\ d \in ClientType /\ SameButOperations(c, d)
               /\ op \in ReadOperation /\ ended \in EndedOperation
               /\ d.output = c.output
               /\ d.reads = Tail(c.reads)
               /\ d.ready = Append(c.ready, ended)
<1> DEFINE b == [c EXCEPT !.reads = Tail(@)]
           op == Head(c.reads)
           ended == Ended(op.kind, item, failed)
<1>1. Tail(c.reads) \in Seq(ReadOperation) /\ op \in ReadOperation
  BY Fields, HeadTailIn
<1>2. op.kind \in Reads \cup Output
  BY <1>1 DEF ReadOperation
<1> HIDE DEF op
<1>3. ended \in EndedOperation
  BY <1>2, Constants
<1> HIDE DEF ended
<1>4. b \in ClientType
  BY <1>1 DEF ClientType
<1>5. /\ b.output = c.output /\ b.reads = Tail(c.reads) /\ b.ready = c.ready
      /\ SameButOperations(c, b)
  BY DEF ClientType, SameButOperations
<1>6. EndRead(item, failed) = Handler(b, ended)
  BY DEF EndRead, ended, op
<1> HIDE DEF b
<1> DEFINE d == Handler(b, ended)
<1>7. /\ d \in ClientType /\ SameButOperations(b, d)
      /\ d.reads = b.reads /\ d.output = b.output
      /\ d.ready = Append(b.ready, ended)
  BY <1>3, <1>4, HandlerIs
<1> HIDE DEF d
<1>8. SameButOperations(c, d)
  BY <1>5, <1>7 DEF SameButOperations
<1>9. QED
  BY <1>1, <1>3, <1>5, <1>6, <1>7, <1>8 DEF d, op, ended

LEMMA EndOutputIs ==
    ASSUME NEW c \in ClientType, c = client, c.output # <<>>,
           NEW item \in Item, NEW failed \in BOOLEAN
    PROVE  LET d == EndOutput(item, failed)
               op == Head(c.output)
               ended == Ended(op.kind, item, failed)
           IN  /\ d \in ClientType /\ SameButOperations(c, d)
               /\ op \in OutputOperation /\ ended \in EndedOperation
               /\ d.reads = c.reads
               /\ d.output = Tail(c.output)
               /\ d.ready = Append(c.ready, ended)
<1> DEFINE b == [c EXCEPT !.output = Tail(@)]
           op == Head(c.output)
           ended == Ended(op.kind, item, failed)
<1>1. Tail(c.output) \in Seq(OutputOperation) /\ op \in OutputOperation
  BY Fields, HeadTailIn
<1>2. op.kind \in Reads \cup Output
  BY <1>1 DEF OutputOperation
<1> HIDE DEF op
<1>3. ended \in EndedOperation
  BY <1>2, Constants
<1> HIDE DEF ended
<1>4. b \in ClientType
  BY <1>1 DEF ClientType
<1>5. /\ b.reads = c.reads /\ b.output = Tail(c.output) /\ b.ready = c.ready
      /\ SameButOperations(c, b)
  BY DEF ClientType, SameButOperations
<1>6. EndOutput(item, failed) = Handler(b, ended)
  BY DEF EndOutput, ended, op
<1> HIDE DEF b
<1> DEFINE d == Handler(b, ended)
<1>7. /\ d \in ClientType /\ SameButOperations(b, d)
      /\ d.reads = b.reads /\ d.output = b.output
      /\ d.ready = Append(b.ready, ended)
  BY <1>3, <1>4, HandlerIs
<1> HIDE DEF d
<1>8. SameButOperations(c, d)
  BY <1>5, <1>7 DEF SameButOperations
<1>9. QED
  BY <1>1, <1>3, <1>5, <1>6, <1>7, <1>8 DEF d, op, ended

(* The operations after the only read, or output, of a queue has ended.    *)
HasEnded(c, d, ended) ==
    /\ \A i \in DOMAIN d.ready :
          \/ i \in DOMAIN c.ready /\ d.ready[i] = c.ready[i]
          \/ i = Len(c.ready) + 1 /\ d.ready[i] = ended
    /\ Len(c.ready) + 1 \in DOMAIN d.ready
    /\ d.ready[Len(c.ready) + 1] = ended
    /\ \A i \in DOMAIN c.ready : i \in DOMAIN d.ready /\ d.ready[i] = c.ready[i]

LEMMA HasEndedIs ==
    ASSUME NEW c \in ClientType, NEW ended \in EndedOperation,
           NEW d, d.ready = Append(c.ready, ended)
    PROVE  HasEnded(c, d, ended)
<1> DEFINE r == c.ready
<1>1. r \in Seq(EndedOperation)
  BY Fields
<1> HIDE DEF r
<1>2. LET t == Append(r, ended)
      IN  /\ Len(r) + 1 \in DOMAIN t /\ t[Len(r) + 1] = ended
          /\ \A i \in DOMAIN r : i \in DOMAIN t /\ t[i] = r[i]
          /\ \A i \in DOMAIN t :
                \/ i \in DOMAIN r /\ t[i] = r[i]
                \/ i = Len(r) + 1 /\ t[i] = ended
  BY <1>1, AppendIs
<1>3. d.ready = Append(r, ended)
  BY DEF r
<1>4. QED
  BY <1>2, <1>3 DEF HasEnded, r

LEMMA OnlyOne ==
    ASSUME NEW S, NEW q \in Seq(S), q # <<>>, Len(q) <= 1
    PROVE  Tail(q) = <<>> /\ DOMAIN q = {1} /\ Head(q) = q[1]
<1> DEFINE t == Tail(q)
<1>1. t \in Seq(S) /\ Len(t) = Len(q) - 1 /\ Len(q) \in Nat /\ DOMAIN q = 1..Len(q)
      /\ Head(q) = q[1]
  BY TailIs
<1>2. Len(q) = 1
  <2>1. Len(q) # 0
    OBVIOUS
  <2>2. QED
    BY <1>1, <2>1
<1>3. Len(t) = 0
  BY <1>1, <1>2
<1>4. t = <<>>
  <2> HIDE DEF t
  <2>1. QED
    BY <1>1, <1>3
<1>5. QED
  BY <1>1, <1>2, <1>4

(* A read that has ended: its handler waits for the io_service.            *)
LEMMA ReadEndedGood ==
    ASSUME NEW c \in ClientType, Good(c), ~c.in_message, c.reads # <<>>,
           NEW ended \in EndedOperation, ended.kind = Head(c.reads).kind,
           NEW d \in ClientType, SameClient(c, d), d.output = c.output,
           d.reads = Tail(c.reads), d.ready = Append(c.ready, ended),
           d.wire.up = c.wire.up,
           ~ended.failed =>
             /\ ended.item[1] = ended.kind /\ ended.item[2] = Due(c)
             /\ ended.kind = "body" => ~ended.item[3]
             /\ c.m_is_connected => AlignedAfter(d, ended.item)
    PROVE  Good(d)
<1> DEFINE op == Head(c.reads)
           n == Len(c.ready) + 1
<1>1. Kept(c) /\ c.m_is_connected /\ ~c.m_is_connecting /\ Open(c)
  BY DEF Good, Phase, Opening, Shut, Gone
<1>2. Kept(c) /\ Solo(c)
  BY <1>1 DEF Open
<1>3. d.reads = <<>> /\ 1 \in DOMAIN c.reads /\ op = c.reads[1] /\ op \in ReadOperation
  <2>1. c.reads \in Seq(ReadOperation) /\ Len(c.reads) <= 1
    BY <1>2, Fields DEF Solo
  <2>2. Tail(c.reads) = <<>> /\ DOMAIN c.reads = {1} /\ Head(c.reads) = c.reads[1]
    BY <2>1, OnlyOne
  <2>3. op \in ReadOperation
    BY <2>1, HeadTailIn
  <2>4. QED
    BY <2>2, <2>3
<1>4. ended.kind \in Reads /\ ended.kind \notin Output
  BY <1>3, Kinds DEF ReadOperation
<1>5. /\ \A i \in DOMAIN d.ready :
            \/ i \in DOMAIN c.ready /\ d.ready[i] = c.ready[i]
            \/ i = n /\ d.ready[i] = ended
      /\ n \in DOMAIN d.ready /\ d.ready[n] = ended
      /\ \A i \in DOMAIN c.ready : i \in DOMAIN d.ready /\ d.ready[i] = c.ready[i]
  BY HasEndedIs DEF HasEnded
<1> HIDE DEF op, n
<1>6. \A i \in DOMAIN c.ready :
         c.ready[i].kind \in Output /\ c.ready[i].kind \notin Reads
  <2>1. \A i \in DOMAIN c.ready : c.ready[i].kind \in Output
    BY <1>2 DEF Solo
  <2>2. \A i \in DOMAIN c.ready : c.ready[i].kind \in Reads \cup Output
    BY QueueTypes
  <2>3. QED
    BY <2>1, <2>2, Kinds
<1>7. Solo(d) /\ Lone(d)
  <2>1. \A i, j \in DOMAIN c.ready : i = j
    BY <1>2, <1>6 DEF Solo
  <2>2. \A i, j \in DOMAIN d.ready :
           (d.ready[i].kind \in Reads <=> d.ready[j].kind \in Reads) => i = j
    BY <1>4, <1>5, <1>6, <2>1
  <2>3. Len(d.reads) <= 1 /\ Len(d.output) <= 1
    BY <1>2, <1>3, EmptyIs DEF Solo
  <2>4. d.output # <<>> => \A i \in DOMAIN d.ready : d.ready[i].kind \in Reads
    <3>1. c.output # <<>> => DOMAIN c.ready = {}
      BY <1>2, <1>6 DEF Solo
    <3>2. QED
      BY <1>4, <1>5, <3>1
  <2>5. Solo(d)
    BY <1>3, <2>2, <2>3, <2>4 DEF Solo
  <2>6. Lone(d)
    BY <1>3, <2>2 DEF Lone
  <2>7. QED
    BY <2>5, <2>6
<1>8. Reading(c) /\ Reading(d) /\ (Writing(c) <=> Writing(d))
  BY <1>4, <1>5 DEF Reading, Writing
<1>9. /\ d.m_memory = c.m_memory /\ d.got = c.got /\ ~d.in_message
      /\ d.m_pocket_list = c.m_pocket_list /\ d.socket = c.socket
      /\ d.m_executing = c.m_executing /\ d.open = c.open /\ d.lost = c.lost
      /\ d.m_is_connecting = c.m_is_connecting /\ d.m_is_connected = c.m_is_connected
      /\ d.fate = c.fate /\ d.settled = c.settled
  BY DEF SameClient
<1>10. Due(d) = Due(c)
  BY <1>9 DEF Due
<1>11. Memory(d)
  <2>1. ended.kind = "body" => c.m_memory = Due(c)
    BY <1>2, <1>3 DEF Kept, Memory, ReadHolds, op
  <2>2. EndedHolds(d, ended)
    BY <1>9, <1>10, <2>1 DEF EndedHolds
  <2>3. \A i \in DOMAIN d.ready : EndedHolds(d, d.ready[i])
    BY <1>5, <1>6, <2>2 DEF EndedHolds
  <2>4. QED
    BY <1>3, <1>8, <1>9, <2>3, EmptyIs DEF Memory
<1>12. Kept(d)
  BY <1>2, <1>7, <1>9, <1>11 DEF Kept, Counted, Reported
<1>13. InStream(d)
  <2>1. DOMAIN d.reads = {}
    BY <1>3, EmptyIs
  <2>2. \A i \in DOMAIN d.ready :
           d.ready[i].kind \in Reads /\ ~d.ready[i].failed =>
             AlignedAfter(d, d.ready[i].item)
    BY <1>5, <1>6, <1>1
  <2>3. QED
    BY <1>9, <2>1, <2>2 DEF InStream
<1>14. Live(d)
  BY <1>8, <1>9, <1>1, <1>13 DEF Live, Open
<1>15. OwnPockets(d)
  <2>1. OwnPockets(c)
    BY <1>1 DEF Open
  <2>2. ended.kind # "connect"
    BY <1>4 DEF Reads
  <2>3. QED
    BY <1>5, <1>9, <2>1, <2>2 DEF OwnPockets, OfSocket
<1>16. Pocketed(d)
  BY <1>8, <1>9, <1>1 DEF Open, Pocketed
<1>17. QED
  BY <1>7, <1>9, <1>12, <1>1, <1>14, <1>15, <1>16 DEF Good, Phase, Open

(* A connect or a write that has ended.                                    *)
LEMMA OutputEndedGood ==
    ASSUME NEW c \in ClientType, Good(c), ~c.in_message, c.output # <<>>,
           NEW ended \in EndedOperation, ended.kind = Head(c.output).kind,
           NEW d \in ClientType, SameClient(c, d), d.reads = c.reads,
           d.output = Tail(c.output), d.ready = Append(c.ready, ended),
           d.wire.units = c.wire.units, d.wire.sent = c.wire.sent,
           ~ended.failed => d.wire.up,
           c.m_is_connected => d.wire.up
    PROVE  Good(d)
<1> DEFINE op == Head(c.output)
           n == Len(c.ready) + 1
<1>1. Kept(c)
  BY DEF Good
<1>2. /\ d.output = <<>> /\ 1 \in DOMAIN c.output /\ op = c.output[1]
      /\ op \in OutputOperation
  <2>1. c.output \in Seq(OutputOperation) /\ Len(c.output) <= 1
    BY Fields DEF Good, Phase, Opening, Open, Solo, Shut, Gone
  <2>2. Tail(c.output) = <<>> /\ DOMAIN c.output = {1} /\ Head(c.output) = c.output[1]
    BY <2>1, OnlyOne
  <2>3. op \in OutputOperation
    BY <2>1, HeadTailIn
  <2>4. QED
    BY <2>2, <2>3
<1>3. ended.kind \in Output /\ ended.kind \notin Reads /\ ended.kind = c.output[1].kind
  BY <1>2, Kinds DEF OutputOperation, op
<1>4. /\ \A i \in DOMAIN d.ready :
            \/ i \in DOMAIN c.ready /\ d.ready[i] = c.ready[i]
            \/ i = n /\ d.ready[i] = ended
      /\ n \in DOMAIN d.ready /\ d.ready[n] = ended
      /\ \A i \in DOMAIN c.ready : i \in DOMAIN d.ready /\ d.ready[i] = c.ready[i]
  BY HasEndedIs DEF HasEnded
<1> HIDE DEF op, n
<1>5. Lone(d)
  BY <1>1, <1>3, <1>4 DEF Kept, Lone
<1>6. ASSUME Solo(c) PROVE Solo(d)
  <2>1. \A i \in DOMAIN c.ready :
           c.ready[i].kind \in Reads /\ c.ready[i].kind \notin Output
    <3>1. \A i \in DOMAIN c.ready : c.ready[i].kind \in Reads
      BY <1>6 DEF Solo
    <3>2. QED
      BY <3>1, Kinds
  <2>2. \A i, j \in DOMAIN c.ready : i = j
    BY <1>6, <2>1 DEF Solo
  <2>3. \A i, j \in DOMAIN d.ready :
           (d.ready[i].kind \in Reads <=> d.ready[j].kind \in Reads) => i = j
    BY <1>3, <1>4, <2>1, <2>2
  <2>4. Len(d.reads) <= 1 /\ Len(d.output) <= 1
    BY <1>2, <1>6, EmptyIs DEF Solo
  <2>5. d.reads # <<>> => \A i \in DOMAIN d.ready : d.ready[i].kind \in Output
    <3>1. c.reads # <<>> => DOMAIN c.ready = {}
      BY <1>6, <2>1 DEF Solo
    <3>2. QED
      BY <1>3, <1>4, <3>1
  <2>6. QED
    BY <1>2, <2>3, <2>4, <2>5 DEF Solo
<1>7. Writing(c) /\ Writing(d) /\ (Reading(c) <=> Reading(d))
  BY <1>3, <1>4 DEF Reading, Writing
<1>8. /\ d.m_memory = c.m_memory /\ d.got = c.got /\ ~d.in_message
      /\ d.m_pocket_list = c.m_pocket_list /\ d.socket = c.socket
      /\ d.m_executing = c.m_executing /\ d.open = c.open /\ d.lost = c.lost
      /\ d.m_is_connecting = c.m_is_connecting /\ d.m_is_connected = c.m_is_connected
      /\ d.fate = c.fate /\ d.settled = c.settled
  BY DEF SameClient
<1>9. /\ Due(d) = Due(c)
      /\ \A kind, m : Aligned(d.wire, kind, m) <=> Aligned(c.wire, kind, m)
  BY <1>8 DEF Due, Aligned
<1>10. Memory(d)
  <2>1. \A o : /\ ReadHolds(c, o) => ReadHolds(d, o)
               /\ EndedHolds(c, o) => EndedHolds(d, o)
    BY <1>8, <1>9 DEF ReadHolds, EndedHolds
  <2>2. EndedHolds(d, ended)
    BY <1>3 DEF EndedHolds
  <2>3. \A i \in DOMAIN d.ready : EndedHolds(d, d.ready[i])
    BY <1>1, <1>4, <2>1, <2>2 DEF Kept, Memory
  <2>4. QED
    BY <1>1, <1>7, <1>8, <2>1, <2>3 DEF Kept, Memory
<1>11. Kept(d)
  BY <1>1, <1>5, <1>8, <1>10 DEF Kept, Counted, Reported
<1>12. CASE Opening(c)
  <2>1. ended.kind = "connect"
    BY <1>2, <1>3, <1>12 DEF Opening
  <2>2. \A i \in DOMAIN c.ready : c.ready[i].failed
    BY <1>12 DEF Opening
  <2>3. \A i \in DOMAIN d.ready : ~d.ready[i].failed =>
           /\ d.ready[i].kind = "connect" /\ d.output = <<>> /\ d.wire.up
           /\ \A j \in DOMAIN d.ready : j <= i
    <3>1. ASSUME NEW i \in DOMAIN d.ready, ~d.ready[i].failed
          PROVE  /\ d.ready[i].kind = "connect" /\ d.output = <<>> /\ d.wire.up
                 /\ \A j \in DOMAIN d.ready : j <= i
      <4>1. i = n /\ d.ready[i] = ended
        BY <1>4, <2>2, <3>1
      <4>2. \A j \in DOMAIN d.ready : j <= n
        BY <1>4, QueueTypes DEF n
      <4>3. QED
        BY <1>2, <2>1, <3>1, <4>1, <4>2
    <3>2. QED
      BY <3>1
  <2>4. d.settled => \A i \in DOMAIN d.ready : d.ready[i].kind = "connect"
    BY <1>4, <1>8, <1>12, <2>1 DEF Opening
  <2>5. Opening(d)
    BY <1>2, <1>8, <1>9, <1>12, <2>3, <2>4, EmptyIs DEF Opening, Quiet
  <2>6. QED
    BY <1>8, <1>11, <1>12, <2>5 DEF Good, Phase, Opening
<1>13. CASE ~Opening(c)
  <2>1. c.m_is_connected /\ ~c.m_is_connecting /\ Open(c) /\ Solo(d)
    BY <1>6, <1>13 DEF Good, Phase, Shut, Gone, Open
  <2>2. InStream(d)
    <3>1. \A i \in DOMAIN d.ready :
             d.ready[i].kind \in Reads /\ ~d.ready[i].failed =>
               AlignedAfter(d, d.ready[i].item)
      <4>1. \A unit : AlignedAfter(c, unit) => AlignedAfter(d, unit)
        BY <1>9 DEF AlignedAfter
      <4>2. QED
        BY <1>3, <1>4, <2>1, <4>1 DEF Open, Live, InStream
    <3>2. QED
      BY <1>8, <1>9, <2>1, <3>1 DEF Open, Live, InStream
  <2>3. Live(d)
    BY <1>7, <1>8, <2>1, <2>2 DEF Live, Open
  <2>4. OwnPockets(d)
    <3>1. OwnPockets(c)
      BY <2>1 DEF Open
    <3>2. ended.kind # "connect"
      BY <1>2, <1>3, <3>1 DEF OwnPockets
    <3>3. \A i \in DOMAIN d.m_pocket_list : OfSocket(d, d.m_pocket_list[i])
      BY <1>8, <3>1 DEF OwnPockets, OfSocket
    <3>4. DOMAIN d.output = {}
      BY <1>2, EmptyIs
    <3>5. \A i \in DOMAIN d.ready : d.ready[i].kind # "connect"
      BY <1>4, <3>1, <3>2 DEF OwnPockets
    <3>6. QED
      BY <3>3, <3>4, <3>5 DEF OwnPockets
  <2>5. Pocketed(d)
    BY <1>7, <1>8, <2>1 DEF Open, Pocketed
  <2>6. QED
    BY <1>8, <1>11, <1>13, <2>1, <2>3, <2>4, <2>5 DEF Good, Phase, Open
<1>14. QED
  BY <1>12, <1>13

(* The steps of the network and of the peer.                               *)
LEMMA Waiting ==
    ASSUME NEW c \in ClientType, c = client, IInv
    PROVE  ~c.in_message /\ (c.orderly => Good(c)) /\ c.wire \in Wire
  BY Fields DEF IInv, Sound

LEMMA ReadArrivesSound == ASSUME IInv, ReadArrives PROVE IInv'
<1> DEFINE c == client
           w == c.wire
           unit == Head(w.units)
           v == [w EXCEPT !.units = Tail(@)]
           e == EndRead(unit, FALSE)
           d == client'
           op == Head(c.reads)
           ended == Ended(op.kind, unit, FALSE)
<1>1. c \in ClientType /\ ~c.in_message /\ (c.orderly => Good(c)) /\ w \in Wire
  BY Waiting DEF IInv, Sound
<1>2. w.up /\ w.units # <<>> /\ c.reads # <<>> /\ d = [e EXCEPT !.wire.units = Tail(@)]
  BY DEF ReadArrives, Waits
<1> SUFFICES Sound(d) /\ ~d.in_message
  BY DEF IInv
<1>3. unit \in Item /\ Tail(w.units) \in Seq(Item)
  <2>1. w.units \in Seq(Item)
    BY <1>1 DEF Wire
  <2>2. QED
    BY <1>2, <2>1, HeadTailIn
<1>4. v \in Wire /\ v.units = Tail(w.units) /\ v.sent = w.sent /\ v.up = w.up
  BY <1>1, <1>3 DEF Wire
<1>5. /\ e \in ClientType /\ SameButOperations(c, e)
      /\ op \in ReadOperation /\ ended \in EndedOperation
      /\ e.output = c.output
      /\ e.reads = Tail(c.reads)
      /\ e.ready = Append(c.ready, ended)
  BY <1>1, <1>2, <1>3, EndReadIs
<1> HIDE DEF c, e, d
<1>6. d = [e EXCEPT !.wire = v]
  BY <1>2, <1>5 DEF SameButOperations
<1> HIDE DEF v
<1>7. /\ d \in ClientType /\ SameClient(e, d) /\ d.wire = v
      /\ d.reads = e.reads /\ d.output = e.output /\ d.ready = e.ready
  BY <1>4, <1>5, <1>6, WireIs
<1>8. SameClient(c, d)
  BY <1>5, <1>7 DEF SameButOperations, SameClient
<1>9. ended.kind = op.kind /\ ended.item = unit /\ ~ended.failed
  BY DEF Ended
<1> HIDE DEF w, unit, ended, op
<1>10. ASSUME c.orderly PROVE Good(d)
  <2>1. Good(c) /\ Kept(c)
    BY <1>1, <1>10 DEF Good
  <2>2. op.kind \in Reads
    BY <1>5 DEF ReadOperation
  <2>3. ASSUME c.m_is_connected
        PROVE  Aligned(w, op.kind, Due(c))
    <3>1. InStream(c)
      BY <2>1, <2>3 DEF Good, Phase, Open, Live
    <3>2. 1 \in DOMAIN c.reads /\ op = c.reads[1]
      BY <1>1, <1>2, Fields, TailIs DEF op
    <3>3. QED
      BY <3>1, <3>2 DEF InStream, w
  <2>4. c.m_is_connected
    <3>1. Reading(c)
      BY <1>2 DEF Reading
    <3>2. QED
      BY <1>2, <2>1, <3>1 DEF Good, Phase, Opening, Shut, Gone
  <2>5. Due(c) \in Nat /\ Due(d) = Due(c)
    <3>1. Len(c.got) \in Nat
      BY <1>1, Fields
    <3>2. QED
      BY <1>8, <3>1 DEF Due, SameClient
  <2>6. /\ unit[1] = op.kind /\ unit[2] = Due(c) /\ (op.kind = "body" => ~unit[3])
        /\ IF Whole(unit) THEN Aligned(v, "head", Due(c) + 1)
                          ELSE Aligned(v, "body", Due(c))
    BY <1>1, <1>2, <1>4, <2>2, <2>3, <2>4, <2>5, UnitTaken DEF unit
  <2>7. AlignedAfter(d, unit)
    BY <1>7, <2>5, <2>6 DEF AlignedAfter
  <2>8. d.wire.up = c.wire.up
    BY <1>4, <1>7 DEF w
  <2>9. d.reads = Tail(c.reads) /\ d.output = c.output /\ d.ready = Append(c.ready, ended)
    BY <1>5, <1>7
  <2>10. ended.kind = Head(c.reads).kind
    BY <1>9 DEF op
  <2>11. /\ ended.item[1] = ended.kind /\ ended.item[2] = Due(c)
         /\ ended.kind = "body" => ~ended.item[3]
         /\ AlignedAfter(d, ended.item)
    BY <1>9, <2>6, <2>7
  <2>12. QED
    BY <1>1, <1>2, <1>5, <1>7, <1>8, <2>1, <2>8, <2>9, <2>10, <2>11, ReadEndedGood
<1>11. QED
  BY <1>1, <1>7, <1>8, <1>10 DEF Sound, SameClient

LEMMA ReadFailsSound == ASSUME IInv, ReadFails PROVE IInv'
<1> DEFINE c == client
           d == EndRead(Nothing, TRUE)
           op == Head(c.reads)
           ended == Ended(op.kind, Nothing, TRUE)
<1>1. c \in ClientType /\ ~c.in_message /\ (c.orderly => Good(c))
  BY Waiting DEF IInv, Sound
<1>2. c.reads # <<>> /\ client' = d
  BY DEF ReadFails, Waits
<1> SUFFICES Sound(d) /\ ~d.in_message
  BY <1>2 DEF IInv
<1>3. /\ d \in ClientType /\ SameButOperations(c, d)
      /\ ended \in EndedOperation
      /\ d.output = c.output
      /\ d.reads = Tail(c.reads)
      /\ d.ready = Append(c.ready, ended)
  BY <1>1, <1>2, Constants, EndReadIs
<1>4. ended.kind = op.kind /\ ended.failed
  BY DEF Ended
<1> HIDE DEF c, d, ended
<1>5. SameClient(c, d) /\ d.wire.up = c.wire.up
  BY <1>3 DEF SameButOperations, SameClient
<1>6. c.orderly => Good(d)
  BY <1>1, <1>2, <1>3, <1>4, <1>5, ReadEndedGood
<1>7. QED
  BY <1>1, <1>3, <1>5, <1>6 DEF Sound, SameClient

(* An output ends, and the wire is up or broken from then on.              *)
LEMMA OutputEndedSound ==
    ASSUME NEW c \in ClientType, c = client, ~c.in_message,
           c.orderly => Good(c), c.output # <<>>,
           NEW item \in Item, NEW failed \in BOOLEAN,
           NEW v \in Wire, v.units = c.wire.units, v.sent = c.wire.sent,
           ~failed => v.up, c.orderly /\ c.m_is_connected => v.up,
           NEW d, d = [EndOutput(item, failed) EXCEPT !.wire = v]
    PROVE  Sound(d) /\ ~d.in_message
<1> DEFINE e == EndOutput(item, failed)
           op == Head(c.output)
           ended == Ended(op.kind, item, failed)
<1>1. /\ e \in ClientType /\ SameButOperations(c, e)
      /\ ended \in EndedOperation
      /\ e.reads = c.reads
      /\ e.output = Tail(c.output)
      /\ e.ready = Append(c.ready, ended)
  BY EndOutputIs
<1>2. ended.kind = op.kind /\ ended.failed = failed
  BY DEF Ended
<1>3. d = [e EXCEPT !.wire = v]
  OBVIOUS
<1> HIDE DEF e, ended
<1>4. /\ d \in ClientType /\ SameClient(e, d) /\ d.wire = v
      /\ d.reads = e.reads /\ d.output = e.output /\ d.ready = e.ready
  <2> DEFINE g == [e EXCEPT !.wire = v]
  <2>1. /\ g \in ClientType /\ SameClient(e, g) /\ g.wire = v
        /\ g.reads = e.reads /\ g.output = e.output /\ g.ready = e.ready
    BY <1>1, WireIs
  <2>2. d = g
    BY <1>3
  <2> HIDE DEF g
  <2>3. QED
    BY <2>1, <2>2
<1>5. SameClient(c, d)
  BY <1>1, <1>4 DEF SameButOperations, SameClient
<1>6. ASSUME c.orderly PROVE Good(d)
  <2>1. /\ d.reads = c.reads /\ d.output = Tail(c.output)
        /\ d.ready = Append(c.ready, ended)
        /\ d.wire.units = c.wire.units /\ d.wire.sent = c.wire.sent
    BY <1>1, <1>4
  <2>2. /\ ~ended.failed => d.wire.up
        /\ c.m_is_connected => d.wire.up
    BY <1>2, <1>4, <1>6
  <2>3. QED
    BY <1>1, <1>2, <1>4, <1>5, <1>6, <2>1, <2>2, OutputEndedGood
<1>7. QED
  BY <1>4, <1>5, <1>6 DEF Sound, SameClient

LEMMA EstablishedSound == ASSUME IInv, Established PROVE IInv'
<1> DEFINE c == client
           v == [c.wire EXCEPT !.up = TRUE]
           d == client'
<1>1. c \in ClientType /\ ~c.in_message /\ (c.orderly => Good(c)) /\ c.wire \in Wire
  BY Waiting DEF IInv, Sound
<1>2. c.output # <<>> /\ d = [EndOutput(Nothing, FALSE) EXCEPT !.wire.up = TRUE]
  BY DEF Established, Connecting, Waits
<1>3. /\ v \in Wire /\ v.units = c.wire.units /\ v.sent = c.wire.sent /\ v.up
  BY <1>1 DEF Wire
<1>4. d = [EndOutput(Nothing, FALSE) EXCEPT !.wire = v]
  <2>1. SameButOperations(c, EndOutput(Nothing, FALSE))
    BY <1>1, <1>2, Constants, EndOutputIs
  <2>2. EndOutput(Nothing, FALSE).wire = c.wire
    BY <2>1 DEF SameButOperations
  <2>3. QED
    BY <1>2, <2>2
<1>5. Nothing \in Item
  BY Constants
<1> SUFFICES Sound(d) /\ ~d.in_message
  BY DEF IInv
<1> HIDE DEF v, d
<1>6. QED
  BY <1>1, <1>2, <1>3, <1>4, <1>5, OutputEndedSound

LEMMA RefusedSound == ASSUME IInv, Refused PROVE IInv'
<1> DEFINE c == client
           v == [c.wire EXCEPT !.broken = TRUE]
           d == client'
<1>1. c \in ClientType /\ ~c.in_message /\ (c.orderly => Good(c)) /\ c.wire \in Wire
  BY Waiting DEF IInv, Sound
<1>2. /\ c.output # <<>> /\ ~c.wire.up
      /\ d = [EndOutput(Nothing, TRUE) EXCEPT !.wire.broken = TRUE]
  BY DEF Refused, Connecting, Waits
<1>3. /\ v \in Wire /\ v.units = c.wire.units /\ v.sent = c.wire.sent
  BY <1>1 DEF Wire
<1>4. d = [EndOutput(Nothing, TRUE) EXCEPT !.wire = v]
  <2>1. SameButOperations(c, EndOutput(Nothing, TRUE))
    BY <1>1, <1>2, Constants, EndOutputIs
  <2>2. EndOutput(Nothing, TRUE).wire = c.wire
    BY <2>1 DEF SameButOperations
  <2>3. QED
    BY <1>2, <2>2
<1>5. Nothing \in Item
  BY Constants
<1>6. c.orderly => ~c.m_is_connected
  BY <1>1, <1>2 DEF Good, Phase, Open, Live
<1> SUFFICES Sound(d) /\ ~d.in_message
  BY DEF IInv
<1> HIDE DEF v, d
<1>7. QED
  BY <1>1, <1>2, <1>3, <1>4, <1>5, <1>6, OutputEndedSound

(* An output ends and the wire is as it was.                               *)
LEMMA SameWire ==
    ASSUME NEW c \in ClientType, c = client, c.output # <<>>,
           NEW item \in Item, NEW failed \in BOOLEAN
    PROVE  EndOutput(item, failed) = [EndOutput(item, failed) EXCEPT !.wire = c.wire]
<1> DEFINE e == EndOutput(item, failed)
<1>1. e \in ClientType /\ SameButOperations(c, e)
  BY EndOutputIs
<1> HIDE DEF e
<1>2. e.wire = c.wire
  BY <1>1 DEF SameButOperations
<1>3. e = [e EXCEPT !.wire = c.wire]
  BY <1>1, <1>2 DEF ClientType
<1>4. QED
  BY <1>3 DEF e

LEMMA WriteSound ==
    ASSUME IInv, NEW failed \in BOOLEAN, Write(failed)
    PROVE  IInv'
<1> DEFINE c == client
           item == Head(c.output).item
           d == client'
<1>1. c \in ClientType /\ ~c.in_message /\ (c.orderly => Good(c)) /\ c.wire \in Wire
  BY Waiting DEF IInv, Sound
<1>2. c.output # <<>> /\ c.wire.up /\ d = EndOutput(item, failed)
  BY DEF Write, Waits
<1>3. item \in Item
  <2>1. Head(c.output) \in OutputOperation
    BY <1>1, <1>2, Fields, HeadTailIn
  <2>2. QED
    BY <2>1 DEF OutputOperation
<1> SUFFICES Sound(d) /\ ~d.in_message
  BY DEF IInv
<1> HIDE DEF item, d
<1>4. d = [EndOutput(item, failed) EXCEPT !.wire = c.wire]
  BY <1>1, <1>2, <1>3, SameWire
<1>5. QED
  BY <1>1, <1>2, <1>3, <1>4, OutputEndedSound

LEMMA WriteRefusedSound == ASSUME IInv, WriteRefused PROVE IInv'
<1> DEFINE c == client
           d == client'
<1>1. c \in ClientType /\ ~c.in_message /\ (c.orderly => Good(c)) /\ c.wire \in Wire
  BY Waiting DEF IInv, Sound
<1>2. /\ c.output # <<>> /\ ~c.wire.up /\ d = EndOutput(Nothing, TRUE)
  BY DEF WriteRefused, Waits
<1>3. Nothing \in Item
  BY Constants
<1>4. c.orderly => ~c.m_is_connected
  BY <1>1, <1>2 DEF Good, Phase, Open, Live
<1> SUFFICES Sound(d) /\ ~d.in_message
  BY DEF IInv
<1> HIDE DEF d
<1>5. d = [EndOutput(Nothing, TRUE) EXCEPT !.wire = c.wire]
  BY <1>1, <1>2, <1>3, SameWire
<1>6. QED
  BY <1>1, <1>2, <1>3, <1>4, <1>5, OutputEndedSound

(* What the peer sends, and that it closes.                                *)
LEMMA WireChangedGood ==
    ASSUME NEW c \in ClientType, Good(c), ~c.in_message, c.wire.up,
           NEW v \in Wire, v.up,
           \A kind, n : Aligned(c.wire, kind, n) => Aligned(v, kind, n)
    PROVE  Good([c EXCEPT !.wire = v])
<1> DEFINE d == [c EXCEPT !.wire = v]
<1>1. /\ d \in ClientType /\ SameClient(c, d) /\ d.wire = v
      /\ d.reads = c.reads /\ d.output = c.output /\ d.ready = c.ready
  BY WireIs
<1> HIDE DEF d
<1>2. (Solo(c) <=> Solo(d)) /\ Lone(d) /\ (Reading(c) <=> Reading(d)) /\ (Writing(c) <=> Writing(d))
  BY <1>1, OperationsHold DEF Good, Kept
<1>3. /\ d.m_memory = c.m_memory /\ d.got = c.got /\ d.in_message = c.in_message
      /\ d.m_pocket_list = c.m_pocket_list /\ d.socket = c.socket
      /\ d.m_executing = c.m_executing /\ d.open = c.open /\ d.lost = c.lost
      /\ d.m_is_connecting = c.m_is_connecting /\ d.m_is_connected = c.m_is_connected
      /\ d.fate = c.fate /\ d.settled = c.settled
  BY <1>1 DEF SameClient
<1>4. Memory(d)
  <2>1. \A o : /\ ReadHolds(c, o) => ReadHolds(d, o)
               /\ EndedHolds(c, o) => EndedHolds(d, o)
    BY <1>3 DEF ReadHolds, EndedHolds, Due
  <2>2. QED
    BY <1>1, <1>2, <1>3, <2>1 DEF Good, Kept, Memory
<1>5. Kept(d)
  BY <1>2, <1>3, <1>4 DEF Good, Kept, Counted, Reported
<1>6. ASSUME Opening(c) PROVE Opening(d)
  <2>1. Opening(c)
    BY <1>6
  <2>2. d.output = <<>> /\ DOMAIN d.output = {}
    BY <1>1, <2>1, EmptyIs DEF Opening
  <2>3. QED
    BY <1>1, <1>2, <1>3, <2>1, <2>2 DEF Opening, Quiet
<1>7. ASSUME c.m_is_connected PROVE Open(d)
  <2>1. Solo(c) /\ Live(c) /\ OwnPockets(c) /\ Pocketed(c)
    BY <1>7 DEF Good, Phase, Open
  <2>2. InStream(d)
    <3>1. Due(d) = Due(c)
      BY <1>3 DEF Due
    <3>2. \A unit : AlignedAfter(c, unit) => AlignedAfter(d, unit)
      BY <1>1, <3>1 DEF AlignedAfter
    <3>3. QED
      BY <1>1, <1>3, <2>1, <3>1, <3>2 DEF Live, InStream
  <2>3. Live(d)
    BY <1>1, <1>2, <1>3, <2>1, <2>2 DEF Live
  <2>4. OwnPockets(d)
    <3>1. OwnPockets(c)
      BY <2>1
    <3>2. /\ d.m_pocket_list = c.m_pocket_list /\ d.socket = c.socket
          /\ d.output = c.output /\ d.ready = c.ready
      BY <1>1, <1>3
    <3>3. QED
      BY <3>1, <3>2, OwnPocketsHold
  <2>5. Pocketed(d)
    BY <1>2, <1>3, <2>1 DEF Pocketed
  <2>6. QED
    BY <1>2, <2>1, <2>3, <2>4, <2>5 DEF Open
<1>8. ASSUME Shut(c) PROVE Shut(d)
  BY <1>1, <1>3, <1>8 DEF Shut, Gone, Quiet
<1>9. QED
  BY <1>3, <1>5, <1>6, <1>7, <1>8 DEF Good, Phase, d

LEMMA PeerSendsSound ==
    ASSUME IInv, NEW body \in BOOLEAN, PeerSends(body)
    PROVE  IInv'
<1> DEFINE c == client
           w == c.wire
           n == w.sent + 1
           h == <<"head", n, body>>
           b == <<"body", n, FALSE>>
           units == w.units \o (IF body THEN <<h, b>> ELSE <<h>>)
           v == [w EXCEPT !.sent = n, !.units = units]
           d == [c EXCEPT !.wire = v]
<1>1. c \in ClientType /\ ~c.in_message /\ (c.orderly => Good(c)) /\ w \in Wire
  BY Waiting DEF IInv, Sound
<1>2. w.up /\ client' = d
  BY DEF PeerSends
<1> SUFFICES Sound(d) /\ ~d.in_message
  BY <1>2 DEF IInv
<1>3. n \in Nat
  <2>1. w.sent \in Nat
    BY <1>1 DEF Wire
  <2>2. QED
    BY <2>1
<1>4. units \in Seq(Item)
  <2>1. h \in Item /\ b \in Item
    <3> HIDE DEF n
    <3>1. QED
      BY <1>3, UnitIs
  <2> HIDE DEF h, b
  <2>2. <<h>> \in Seq(Item) /\ <<h, b>> \in Seq(Item)
    BY <2>1, WrittenOut
  <2>3. (IF body THEN <<h, b>> ELSE <<h>>) \in Seq(Item)
    BY <2>2
  <2>4. w.units \in Seq(Item)
    BY <1>1 DEF Wire
  <2>5. QED
    BY <2>3, <2>4, ConcatProperties
<1>5. v \in Wire /\ v.sent = n /\ v.units = units /\ v.up = w.up
  <2> HIDE DEF n, units
  <2>1. QED
    BY <1>1, <1>3, <1>4 DEF Wire
<1>6. ASSUME NEW kind, NEW m, Aligned(w, kind, m) PROVE Aligned(v, kind, m)
  <2>1. v.sent = w.sent + 1 /\ v.units = w.units \o Message(v.sent, body)
    BY <1>5 DEF Message
  <2> HIDE DEF v, w
  <2>2. QED
    BY <1>1, <1>5, <1>6, <2>1, StreamGrows
<1> HIDE DEF v
<1>7. d \in ClientType /\ SameClient(c, d)
  BY <1>1, <1>5, WireIs
<1>8. c.orderly => Good(d)
  BY <1>1, <1>2, <1>5, <1>6, WireChangedGood
<1> HIDE DEF d
<1>9. QED
  BY <1>1, <1>7, <1>8 DEF Sound, SameClient

LEMMA PeerClosesSound == ASSUME IInv, PeerCloses PROVE IInv'
<1> DEFINE c == client
           v == [c.wire EXCEPT !.broken = TRUE]
           d == [c EXCEPT !.wire = v]
<1>1. c \in ClientType /\ ~c.in_message /\ (c.orderly => Good(c)) /\ c.wire \in Wire
  BY Waiting DEF IInv, Sound
<1>2. c.wire.up /\ client' = d
  BY DEF PeerCloses
<1> SUFFICES Sound(d) /\ ~d.in_message
  BY <1>2 DEF IInv
<1>3. /\ v \in Wire /\ v.sent = c.wire.sent /\ v.units = c.wire.units
      /\ v.up = c.wire.up
  BY <1>1 DEF Wire
<1>4. \A kind, m : Aligned(c.wire, kind, m) => Aligned(v, kind, m)
  BY <1>3 DEF Aligned
<1> HIDE DEF v
<1>5. d \in ClientType /\ SameClient(c, d)
  BY <1>1, <1>3, WireIs
<1>6. c.orderly => Good(d)
  BY <1>1, <1>2, <1>3, <1>4, WireChangedGood
<1> HIDE DEF d
<1>7. QED
  BY <1>1, <1>5, <1>6 DEF Sound, SameClient

LEMMA AppCallSound == ASSUME IInv, AppCall PROVE IInv'
<1> DEFINE c == client
           d == client'
<1>1. c \in ClientType /\ Sound(c) /\ ~c.in_message /\ d \in Calls(c)
  BY DEF IInv, Sound, AppCall
<1> SUFFICES Sound(d) /\ ~d.in_message
  BY DEF IInv
<1> HIDE DEF c, d
<1>2. Allowed(c, d)
  BY <1>1, CallsSound
<1>3. QED
  BY <1>1, <1>2 DEF Allowed

LEMMA InitSound == Init => IInv
<1> SUFFICES ASSUME Init PROVE IInv
  OBVIOUS
<1> DEFINE c == client
<1>1. PICK limit \in Limits :
        c = [limit |-> limit, m_is_connecting |-> FALSE, m_is_connected |-> FALSE,
             socket |-> 0, open |-> FALSE, m_memory |-> 0, m_pocket_list |-> <<>>,
             m_executing |-> FALSE, reads |-> <<>>, output |-> <<>>, ready |-> <<>>,
             wire |-> NoWire, connects |-> 0, closes |-> 0, pockets |-> 0,
             got |-> <<>>, lost |-> 0, orderly |-> TRUE, settled |-> TRUE,
             in_message |-> FALSE, fate |-> "running"]
  BY DEF Init
<1> HIDE DEF c
<1>2. /\ <<>> \in Seq(Item) /\ <<>> \in Seq(ReadOperation) /\ <<>> \in Seq(OutputOperation)
      /\ <<>> \in Seq(EndedOperation) /\ <<>> \in Seq(Nat)
  BY EmptySeq, Zenon
<1>3. c \in ClientType
  BY <1>1, <1>2, Constants DEF ClientType
<1>4. /\ c.reads = <<>> /\ c.output = <<>> /\ c.ready = <<>>
      /\ c.m_pocket_list = <<>> /\ c.got = <<>> /\ c.m_memory = 0
      /\ ~c.m_is_connecting /\ ~c.m_is_connected /\ ~c.m_executing
      /\ ~c.open /\ ~c.in_message /\ c.lost = 0 /\ c.fate = "running"
  BY <1>1
<1>5. Lone(c) /\ ~Reading(c)
  BY <1>4, EmptyIs DEF Lone, Reading
<1>6. Memory(c) /\ Counted(c)
  BY <1>4, <1>5, EmptyIs DEF Memory, Counted
<1>7. Shut(c)
  BY <1>4 DEF Shut, Quiet, Gone
<1>8. Good(c)
  BY <1>4, <1>5, <1>6, <1>7 DEF Good, Kept, Phase, Reported
<1>9. QED
  BY <1>3, <1>4, <1>8 DEF IInv, Sound, c

-----------------------------------------------------------------------------

(* Every step keeps the invariant.                                         *)
LEMMA StepSound == ASSUME IInv, [Next]_vars PROVE IInv'
<1>1. CASE AppCall
  BY <1>1, AppCallSound
<1>2. CASE RunHandler
  BY <1>2, RunHandlerSound
<1>3. CASE Established
  BY <1>3, EstablishedSound
<1>4. CASE Refused
  BY <1>4, RefusedSound
<1>5. CASE \E body \in BOOLEAN : PeerSends(body)
  BY <1>5, PeerSendsSound
<1>6. CASE PeerCloses
  BY <1>6, PeerClosesSound
<1>7. CASE ReadArrives
  BY <1>7, ReadArrivesSound
<1>8. CASE ReadFails
  BY <1>8, ReadFailsSound
<1>9. CASE \E failed \in BOOLEAN : Write(failed)
  BY <1>9, WriteSound
<1>10. CASE WriteRefused
  BY <1>10, WriteRefusedSound
<1>11. CASE UNCHANGED vars
  BY <1>11 DEF vars, IInv
<1>12. QED
  BY <1>1, <1>2, <1>3, <1>4, <1>5, <1>6, <1>7, <1>8, <1>9, <1>10, <1>11 DEF Next

(* The client of every reachable state is of its type, and is sound while  *)
(* the application keeps to the order, after every handler that the        *)
(* io_service runs and every call (carp_connect_client.hpp).               *)
THEOREM ClientSound == Spec => []IInv
<1>1. Init => IInv
  BY InitSound
<1>2. IInv /\ [Next]_vars => IInv'
  BY StepSound
<1>3. QED
  BY <1>1, <1>2, PTL DEF Spec

(* Messages are handed over once each and in the order they were sent in,  *)
(* and a body is read into the memory that HandleReadHead made for it.     *)
THEOREM MessagesInOrder == Spec => []FramesInOrder
<1>1. IInv => FramesInOrder
  <2>1. SUFFICES ASSUME IInv, client.orderly PROVE FramesInOrder
    BY DEF FramesInOrder
  <2>2. client \in ClientType /\ Kept(client)
    BY <2>1 DEF IInv, Sound, Good
  <2>3. client.got = [i \in 1..Len(client.got) |-> i]
    <3> DEFINE got == client.got
    <3>1. got \in Seq(Nat) /\ \A i \in DOMAIN got : got[i] = i
      BY <2>2, Fields DEF Kept, Counted
    <3> HIDE DEF got
    <3>2. got = [i \in 1..Len(got) |-> got[i]] /\ DOMAIN got = 1..Len(got)
      BY <3>1
    <3>3. got = [i \in 1..Len(got) |-> i]
      BY <3>1, <3>2
    <3>4. QED
      BY <3>3 DEF got
  <2>4. \A i \in DOMAIN client.reads :
           client.reads[i].kind = "body" => client.reads[i].item[2] = client.m_memory
    BY <2>2 DEF Kept, Memory, ReadHolds
  <2>5. \A i \in DOMAIN client.ready :
           client.ready[i].kind = "body" /\ ~client.ready[i].failed =>
             client.ready[i].item[2] = client.m_memory
    BY <2>2 DEF Kept, Memory, EndedHolds, Reads
  <2>6. QED
    BY <2>2, <2>3, <2>4, <2>5 DEF FramesInOrder, Kept
<1>2. QED
  BY <1>1, ClientSound, PTL

(* One handler at most is left of each of the two kinds.                   *)
LEMMA HandlersCounted ==
    ASSUME client \in ClientType, NEW kinds,
           \A i, j \in DOMAIN client.ready :
              client.ready[i].kind \in kinds /\ client.ready[j].kind \in kinds => i = j,
           NEW queue, Len(queue) \in Nat, queue = <<>> <=> Len(queue) = 0,
           Len(queue) <= 1,
           queue # <<>> => \A i \in DOMAIN client.ready : client.ready[i].kind \notin kinds
    PROVE  Outstanding(queue, kinds) =
             IF \/ queue # <<>>
                \/ \E i \in DOMAIN client.ready : client.ready[i].kind \in kinds
               THEN 1 ELSE 0
<1> DEFINE I == {i \in DOMAIN client.ready : client.ready[i].kind \in kinds}
           l == Len(queue)
<1>1. Outstanding(queue, kinds) = l + Cardinality(I)
  BY DEF Outstanding
<1>2. Cardinality({}) = 0
  BY FS_EmptySet
<1>3. \A i : Cardinality({i}) = 1
  BY FS_Singleton
<1>4. CASE queue # <<>>
  <2>1. I = {}
    BY <1>4
  <2>2. l = 1
    <3>1. l \in Nat /\ l <= 1 /\ l # 0
      BY <1>4
    <3> HIDE DEF l
    <3>2. QED
      BY <3>1
  <2> HIDE DEF I, l
  <2>3. l + Cardinality(I) = 1
    BY <1>2, <2>1, <2>2
  <2>4. QED
    BY <1>1, <1>4, <2>3
<1>5. CASE queue = <<>> /\ I = {}
  <2>1. l = 0 /\ ~\E i \in DOMAIN client.ready : client.ready[i].kind \in kinds
    BY <1>5
  <2> HIDE DEF l, I
  <2>2. QED
    BY <1>1, <1>2, <1>5, <2>1
<1>6. CASE queue = <<>> /\ I # {}
  <2>1. PICK i \in DOMAIN client.ready : client.ready[i].kind \in kinds
    BY <1>6
  <2>2. I = {i} /\ l = 0
    BY <1>6, <2>1
  <2> HIDE DEF l, I
  <2>3. Cardinality(I) = 1
    BY <1>3, <2>2
  <2>4. l + Cardinality(I) = 1
    BY <2>2, <2>3
  <2>5. QED
    BY <1>1, <2>1, <2>4
<1>7. QED
  BY <1>4, <1>5, <1>6

(* While the client is connected it has one read on its way, and one       *)
(* pocket exactly when m_executing says so; what waits behind it was       *)
(* submitted for this connection.  So it is when it connected with aborted *)
(* operations of its earlier sockets still queued (Opening): the handlers  *)
(* of those run before that of its own connect, or close the client.       *)
THEOREM OperationsAlternate == Spec => []OneOperationEach
<1>1. IInv => OneOperationEach
  <2>1. SUFFICES ASSUME IInv, client.orderly, client.m_is_connected
                 PROVE  OneOperationEach
    BY DEF OneOperationEach
  <2>2. client \in ClientType /\ Kept(client) /\ Open(client) /\ ~client.in_message
    BY <2>1 DEF IInv, Sound, Good, Phase
  <2>3. Solo(client)
    BY <2>2 DEF Open
  <2>4. Reading(client) /\ OwnPockets(client) /\ Pocketed(client)
    BY <2>2 DEF Open, Live
  <2>5. \A i \in DOMAIN client.ready :
           client.ready[i].kind \in Reads <=> client.ready[i].kind \notin Output
    <3>1. \A i \in DOMAIN client.ready : client.ready[i].kind \in Reads \cup Output
      BY <2>2, QueueTypes
    <3>2. QED
      BY <3>1, Kinds
  <2>6. /\ Len(client.reads) \in Nat /\ Len(client.output) \in Nat
        /\ client.reads = <<>> <=> Len(client.reads) = 0
        /\ client.output = <<>> <=> Len(client.output) = 0
    BY <2>2, QueueTypes
  <2>7. Outstanding(client.reads, Reads) = IF Reading(client) THEN 1 ELSE 0
    <3>1. \A i, j \in DOMAIN client.ready :
             client.ready[i].kind \in Reads /\ client.ready[j].kind \in Reads => i = j
      BY <2>3 DEF Solo
    <3>2. /\ Len(client.reads) <= 1
          /\ client.reads # <<>> =>
               \A i \in DOMAIN client.ready : client.ready[i].kind \notin Reads
      BY <2>3, <2>5 DEF Solo
    <3>3. QED
      BY <2>2, <2>6, <3>1, <3>2, HandlersCounted DEF Reading
  <2>8. Outstanding(client.output, Output) = IF Writing(client) THEN 1 ELSE 0
    <3>1. \A i, j \in DOMAIN client.ready :
             client.ready[i].kind \in Output /\ client.ready[j].kind \in Output => i = j
      BY <2>3, <2>5 DEF Solo
    <3>2. /\ Len(client.output) <= 1
          /\ client.output # <<>> =>
               \A i \in DOMAIN client.ready : client.ready[i].kind \notin Output
      BY <2>3, <2>5 DEF Solo
    <3>3. QED
      BY <2>2, <2>6, <3>1, <3>2, HandlersCounted DEF Writing
  <2>9. \A i \in DOMAIN client.m_pocket_list : client.m_pocket_list[i][2] = client.socket
    <3>1. ASSUME NEW i \in DOMAIN client.m_pocket_list
          PROVE  client.m_pocket_list[i][2] = client.socket
      <4>1. client.m_pocket_list[i] = <<"pocket", client.socket, FALSE>>
        BY <2>4 DEF OwnPockets, OfSocket
      <4>2. QED
        BY <4>1
    <3>2. QED
      BY <3>1
  <2>10. \A i \in DOMAIN client.output :
            client.output[i] = Operation("write", <<"pocket", client.socket, FALSE>>)
    <3>1. ASSUME NEW i \in DOMAIN client.output
          PROVE  client.output[i] = Operation("write", <<"pocket", client.socket, FALSE>>)
      <4> DEFINE op == client.output[i]
                 item == <<"pocket", client.socket, FALSE>>
      <4>1. op.kind = "write" /\ op.item = item
        BY <2>4, <3>1 DEF OwnPockets, OfSocket
      <4>2. op \in OutputOperation
        BY <2>2, <3>1, QueueTypes, ElementOfSeq
      <4> HIDE DEF op, item
      <4>3. op = Operation("write", item)
        BY <4>1, <4>2 DEF OutputOperation, Operation
      <4>4. QED
        BY <4>3 DEF op, item
    <3>2. QED
      BY <3>1
  <2>11. /\ Outstanding(client.reads, Reads) = 1
         /\ Outstanding(client.output, Output) = IF client.m_executing THEN 1 ELSE 0
    BY <2>4, <2>7, <2>8 DEF Pocketed
  <2>12. client.m_pocket_list # <<>> => client.m_executing
    BY <2>4 DEF Pocketed
  <2>13. QED
    BY <2>9, <2>10, <2>11, <2>12 DEF OneOperationEach
<1>2. QED
  BY <1>1, ClientSound, PTL

(* m_disconnected_func is not called twice for one connection, which       *)
(* carp_connect_client.hpp:157 says and which holds of an application that *)
(* keeps to the order and connects when no handler is left to run.         *)
THEOREM LossOnce == Spec => []OrderlyLossReportedOnce
<1>1. IInv => OrderlyLossReportedOnce
  BY DEF IInv, Sound, Good, Kept, Reported, OrderlyLossReportedOnce, LossReportedOnce
<1>2. QED
  BY <1>1, ClientSound, PTL
=============================================================================
