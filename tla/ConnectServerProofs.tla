------------------------ MODULE ConnectServerProofs ------------------------
(***************************************************************************)
(* What the connect server keeps to, for any number of clients, of calls   *)
(* of the application, of messages of any sizes and of frames they are cut *)
(* into: a receiver has one read and one write under way at most, and what *)
(* it has read so far is a part of the message it is to hand over next.    *)
(***************************************************************************)
EXTENDS ConnectServer, SequenceFacts, FiniteSetTheorems, WellFoundedInduction

(* The types.                                                              *)
ReadSteps == {"first", "head", "body", "handshake", "frame", "length", "mark", "data"}

Units == Nat \X Nat \X Nat

ReadOps == [kind : {"read"}, of : Nat, step : ReadSteps]
WriteOps == [kind : {"write"}, of : Nat, step : {"answer", "pocket"}]
AcceptOps == [kind : {"accept"}, of : Nat, step : Nat]
HeartbeatOps == [kind : {"heartbeat"}, of : Nat, step : {0}]
MessageOps == [kind : {"message"}, of : Nat, step : Seq(Units)]

PendingOps == ReadOps \cup WriteOps \cup AcceptOps \cup HeartbeatOps

Handlers == [op : PendingOps \cup MessageOps, failed : BOOLEAN]

Peers == [websocket : BOOLEAN, gone : BOOLEAN, taken : Nat]

ReceiverType ==
    [m_message_head : Seq(Units), m_head_size : Nat,
     m_memory : Seq(Units), m_body_size : Nat,
     offset : Nat, complete : Seq(Seq(Units)), refused : BOOLEAN,
     m_socket : BOOLEAN, m_is_websocket : BOOLEAN, m_pocket_list : Nat,
     m_executing : BOOLEAN, frame : {"none", "message", "control"} \X Nat,
     peer : Peers, got : Seq(Seq(Units)), told : Nat, closed : BOOLEAN]

ServerType ==
    [limit : Limits, m_acceptor : Nat, m_heartbeat_timer : Nat,
     m_outer_set : SUBSET Nat, receiver : Seq(ReceiverType),
     pending : Seq(PendingOps), ready : Seq(Handlers),
     starts : Nat, closes : Nat, sends : Nat, errors : Nat,
     early : BOOLEAN, fate : {"running", "crashed"}]

(* What an operation or a connection refers to is there.                   *)
OfReceiver(s, op) == op.kind \in {"read", "write", "message"} => op.of \in DOMAIN s.receiver

Refers(s) ==
    /\ s.m_outer_set \subseteq DOMAIN s.receiver
    /\ \A i \in DOMAIN s.pending : OfReceiver(s, s.pending[i])
    /\ \A i \in DOMAIN s.ready : OfReceiver(s, s.ready[i].op)

-----------------------------------------------------------------------------
(* Operations of a kind that wait, or whose handlers do.                   *)
InPending(s, Q) == \E i \in DOMAIN s.pending : s.pending[i] \in Q
InReady(s, Q) == \E i \in DOMAIN s.ready : s.ready[i].op \in Q

Has(s, Q) == InPending(s, Q) \/ InReady(s, Q)

Single(s, Q) ==
    /\ \A i, j \in DOMAIN s.pending : s.pending[i] \in Q /\ s.pending[j] \in Q => i = j
    /\ \A i, j \in DOMAIN s.ready : s.ready[i].op \in Q /\ s.ready[j].op \in Q => i = j
    /\ ~(InPending(s, Q) /\ InReady(s, Q))

(* A receiver is read from, or answers the handshake before it is again;   *)
(* and pockets are written.                                                *)
Reads(n) == {op \in ReadOps \cup WriteOps : op.of = n /\ (op.kind = "write" => op.step = "answer")}

Writes(n) == {op \in WriteOps : op.of = n /\ op.step = "pocket"}

Bit(holds) == IF holds THEN 1 ELSE 0

Load(s, n) == Bit(Has(s, Reads(n))) + Bit(Has(s, Writes(n)))

Lanes(s, n) ==
    LET r == s.receiver[n]
    IN  /\ Single(s, Reads(n)) /\ Single(s, Writes(n))
        /\ r.told > 0 => ~r.m_socket
        /\ r.m_socket /\ Has(s, Writes(n)) => r.m_executing
        /\ r.told + Load(s, n) <= 2

-----------------------------------------------------------------------------
(* Where the messages of the peer end in its stream.                       *)
Ends(sizes) ==
    LET end[k \in 0..Len(sizes)] ==
            IF k = 0 THEN 0 ELSE end[k - 1] + HeadSize + sizes[k]
    IN  end

Fresh(r) == r.m_head_size = 0 /\ r.m_body_size = 0 /\ r.m_memory = <<>>

(* The reader holds a part of the message after the m-th.                  *)
HeadOf(m, sizes) == [place \in 1..HeadSize |-> Unit(m, place, sizes[m])]

InHead(r, m, sizes) ==
    /\ m < Len(sizes) /\ r.m_head_size < HeadSize
    /\ r.m_body_size = 0 /\ r.m_memory = <<>>
    /\ Len(r.m_message_head) = r.m_head_size
    /\ \A place \in 1..r.m_head_size :
          r.m_message_head[place] = Unit(m + 1, place, sizes[m + 1])

InBody(r, m, sizes) ==
    /\ m < Len(sizes) /\ r.m_head_size = HeadSize /\ r.m_body_size < sizes[m + 1]
    /\ r.m_message_head = HeadOf(m + 1, sizes)
    /\ Len(r.m_memory) = r.m_body_size
    /\ \A place \in 1..r.m_body_size :
          r.m_memory[place] = Unit(m + 1, HeadSize + place, sizes[m + 1])

Partial(r, m, sizes) == Fresh(r) \/ InHead(r, m, sizes) \/ InBody(r, m, sizes)

Position(r, m, sizes) == Ends(sizes)[m] + r.m_head_size + r.m_body_size

(* What the reader holds when the operation is begun.                      *)
ReadAt(r, m, sizes, op) ==
    /\ r.complete = <<>> /\ ~r.refused
    /\ op.step \in {"first", "head"} => Fresh(r) /\ r.peer.taken = Ends(sizes)[m]
    /\ op.step \in {"head", "body"} => ~r.peer.websocket
    /\ op.step = "body" =>
          /\ Fresh(r) /\ m < Len(sizes) /\ r.m_message_head = HeadOf(m + 1, sizes)
          /\ r.peer.taken = Ends(sizes)[m] + HeadSize
    /\ op.step \notin {"first", "head", "body"} =>
          \/ /\ r.peer.websocket /\ Partial(r, m, sizes)
             /\ r.peer.taken = Position(r, m, sizes)
          \/ op.step = "handshake" /\ ~r.peer.websocket
    /\ op.step \in {"length", "mark", "data"} /\ r.frame[1] # "control" =>
          r.peer.taken + r.frame[2] <= Ends(sizes)[Len(sizes)]

(* A message has begun to arrive when a read of its head has ended.        *)
Came(r, sizes) == r.peer.websocket \/ r.peer.taken < Ends(sizes)[Len(sizes)]

ReadsAt(s, n, m) ==
    LET r == s.receiver[n]
        sizes == s.limit.sizes
    IN  /\ \A i \in DOMAIN s.pending :
              s.pending[i] \in Reads(n) => ReadAt(r, m, sizes, s.pending[i])
        /\ \A i \in DOMAIN s.ready :
              s.ready[i].op \in Reads(n) /\ ~s.ready[i].failed =>
                ReadAt(r, m, sizes, s.ready[i].op) /\ Came(r, sizes)

(* The messages up to the m-th have been handed over or posted, in order.  *)
IsMessage(h, n) == h.op.kind = "message" /\ h.op.of = n

Number(message) == message[1][1]

Counted(s, n, m) ==
    LET got == s.receiver[n].got
        sizes == s.limit.sizes
    IN  /\ m \in 0..Len(sizes) /\ Len(got) <= m
        /\ \A k \in DOMAIN got : got[k] = Message(k, sizes[k])
        /\ \A i \in DOMAIN s.ready :
              IsMessage(s.ready[i], n) =>
                \E k \in (Len(got) + 1)..m : s.ready[i].op.step = Message(k, sizes[k])
        /\ \A i, j \in DOMAIN s.ready :
              IsMessage(s.ready[i], n) /\ IsMessage(s.ready[j], n) /\ i < j =>
                Number(s.ready[i].op.step) < Number(s.ready[j].op.step)
        /\ \A k \in (Len(got) + 1)..m :
              \E i \in DOMAIN s.ready :
                IsMessage(s.ready[i], n) /\ s.ready[i].op.step = Message(k, sizes[k])

Ordered(s, n) == \E m \in 0..Len(s.limit.sizes) : Counted(s, n, m) /\ ReadsAt(s, n, m)

-----------------------------------------------------------------------------
(* An accept of a server that is open is under way, and the receivers but  *)
(* those of N are read from.                                               *)
Accepts == AcceptOps

Accepting(s) == s.fate = "running" /\ s.m_acceptor # 0 => Has(s, Accepts)

Hearing(s, N) ==
    s.fate = "running" =>
      \A n \in s.m_outer_set \ N : s.receiver[n].closed \/ Has(s, Reads(n))

Open(s) == \A n \in s.m_outer_set : s.receiver[n].closed \/ s.receiver[n].m_socket

(* What holds within a handler as well.                                    *)
Sound(s) ==
    /\ s \in ServerType /\ Refers(s)
    /\ \A n \in DOMAIN s.receiver : Lanes(s, n) /\ Ordered(s, n)

Good(s) == Sound(s) /\ Open(s)

IInv == Good(server) /\ Hearing(server, {}) /\ Accepting(server)

-----------------------------------------------------------------------------
(* What Those makes of the first k elements is made step by step.          *)
ThoseStep(s, I, k, before, after) ==
    after = IF k \in I THEN Append(before, s[k]) ELSE before

LEMMA ThoseSteps ==
    ASSUME NEW S, NEW s \in Seq(S), NEW I
    PROVE  \E f \in [0..Len(s) -> Seq(S)] :
              /\ f[0] = <<>> /\ Those(s, I) = f[Len(s)]
              /\ \A k \in 1..Len(s) : ThoseStep(s, I, k, f[k - 1], f[k])
<1> DEFINE n == Len(s)
           After(k, v) == IF k \in I THEN Append(v, s[k]) ELSE v
           step == [k \in 1..n |-> [v \in Seq(S) |-> After(k, v)]]
           Is(g) == g = [k \in 0..n |-> IF k = 0 THEN <<>> ELSE After(k, g[k - 1])]
<1>1. n \in Nat /\ <<>> \in Seq(S)
  OBVIOUS
<1>2. \A k \in 1..n, v \in Seq(S) : After(k, v) \in Seq(S)
  <2>1. TAKE k \in 1..n, v \in Seq(S)
  <2>2. s[k] \in S
    OBVIOUS
  <2>3. QED
    BY <2>2, AppendIn
<1>3. Those(s, I) = (CHOOSE g : Is(g))[n]
  BY DEF Those
<1>4. \A k, v, w : ThoseStep(s, I, k, v, w) <=> w = After(k, v)
  BY DEF ThoseStep
<1> HIDE DEF After
<1> DEFINE V == Seq(S)
<1>5. IsStep(step, n, V)
  BY <1>2 DEF IsStep
<1>6. \A k \in 1..n, v \in Seq(S) : step[k][v] = After(k, v)
  OBVIOUS
<1> HIDE DEF step
<1>7. PICK f \in [0..n -> Seq(S)] :
          f[0] = <<>> /\ \A k \in 1..n : f[k] = step[k][f[k - 1]]
  <2>1. PICK base : base = <<>>
    OBVIOUS
  <2>2. base \in V
    BY <1>1, <2>1
  <2> HIDE DEF V, n
  <2>3. \E f : MadeBy(f, step, base, n, V)
    BY <1>1, <1>5, <2>2, StepsExist
  <2>4. QED
    BY <2>1, <2>3 DEF V, n, MadeBy
<1>8. \A k \in 1..n : f[k] = After(k, f[k - 1])
  <2>1. TAKE k \in 1..n
  <2>2. f[k - 1] \in Seq(S)
    BY <1>1, <1>7
  <2>3. QED
    BY <1>6, <1>7, <2>2
<1>9. Is(f)
  <2>1. \A k \in 0..n : k = 0 \/ k \in 1..n
    BY <1>1
  <2>2. \A k \in 0..n : f[k] = IF k = 0 THEN <<>> ELSE After(k, f[k - 1])
    BY <1>7, <1>8, <2>1
  <2>3. QED
    BY <2>2
<1> DEFINE h == CHOOSE g : Is(g)
<1>10. Is(h)
  BY <1>9
<1> HIDE DEF h
<1> DEFINE T == {k \in Nat : k <= n => h[k] = f[k]}
<1>11. 0 \in T
  BY <1>1, <1>7, <1>10
<1>12. ASSUME NEW k \in Nat, k \in T PROVE k + 1 \in T
  <2>1. SUFFICES ASSUME k + 1 <= n PROVE h[k + 1] = f[k + 1]
    OBVIOUS
  <2>2. h[k] = f[k] /\ k + 1 \in 1..n /\ k + 1 \in 0..n /\ (k + 1) - 1 = k
    BY <1>1, <1>12, <2>1
  <2>3. h[k + 1] = After(k + 1, h[k])
    BY <1>10, <2>2
  <2>4. QED
    BY <1>8, <2>2, <2>3
<1>13. n \in T
  BY <1>1, <1>11, <1>12, NatInductionOverSet
<1>14. Those(s, I) = f[n]
  BY <1>1, <1>3, <1>13 DEF h
<1>15. QED
  BY <1>4, <1>7, <1>8, <1>14

(* m gives the place in s of each element of t, which has those of s that  *)
(* are at the places in I, in their order.                                 *)
Picks(m, t, s, I) ==
    /\ m \in [1..Len(t) -> 1..Len(s)]
    /\ \A j \in 1..Len(t) : m[j] \in I /\ t[j] = s[m[j]]
    /\ \A i, j \in 1..Len(t) : i < j => m[i] < m[j]
    /\ \A i \in 1..Len(s) : i \in I => \E j \in 1..Len(t) : m[j] = i

LEMMA ThoseIs ==
    ASSUME NEW S, NEW s \in Seq(S), NEW I
    PROVE  Those(s, I) \in Seq(S) /\ \E m : Picks(m, Those(s, I), s, I)
<1>1. PICK f \in [0..Len(s) -> Seq(S)] :
              /\ f[0] = <<>> /\ Those(s, I) = f[Len(s)]
              /\ \A k \in 1..Len(s) : ThoseStep(s, I, k, f[k - 1], f[k])
  BY ThoseSteps
<1> DEFINE n == Len(s)
           Enumerates(m, t, k) ==
               /\ \A j \in 1..Len(t) : m[j] \in I /\ t[j] = s[m[j]]
               /\ \A i, j \in 1..Len(t) : i < j => m[i] < m[j]
               /\ \A i \in 1..k : i \in I => \E j \in 1..Len(t) : m[j] = i
           Done(k) == \E m \in [1..Len(f[k]) -> 1..k] : Enumerates(m, f[k], k)
           T == {k \in Nat : k <= n => Done(k)}
<1>2. n \in Nat /\ \A k \in 1..n : s[k] \in S
  OBVIOUS
<1>3. 0 \in T
  <2> DEFINE m == [j \in 1..0 |-> 1]
  <2>1. Len(f[0]) = 0 /\ 1..0 = {}
    BY <1>1
  <2>2. m \in [1..Len(f[0]) -> 1..0]
    BY <2>1
  <2>3. Enumerates(m, f[0], 0)
    BY <2>1
  <2>4. QED
    BY <2>2, <2>3
<1>4. ASSUME NEW k \in Nat, k \in T PROVE k + 1 \in T
  <2>1. SUFFICES ASSUME k + 1 <= n PROVE Done(k + 1)
    OBVIOUS
  <2>2. PICK m \in [1..Len(f[k]) -> 1..k] : Enumerates(m, f[k], k)
    <3>1. PICK l \in Nat : l = Len(s)
      BY <1>2
    <3>2. k + 1 <= l
      BY <2>1, <3>1
    <3>3. k <= l
      BY <3>2
    <3> HIDE DEF Done
    <3>4. Done(k)
      BY <1>4, <3>1, <3>3
    <3>5. QED
      BY <3>4 DEF Done
  <2>3. k + 1 \in 1..n /\ (k + 1) - 1 = k /\ k \in 0..n
    <3>1. PICK l \in Nat : l = Len(s)
      BY <1>2
    <3>2. k + 1 <= l
      BY <2>1, <3>1
    <3>3. k + 1 \in 1..l /\ (k + 1) - 1 = k /\ k \in 0..l
      BY <3>2
    <3>4. QED
      BY <3>1, <3>3
  <2>4. f[k + 1] = IF k + 1 \in I THEN Append(f[k], s[k + 1]) ELSE f[k]
    BY <1>1, <2>3 DEF ThoseStep
  <2> DEFINE t == f[k]
             l == Len(t)
  <2>5. t \in Seq(S) /\ l \in Nat /\ s[k + 1] \in S
    BY <1>1, <1>2, <2>3
  <2> HIDE DEF t
  <2>6. CASE k + 1 \in I
    <3> DEFINE u == f[k + 1]
               q == [j \in 1..(l + 1) |-> IF j = l + 1 THEN k + 1 ELSE m[j]]
    <3>1. /\ Len(u) = l + 1 /\ u[l + 1] = s[k + 1]
          /\ \A j \in 1..l : u[j] = t[j]
      <4>1. u = Append(t, s[k + 1])
        BY <2>4, <2>6 DEF t
      <4>2. QED
        BY <4>1, <2>5, AppendProperties
    <3> HIDE DEF u
    <3>2. \A j \in 1..l : m[j] \in 1..k
      BY <2>2 DEF t
    <3>3. q \in [1..Len(u) -> 1..(k + 1)]
      <4>1. k + 1 \in 1..(k + 1) /\ \A x \in 1..k : x \in 1..(k + 1)
        OBVIOUS
      <4>2. \A j \in 1..(l + 1) : j = l + 1 \/ j \in 1..l
        BY <2>5
      <4>3. q \in [1..(l + 1) -> 1..(k + 1)]
        BY <3>2, <4>1, <4>2
      <4>4. QED
        BY <3>1, <4>3
    <3>4. Enumerates(m, t, k)
      BY <2>2 DEF t
    <3>5. \A j \in 1..Len(u) : q[j] \in I /\ u[j] = s[q[j]]
      BY <3>1, <3>4, <2>5, <2>6
    <3>6. \A i, j \in 1..Len(u) : i < j => q[i] < q[j]
      <4>1. TAKE i, j \in 1..Len(u)
      <4>2. HAVE i < j
      <4>3. i \in 1..l /\ q[i] = m[i] /\ m[i] \in 1..k
        BY <3>1, <3>2, <2>5, <4>2
      <4>4. CASE j = l + 1
        BY <4>3, <4>4, <3>1, <2>5
      <4>5. CASE j # l + 1
        <5>1. j \in 1..(l + 1)
          BY <3>1
        <5>2. j \in 1..l
          BY <4>5, <5>1, <2>5
        <5>3. q[j] = m[j]
          BY <4>5, <5>1
        <5>4. QED
          BY <4>2, <4>3, <5>2, <5>3, <3>4
      <4>6. QED
        BY <4>4, <4>5
    <3>7. \A i \in 1..(k + 1) : i \in I => \E j \in 1..Len(u) : q[j] = i
      <4>1. TAKE i \in 1..(k + 1)
      <4>2. CASE i = k + 1
        <5>1. l + 1 \in 1..Len(u) /\ q[l + 1] = i
          BY <3>1, <2>5, <4>2
        <5>2. QED
          BY <5>1
      <4>3. CASE i # k + 1
        <5>1. i \in 1..k
          BY <4>3
        <5>2. ASSUME i \in I PROVE \E j \in 1..Len(u) : q[j] = i
          <6>1. PICK j \in 1..l : m[j] = i
            BY <5>1, <5>2, <3>4
          <6>2. j \in 1..Len(u) /\ q[j] = i
            BY <6>1, <3>1, <2>5
          <6>3. QED
            BY <6>2
        <5>3. QED
          BY <5>2
      <4>4. QED
        BY <4>2, <4>3
    <3>8. QED
      BY <3>3, <3>5, <3>6, <3>7 DEF u
  <2>7. CASE k + 1 \notin I
    <3>1. f[k + 1] = t
      BY <2>4, <2>7 DEF t
    <3>2. m \in [1..Len(t) -> 1..(k + 1)]
      BY <2>2, <2>5 DEF t
    <3>3. Enumerates(m, t, k + 1)
      BY <2>2, <2>7 DEF t
    <3>4. QED
      BY <3>1, <3>2, <3>3
  <2>8. QED
    BY <2>6, <2>7
<1>5. n \in T
  BY <1>2, <1>3, <1>4, NatInductionOverSet
<1>6. Done(n)
  BY <1>2, <1>5
<1>7. f[n] \in Seq(S)
  BY <1>1, <1>2
<1> DEFINE t == Those(s, I)
<1>8. t = f[n]
  BY <1>1
<1> HIDE DEF t
<1>9. PICK m \in [1..Len(t) -> 1..n] : Enumerates(m, t, n)
  BY <1>6, <1>8
<1>10. t \in Seq(S)
  BY <1>7, <1>8
<1>11. QED
  BY <1>9, <1>10 DEF t, Picks

-----------------------------------------------------------------------------
(* What the operations on the queues do.                                   *)
SameButQueues(s, t) ==
    /\ t.limit = s.limit /\ t.m_acceptor = s.m_acceptor
    /\ t.m_heartbeat_timer = s.m_heartbeat_timer /\ t.m_outer_set = s.m_outer_set
    /\ t.receiver = s.receiver /\ t.starts = s.starts /\ t.closes = s.closes
    /\ t.sends = s.sends /\ t.errors = s.errors /\ t.early = s.early /\ t.fate = s.fate

LEMMA Fields ==
    ASSUME NEW s \in ServerType
    PROVE  /\ s.limit \in Limits /\ s.m_acceptor \in Nat /\ s.m_heartbeat_timer \in Nat
           /\ s.m_outer_set \in SUBSET Nat /\ s.receiver \in Seq(ReceiverType)
           /\ s.pending \in Seq(PendingOps) /\ s.ready \in Seq(Handlers)
           /\ s.starts \in Nat /\ s.closes \in Nat /\ s.sends \in Nat /\ s.errors \in Nat
           /\ s.early \in BOOLEAN /\ s.fate \in {"running", "crashed"}
           /\ Len(s.receiver) \in Nat /\ DOMAIN s.receiver = 1..Len(s.receiver)
           /\ Len(s.pending) \in Nat /\ DOMAIN s.pending = 1..Len(s.pending)
           /\ Len(s.ready) \in Nat /\ DOMAIN s.ready = 1..Len(s.ready)
<1>1. /\ s.limit \in Limits /\ s.m_acceptor \in Nat /\ s.m_heartbeat_timer \in Nat
      /\ s.m_outer_set \in SUBSET Nat /\ s.receiver \in Seq(ReceiverType)
      /\ s.pending \in Seq(PendingOps) /\ s.ready \in Seq(Handlers)
      /\ s.starts \in Nat /\ s.closes \in Nat /\ s.sends \in Nat /\ s.errors \in Nat
      /\ s.early \in BOOLEAN /\ s.fate \in {"running", "crashed"}
  BY DEF ServerType
<1>2. QED
  BY <1>1, LenProperties

(* What is in the queues.                                                  *)
LEMMA Elements ==
    ASSUME NEW s \in ServerType
    PROVE  /\ \A i \in DOMAIN s.receiver : s.receiver[i] \in ReceiverType
           /\ \A i \in DOMAIN s.pending : s.pending[i] \in PendingOps
           /\ \A i \in DOMAIN s.ready :
                 /\ s.ready[i] \in Handlers /\ s.ready[i].failed \in BOOLEAN
                 /\ s.ready[i].op \in PendingOps \cup MessageOps
<1>1. \A i \in DOMAIN s.ready : s.ready[i] \in Handlers
  BY Fields, ElementOfSeq
<1>2. QED
  BY <1>1, Fields, ElementOfSeq DEF Handlers

(* q is p, and more.                                                       *)
Longer(p, q) == Len(p) <= Len(q) /\ \A i \in 1..Len(p) : q[i] = p[i]

LongerBy(p, q, e) == Longer(p, q) /\ Len(q) = Len(p) + 1 /\ q[Len(p) + 1] = e

LEMMA BeginIs ==
    ASSUME NEW s \in ServerType, NEW op \in PendingOps
    PROVE  LET t == Begin(s, op)
           IN  /\ t \in ServerType /\ SameButQueues(s, t) /\ t.ready = s.ready
               /\ LongerBy(s.pending, t.pending, op)
<1> DEFINE p == Append(s.pending, op)
           t == Begin(s, op)
<1>1. p \in Seq(PendingOps) /\ LongerBy(s.pending, p, op)
  <2>1. s.pending \in Seq(PendingOps) /\ Len(s.pending) \in Nat
    BY Fields
  <2>2. /\ p \in Seq(PendingOps) /\ Len(p) = Len(s.pending) + 1
        /\ \A i \in 1..Len(s.pending) : p[i] = s.pending[i]
        /\ p[Len(s.pending) + 1] = op
    BY <2>1, AppendProperties
  <2> HIDE DEF p
  <2>3. QED
    BY <2>1, <2>2 DEF LongerBy, Longer
<1>2. t = [s EXCEPT !.pending = p]
  BY DEF Begin
<1> HIDE DEF p
<1>3. t \in ServerType
  BY <1>1, <1>2 DEF ServerType
<1>4. SameButQueues(s, t) /\ t.ready = s.ready /\ t.pending = p
  BY <1>2 DEF SameButQueues, ServerType
<1> HIDE DEF t
<1>5. QED
  BY <1>1, <1>3, <1>4 DEF t

(* Those at the places in `hit' have been moved from the operations to the *)
(* handlers: keep and move tell from where.                                *)
Moves(s, t, hit, failed, keep, move) ==
    /\ Longer(s.ready, t.ready)
    /\ \A i \in DOMAIN t.pending :
          /\ keep[i] \in DOMAIN s.pending /\ keep[i] \notin hit
          /\ t.pending[i] = s.pending[keep[i]]
    /\ \A i \in (Len(s.ready) + 1)..Len(t.ready) :
          /\ move[i] \in DOMAIN s.pending /\ move[i] \in hit
          /\ t.ready[i] = Ended(s.pending[move[i]], failed)
    /\ \A i, j \in DOMAIN t.pending : keep[i] = keep[j] => i = j
    /\ \A i, j \in (Len(s.ready) + 1)..Len(t.ready) : move[i] = move[j] => i = j
    /\ \A k \in DOMAIN s.pending :
          IF k \in hit THEN \E i \in (Len(s.ready) + 1)..Len(t.ready) : move[i] = k
                       ELSE \E i \in DOMAIN t.pending : keep[i] = k

Moved(s, t, hit, failed) == \E keep, move : Moves(s, t, hit, failed, keep, move)

(* Nothing is lost or doubled by it.                                       *)
LEMMA MovedHas ==
    ASSUME NEW s \in ServerType, NEW t \in ServerType, NEW hit, NEW failed,
           Moved(s, t, hit, failed), NEW Q
    PROVE  Has(t, Q) <=> Has(s, Q)
<1>1. PICK keep, move : Moves(s, t, hit, failed, keep, move)
  BY DEF Moved
<1>2. /\ Len(s.ready) \in Nat /\ DOMAIN s.ready = 1..Len(s.ready)
      /\ Len(t.ready) \in Nat /\ DOMAIN t.ready = 1..Len(t.ready)
  BY Fields
<1>3. \A op : Ended(op, failed).op = op
  BY DEF Ended
<1>4. Len(s.ready) <= Len(t.ready) /\ \A i \in 1..Len(s.ready) : t.ready[i] = s.ready[i]
  BY <1>1 DEF Moves, Longer
<1>5. ASSUME Has(t, Q) PROVE Has(s, Q)
  <2>1. ASSUME NEW i \in DOMAIN t.pending, t.pending[i] \in Q PROVE InPending(s, Q)
    BY <1>1, <2>1 DEF Moves, InPending
  <2>2. ASSUME NEW i \in DOMAIN t.ready, t.ready[i].op \in Q PROVE Has(s, Q)
    <3>1. CASE i <= Len(s.ready)
      BY <1>2, <1>4, <2>2, <3>1 DEF Has, InReady
    <3>2. CASE ~(i <= Len(s.ready))
      <4>1. i \in (Len(s.ready) + 1)..Len(t.ready)
        BY <1>2, <3>2
      <4>2. move[i] \in DOMAIN s.pending /\ t.ready[i] = Ended(s.pending[move[i]], failed)
        BY <1>1, <4>1 DEF Moves
      <4>3. s.pending[move[i]] \in Q
        BY <1>3, <2>2, <4>2
      <4>4. QED
        BY <4>2, <4>3 DEF Has, InPending
    <3>3. QED
      BY <3>1, <3>2
  <2>3. QED
    BY <1>5, <2>1, <2>2 DEF Has, InPending, InReady
<1>6. ASSUME Has(s, Q) PROVE Has(t, Q)
  <2>1. ASSUME NEW k \in DOMAIN s.pending, s.pending[k] \in Q PROVE Has(t, Q)
    <3>1. CASE k \in hit
      <4>1. PICK i \in (Len(s.ready) + 1)..Len(t.ready) : move[i] = k
        BY <1>1, <3>1 DEF Moves
      <4>2. t.ready[i] = Ended(s.pending[k], failed)
        BY <1>1, <4>1 DEF Moves
      <4>3. i \in DOMAIN t.ready /\ t.ready[i].op \in Q
        BY <1>2, <1>3, <2>1, <4>2
      <4>4. QED
        BY <4>3 DEF Has, InReady
    <3>2. CASE k \notin hit
      <4>1. PICK i \in DOMAIN t.pending : keep[i] = k
        BY <1>1, <3>2 DEF Moves
      <4>2. t.pending[i] = s.pending[k]
        BY <1>1, <4>1 DEF Moves
      <4>3. QED
        BY <2>1, <4>2 DEF Has, InPending
    <3>3. QED
      BY <3>1, <3>2
  <2>2. ASSUME NEW i \in DOMAIN s.ready, s.ready[i].op \in Q PROVE Has(t, Q)
    BY <1>2, <1>4, <2>2 DEF Has, InReady
  <2>3. QED
    BY <1>6, <2>1, <2>2 DEF Has, InPending, InReady
<1>7. QED
  BY <1>5, <1>6

LEMMA MovedSingle ==
    ASSUME NEW s \in ServerType, NEW t \in ServerType, NEW hit, NEW failed,
           Moved(s, t, hit, failed), NEW Q, Single(s, Q)
    PROVE  Single(t, Q)
<1>1. PICK keep, move : Moves(s, t, hit, failed, keep, move)
  BY DEF Moved
<1>2. /\ Len(s.ready) \in Nat /\ DOMAIN s.ready = 1..Len(s.ready)
      /\ Len(t.ready) \in Nat /\ DOMAIN t.ready = 1..Len(t.ready)
  BY Fields
<1>3. \A op : Ended(op, failed).op = op
  BY DEF Ended
<1>4. \A i \in 1..Len(s.ready) : t.ready[i] = s.ready[i]
  BY <1>1 DEF Moves, Longer
<1>5. ASSUME NEW i \in DOMAIN t.pending, t.pending[i] \in Q
      PROVE  /\ keep[i] \in DOMAIN s.pending /\ keep[i] \notin hit
             /\ s.pending[keep[i]] \in Q
  BY <1>1, <1>5 DEF Moves
<1>6. ASSUME NEW i \in DOMAIN t.ready, t.ready[i].op \in Q, ~(i <= Len(s.ready))
      PROVE  /\ i \in (Len(s.ready) + 1)..Len(t.ready)
             /\ move[i] \in DOMAIN s.pending /\ move[i] \in hit
             /\ s.pending[move[i]] \in Q
  <2>1. i \in (Len(s.ready) + 1)..Len(t.ready)
    BY <1>2, <1>6
  <2>2. /\ move[i] \in DOMAIN s.pending /\ move[i] \in hit
        /\ t.ready[i] = Ended(s.pending[move[i]], failed)
    BY <1>1, <2>1 DEF Moves
  <2>3. QED
    BY <1>3, <1>6, <2>1, <2>2
<1>7. ASSUME NEW i \in DOMAIN t.ready, t.ready[i].op \in Q, i <= Len(s.ready)
      PROVE  i \in DOMAIN s.ready /\ s.ready[i].op \in Q
  BY <1>2, <1>4, <1>7
<1>8. /\ \A i, j \in DOMAIN s.pending : s.pending[i] \in Q /\ s.pending[j] \in Q => i = j
      /\ \A i, j \in DOMAIN s.ready : s.ready[i].op \in Q /\ s.ready[j].op \in Q => i = j
      /\ ~(InPending(s, Q) /\ InReady(s, Q))
  BY DEF Single
<1>9. ASSUME NEW i \in DOMAIN t.pending, NEW j \in DOMAIN t.pending,
             t.pending[i] \in Q, t.pending[j] \in Q
      PROVE  i = j
  <2>1. keep[i] = keep[j]
    BY <1>5, <1>8, <1>9
  <2>2. QED
    BY <1>1, <2>1 DEF Moves
<1>10. ASSUME NEW i \in DOMAIN t.ready, NEW j \in DOMAIN t.ready,
              t.ready[i].op \in Q, t.ready[j].op \in Q
       PROVE  i = j
  <2>1. CASE i <= Len(s.ready) /\ j <= Len(s.ready)
    BY <1>7, <1>8, <1>10, <2>1
  <2>2. CASE ~(i <= Len(s.ready)) /\ ~(j <= Len(s.ready))
    <3>1. move[i] = move[j]
      BY <1>6, <1>8, <1>10, <2>2
    <3>2. QED
      BY <1>1, <1>6, <1>10, <2>2, <3>1 DEF Moves
  <2>3. CASE i <= Len(s.ready) /\ ~(j <= Len(s.ready))
    BY <1>6, <1>7, <1>8, <1>10, <2>3 DEF InPending, InReady
  <2>4. CASE ~(i <= Len(s.ready)) /\ j <= Len(s.ready)
    BY <1>6, <1>7, <1>8, <1>10, <2>4 DEF InPending, InReady
  <2>5. QED
    BY <2>1, <2>2, <2>3, <2>4
<1>11. ASSUME NEW i \in DOMAIN t.pending, NEW j \in DOMAIN t.ready,
              t.pending[i] \in Q, t.ready[j].op \in Q
       PROVE  FALSE
  <2>1. CASE j <= Len(s.ready)
    BY <1>5, <1>7, <1>8, <1>11, <2>1 DEF InPending, InReady
  <2>2. CASE ~(j <= Len(s.ready))
    <3>1. keep[i] = move[j]
      BY <1>5, <1>6, <1>8, <1>11, <2>2
    <3>2. QED
      BY <1>5, <1>6, <1>11, <2>2, <3>1
  <2>3. QED
    BY <2>1, <2>2
<1>12. QED
  BY <1>9, <1>10, <1>11 DEF Single, InPending, InReady

-----------------------------------------------------------------------------
Hits(s, kind, of) == {i \in DOMAIN s.pending : s.pending[i].kind = kind /\ s.pending[i].of = of}

LEMMA AbortIs ==
    ASSUME NEW s \in ServerType, NEW kind, NEW of
    PROVE  LET t == Abort(s, kind, of)
           IN  /\ t \in ServerType /\ SameButQueues(s, t)
               /\ Moved(s, t, Hits(s, kind, of), TRUE)
<1> DEFINE hit == Hits(s, kind, of)
           rest == DOMAIN s.pending \ hit
           aborted == Those(s.pending, hit)
           p == Those(s.pending, rest)
           ended == [i \in DOMAIN aborted |-> Ended(aborted[i], TRUE)]
           r == s.ready \o ended
           t == Abort(s, kind, of)
<1>1. t = [s EXCEPT !.pending = p, !.ready = r]
  BY DEF Abort, Hits
<1>2. /\ s.pending \in Seq(PendingOps) /\ s.ready \in Seq(Handlers)
      /\ Len(s.pending) \in Nat /\ DOMAIN s.pending = 1..Len(s.pending)
      /\ Len(s.ready) \in Nat /\ DOMAIN s.ready = 1..Len(s.ready)
  BY Fields
<1> HIDE DEF hit, rest
<1>3. aborted \in Seq(PendingOps) /\ \E m : Picks(m, aborted, s.pending, hit)
  BY <1>2, ThoseIs
<1>4. p \in Seq(PendingOps) /\ \E m : Picks(m, p, s.pending, rest)
  BY <1>2, ThoseIs
<1> HIDE DEF aborted, p
<1>5. PICK ma : Picks(ma, aborted, s.pending, hit)
  BY <1>3
<1>6. PICK mp : Picks(mp, p, s.pending, rest)
  BY <1>4
<1>7. /\ Len(aborted) \in Nat /\ DOMAIN aborted = 1..Len(aborted)
      /\ Len(p) \in Nat /\ DOMAIN p = 1..Len(p)
  BY <1>3, <1>4, LenProperties
<1>8. \A i \in 1..Len(aborted) : Ended(aborted[i], TRUE) \in Handlers
  <2>1. TAKE i \in 1..Len(aborted)
  <2>2. aborted[i] \in PendingOps
    BY <1>3, ElementOfSeq
  <2>3. QED
    BY <2>2 DEF Ended, Handlers
<1>9. ended \in Seq(Handlers) /\ Len(ended) = Len(aborted)
  <2>1. ended \in [1..Len(aborted) -> Handlers]
    BY <1>7, <1>8
  <2>2. QED
    BY <1>7, <2>1, FunctionIsSeq
<1>10. \A i \in 1..Len(aborted) : ended[i] = Ended(aborted[i], TRUE)
  BY <1>7
<1> HIDE DEF ended
<1>11. /\ r \in Seq(Handlers) /\ Len(r) = Len(s.ready) + Len(aborted)
       /\ \A i \in 1..(Len(s.ready) + Len(aborted)) :
             r[i] = IF i <= Len(s.ready) THEN s.ready[i] ELSE ended[i - Len(s.ready)]
  <2>1. /\ r \in Seq(Handlers) /\ Len(r) = Len(s.ready) + Len(ended)
        /\ \A i \in 1..(Len(s.ready) + Len(ended)) :
              r[i] = IF i <= Len(s.ready) THEN s.ready[i] ELSE ended[i - Len(s.ready)]
    BY <1>2, <1>9, ConcatProperties
  <2> HIDE DEF r
  <2>2. QED
    BY <1>9, <2>1
<1> HIDE DEF r
<1>12. t \in ServerType
  BY <1>1, <1>4, <1>11 DEF ServerType
<1>13. t.pending = p /\ t.ready = r /\ SameButQueues(s, t)
  BY <1>1 DEF ServerType, SameButQueues
<1> DEFINE move == [i \in (Len(s.ready) + 1)..Len(r) |-> ma[i - Len(s.ready)]]
           new == (Len(s.ready) + 1)..Len(r)
<1>14. Longer(s.ready, r)
  <2>1. PICK a \in Nat, b \in Nat : a = Len(s.ready) /\ b = Len(aborted)
    BY <1>2, <1>7
  <2>2. a <= a + b /\ \A i \in 1..a : i \in 1..(a + b) /\ i <= a
    OBVIOUS
  <2>3. Len(r) = a + b
    BY <1>11, <2>1
  <2>4. \A i \in 1..a : r[i] = s.ready[i]
    BY <1>11, <2>1, <2>2
  <2>5. QED
    BY ONLY <2>1, <2>2, <2>3, <2>4 DEF Longer
<1>15. ASSUME NEW i \in new
       PROVE  /\ i - Len(s.ready) \in 1..Len(aborted)
              /\ move[i] = ma[i - Len(s.ready)]
              /\ r[i] = Ended(aborted[i - Len(s.ready)], TRUE)
  <2>1. /\ i - Len(s.ready) \in 1..Len(aborted) /\ i \in 1..(Len(s.ready) + Len(aborted))
        /\ ~(i <= Len(s.ready))
    BY <1>2, <1>7, <1>11
  <2>2. QED
    BY <1>10, <1>11, <2>1
<1>16. ASSUME NEW i \in new
       PROVE  /\ move[i] \in DOMAIN s.pending /\ move[i] \in hit
              /\ r[i] = Ended(s.pending[move[i]], TRUE)
  BY <1>2, <1>5, <1>15 DEF Picks
<1>17. ASSUME NEW i \in new, NEW j \in new, move[i] = move[j] PROVE i = j
  <2> DEFINE k == i - Len(s.ready)
             l == j - Len(s.ready)
  <2>1. k \in 1..Len(aborted) /\ l \in 1..Len(aborted) /\ ma[k] = ma[l]
    BY <1>15, <1>17
  <2>2. \A a, b \in 1..Len(aborted) : a < b => ma[a] < ma[b]
    BY <1>5 DEF Picks
  <2>3. \A a \in 1..Len(aborted) : ma[a] \in Int
    BY <1>2, <1>5 DEF Picks
  <2> HIDE DEF k, l, move, new
  <2>4. k \in Int /\ l \in Int /\ k = l
    BY <1>7, <2>1, <2>2, <2>3
  <2>5. i \in Int /\ j \in Int
    BY <1>2, <1>11, <1>7 DEF new
  <2>6. QED
    BY <1>2, <2>4, <2>5 DEF k, l
<1>18. ASSUME NEW k \in DOMAIN s.pending, k \in hit PROVE \E i \in new : move[i] = k
  <2>1. PICK j \in 1..Len(aborted) : ma[j] = k
    BY <1>2, <1>5, <1>18 DEF Picks
  <2>2. j + Len(s.ready) \in new /\ (j + Len(s.ready)) - Len(s.ready) = j
    BY <1>2, <1>7, <1>11
  <2>3. QED
    BY <2>1, <2>2
<1>19. ASSUME NEW i \in DOMAIN p
       PROVE  /\ mp[i] \in DOMAIN s.pending /\ mp[i] \notin hit /\ mp[i] \in Int
              /\ p[i] = s.pending[mp[i]]
  BY <1>2, <1>6, <1>7 DEF Picks, rest
<1>20. ASSUME NEW i \in DOMAIN p, NEW j \in DOMAIN p, mp[i] = mp[j] PROVE i = j
  <2>1. mp[i] \in Int /\ mp[j] \in Int
    BY <1>19
  <2>2. ~(i < j) /\ ~(j < i)
    BY <1>6, <1>7, <1>20, <2>1 DEF Picks
  <2>3. QED
    BY <1>7, <2>2
<1>21. ASSUME NEW k \in DOMAIN s.pending, k \notin hit PROVE \E i \in DOMAIN p : mp[i] = k
  BY <1>2, <1>6, <1>7, <1>21 DEF Picks, rest
<1> HIDE DEF move
<1>22. Moves(s, t, hit, TRUE, mp, move)
  BY <1>13, <1>14, <1>16, <1>17, <1>18, <1>19, <1>20, <1>21 DEF Moves
<1>23. Moved(s, t, hit, TRUE)
  BY <1>22 DEF Moved
<1>24. QED
  BY <1>12, <1>13, <1>23 DEF hit

LEMMA EndIs ==
    ASSUME NEW s \in ServerType, NEW at \in DOMAIN s.pending, NEW failed \in BOOLEAN
    PROVE  LET t == End(s, at, failed)
           IN  /\ t \in ServerType /\ SameButQueues(s, t)
               /\ Moved(s, t, {at}, failed)
               /\ LongerBy(s.ready, t.ready, Ended(s.pending[at], failed))
<1> DEFINE hit == {at}
           rest == DOMAIN s.pending \ hit
           p == Those(s.pending, rest)
           h == Ended(s.pending[at], failed)
           r == Append(s.ready, h)
           t == End(s, at, failed)
<1>1. t = [s EXCEPT !.pending = p, !.ready = r]
  BY DEF End
<1>2. /\ s.pending \in Seq(PendingOps) /\ s.ready \in Seq(Handlers)
      /\ Len(s.pending) \in Nat /\ DOMAIN s.pending = 1..Len(s.pending)
      /\ Len(s.ready) \in Nat /\ DOMAIN s.ready = 1..Len(s.ready)
  BY Fields
<1> HIDE DEF rest
<1>3. p \in Seq(PendingOps) /\ \E m : Picks(m, p, s.pending, rest)
  BY <1>2, ThoseIs
<1> HIDE DEF p
<1>4. PICK mp : Picks(mp, p, s.pending, rest)
  BY <1>3
<1>5. Len(p) \in Nat /\ DOMAIN p = 1..Len(p)
  BY <1>3, LenProperties
<1>6. h \in Handlers
  BY Elements DEF Ended, Handlers
<1> HIDE DEF h
<1>7. /\ r \in Seq(Handlers) /\ Len(r) = Len(s.ready) + 1 /\ r[Len(s.ready) + 1] = h
      /\ \A i \in 1..Len(s.ready) : r[i] = s.ready[i]
  BY <1>2, <1>6, AppendProperties
<1> HIDE DEF r
<1>8. t \in ServerType
  BY <1>1, <1>3, <1>7 DEF ServerType
<1>9. t.pending = p /\ t.ready = r /\ SameButQueues(s, t)
  BY <1>1 DEF ServerType, SameButQueues
<1>10. LongerBy(s.ready, r, h)
  BY <1>2, <1>7 DEF LongerBy, Longer
<1> DEFINE new == (Len(s.ready) + 1)..Len(r)
           move == [i \in new |-> at]
<1>11. new = {Len(s.ready) + 1}
  BY <1>2, <1>7
<1>12. ASSUME NEW i \in new
       PROVE  /\ move[i] \in DOMAIN s.pending /\ move[i] \in hit
              /\ r[i] = Ended(s.pending[move[i]], failed)
  BY <1>7, <1>11 DEF h
<1>13. \A i, j \in new : move[i] = move[j] => i = j
  BY <1>11
<1>14. ASSUME NEW k \in DOMAIN s.pending, k \in hit PROVE \E i \in new : move[i] = k
  BY <1>11, <1>14
<1>15. ASSUME NEW i \in DOMAIN p
       PROVE  /\ mp[i] \in DOMAIN s.pending /\ mp[i] \notin hit /\ mp[i] \in Int
              /\ p[i] = s.pending[mp[i]]
  BY <1>2, <1>4, <1>5 DEF Picks, rest
<1>16. ASSUME NEW i \in DOMAIN p, NEW j \in DOMAIN p, mp[i] = mp[j] PROVE i = j
  <2>1. mp[i] \in Int /\ mp[j] \in Int
    BY <1>15
  <2>2. ~(i < j) /\ ~(j < i)
    BY <1>4, <1>5, <1>16, <2>1 DEF Picks
  <2>3. QED
    BY <1>5, <2>2
<1>17. ASSUME NEW k \in DOMAIN s.pending, k \notin hit PROVE \E i \in DOMAIN p : mp[i] = k
  BY <1>2, <1>4, <1>5, <1>17 DEF Picks, rest
<1> HIDE DEF move, hit
<1>18. Moves(s, t, hit, failed, mp, move)
  BY <1>9, <1>10, <1>12, <1>13, <1>14, <1>15, <1>16, <1>17 DEF Moves, LongerBy
<1>19. Moved(s, t, hit, failed)
  BY <1>18 DEF Moved
<1>20. QED
  BY <1>8, <1>9, <1>10, <1>19 DEF hit, h

(* The next handler is taken from the queue.                               *)
Taken(s) == [s EXCEPT !.ready = Tail(@)]

LEMMA TakenIs ==
    ASSUME NEW s \in ServerType, s.ready # <<>>
    PROVE  LET t == Taken(s)
           IN  /\ t \in ServerType /\ SameButQueues(s, t) /\ t.pending = s.pending
               /\ 1 \in DOMAIN s.ready /\ Head(s.ready) = s.ready[1]
               /\ \A i \in DOMAIN t.ready :
                     i \in Nat /\ i >= 1 /\ i + 1 \in DOMAIN s.ready /\ t.ready[i] = s.ready[i + 1]
               /\ \A i \in DOMAIN s.ready : i = 1 \/ i - 1 \in DOMAIN t.ready
<1> DEFINE r == Tail(s.ready)
           t == Taken(s)
<1>1. s.ready \in Seq(Handlers)
  BY Fields
<1>2. /\ r \in Seq(Handlers) /\ 1 \in DOMAIN s.ready /\ Head(s.ready) = s.ready[1]
      /\ \A i \in DOMAIN r :
            i \in Nat /\ i >= 1 /\ i + 1 \in DOMAIN s.ready /\ r[i] = s.ready[i + 1]
      /\ \A i \in DOMAIN s.ready : i = 1 \/ i - 1 \in DOMAIN r
  BY <1>1, TailIs
<1>3. t = [s EXCEPT !.ready = r]
  BY DEF Taken
<1> HIDE DEF r
<1>4. t \in ServerType
  BY <1>2, <1>3 DEF ServerType
<1>5. SameButQueues(s, t) /\ t.pending = s.pending /\ t.ready = r
  BY <1>3 DEF ServerType, SameButQueues
<1> HIDE DEF t
<1>6. QED
  BY <1>2, <1>4, <1>5 DEF t

-----------------------------------------------------------------------------
(* What is kept, for a receiver, by whatever is not a step of its reading. *)
SameReader(r, q) ==
    /\ q.m_message_head = r.m_message_head /\ q.m_head_size = r.m_head_size
    /\ q.m_memory = r.m_memory /\ q.m_body_size = r.m_body_size
    /\ q.complete = r.complete /\ q.refused = r.refused /\ q.frame = r.frame
    /\ q.peer.websocket = r.peer.websocket /\ q.peer.taken = r.peer.taken /\ q.got = r.got

ReadsKept(s, t, k) ==
    /\ \A i \in DOMAIN t.pending :
          t.pending[i] \in Reads(k) => \E j \in DOMAIN s.pending : s.pending[j] = t.pending[i]
    /\ \A i \in DOMAIN t.ready :
          t.ready[i].op \in Reads(k) /\ ~t.ready[i].failed =>
            \E j \in DOMAIN s.ready : s.ready[j] = t.ready[i]

MessagesKept(s, t, k) ==
    /\ Longer(s.ready, t.ready)
    /\ \A i \in (Len(s.ready) + 1)..Len(t.ready) : ~IsMessage(t.ready[i], k)

SamePart(r, q) ==
    /\ q.m_message_head = r.m_message_head /\ q.m_head_size = r.m_head_size
    /\ q.m_memory = r.m_memory /\ q.m_body_size = r.m_body_size
    /\ q.complete = r.complete /\ q.refused = r.refused /\ q.frame = r.frame
    /\ q.peer.websocket = r.peer.websocket /\ q.peer.taken = r.peer.taken

LEMMA PartKept ==
    ASSUME NEW r, NEW q, SamePart(r, q), NEW m, NEW sizes, NEW op
    PROVE  /\ ReadAt(r, m, sizes, op) => ReadAt(q, m, sizes, op)
           /\ Came(r, sizes) => Came(q, sizes)
<1>1. /\ q.m_message_head = r.m_message_head /\ q.m_head_size = r.m_head_size
      /\ q.m_memory = r.m_memory /\ q.m_body_size = r.m_body_size
      /\ q.complete = r.complete /\ q.refused = r.refused /\ q.frame = r.frame
      /\ q.peer.websocket = r.peer.websocket /\ q.peer.taken = r.peer.taken
  BY DEF SamePart
<1>2. Fresh(q) = Fresh(r)
  BY <1>1, Zenon DEF Fresh
<1>3. Partial(q, m, sizes) = Partial(r, m, sizes)
  BY <1>1, <1>2, Zenon DEF Partial, InHead, InBody
<1>4. Position(q, m, sizes) = Position(r, m, sizes)
  BY <1>1, Zenon DEF Position
<1>5. ReadAt(q, m, sizes, op) = ReadAt(r, m, sizes, op)
  BY <1>1, <1>2, <1>3, <1>4, Zenon DEF ReadAt
<1>6. QED
  BY <1>1, <1>5, Zenon DEF Came

LEMMA ReadAtKept ==
    ASSUME NEW r, NEW q, SameReader(r, q), NEW m, NEW sizes, NEW op
    PROVE  /\ ReadAt(r, m, sizes, op) => ReadAt(q, m, sizes, op)
           /\ Came(r, sizes) => Came(q, sizes)
<1>1. SamePart(r, q)
  BY DEF SameReader, SamePart
<1>2. QED
  BY <1>1, PartKept

LEMMA ReadsAtKept ==
    ASSUME NEW s, NEW t, NEW k, NEW m, SameReader(s.receiver[k], t.receiver[k]),
           t.limit = s.limit, ReadsKept(s, t, k), ReadsAt(s, k, m)
    PROVE  ReadsAt(t, k, m)
<1> DEFINE r == s.receiver[k]
           q == t.receiver[k]
           sizes == s.limit.sizes
<1>1. \A op : /\ ReadAt(r, m, sizes, op) => ReadAt(q, m, sizes, op)
              /\ Came(r, sizes) => Came(q, sizes)
  BY ReadAtKept
<1>2. /\ \A i \in DOMAIN s.pending :
            s.pending[i] \in Reads(k) => ReadAt(r, m, sizes, s.pending[i])
      /\ \A i \in DOMAIN s.ready :
            s.ready[i].op \in Reads(k) /\ ~s.ready[i].failed =>
              ReadAt(r, m, sizes, s.ready[i].op) /\ Came(r, sizes)
  BY DEF ReadsAt
<1>3. t.limit.sizes = sizes
  OBVIOUS
<1> HIDE DEF r, q, sizes
<1>4. ASSUME NEW i \in DOMAIN t.pending, t.pending[i] \in Reads(k)
      PROVE  ReadAt(q, m, sizes, t.pending[i])
  <2>1. PICK j \in DOMAIN s.pending : s.pending[j] = t.pending[i]
    BY <1>4 DEF ReadsKept
  <2>2. QED
    BY <1>1, <1>2, <1>4, <2>1
<1>5. ASSUME NEW i \in DOMAIN t.ready, t.ready[i].op \in Reads(k), ~t.ready[i].failed
      PROVE  ReadAt(q, m, sizes, t.ready[i].op) /\ Came(q, sizes)
  <2>1. PICK j \in DOMAIN s.ready : s.ready[j] = t.ready[i]
    BY <1>5 DEF ReadsKept
  <2>2. QED
    BY <1>1, <1>2, <1>5, <2>1
<1>6. QED
  BY <1>3, <1>4, <1>5 DEF ReadsAt, q

LEMMA CountedKept ==
    ASSUME NEW s \in ServerType, NEW t \in ServerType, NEW k, NEW m,
           t.receiver[k].got = s.receiver[k].got,
           t.limit = s.limit, MessagesKept(s, t, k), Counted(s, k, m)
    PROVE  Counted(t, k, m)
<1> DEFINE got == s.receiver[k].got
           sizes == s.limit.sizes
<1>1. t.receiver[k].got = got /\ t.limit.sizes = sizes
  OBVIOUS
<1>2. /\ m \in 0..Len(sizes) /\ Len(got) <= m
      /\ \A j \in DOMAIN got : got[j] = Message(j, sizes[j])
      /\ \A i \in DOMAIN s.ready :
            IsMessage(s.ready[i], k) =>
              \E j \in (Len(got) + 1)..m : s.ready[i].op.step = Message(j, sizes[j])
      /\ \A i, j \in DOMAIN s.ready :
            IsMessage(s.ready[i], k) /\ IsMessage(s.ready[j], k) /\ i < j =>
              Number(s.ready[i].op.step) < Number(s.ready[j].op.step)
      /\ \A j \in (Len(got) + 1)..m :
            \E i \in DOMAIN s.ready :
              IsMessage(s.ready[i], k) /\ s.ready[i].op.step = Message(j, sizes[j])
  BY DEF Counted
<1> HIDE DEF got, sizes
<1>3. /\ Len(s.ready) \in Nat /\ DOMAIN s.ready = 1..Len(s.ready)
      /\ Len(t.ready) \in Nat /\ DOMAIN t.ready = 1..Len(t.ready)
  BY Fields
<1>4. \A i \in DOMAIN s.ready : i \in DOMAIN t.ready /\ t.ready[i] = s.ready[i]
  BY <1>3 DEF MessagesKept, Longer
<1>5. ASSUME NEW i \in DOMAIN t.ready, IsMessage(t.ready[i], k)
      PROVE  i \in DOMAIN s.ready /\ t.ready[i] = s.ready[i] /\ IsMessage(s.ready[i], k)
  <2>1. i \in DOMAIN s.ready
    BY <1>3, <1>5 DEF MessagesKept
  <2>2. QED
    BY <1>4, <1>5, <2>1
<1>6. /\ \A i \in DOMAIN t.ready :
            IsMessage(t.ready[i], k) =>
              \E j \in (Len(got) + 1)..m : t.ready[i].op.step = Message(j, sizes[j])
      /\ \A i, j \in DOMAIN t.ready :
            IsMessage(t.ready[i], k) /\ IsMessage(t.ready[j], k) /\ i < j =>
              Number(t.ready[i].op.step) < Number(t.ready[j].op.step)
  <2>1. ASSUME NEW i \in DOMAIN t.ready, IsMessage(t.ready[i], k)
        PROVE  \E j \in (Len(got) + 1)..m : t.ready[i].op.step = Message(j, sizes[j])
    <3>1. i \in DOMAIN s.ready /\ t.ready[i] = s.ready[i] /\ IsMessage(s.ready[i], k)
      BY <1>5, <2>1
    <3>2. QED
      BY <1>2, <3>1
  <2>2. ASSUME NEW i \in DOMAIN t.ready, NEW j \in DOMAIN t.ready,
               IsMessage(t.ready[i], k), IsMessage(t.ready[j], k), i < j
        PROVE  Number(t.ready[i].op.step) < Number(t.ready[j].op.step)
    <3>1. /\ i \in DOMAIN s.ready /\ t.ready[i] = s.ready[i] /\ IsMessage(s.ready[i], k)
          /\ j \in DOMAIN s.ready /\ t.ready[j] = s.ready[j] /\ IsMessage(s.ready[j], k)
      BY <1>5, <2>2
    <3>2. QED
      BY <1>2, <2>2, <3>1
  <2>3. QED
    BY <2>1, <2>2
<1>7. \A j \in (Len(got) + 1)..m :
          \E i \in DOMAIN t.ready :
            IsMessage(t.ready[i], k) /\ t.ready[i].op.step = Message(j, sizes[j])
  BY <1>2, <1>4
<1>8. QED
  BY <1>1, <1>2, <1>6, <1>7 DEF Counted

LEMMA OrderedKept ==
    ASSUME NEW s \in ServerType, NEW t \in ServerType, NEW k,
           SameReader(s.receiver[k], t.receiver[k]), t.limit = s.limit,
           ReadsKept(s, t, k), MessagesKept(s, t, k), Ordered(s, k)
    PROVE  Ordered(t, k)
<1>1. PICK m \in 0..Len(s.limit.sizes) : Counted(s, k, m) /\ ReadsAt(s, k, m)
  BY DEF Ordered
<1>2. Counted(t, k, m)
  BY <1>1, CountedKept DEF SameReader
<1>3. ReadsAt(t, k, m)
  BY <1>1, ReadsAtKept
<1>4. QED
  BY <1>2, <1>3 DEF Ordered

(* The queues are the same.                                                *)
SameQueues(s, t) == t.pending = s.pending /\ t.ready = s.ready

LEMMA QueuesSame ==
    ASSUME NEW s \in ServerType, NEW t \in ServerType, SameQueues(s, t)
    PROVE  /\ \A Q : (Has(t, Q) <=> Has(s, Q)) /\ (Single(s, Q) => Single(t, Q))
           /\ \A k : ReadsKept(s, t, k) /\ MessagesKept(s, t, k)
<1>1. \A Q : (Has(t, Q) <=> Has(s, Q)) /\ (Single(s, Q) => Single(t, Q))
  BY DEF SameQueues, Has, Single, InPending, InReady
<1>2. \A k : ReadsKept(s, t, k)
  BY DEF SameQueues, ReadsKept
<1>3. \A k : MessagesKept(s, t, k)
  <2>1. Len(s.ready) \in Nat
    BY Fields
  <2>2. Longer(s.ready, t.ready) /\ (Len(s.ready) + 1)..Len(t.ready) = {}
    BY <2>1 DEF SameQueues, Longer
  <2>3. QED
    BY <2>2 DEF MessagesKept
<1>4. QED
  BY <1>1, <1>2, <1>3

-----------------------------------------------------------------------------
(* What is sound stays so.                                                 *)
LEMMA LanesKept ==
    ASSUME NEW s, NEW t, NEW k, Lanes(s, k),
           \A Q : (Has(t, Q) <=> Has(s, Q)) /\ (Single(s, Q) => Single(t, Q)),
           t.receiver[k].told = s.receiver[k].told,
           t.receiver[k].m_socket => s.receiver[k].m_socket,
           t.receiver[k].m_socket /\ Has(s, Writes(k)) => t.receiver[k].m_executing
    PROVE  Lanes(t, k)
<1> DEFINE r == s.receiver[k]
           q == t.receiver[k]
<1>1. /\ Single(s, Reads(k)) /\ Single(s, Writes(k))
      /\ r.told > 0 => ~r.m_socket
      /\ r.told + Load(s, k) <= 2
  BY DEF Lanes
<1>2. /\ Single(t, Reads(k)) /\ Single(t, Writes(k))
      /\ Has(t, Reads(k)) <=> Has(s, Reads(k))
      /\ Has(t, Writes(k)) <=> Has(s, Writes(k))
  BY <1>1
<1>3. Load(t, k) = Load(s, k)
  BY <1>2 DEF Load, Bit
<1>4. q.told + Load(t, k) <= 2 /\ (q.told > 0 => ~q.m_socket)
  BY <1>1, <1>3
<1>5. q.m_socket /\ Has(t, Writes(k)) => q.m_executing
  BY <1>2
<1>6. QED
  BY <1>2, <1>4, <1>5 DEF Lanes

LEMMA SoundKept ==
    ASSUME NEW s, NEW t \in ServerType, Sound(s), Refers(t), t.limit = s.limit,
           DOMAIN t.receiver = DOMAIN s.receiver,
           \A k \in DOMAIN s.receiver :
               /\ SameReader(s.receiver[k], t.receiver[k])
               /\ ReadsKept(s, t, k) /\ MessagesKept(s, t, k) /\ Lanes(t, k)
    PROVE  Sound(t)
<1>1. s \in ServerType /\ \A k \in DOMAIN s.receiver : Ordered(s, k)
  BY DEF Sound
<1>2. ASSUME NEW k \in DOMAIN t.receiver PROVE Lanes(t, k) /\ Ordered(t, k)
  <2>1. k \in DOMAIN s.receiver
    OBVIOUS
  <2>2. Ordered(t, k)
    BY <1>1, <2>1, OrderedKept
  <2>3. QED
    BY <2>1, <2>2
<1>3. QED
  BY <1>2 DEF Sound

LEMMA SoundIs ==
    ASSUME NEW s, Sound(s)
    PROVE  /\ s \in ServerType /\ Refers(s)
           /\ \A n \in DOMAIN s.receiver : Lanes(s, n) /\ Ordered(s, n)
  BY DEF Sound

LEMMA PendingKinds ==
    ASSUME NEW op \in PendingOps
    PROVE  op.kind # "message" /\ op.kind \in {"read", "write", "accept", "heartbeat"}
  BY DEF PendingOps, ReadOps, WriteOps, AcceptOps, HeartbeatOps

LEMMA SameReaderIs == \A r : SameReader(r, r)
  BY DEF SameReader

(* What is aborted is not forgotten.                                       *)
LEMMA MovedKeeps ==
    ASSUME NEW s, NEW t \in ServerType, Sound(s), SameButQueues(s, t),
           NEW hit, Moved(s, t, hit, TRUE)
    PROVE  Sound(t) /\ \A Q : (Has(t, Q) <=> Has(s, Q)) /\ (Single(s, Q) => Single(t, Q))
<1>1. /\ s \in ServerType /\ Refers(s)
      /\ \A n \in DOMAIN s.receiver : Lanes(s, n) /\ Ordered(s, n)
  BY SoundIs
<1>2. t.receiver = s.receiver /\ t.limit = s.limit /\ t.m_outer_set = s.m_outer_set
  BY DEF SameButQueues
<1>3. PICK keep, move : Moves(s, t, hit, TRUE, keep, move)
  BY DEF Moved
<1>4. /\ Longer(s.ready, t.ready)
      /\ \A i \in DOMAIN t.pending :
            keep[i] \in DOMAIN s.pending /\ t.pending[i] = s.pending[keep[i]]
      /\ \A i \in (Len(s.ready) + 1)..Len(t.ready) :
            move[i] \in DOMAIN s.pending /\ t.ready[i] = Ended(s.pending[move[i]], TRUE)
  BY <1>3 DEF Moves
<1>5. /\ Len(s.ready) \in Nat /\ DOMAIN s.ready = 1..Len(s.ready)
      /\ Len(t.ready) \in Nat /\ DOMAIN t.ready = 1..Len(t.ready)
  BY <1>1, Fields
<1>6. \A i \in 1..Len(s.ready) : t.ready[i] = s.ready[i]
  BY <1>4 DEF Longer
<1>7. \A Q : (Has(t, Q) <=> Has(s, Q)) /\ (Single(s, Q) => Single(t, Q))
  BY <1>1, MovedHas, MovedSingle
<1>8. \A op : Ended(op, TRUE).op = op /\ Ended(op, TRUE).failed
  BY DEF Ended
<1>9. ASSUME NEW i \in (Len(s.ready) + 1)..Len(t.ready)
      PROVE  /\ move[i] \in DOMAIN s.pending /\ t.ready[i].op = s.pending[move[i]]
             /\ t.ready[i].failed /\ t.ready[i].op \in PendingOps
  <2>1. move[i] \in DOMAIN s.pending /\ t.ready[i] = Ended(s.pending[move[i]], TRUE)
    BY <1>4
  <2>2. s.pending[move[i]] \in PendingOps
    BY <1>1, <2>1, Elements
  <2>3. QED
    BY <1>8, <2>1, <2>2
<1>10. ASSUME NEW k PROVE ReadsKept(s, t, k)
  <2>1. ASSUME NEW i \in DOMAIN t.pending
        PROVE  \E j \in DOMAIN s.pending : s.pending[j] = t.pending[i]
    BY <1>4
  <2>2. ASSUME NEW i \in DOMAIN t.ready, ~t.ready[i].failed
        PROVE  \E j \in DOMAIN s.ready : s.ready[j] = t.ready[i]
    <3>1. i \in 1..Len(s.ready)
      BY <1>5, <1>9, <2>2
    <3>2. QED
      BY <1>5, <1>6, <3>1
  <2>3. QED
    BY <2>1, <2>2 DEF ReadsKept
<1>11. ASSUME NEW k PROVE MessagesKept(s, t, k)
  <2>1. \A i \in (Len(s.ready) + 1)..Len(t.ready) : ~IsMessage(t.ready[i], k)
    BY <1>9, PendingKinds DEF IsMessage
  <2>2. QED
    BY <1>4, <2>1 DEF MessagesKept
<1>12. Refers(t)
  <2>1. \A op : OfReceiver(s, op) => OfReceiver(t, op)
    BY <1>2 DEF OfReceiver
  <2>2. /\ s.m_outer_set \subseteq DOMAIN s.receiver
        /\ \A i \in DOMAIN s.pending : OfReceiver(s, s.pending[i])
        /\ \A i \in DOMAIN s.ready : OfReceiver(s, s.ready[i].op)
    BY <1>1 DEF Refers
  <2>3. \A i \in DOMAIN t.pending : OfReceiver(t, t.pending[i])
    BY <1>4, <2>1, <2>2
  <2>4. ASSUME NEW i \in DOMAIN t.ready PROVE OfReceiver(t, t.ready[i].op)
    <3>1. CASE i \in 1..Len(s.ready)
      BY <1>5, <1>6, <2>1, <2>2, <3>1
    <3>2. CASE i \in (Len(s.ready) + 1)..Len(t.ready)
      BY <1>9, <2>1, <2>2, <3>2
    <3>3. QED
      BY <1>5, <3>1, <3>2
  <2>5. QED
    BY <1>2, <2>2, <2>3, <2>4 DEF Refers
<1>13. ASSUME NEW k \in DOMAIN s.receiver PROVE Lanes(t, k)
  <2>1. s.receiver[k].m_socket /\ Has(s, Writes(k)) => s.receiver[k].m_executing
    BY <1>1 DEF Lanes
  <2>2. QED
    BY <1>1, <1>2, <1>7, <2>1, LanesKept
<1>14. Sound(t)
  BY <1>2, <1>10, <1>11, <1>12, <1>13, SoundKept, SameReaderIs
<1>15. QED
  BY <1>7, <1>14

LEMMA AbortKeeps ==
    ASSUME NEW s, Sound(s), NEW kind, NEW of
    PROVE  LET t == Abort(s, kind, of)
           IN  /\ Sound(t) /\ SameButQueues(s, t)
               /\ \A Q : (Has(t, Q) <=> Has(s, Q)) /\ (Single(s, Q) => Single(t, Q))
<1> DEFINE t == Abort(s, kind, of)
<1>1. /\ t \in ServerType /\ SameButQueues(s, t)
      /\ Moved(s, t, Hits(s, kind, of), TRUE)
  BY SoundIs, AbortIs
<1> HIDE DEF t
<1>2. QED
  BY <1>1, MovedKeeps DEF t

-----------------------------------------------------------------------------
(* An operation is begun.                                                  *)
LEMMA BeginHas ==
    ASSUME NEW s \in ServerType, NEW op \in PendingOps, NEW Q
    PROVE  LET t == Begin(s, op)
           IN  /\ Has(t, Q) <=> Has(s, Q) \/ op \in Q
               /\ Single(s, Q) /\ (op \in Q => ~Has(s, Q)) => Single(t, Q)
<1> DEFINE t == Begin(s, op)
           n == Len(s.pending)
<1>1. t \in ServerType /\ t.ready = s.ready /\ LongerBy(s.pending, t.pending, op)
  BY BeginIs
<1>2. /\ n \in Nat /\ DOMAIN s.pending = 1..n
      /\ Len(t.pending) \in Nat /\ DOMAIN t.pending = 1..Len(t.pending)
  BY <1>1, Fields
<1> HIDE DEF t
<1>3. DOMAIN t.pending = 1..(n + 1) /\ t.pending[n + 1] = op
  BY <1>1, <1>2 DEF LongerBy
<1>4. \A i \in 1..n : t.pending[i] = s.pending[i]
  BY <1>1 DEF LongerBy, Longer
<1> HIDE DEF n
<1>5. InReady(t, Q) <=> InReady(s, Q)
  BY <1>1 DEF InReady
<1>6. InPending(t, Q) <=> InPending(s, Q) \/ op \in Q
  <2>1. ASSUME InPending(t, Q) PROVE InPending(s, Q) \/ op \in Q
    <3>1. PICK i \in 1..(n + 1) : t.pending[i] \in Q
      BY <1>3, <2>1 DEF InPending
    <3>2. CASE i = n + 1
      BY <1>3, <3>1, <3>2
    <3>3. CASE i \in 1..n
      BY <1>2, <1>4, <3>1, <3>3 DEF InPending
    <3>4. QED
      BY <1>2, <3>1, <3>2, <3>3
  <2>2. ASSUME InPending(s, Q) PROVE InPending(t, Q)
    <3>1. PICK i \in 1..n : s.pending[i] \in Q
      BY <1>2, <2>2 DEF InPending
    <3>2. i \in 1..(n + 1)
      BY <1>2
    <3>3. QED
      BY <1>3, <1>4, <3>1, <3>2 DEF InPending
  <2>3. ASSUME op \in Q PROVE InPending(t, Q)
    BY <1>2, <1>3, <2>3 DEF InPending
  <2>4. QED
    BY <2>1, <2>2, <2>3
<1>7. Has(t, Q) <=> Has(s, Q) \/ op \in Q
  BY <1>5, <1>6 DEF Has
<1>8. ASSUME Single(s, Q), op \in Q => ~Has(s, Q) PROVE Single(t, Q)
  <2>1. /\ \A i, j \in 1..n : s.pending[i] \in Q /\ s.pending[j] \in Q => i = j
        /\ \A i, j \in DOMAIN s.ready : s.ready[i].op \in Q /\ s.ready[j].op \in Q => i = j
        /\ ~(InPending(s, Q) /\ InReady(s, Q))
    BY <1>2, <1>8 DEF Single
  <2>2. \A i \in 1..n : s.pending[i] \in Q => InPending(s, Q)
    BY <1>2 DEF InPending
  <2>3. \A i, j \in 1..(n + 1) : t.pending[i] \in Q /\ t.pending[j] \in Q => i = j
    <3>1. TAKE i, j \in 1..(n + 1)
    <3>2. HAVE t.pending[i] \in Q /\ t.pending[j] \in Q
    <3>3. /\ i = n + 1 \/ i \in 1..n
          /\ j = n + 1 \/ j \in 1..n
      BY <1>2
    <3>4. CASE i \in 1..n /\ j \in 1..n
      BY <1>4, <2>1, <3>2, <3>4
    <3>5. CASE i = n + 1 /\ j \in 1..n
      BY <1>3, <1>4, <1>8, <2>2, <3>2, <3>5 DEF Has
    <3>6. CASE i \in 1..n /\ j = n + 1
      BY <1>3, <1>4, <1>8, <2>2, <3>2, <3>6 DEF Has
    <3>7. QED
      BY <3>3, <3>4, <3>5, <3>6
  <2>4. ~(InPending(t, Q) /\ InReady(t, Q))
    BY <1>5, <1>6, <1>8, <2>1 DEF Has
  <2>5. QED
    BY <1>1, <1>3, <2>1, <2>3, <2>4 DEF Single
<1>9. QED
  BY <1>7, <1>8 DEF t

(* The lanes of a receiver are told apart.                                 *)
LEMMA LanesApart ==
    ASSUME NEW op, NEW k
    PROVE  /\ op \in Reads(k) => /\ op \in PendingOps /\ op.of = k
                                 /\ op.kind \in {"read", "write"} /\ op \notin Writes(k)
           /\ op \in Writes(k) => /\ op \in PendingOps /\ op.of = k
                                  /\ op.kind = "write" /\ op \notin Reads(k)
<1>1. ASSUME op \in Reads(k)
      PROVE  op.of = k /\ op \in ReadOps \cup WriteOps /\ (op.kind = "write" => op.step = "answer")
  BY <1>1 DEF Reads
<1>2. ASSUME op \in Writes(k) PROVE op.of = k /\ op \in WriteOps /\ op.step = "pocket"
  BY <1>2 DEF Writes
<1>3. op \in ReadOps \cup WriteOps => op.kind \in {"read", "write"} /\ op \in PendingOps
  BY DEF ReadOps, WriteOps, PendingOps
<1>4. op \in WriteOps => op.kind = "write" /\ op \in PendingOps
  BY DEF WriteOps, PendingOps
<1>5. QED
  BY <1>1, <1>2, <1>3, <1>4

LEMMA BeginKeeps ==
    ASSUME NEW s, Sound(s), NEW op \in PendingOps, OfReceiver(s, op),
           \A k \in DOMAIN s.receiver :
               /\ op \in Reads(k) =>
                    /\ ~Has(s, Reads(k)) /\ s.receiver[k].m_socket
                    /\ \E m \in 0..Len(s.limit.sizes) :
                          Counted(s, k, m) /\ ReadAt(s.receiver[k], m, s.limit.sizes, op)
               /\ op \in Writes(k) =>
                    /\ ~Has(s, Writes(k)) /\ s.receiver[k].m_socket
                    /\ s.receiver[k].m_executing
    PROVE  LET t == Begin(s, op)
           IN  /\ Sound(t) /\ SameButQueues(s, t)
               /\ \A Q : Has(t, Q) <=> Has(s, Q) \/ op \in Q
<1> DEFINE t == Begin(s, op)
           n == Len(s.pending)
<1>1. /\ s \in ServerType /\ Refers(s)
      /\ \A k \in DOMAIN s.receiver : Lanes(s, k) /\ Ordered(s, k)
  BY SoundIs
<1>2. /\ t \in ServerType /\ SameButQueues(s, t) /\ t.ready = s.ready
      /\ LongerBy(s.pending, t.pending, op)
  BY <1>1, BeginIs
<1>3. /\ n \in Nat /\ DOMAIN s.pending = 1..n
      /\ Len(t.pending) \in Nat /\ DOMAIN t.pending = 1..Len(t.pending)
      /\ Len(s.ready) \in Nat
  BY <1>1, <1>2, Fields
<1>4. \A Q : /\ Has(t, Q) <=> Has(s, Q) \/ op \in Q
             /\ Single(s, Q) /\ (op \in Q => ~Has(s, Q)) => Single(t, Q)
  BY <1>1, BeginHas
<1> HIDE DEF t
<1>5. DOMAIN t.pending = 1..(n + 1) /\ t.pending[n + 1] = op
  BY <1>2, <1>3 DEF LongerBy
<1>6. \A i \in DOMAIN t.pending :
          \/ i \in DOMAIN s.pending /\ t.pending[i] = s.pending[i]
          \/ t.pending[i] = op
  <2>1. \A i \in 1..n : t.pending[i] = s.pending[i]
    BY <1>2 DEF LongerBy, Longer
  <2>2. QED
    BY <1>3, <1>5, <2>1
<1> HIDE DEF n
<1>7. t.receiver = s.receiver /\ t.limit = s.limit /\ t.m_outer_set = s.m_outer_set
  BY <1>2 DEF SameButQueues
<1>8. Refers(t)
  <2>1. \A o : OfReceiver(s, o) => OfReceiver(t, o)
    BY <1>7 DEF OfReceiver
  <2>2. /\ s.m_outer_set \subseteq DOMAIN s.receiver
        /\ \A i \in DOMAIN s.pending : OfReceiver(s, s.pending[i])
        /\ \A i \in DOMAIN s.ready : OfReceiver(s, s.ready[i].op)
    BY <1>1 DEF Refers
  <2>3. \A i \in DOMAIN t.pending : OfReceiver(t, t.pending[i])
    BY <1>6, <2>1, <2>2
  <2>4. \A i \in DOMAIN t.ready : OfReceiver(t, t.ready[i].op)
    BY <1>2, <2>1, <2>2
  <2>5. QED
    BY <1>7, <2>2, <2>3, <2>4 DEF Refers
<1>9. ASSUME NEW k PROVE MessagesKept(s, t, k)
  <2>1. Longer(s.ready, t.ready) /\ (Len(s.ready) + 1)..Len(t.ready) = {}
    BY <1>2, <1>3 DEF Longer
  <2>2. QED
    BY <2>1 DEF MessagesKept
<1>10. ASSUME NEW k \in DOMAIN s.receiver PROVE Lanes(t, k)
  <2> DEFINE r == s.receiver[k]
  <2>1. /\ Single(s, Reads(k)) /\ Single(s, Writes(k)) /\ (r.told > 0 => ~r.m_socket)
        /\ r.m_socket /\ Has(s, Writes(k)) => r.m_executing
        /\ r.told + Load(s, k) <= 2
    BY <1>1 DEF Lanes
  <2>2. Single(t, Reads(k)) /\ Single(t, Writes(k))
    BY <1>4, <2>1
  <2>3. r.m_socket /\ Has(t, Writes(k)) => r.m_executing
    BY <1>4, <2>1
  <2>4. r.told \in Nat
    BY <1>1, Elements DEF ReceiverType
  <2>5. r.told + Load(t, k) <= 2
    <3>1. CASE r.m_socket
      <4>1. r.told = 0
        BY <2>1, <2>4, <3>1
      <4>2. Load(t, k) <= 2 /\ Load(t, k) \in Nat
        BY DEF Load, Bit
      <4>3. QED
        BY <2>4, <4>1, <4>2
    <3>2. CASE ~r.m_socket
      <4>1. op \notin Reads(k) /\ op \notin Writes(k)
        BY <3>2
      <4>2. Load(t, k) = Load(s, k)
        BY <1>4, <4>1 DEF Load, Bit
      <4>3. QED
        BY <2>1, <4>2
    <3>3. QED
      BY <3>1, <3>2
  <2>6. QED
    BY <1>7, <2>1, <2>2, <2>3, <2>5 DEF Lanes
<1>11. ASSUME NEW k \in DOMAIN s.receiver PROVE Ordered(t, k)
  <2>1. CASE op \notin Reads(k)
    <3>1. ReadsKept(s, t, k)
      BY <1>2, <1>6, <2>1 DEF ReadsKept
    <3>2. QED
      BY <1>1, <1>2, <1>7, <1>9, <3>1, OrderedKept, SameReaderIs
  <2>2. CASE op \in Reads(k)
    <3>1. ~InPending(s, Reads(k)) /\ ~InReady(s, Reads(k))
      BY <2>2 DEF Has
    <3>2. PICK m \in 0..Len(s.limit.sizes) :
              Counted(s, k, m) /\ ReadAt(s.receiver[k], m, s.limit.sizes, op)
      BY <2>2
    <3>3. Counted(t, k, m)
      BY <1>1, <1>2, <1>7, <1>9, <3>2, CountedKept
    <3>4. ASSUME NEW i \in DOMAIN t.pending, t.pending[i] \in Reads(k)
          PROVE  ReadAt(t.receiver[k], m, t.limit.sizes, t.pending[i])
      <4>1. t.pending[i] = op
        BY <1>6, <3>1, <3>4 DEF InPending
      <4>2. QED
        BY <1>7, <3>2, <4>1
    <3>5. ASSUME NEW i \in DOMAIN t.ready PROVE ~(t.ready[i].op \in Reads(k))
      BY <1>2, <3>1 DEF InReady
    <3>6. ReadsAt(t, k, m)
      BY <3>4, <3>5 DEF ReadsAt
    <3>7. QED
      BY <1>7, <3>3, <3>6 DEF Ordered
  <2>3. QED
    BY <2>1, <2>2
<1>12. Sound(t)
  BY <1>2, <1>7, <1>8, <1>10, <1>11 DEF Sound
<1>13. QED
  BY <1>2, <1>4, <1>12 DEF t

(* The receivers change, but neither the queues nor what has been read.    *)
LEMMA ReceiversKeep ==
    ASSUME NEW s, NEW t \in ServerType, Sound(s), SameQueues(s, t), t.limit = s.limit,
           DOMAIN t.receiver = DOMAIN s.receiver,
           t.m_outer_set \subseteq DOMAIN s.receiver,
           \A k \in DOMAIN s.receiver :
               LET q == t.receiver[k]
               IN  /\ SameReader(s.receiver[k], q)
                   /\ q.told > 0 => ~q.m_socket
                   /\ q.m_socket /\ Has(s, Writes(k)) => q.m_executing
                   /\ q.told + Load(s, k) <= 2
    PROVE  Sound(t) /\ \A Q : Has(t, Q) <=> Has(s, Q)
<1>1. /\ s \in ServerType /\ Refers(s)
      /\ \A k \in DOMAIN s.receiver : Lanes(s, k) /\ Ordered(s, k)
  BY SoundIs
<1>2. /\ \A Q : (Has(t, Q) <=> Has(s, Q)) /\ (Single(s, Q) => Single(t, Q))
      /\ \A k : ReadsKept(s, t, k) /\ MessagesKept(s, t, k)
  BY <1>1, QueuesSame
<1>3. Refers(t)
  <2>1. \A op : OfReceiver(s, op) => OfReceiver(t, op)
    BY DEF OfReceiver
  <2>2. QED
    BY <1>1, <2>1 DEF Refers, SameQueues
<1>4. ASSUME NEW k \in DOMAIN s.receiver PROVE Lanes(t, k)
  <2>1. Single(s, Reads(k)) /\ Single(s, Writes(k))
    BY <1>1 DEF Lanes
  <2>2. Single(t, Reads(k)) /\ Single(t, Writes(k))
    BY <1>2, <2>1
  <2>3. Load(t, k) = Load(s, k)
    BY <1>2 DEF Load, Bit
  <2>4. QED
    BY <1>2, <2>2, <2>3 DEF Lanes
<1>5. Sound(t)
  BY <1>2, <1>3, <1>4, SoundKept
<1>6. QED
  BY <1>2, <1>5

-----------------------------------------------------------------------------
(* A receiver is changed.                                                  *)
Put(s, n, q) == [s EXCEPT !.receiver[n] = q]

LEMMA PutIs ==
    ASSUME NEW s \in ServerType, NEW n \in DOMAIN s.receiver, NEW q \in ReceiverType
    PROVE  LET t == Put(s, n, q)
           IN  /\ t \in ServerType /\ SameQueues(s, t)
               /\ t.receiver[n] = q /\ DOMAIN t.receiver = DOMAIN s.receiver
               /\ \A k \in DOMAIN s.receiver : k # n => t.receiver[k] = s.receiver[k]
               /\ t.limit = s.limit /\ t.fate = s.fate /\ t.m_acceptor = s.m_acceptor
               /\ t.m_outer_set = s.m_outer_set /\ t.m_heartbeat_timer = s.m_heartbeat_timer
               /\ t.starts = s.starts
<1> DEFINE rs == [s.receiver EXCEPT ![n] = q]
           t == Put(s, n, q)
<1>1. s.receiver \in Seq(ReceiverType)
  BY Fields
<1>2. rs \in Seq(ReceiverType)
  BY <1>1, ExceptSeq
<1>3. /\ rs[n] = q /\ DOMAIN rs = DOMAIN s.receiver
      /\ \A k \in DOMAIN s.receiver : k # n => rs[k] = s.receiver[k]
  BY <1>1
<1>4. t = [s EXCEPT !.receiver = rs]
  BY DEF Put
<1> HIDE DEF rs
<1>5. t \in ServerType
  BY <1>2, <1>4 DEF ServerType
<1>6. /\ t.receiver = rs /\ t.pending = s.pending /\ t.ready = s.ready
      /\ t.limit = s.limit /\ t.fate = s.fate /\ t.m_acceptor = s.m_acceptor
      /\ t.m_outer_set = s.m_outer_set /\ t.m_heartbeat_timer = s.m_heartbeat_timer
      /\ t.starts = s.starts
  BY <1>4 DEF ServerType
<1> HIDE DEF t
<1>7. QED
  BY <1>3, <1>5, <1>6 DEF t, SameQueues

(* What the server listens to is not changed.                              *)
Frame(s, t) ==
    /\ t.limit = s.limit /\ t.fate = s.fate
    /\ t.m_acceptor = s.m_acceptor /\ t.m_outer_set = s.m_outer_set
    /\ t.m_heartbeat_timer = s.m_heartbeat_timer /\ t.starts = s.starts
    /\ DOMAIN t.receiver = DOMAIN s.receiver
    /\ \A k \in DOMAIN s.receiver : s.receiver[k].closed => t.receiver[k].closed
    /\ \A k : Has(s, Reads(k)) => Has(t, Reads(k))
    /\ Has(s, Accepts) => Has(t, Accepts)

LEMMA FrameTransitive ==
    ASSUME NEW s, NEW t, NEW u, Frame(s, t), Frame(t, u)
    PROVE  Frame(s, u)
<1>1. \A k \in DOMAIN s.receiver : s.receiver[k].closed => u.receiver[k].closed
  BY DEF Frame
<1>2. \A k : Has(s, Reads(k)) => Has(u, Reads(k))
  BY DEF Frame
<1>3. QED
  BY <1>1, <1>2 DEF Frame

LEMMA FrameSame == \A s : Frame(s, s)
  BY DEF Frame

LEMMA FrameCarries ==
    ASSUME NEW s, Refers(s), NEW t, Frame(s, t)
    PROVE  /\ \A N : Hearing(s, N) => Hearing(t, N)
           /\ Accepting(s) => Accepting(t)
<1>1. s.m_outer_set \subseteq DOMAIN s.receiver
  BY DEF Refers
<1>2. ASSUME NEW N, Hearing(s, N) PROVE Hearing(t, N)
  BY <1>1, <1>2 DEF Frame, Hearing
<1>3. Accepting(s) => Accepting(t)
  BY DEF Frame, Accepting
<1>4. QED
  BY <1>2, <1>3

LEMMA SameButQueuesFrame ==
    ASSUME NEW s, NEW t, SameButQueues(s, t), \A Q : Has(s, Q) => Has(t, Q)
    PROVE  Frame(s, t)
  BY DEF SameButQueues, Frame

-----------------------------------------------------------------------------
(* Closing a receiver.                                                     *)
Cleared(r) == [r EXCEPT !.m_pocket_list = 0, !.m_executing = FALSE, !.m_socket = FALSE]

LEMMA ClearedIs ==
    ASSUME NEW r \in ReceiverType
    PROVE  LET q == Cleared(r)
           IN  /\ q \in ReceiverType /\ SameReader(r, q) /\ ~q.m_socket
               /\ q.told = r.told /\ (r.closed => q.closed)
<1>1. Cleared(r) \in ReceiverType
  BY DEF Cleared, ReceiverType
<1>2. QED
  BY <1>1 DEF Cleared, ReceiverType, SameReader

LEMMA CloseIs ==
    ASSUME NEW s, Sound(s), NEW n \in DOMAIN s.receiver
    PROVE  LET t == Close(s, n)
           IN  /\ Sound(t) /\ Frame(s, t)
               /\ \A Q : Has(t, Q) <=> Has(s, Q)
               /\ ~t.receiver[n].m_socket /\ t.receiver[n].told = s.receiver[n].told
               /\ \A k \in DOMAIN s.receiver : k # n => t.receiver[k] = s.receiver[k]
<1> DEFINE q == Cleared(s.receiver[n])
           u == Put(s, n, q)
           v == Abort(u, "read", n)
           t == Abort(v, "write", n)
<1>1. /\ s \in ServerType /\ s.m_outer_set \subseteq DOMAIN s.receiver
      /\ \A k \in DOMAIN s.receiver : Lanes(s, k)
      /\ s.receiver[n] \in ReceiverType
  BY SoundIs, Elements DEF Refers
<1>2. /\ q \in ReceiverType /\ SameReader(s.receiver[n], q) /\ ~q.m_socket
      /\ q.told = s.receiver[n].told /\ (s.receiver[n].closed => q.closed)
  BY <1>1, ClearedIs
<1>3. Close(s, n) = t
  BY DEF Close, Put, Cleared
<1> HIDE DEF q
<1>4. /\ u \in ServerType /\ SameQueues(s, u)
      /\ u.receiver[n] = q /\ DOMAIN u.receiver = DOMAIN s.receiver
      /\ \A k \in DOMAIN s.receiver : k # n => u.receiver[k] = s.receiver[k]
      /\ u.limit = s.limit /\ u.fate = s.fate /\ u.m_acceptor = s.m_acceptor
      /\ u.m_outer_set = s.m_outer_set /\ u.m_heartbeat_timer = s.m_heartbeat_timer
      /\ u.starts = s.starts
  BY <1>1, <1>2, PutIs
<1> HIDE DEF u
<1>5. ASSUME NEW k \in DOMAIN s.receiver
      PROVE  LET p == u.receiver[k]
             IN  /\ SameReader(s.receiver[k], p)
                 /\ p.told > 0 => ~p.m_socket
                 /\ p.m_socket /\ Has(s, Writes(k)) => p.m_executing
                 /\ p.told + Load(s, k) <= 2
                 /\ s.receiver[k].closed => p.closed
  BY <1>1, <1>2, <1>4, SameReaderIs DEF Lanes
<1>6. Sound(u) /\ \A Q : Has(u, Q) <=> Has(s, Q)
  BY <1>1, <1>4, <1>5, ReceiversKeep
<1>7. Frame(s, u)
  BY <1>4, <1>5, <1>6 DEF Frame
<1>8. Sound(v) /\ SameButQueues(u, v) /\ \A Q : Has(v, Q) <=> Has(u, Q)
  BY <1>6, AbortKeeps
<1> HIDE DEF v
<1>9. Sound(t) /\ SameButQueues(v, t) /\ \A Q : Has(t, Q) <=> Has(v, Q)
  BY <1>8, AbortKeeps
<1> HIDE DEF t
<1>10. Frame(u, v) /\ Frame(v, t)
  BY <1>8, <1>9, SameButQueuesFrame
<1>11. Frame(s, t)
  BY <1>7, <1>10, FrameTransitive
<1>12. t.receiver = u.receiver
  BY <1>8, <1>9 DEF SameButQueues
<1>13. \A Q : Has(t, Q) <=> Has(s, Q)
  BY <1>6, <1>8, <1>9
<1>14. QED
  BY <1>2, <1>3, <1>4, <1>9, <1>11, <1>12, <1>13

-----------------------------------------------------------------------------
(* A receiver is changed, but what it has read is not.                     *)
LEMMA PutKeeps ==
    ASSUME NEW s, Sound(s), NEW n \in DOMAIN s.receiver, NEW q \in ReceiverType,
           SameReader(s.receiver[n], q), q.told > 0 => ~q.m_socket,
           q.m_socket /\ Has(s, Writes(n)) => q.m_executing,
           q.told + Load(s, n) <= 2, s.receiver[n].closed => q.closed
    PROVE  LET t == Put(s, n, q)
           IN  /\ Sound(t) /\ Frame(s, t) /\ SameQueues(s, t)
               /\ \A Q : Has(t, Q) <=> Has(s, Q)
               /\ t.receiver[n] = q
               /\ \A k \in DOMAIN s.receiver : k # n => t.receiver[k] = s.receiver[k]
<1> DEFINE t == Put(s, n, q)
<1>1. /\ s \in ServerType /\ s.m_outer_set \subseteq DOMAIN s.receiver
      /\ \A k \in DOMAIN s.receiver : Lanes(s, k)
  BY SoundIs DEF Refers
<1>2. /\ t \in ServerType /\ SameQueues(s, t)
      /\ t.receiver[n] = q /\ DOMAIN t.receiver = DOMAIN s.receiver
      /\ \A k \in DOMAIN s.receiver : k # n => t.receiver[k] = s.receiver[k]
      /\ t.limit = s.limit /\ t.fate = s.fate /\ t.m_acceptor = s.m_acceptor
      /\ t.m_outer_set = s.m_outer_set /\ t.m_heartbeat_timer = s.m_heartbeat_timer
      /\ t.starts = s.starts
  BY <1>1, PutIs
<1> HIDE DEF t
<1>3. ASSUME NEW k \in DOMAIN s.receiver
      PROVE  LET p == t.receiver[k]
             IN  /\ SameReader(s.receiver[k], p)
                 /\ p.told > 0 => ~p.m_socket
                 /\ p.m_socket /\ Has(s, Writes(k)) => p.m_executing
                 /\ p.told + Load(s, k) <= 2
                 /\ s.receiver[k].closed => p.closed
  BY <1>1, <1>2, SameReaderIs DEF Lanes
<1>4. Sound(t) /\ \A Q : Has(t, Q) <=> Has(s, Q)
  BY <1>1, <1>2, <1>3, ReceiversKeep
<1>5. Frame(s, t)
  BY <1>2, <1>3, <1>4 DEF Frame
<1>6. QED
  BY <1>2, <1>4, <1>5 DEF t

(* The sockets stay.                                                       *)
SameSockets(s, t) ==
    \A k \in DOMAIN s.receiver : s.receiver[k].m_socket => t.receiver[k].m_socket

LEMMA OpenCarries ==
    ASSUME NEW s, Good(s), NEW t, Sound(t), Frame(s, t), SameSockets(s, t)
    PROVE  Good(t)
<1>1. s.m_outer_set \subseteq DOMAIN s.receiver
  BY DEF Good, Sound, Refers
<1>2. Open(t)
  BY <1>1 DEF Good, Open, Frame, SameSockets
<1>3. QED
  BY <1>2 DEF Good

LEMMA ReceiverIs ==
    ASSUME NEW s, Sound(s), NEW n \in DOMAIN s.receiver
    PROVE  LET r == s.receiver[n]
           IN  /\ r \in ReceiverType /\ r.m_pocket_list \in Nat /\ r.told \in Nat
               /\ Single(s, Reads(n)) /\ Single(s, Writes(n))
               /\ r.told > 0 => ~r.m_socket
               /\ r.m_socket /\ Has(s, Writes(n)) => r.m_executing
               /\ r.told + Load(s, n) <= 2
<1>1. s.receiver[n] \in ReceiverType /\ Lanes(s, n)
  BY SoundIs, Elements
<1>2. QED
  BY <1>1 DEF ReceiverType, Lanes

(* What a member function that sends leaves behind.                        *)
Sent(s, t) == Sound(t) /\ Frame(s, t) /\ SameSockets(s, t)

LEMMA SentTransitive ==
    ASSUME NEW s, NEW t, NEW u, Sent(s, t), Sent(t, u)
    PROVE  Sent(s, u)
<1>1. Frame(s, u)
  BY FrameTransitive DEF Sent
<1>2. SameSockets(s, u)
  BY DEF Sent, SameSockets, Frame
<1>3. QED
  BY <1>1, <1>2 DEF Sent

Executes(r, executing) == [r EXCEPT !.m_executing = executing]
Pockets(r, pockets) == [r EXCEPT !.m_pocket_list = pockets]

LEMMA ExecutesKeeps ==
    ASSUME NEW s, Sound(s), NEW n \in DOMAIN s.receiver, NEW executing \in BOOLEAN,
           s.receiver[n].m_socket /\ Has(s, Writes(n)) => executing
    PROVE  LET t == Put(s, n, Executes(s.receiver[n], executing))
           IN  /\ Sent(s, t) /\ t.receiver[n].m_socket = s.receiver[n].m_socket
               /\ t.receiver[n].m_executing = executing
               /\ \A Q : Has(t, Q) <=> Has(s, Q)
<1> DEFINE r == s.receiver[n]
           q == Executes(r, executing)
           t == Put(s, n, q)
<1>1. /\ r \in ReceiverType /\ (r.told > 0 => ~r.m_socket)
      /\ r.told + Load(s, n) <= 2
  BY ReceiverIs
<1>2. q \in ReceiverType
  BY <1>1 DEF Executes, ReceiverType
<1>3. /\ SameReader(r, q) /\ q.told = r.told /\ q.m_socket = r.m_socket
      /\ q.closed = r.closed /\ q.m_executing = executing
  BY <1>1 DEF Executes, ReceiverType, SameReader
<1> HIDE DEF q
<1>4. /\ Sound(t) /\ Frame(s, t)
      /\ \A Q : Has(t, Q) <=> Has(s, Q)
      /\ t.receiver[n] = q
      /\ \A k \in DOMAIN s.receiver : k # n => t.receiver[k] = s.receiver[k]
  BY <1>1, <1>2, <1>3, PutKeeps
<1> HIDE DEF t
<1>5. SameSockets(s, t)
  BY <1>3, <1>4 DEF SameSockets
<1>6. QED
  BY <1>3, <1>4, <1>5 DEF Sent, t, q

LEMMA PocketsKeep ==
    ASSUME NEW s, Sound(s), NEW n \in DOMAIN s.receiver, NEW pockets \in Nat
    PROVE  LET t == Put(s, n, Pockets(s.receiver[n], pockets))
           IN  /\ Sent(s, t) /\ t.receiver[n].m_socket = s.receiver[n].m_socket
               /\ t.receiver[n].m_executing = s.receiver[n].m_executing
               /\ \A Q : Has(t, Q) <=> Has(s, Q)
<1> DEFINE r == s.receiver[n]
           q == Pockets(r, pockets)
           t == Put(s, n, q)
<1>1. /\ r \in ReceiverType /\ (r.told > 0 => ~r.m_socket)
      /\ r.m_socket /\ Has(s, Writes(n)) => r.m_executing
      /\ r.told + Load(s, n) <= 2
  BY ReceiverIs
<1>2. q \in ReceiverType
  BY <1>1 DEF Pockets, ReceiverType
<1>3. /\ SameReader(r, q) /\ q.told = r.told /\ q.m_socket = r.m_socket
      /\ q.closed = r.closed /\ q.m_executing = r.m_executing
  BY <1>1 DEF Pockets, ReceiverType, SameReader
<1> HIDE DEF q
<1>4. /\ Sound(t) /\ Frame(s, t)
      /\ \A Q : Has(t, Q) <=> Has(s, Q)
      /\ t.receiver[n] = q
      /\ \A k \in DOMAIN s.receiver : k # n => t.receiver[k] = s.receiver[k]
  BY <1>1, <1>2, <1>3, PutKeeps
<1> HIDE DEF t
<1>5. SameSockets(s, t)
  BY <1>3, <1>4 DEF SameSockets
<1>6. QED
  BY <1>3, <1>4, <1>5 DEF Sent, t, q

LEMMA NextSendKeeps ==
    ASSUME NEW s, Sound(s), NEW n \in DOMAIN s.receiver,
           s.receiver[n].m_socket => s.receiver[n].m_executing /\ ~Has(s, Writes(n)),
           NEW t \in NextSend(s, n)
    PROVE  Sent(s, t)
<1> DEFINE r == s.receiver[n]
           op == Op("write", n, "pocket")
<1>1. r.m_pocket_list \in Nat
  BY ReceiverIs
<1>2. CASE r.m_pocket_list = 0 \/ ~r.m_socket
  <2>1. t = Put(s, n, Executes(r, FALSE))
    BY <1>2 DEF NextSend, Put, Executes
  <2>2. QED
    BY <2>1, ExecutesKeeps
<1>3. CASE ~(r.m_pocket_list = 0 \/ ~r.m_socket)
  <2>1. PICK left \in {r.m_pocket_list - 1} \cup {k \in {Many} : r.m_pocket_list = Many} :
            t = Begin(Put(s, n, Pockets(r, left)), op)
    BY <1>3 DEF NextSend, Put, Pockets
  <2>2. left \in Nat
    BY <1>1, <1>3 DEF Many
  <2> DEFINE u == Put(s, n, Pockets(r, left))
  <2>3. /\ Sent(s, u) /\ u.receiver[n].m_socket = r.m_socket
        /\ u.receiver[n].m_executing = r.m_executing
        /\ \A Q : Has(u, Q) <=> Has(s, Q)
    BY <2>2, PocketsKeep
  <2> HIDE DEF u
  <2>4. Sound(u) /\ n \in DOMAIN u.receiver /\ DOMAIN s.receiver = DOMAIN u.receiver
    BY <2>3 DEF Sent, Frame
  <2>5. n \in Nat
    BY SoundIs, Fields
  <2>6. /\ op \in PendingOps /\ op.of = n
        /\ \A k : op \notin Reads(k) /\ (op \in Writes(k) => k = n)
    BY <2>5 DEF Op, Reads, Writes, PendingOps, WriteOps
  <2>7. OfReceiver(u, op)
    BY <2>4, <2>6 DEF OfReceiver
  <2>8. /\ Sound(t) /\ SameButQueues(u, t)
        /\ \A Q : Has(t, Q) <=> Has(u, Q) \/ op \in Q
    BY <1>3, <2>1, <2>3, <2>4, <2>6, <2>7, BeginKeeps DEF u
  <2>9. Frame(u, t) /\ SameSockets(u, t)
    BY <2>8, SameButQueuesFrame DEF SameSockets, SameButQueues
  <2>10. QED
    BY <2>3, <2>8, <2>9, SentTransitive DEF Sent
<1>4. QED
  BY <1>2, <1>3

LEMMA SendPocketKeeps ==
    ASSUME NEW s, Sound(s), NEW n \in DOMAIN s.receiver, NEW t \in SendPocket(s, n)
    PROVE  Sent(s, t)
<1> DEFINE r == s.receiver[n]
           pockets == IF r.m_pocket_list = Many THEN r.m_pocket_list ELSE r.m_pocket_list + 1
           u == Put(s, n, Pockets(r, pockets))
           v == Put(u, n, Executes(u.receiver[n], TRUE))
<1>1. /\ r.m_pocket_list \in Nat
      /\ r.m_socket /\ Has(s, Writes(n)) => r.m_executing
  BY ReceiverIs
<1>2. pockets \in Nat
  BY <1>1
<1>3. t \in SendUnlessSending(u, n)
  BY DEF SendPocket, Put, Pockets
<1> HIDE DEF pockets
<1>4. /\ Sent(s, u) /\ u.receiver[n].m_socket = r.m_socket
      /\ u.receiver[n].m_executing = r.m_executing
      /\ \A Q : Has(u, Q) <=> Has(s, Q)
  BY <1>2, PocketsKeep
<1> HIDE DEF u
<1>5. Sound(u) /\ n \in DOMAIN u.receiver
  BY <1>4 DEF Sent, Frame
<1>6. CASE u.receiver[n].m_executing
  BY <1>3, <1>4, <1>6 DEF SendUnlessSending
<1>7. CASE ~u.receiver[n].m_executing
  <2>1. t \in NextSend(v, n)
    BY <1>3, <1>7 DEF SendUnlessSending, Put, Executes
  <2>2. /\ Sent(u, v) /\ v.receiver[n].m_socket = u.receiver[n].m_socket
        /\ v.receiver[n].m_executing
        /\ \A Q : Has(v, Q) <=> Has(u, Q)
    BY <1>5, ExecutesKeeps
  <2> HIDE DEF v
  <2>3. Sound(v) /\ n \in DOMAIN v.receiver
    BY <1>5, <2>2 DEF Sent, Frame
  <2>4. v.receiver[n].m_socket => ~Has(v, Writes(n))
    BY <1>1, <1>4, <1>7, <2>2
  <2>5. Sent(v, t)
    BY <2>1, <2>2, <2>3, <2>4, NextSendKeeps
  <2>6. QED
    BY <1>4, <2>2, <2>5, SentTransitive
<1>8. QED
  BY <1>6, <1>7

-----------------------------------------------------------------------------
(* Accepting.                                                              *)
LEMMA NextAcceptKeeps ==
    ASSUME NEW s, Sound(s), NEW error_count \in Nat
    PROVE  LET t == NextAccept(s, error_count)
           IN  Sent(s, t) /\ Accepting(t)
<1> DEFINE op == Op("accept", s.m_acceptor, error_count)
           t == NextAccept(s, error_count)
<1>1. s \in ServerType /\ s.m_acceptor \in Nat
  BY SoundIs, Fields
<1>2. CASE s.m_acceptor = 0
  <2>1. t = s
    BY <1>2 DEF NextAccept
  <2>2. QED
    BY <1>2, <2>1, FrameSame DEF Sent, SameSockets, Accepting
<1>3. CASE s.m_acceptor # 0
  <2>1. t = Begin(s, op)
    BY <1>3 DEF NextAccept
  <2>2. /\ op \in PendingOps /\ op \in Accepts /\ OfReceiver(s, op)
        /\ \A k : op \notin Reads(k) /\ op \notin Writes(k)
    BY <1>1 DEF Op, Reads, Writes, PendingOps, AcceptOps, Accepts, OfReceiver,
                ReadOps, WriteOps
  <2> HIDE DEF t, op
  <2>3. /\ Sound(t) /\ SameButQueues(s, t)
        /\ \A Q : Has(t, Q) <=> Has(s, Q) \/ op \in Q
    BY <2>1, <2>2, BeginKeeps
  <2>4. Frame(s, t) /\ SameSockets(s, t)
    BY <2>3, SameButQueuesFrame DEF SameSockets, SameButQueues
  <2>5. Has(t, Accepts)
    BY <2>2, <2>3
  <2>6. QED
    BY <2>3, <2>4, <2>5 DEF Sent, Accepting, t
<1>4. QED
  BY <1>2, <1>3

(* What a call of the application leaves behind.                           *)
Called(s, t) ==
    /\ Good(t) /\ t.limit = s.limit
    /\ DOMAIN t.receiver = DOMAIN s.receiver
    /\ Hearing(s, {}) => Hearing(t, {})
    /\ Accepting(s) => Accepting(t)

LEMMA SentIsCalled ==
    ASSUME NEW s, Good(s), NEW t, Sent(s, t)
    PROVE  Called(s, t)
<1>1. Good(t)
  BY OpenCarries DEF Sent
<1>2. (Hearing(s, {}) => Hearing(t, {})) /\ (Accepting(s) => Accepting(t))
  BY FrameCarries DEF Sent, Good, Sound
<1>3. QED
  BY <1>1, <1>2 DEF Called, Sent, Frame

LEMMA StartKeeps ==
    ASSUME NEW s, Good(s)
    PROVE  Called(s, Start(s))
<1> DEFINE k == s.starts + 1
           u == [s EXCEPT !.m_acceptor = k, !.m_heartbeat_timer = k, !.starts = k]
           op == Op("heartbeat", k, 0)
           v == Begin(u, op)
           t == NextAccept(v, 0)
<1>1. /\ Sound(s) /\ s \in ServerType /\ s.starts \in Nat /\ Open(s)
      /\ s.m_outer_set \subseteq DOMAIN s.receiver
      /\ \A n \in DOMAIN s.receiver : Lanes(s, n)
  BY Fields DEF Good, Sound, Refers
<1>2. Start(s) = t
  BY DEF Start
<1>3. k \in Nat
  BY <1>1
<1> HIDE DEF k
<1>4. u \in ServerType
  BY <1>1, <1>3 DEF ServerType
<1>5. /\ u.limit = s.limit /\ u.m_outer_set = s.m_outer_set /\ u.receiver = s.receiver
      /\ u.fate = s.fate /\ u.m_acceptor = k
      /\ u.pending = s.pending /\ u.ready = s.ready
  BY <1>1 DEF ServerType
<1> HIDE DEF u
<1>6. SameQueues(s, u)
  BY <1>5 DEF SameQueues
<1>7. Sound(u) /\ \A Q : Has(u, Q) <=> Has(s, Q)
  BY <1>1, <1>4, <1>5, <1>6, ReceiversKeep, SameReaderIs DEF Lanes
<1>8. /\ op \in PendingOps /\ OfReceiver(u, op)
      /\ \A n : op \notin Reads(n) /\ op \notin Writes(n)
  BY <1>3 DEF Op, Reads, Writes, PendingOps, HeartbeatOps, OfReceiver, ReadOps, WriteOps
<1> HIDE DEF op
<1>9. /\ Sound(v) /\ SameButQueues(u, v)
      /\ \A Q : Has(v, Q) <=> Has(u, Q) \/ op \in Q
  BY <1>7, <1>8, BeginKeeps
<1> HIDE DEF v
<1>10. Sent(v, t) /\ Accepting(t)
  BY <1>9, NextAcceptKeeps
<1> HIDE DEF t
<1>11. /\ v.receiver = s.receiver /\ v.m_outer_set = s.m_outer_set /\ v.fate = s.fate
       /\ v.limit = s.limit
  BY <1>5, <1>9 DEF SameButQueues
<1>12. Good(v)
  BY <1>1, <1>9, <1>11 DEF Good, Open
<1>13. Hearing(s, {}) => Hearing(v, {})
  BY <1>7, <1>9, <1>11 DEF Hearing
<1>14. Called(v, t)
  BY <1>10, <1>12, SentIsCalled
<1>15. QED
  BY <1>2, <1>10, <1>11, <1>13, <1>14 DEF Called

-----------------------------------------------------------------------------
(* Closing the server closes the receivers, one after another.             *)
LEMMA OuterIsFinite ==
    ASSUME NEW s, Sound(s)
    PROVE  IsFiniteSet(s.m_outer_set)
<1>1. s.m_outer_set \subseteq 1..Len(s.receiver) /\ Len(s.receiver) \in Nat
  BY SoundIs, Fields DEF Refers
<1>2. IsFiniteSet(1..Len(s.receiver))
  <2>1. PICK k \in Nat : k = Len(s.receiver)
    BY <1>1
  <2>2. k \in Int /\ 1 \in Int
    BY <2>1
  <2>3. IsFiniteSet(1..k)
    BY ONLY <2>2, FS_Interval
  <2>4. QED
    BY ONLY <2>1, <2>3
<1>3. QED
  BY <1>1, <1>2, FS_Subset

Closed(base, W) == FoldSet(LAMBDA n, t : Close(t, n), base, W)

LEMMA ClosedKeeps ==
    ASSUME NEW s, Sound(s)
    PROVE  Sound(Closed(s, s.m_outer_set)) /\ Frame(s, Closed(s, s.m_outer_set))
<1> DEFINE W == s.m_outer_set
           V == {t \in ServerType : Sound(t) /\ Frame(s, t)}
           step == [x \in W |-> [t \in V |-> Close(t, x)]]
           Is(g) == g = [X \in SUBSET W |->
                           IF X = {} THEN s ELSE Close(g[X \ {Some(X)}], Some(X))]
           h == CHOOSE g : Is(g)
<1>1. s \in V
  BY SoundIs, FrameSame
<1>2. ASSUME NEW x \in W, NEW t \in V PROVE Close(t, x) \in V
  <2>1. x \in DOMAIN t.receiver
    BY SoundIs DEF Frame, Refers
  <2>2. Sound(Close(t, x)) /\ Frame(t, Close(t, x))
    BY <2>1, CloseIs
  <2>3. Frame(s, Close(t, x))
    BY <2>2, FrameTransitive
  <2>4. QED
    BY <2>2, <2>3, SoundIs
<1>3. IsSetStep(step, W, V)
  BY <1>2 DEF IsSetStep
<1>4. \A x \in W, t \in V : step[x][t] = Close(t, x)
  OBVIOUS
<1>5. IsFiniteSet(W)
  BY OuterIsFinite
<1>6. Closed(s, W) = h[W]
  BY DEF Closed, FoldSet, MapThenFoldSet, Some
<1>7. \A t \in V : Sound(t) /\ Frame(s, t)
  OBVIOUS
<1> HIDE DEF V, step
<1>8. PICK f : FoldBy(f, step, s, W, V)
  BY <1>1, <1>3, <1>5, FoldExists
<1>9. Is(f)
  <2>1. /\ f \in [SUBSET W -> V] /\ f[{}] = s
        /\ \A X \in SUBSET W : X # {} => f[X] = step[Some(X)][f[X \ {Some(X)}]]
    BY <1>8 DEF FoldBy
  <2>2. ASSUME NEW X \in SUBSET W, X # {} PROVE f[X] = Close(f[X \ {Some(X)}], Some(X))
    <3>1. Some(X) \in W
      BY <2>2 DEF Some
    <3>2. f[X \ {Some(X)}] \in V
      BY <2>1
    <3>3. QED
      BY <1>4, <2>1, <2>2, <3>1, <3>2
  <2>3. \A X \in SUBSET W : f[X] = IF X = {} THEN s ELSE Close(f[X \ {Some(X)}], Some(X))
    BY <2>1, <2>2
  <2>4. QED
    BY <2>1, <2>3
<1>10. Is(h)
  BY <1>9
<1> HIDE DEF h
<1>11. FollowsStep(h, step, s, W, V)
  <2>1. h[{}] = s
    BY <1>10
  <2>2. ASSUME NEW X \in SUBSET W, X # {}, h[X \ {Some(X)}] \in V
        PROVE  h[X] = step[Some(X)][h[X \ {Some(X)}]]
    <3>1. Some(X) \in W
      BY <2>2 DEF Some
    <3>2. h[X] = Close(h[X \ {Some(X)}], Some(X))
      BY <1>10, <2>2
    <3>3. QED
      BY <1>4, <2>2, <3>1, <3>2
  <2>3. QED
    BY <2>1, <2>2 DEF FollowsStep
<1> DEFINE Q == (SUBSET W) \X V
<1>12. KeptBy(Q, step, s, W, V)
  <2>1. <<{}, s>> \in Q
    BY <1>1
  <2>2. ASSUME NEW X \in SUBSET W, NEW x \in X, NEW v \in V PROVE <<X, step[x][v]>> \in Q
    BY <1>3 DEF IsSetStep
  <2>3. QED
    BY <2>1, <2>2 DEF KeptBy
<1> HIDE DEF Q
<1>13. h[W] \in V
  BY <1>1, <1>3, <1>5, <1>11, <1>12, FoldKeeps
<1>14. QED
  BY <1>6, <1>7, <1>13

-----------------------------------------------------------------------------
(* Timers, counters and history are changed.                               *)
LEMMA OthersKeep ==
    ASSUME NEW s, Sound(s), NEW t \in ServerType, SameQueues(s, t), t.limit = s.limit,
           t.receiver = s.receiver, t.m_outer_set \subseteq s.m_outer_set
    PROVE  Sound(t) /\ \A Q : Has(t, Q) <=> Has(s, Q)
<1>1. /\ s \in ServerType /\ s.m_outer_set \subseteq DOMAIN s.receiver
      /\ \A n \in DOMAIN s.receiver : Lanes(s, n)
  BY SoundIs DEF Refers
<1>2. QED
  BY <1>1, ReceiversKeep, SameReaderIs DEF Lanes

LEMMA CountedCalled ==
    ASSUME NEW s, NEW u, Called(s, u), NEW t \in ServerType,
           SameQueues(u, t), t.limit = u.limit, t.receiver = u.receiver,
           t.m_outer_set = u.m_outer_set, t.fate = u.fate, t.m_acceptor = u.m_acceptor
    PROVE  Called(s, t)
<1>1. Sound(u) /\ Open(u)
  BY DEF Called, Good
<1>2. Sound(t) /\ \A Q : Has(t, Q) <=> Has(u, Q)
  BY <1>1, OthersKeep
<1>3. Good(t)
  BY <1>1, <1>2 DEF Good, Open
<1>4. (Hearing(u, {}) => Hearing(t, {})) /\ (Accepting(u) => Accepting(t))
  BY <1>2 DEF Hearing, Accepting
<1>5. QED
  BY <1>3, <1>4 DEF Called

LEMMA CloseServerKeeps ==
    ASSUME NEW s, Good(s)
    PROVE  LET t == CloseServer(s)
           IN  Called(s, t) /\ Hearing(t, {}) /\ Accepting(t)
<1> DEFINE a == Abort(s, "accept", s.m_acceptor)
           b == Abort(a, "heartbeat", a.m_heartbeat_timer)
           c == [b EXCEPT !.m_heartbeat_timer = 0]
           d == Closed(c, s.m_outer_set)
           t == [d EXCEPT !.m_acceptor = 0, !.m_outer_set = {}]
<1>1. Sound(s)
  BY DEF Good
<1>2. CloseServer(s) = t
  BY DEF CloseServer, ReleaseTimer, Closed
<1>3. Sound(a) /\ SameButQueues(s, a)
  BY <1>1, AbortKeeps
<1> HIDE DEF a
<1>4. Sound(b) /\ SameButQueues(a, b)
  BY <1>3, AbortKeeps
<1> HIDE DEF b
<1>5. c \in ServerType
  <2>1. b \in ServerType
    BY <1>4, SoundIs
  <2>2. QED
    BY <2>1 DEF ServerType
<1>6. /\ SameQueues(b, c) /\ c.limit = b.limit /\ c.receiver = b.receiver
      /\ c.m_outer_set = b.m_outer_set
  BY <1>4, SoundIs DEF ServerType, SameQueues
<1> HIDE DEF c
<1>7. Sound(c)
  BY <1>4, <1>5, <1>6, OthersKeep
<1>8. c.m_outer_set = s.m_outer_set /\ c.receiver = s.receiver /\ c.limit = s.limit
  BY <1>3, <1>4, <1>6 DEF SameButQueues
<1>9. Sound(d) /\ Frame(c, d)
  BY <1>7, <1>8, ClosedKeeps
<1> HIDE DEF d
<1>10. t \in ServerType
  <2>1. d \in ServerType
    BY <1>9, SoundIs
  <2>2. QED
    BY <2>1 DEF ServerType
<1>11. /\ SameQueues(d, t) /\ t.limit = d.limit /\ t.receiver = d.receiver
       /\ t.m_outer_set = {} /\ t.m_acceptor = 0
  BY <1>9, SoundIs DEF ServerType, SameQueues
<1> HIDE DEF t
<1>12. Sound(t)
  BY <1>9, <1>10, <1>11, OthersKeep
<1>13. t.limit = s.limit /\ DOMAIN t.receiver = DOMAIN s.receiver
  BY <1>8, <1>9, <1>11 DEF Frame
<1>14. Open(t) /\ Hearing(t, {}) /\ Accepting(t)
  BY <1>11 DEF Open, Hearing, Accepting
<1>15. QED
  BY <1>2, <1>12, <1>13, <1>14 DEF Called, Good

LEMMA CloseByApplicationKeeps ==
    ASSUME NEW s, Good(s), NEW n \in DOMAIN s.receiver
    PROVE  Called(s, CloseByApplication(s, n))
<1> DEFINE u == Close(s, n)
           r == u.receiver[n]
           q == [r EXCEPT !.closed = TRUE]
           t == Put(u, n, q)
<1>1. Sound(s) /\ Open(s)
  BY DEF Good
<1>2. CloseByApplication(s, n) = t
  BY DEF CloseByApplication, Put
<1>3. /\ Sound(u) /\ Frame(s, u) /\ ~r.m_socket
      /\ \A k \in DOMAIN s.receiver : k # n => u.receiver[k] = s.receiver[k]
  BY <1>1, CloseIs
<1> HIDE DEF u
<1>4. n \in DOMAIN u.receiver
  BY <1>3 DEF Frame
<1>5. r \in ReceiverType /\ r.told + Load(u, n) <= 2
  BY <1>3, <1>4, ReceiverIs
<1> HIDE DEF r
<1>6. q \in ReceiverType
  BY <1>5 DEF ReceiverType
<1>7. SameReader(r, q) /\ q.told = r.told /\ q.m_socket = r.m_socket /\ q.closed
  BY <1>5 DEF ReceiverType, SameReader
<1> HIDE DEF q
<1>8. /\ Sound(t) /\ Frame(u, t) /\ t.receiver[n] = q
      /\ \A k \in DOMAIN u.receiver : k # n => t.receiver[k] = u.receiver[k]
  BY <1>3, <1>4, <1>5, <1>6, <1>7, PutKeeps DEF r
<1> HIDE DEF t
<1>9. Frame(s, t)
  BY <1>3, <1>8, FrameTransitive
<1>10. Refers(s)
  BY <1>1, SoundIs
<1>11. Open(t)
  <2>1. ASSUME NEW k \in t.m_outer_set PROVE t.receiver[k].closed \/ t.receiver[k].m_socket
    <3>1. k \in s.m_outer_set /\ k \in DOMAIN s.receiver /\ k \in DOMAIN u.receiver
      BY <1>3, <1>9, <1>10, <2>1 DEF Frame, Refers
    <3>2. CASE k = n
      BY <1>7, <1>8, <3>2
    <3>3. CASE k # n
      BY <1>1, <1>3, <1>8, <3>1, <3>3 DEF Open
    <3>4. QED
      BY <3>2, <3>3
  <2>2. QED
    BY <2>1 DEF Open
<1>12. (Hearing(s, {}) => Hearing(t, {})) /\ (Accepting(s) => Accepting(t))
  BY <1>9, <1>10, FrameCarries
<1>13. QED
  BY <1>2, <1>8, <1>9, <1>11, <1>12 DEF Called, Good, Frame

(* Whatever the application does, in a callback or not.                    *)
LEMMA CallsKeep ==
    ASSUME NEW s, Good(s), NEW t \in Calls(s)
    PROVE  Called(s, t)
<1>1. Sound(s)
  BY DEF Good
<1>2. CASE t = Start(s)
  BY <1>2, StartKeeps
<1>3. ASSUME NEW u, Called(s, u), t = [u EXCEPT !.closes = @ + 1] PROVE Called(s, t)
  <2>1. u \in ServerType
    BY <1>3 DEF Called, Good, Sound
  <2>2. t \in ServerType
    <3>1. u.closes + 1 \in Nat
      BY <2>1, Fields
    <3>2. t = [u EXCEPT !.closes = u.closes + 1]
      BY <1>3
    <3>3. QED
      BY <2>1, <3>1, <3>2 DEF ServerType
  <2>3. /\ SameQueues(u, t) /\ t.limit = u.limit /\ t.receiver = u.receiver
        /\ t.m_outer_set = u.m_outer_set /\ t.fate = u.fate /\ t.m_acceptor = u.m_acceptor
    BY <1>3, <2>1 DEF ServerType, SameQueues
  <2>4. QED
    BY <1>3, <2>2, <2>3, CountedCalled
<1>4. ASSUME NEW u, Called(s, u), t = [u EXCEPT !.sends = @ + 1] PROVE Called(s, t)
  <2>1. u \in ServerType
    BY <1>4 DEF Called, Good, Sound
  <2>2. t \in ServerType
    <3>1. u.sends + 1 \in Nat
      BY <2>1, Fields
    <3>2. t = [u EXCEPT !.sends = u.sends + 1]
      BY <1>4
    <3>3. QED
      BY <2>1, <3>1, <3>2 DEF ServerType
  <2>3. /\ SameQueues(u, t) /\ t.limit = u.limit /\ t.receiver = u.receiver
        /\ t.m_outer_set = u.m_outer_set /\ t.fate = u.fate /\ t.m_acceptor = u.m_acceptor
    BY <1>4, <2>1 DEF ServerType, SameQueues
  <2>4. QED
    BY <1>4, <2>2, <2>3, CountedCalled
<1>5. ASSUME NEW n \in DOMAIN s.receiver, NEW u \in SendPocket(s, n) PROVE Called(s, u)
  BY <1>1, SendPocketKeeps, SentIsCalled
<1>6. \/ t = Start(s)
      \/ \E u : u = CloseServer(s) /\ t = [u EXCEPT !.closes = @ + 1]
      \/ \E n \in DOMAIN s.receiver : \E u :
            u = CloseByApplication(s, n) /\ t = [u EXCEPT !.closes = @ + 1]
      \/ \E n \in DOMAIN s.receiver : \E u \in SendPocket(s, n) :
            t = [u EXCEPT !.sends = @ + 1]
  BY DEF Calls
<1>7. QED
  BY <1>2, <1>3, <1>4, <1>5, <1>6, CloseServerKeeps, CloseByApplicationKeeps

LEMMA CallbackKeeps ==
    ASSUME NEW s, Good(s), NEW t \in Callback(s)
    PROVE  Called(s, t)
<1>1. Called(s, s)
  BY DEF Called
<1>2. QED
  BY <1>1, CallsKeep DEF Callback

-----------------------------------------------------------------------------
(* The server is as it is between two handlers.                            *)
Settled(s) == Good(s) /\ Hearing(s, {}) /\ Accepting(s)

LEMMA CalledSettled ==
    ASSUME NEW s, Settled(s), NEW t, Called(s, t)
    PROVE  Settled(t)
  BY DEF Settled, Called

(* A receiver that has lost its peer is closed and taken out of the set.   *)
LEMMA HandleOuterDisconnectedKeeps ==
    ASSUME NEW s, Good(s), NEW n \in DOMAIN s.receiver,
           Hearing(s, {n}), Accepting(s),
           s.receiver[n].told + Load(s, n) <= 1,
           NEW t \in HandleOuterDisconnected(s, n)
    PROVE  Settled(t)
<1> DEFINE u == Close(s, n)
           r == u.receiver[n]
           q == [r EXCEPT !.told = @ + 1]
           v == Put(u, n, q)
           w == [v EXCEPT !.m_outer_set = @ \ {n}]
<1>1. Sound(s) /\ Open(s) /\ Refers(s)
  BY SoundIs DEF Good
<1>2. t \in Callback(w)
  BY DEF HandleOuterDisconnected, Put
<1>3. /\ Sound(u) /\ Frame(s, u) /\ ~r.m_socket /\ r.told = s.receiver[n].told
      /\ \A Q : Has(u, Q) <=> Has(s, Q)
      /\ \A k \in DOMAIN s.receiver : k # n => u.receiver[k] = s.receiver[k]
  BY <1>1, CloseIs
<1>4. s.receiver[n].told \in Nat
  BY <1>1, ReceiverIs
<1> HIDE DEF u
<1>5. n \in DOMAIN u.receiver
  BY <1>3 DEF Frame
<1>6. r \in ReceiverType
  BY <1>3, <1>5, ReceiverIs
<1>7. Load(u, n) = Load(s, n) /\ Load(s, n) \in Nat
  BY <1>3 DEF Load, Bit
<1> HIDE DEF r
<1>8. r.told \in Nat
  BY <1>6 DEF ReceiverType
<1>9. q \in ReceiverType /\ q.told = r.told + 1
  <2>1. PICK told : told = r.told + 1
    OBVIOUS
  <2>2. told \in Nat /\ q = [r EXCEPT !.told = told]
    BY <1>8, <2>1
  <2>3. QED
    BY <1>6, <2>1, <2>2 DEF ReceiverType
<1>10. SameReader(r, q) /\ q.m_socket = r.m_socket /\ (r.closed => q.closed)
  BY <1>6 DEF ReceiverType, SameReader
<1> HIDE DEF q
<1>11. q.told + Load(u, n) <= 2
  BY <1>3, <1>4, <1>7, <1>9
<1>12. /\ Sound(v) /\ Frame(u, v)
       /\ \A k \in DOMAIN u.receiver : k # n => v.receiver[k] = u.receiver[k]
  BY <1>3, <1>5, <1>6, <1>9, <1>10, <1>11, PutKeeps DEF r
<1> HIDE DEF v
<1>13. Frame(s, v)
  BY <1>3, <1>12, FrameTransitive
<1>14. v \in ServerType
  BY <1>12, SoundIs
<1>15. w \in ServerType
  BY <1>14 DEF ServerType
<1>16. /\ SameQueues(v, w) /\ w.limit = v.limit /\ w.receiver = v.receiver
       /\ w.m_outer_set = v.m_outer_set \ {n} /\ w.fate = v.fate
       /\ w.m_acceptor = v.m_acceptor
  BY <1>14 DEF ServerType, SameQueues
<1> HIDE DEF w
<1>17. Sound(w) /\ \A Q : Has(w, Q) <=> Has(v, Q)
  BY <1>12, <1>15, <1>16, OthersKeep
<1>18. Open(w)
  <2>1. ASSUME NEW k \in w.m_outer_set PROVE w.receiver[k].closed \/ w.receiver[k].m_socket
    <3>1. k # n /\ k \in s.m_outer_set /\ k \in DOMAIN s.receiver /\ k \in DOMAIN u.receiver
      BY <1>1, <1>3, <1>13, <1>16, <2>1 DEF Frame, Refers
    <3>2. QED
      BY <1>1, <1>3, <1>12, <1>16, <3>1 DEF Open
  <2>2. QED
    BY <2>1 DEF Open
<1>19. Hearing(v, {n}) /\ Accepting(v)
  BY <1>1, <1>13, FrameCarries
<1>20. Hearing(w, {}) /\ Accepting(w)
  BY <1>16, <1>17, <1>19 DEF Hearing, Accepting
<1>21. Settled(w)
  BY <1>17, <1>18, <1>20 DEF Settled, Good
<1>22. QED
  BY <1>2, <1>21, CallbackKeeps, CalledSettled DEF Settled

-----------------------------------------------------------------------------
(* The heartbeat is sent to one receiver after another.                    *)
SentToAll(base, W) == FoldSet(LAMBDA n, S : UNION {SendPocket(t, n) : t \in S}, base, W)

SentFrom(s) == {t \in ServerType : Sent(s, t)}

LEMMA SentToAllKeeps ==
    ASSUME NEW s, Sound(s), NEW W, W = s.m_outer_set, NEW t \in SentToAll({s}, W)
    PROVE  Sent(s, t)
<1> DEFINE V == SUBSET SentFrom(s)
           To(x, S) == UNION {SendPocket(u, x) : u \in S}
           step == [x \in W |-> [S \in V |-> To(x, S)]]
           Is(g) == g = [X \in SUBSET W |->
                           IF X = {} THEN {s} ELSE To(Some(X), g[X \ {Some(X)}])]
           h == CHOOSE g : Is(g)
<1>1. {s} \in V
  BY SoundIs, FrameSame DEF Sent, SameSockets, SentFrom
<1>2. ASSUME NEW x \in W, NEW S \in V PROVE To(x, S) \in V
  <2>1. ASSUME NEW u \in S, NEW v \in SendPocket(u, x) PROVE v \in SentFrom(s)
    <3>1. Sent(s, u)
      BY DEF SentFrom
    <3>2. Sound(u) /\ x \in DOMAIN u.receiver
      BY <3>1, SoundIs DEF Sent, Frame, Refers
    <3>3. Sent(u, v)
      BY <2>1, <3>2, SendPocketKeeps
    <3>4. Sent(s, v)
      BY <3>1, <3>3, SentTransitive
    <3>5. QED
      BY <3>4, SoundIs DEF Sent, SentFrom
  <2>2. QED
    BY <2>1
<1>3. IsSetStep(step, W, V)
  BY <1>2 DEF IsSetStep
<1>4. \A x \in W, S \in V : step[x][S] = To(x, S)
  OBVIOUS
<1>5. IsFiniteSet(W)
  BY OuterIsFinite
<1>6. SentToAll({s}, W) = h[W]
  BY DEF SentToAll, FoldSet, MapThenFoldSet, Some
<1>7. \A S \in V : \A u \in S : Sent(s, u)
  BY DEF SentFrom
<1> HIDE DEF V, step, To
<1> DEFINE base == {s}
<1>8. base \in V
  BY <1>1
<1> HIDE DEF base
<1>9. PICK f : FoldBy(f, step, base, W, V)
  BY <1>3, <1>5, <1>8, FoldExists
<1>10. Is(f)
  <2>1. /\ f \in [SUBSET W -> V] /\ f[{}] = base
        /\ \A X \in SUBSET W : X # {} => f[X] = step[Some(X)][f[X \ {Some(X)}]]
    BY <1>9 DEF FoldBy
  <2>2. ASSUME NEW X \in SUBSET W, X # {} PROVE f[X] = To(Some(X), f[X \ {Some(X)}])
    <3>1. Some(X) \in W
      BY <2>2 DEF Some
    <3>2. f[X \ {Some(X)}] \in V
      BY <2>1
    <3>3. QED
      BY <1>4, <2>1, <2>2, <3>1, <3>2
  <2>3. \A X \in SUBSET W : f[X] = IF X = {} THEN {s} ELSE To(Some(X), f[X \ {Some(X)}])
    BY <2>1, <2>2 DEF base
  <2>4. QED
    BY <2>1, <2>3
<1>11. Is(h)
  BY <1>10
<1> HIDE DEF h
<1>12. FollowsStep(h, step, base, W, V)
  <2>1. h[{}] = base
    BY <1>11 DEF base
  <2>2. ASSUME NEW X \in SUBSET W, X # {}, h[X \ {Some(X)}] \in V
        PROVE  h[X] = step[Some(X)][h[X \ {Some(X)}]]
    <3>1. Some(X) \in W
      BY <2>2 DEF Some
    <3>2. h[X] = To(Some(X), h[X \ {Some(X)}])
      BY <1>11, <2>2
    <3>3. QED
      BY <1>4, <2>2, <3>1, <3>2
  <2>3. QED
    BY <2>1, <2>2 DEF FollowsStep
<1> DEFINE Q == (SUBSET W) \X V
<1>13. KeptBy(Q, step, base, W, V)
  <2>1. <<{}, base>> \in Q
    BY <1>8
  <2>2. ASSUME NEW X \in SUBSET W, NEW x \in X, NEW v \in V PROVE <<X, step[x][v]>> \in Q
    BY <1>3 DEF IsSetStep
  <2>3. QED
    BY <2>1, <2>2 DEF KeptBy
<1> HIDE DEF Q
<1>14. h[W] \in V
  BY <1>3, <1>5, <1>8, <1>12, <1>13, FoldKeeps
<1>15. QED
  BY <1>6, <1>7, <1>14

LEMMA HeartbeatKeeps ==
    ASSUME NEW s, Settled(s), NEW failed \in BOOLEAN, NEW t \in ServerSendHeartbeat(s, failed)
    PROVE  Settled(t)
<1> DEFINE timer == s.m_heartbeat_timer
           early == failed /\ timer # 0 /\ s.m_outer_set # {}
           b == [s EXCEPT !.early = @ \/ early]
           After(u) == IF timer = 0 THEN u
                       ELSE Begin(Abort(u, "heartbeat", timer), Op("heartbeat", timer, 0))
<1>1. /\ Good(s) /\ Sound(s) /\ s \in ServerType /\ timer \in Nat
      /\ Hearing(s, {}) /\ Accepting(s)
  BY SoundIs, Fields DEF Settled, Good
<1>2. PICK u \in SentToAll({b}, s.m_outer_set) : t = After(u)
  BY DEF ServerSendHeartbeat, SentToAll
<1>3. b \in ServerType
  BY <1>1 DEF ServerType
<1>4. /\ SameQueues(s, b) /\ b.limit = s.limit /\ b.receiver = s.receiver
      /\ b.m_outer_set = s.m_outer_set /\ b.fate = s.fate /\ b.m_acceptor = s.m_acceptor
      /\ b.m_heartbeat_timer = timer
  BY <1>1 DEF ServerType, SameQueues
<1> HIDE DEF b
<1>5. Sound(b) /\ \A Q : Has(b, Q) <=> Has(s, Q)
  BY <1>1, <1>3, <1>4, OthersKeep
<1>6. Good(b) /\ Hearing(b, {}) /\ Accepting(b)
  BY <1>1, <1>4, <1>5 DEF Good, Open, Hearing, Accepting
<1>7. Sent(b, u)
  BY <1>2, <1>4, <1>5, SentToAllKeeps
<1>8. Settled(u)
  BY <1>6, <1>7, SentIsCalled, CalledSettled DEF Settled
<1>9. CASE timer = 0
  BY <1>2, <1>8, <1>9
<1>10. CASE timer # 0
  <2> DEFINE v == Abort(u, "heartbeat", timer)
             op == Op("heartbeat", timer, 0)
             w == Begin(v, op)
  <2>1. t = w
    BY <1>2, <1>10
  <2>2. Good(u) /\ Sound(u)
    BY <1>8 DEF Settled, Good
  <2>3. Sound(v) /\ SameButQueues(u, v) /\ \A Q : Has(v, Q) <=> Has(u, Q)
    BY <2>2, AbortKeeps
  <2> HIDE DEF v
  <2>4. /\ op \in PendingOps /\ OfReceiver(v, op)
        /\ \A n : op \notin Reads(n) /\ op \notin Writes(n)
    BY <1>1 DEF Op, Reads, Writes, PendingOps, HeartbeatOps, OfReceiver, ReadOps, WriteOps
  <2> HIDE DEF op
  <2>5. Sound(w) /\ SameButQueues(v, w) /\ \A Q : Has(w, Q) <=> Has(v, Q) \/ op \in Q
    BY <2>3, <2>4, BeginKeeps
  <2> HIDE DEF w
  <2>6. Frame(u, v) /\ Frame(v, w) /\ w.receiver = u.receiver
    BY <2>3, <2>5, SameButQueuesFrame DEF SameButQueues
  <2>7. Sent(u, w)
    BY <2>5, <2>6, FrameTransitive DEF Sent, SameSockets
  <2>8. QED
    BY <1>8, <2>1, <2>2, <2>7, SentIsCalled, CalledSettled
<1>11. QED
  BY <1>9, <1>10

-----------------------------------------------------------------------------
(* Where messages end, and what the peer's stream is made of.              *)
LEMMA SizesAre ==
    ASSUME NEW s \in ServerType
    PROVE  s.limit.sizes \in Seq(Nat) /\ s.limit.frame \in Nat /\ s.limit.websockets \subseteq BOOLEAN
<1>1. s.limit \in Limits
  BY Fields
<1>2. QED
  BY <1>1, LimitsAssumption

LEMMA EndsAre ==
    ASSUME NEW sizes \in Seq(Nat)
    PROVE  /\ \A k \in 0..Len(sizes) : Ends(sizes)[k] \in Nat
           /\ Ends(sizes)[0] = 0
           /\ \A k \in 1..Len(sizes) :
                 Ends(sizes)[k] = Ends(sizes)[k - 1] + HeadSize + sizes[k]
<1> DEFINE n == Len(sizes)
           To(k, v) == v + HeadSize + sizes[k]
           step == [k \in 1..n |-> [v \in Nat |-> To(k, v)]]
           Is(g) == g = [k \in 0..n |-> IF k = 0 THEN 0 ELSE g[k - 1] + HeadSize + sizes[k]]
           h == CHOOSE g : Is(g)
<1>1. n \in Nat /\ HeadSize \in Nat /\ \A k \in 1..n : sizes[k] \in Nat
  BY ReaderAssumption
<1>2. \A k \in 1..n, v \in Nat : To(k, v) \in Nat
  BY <1>1
<1>3. Ends(sizes) = h
  BY DEF Ends
<1>4. \A k, v : To(k, v) = v + HeadSize + sizes[k]
  OBVIOUS
<1> HIDE DEF To
<1>5. IsStep(step, n, Nat)
  BY <1>2 DEF IsStep
<1>6. \A k \in 1..n, v \in Nat : step[k][v] = To(k, v)
  OBVIOUS
<1> HIDE DEF step
<1>7. PICK f : MadeBy(f, step, 0, n, Nat)
  <2> HIDE DEF n
  <2>1. QED
    BY <1>1, <1>5, StepsExist
<1>8. /\ f \in [0..n -> Nat] /\ f[0] = 0
      /\ \A k \in 1..n : f[k] = step[k][f[k - 1]]
  BY <1>7 DEF MadeBy
<1>9. \A k \in 1..n : f[k] = f[k - 1] + HeadSize + sizes[k]
  <2>1. TAKE k \in 1..n
  <2>2. k - 1 \in 0..n
    BY <1>1
  <2>3. f[k - 1] \in Nat
    BY <1>8, <2>2
  <2>4. QED
    BY <1>4, <1>6, <1>8, <2>3
<1>10. Is(f)
  <2>1. \A k \in 0..n : k = 0 \/ k \in 1..n
    BY <1>1
  <2>2. \A k \in 0..n : f[k] = IF k = 0 THEN 0 ELSE f[k - 1] + HeadSize + sizes[k]
    BY <1>8, <1>9, <2>1
  <2>3. QED
    BY <1>8, <2>2
<1>11. Is(h)
  BY <1>10
<1> HIDE DEF h
<1>12. h[0] = 0 /\ \A k \in 1..n : h[k] = h[k - 1] + HeadSize + sizes[k]
  <2>1. 0 \in 0..n /\ \A k \in 1..n : k \in 0..n /\ k # 0
    BY <1>1
  <2>2. QED
    BY <1>11, <2>1
<1>13. \A k \in 0..n : h[k] \in Nat
  <2> DEFINE T == {k \in Nat : k <= n => h[k] \in Nat}
  <2>1. 0 \in T
    BY <1>12
  <2>2. ASSUME NEW k \in Nat, k \in T PROVE k + 1 \in T
    <3>1. SUFFICES ASSUME k + 1 <= n PROVE h[k + 1] \in Nat
      OBVIOUS
    <3>2. k + 1 \in 1..n /\ (k + 1) - 1 = k /\ h[k] \in Nat
      BY <1>1, <2>2, <3>1
    <3>3. h[k + 1] = h[k] + HeadSize + sizes[k + 1]
      BY <1>12, <3>2
    <3>4. QED
      BY <1>1, <3>2, <3>3
  <2>3. Nat \subseteq T
    <3> HIDE DEF T
    <3>1. QED
      BY <2>1, <2>2, NatInductionOverSet
  <2>4. QED
    BY <1>1, <2>3
<1>14. QED
  BY <1>3, <1>12, <1>13

LEMMA EndsGrow ==
    ASSUME NEW sizes \in Seq(Nat), NEW i \in 0..Len(sizes), NEW j \in 0..Len(sizes), i <= j
    PROVE  Ends(sizes)[i] <= Ends(sizes)[j]
<1> DEFINE n == Len(sizes)
           e == Ends(sizes)
           T == {k \in Nat : i <= k /\ k <= n => e[i] <= e[k]}
<1>1. n \in Nat /\ HeadSize \in Nat /\ \A k \in 1..n : sizes[k] \in Nat
  BY ReaderAssumption
<1>2. /\ \A k \in 0..n : e[k] \in Nat
      /\ \A k \in 1..n : e[k] = e[k - 1] + HeadSize + sizes[k]
  BY EndsAre
<1> HIDE DEF e, n
<1>3. 0 \in T
  BY <1>1, <1>2 DEF n
<1>4. ASSUME NEW k \in Nat, k \in T PROVE k + 1 \in T
  <2>1. SUFFICES ASSUME i <= k + 1, k + 1 <= n PROVE e[i] <= e[k + 1]
    OBVIOUS
  <2>2. i \in 0..n
    BY DEF n
  <2>3. k + 1 \in 1..n /\ (k + 1) - 1 = k /\ k \in 0..n
    BY <1>1, <2>1
  <2>4. e[k + 1] = e[k] + HeadSize + sizes[k + 1] /\ e[k] \in Nat /\ e[k + 1] \in Nat /\ e[i] \in Nat
    BY <1>2, <2>2, <2>3
  <2>5. CASE i = k + 1
    <3>1. PICK a \in Nat : a = e[i] /\ a = e[k + 1]
      BY <2>4, <2>5
    <3>2. a <= a
      OBVIOUS
    <3>3. QED
      BY <3>1, <3>2
  <2>6. CASE i # k + 1
    <3>1. e[i] <= e[k]
      BY <1>1, <1>4, <2>1, <2>2, <2>3, <2>6
    <3>2. PICK a \in Nat, b \in Nat, c \in Nat, h \in Nat, z \in Nat :
              a = e[i] /\ b = e[k] /\ c = e[k + 1] /\ h = HeadSize /\ z = sizes[k + 1]
      BY <1>1, <2>3, <2>4
    <3>3. a <= b /\ c = b + h + z
      BY <2>4, <3>1, <3>2
    <3>4. a <= c
      BY <3>3
    <3>5. QED
      BY <3>2, <3>4
  <2>7. QED
    BY <2>5, <2>6
<1>5. Nat \subseteq T
  <2> HIDE DEF T
  <2>1. QED
    BY <1>3, <1>4, NatInductionOverSet
<1>6. j \in Nat /\ j <= n
  BY <1>1 DEF n
<1>7. QED
  BY <1>5, <1>6 DEF e

LEMMA MessageIs ==
    ASSUME NEW k \in Nat, NEW size \in Nat
    PROVE  /\ Message(k, size) \in Seq(Units) /\ Len(Message(k, size)) = HeadSize + size
           /\ \A p \in 1..(HeadSize + size) : Message(k, size)[p] = Unit(k, p, size)
           /\ Number(Message(k, size)) = k
<1>1. HeadSize \in Nat /\ HeadSize # 0
  BY ReaderAssumption
<1>2. \A p \in 1..(HeadSize + size) : Unit(k, p, size) \in Units /\ Unit(k, p, size)[1] = k
  BY <1>1 DEF Unit, Units
<1>3. Message(k, size) \in [1..(HeadSize + size) -> Units]
  BY <1>2 DEF Message
<1>4. HeadSize + size \in Nat /\ 1 \in 1..(HeadSize + size)
  BY <1>1
<1>5. /\ Message(k, size) \in Seq(Units) /\ Len(Message(k, size)) = HeadSize + size
  BY <1>3, <1>4, FunctionIsSeq
<1>6. \A p \in 1..(HeadSize + size) : Message(k, size)[p] = Unit(k, p, size)
  BY DEF Message
<1>7. QED
  BY <1>2, <1>4, <1>5, <1>6 DEF Number

-----------------------------------------------------------------------------
(* The stream is the messages, one behind the other.                       *)
StreamsTo(stream, sizes, k) ==
    /\ stream \in Seq(Units) /\ Len(stream) = Ends(sizes)[k]
    /\ \A j \in 1..k : \A p \in 1..(HeadSize + sizes[j]) :
          stream[Ends(sizes)[j - 1] + p] = Unit(j, p, sizes[j])

LEMMA StreamsOn ==
    ASSUME NEW sizes \in Seq(Nat), NEW k \in 1..Len(sizes), NEW stream,
           StreamsTo(stream, sizes, k - 1)
    PROVE  StreamsTo(stream \o Message(k, sizes[k]), sizes, k)
<1> DEFINE n == Len(sizes)
           e == Ends(sizes)
           message == Message(k, sizes[k])
           on == stream \o message
<1>1. /\ n \in Nat /\ HeadSize \in Nat /\ (\A j \in 1..n : sizes[j] \in Nat)
      /\ k \in Nat /\ k - 1 \in 0..n /\ k \in 1..n /\ sizes[k] \in Nat
  BY ReaderAssumption
<1>2. /\ \A j \in 0..n : e[j] \in Nat
      /\ \A j \in 1..n : e[j] = e[j - 1] + HeadSize + sizes[j]
  BY EndsAre
<1>3. \A i, j \in 0..n : i <= j => e[i] <= e[j]
  BY EndsGrow
<1>4. /\ stream \in Seq(Units) /\ Len(stream) = e[k - 1]
      /\ \A j \in 1..(k - 1) : \A p \in 1..(HeadSize + sizes[j]) :
            stream[e[j - 1] + p] = Unit(j, p, sizes[j])
  BY DEF StreamsTo
<1>5. /\ message \in Seq(Units) /\ Len(message) = HeadSize + sizes[k]
      /\ \A p \in 1..(HeadSize + sizes[k]) : message[p] = Unit(k, p, sizes[k])
  BY <1>1, MessageIs
<1> HIDE DEF message, e, n
<1>6. /\ on \in Seq(Units) /\ Len(on) = Len(stream) + Len(message)
      /\ \A i \in 1..(Len(stream) + Len(message)) :
            on[i] = IF i <= Len(stream) THEN stream[i] ELSE message[i - Len(stream)]
  BY <1>4, <1>5, ConcatProperties
<1> HIDE DEF on
<1>7. e[k - 1] \in Nat /\ e[k] = e[k - 1] + HeadSize + sizes[k]
  BY <1>1, <1>2
<1>8. Len(on) = e[k]
  <2>1. Len(on) = Len(stream) + Len(message)
    BY <1>6
  <2>2. Len(stream) = e[k - 1] /\ Len(message) = HeadSize + sizes[k]
    BY <1>4, <1>5
  <2>3. HeadSize \in Nat /\ sizes[k] \in Nat
    BY <1>1
  <2>4. PICK a \in Nat, b \in Nat, h \in Nat, z \in Nat :
            a = e[k - 1] /\ b = e[k] /\ h = HeadSize /\ z = sizes[k]
    <3>1. e[k - 1] \in Nat /\ e[k] \in Nat
      <4>1. k \in 0..n
        BY <1>1
      <4>2. QED
        BY <1>2, <1>7, <4>1
    <3>2. QED
      BY <2>3, <3>1
  <2>5. Len(on) = a + (h + z) /\ b = a + h + z
    BY <1>7, <2>1, <2>2, <2>4
  <2>6. b = a + (h + z)
    BY <2>5
  <2>7. QED
    BY <2>4, <2>5, <2>6
<1>9. \A i \in 1..e[k] :
          on[i] = IF i <= e[k - 1] THEN stream[i] ELSE message[i - e[k - 1]]
  BY <1>4, <1>6, <1>8
<1>10. ASSUME NEW j \in 1..k, NEW p \in 1..(HeadSize + sizes[j])
       PROVE  on[e[j - 1] + p] = Unit(j, p, sizes[j])
  <2>1. j \in 1..n /\ j - 1 \in 0..n /\ j \in 0..n /\ sizes[j] \in Nat /\ j \in Int
    BY <1>1
  <2>2. e[j - 1] \in Nat /\ e[j] = e[j - 1] + HeadSize + sizes[j]
    BY <1>2, <2>1
  <2>3. PICK h \in Nat, z \in Nat : h = HeadSize /\ z = sizes[j]
    BY <1>1, <2>1
  <2>4. p \in Nat /\ p >= 1 /\ p <= h + z
    <3>1. p \in 1..(h + z)
      BY <2>3
    <3>2. QED
      BY ONLY h \in Nat, z \in Nat, <3>1
  <2>5. PICK a \in Nat, b \in Nat : a = e[j - 1] /\ b = e[j]
    <3>1. e[j - 1] \in Nat /\ e[j] \in Nat
      BY <1>2, <2>1
    <3>2. QED
      BY <3>1
  <2>6. b = a + h + z
    BY <2>2, <2>3, <2>5
  <2>7. PICK c \in Nat, d \in Nat, y \in Nat : c = e[k - 1] /\ d = e[k] /\ y = sizes[k]
    <3>1. e[k - 1] \in Nat /\ sizes[k] \in Nat
      BY <1>1, <1>7
    <3>2. e[k] \in Nat
      <4>1. k \in 0..n
        BY <1>1
      <4>2. QED
        BY <1>2, <4>1
    <3>3. QED
      BY <3>1, <3>2
  <2>8. d = c + h + y
    BY <1>7, <2>3, <2>7
  <2>9. CASE j = k
    <3>1. a = c /\ b = d
      BY <2>5, <2>7, <2>9
    <3>2. a + p \in 1..d /\ ~(a + p <= c) /\ (a + p) - c = p
      BY <2>4, <2>6, <3>1
    <3>3. on[a + p] = message[p]
      BY <1>9, <2>7, <3>2
    <3>4. QED
      BY <1>5, <2>5, <2>9, <3>3
  <2>10. CASE j # k
    <3>1. j \in 1..(k - 1) /\ j <= k - 1
      BY <1>1, <2>1, <2>10
    <3>2. b <= c
      BY <1>1, <1>3, <2>1, <2>5, <2>7, <3>1
    <3>3. a + p \in 1..d /\ a + p <= c
      BY <2>4, <2>6, <2>8, <3>2
    <3>4. on[a + p] = stream[a + p]
      BY <1>9, <2>7, <3>3
    <3>5. QED
      BY <1>4, <2>5, <3>1, <3>4
  <2>11. QED
    BY <2>9, <2>10
<1>11. QED
  BY <1>6, <1>8, <1>10 DEF StreamsTo, on, message, e

LEMMA StreamIs ==
    ASSUME NEW s \in ServerType
    PROVE  StreamsTo(Stream(s), s.limit.sizes, Len(s.limit.sizes))
<1> DEFINE sizes == s.limit.sizes
           n == Len(sizes)
           seqs == [k \in DOMAIN sizes |-> Message(k, sizes[k])]
           To(k, v) == v \o seqs[k]
           Is(g) == g = [k \in 1..n |-> IF k = 1 THEN seqs[k] ELSE g[k - 1] \o seqs[k]]
           h == CHOOSE g : Is(g)
<1>1. sizes \in Seq(Nat)
  BY SizesAre
<1>2. n \in Nat /\ DOMAIN sizes = 1..n /\ \A k \in 1..n : sizes[k] \in Nat /\ k \in Nat
  BY <1>1
<1> HIDE DEF sizes
<1>3. Ends(sizes)[0] = 0
  BY <1>1, EndsAre
<1>4. \A k \in 1..n : seqs[k] = Message(k, sizes[k]) /\ seqs[k] \in Seq(Units)
  BY <1>2, MessageIs
<1>5. Len(seqs) = n
  <2>1. seqs \in [1..n -> Seq(Units)]
    BY <1>2, <1>4
  <2>2. QED
    BY <1>2, <2>1, FunctionIsSeq
<1>6. Stream(s) = FlattenSeq(seqs)
  BY DEF Stream, sizes
<1>7. CASE n = 0
  <2>1. seqs \in [1..0 -> Units]
    BY <1>2, <1>7
  <2>2. seqs \in Seq(Units)
    BY <2>1, FunctionIsSeq
  <2>3. Stream(s) = seqs
    BY <1>5, <1>6, <1>7 DEF FlattenSeq
  <2>4. QED
    BY <1>3, <1>5, <1>7, <2>2, <2>3 DEF StreamsTo, sizes
<1>8. CASE n # 0
  <2>1. Stream(s) = h[n]
    BY <1>5, <1>6, <1>8 DEF FlattenSeq
  <2> HIDE DEF seqs
  <2> DEFINE V == Seq(Units)
             step == [k \in 1..n |-> [v \in V |-> To(k, v)]]
  <2>2. \A k \in 1..n, v \in V : To(k, v) \in V
    BY <1>4
  <2>3. IsStep(step, n, V)
    BY <2>2 DEF IsStep
  <2>4. \A k \in 1..n, v \in V : step[k][v] = To(k, v)
    OBVIOUS
  <2> HIDE DEF step
  <2>5. PICK base : base = <<>>
    OBVIOUS
  <2>6. base \in V
    BY <2>5
  <2>7. \E f : MadeBy(f, step, base, n, V)
    <3> HIDE DEF V, n
    <3>1. QED
      BY <1>2, <2>3, <2>6, StepsExist
  <2>8. PICK f : MadeBy(f, step, base, n, V)
    BY <2>7
  <2>9. /\ f \in [0..n -> V] /\ f[0] = <<>>
        /\ \A k \in 1..n : f[k] = step[k][f[k - 1]]
    BY <2>5, <2>8 DEF MadeBy
  <2>10. ASSUME NEW k \in 1..n PROVE f[k] = f[k - 1] \o seqs[k] /\ f[k] \in V
    <3>1. k - 1 \in 0..n /\ k \in 0..n
      BY <1>2
    <3>2. f[k - 1] \in V /\ f[k] \in V
      BY <2>9, <3>1
    <3>3. QED
      BY <2>4, <2>9, <3>2
  <2> DEFINE g == [k \in 1..n |-> f[k]]
  <2>11. Is(g)
    <3>1. ASSUME NEW k \in 1..n
          PROVE  f[k] = IF k = 1 THEN seqs[k] ELSE g[k - 1] \o seqs[k]
      <4>1. CASE k = 1
        <5>1. k - 1 = 0
          BY <4>1
        <5>2. f[k - 1] = <<>> /\ f[k] = f[k - 1] \o seqs[k]
          BY <2>9, <2>10, <5>1
        <5>3. f[k] = seqs[k]
          BY <1>4, <5>2, EmptyConcat
        <5>4. QED
          BY <4>1, <5>3
      <4>2. CASE k # 1
        <5>1. k - 1 \in 1..n
          BY <1>2, <4>2
        <5>2. QED
          BY <2>10, <4>2, <5>1
      <4>3. QED
        BY <4>1, <4>2
    <3>2. QED
      BY <3>1
  <2> HIDE DEF g
  <2>12. Is(h)
    BY <2>11
  <2> HIDE DEF h
  <2>13. h[1] = seqs[1] /\ \A k \in 2..n : h[k] = h[k - 1] \o seqs[k]
    <3>1. 1 \in 1..n /\ \A k \in 2..n : k \in 1..n /\ k # 1
      BY <1>2, <1>8
    <3>2. QED
      BY <2>12, <3>1
  <2> DEFINE T == {k \in Nat : 1 <= k /\ k <= n => StreamsTo(h[k], sizes, k)}
  <2>14. 0 \in T
    OBVIOUS
  <2>15. ASSUME NEW k \in Nat, k \in T PROVE k + 1 \in T
    <3>1. SUFFICES ASSUME k + 1 <= n PROVE StreamsTo(h[k + 1], sizes, k + 1)
      OBVIOUS
    <3>2. k + 1 \in 1..n /\ (k + 1) - 1 = k
      BY <1>2, <3>1
    <3>3. seqs[k + 1] = Message(k + 1, sizes[k + 1])
      BY <1>4, <3>2
    <3>4. CASE k = 0
      <4>1. StreamsTo(<<>>, sizes, 0)
        BY <1>3 DEF StreamsTo
      <4>2. PICK start : start = <<>>
        OBVIOUS
      <4>3. StreamsTo(start, sizes, (k + 1) - 1)
        BY <3>2, <3>4, <4>1, <4>2
      <4>4. StreamsTo(start \o Message(k + 1, sizes[k + 1]), sizes, k + 1)
        BY <1>1, <3>2, <4>3, StreamsOn
      <4>5. h[k + 1] = seqs[k + 1] /\ start \o seqs[k + 1] = seqs[k + 1]
        BY <1>4, <2>13, <3>2, <3>4, <4>2, EmptyConcat
      <4>6. QED
        BY <3>3, <4>4, <4>5
    <3>5. CASE k # 0
      <4>1. StreamsTo(h[k], sizes, (k + 1) - 1) /\ k + 1 \in 2..n
        BY <1>2, <2>15, <3>1, <3>2, <3>5
      <4>2. StreamsTo(h[k] \o Message(k + 1, sizes[k + 1]), sizes, k + 1)
        BY <1>1, <3>2, <4>1, StreamsOn
      <4>3. h[k + 1] = h[k] \o seqs[k + 1]
        BY <2>13, <3>2, <4>1
      <4>4. QED
        BY <3>3, <4>2, <4>3
    <3>6. QED
      BY <3>4, <3>5
  <2>16. Nat \subseteq T
    <3> HIDE DEF T
    <3>1. QED
      BY <2>14, <2>15, NatInductionOverSet
  <2>17. StreamsTo(h[n], sizes, n)
    BY <1>2, <1>8, <2>16
  <2>18. QED
    BY <2>1, <2>17 DEF sizes
<1>9. QED
  BY <1>7, <1>8

-----------------------------------------------------------------------------
(* Messages are posted behind what the queue of handlers holds.            *)
LEMMA GrownHas ==
    ASSUME NEW s \in ServerType, NEW t \in ServerType, t.pending = s.pending,
           Longer(s.ready, t.ready),
           \A i \in (Len(s.ready) + 1)..Len(t.ready) : t.ready[i].op.kind = "message",
           NEW Q, Q \subseteq PendingOps
    PROVE  (Has(t, Q) <=> Has(s, Q)) /\ (Single(s, Q) => Single(t, Q))
<1>1. /\ Len(s.ready) \in Nat /\ DOMAIN s.ready = 1..Len(s.ready)
      /\ Len(t.ready) \in Nat /\ DOMAIN t.ready = 1..Len(t.ready)
  BY Fields
<1>2. Len(s.ready) <= Len(t.ready) /\ \A i \in 1..Len(s.ready) : t.ready[i] = s.ready[i]
  BY DEF Longer
<1>3. \A i \in DOMAIN s.ready : i \in DOMAIN t.ready /\ t.ready[i] = s.ready[i]
  BY <1>1, <1>2
<1>4. ASSUME NEW i \in DOMAIN t.ready, t.ready[i].op \in Q
      PROVE  i \in DOMAIN s.ready /\ s.ready[i].op \in Q
  <2>1. t.ready[i].op.kind # "message"
    BY <1>4, PendingKinds
  <2>2. i \in DOMAIN s.ready
    BY <1>1, <2>1
  <2>3. QED
    BY <1>3, <1>4, <2>2
<1>5. InReady(t, Q) <=> InReady(s, Q)
  BY <1>3, <1>4 DEF InReady
<1>6. InPending(t, Q) <=> InPending(s, Q)
  BY DEF InPending
<1>7. ASSUME Single(s, Q) PROVE Single(t, Q)
  BY <1>4, <1>5, <1>6, <1>7 DEF Single
<1>8. QED
  BY <1>5, <1>6, <1>7 DEF Has

(* The receiver has read on, and d messages after the m-th are posted.     *)
Posts(s, t, n, m, d) ==
    /\ t.pending = s.pending /\ t.limit = s.limit /\ t.fate = s.fate
    /\ t.m_acceptor = s.m_acceptor /\ t.m_outer_set = s.m_outer_set
    /\ t.m_heartbeat_timer = s.m_heartbeat_timer /\ t.starts = s.starts
    /\ Longer(s.ready, t.ready) /\ Len(t.ready) = Len(s.ready) + d
    /\ \A i \in 1..d :
          t.ready[Len(s.ready) + i] =
            Ended(Op("message", n, Message(m + i, s.limit.sizes[m + i])), FALSE)
    /\ DOMAIN t.receiver = DOMAIN s.receiver
    /\ \A k \in DOMAIN s.receiver : k # n => t.receiver[k] = s.receiver[k]
    /\ t.receiver[n].got = s.receiver[n].got /\ t.receiver[n].told = s.receiver[n].told
    /\ t.receiver[n].m_socket = s.receiver[n].m_socket
    /\ t.receiver[n].m_executing = s.receiver[n].m_executing
    /\ t.receiver[n].closed = s.receiver[n].closed

LEMMA PostsCounted ==
    ASSUME NEW s \in ServerType, NEW t \in ServerType, NEW n \in DOMAIN s.receiver,
           NEW m \in Nat, NEW d \in Nat, m + d <= Len(s.limit.sizes),
           Posts(s, t, n, m, d), Counted(s, n, m)
    PROVE  Counted(t, n, m + d)
<1> DEFINE got == s.receiver[n].got
           sizes == s.limit.sizes
           K == Len(sizes)
           L == Len(s.ready)
<1>1. /\ m \in 0..K /\ Len(got) <= m
      /\ \A k \in DOMAIN got : got[k] = Message(k, sizes[k])
      /\ \A i \in DOMAIN s.ready :
            IsMessage(s.ready[i], n) =>
              \E k \in (Len(got) + 1)..m : s.ready[i].op.step = Message(k, sizes[k])
      /\ \A i, j \in DOMAIN s.ready :
            IsMessage(s.ready[i], n) /\ IsMessage(s.ready[j], n) /\ i < j =>
              Number(s.ready[i].op.step) < Number(s.ready[j].op.step)
      /\ \A k \in (Len(got) + 1)..m :
            \E i \in DOMAIN s.ready :
              IsMessage(s.ready[i], n) /\ s.ready[i].op.step = Message(k, sizes[k])
  BY DEF Counted
<1>2. /\ L \in Nat /\ DOMAIN s.ready = 1..L
      /\ Len(t.ready) \in Nat /\ DOMAIN t.ready = 1..Len(t.ready)
  BY Fields
<1>3. sizes \in Seq(Nat) /\ K \in Nat /\ \A k \in 1..K : sizes[k] \in Nat
  BY SizesAre
<1>4. Len(got) \in Nat
  <2>1. s.receiver[n] \in ReceiverType
    BY Elements
  <2>2. got \in Seq(Seq(Units))
    BY <2>1 DEF ReceiverType
  <2>3. QED
    BY <2>2, LenProperties
<1>5. t.receiver[n].got = got /\ t.limit.sizes = sizes /\ Len(t.ready) = L + d
  BY DEF Posts
<1>6. \A i \in 1..L : t.ready[i] = s.ready[i]
  BY DEF Posts, Longer
<1>7. ASSUME NEW i \in 1..d
      PROVE  /\ t.ready[L + i].op.step = Message(m + i, sizes[m + i])
             /\ IsMessage(t.ready[L + i], n)
  <2>1. t.ready[L + i] = Ended(Op("message", n, Message(m + i, sizes[m + i])), FALSE)
    BY DEF Posts
  <2>2. QED
    BY <2>1 DEF Ended, Op, IsMessage
<1> HIDE DEF got, sizes, K, L
<1>8. ASSUME NEW k \in 1..K PROVE Number(Message(k, sizes[k])) = k
  <2>1. k \in Nat /\ sizes[k] \in Nat
    BY <1>3
  <2>2. QED
    BY <2>1, MessageIs
<1>9. ASSUME NEW i \in DOMAIN t.ready
      PROVE  \/ i \in 1..L /\ i \in DOMAIN s.ready /\ t.ready[i] = s.ready[i]
             \/ i - L \in 1..d /\ i = L + (i - L) /\ i > L
  <2>1. L \in Nat /\ i \in 1..(L + d)
    BY <1>2, <1>5
  <2>2. i \in 1..L \/ (i - L \in 1..d /\ i = L + (i - L) /\ i > L)
    BY <2>1
  <2>3. QED
    BY <1>2, <1>6, <2>2
<1>10. ASSUME NEW i \in DOMAIN t.ready, IsMessage(t.ready[i], n)
       PROVE  \E k \in (Len(got) + 1)..(m + d) :
                 /\ t.ready[i].op.step = Message(k, sizes[k])
                 /\ Number(t.ready[i].op.step) = k
                 /\ i \in 1..L => k <= m
                 /\ ~(i \in 1..L) => k = m + (i - L)
  <2>1. CASE i \in 1..L
    <3>1. PICK k \in (Len(got) + 1)..m : t.ready[i].op.step = Message(k, sizes[k])
      BY <1>1, <1>2, <1>6, <1>10, <2>1
    <3>2. k \in 1..K /\ k \in (Len(got) + 1)..(m + d) /\ k <= m
      BY <1>1, <1>3, <1>4
    <3>3. QED
      BY <1>8, <2>1, <3>1, <3>2
  <2>2. CASE ~(i \in 1..L)
    <3>1. i - L \in 1..d /\ i = L + (i - L)
      BY <1>9, <2>2
    <3>2. PICK j \in 1..d : j = i - L
      BY <3>1
    <3>3. t.ready[i].op.step = Message(m + j, sizes[m + j])
      BY <1>7, <3>1, <3>2
    <3>4. m + j \in 1..K /\ m + j \in (Len(got) + 1)..(m + d)
      BY <1>1, <1>3, <1>4 DEF K, sizes
    <3>5. QED
      BY <1>8, <2>2, <3>2, <3>3, <3>4
  <2>3. QED
    BY <2>1, <2>2
<1>11. ASSUME NEW i \in DOMAIN t.ready, NEW j \in DOMAIN t.ready,
              IsMessage(t.ready[i], n), IsMessage(t.ready[j], n), i < j
       PROVE  Number(t.ready[i].op.step) < Number(t.ready[j].op.step)
  <2>1. PICK k \in (Len(got) + 1)..(m + d) :
            /\ Number(t.ready[i].op.step) = k
            /\ i \in 1..L => k <= m
            /\ ~(i \in 1..L) => k = m + (i - L)
    BY <1>10, <1>11
  <2>2. PICK l \in (Len(got) + 1)..(m + d) :
            /\ Number(t.ready[j].op.step) = l
            /\ j \in 1..L => l <= m
            /\ ~(j \in 1..L) => l = m + (j - L)
    BY <1>10, <1>11
  <2>3. i \in Int /\ j \in Int /\ L \in Int /\ k \in Int /\ l \in Int /\ i >= 1 /\ j >= 1
    BY <1>2, <1>4
  <2>4. CASE j \in 1..L
    <3>1. i \in 1..L
      BY <1>2, <1>11, <2>3, <2>4
    <3>2. QED
      BY <1>1, <1>2, <1>6, <1>11, <2>4, <3>1
  <2>5. CASE ~(j \in 1..L)
    <3>1. j > L
      BY <2>3, <2>5
    <3>2. k < l
      BY <1>11, <2>1, <2>2, <2>3, <2>5, <3>1
    <3>3. QED
      BY <2>1, <2>2, <3>2
  <2>6. QED
    BY <2>4, <2>5
<1>12. ASSUME NEW k \in (Len(got) + 1)..(m + d)
       PROVE  \E i \in DOMAIN t.ready :
                 IsMessage(t.ready[i], n) /\ t.ready[i].op.step = Message(k, sizes[k])
  <2>1. CASE k <= m
    <3>1. k \in (Len(got) + 1)..m
      BY <1>4, <2>1
    <3>2. PICK i \in DOMAIN s.ready :
              IsMessage(s.ready[i], n) /\ s.ready[i].op.step = Message(k, sizes[k])
      BY <1>1, <3>1
    <3>3. i \in DOMAIN t.ready /\ t.ready[i] = s.ready[i]
      BY <1>2, <1>5, <1>6
    <3>4. QED
      BY <3>2, <3>3
  <2>2. CASE ~(k <= m)
    <3>1. k - m \in 1..d /\ m + (k - m) = k
      BY <1>4, <2>2
    <3>2. L + (k - m) \in DOMAIN t.ready
      BY <1>2, <1>5, <3>1
    <3>3. PICK j \in 1..d : j = k - m
      BY <3>1
    <3>4. IsMessage(t.ready[L + j], n) /\ t.ready[L + j].op.step = Message(m + j, sizes[m + j])
      BY <1>7
    <3>5. QED
      BY <3>1, <3>2, <3>3, <3>4
  <2>3. QED
    BY <2>1, <2>2
<1>13. m + d \in 0..Len(sizes) /\ Len(got) <= m + d
  BY <1>1, <1>3, <1>4 DEF K, sizes
<1>14. QED
  BY <1>1, <1>5, <1>10, <1>11, <1>12, <1>13 DEF Counted

-----------------------------------------------------------------------------
LEMMA PostsKeep ==
    ASSUME NEW s, Sound(s), NEW n \in DOMAIN s.receiver, ~Has(s, Reads(n)),
           NEW m \in Nat, NEW d \in Nat, m + d <= Len(s.limit.sizes), Counted(s, n, m),
           NEW t \in ServerType, Posts(s, t, n, m, d)
    PROVE  /\ Sent(s, t) /\ Counted(t, n, m + d)
           /\ ~Has(t, Reads(n)) /\ Load(t, n) = Load(s, n)
           /\ t.receiver[n].told = s.receiver[n].told
<1> DEFINE L == Len(s.ready)
           M == Len(t.ready)
<1>1. /\ s \in ServerType /\ Refers(s)
      /\ \A k \in DOMAIN s.receiver : Lanes(s, k) /\ Ordered(s, k)
  BY SoundIs
<1>2. /\ t.pending = s.pending /\ t.limit = s.limit /\ t.fate = s.fate
      /\ t.m_acceptor = s.m_acceptor /\ t.m_outer_set = s.m_outer_set
      /\ t.m_heartbeat_timer = s.m_heartbeat_timer /\ t.starts = s.starts
      /\ Longer(s.ready, t.ready) /\ M = L + d
      /\ DOMAIN t.receiver = DOMAIN s.receiver
      /\ \A k \in DOMAIN s.receiver : k # n => t.receiver[k] = s.receiver[k]
      /\ t.receiver[n].told = s.receiver[n].told
      /\ t.receiver[n].m_socket = s.receiver[n].m_socket
      /\ t.receiver[n].m_executing = s.receiver[n].m_executing
      /\ t.receiver[n].closed = s.receiver[n].closed
  BY DEF Posts
<1>3. /\ L \in Nat /\ DOMAIN s.ready = 1..L /\ M \in Nat /\ DOMAIN t.ready = 1..M
  BY <1>1, Fields
<1>4. \A i \in 1..L : t.ready[i] = s.ready[i]
  BY <1>2 DEF Longer
<1>5. ASSUME NEW i \in (L + 1)..M
      PROVE  t.ready[i].op.kind = "message" /\ t.ready[i].op.of = n /\ ~t.ready[i].failed
  <2> HIDE DEF L, M
  <2>1. PICK j \in 1..d : j = i - L
    <3>1. M = L + d /\ L \in Nat /\ M \in Nat
      BY <1>2, <1>3
    <3>2. QED
      BY <3>1
  <2>2. i = L + j
    BY <1>3, <2>1
  <2>3. t.ready[i] = Ended(Op("message", n, Message(m + j, s.limit.sizes[m + j])), FALSE)
    BY <2>2 DEF Posts, L
  <2>4. QED
    BY <2>3 DEF Ended, Op
<1> HIDE DEF L, M
<1>6. \A k : Reads(k) \subseteq PendingOps /\ Writes(k) \subseteq PendingOps
  BY LanesApart
<1>7. Accepts \subseteq PendingOps
  BY DEF Accepts, PendingOps
<1>8. ASSUME NEW Q, Q \subseteq PendingOps
      PROVE  (Has(t, Q) <=> Has(s, Q)) /\ (Single(s, Q) => Single(t, Q))
  <2>1. \A i \in (Len(s.ready) + 1)..Len(t.ready) : t.ready[i].op.kind = "message"
    BY <1>5 DEF L, M
  <2>2. QED
    BY <1>1, <1>2, <1>8, <2>1, GrownHas
<1>9. \A k : /\ Has(t, Reads(k)) <=> Has(s, Reads(k))
             /\ Has(t, Writes(k)) <=> Has(s, Writes(k))
             /\ Single(s, Reads(k)) => Single(t, Reads(k))
             /\ Single(s, Writes(k)) => Single(t, Writes(k))
  BY <1>6, <1>8
<1>10. Has(s, Accepts) <=> Has(t, Accepts)
  BY <1>7, <1>8
<1>11. \A k : Load(t, k) = Load(s, k)
  BY <1>9 DEF Load, Bit
<1>12. Counted(t, n, m + d)
  BY <1>1, PostsCounted
<1>13. Refers(t)
  <2>1. \A op : OfReceiver(s, op) => OfReceiver(t, op)
    BY <1>2 DEF OfReceiver
  <2>2. /\ s.m_outer_set \subseteq DOMAIN s.receiver
        /\ \A i \in DOMAIN s.pending : OfReceiver(s, s.pending[i])
        /\ \A i \in DOMAIN s.ready : OfReceiver(s, s.ready[i].op)
    BY <1>1 DEF Refers
  <2>3. \A i \in DOMAIN t.pending : OfReceiver(t, t.pending[i])
    BY <1>2, <2>1, <2>2
  <2>4. ASSUME NEW i \in DOMAIN t.ready PROVE OfReceiver(t, t.ready[i].op)
    <3>1. CASE i \in 1..L
      BY <1>3, <1>4, <2>1, <2>2, <3>1
    <3>2. CASE i \in (L + 1)..M
      BY <1>2, <1>5, <3>2 DEF OfReceiver
    <3>3. QED
      BY <1>3, <3>1, <3>2
  <2>5. QED
    BY <1>2, <2>2, <2>3, <2>4 DEF Refers
<1>14. ASSUME NEW k \in DOMAIN s.receiver PROVE Lanes(t, k)
  <2> DEFINE r == s.receiver[k]
             q == t.receiver[k]
  <2>1. q.told = r.told /\ q.m_socket = r.m_socket /\ q.m_executing = r.m_executing
    BY <1>2
  <2>2. /\ Single(s, Reads(k)) /\ Single(s, Writes(k))
        /\ r.told > 0 => ~r.m_socket
        /\ r.m_socket /\ Has(s, Writes(k)) => r.m_executing
        /\ r.told + Load(s, k) <= 2
    BY <1>1 DEF Lanes
  <2>3. QED
    BY <1>9, <1>11, <2>1, <2>2 DEF Lanes
<1>15. ASSUME NEW k \in DOMAIN s.receiver, k # n PROVE Ordered(t, k)
  <2>1. SameReader(s.receiver[k], t.receiver[k])
    BY <1>2, <1>15, SameReaderIs
  <2>2. ASSUME NEW i \in DOMAIN t.ready, t.ready[i].op \in Reads(k)
        PROVE  \E j \in DOMAIN s.ready : s.ready[j] = t.ready[i]
    <3>1. t.ready[i].op.kind # "message"
      BY <1>6, <2>2, PendingKinds
    <3>2. i \in 1..L
      BY <1>3, <1>5, <3>1
    <3>3. QED
      BY <1>3, <1>4, <3>2
  <2>3. ReadsKept(s, t, k)
    BY <1>2, <2>2 DEF ReadsKept
  <2>4. MessagesKept(s, t, k)
    <3>1. \A i \in (L + 1)..M : ~IsMessage(t.ready[i], k)
      BY <1>5, <1>15 DEF IsMessage
    <3>2. QED
      BY <1>2, <3>1 DEF MessagesKept, L, M
  <2>5. QED
    BY <1>1, <1>2, <2>1, <2>3, <2>4, OrderedKept
<1>16. Ordered(t, n)
  <2>1. ~InPending(t, Reads(n)) /\ ~InReady(t, Reads(n))
    BY <1>9 DEF Has
  <2>2. ReadsAt(t, n, m + d)
    BY <2>1 DEF ReadsAt, InPending, InReady
  <2>3. m + d \in 0..Len(t.limit.sizes)
    BY <1>12 DEF Counted
  <2>4. QED
    BY <1>12, <2>2, <2>3 DEF Ordered
<1>17. Sound(t)
  BY <1>2, <1>13, <1>14, <1>15, <1>16 DEF Sound
<1>18. Frame(s, t) /\ SameSockets(s, t)
  BY <1>2, <1>9, <1>10 DEF Frame, SameSockets
<1>19. QED
  BY <1>2, <1>9, <1>11, <1>12, <1>17, <1>18 DEF Sent

-----------------------------------------------------------------------------
(* While the handler of a read runs.                                       *)
Waits(s, n, m) ==
    /\ Good(s) /\ n \in DOMAIN s.receiver /\ ~Has(s, Reads(n))
    /\ Hearing(s, {n}) /\ Accepting(s)
    /\ s.receiver[n].told + Load(s, n) <= 1
    /\ m \in 0..Len(s.limit.sizes) /\ Counted(s, n, m)

LEMMA WaitsOn ==
    ASSUME NEW s, NEW n, NEW m, Waits(s, n, m), NEW d \in Nat, m + d <= Len(s.limit.sizes),
           NEW t \in ServerType, Posts(s, t, n, m, d)
    PROVE  Waits(t, n, m + d)
<1>1. /\ Good(s) /\ Sound(s) /\ n \in DOMAIN s.receiver /\ ~Has(s, Reads(n))
      /\ Hearing(s, {n}) /\ Accepting(s)
      /\ s.receiver[n].told + Load(s, n) <= 1
      /\ m \in 0..Len(s.limit.sizes) /\ Counted(s, n, m)
  BY DEF Waits, Good
<1>2. m \in Nat
  BY <1>1
<1>3. /\ Sent(s, t) /\ Counted(t, n, m + d) /\ ~Has(t, Reads(n))
      /\ Load(t, n) = Load(s, n) /\ t.receiver[n].told = s.receiver[n].told
  BY <1>1, <1>2, PostsKeep
<1>4. Good(t)
  BY <1>1, <1>3, OpenCarries DEF Sent
<1>5. Hearing(t, {n}) /\ Accepting(t)
  BY <1>1, <1>3, SoundIs, FrameCarries DEF Sent
<1>6. n \in DOMAIN t.receiver /\ m + d \in 0..Len(t.limit.sizes)
  BY <1>1, <1>3 DEF Sent, Frame, Counted
<1>7. QED
  BY <1>1, <1>3, <1>4, <1>5, <1>6 DEF Waits

LEMMA DisconnectSettles ==
    ASSUME NEW s, NEW n, NEW m, Waits(s, n, m), NEW t \in HandleOuterDisconnected(s, n)
    PROVE  Settled(t)
  BY HandleOuterDisconnectedKeeps DEF Waits

LEMMA SilentSettles ==
    ASSUME NEW s, NEW n, NEW m, Waits(s, n, m), ~s.receiver[n].m_socket
    PROVE  Settled(s)
<1>1. Good(s) /\ Open(s) /\ Hearing(s, {n}) /\ Accepting(s)
  BY DEF Waits, Good
<1>2. Hearing(s, {})
  BY <1>1 DEF Open, Hearing
<1>3. QED
  BY <1>1, <1>2 DEF Settled

(* Another read, or the answer to the handshake, is begun.                 *)
LEMMA NextReadSettles ==
    ASSUME NEW s, NEW n, NEW m, Waits(s, n, m), NEW op \in Reads(n),
           ReadAt(s.receiver[n], m, s.limit.sizes, op)
    PROVE  Settled(OnSocket(s, n, op))
<1> DEFINE t == OnSocket(s, n, op)
<1>1. /\ Good(s) /\ Sound(s) /\ Open(s) /\ s \in ServerType /\ n \in DOMAIN s.receiver
      /\ ~Has(s, Reads(n)) /\ Hearing(s, {n}) /\ Accepting(s)
      /\ m \in 0..Len(s.limit.sizes) /\ Counted(s, n, m) /\ Refers(s)
  BY SoundIs DEF Waits, Good
<1>2. CASE ~s.receiver[n].m_socket
  <2>1. t = [s EXCEPT !.fate = "crashed"]
    BY <1>2 DEF OnSocket, Crash
  <2>2. t \in ServerType
    BY <1>1, <2>1 DEF ServerType
  <2>3. /\ SameQueues(s, t) /\ t.limit = s.limit /\ t.receiver = s.receiver
        /\ t.m_outer_set = s.m_outer_set /\ t.fate = "crashed"
    BY <1>1, <2>1 DEF ServerType, SameQueues
  <2> HIDE DEF t
  <2>4. Sound(t)
    BY <1>1, <2>2, <2>3, OthersKeep
  <2>5. Open(t)
    BY <1>1, <2>3 DEF Open
  <2>6. QED
    BY <2>3, <2>4, <2>5 DEF Settled, Good, Hearing, Accepting, t
<1>3. CASE s.receiver[n].m_socket
  <2>1. t = Begin(s, op)
    BY <1>3 DEF OnSocket
  <2>2. /\ op \in PendingOps /\ op.of = n /\ op.kind \in {"read", "write"}
        /\ \A k : (op \in Reads(k) => k = n) /\ op \notin Writes(k)
    BY LanesApart
  <2>3. OfReceiver(s, op)
    BY <1>1, <2>2 DEF OfReceiver
  <2> HIDE DEF t
  <2>4. /\ Sound(t) /\ SameButQueues(s, t)
        /\ \A Q : Has(t, Q) <=> Has(s, Q) \/ op \in Q
    BY <1>1, <1>3, <2>1, <2>2, <2>3, BeginKeeps
  <2>5. Frame(s, t) /\ SameSockets(s, t)
    BY <2>4, SameButQueuesFrame DEF SameSockets, SameButQueues
  <2>6. Good(t)
    BY <1>1, <2>4, <2>5, OpenCarries
  <2>7. Hearing(t, {n}) /\ Accepting(t)
    BY <1>1, <2>5, FrameCarries
  <2>8. Has(t, Reads(n))
    BY <2>4
  <2>9. Hearing(t, {})
    BY <2>7, <2>8 DEF Hearing
  <2>10. QED
    BY <2>6, <2>7, <2>9 DEF Settled, t
<1>4. QED
  BY <1>2, <1>3

-----------------------------------------------------------------------------
(* The receiver r has become q by reading.                                 *)
ReadsOn(r, q) ==
    /\ q \in ReceiverType
    /\ q.got = r.got /\ q.told = r.told /\ q.m_socket = r.m_socket
    /\ q.m_executing = r.m_executing /\ q.closed = r.closed
    /\ q.peer = r.peer /\ q.frame = r.frame

(* With, and Posted, of a receiver.                                        *)
TakenBy(r, size) == [r EXCEPT !.peer.taken = @ + size]
Emptied(r) == [r EXCEPT !.complete = <<>>]

LEMMA TakenByIs ==
    ASSUME NEW r \in ReceiverType, NEW size \in Nat
    PROVE  LET q == TakenBy(r, size)
           IN  /\ q \in ReceiverType /\ q.peer.taken = r.peer.taken + size
               /\ q.peer.websocket = r.peer.websocket
               /\ q.m_message_head = r.m_message_head /\ q.m_head_size = r.m_head_size
               /\ q.m_memory = r.m_memory /\ q.m_body_size = r.m_body_size
               /\ q.complete = r.complete /\ q.refused = r.refused /\ q.frame = r.frame
               /\ q.got = r.got /\ q.told = r.told /\ q.m_socket = r.m_socket
               /\ q.m_executing = r.m_executing /\ q.closed = r.closed
<1> DEFINE taken == r.peer.taken + size
           peer == [r.peer EXCEPT !.taken = taken]
           q == TakenBy(r, size)
<1>1. r.peer \in Peers /\ r.peer.taken \in Nat
  BY DEF ReceiverType, Peers
<1>2. taken \in Nat
  BY <1>1
<1>3. q = [r EXCEPT !.peer = peer]
  BY DEF TakenBy
<1> HIDE DEF taken
<1>4. peer \in Peers /\ peer.taken = taken /\ peer.websocket = r.peer.websocket
  BY <1>1, <1>2 DEF Peers
<1> HIDE DEF peer
<1>5. q \in ReceiverType
  BY <1>3, <1>4 DEF ReceiverType
<1>6. /\ q.peer = peer
      /\ q.m_message_head = r.m_message_head /\ q.m_head_size = r.m_head_size
      /\ q.m_memory = r.m_memory /\ q.m_body_size = r.m_body_size
      /\ q.complete = r.complete /\ q.refused = r.refused /\ q.frame = r.frame
      /\ q.got = r.got /\ q.told = r.told /\ q.m_socket = r.m_socket
      /\ q.m_executing = r.m_executing /\ q.closed = r.closed
  BY <1>3 DEF ReceiverType
<1> HIDE DEF q
<1>7. QED
  BY <1>4, <1>5, <1>6 DEF q, taken

LEMMA EmptiedIs ==
    ASSUME NEW r \in ReceiverType
    PROVE  LET q == Emptied(r)
           IN  /\ q \in ReceiverType /\ q.complete = <<>> /\ q.peer = r.peer
               /\ q.m_message_head = r.m_message_head /\ q.m_head_size = r.m_head_size
               /\ q.m_memory = r.m_memory /\ q.m_body_size = r.m_body_size
               /\ q.refused = r.refused /\ q.frame = r.frame
               /\ q.got = r.got /\ q.told = r.told /\ q.m_socket = r.m_socket
               /\ q.m_executing = r.m_executing /\ q.closed = r.closed
<1>1. PICK none : none = <<>>
  OBVIOUS
<1>2. none \in Seq(Seq(Units))
  BY <1>1
<1>3. Emptied(r) = [r EXCEPT !.complete = none]
  BY <1>1 DEF Emptied
<1>4. Emptied(r) \in ReceiverType
  BY <1>2, <1>3 DEF ReceiverType
<1>5. QED
  BY <1>1, <1>3, <1>4 DEF ReceiverType

(* Only the reader of a receiver changes.                                  *)
OfReader(r, q) ==
    /\ q \in ReceiverType
    /\ q.got = r.got /\ q.told = r.told /\ q.m_socket = r.m_socket
    /\ q.m_executing = r.m_executing /\ q.closed = r.closed

LEMMA PutPosts ==
    ASSUME NEW s \in ServerType, NEW n \in DOMAIN s.receiver, NEW q,
           OfReader(s.receiver[n], q), NEW m
    PROVE  LET t == Put(s, n, q)
           IN  t \in ServerType /\ Posts(s, t, n, m, 0) /\ t.receiver[n] = q
<1> DEFINE t == Put(s, n, q)
<1>1. /\ t \in ServerType /\ SameQueues(s, t)
      /\ t.receiver[n] = q /\ DOMAIN t.receiver = DOMAIN s.receiver
      /\ \A k \in DOMAIN s.receiver : k # n => t.receiver[k] = s.receiver[k]
      /\ t.limit = s.limit /\ t.fate = s.fate /\ t.m_acceptor = s.m_acceptor
      /\ t.m_outer_set = s.m_outer_set /\ t.m_heartbeat_timer = s.m_heartbeat_timer
      /\ t.starts = s.starts
  BY PutIs DEF OfReader
<1> HIDE DEF t
<1>2. Len(s.ready) \in Nat
  BY Fields
<1>3. /\ t.pending = s.pending /\ Longer(s.ready, t.ready) /\ Len(t.ready) = Len(s.ready) + 0
      /\ 1..0 = {}
  BY <1>1, <1>2 DEF SameQueues, Longer
<1>4. Posts(s, t, n, m, 0)
  BY <1>1, <1>3 DEF Posts, OfReader
<1>5. QED
  BY <1>1, <1>4 DEF t

LEMMA WithPosts ==
    ASSUME NEW s \in ServerType, NEW n \in DOMAIN s.receiver, NEW r,
           ReadsOn(s.receiver[n], r), NEW size \in Nat, NEW m
    PROVE  LET t == With(s, n, r, size)
           IN  /\ t \in ServerType /\ Posts(s, t, n, m, 0)
               /\ t.receiver[n] = TakenBy(r, size)
<1> DEFINE q == TakenBy(r, size)
           t == Put(s, n, q)
<1>1. /\ q \in ReceiverType
      /\ q.got = r.got /\ q.told = r.told /\ q.m_socket = r.m_socket
      /\ q.m_executing = r.m_executing /\ q.closed = r.closed
  BY TakenByIs DEF ReadsOn
<1>2. With(s, n, r, size) = t
  BY DEF With, Put, TakenBy
<1> HIDE DEF q
<1>3. OfReader(s.receiver[n], q)
  BY <1>1 DEF OfReader, ReadsOn
<1>4. t \in ServerType /\ Posts(s, t, n, m, 0) /\ t.receiver[n] = q
  BY <1>3, PutPosts
<1>5. QED
  BY <1>2, <1>4 DEF q

(* The reader has read the d messages after the m-th.                      *)
Completes(r, m, d, sizes) ==
    Len(r.complete) = d /\ \A i \in 1..d : r.complete[i] = Message(m + i, sizes[m + i])

LEMMA PostedPosts ==
    ASSUME NEW s \in ServerType, NEW n \in DOMAIN s.receiver, NEW r,
           ReadsOn(s.receiver[n], r), NEW size \in Nat, NEW m, NEW d \in Nat,
           Completes(r, m, d, s.limit.sizes)
    PROVE  LET t == Posted(With(s, n, r, size), n)
           IN  /\ t \in ServerType /\ Posts(s, t, n, m, d)
               /\ t.receiver[n] = Emptied(TakenBy(r, size))
<1> DEFINE u == With(s, n, r, size)
           p == u.receiver[n]
           done == p.complete
           q == Emptied(p)
           v == Put(u, n, q)
           new == [i \in DOMAIN done |-> Ended(Op("message", n, done[i]), FALSE)]
           h == u.ready \o new
           t == [v EXCEPT !.ready = h]
<1>1. u \in ServerType /\ Posts(s, u, n, m, 0) /\ p = TakenBy(r, size)
  BY WithPosts
<1>2. /\ p \in ReceiverType /\ p.complete = r.complete
  BY <1>1, TakenByIs DEF ReadsOn
<1>3. /\ Posted(u, n) = t
  BY DEF Posted, Put, Emptied
<1> HIDE DEF u
<1>4. /\ u.pending = s.pending /\ u.limit = s.limit /\ u.fate = s.fate
      /\ u.m_acceptor = s.m_acceptor /\ u.m_outer_set = s.m_outer_set
      /\ u.m_heartbeat_timer = s.m_heartbeat_timer /\ u.starts = s.starts
      /\ Longer(s.ready, u.ready) /\ Len(u.ready) = Len(s.ready) + 0
      /\ DOMAIN u.receiver = DOMAIN s.receiver
      /\ \A k \in DOMAIN s.receiver : k # n => u.receiver[k] = s.receiver[k]
      /\ u.receiver[n].got = s.receiver[n].got /\ u.receiver[n].told = s.receiver[n].told
      /\ u.receiver[n].m_socket = s.receiver[n].m_socket
      /\ u.receiver[n].m_executing = s.receiver[n].m_executing
      /\ u.receiver[n].closed = s.receiver[n].closed
  BY <1>1 DEF Posts
<1>5. done \in Seq(Seq(Units)) /\ Len(done) = d /\ DOMAIN done = 1..d
  <2>1. done \in Seq(Seq(Units))
    BY <1>2 DEF ReceiverType
  <2>2. QED
    BY <1>2, <2>1, LenProperties DEF Completes
<1>6. /\ q \in ReceiverType /\ q.got = p.got /\ q.told = p.told /\ q.m_socket = p.m_socket
      /\ q.m_executing = p.m_executing /\ q.closed = p.closed
  BY <1>2, EmptiedIs
<1> HIDE DEF p, q, done
<1>7. /\ v \in ServerType /\ SameQueues(u, v)
      /\ v.receiver[n] = q /\ DOMAIN v.receiver = DOMAIN u.receiver
      /\ \A k \in DOMAIN u.receiver : k # n => v.receiver[k] = u.receiver[k]
      /\ v.limit = u.limit /\ v.fate = u.fate /\ v.m_acceptor = u.m_acceptor
      /\ v.m_outer_set = u.m_outer_set /\ v.m_heartbeat_timer = u.m_heartbeat_timer
      /\ v.starts = u.starts
  BY <1>1, <1>4, <1>6, PutIs
<1> HIDE DEF v
<1>8. n \in Nat
  BY Fields
<1>9. \A i \in 1..d : Ended(Op("message", n, done[i]), FALSE) \in Handlers
  <2>1. TAKE i \in 1..d
  <2>2. done[i] \in Seq(Units)
    BY <1>5, ElementOfSeq
  <2>3. QED
    BY <1>8, <2>2 DEF Ended, Op, Handlers, MessageOps
<1>10. new \in Seq(Handlers) /\ Len(new) = d
  <2>1. new \in [1..d -> Handlers]
    BY <1>5, <1>9
  <2>2. QED
    BY <2>1, FunctionIsSeq
<1>11. \A i \in 1..d : new[i] = Ended(Op("message", n, done[i]), FALSE)
  BY <1>5
<1> HIDE DEF new
<1>12. u.ready \in Seq(Handlers) /\ Len(u.ready) \in Nat /\ Len(s.ready) \in Nat
  BY <1>1, Fields
<1>13. /\ h \in Seq(Handlers) /\ Len(h) = Len(u.ready) + Len(new)
       /\ \A i \in 1..(Len(u.ready) + Len(new)) :
             h[i] = IF i <= Len(u.ready) THEN u.ready[i] ELSE new[i - Len(u.ready)]
  BY <1>10, <1>12, ConcatProperties
<1> HIDE DEF h
<1>14. Len(u.ready) = Len(s.ready) /\ \A i \in 1..Len(s.ready) : u.ready[i] = s.ready[i]
  BY <1>4, <1>12 DEF Longer
<1>15. Len(h) = Len(s.ready) + d /\ Longer(s.ready, h)
  BY <1>10, <1>12, <1>13, <1>14 DEF Longer
<1>16. ASSUME NEW i \in 1..d
       PROVE  h[Len(s.ready) + i] =
                Ended(Op("message", n, Message(m + i, s.limit.sizes[m + i])), FALSE)
  <2>1. /\ Len(s.ready) + i \in 1..(Len(u.ready) + Len(new))
        /\ ~(Len(s.ready) + i <= Len(u.ready)) /\ (Len(s.ready) + i) - Len(u.ready) = i
    BY <1>10, <1>12, <1>14
  <2>2. h[Len(s.ready) + i] = new[i]
    BY <1>13, <2>1
  <2>3. done[i] = Message(m + i, s.limit.sizes[m + i])
    BY <1>2 DEF done, Completes
  <2>4. QED
    BY <1>11, <2>2, <2>3
<1>17. t \in ServerType
  BY <1>7, <1>13 DEF ServerType
<1>18. /\ t.pending = v.pending /\ t.ready = h /\ t.receiver = v.receiver
       /\ t.limit = v.limit /\ t.fate = v.fate /\ t.m_acceptor = v.m_acceptor
       /\ t.m_outer_set = v.m_outer_set /\ t.m_heartbeat_timer = v.m_heartbeat_timer
       /\ t.starts = v.starts
  BY <1>7 DEF ServerType
<1> HIDE DEF t
<1>19. t.receiver[n] = q
  BY <1>7, <1>18
<1>20. /\ t.receiver[n].got = s.receiver[n].got /\ t.receiver[n].told = s.receiver[n].told
       /\ t.receiver[n].m_socket = s.receiver[n].m_socket
       /\ t.receiver[n].m_executing = s.receiver[n].m_executing
       /\ t.receiver[n].closed = s.receiver[n].closed
  BY <1>4, <1>6, <1>19 DEF p
<1>21. /\ t.pending = s.pending /\ t.limit = s.limit /\ t.fate = s.fate
       /\ t.m_acceptor = s.m_acceptor /\ t.m_outer_set = s.m_outer_set
       /\ t.m_heartbeat_timer = s.m_heartbeat_timer /\ t.starts = s.starts
       /\ DOMAIN t.receiver = DOMAIN s.receiver
       /\ \A k \in DOMAIN s.receiver : k # n => t.receiver[k] = s.receiver[k]
  BY <1>4, <1>7, <1>18 DEF SameQueues
<1>22. Posts(s, t, n, m, d)
  BY <1>15, <1>16, <1>18, <1>20, <1>21 DEF Posts
<1>23. QED
  BY <1>1, <1>3, <1>17, <1>19, <1>22 DEF t, q, u, p

-----------------------------------------------------------------------------
(* The peer's next bytes.                                                  *)
LEMMA BytesAre ==
    ASSUME NEW s \in ServerType, NEW n \in DOMAIN s.receiver, NEW size \in Nat,
           s.receiver[n].peer.taken + size <= Ends(s.limit.sizes)[Len(s.limit.sizes)]
    PROVE  LET b == Bytes(s, n, size)
           IN  /\ b \in Seq(Units) /\ Len(b) = size
               /\ \A p \in 1..size : b[p] = Stream(s)[s.receiver[n].peer.taken + p]
<1> DEFINE taken == s.receiver[n].peer.taken
           all == Ends(s.limit.sizes)[Len(s.limit.sizes)]
           stream == Stream(s)
           b == SubSeq(stream, taken + 1, taken + size)
<1>1. taken \in Nat
  BY Elements DEF ReceiverType, Peers
<1>2. stream \in Seq(Units) /\ Len(stream) = all
  BY StreamIs DEF StreamsTo
<1>3. Bytes(s, n, size) = b
  BY DEF Bytes
<1>4. all \in Nat /\ taken + size <= all
  BY <1>2
<1> HIDE DEF taken, all, stream
<1>5. /\ taken + 1 \in 1..(Len(stream) + 1) /\ taken + size \in (taken + 1) - 1..Len(stream)
      /\ (taken + size) - (taken + 1) + 1 = size
  BY <1>1, <1>2, <1>4
<1>6. /\ b \in Seq(Units) /\ Len(b) = size
      /\ \A p \in 1..size : b[p] = stream[(taken + 1) + p - 1]
  <2>1. PICK from \in Int, to \in Int : from = taken + 1 /\ to = taken + size
    BY <1>1
  <2>2. to - from + 1 = size /\ (size = 0 => ~(from <= to)) /\ (size # 0 => from <= to)
    BY <1>1, <2>1
  <2>3. \A i \in from..to : stream[i] \in Units
    <3>1. \A i \in from..to : i \in 1..Len(stream)
      BY <1>1, <1>2, <1>4, <2>1
    <3>2. QED
      BY <1>2, <3>1, ElementOfSeq
  <2>4. /\ SubSeq(stream, from, to) \in Seq(Units)
        /\ Len(SubSeq(stream, from, to)) = IF from <= to THEN to - from + 1 ELSE 0
        /\ \A i \in 1..(to - from + 1) : SubSeq(stream, from, to)[i] = stream[from + i - 1]
    BY ONLY <2>1, <2>3, SubSeqProperties
  <2>5. QED
    BY <2>1, <2>2, <2>4
<1>7. \A p \in 1..size : (taken + 1) + p - 1 = taken + p
  BY <1>1
<1>8. QED
  BY <1>3, <1>6, <1>7 DEF taken, stream

(* A head and the body that follows it are a message.                      *)
LEMMA HeadIs ==
    ASSUME NEW sizes \in Seq(Nat), NEW k \in 1..Len(sizes)
    PROVE  /\ HeadOf(k, sizes) \in Seq(Units) /\ Len(HeadOf(k, sizes)) = HeadSize
           /\ \A p \in 1..HeadSize : HeadOf(k, sizes)[p] = Unit(k, p, sizes[k])
           /\ MessageSize(HeadOf(k, sizes)) = sizes[k]
<1>1. HeadSize \in Nat /\ HeadSize # 0 /\ sizes[k] \in Nat /\ k \in Nat
  BY ReaderAssumption, ElementOfSeq
<1>2. \A p \in 1..HeadSize : Unit(k, p, sizes[k]) \in Units /\ Unit(k, p, sizes[k])[3] = sizes[k]
  BY <1>1 DEF Unit, Units
<1>3. HeadOf(k, sizes) \in [1..HeadSize -> Units]
  BY <1>2 DEF HeadOf
<1>4. HeadOf(k, sizes) \in Seq(Units) /\ Len(HeadOf(k, sizes)) = HeadSize
  BY <1>1, <1>3, FunctionIsSeq
<1>5. \A p \in 1..HeadSize : HeadOf(k, sizes)[p] = Unit(k, p, sizes[k])
  BY DEF HeadOf
<1>6. 1 \in 1..HeadSize
  BY <1>1
<1>7. QED
  BY <1>2, <1>4, <1>5, <1>6 DEF MessageSize

LEMMA HeadAndBody ==
    ASSUME NEW sizes \in Seq(Nat), NEW k \in 1..Len(sizes), NEW body \in Seq(Units),
           Len(body) = sizes[k],
           \A p \in 1..sizes[k] : body[p] = Unit(k, HeadSize + p, sizes[k])
    PROVE  HeadOf(k, sizes) \o body = Message(k, sizes[k])
<1> DEFINE head == HeadOf(k, sizes)
           message == Message(k, sizes[k])
           on == head \o body
<1>1. HeadSize \in Nat /\ sizes[k] \in Nat /\ k \in Nat
  BY ReaderAssumption, ElementOfSeq
<1>2. /\ head \in Seq(Units) /\ Len(head) = HeadSize
      /\ \A p \in 1..HeadSize : head[p] = Unit(k, p, sizes[k])
  BY HeadIs
<1>3. /\ message \in Seq(Units) /\ Len(message) = HeadSize + sizes[k]
      /\ \A p \in 1..(HeadSize + sizes[k]) : message[p] = Unit(k, p, sizes[k])
  BY <1>1, MessageIs
<1> HIDE DEF head, message
<1>4. /\ on \in Seq(Units) /\ Len(on) = Len(head) + Len(body)
      /\ \A i \in 1..(Len(head) + Len(body)) :
            on[i] = IF i <= Len(head) THEN head[i] ELSE body[i - Len(head)]
  BY <1>2, ConcatProperties
<1> HIDE DEF on
<1>5. Len(on) = Len(message)
  BY <1>2, <1>3, <1>4
<1>6. ASSUME NEW i \in 1..Len(on) PROVE on[i] = message[i]
  <2>1. i \in 1..(HeadSize + sizes[k]) /\ i \in Nat /\ i >= 1
    BY <1>1, <1>3, <1>5
  <2>2. CASE i <= HeadSize
    BY <1>1, <1>2, <1>3, <1>4, <2>1, <2>2
  <2>3. CASE ~(i <= HeadSize)
    <3>1. i - HeadSize \in 1..sizes[k] /\ HeadSize + (i - HeadSize) = i
      BY <1>1, <2>1, <2>3
    <3>2. body[i - HeadSize] = Unit(k, i, sizes[k])
      BY <3>1
    <3>3. on[i] = body[i - HeadSize]
      BY <1>1, <1>2, <1>4, <2>1, <2>3
    <3>4. QED
      BY <1>3, <2>1, <3>2, <3>3
  <2>4. QED
    BY <2>2, <2>3
<1>7. on = message
  BY <1>3, <1>4, <1>5, <1>6, SeqEqual
<1>8. QED
  BY <1>7 DEF on, head, message

(* ReadComplete hands over the message that has been read.                 *)
Holds(r, k, sizes) ==
    /\ r.m_message_head = HeadOf(k, sizes) /\ Len(r.m_memory) = sizes[k]
    /\ \A p \in 1..sizes[k] : r.m_memory[p] = Unit(k, HeadSize + p, sizes[k])

HandedOver(r, none, complete) ==
    [r EXCEPT !.m_head_size = 0, !.m_body_size = 0, !.m_memory = none, !.complete = complete]

LEMMA ReadCompleteIs ==
    ASSUME NEW sizes \in Seq(Nat), NEW k \in 1..Len(sizes),
           NEW r \in ReceiverType, Holds(r, k, sizes)
    PROVE  LET q == ReadComplete(r)
           IN  /\ ReadsOn(r, q) /\ Fresh(q) /\ q.refused = r.refused /\ q.offset = r.offset
               /\ q.complete = Append(r.complete, Message(k, sizes[k]))
<1> DEFINE q == ReadComplete(r)
           message == Message(k, sizes[k])
<1>1. r.m_memory \in Seq(Units) /\ r.complete \in Seq(Seq(Units))
  BY DEF ReceiverType
<1>2. PICK joined : joined = r.m_message_head \o r.m_memory
  OBVIOUS
<1>3. joined = message
  BY <1>1, <1>2, HeadAndBody DEF Holds
<1>4. message \in Seq(Units)
  <2>1. k \in Nat /\ sizes[k] \in Nat
    BY ElementOfSeq
  <2>2. QED
    BY <2>1, MessageIs
<1> HIDE DEF message
<1>5. PICK complete : complete = Append(r.complete, joined)
  OBVIOUS
<1>6. PICK none : none = <<>>
  OBVIOUS
<1>7. none \in Seq(Units) /\ complete \in Seq(Seq(Units))
  <2>1. none \in Seq(Units)
    BY <1>6
  <2>2. complete \in Seq(Seq(Units))
    BY <1>1, <1>3, <1>4, <1>5, AppendIn
  <2>3. QED
    BY <2>1, <2>2
<1>8. q = [r EXCEPT !.m_head_size = 0, !.m_body_size = 0, !.m_memory = none, !.complete = complete]
  <2>1. q = HandedOver(r, <<>>, Append(r.complete, r.m_message_head \o r.m_memory))
    BY DEF ReadComplete, HandedOver
  <2>2. q = HandedOver(r, none, complete)
    BY <1>2, <1>5, <1>6, <2>1
  <2>3. QED
    BY <2>2 DEF HandedOver
<1> HIDE DEF q
<1>9. q \in ReceiverType
  BY <1>7, <1>8 DEF ReceiverType
<1>10. /\ q.m_head_size = 0 /\ q.m_body_size = 0 /\ q.m_memory = none /\ q.complete = complete
       /\ q.refused = r.refused /\ q.offset = r.offset
       /\ q.got = r.got /\ q.told = r.told /\ q.m_socket = r.m_socket
       /\ q.m_executing = r.m_executing /\ q.closed = r.closed
       /\ q.peer = r.peer /\ q.frame = r.frame
  BY <1>8 DEF ReceiverType
<1>11. ReadsOn(r, q) /\ Fresh(q)
  BY <1>6, <1>9, <1>10 DEF ReadsOn, Fresh
<1>12. QED
  BY <1>3, <1>5, <1>10, <1>11 DEF q, message

-----------------------------------------------------------------------------
(* The binary protocol: a head is read, then its body, then the next head. *)
LEMMA ReadOf ==
    ASSUME NEW n \in Nat
    PROVE  /\ \A step \in ReadSteps :
                Op("read", n, step) \in Reads(n) /\ Op("read", n, step).step = step
           /\ Op("write", n, "answer") \in Reads(n)
           /\ Op("write", n, "answer").step = "answer"
BY DEF Op, Reads, ReadOps, WriteOps, ReadSteps

LEMMA WaitsIs ==
    ASSUME NEW s, NEW n, NEW m, Waits(s, n, m)
    PROVE  /\ s \in ServerType /\ n \in DOMAIN s.receiver /\ n \in Nat /\ m \in Nat
           /\ s.limit.sizes \in Seq(Nat) /\ Len(s.limit.sizes) \in Nat
           /\ m \in 0..Len(s.limit.sizes) /\ s.receiver[n] \in ReceiverType
<1>1. s \in ServerType /\ n \in DOMAIN s.receiver /\ m \in 0..Len(s.limit.sizes)
  BY DEF Waits, Good, Sound
<1>2. s.limit.sizes \in Seq(Nat)
  BY <1>1, SizesAre
<1>3. Len(s.limit.sizes) \in Nat
  BY <1>2, LenProperties
<1>4. n \in Nat
  BY <1>1, Fields
<1>5. QED
  BY <1>1, <1>2, <1>3, <1>4, Elements

LEMMA ReadSettles ==
    ASSUME NEW s, NEW n, NEW m, Waits(s, n, m), NEW step \in ReadSteps,
           ReadAt(s.receiver[n], m, s.limit.sizes, Op("read", n, step))
    PROVE  Settled(Read(s, n, step))
<1>1. Op("read", n, step) \in Reads(n)
  BY WaitsIs, ReadOf
<1>2. Settled(OnSocket(s, n, Op("read", n, step)))
  BY <1>1, NextReadSettles
<1>3. QED
  BY <1>2 DEF Read

(* What the peer sends, by its messages.                                   *)
LEMMA StreamUnits ==
    ASSUME NEW s \in ServerType, NEW m \in Nat, m < Len(s.limit.sizes)
    PROVE  LET sizes == s.limit.sizes
           IN  /\ m + 1 \in 1..Len(sizes) /\ sizes[m + 1] \in Nat
               /\ Ends(sizes)[m] \in Nat /\ Ends(sizes)[m + 1] \in Nat
               /\ Ends(sizes)[m + 1] = Ends(sizes)[m] + HeadSize + sizes[m + 1]
               /\ Ends(sizes)[m + 1] <= Ends(sizes)[Len(sizes)]
               /\ Ends(sizes)[Len(sizes)] \in Nat
               /\ \A p \in 1..(HeadSize + sizes[m + 1]) :
                     Stream(s)[Ends(sizes)[m] + p] = Unit(m + 1, p, sizes[m + 1])
<1> DEFINE sizes == s.limit.sizes
           stream == Stream(s)
<1>1. sizes \in Seq(Nat) /\ Len(sizes) \in Nat /\ StreamsTo(stream, sizes, Len(sizes))
  <2>1. sizes \in Seq(Nat)
    BY SizesAre
  <2>2. QED
    BY <2>1, LenProperties, StreamIs
<1> HIDE DEF sizes, stream
<1>2. /\ m + 1 \in 1..Len(sizes) /\ m \in 0..Len(sizes) /\ (m + 1) - 1 = m
      /\ m + 1 \in 0..Len(sizes) /\ Len(sizes) \in 0..Len(sizes) /\ m + 1 <= Len(sizes)
  BY <1>1 DEF sizes
<1>3. sizes[m + 1] \in Nat
  BY <1>1, <1>2, ElementOfSeq
<1>4. /\ Ends(sizes)[m] \in Nat /\ Ends(sizes)[Len(sizes)] \in Nat
      /\ Ends(sizes)[m + 1] \in Nat
      /\ Ends(sizes)[m + 1] = Ends(sizes)[m] + HeadSize + sizes[m + 1]
  <2>1. /\ \A k \in 0..Len(sizes) : Ends(sizes)[k] \in Nat
        /\ \A k \in 1..Len(sizes) :
              Ends(sizes)[k] = Ends(sizes)[k - 1] + HeadSize + sizes[k]
    BY <1>1, EndsAre
  <2>2. QED
    BY <1>2, <2>1
<1>5. Ends(sizes)[m + 1] <= Ends(sizes)[Len(sizes)]
  BY <1>1, <1>2, EndsGrow
<1>6. \A p \in 1..(HeadSize + sizes[m + 1]) :
         stream[Ends(sizes)[m] + p] = Unit(m + 1, p, sizes[m + 1])
  <2>1. \A j \in 1..Len(sizes) : \A p \in 1..(HeadSize + sizes[j]) :
           stream[Ends(sizes)[j - 1] + p] = Unit(j, p, sizes[j])
    BY <1>1 DEF StreamsTo
  <2>2. QED
    BY <1>2, <2>1
<1>7. QED
  BY <1>2, <1>3, <1>4, <1>5, <1>6 DEF sizes, stream

(* A message that is complete is handed over, and the next head read.      *)
LEMMA NextHead ==
    ASSUME NEW s, NEW n, NEW m, Waits(s, n, m), m < Len(s.limit.sizes),
           NEW r, ReadsOn(s.receiver[n], r), Fresh(r), ~r.refused,
           Len(r.complete) = 1, r.complete[1] = Message(m + 1, s.limit.sizes[m + 1]),
           NEW size \in Nat, ~s.receiver[n].peer.websocket,
           s.receiver[n].peer.taken + size = Ends(s.limit.sizes)[m + 1]
    PROVE  Settled(NextReadHeadBinary(Posted(With(s, n, r, size), n), n))
<1> DEFINE u == Posted(With(s, n, r, size), n)
           q == u.receiver[n]
           op == Op("read", n, "head")
<1>1. /\ s \in ServerType /\ n \in DOMAIN s.receiver /\ n \in Nat /\ m \in Nat
      /\ s.receiver[n] \in ReceiverType /\ Len(s.limit.sizes) \in Nat
  BY WaitsIs
<1>2. PICK one : one = 1
  OBVIOUS
<1>3. u \in ServerType /\ Posts(s, u, n, m, one) /\ q = Emptied(TakenBy(r, size))
  <2>1. \A i \in 1..1 : i = 1
    OBVIOUS
  <2>2. \A i \in 1..one : r.complete[i] = Message(m + i, s.limit.sizes[m + i])
    BY <1>2, <2>1
  <2>3. one \in Nat /\ Completes(r, m, one, s.limit.sizes)
    BY <1>2, <2>2 DEF Completes
  <2> HIDE DEF u
  <2>4. /\ Posted(With(s, n, r, size), n) \in ServerType
        /\ Posts(s, Posted(With(s, n, r, size), n), n, m, one)
        /\ Posted(With(s, n, r, size), n).receiver[n] = Emptied(TakenBy(r, size))
    <3>1. s \in ServerType /\ n \in DOMAIN s.receiver
      BY <1>1
    <3>2. ReadsOn(s.receiver[n], r) /\ size \in Nat
      OBVIOUS
    <3>3. Completes(r, m, one, s.limit.sizes) /\ one \in Nat
      BY <2>3
    <3>4. QED
      BY ONLY <3>1, <3>2, <3>3, PostedPosts
  <2>5. QED
    BY <2>4 DEF u
<1>4. r \in ReceiverType /\ r.peer = s.receiver[n].peer
  BY DEF ReadsOn
<1>5. /\ TakenBy(r, size) \in ReceiverType
      /\ TakenBy(r, size).peer.taken = r.peer.taken + size
      /\ TakenBy(r, size).peer.websocket = r.peer.websocket
      /\ TakenBy(r, size).m_head_size = r.m_head_size
      /\ TakenBy(r, size).m_memory = r.m_memory
      /\ TakenBy(r, size).m_body_size = r.m_body_size
      /\ TakenBy(r, size).refused = r.refused
  BY <1>4, TakenByIs
<1>6. /\ q.complete = <<>> /\ q.peer = TakenBy(r, size).peer
      /\ q.m_head_size = r.m_head_size /\ q.m_memory = r.m_memory
      /\ q.m_body_size = r.m_body_size /\ q.refused = r.refused
  BY <1>3, <1>5, EmptiedIs
<1>7. /\ q.complete = <<>> /\ ~q.refused /\ Fresh(q) /\ ~q.peer.websocket
      /\ q.peer.taken = Ends(s.limit.sizes)[m + 1]
  BY <1>4, <1>5, <1>6 DEF Fresh
<1>8. u.limit = s.limit
  BY <1>3 DEF Posts
<1>9. Waits(u, n, m + 1)
  BY <1>1, <1>2, <1>3, WaitsOn
<1> HIDE DEF u
<1>10. CASE q.m_socket
  <2>1. op.step = "head"
    BY DEF Op
  <2>2. ReadAt(q, m + 1, u.limit.sizes, op)
    BY <1>7, <1>8, <2>1 DEF ReadAt
  <2>3. Settled(Read(u, n, "head"))
    BY <1>9, <2>2, ReadSettles DEF ReadSteps
  <2>4. QED
    BY <1>10, <2>3 DEF NextReadHeadBinary, u
<1>11. CASE ~q.m_socket
  <2>1. Settled(u)
    BY <1>9, <1>11, SilentSettles
  <2>2. QED
    BY <1>11, <2>1 DEF NextReadHeadBinary, u
<1>12. QED
  BY <1>10, <1>11

Headed(r, head) == [r EXCEPT !.m_message_head = head]
Bodied(r, body) == [r EXCEPT !.m_memory = body]

LEMMA HeadedIs ==
    ASSUME NEW r \in ReceiverType, NEW new \in Seq(Units)
    PROVE  /\ ReadsOn(r, Headed(r, new)) /\ Headed(r, new).m_message_head = new
           /\ Headed(r, new).m_head_size = r.m_head_size
           /\ Headed(r, new).m_body_size = r.m_body_size
           /\ Headed(r, new).m_memory = r.m_memory
           /\ Headed(r, new).complete = r.complete /\ Headed(r, new).refused = r.refused
           /\ ReadsOn(r, Bodied(r, new)) /\ Bodied(r, new).m_memory = new
           /\ Bodied(r, new).m_head_size = r.m_head_size
           /\ Bodied(r, new).m_body_size = r.m_body_size
           /\ Bodied(r, new).m_message_head = r.m_message_head
           /\ Bodied(r, new).complete = r.complete /\ Bodied(r, new).refused = r.refused
<1>1. Headed(r, new) \in ReceiverType /\ Bodied(r, new) \in ReceiverType
  BY DEF Headed, Bodied, ReceiverType
<1>2. QED
  BY <1>1 DEF Headed, Bodied, ReceiverType, ReadsOn

-----------------------------------------------------------------------------
LEMMA HeadBinarySettles ==
    ASSUME NEW s, NEW n, NEW m, Waits(s, n, m), NEW op, op.step \in {"first", "head"},
           ReadAt(s.receiver[n], m, s.limit.sizes, op), Came(s.receiver[n], s.limit.sizes),
           ~s.receiver[n].peer.websocket
    PROVE  Settled(HandleReadHeadBinary(s, n))
<1> DEFINE a == s.receiver[n]
           sizes == s.limit.sizes
           b == Bytes(s, n, HeadSize)
           r == Headed(a, b)
<1>1. /\ s \in ServerType /\ n \in DOMAIN s.receiver /\ n \in Nat /\ m \in Nat
      /\ a \in ReceiverType /\ sizes \in Seq(Nat) /\ Len(sizes) \in Nat /\ m \in 0..Len(sizes)
  BY WaitsIs
<1>2. /\ a.complete = <<>> /\ ~a.refused /\ Fresh(a)
      /\ a.peer.taken = Ends(sizes)[m] /\ ~a.peer.websocket
      /\ a.peer.taken < Ends(sizes)[Len(sizes)]
  BY DEF ReadAt, Came
<1>3. Ends(sizes)[Len(sizes)] \in Nat
  <2>1. \A k \in 0..Len(sizes) : Ends(sizes)[k] \in Nat
    BY <1>1, EndsAre
  <2>2. Len(sizes) \in 0..Len(sizes)
    BY <1>1
  <2>3. QED
    BY <2>1, <2>2
<1>4. m < Len(sizes)
  BY <1>1, <1>2, <1>3
<1>5. /\ m + 1 \in 1..Len(sizes) /\ sizes[m + 1] \in Nat /\ Ends(sizes)[m] \in Nat
      /\ Ends(sizes)[m + 1] = Ends(sizes)[m] + HeadSize + sizes[m + 1]
      /\ Ends(sizes)[m + 1] <= Ends(sizes)[Len(sizes)]
      /\ \A p \in 1..(HeadSize + sizes[m + 1]) :
            Stream(s)[Ends(sizes)[m] + p] = Unit(m + 1, p, sizes[m + 1])
  BY <1>1, <1>4, StreamUnits
<1>6. HeadSize \in Nat
  BY ReaderAssumption
<1>7. a.peer.taken + HeadSize <= Ends(sizes)[Len(sizes)]
  BY <1>2, <1>3, <1>5, <1>6
<1>8. /\ b \in Seq(Units) /\ Len(b) = HeadSize
      /\ \A p \in 1..HeadSize : b[p] = Stream(s)[a.peer.taken + p]
  BY <1>1, <1>6, <1>7, BytesAre
<1>9. /\ HeadOf(m + 1, sizes) \in Seq(Units) /\ Len(HeadOf(m + 1, sizes)) = HeadSize
      /\ \A p \in 1..HeadSize : HeadOf(m + 1, sizes)[p] = Unit(m + 1, p, sizes[m + 1])
      /\ MessageSize(HeadOf(m + 1, sizes)) = sizes[m + 1]
  BY <1>1, <1>5, HeadIs
<1>10. r = [s.receiver[n] EXCEPT !.m_message_head = Bytes(s, n, HeadSize)]
  BY DEF Headed
<1> HIDE DEF a, sizes, b
<1>11. b = HeadOf(m + 1, sizes)
  <2>1. \A p \in 1..HeadSize : p \in 1..(HeadSize + sizes[m + 1])
    BY <1>5, <1>6
  <2>2. \A p \in 1..HeadSize : b[p] = HeadOf(m + 1, sizes)[p]
    BY <1>2, <1>5, <1>8, <1>9, <2>1
  <2>3. QED
    BY <1>8, <1>9, <2>2, SeqEqual
<1>12. /\ ReadsOn(a, r) /\ r.m_message_head = b
       /\ r.m_head_size = a.m_head_size /\ r.m_body_size = a.m_body_size
       /\ r.m_memory = a.m_memory /\ r.complete = a.complete /\ r.refused = a.refused
  BY <1>1, <1>8, HeadedIs
<1> HIDE DEF r
<1>13. r \in ReceiverType /\ r.peer = a.peer /\ MessageSize(r.m_message_head) = sizes[m + 1]
  BY <1>9, <1>11, <1>12 DEF ReadsOn
<1>14. CASE sizes[m + 1] = 0
  <2> DEFINE q == ReadComplete(r)
  <2>1. r.m_memory = <<>>
    BY <1>2, <1>12 DEF Fresh
  <2>2. Len(r.m_memory) = sizes[m + 1] /\ \A p \in 1..sizes[m + 1] : FALSE
    BY <1>14, <2>1, EmptyIs
  <2>3. Holds(r, m + 1, sizes)
    BY <1>11, <1>12, <2>2 DEF Holds
  <2>4. /\ ReadsOn(r, q) /\ Fresh(q) /\ q.refused = r.refused
        /\ q.complete = Append(<<>>, Message(m + 1, sizes[m + 1]))
    BY <1>1, <1>2, <1>5, <1>12, <1>13, <2>3, ReadCompleteIs
  <2>5. Len(q.complete) = 1 /\ q.complete[1] = Message(m + 1, sizes[m + 1])
    BY <2>4, SingleIs
  <2> HIDE DEF q
  <2>6. ReadsOn(a, q) /\ ~q.refused
    BY <1>2, <1>12, <2>4 DEF ReadsOn
  <2>7. a.peer.taken + HeadSize = Ends(sizes)[m + 1]
    BY <1>2, <1>5, <1>6, <1>14
  <2>8. Settled(NextReadHeadBinary(Posted(With(s, n, q, HeadSize), n), n))
    BY <1>2, <1>4, <1>6, <2>4, <2>5, <2>6, <2>7, NextHead DEF a, sizes
  <2>9. HandleReadHeadBinary(s, n)
          = NextReadHeadBinary(Posted(With(s, n, q, HeadSize), n), n)
    BY <1>10, <1>13, <1>14 DEF HandleReadHeadBinary, ReadOnAfterHead, q
  <2>10. QED
    BY <2>8, <2>9
<1>15. CASE sizes[m + 1] # 0
  <2> DEFINE t == With(s, n, r, HeadSize)
             o == Op("read", n, "body")
  <2>1. t \in ServerType /\ Posts(s, t, n, m, 0) /\ t.receiver[n] = TakenBy(r, HeadSize)
    BY <1>1, <1>6, <1>12, WithPosts DEF a
  <2>2. Waits(t, n, m)
    <3>1. 0 \in Nat /\ m + 0 = m /\ m + 0 <= Len(s.limit.sizes)
      BY <1>1, <1>4 DEF sizes
    <3>2. Waits(t, n, m + 0)
      BY <2>1, <3>1, WaitsOn
    <3>3. QED
      BY <3>1, <3>2
  <2>3. t.limit.sizes = sizes
    BY <2>1 DEF Posts, sizes
  <2> HIDE DEF t
  <2>4. LET q == t.receiver[n]
        IN  /\ q.peer.taken = r.peer.taken + HeadSize
            /\ q.peer.websocket = r.peer.websocket
            /\ q.m_message_head = r.m_message_head /\ q.m_head_size = r.m_head_size
            /\ q.m_memory = r.m_memory /\ q.m_body_size = r.m_body_size
            /\ q.complete = r.complete /\ q.refused = r.refused
    <3>1. PICK q : q = TakenBy(r, HeadSize)
      OBVIOUS
    <3>2. /\ q.peer.taken = r.peer.taken + HeadSize /\ q.peer.websocket = r.peer.websocket
          /\ q.m_message_head = r.m_message_head /\ q.m_head_size = r.m_head_size
          /\ q.m_memory = r.m_memory /\ q.m_body_size = r.m_body_size
          /\ q.complete = r.complete /\ q.refused = r.refused
      BY <1>6, <1>13, <3>1, TakenByIs
    <3>3. t.receiver[n] = q
      BY <2>1, <3>1
    <3>4. QED
      BY ONLY <3>2, <3>3
  <2>5. o.step = "body"
    BY DEF Op
  <2>6. Fresh(t.receiver[n])
    BY <1>2, <1>12, <2>4 DEF Fresh
  <2>7. ReadAt(t.receiver[n], m, sizes, o)
    BY <1>2, <1>4, <1>11, <1>12, <1>13, <2>4, <2>5, <2>6 DEF ReadAt
  <2>8. Settled(Read(t, n, "body"))
    BY <2>2, <2>3, <2>7, ReadSettles DEF ReadSteps
  <2>9. HandleReadHeadBinary(s, n) = Read(t, n, "body")
    BY <1>10, <1>13, <1>15 DEF HandleReadHeadBinary, t
  <2>10. QED
    BY <2>8, <2>9
<1>16. QED
  BY <1>14, <1>15

LEMMA BodyBinarySettles ==
    ASSUME NEW s, NEW n, NEW m, Waits(s, n, m), NEW op, op.step = "body",
           ReadAt(s.receiver[n], m, s.limit.sizes, op)
    PROVE  Settled(HandleReadBodyBinary(s, n))
<1> DEFINE a == s.receiver[n]
           sizes == s.limit.sizes
           size == sizes[m + 1]
           b == Bytes(s, n, size)
           r == Bodied(a, b)
           q == ReadComplete(r)
<1>1. /\ s \in ServerType /\ n \in DOMAIN s.receiver /\ n \in Nat /\ m \in Nat
      /\ a \in ReceiverType /\ sizes \in Seq(Nat) /\ Len(sizes) \in Nat /\ m \in 0..Len(sizes)
  BY WaitsIs
<1>2. /\ a.complete = <<>> /\ ~a.refused /\ Fresh(a) /\ m < Len(sizes)
      /\ a.m_message_head = HeadOf(m + 1, sizes)
      /\ a.peer.taken = Ends(sizes)[m] + HeadSize /\ ~a.peer.websocket
  BY DEF ReadAt
<1>3. /\ m + 1 \in 1..Len(sizes) /\ size \in Nat /\ Ends(sizes)[m] \in Nat
      /\ Ends(sizes)[m + 1] = Ends(sizes)[m] + HeadSize + size
      /\ Ends(sizes)[m + 1] <= Ends(sizes)[Len(sizes)]
      /\ \A p \in 1..(HeadSize + size) :
            Stream(s)[Ends(sizes)[m] + p] = Unit(m + 1, p, size)
  BY <1>1, <1>2, StreamUnits
<1>4. HeadSize \in Nat
  BY ReaderAssumption
<1>5. a.peer.taken + size = Ends(sizes)[m + 1]
  BY <1>2, <1>3, <1>4
<1>6. /\ b \in Seq(Units) /\ Len(b) = size
      /\ \A p \in 1..size : b[p] = Stream(s)[a.peer.taken + p]
  BY <1>1, <1>3, <1>5, BytesAre
<1>7. MessageSize(a.m_message_head) = size
  BY <1>1, <1>2, <1>3, HeadIs
<1>8. /\ ReadsOn(a, r) /\ r.m_memory = b /\ r.m_message_head = a.m_message_head
      /\ r.complete = a.complete /\ r.refused = a.refused
  BY <1>1, <1>6, HeadedIs
<1>9. \A p \in 1..size : b[p] = Unit(m + 1, HeadSize + p, size)
  <2>1. TAKE p \in 1..size
  <2>2. /\ HeadSize + p \in 1..(HeadSize + size)
        /\ Ends(sizes)[m] + (HeadSize + p) = a.peer.taken + p
    BY <1>2, <1>3, <1>4
  <2>3. QED
    BY <1>3, <1>6, <2>2
<1>10. HandleReadBodyBinary(s, n)
          = NextReadHeadBinary(Posted(With(s, n, q, size), n), n)
  BY <1>7 DEF HandleReadBodyBinary, Bodied
<1> HIDE DEF a, sizes, size, b, r
<1>11. r \in ReceiverType /\ Holds(r, m + 1, sizes)
  BY <1>2, <1>6, <1>8, <1>9 DEF Holds, ReadsOn, size
<1>12. /\ ReadsOn(r, q) /\ Fresh(q) /\ q.refused = r.refused
       /\ q.complete = Append(<<>>, Message(m + 1, sizes[m + 1]))
  <2>1. r.complete = <<>>
    BY <1>2, <1>8
  <2>2. sizes \in Seq(Nat) /\ m + 1 \in 1..Len(sizes)
    BY <1>1, <1>3
  <2>3. QED
    BY ONLY <1>11, <2>1, <2>2, ReadCompleteIs DEF q
<1>13. Len(q.complete) = 1 /\ q.complete[1] = Message(m + 1, sizes[m + 1])
  BY <1>12, SingleIs
<1> HIDE DEF q
<1>14. ReadsOn(a, q) /\ ~q.refused
  BY <1>2, <1>8, <1>12 DEF ReadsOn
<1>15. Settled(NextReadHeadBinary(Posted(With(s, n, q, size), n), n))
  BY <1>2, <1>3, <1>5, <1>12, <1>13, <1>14, NextHead DEF a, sizes
<1>16. QED
  BY <1>10, <1>15

-----------------------------------------------------------------------------
(* What a frame brings: the units of the stream that come next.            *)
Carries(s, payload, from) ==
    /\ payload \in Seq(Units) /\ from \in Nat
    /\ from + Len(payload) <= Ends(s.limit.sizes)[Len(s.limit.sizes)]
    /\ \A p \in 1..Len(payload) : payload[p] = Stream(s)[from + p]

PartOf(seq, size, k, base, z) == \A p \in 1..size : seq[p] = Unit(k, base + p, z)
Brings(payload, offset, size, k, done, z) ==
    \A p \in 1..size : payload[offset + p] = Unit(k, done + p, z)

LEMMA CarriedUnits ==
    ASSUME NEW s \in ServerType, NEW m \in Nat, m < Len(s.limit.sizes),
           NEW payload, NEW from, Carries(s, payload, from),
           NEW offset \in Nat, NEW done \in Nat, NEW size \in Nat,
           from + offset = Ends(s.limit.sizes)[m] + done,
           offset + size <= Len(payload), done + size <= HeadSize + s.limit.sizes[m + 1]
    PROVE  Brings(payload, offset, size, m + 1, done, s.limit.sizes[m + 1])
<1> DEFINE z == s.limit.sizes[m + 1]
           end == Ends(s.limit.sizes)[m]
<1>1. /\ z \in Nat /\ end \in Nat
      /\ \A p \in 1..(HeadSize + z) : Stream(s)[end + p] = Unit(m + 1, p, z)
  BY StreamUnits
<1>2. /\ payload \in Seq(Units) /\ from \in Nat
      /\ \A p \in 1..Len(payload) : payload[p] = Stream(s)[from + p]
  BY DEF Carries
<1>3. Len(payload) \in Nat /\ HeadSize \in Nat
  BY <1>2, LenProperties, ReaderAssumption
<1>4. from + offset = end + done /\ done + size <= HeadSize + z
  OBVIOUS
<1> HIDE DEF z, end
<1>5. ASSUME NEW p \in 1..size
      PROVE  payload[offset + p] = Unit(m + 1, done + p, z)
  <2>1. offset + p \in 1..Len(payload) /\ done + p \in 1..(HeadSize + z)
    BY <1>1, <1>3, <1>4
  <2>2. from \in Int /\ end \in Int /\ offset \in Int /\ done \in Int /\ p \in Int
    BY <1>1, <1>2
  <2>3. from + (offset + p) = end + (done + p)
    BY ONLY <2>2, <1>4
  <2>4. QED
    BY <1>1, <1>2, <2>1, <2>3
<1>6. QED
  BY <1>5 DEF z, Brings

(* They are copied behind those that are there.                            *)
CopyOf(c, memory, at, payload, offset, size) ==
    /\ c \in Seq(Units) /\ Len(c) = at + size
    /\ \A p \in 1..at : c[p] = memory[p]
    /\ \A p \in 1..size : c[at + p] = payload[offset + p]

LEMMA CopiedIs ==
    ASSUME NEW memory \in Seq(Units), NEW payload \in Seq(Units), NEW at \in Nat,
           NEW offset \in Nat, NEW size \in Nat,
           at <= Len(memory), offset + size <= Len(payload)
    PROVE  CopyOf(Copied(memory, at, payload, offset, size), memory, at, payload, offset, size)
<1> DEFINE front == SubSeq(memory, 1, at)
           back == SubSeq(payload, offset + 1, offset + size)
           c == front \o back
<1>1. Len(memory) \in Nat /\ Len(payload) \in Nat
  BY LenProperties
<1>2. /\ 1 \in 1..(Len(memory) + 1) /\ at \in 1 - 1..Len(memory) /\ at - 1 + 1 = at
      /\ offset + 1 \in 1..(Len(payload) + 1)
      /\ offset + size \in (offset + 1) - 1..Len(payload)
      /\ (offset + size) - (offset + 1) + 1 = size
  BY <1>1
<1>3. /\ front \in Seq(Units) /\ Len(front) = at
      /\ \A p \in 1..at : front[p] = memory[1 + p - 1]
  BY <1>2, SubSeqProperties
<1>4. /\ back \in Seq(Units) /\ Len(back) = size
      /\ \A p \in 1..size : back[p] = payload[(offset + 1) + p - 1]
  BY <1>2, SubSeqProperties
<1>5. Copied(memory, at, payload, offset, size) = c
  BY DEF Copied
<1> HIDE DEF front, back
<1>6. /\ c \in Seq(Units) /\ Len(c) = Len(front) + Len(back)
      /\ \A i \in 1..(Len(front) + Len(back)) :
            c[i] = IF i <= Len(front) THEN front[i] ELSE back[i - Len(front)]
  BY <1>3, <1>4, ConcatProperties
<1> HIDE DEF c
<1>7. ASSUME NEW p \in 1..at PROVE c[p] = memory[p]
  <2>1. p \in 1..(Len(front) + Len(back)) /\ p <= Len(front) /\ 1 + p - 1 = p
    BY <1>3, <1>4
  <2>2. QED
    BY <1>3, <1>6, <2>1
<1>8. ASSUME NEW p \in 1..size PROVE c[at + p] = payload[offset + p]
  <2>1. /\ at + p \in 1..(Len(front) + Len(back)) /\ ~(at + p <= Len(front))
        /\ (at + p) - Len(front) = p /\ (offset + 1) + p - 1 = offset + p
    BY <1>3, <1>4
  <2>2. QED
    BY <1>4, <1>6, <2>1
<1>9. QED
  BY <1>3, <1>4, <1>5, <1>6, <1>7, <1>8 DEF CopyOf

LEMMA Continued ==
    ASSUME NEW memory \in Seq(Units), NEW payload \in Seq(Units), NEW at \in Nat,
           NEW offset \in Nat, NEW size \in Nat,
           at <= Len(memory), offset + size <= Len(payload),
           NEW k, NEW z, NEW base \in Nat,
           PartOf(memory, at, k, base, z), Brings(payload, offset, size, k, base + at, z)
    PROVE  LET c == Copied(memory, at, payload, offset, size)
           IN  /\ c \in Seq(Units) /\ Len(c) = at + size
               /\ PartOf(c, at + size, k, base, z)
<1> DEFINE c == Copied(memory, at, payload, offset, size)
<1>1. /\ c \in Seq(Units) /\ Len(c) = at + size
      /\ \A p \in 1..at : c[p] = memory[p]
      /\ \A p \in 1..size : c[at + p] = payload[offset + p]
  <2>1. /\ memory \in Seq(Units) /\ payload \in Seq(Units) /\ at \in Nat
        /\ offset \in Nat /\ size \in Nat
        /\ at <= Len(memory) /\ offset + size <= Len(payload)
    OBVIOUS
  <2>2. CopyOf(c, memory, at, payload, offset, size)
    BY ONLY <2>1, CopiedIs DEF c
  <2>3. QED
    BY <2>2 DEF CopyOf
<1> HIDE DEF c
<1>2. ASSUME NEW p \in 1..(at + size) PROVE c[p] = Unit(k, base + p, z)
  <2>1. CASE p <= at
    <3>1. p \in 1..at
      BY <2>1
    <3>2. memory[p] = Unit(k, base + p, z)
      BY <3>1 DEF PartOf
    <3>3. QED
      BY <1>1, <3>1, <3>2
  <2>2. CASE ~(p <= at)
    <3>1. p - at \in 1..size /\ at + (p - at) = p /\ (base + at) + (p - at) = base + p
      BY <2>2
    <3>2. c[p] = payload[offset + (p - at)]
      BY <1>1, <3>1
    <3>3. payload[offset + (p - at)] = Unit(k, (base + at) + (p - at), z)
      BY <3>1 DEF Brings
    <3>4. QED
      BY <3>1, <3>2, <3>3
  <2>3. QED
    BY <2>1, <2>2
<1>3. QED
  BY <1>1, <1>2 DEF c, PartOf

-----------------------------------------------------------------------------
(* The changes that the reader makes to a receiver.                        *)
HeadTaken(r, new, size, offset) ==
    [r EXCEPT !.m_message_head = new, !.m_head_size = size, !.offset = offset]
BodyTaken(r, new, size, offset) ==
    [r EXCEPT !.m_memory = new, !.offset = offset, !.m_body_size = size]
Blank(r) == [r EXCEPT !.m_memory = <<>>]
Refusing(r) == [r EXCEPT !.refused = TRUE]
Begun(r) == [r EXCEPT !.offset = 0, !.complete = <<>>]

LEMMA HeadTakenIs ==
    ASSUME NEW r \in ReceiverType, NEW new \in Seq(Units), NEW size \in Nat, NEW offset \in Nat
    PROVE  LET q == HeadTaken(r, new, size, offset)
           IN  /\ ReadsOn(r, q) /\ q.m_message_head = new /\ q.m_head_size = size
               /\ q.offset = offset /\ q.m_memory = r.m_memory
               /\ q.m_body_size = r.m_body_size
               /\ q.complete = r.complete /\ q.refused = r.refused
<1>1. HeadTaken(r, new, size, offset) \in ReceiverType
  BY DEF HeadTaken, ReceiverType
<1>2. QED
  BY <1>1 DEF HeadTaken, ReceiverType, ReadsOn

LEMMA BodyTakenIs ==
    ASSUME NEW r \in ReceiverType, NEW new \in Seq(Units), NEW size \in Nat, NEW offset \in Nat
    PROVE  LET q == BodyTaken(r, new, size, offset)
           IN  /\ ReadsOn(r, q) /\ q.m_memory = new /\ q.m_body_size = size
               /\ q.offset = offset /\ q.m_message_head = r.m_message_head
               /\ q.m_head_size = r.m_head_size
               /\ q.complete = r.complete /\ q.refused = r.refused
<1>1. BodyTaken(r, new, size, offset) \in ReceiverType
  BY DEF BodyTaken, ReceiverType
<1>2. QED
  BY <1>1 DEF BodyTaken, ReceiverType, ReadsOn

LEMMA BlankIs ==
    ASSUME NEW r \in ReceiverType
    PROVE  /\ ReadsOn(r, Blank(r)) /\ Blank(r).m_memory = <<>>
           /\ Blank(r).m_body_size = r.m_body_size /\ Blank(r).offset = r.offset
           /\ Blank(r).m_message_head = r.m_message_head
           /\ Blank(r).m_head_size = r.m_head_size
           /\ Blank(r).complete = r.complete /\ Blank(r).refused = r.refused
           /\ ReadsOn(r, Refusing(r)) /\ Refusing(r).refused
           /\ Refusing(r).complete = r.complete
<1>1. PICK none : none = <<>>
  OBVIOUS
<1>2. none \in Seq(Units)
  BY <1>1
<1>3. Blank(r) = [r EXCEPT !.m_memory = none]
  BY <1>1 DEF Blank
<1>4. Blank(r) \in ReceiverType
  BY <1>2, <1>3 DEF ReceiverType
<1>5. Refusing(r) \in ReceiverType
  BY DEF Refusing, ReceiverType
<1>6. QED
  BY <1>1, <1>3, <1>4, <1>5 DEF Refusing, ReceiverType, ReadsOn

LEMMA BegunIs ==
    ASSUME NEW r \in ReceiverType
    PROVE  LET q == Begun(r)
           IN  /\ ReadsOn(r, q) /\ q.complete = <<>> /\ q.offset = 0
               /\ q.m_memory = r.m_memory /\ q.m_body_size = r.m_body_size
               /\ q.m_message_head = r.m_message_head
               /\ q.m_head_size = r.m_head_size /\ q.refused = r.refused
<1>1. PICK none : none = <<>>
  OBVIOUS
<1>2. none \in Seq(Seq(Units))
  BY <1>1
<1>3. PICK zero : zero = 0
  OBVIOUS
<1>4. zero \in Nat /\ Begun(r) = [r EXCEPT !.offset = zero, !.complete = none]
  BY <1>1, <1>3 DEF Begun
<1>5. Begun(r) \in ReceiverType
  BY <1>2, <1>4 DEF ReceiverType
<1>6. QED
  BY <1>1, <1>3, <1>4, <1>5 DEF ReceiverType, ReadsOn

-----------------------------------------------------------------------------
(* What one step of the reader leaves: a part of the message after the     *)
(* m-th, or of the one after it, which has then been handed over.          *)
At(r, m, sizes, payload, from) ==
    /\ Partial(r, m, sizes) /\ r.offset \in Nat /\ r.offset <= Len(payload)
    /\ from + r.offset = Position(r, m, sizes)

Stays(r, q, m, sizes, payload, from) ==
    q.complete = r.complete /\ ~q.refused /\ At(q, m, sizes, payload, from)

Passes(r, q, m, sizes, payload, from) ==
    /\ m < Len(sizes) /\ q.complete = Append(r.complete, Message(m + 1, sizes[m + 1]))
    /\ ~q.refused /\ At(q, m + 1, sizes, payload, from)

Refuses(r, q) == q.complete = r.complete /\ q.refused

Outcome(r, q, m, sizes, payload, from) ==
    /\ ReadsOn(r, q)
    /\ \/ /\ Stays(r, q, m, sizes, payload, from) \/ Passes(r, q, m, sizes, payload, from)
          /\ q.offset >= r.offset
          /\ r.offset < Len(payload) => q.offset > r.offset
       \/ Refuses(r, q)

LEMMA CompletedIs ==
    ASSUME NEW s \in ServerType, NEW m \in Nat, m < Len(s.limit.sizes),
           NEW payload, NEW from, NEW r \in ReceiverType, ~r.refused,
           Holds(r, m + 1, s.limit.sizes), r.offset <= Len(payload),
           from + r.offset = Ends(s.limit.sizes)[m + 1]
    PROVE  Passes(r, ReadComplete(r), m, s.limit.sizes, payload, from)
           /\ ReadsOn(r, ReadComplete(r)) /\ ReadComplete(r).offset = r.offset
<1> DEFINE sizes == s.limit.sizes
           q == ReadComplete(r)
<1>1. /\ sizes \in Seq(Nat) /\ m + 1 \in 1..Len(sizes) /\ Ends(sizes)[m + 1] \in Nat
  BY SizesAre, StreamUnits
<1>2. /\ ReadsOn(r, q) /\ Fresh(q) /\ q.refused = r.refused /\ q.offset = r.offset
      /\ q.complete = Append(r.complete, Message(m + 1, sizes[m + 1]))
  BY <1>1, ReadCompleteIs
<1> HIDE DEF q
<1>3. r.offset \in Nat
  BY DEF ReceiverType
<1>4. Partial(q, m + 1, sizes) /\ q.m_head_size = 0 /\ q.m_body_size = 0
  BY <1>2 DEF Partial, Fresh
<1>5. Position(q, m + 1, sizes) = Ends(sizes)[m + 1]
  BY <1>1, <1>4 DEF Position
<1>6. At(q, m + 1, sizes, payload, from)
  BY <1>2, <1>3, <1>4, <1>5 DEF At
<1>7. QED
  BY <1>2, <1>6 DEF Passes, q

(* How much of the payload is taken.                                       *)
Portion(need, remain) == IF remain >= need THEN need ELSE remain

Fits(at, offset, len, from, end, z, head, size) ==
    /\ at \in Nat /\ offset \in Nat /\ len \in Nat /\ from \in Nat
    /\ end \in Nat /\ z \in Nat /\ head \in Nat
    /\ at < z /\ offset <= len /\ from + offset = end + head + at
    /\ size = Portion(z - at, len - offset)

Fitted(at, offset, len, from, end, z, head, size) ==
    /\ size \in Nat /\ at + size \in Nat /\ offset + size \in Nat
    /\ head + at \in Nat /\ from + offset = end + (head + at)
    /\ offset + size <= len /\ (head + at) + size <= head + z
    /\ offset + size >= offset /\ (offset < len => offset + size > offset)
    /\ from + (offset + size) = end + head + (at + size)
    /\ len - offset >= z - at =>
          at + size = z /\ from + (offset + size) = end + head + z
    /\ ~(len - offset >= z - at) => at + size < z

LEMMA Fitting ==
    ASSUME NEW at, NEW offset, NEW len, NEW from, NEW end, NEW z, NEW head, NEW size,
           Fits(at, offset, len, from, end, z, head, size)
    PROVE  Fitted(at, offset, len, from, end, z, head, size)
BY DEF Portion, Fits, Fitted

LEMMA TakeBodyIs ==
    ASSUME NEW s \in ServerType, NEW m \in Nat, NEW payload, NEW from,
           Carries(s, payload, from), NEW r \in ReceiverType, ~r.refused,
           InBody(r, m, s.limit.sizes), r.offset <= Len(payload),
           from + r.offset = Position(r, m, s.limit.sizes)
    PROVE  Outcome(r, TakeBody(r, payload, s.limit.sizes[m + 1] - r.m_body_size),
                   m, s.limit.sizes, payload, from)
<1> DEFINE sizes == s.limit.sizes
           z == sizes[m + 1]
           at == r.m_body_size
           end == Ends(sizes)[m]
           need == z - at
           remain == Len(payload) - r.offset
           size == Portion(need, remain)
           c == Copied(r.m_memory, at, payload, r.offset, size)
           g == BodyTaken(r, c, at + size, r.offset + size)
<1>1. /\ m < Len(sizes) /\ r.m_head_size = HeadSize /\ at < z
      /\ r.m_message_head = HeadOf(m + 1, sizes) /\ Len(r.m_memory) = at
  BY DEF InBody
<1>2. PartOf(r.m_memory, at, m + 1, HeadSize, z)
  BY DEF InBody, PartOf
<1>3. /\ sizes \in Seq(Nat) /\ m + 1 \in 1..Len(sizes) /\ z \in Nat /\ end \in Nat
      /\ Ends(sizes)[m + 1] = end + HeadSize + z
  BY <1>1, StreamUnits, SizesAre
<1>4. /\ r.m_memory \in Seq(Units) /\ at \in Nat /\ r.offset \in Nat
      /\ HeadSize \in Nat
  BY ReaderAssumption DEF ReceiverType
<1>5. payload \in Seq(Units) /\ Len(payload) \in Nat /\ from \in Nat
  <2>1. payload \in Seq(Units) /\ from \in Nat
    BY DEF Carries
  <2>2. QED
    BY <2>1, LenProperties
<1>6. from + r.offset = end + HeadSize + at
  BY <1>1 DEF Position
<1>7. TakeBody(r, payload, need) = IF remain >= need THEN ReadComplete(g) ELSE g
  BY DEF TakeBody, BodyTaken, Portion
<1> HIDE DEF sizes, z, end
<1>8. Fits(at, r.offset, Len(payload), from, end, z, HeadSize, size)
  BY <1>1, <1>3, <1>4, <1>5, <1>6 DEF Fits
<1>9. /\ Fitted(at, r.offset, Len(payload), from, end, z, HeadSize, size)
      /\ (remain >= need <=> Len(payload) - r.offset >= z - at)
  BY <1>8, Fitting
<1> HIDE DEF at, need, remain, size
<1>10. Brings(payload, r.offset, size, m + 1, HeadSize + at, z)
  <2>1. from + r.offset = Ends(s.limit.sizes)[m] + (HeadSize + at)
    BY <1>9 DEF end, sizes, Fitted
  <2>2. m < Len(s.limit.sizes) /\ (HeadSize + at) + size <= HeadSize + s.limit.sizes[m + 1]
    BY <1>1, <1>9 DEF z, sizes, Fitted
  <2>3. Brings(payload, r.offset, size, m + 1, HeadSize + at, s.limit.sizes[m + 1])
    BY <1>4, <1>9, <2>1, <2>2, CarriedUnits DEF Fitted
  <2>4. QED
    BY <2>3 DEF z, sizes
<1>11. /\ c \in Seq(Units) /\ Len(c) = at + size
       /\ PartOf(c, at + size, m + 1, HeadSize, z)
  <2>1. /\ r.m_memory \in Seq(Units) /\ payload \in Seq(Units) /\ at \in Nat
        /\ r.offset \in Nat /\ size \in Nat /\ HeadSize \in Nat
        /\ at <= Len(r.m_memory) /\ r.offset + size <= Len(payload)
    BY <1>1, <1>4, <1>5, <1>9 DEF Fitted
  <2>2. QED
    BY ONLY <2>1, <1>2, <1>10, Continued DEF c
<1> HIDE DEF c
<1>12. /\ ReadsOn(r, g) /\ g.m_memory = c /\ g.m_body_size = at + size
       /\ g.offset = r.offset + size /\ g.m_message_head = r.m_message_head
       /\ g.m_head_size = r.m_head_size
       /\ g.complete = r.complete /\ g.refused = r.refused
  BY <1>9, <1>11, BodyTakenIs DEF Fitted
<1> HIDE DEF g
<1>13. /\ g \in ReceiverType /\ ~g.refused /\ g.offset <= Len(payload)
       /\ g.offset >= r.offset /\ (r.offset < Len(payload) => g.offset > r.offset)
  <2>1. g \in ReceiverType /\ ~g.refused
    BY <1>12 DEF ReadsOn
  <2>2. QED
    BY <1>9, <1>12, <2>1 DEF Fitted
<1>14. CASE remain >= need
  <2> DEFINE q == ReadComplete(g)
  <2>1. at + size = z /\ from + g.offset = Ends(sizes)[m + 1]
    BY <1>3, <1>9, <1>12, <1>14 DEF Fitted
  <2>2. Holds(g, m + 1, sizes)
    BY <1>1, <1>11, <1>12, <2>1 DEF Holds, z, PartOf
  <2>3. /\ Passes(g, q, m, sizes, payload, from) /\ ReadsOn(g, q) /\ q.offset = g.offset
    BY <1>1, <1>13, <2>1, <2>2, CompletedIs DEF sizes
  <2> HIDE DEF q
  <2>4. Passes(r, q, m, sizes, payload, from)
    BY <1>12, <2>3 DEF Passes
  <2>5. ReadsOn(r, q)
    BY <1>12, <2>3 DEF ReadsOn
  <2>6. Outcome(r, q, m, sizes, payload, from)
    BY <1>13, <2>3, <2>4, <2>5 DEF Outcome
  <2>7. TakeBody(r, payload, need) = q
    BY <1>7, <1>14 DEF q
  <2>8. QED
    BY <2>6, <2>7 DEF sizes, need, z, at
<1>15. CASE ~(remain >= need)
  <2>1. g.m_body_size < z
    BY <1>9, <1>12, <1>15 DEF Fitted
  <2>2. InBody(g, m, sizes)
    BY <1>1, <1>11, <1>12, <2>1 DEF InBody, z, PartOf
  <2>3. from + g.offset = Position(g, m, sizes)
    BY <1>1, <1>9, <1>12 DEF Position, end, Fitted
  <2>4. At(g, m, sizes, payload, from)
    BY <1>9, <1>12, <1>13, <2>2, <2>3 DEF At, Partial, Fitted
  <2>5. Outcome(r, g, m, sizes, payload, from)
    BY <1>12, <1>13, <2>4 DEF Outcome, Stays
  <2>6. TakeBody(r, payload, need) = g
    BY <1>7, <1>15
  <2>7. QED
    BY <2>5, <2>6 DEF sizes, need, z, at
<1>16. QED
  BY <1>14, <1>15

-----------------------------------------------------------------------------
LEMMA OutcomeOn ==
    ASSUME NEW r, NEW b, NEW q, NEW m, NEW sizes, NEW payload, NEW from,
           ReadsOn(r, b), b.complete = r.complete, b.offset > r.offset,
           r.offset \in Nat, b.offset \in Nat, q.offset \in Nat,
           Outcome(b, q, m, sizes, payload, from)
    PROVE  Outcome(r, q, m, sizes, payload, from)
<1>1. ReadsOn(b, q) /\ ReadsOn(r, q)
  BY DEF Outcome, ReadsOn
<1>2. CASE Refuses(b, q)
  <2>1. Refuses(r, q)
    BY <1>2 DEF Refuses
  <2>2. QED
    BY <1>1, <2>1 DEF Outcome
<1>3. CASE ~Refuses(b, q)
  <2>1. /\ Stays(b, q, m, sizes, payload, from) \/ Passes(b, q, m, sizes, payload, from)
        /\ q.offset >= b.offset
    BY <1>3 DEF Outcome
  <2>2. Stays(r, q, m, sizes, payload, from) \/ Passes(r, q, m, sizes, payload, from)
    BY <2>1 DEF Stays, Passes
  <2>3. q.offset >= r.offset /\ q.offset > r.offset
    BY <2>1
  <2>4. QED
    BY <1>1, <2>2, <2>3 DEF Outcome
<1>4. QED
  BY <1>2, <1>3

(* The reader holds a part of a head, which may be none.                   *)
HeadAt(r, m, sizes) ==
    /\ m < Len(sizes) /\ r.m_head_size < HeadSize /\ r.m_body_size = 0 /\ r.m_memory = <<>>
    /\ r.m_head_size <= Len(r.m_message_head)
    /\ PartOf(r.m_message_head, r.m_head_size, m + 1, 0, sizes[m + 1])

LEMMA TakeHeadIs ==
    ASSUME NEW s \in ServerType, NEW m \in Nat, NEW payload, NEW from,
           Carries(s, payload, from), NEW r \in ReceiverType, ~r.refused,
           HeadAt(r, m, s.limit.sizes), r.offset < Len(payload),
           from + r.offset = Position(r, m, s.limit.sizes)
    PROVE  Outcome(r, TakeHead(r, payload), m, s.limit.sizes, payload, from)
<1> DEFINE sizes == s.limit.sizes
           z == sizes[m + 1]
           at == r.m_head_size
           end == Ends(sizes)[m]
           need == HeadSize - at
           remain == Len(payload) - r.offset
           part == IF remain < need THEN remain ELSE need
           size == Portion(need, remain)
           c == Copied(r.m_message_head, at, payload, r.offset, size)
           g == HeadTaken(r, c, at + size, r.offset + size)
           b == Blank(g)
<1>1. /\ m < Len(sizes) /\ at < HeadSize /\ r.m_body_size = 0 /\ r.m_memory = <<>>
      /\ at <= Len(r.m_message_head)
      /\ PartOf(r.m_message_head, at, m + 1, 0, z)
  BY DEF HeadAt
<1>2. /\ sizes \in Seq(Nat) /\ m + 1 \in 1..Len(sizes) /\ z \in Nat /\ end \in Nat
      /\ Ends(sizes)[m + 1] = end + HeadSize + z
  BY <1>1, StreamUnits, SizesAre
<1>3. /\ r.m_message_head \in Seq(Units) /\ at \in Nat /\ r.offset \in Nat
      /\ HeadSize \in Nat
  BY ReaderAssumption DEF ReceiverType
<1>4. payload \in Seq(Units) /\ Len(payload) \in Nat /\ from \in Nat
  <2>1. payload \in Seq(Units) /\ from \in Nat
    BY DEF Carries
  <2>2. QED
    BY <2>1, LenProperties
<1>5. from + r.offset = end + 0 + at
  <2>1. PICK a \in Nat, w \in Nat : a = end /\ w = at
    BY <1>2, <1>3
  <2>2. Position(r, m, sizes) = a + w + 0
    BY <1>1, <2>1 DEF Position
  <2>3. a + w + 0 = a + 0 + w
    OBVIOUS
  <2>4. QED
    BY <2>1, <2>2, <2>3
<1>6. remain \in Int /\ need \in Int /\ size = part
  BY <1>3, <1>4 DEF Portion
<1>7. TakeHead(r, payload)
        = IF g.m_head_size < HeadSize THEN g
          ELSE IF MessageSize(g.m_message_head) > MESSAGE_BUFFER_SIZE THEN Refusing(g)
          ELSE IF MessageSize(g.m_message_head) = 0 THEN ReadComplete(g)
          ELSE TakeBody(b, payload, MessageSize(g.m_message_head))
  <2>1. g = [r EXCEPT !.m_message_head = Copied(@, r.m_head_size, payload, r.offset, part),
                      !.m_head_size = @ + part, !.offset = @ + part]
    <3> HIDE DEF part, size
    <3>1. QED
      BY <1>6 DEF HeadTaken
  <2> HIDE DEF g
  <2>2. QED
    BY <2>1 DEF TakeHead, Refusing, Blank
<1> HIDE DEF sizes, z, end, part
<1>8. Fits(at, r.offset, Len(payload), from, end, HeadSize, 0, size)
  BY <1>1, <1>2, <1>3, <1>4, <1>5 DEF Fits
<1>9. /\ Fitted(at, r.offset, Len(payload), from, end, HeadSize, 0, size)
      /\ (remain >= need <=> Len(payload) - r.offset >= HeadSize - at)
  BY <1>8, Fitting
<1> HIDE DEF at, need, remain, size
<1>10. Brings(payload, r.offset, size, m + 1, 0 + at, z)
  <2>1. from + r.offset = Ends(s.limit.sizes)[m] + at /\ 0 + at = at
    BY <1>2, <1>3, <1>5 DEF end, sizes
  <2>2. m < Len(s.limit.sizes) /\ at + size <= HeadSize + z
    BY <1>1, <1>2, <1>3, <1>9 DEF sizes, Fitted
  <2>3. Brings(payload, r.offset, size, m + 1, at, s.limit.sizes[m + 1])
    <3>1. at + size <= HeadSize + s.limit.sizes[m + 1]
      BY <2>2 DEF z, sizes
    <3>2. r.offset + size <= Len(payload) /\ size \in Nat
      BY <1>9 DEF Fitted
    <3>3. QED
      BY <1>3, <2>1, <2>2, <3>1, <3>2, CarriedUnits
  <2>4. QED
    BY <2>1, <2>3 DEF z, sizes
<1>11. /\ c \in Seq(Units) /\ Len(c) = at + size
       /\ PartOf(c, at + size, m + 1, 0, z)
  <2>1. /\ r.m_message_head \in Seq(Units) /\ payload \in Seq(Units) /\ at \in Nat
        /\ r.offset \in Nat /\ size \in Nat /\ 0 \in Nat
        /\ at <= Len(r.m_message_head) /\ r.offset + size <= Len(payload)
    BY <1>1, <1>3, <1>4, <1>9 DEF Fitted
  <2>2. PartOf(r.m_message_head, at, m + 1, 0, z)
    BY <1>1
  <2>3. QED
    BY ONLY <2>1, <2>2, <1>10, Continued DEF c
<1> HIDE DEF c
<1>12. /\ ReadsOn(r, g) /\ g.m_message_head = c /\ g.m_head_size = at + size
       /\ g.offset = r.offset + size /\ g.m_memory = r.m_memory
       /\ g.m_body_size = r.m_body_size
       /\ g.complete = r.complete /\ g.refused = r.refused
  BY <1>9, <1>11, HeadTakenIs DEF Fitted
<1> HIDE DEF g
<1>13. /\ g \in ReceiverType /\ ~g.refused /\ g.offset <= Len(payload) /\ g.offset \in Nat
       /\ g.offset >= r.offset /\ g.offset > r.offset
       /\ from + g.offset = end + (at + size) /\ at + size \in Nat /\ at + size <= HeadSize
  <2>1. g \in ReceiverType /\ ~g.refused
    BY <1>12 DEF ReadsOn
  <2>2. /\ from + (r.offset + size) = end + (at + size) /\ at + size \in Nat
        /\ at + size <= HeadSize
    BY <1>2, <1>3, <1>9 DEF Fitted
  <2>3. QED
    BY <1>9, <1>12, <2>1, <2>2 DEF Fitted
<1>14. CASE at + size < HeadSize
  <2>1. InHead(g, m, sizes)
    <3>1. \A p \in 1..(at + size) : 0 + p = p
      BY <1>13
    <3>2. \A p \in 1..(at + size) : c[p] = Unit(m + 1, p, z)
      BY <1>11, <3>1 DEF PartOf
    <3>3. QED
      BY <1>1, <1>11, <1>12, <1>14, <3>2 DEF InHead, z
  <2>2. from + g.offset = Position(g, m, sizes)
    BY <1>1, <1>2, <1>12, <1>13 DEF Position, end
  <2>3. At(g, m, sizes, payload, from)
    BY <1>13, <2>1, <2>2 DEF At, Partial
  <2>4. Outcome(r, g, m, sizes, payload, from)
    BY <1>12, <1>13, <2>3 DEF Outcome, Stays
  <2>5. TakeHead(r, payload) = g
    BY <1>7, <1>12, <1>14
  <2>6. QED
    BY <2>4, <2>5 DEF sizes
<1>15. CASE ~(at + size < HeadSize)
  <2>1. at + size = HeadSize /\ from + g.offset = end + HeadSize
    BY <1>3, <1>13, <1>15
  <2>2. c = HeadOf(m + 1, sizes) /\ MessageSize(c) = z
    <3> DEFINE h == HeadOf(m + 1, sizes)
    <3>1. /\ h \in Seq(Units) /\ Len(h) = HeadSize
          /\ \A p \in 1..HeadSize : h[p] = Unit(m + 1, p, z)
          /\ MessageSize(h) = z
      BY <1>2, HeadIs DEF z
    <3> HIDE DEF h
    <3>2. \A p \in 1..HeadSize : c[p] = Unit(m + 1, p, z)
      <4>1. \A p \in 1..HeadSize : 0 + p = p
        BY <1>3
      <4>2. QED
        BY <1>11, <2>1, <4>1 DEF PartOf
    <3>3. c = h
      BY <1>11, <2>1, <3>1, <3>2, SeqEqual
    <3>4. QED
      BY <3>1, <3>3 DEF h
  <2>3. ~(g.m_head_size < HeadSize)
    BY <1>12, <1>15
  <2>4. CASE z > MESSAGE_BUFFER_SIZE
    <3>1. TakeHead(r, payload) = Refusing(g)
      BY <1>7, <1>12, <2>2, <2>3, <2>4
    <3>2. ReadsOn(g, Refusing(g)) /\ Refusing(g).refused /\ Refusing(g).complete = g.complete
      BY <1>13, BlankIs
    <3>3. ReadsOn(r, Refusing(g))
      BY <1>12, <3>2 DEF ReadsOn
    <3>4. Outcome(r, Refusing(g), m, sizes, payload, from)
      BY <1>12, <3>2, <3>3 DEF Outcome, Refuses
    <3>5. QED
      BY <3>1, <3>4 DEF sizes
  <2>5. CASE ~(z > MESSAGE_BUFFER_SIZE) /\ z = 0
    <3> DEFINE q == ReadComplete(g)
    <3>1. TakeHead(r, payload) = q
      BY <1>7, <1>12, <2>2, <2>3, <2>5
    <3>2. Len(g.m_memory) = z /\ \A p \in 1..z : FALSE
      BY <1>1, <1>12, <2>5, EmptyIs
    <3>3. Holds(g, m + 1, sizes)
      BY <1>12, <2>2, <3>2 DEF Holds, z
    <3>4. from + g.offset = Ends(sizes)[m + 1]
      BY <1>2, <1>3, <2>1, <2>5
    <3>5. Passes(g, q, m, sizes, payload, from) /\ ReadsOn(g, q) /\ q.offset = g.offset
      BY <1>1, <1>13, <3>3, <3>4, CompletedIs DEF sizes
    <3> HIDE DEF q
    <3>6. Passes(r, q, m, sizes, payload, from)
      BY <1>12, <3>5 DEF Passes
    <3>7. ReadsOn(r, q)
      BY <1>12, <3>5 DEF ReadsOn
    <3>8. Outcome(r, q, m, sizes, payload, from)
      BY <1>13, <3>5, <3>6, <3>7 DEF Outcome
    <3>9. QED
      BY <3>1, <3>8 DEF sizes
  <2>6. CASE ~(z > MESSAGE_BUFFER_SIZE) /\ z # 0
    <3> DEFINE q == TakeBody(b, payload, z)
    <3>1. TakeHead(r, payload) = q
      BY <1>7, <1>12, <2>2, <2>3, <2>6
    <3>2. /\ ReadsOn(g, b) /\ b.m_memory = <<>> /\ b.m_body_size = g.m_body_size
          /\ b.offset = g.offset /\ b.m_message_head = g.m_message_head
          /\ b.m_head_size = g.m_head_size
          /\ b.complete = g.complete /\ b.refused = g.refused
      BY <1>13, BlankIs
    <3> HIDE DEF b
    <3>3. b \in ReceiverType /\ ReadsOn(r, b)
      BY <1>12, <3>2 DEF ReadsOn
    <3>4. Len(b.m_memory) = 0 /\ b.m_body_size = 0 /\ \A p \in 1..0 : FALSE
      BY <1>1, <1>12, <3>2, EmptyIs
    <3>5. InBody(b, m, sizes)
      <4>1. b.m_head_size = HeadSize /\ b.m_message_head = HeadOf(m + 1, sizes)
        BY <1>12, <2>1, <2>2, <3>2
      <4>2. b.m_body_size < z
        BY <1>2, <2>6, <3>4
      <4>3. QED
        BY <1>1, <3>4, <4>1, <4>2 DEF InBody, z
    <3>6. from + b.offset = Position(b, m, sizes)
      BY <1>2, <1>3, <1>12, <2>1, <3>2, <3>4 DEF Position, end
    <3>7. z - b.m_body_size = z
      BY <1>2, <3>4
    <3>8. Outcome(b, TakeBody(b, payload, z - b.m_body_size), m, sizes, payload, from)
      BY <1>12, <1>13, <3>2, <3>3, <3>5, <3>6, TakeBodyIs DEF sizes, z
    <3>9. Outcome(b, q, m, sizes, payload, from)
      BY <3>7, <3>8
    <3> HIDE DEF q
    <3>10. q.offset \in Nat
      BY <3>9 DEF Outcome, ReadsOn, ReceiverType
    <3>11. Outcome(r, q, m, sizes, payload, from)
      BY <1>3, <1>12, <1>13, <3>2, <3>3, <3>9, <3>10, OutcomeOn
    <3>12. QED
      BY <3>1, <3>11 DEF sizes
  <2>7. QED
    BY <2>4, <2>5, <2>6
<1>16. QED
  BY <1>14, <1>15

-----------------------------------------------------------------------------
LEMMA ReadOnIs ==
    ASSUME NEW s \in ServerType, NEW m \in Nat, m <= Len(s.limit.sizes), NEW payload, NEW from,
           Carries(s, payload, from), NEW r \in ReceiverType, ~r.refused,
           At(r, m, s.limit.sizes, payload, from), r.offset < Len(payload)
    PROVE  Outcome(r, ReadOn(r, payload), m, s.limit.sizes, payload, from)
<1> DEFINE sizes == s.limit.sizes
           all == Ends(sizes)[Len(sizes)]
<1>1. /\ Partial(r, m, sizes) /\ r.offset \in Nat /\ r.offset <= Len(payload)
      /\ from + r.offset = Position(r, m, sizes)
  BY DEF At
<1>2. /\ sizes \in Seq(Nat) /\ Len(sizes) \in Nat /\ HeadSize \in Nat \ {0}
      /\ \A k \in 0..Len(sizes) : Ends(sizes)[k] \in Nat
  BY SizesAre, LenProperties, EndsAre, ReaderAssumption
<1>3. /\ Ends(sizes)[m] \in Nat
  BY <1>2
<1>4. /\ payload \in Seq(Units) /\ Len(payload) \in Nat /\ from \in Nat
      /\ from + Len(payload) <= all
  <2>1. payload \in Seq(Units) /\ from \in Nat /\ from + Len(payload) <= all
    BY DEF Carries
  <2>2. QED
    BY <2>1, LenProperties
<1>5. r.m_message_head \in Seq(Units) /\ Len(r.m_message_head) \in Nat
  <2>1. r.m_message_head \in Seq(Units)
    BY DEF ReceiverType
  <2>2. QED
    BY <2>1, LenProperties
<1>6. all \in Nat
  <2>1. Len(sizes) \in 0..Len(sizes)
    BY <1>2
  <2>2. QED
    BY <1>2, <2>1
<1> HIDE DEF all
<1>7. CASE InBody(r, m, sizes)
  <2>1. /\ m < Len(sizes) /\ r.m_head_size = HeadSize
        /\ r.m_message_head = HeadOf(m + 1, sizes)
    BY <1>7 DEF InBody
  <2>2. MessageSize(r.m_message_head) = sizes[m + 1]
    <3>1. m + 1 \in 1..Len(sizes)
      BY <1>2, <2>1
    <3>2. QED
      BY <1>2, <2>1, <3>1, HeadIs
  <2>3. Outcome(r, TakeBody(r, payload, sizes[m + 1] - r.m_body_size), m, sizes, payload, from)
    BY <1>1, <1>7, TakeBodyIs
  <2>4. ~(r.refused \/ r.offset >= Len(payload)) /\ ~(r.m_head_size < HeadSize)
    BY <1>1, <1>2, <1>4, <2>1
  <2>5. ReadOn(r, payload) = TakeBody(r, payload, sizes[m + 1] - r.m_body_size)
    BY <2>2, <2>4 DEF ReadOn
  <2>6. QED
    BY <2>3, <2>5
<1>8. CASE ~InBody(r, m, sizes)
  <2>1. HeadAt(r, m, sizes)
    <3>1. CASE Fresh(r)
      <4>1. r.m_head_size = 0 /\ r.m_body_size = 0 /\ r.m_memory = <<>>
        BY <3>1 DEF Fresh
      <4>2. from + r.offset = Ends(sizes)[m]
        BY <1>1, <1>3, <4>1 DEF Position
      <4>3. m # Len(sizes)
        BY <1>1, <1>4, <1>6, <4>2 DEF all
      <4>4. m < Len(sizes)
        BY <1>2, <4>3
      <4>5. PartOf(r.m_message_head, r.m_head_size, m + 1, 0, sizes[m + 1])
        <5>1. \A p \in 1..0 : FALSE
          OBVIOUS
        <5>2. QED
          BY <4>1, <5>1 DEF PartOf
      <4>6. QED
        BY <1>2, <1>5, <4>1, <4>4, <4>5 DEF HeadAt
    <3>2. CASE InHead(r, m, sizes)
      <4>1. /\ m < Len(sizes) /\ r.m_head_size < HeadSize
            /\ r.m_body_size = 0 /\ r.m_memory = <<>>
            /\ Len(r.m_message_head) = r.m_head_size
            /\ \A p \in 1..r.m_head_size : r.m_message_head[p] = Unit(m + 1, p, sizes[m + 1])
        BY <3>2 DEF InHead
      <4>2. \A p \in 1..r.m_head_size : 0 + p = p
        BY <1>5, <4>1
      <4>3. PartOf(r.m_message_head, r.m_head_size, m + 1, 0, sizes[m + 1])
        BY <4>1, <4>2 DEF PartOf
      <4>4. r.m_head_size <= Len(r.m_message_head)
        BY <1>5, <4>1
      <4>5. QED
        BY <4>1, <4>3, <4>4 DEF HeadAt
    <3>3. QED
      BY <1>1, <1>8, <3>1, <3>2 DEF Partial
  <2>2. Outcome(r, TakeHead(r, payload), m, sizes, payload, from)
    BY <1>1, <2>1, TakeHeadIs
  <2>3. ~(r.refused \/ r.offset >= Len(payload)) /\ r.m_head_size < HeadSize
    BY <1>1, <1>4, <2>1 DEF HeadAt
  <2>4. ReadOn(r, payload) = TakeHead(r, payload)
    BY <2>3 DEF ReadOn
  <2>5. QED
    BY <2>2, <2>4
<1>9. QED
  BY <1>7, <1>8

-----------------------------------------------------------------------------
(* What the calls of HandleWebSocketReadData have made of the receiver a:  *)
(* some messages after the m-th, and a part of the one after them.         *)
ReadsTo(a, q, m, d, sizes, payload, from) ==
    /\ ReadsOn(a, q) /\ m + d <= Len(sizes) /\ Completes(q, m, d, sizes)
    /\ ~q.refused => At(q, m + d, sizes, payload, from)

Reading(a, q, m, sizes, payload, from) ==
    \E d \in Nat : ReadsTo(a, q, m, d, sizes, payload, from)

Late(q, j, payload) == q.refused \/ q.offset >= j \/ q.offset >= Len(payload)

LEMMA CompletesNext ==
    ASSUME NEW sizes, NEW m \in Nat, NEW d \in Nat, NEW r \in ReceiverType,
           Completes(r, m, d, sizes), NEW q, NEW e \in Seq(Units),
           q.complete = Append(r.complete, e), e = Message(m + d + 1, sizes[m + d + 1])
    PROVE  Completes(q, m, d + 1, sizes)
<1> DEFINE old == r.complete
           new == q.complete
<1>1. old \in Seq(Seq(Units)) /\ Len(old) = d
      /\ \A i \in 1..d : old[i] = Message(m + i, sizes[m + i])
  BY DEF ReceiverType, Completes
<1>2. new = Append(old, e)
  OBVIOUS
<1> HIDE DEF old, new
<1>3. /\ Len(new) = Len(old) + 1 /\ new[Len(old) + 1] = e
      /\ \A i \in DOMAIN old : new[i] = old[i]
  BY <1>1, <1>2, AppendIs
<1>4. DOMAIN old = 1..d
  BY <1>1, LenProperties
<1>5. ASSUME NEW i \in 1..(d + 1) PROVE new[i] = Message(m + i, sizes[m + i])
  <2>1. CASE i \in 1..d
    BY <1>1, <1>3, <1>4, <2>1
  <2>2. CASE i \notin 1..d
    <3>1. i = d + 1 /\ m + i = m + d + 1
      BY <2>2
    <3>2. QED
      BY <1>1, <1>3, <3>1
  <2>3. QED
    BY <2>1, <2>2
<1>6. QED
  BY <1>1, <1>3, <1>5 DEF Completes, new

LEMMA ReadingOn ==
    ASSUME NEW s \in ServerType, NEW m \in Nat, NEW payload, NEW from,
           Carries(s, payload, from), NEW a, NEW r,
           Reading(a, r, m, s.limit.sizes, payload, from)
    PROVE  LET q == ReadOn(r, payload)
           IN  /\ Reading(a, q, m, s.limit.sizes, payload, from)
               /\ \A j \in Nat : Late(r, j, payload) => Late(q, j + 1, payload)
<1> DEFINE sizes == s.limit.sizes
           q == ReadOn(r, payload)
<1>1. PICK d \in Nat : ReadsTo(a, r, m, d, sizes, payload, from)
  BY DEF Reading
<1>2. /\ ReadsOn(a, r) /\ m + d <= Len(sizes) /\ Completes(r, m, d, sizes)
      /\ ~r.refused => At(r, m + d, sizes, payload, from)
      /\ r \in ReceiverType /\ r.offset \in Nat
  BY <1>1 DEF ReadsTo, ReadsOn, ReceiverType
<1>3. Len(payload) \in Nat
  BY LenProperties DEF Carries
<1>4. CASE r.refused \/ r.offset >= Len(payload)
  <2>1. q = r
    BY <1>4 DEF ReadOn
  <2>2. \A j \in Nat : Late(r, j, payload) => Late(r, j + 1, payload)
    BY <1>4 DEF Late
  <2>3. QED
    BY <2>1, <2>2
<1>5. CASE ~(r.refused \/ r.offset >= Len(payload))
  <2>1. r.offset < Len(payload) /\ ~r.refused /\ m + d \in Nat
    BY <1>2, <1>3, <1>5
  <2>2. Outcome(r, q, m + d, sizes, payload, from)
    BY <1>2, <2>1, ReadOnIs
  <2> HIDE DEF q
  <2>3. ReadsOn(r, q) /\ q \in ReceiverType /\ q.offset \in Nat
    BY <2>2 DEF Outcome, ReadsOn, ReceiverType
  <2>4. ReadsOn(a, q)
    BY <1>2, <2>3 DEF ReadsOn
  <2>5. q.refused \/ q.offset > r.offset
    BY <2>1, <2>2 DEF Outcome, Refuses
  <2>6. ASSUME NEW j \in Nat, Late(r, j, payload) PROVE Late(q, j + 1, payload)
    <3>1. r.offset >= j
      BY <1>5, <2>6 DEF Late
    <3>2. q.refused \/ q.offset >= j + 1
      BY <1>2, <2>3, <2>5, <3>1
    <3>3. QED
      BY <3>2 DEF Late
  <2>7. Reading(a, q, m, sizes, payload, from)
    <3>1. CASE Refuses(r, q)
      <4>1. q.refused /\ Completes(q, m, d, sizes)
        BY <1>2, <3>1 DEF Refuses, Completes
      <4>2. ReadsTo(a, q, m, d, sizes, payload, from)
        BY <1>2, <2>4, <4>1 DEF ReadsTo
      <4>3. QED
        BY <4>2 DEF Reading
    <3>2. CASE Stays(r, q, m + d, sizes, payload, from)
      <4>1. At(q, m + d, sizes, payload, from) /\ Completes(q, m, d, sizes)
        BY <1>2, <3>2 DEF Stays, Completes
      <4>2. ReadsTo(a, q, m, d, sizes, payload, from)
        BY <1>2, <2>4, <4>1 DEF ReadsTo
      <4>3. QED
        BY <4>2 DEF Reading
    <3>3. CASE Passes(r, q, m + d, sizes, payload, from)
      <4> DEFINE e == Message(m + d + 1, sizes[m + d + 1])
      <4>1. /\ m + d < Len(sizes) /\ q.complete = Append(r.complete, e)
            /\ At(q, m + d + 1, sizes, payload, from)
        BY <3>3 DEF Passes
      <4>2. /\ m + d + 1 \in Nat /\ sizes[m + d + 1] \in Nat /\ m + d + 1 <= Len(sizes)
            /\ m + d + 1 = m + (d + 1) /\ d + 1 \in Nat
        <5>1. m + d + 1 \in 1..Len(sizes) /\ sizes[m + d + 1] \in Nat
          BY <2>1, <4>1, StreamUnits
        <5>2. m + d + 1 \in Nat /\ m + d + 1 = m + (d + 1) /\ d + 1 \in Nat
          OBVIOUS
        <5>3. Len(sizes) \in Nat
          BY SizesAre, LenProperties
        <5>4. m + d + 1 <= Len(sizes)
          BY <5>1, <5>3
        <5>5. QED
          BY <5>1, <5>2, <5>4
      <4>3. e \in Seq(Units)
        BY <4>2, MessageIs
      <4>4. e = Message(m + d + 1, sizes[m + d + 1])
        OBVIOUS
      <4> HIDE DEF e
      <4>5. Completes(q, m, d + 1, sizes)
        BY <1>2, <4>1, <4>3, <4>4, CompletesNext
      <4>6. ReadsTo(a, q, m, d + 1, sizes, payload, from)
        BY <2>4, <4>1, <4>2, <4>5 DEF ReadsTo
      <4>7. QED
        BY <4>2, <4>6 DEF Reading
    <3>4. QED
      BY <2>2, <3>1, <3>2, <3>3 DEF Outcome
  <2>8. QED
    BY <2>6, <2>7 DEF q
<1>6. QED
  BY <1>4, <1>5

-----------------------------------------------------------------------------
(* All of the payload is read, or the reader refuses the message.          *)
LEMMA DataIs ==
    ASSUME NEW s \in ServerType, NEW m \in Nat, m <= Len(s.limit.sizes),
           NEW payload, NEW from, Carries(s, payload, from), NEW a \in ReceiverType,
           ~a.refused, Partial(a, m, s.limit.sizes), from = Position(a, m, s.limit.sizes)
    PROVE  LET q == HandleWebSocketReadData(a, payload)
           IN  /\ Reading(a, q, m, s.limit.sizes, payload, from)
               /\ Late(q, Len(payload), payload)
<1> DEFINE sizes == s.limit.sizes
           n == Len(payload)
           base == Begun(a)
           V == {q \in ReceiverType : Reading(a, q, m, sizes, payload, from)}
           Is(f) == f = [k \in 0..n |-> IF k = 0 THEN base ELSE ReadOn(f[k - 1], payload)]
           step == [k \in 1..n |-> [v \in V |-> ReadOn(v, payload)]]
           h == CHOOSE f : Is(f)
<1>1. n \in Nat
  BY LenProperties DEF Carries
<1>2. HandleWebSocketReadData(a, payload) = h[n]
  BY DEF HandleWebSocketReadData, Begun
<1>3. base \in V
  <2>1. /\ ReadsOn(a, base) /\ base.complete = <<>> /\ base.offset = 0
        /\ base.m_memory = a.m_memory /\ base.m_body_size = a.m_body_size
        /\ base.m_message_head = a.m_message_head
        /\ base.m_head_size = a.m_head_size /\ base.refused = a.refused
    BY BegunIs
  <2> HIDE DEF base
  <2>2. Partial(base, m, sizes)
    BY <2>1 DEF Partial, Fresh, InHead, InBody
  <2>3. Position(base, m, sizes) = from
    BY <2>1 DEF Position
  <2>4. from \in Nat
    BY DEF Carries
  <2>5. At(base, m, sizes, payload, from)
    BY <1>1, <2>1, <2>2, <2>3, <2>4 DEF At
  <2>6. Len(base.complete) = 0 /\ \A i \in 1..0 : FALSE
    BY <2>1, EmptyIs
  <2>7. PICK none : none = 0
    OBVIOUS
  <2>8. Completes(base, m, none, sizes) /\ m + none = m /\ none \in Nat
    BY <2>6, <2>7 DEF Completes
  <2>9. ReadsTo(a, base, m, none, sizes, payload, from)
    BY <2>1, <2>5, <2>8 DEF ReadsTo
  <2>10. base \in ReceiverType
    BY <2>1 DEF ReadsOn
  <2>11. QED
    BY <2>8, <2>9, <2>10 DEF Reading
<1>4. ASSUME NEW v \in V
      PROVE  /\ ReadOn(v, payload) \in V
             /\ \A j \in Nat : Late(v, j, payload) => Late(ReadOn(v, payload), j + 1, payload)
  <2>1. /\ Reading(a, ReadOn(v, payload), m, sizes, payload, from)
        /\ \A j \in Nat : Late(v, j, payload) => Late(ReadOn(v, payload), j + 1, payload)
    BY ReadingOn
  <2>2. ReadOn(v, payload) \in ReceiverType
    BY <2>1 DEF Reading, ReadsTo, ReadsOn
  <2>3. QED
    BY <2>1, <2>2
<1>5. base.offset = 0
  BY BegunIs
<1> HIDE DEF base, V
<1>6. IsStep(step, n, V)
  BY <1>4 DEF IsStep
<1>7. \A k \in 1..n : \A v \in V : step[k][v] = ReadOn(v, payload)
  OBVIOUS
<1> HIDE DEF step
<1>8. PICK f : MadeBy(f, step, base, n, V)
  <2> HIDE DEF n
  <2>1. QED
    BY <1>1, <1>3, <1>6, StepsExist
<1>9. /\ f \in [0..n -> V] /\ f[0] = base
      /\ \A k \in 1..n : f[k] = step[k][f[k - 1]]
  BY <1>8 DEF MadeBy
<1>10. \A k \in 1..n : f[k] = ReadOn(f[k - 1], payload)
  <2>1. TAKE k \in 1..n
  <2>2. k - 1 \in 0..n
    BY <1>1
  <2>3. f[k - 1] \in V
    BY <1>9, <2>2
  <2>4. QED
    BY <1>7, <1>9, <2>3
<1>11. Is(f)
  <2>1. \A k \in 0..n : k = 0 \/ k \in 1..n
    BY <1>1
  <2>2. \A k \in 0..n : f[k] = IF k = 0 THEN base ELSE ReadOn(f[k - 1], payload)
    BY <1>9, <1>10, <2>1
  <2>3. QED
    BY <1>9, <2>2
<1>12. Is(h)
  BY <1>11
<1> HIDE DEF h
<1>13. h[0] = base /\ \A k \in 1..n : h[k] = ReadOn(h[k - 1], payload)
  <2>1. 0 \in 0..n /\ \A k \in 1..n : k \in 0..n /\ k # 0
    BY <1>1
  <2>2. QED
    BY <1>12, <2>1
<1> DEFINE T == {k \in Nat : k <= n => h[k] \in V /\ Late(h[k], k, payload)}
<1>14. 0 \in T
  BY <1>3, <1>5, <1>13 DEF Late
<1>15. ASSUME NEW k \in Nat, k \in T PROVE k + 1 \in T
  <2>1. SUFFICES ASSUME k + 1 <= n PROVE h[k + 1] \in V /\ Late(h[k + 1], k + 1, payload)
    OBVIOUS
  <2>2. k + 1 \in 1..n /\ (k + 1) - 1 = k /\ h[k] \in V /\ Late(h[k], k, payload)
    BY <1>1, <1>15, <2>1
  <2>3. h[k + 1] = ReadOn(h[k], payload)
    BY <1>13, <2>2
  <2>4. QED
    BY <1>4, <2>2, <2>3
<1> HIDE DEF T
<1>16. n \in T
  BY <1>1, <1>14, <1>15, NatInductionOverSet
<1>17. h[n] \in V /\ Late(h[n], n, payload)
  BY <1>1, <1>16 DEF T
<1>18. QED
  BY <1>2, <1>17 DEF V, n

-----------------------------------------------------------------------------
(* The WebSocket protocol: the handshake, and the frames.                  *)
Holding(r, m, sizes) ==
    /\ r.complete = <<>> /\ ~r.refused /\ r.peer.websocket
    /\ Partial(r, m, sizes) /\ r.peer.taken = Position(r, m, sizes)

Spares(r, sizes) ==
    r.frame[1] # "control" => r.peer.taken + r.frame[2] <= Ends(sizes)[Len(sizes)]

LEMMA HoldingReads ==
    ASSUME NEW r, NEW m, NEW sizes, Holding(r, m, sizes), NEW op,
           op.step \notin {"first", "head", "body"},
           op.step \in {"length", "mark", "data"} => Spares(r, sizes)
    PROVE  ReadAt(r, m, sizes, op)
BY DEF Holding, Spares, ReadAt

LEMMA HoldingRead ==
    ASSUME NEW s, NEW n, NEW m, Waits(s, n, m),
           Holding(s.receiver[n], m, s.limit.sizes),
           NEW step \in ReadSteps \ {"first", "head", "body"},
           step \in {"length", "mark", "data"} => Spares(s.receiver[n], s.limit.sizes)
    PROVE  Settled(Read(s, n, step))
<1>1. Op("read", n, step).step = step
  BY DEF Op
<1>2. ReadAt(s.receiver[n], m, s.limit.sizes, Op("read", n, step))
  BY <1>1, HoldingReads
<1>3. QED
  BY <1>2, ReadSettles

LEMMA HandShakeSettles ==
    ASSUME NEW s, NEW n, NEW m, Waits(s, n, m),
           Holding(s.receiver[n], m, s.limit.sizes),
           NEW t \in HandleWebSocketHandShakeReceive(s, n)
    PROVE  Settled(t)
<1>1. CASE t = Read(s, n, "handshake")
  <2>1. "handshake" \in ReadSteps \ {"first", "head", "body"}
    BY DEF ReadSteps
  <2>2. Settled(Read(s, n, "handshake"))
    BY <2>1, HoldingRead
  <2>3. QED
    BY <1>1, <2>2
<1>2. CASE t = OnSocket(s, n, Op("write", n, "answer"))
  <2> DEFINE op == Op("write", n, "answer")
  <2>1. op \in Reads(n) /\ op.step = "answer"
    BY WaitsIs, ReadOf
  <2> HIDE DEF op
  <2>2. ReadAt(s.receiver[n], m, s.limit.sizes, op)
    BY <2>1, HoldingReads
  <2>3. Settled(OnSocket(s, n, op))
    BY <2>1, <2>2, NextReadSettles
  <2>4. QED
    BY <1>2, <2>3 DEF op
<1>3. CASE t \in HandleOuterDisconnected(s, n)
  BY <1>3, DisconnectSettles
<1>4. QED
  BY <1>1, <1>2, <1>3 DEF HandleWebSocketHandShakeReceive

(* The messages of a binary peer are taken for a handshake.                *)
Misled(r) == r.complete = <<>> /\ ~r.refused /\ ~r.peer.websocket

LEMMA MisledSettles ==
    ASSUME NEW s, NEW n, NEW m, Waits(s, n, m), Misled(s.receiver[n]),
           NEW t \in HandleWebSocketHandShakeReceive(s, n)
    PROVE  Settled(t)
<1>1. CASE t = Read(s, n, "handshake")
  <2>1. Op("read", n, "handshake").step = "handshake"
    BY DEF Op
  <2>2. ReadAt(s.receiver[n], m, s.limit.sizes, Op("read", n, "handshake"))
    BY <2>1 DEF ReadAt, Misled
  <2>3. "handshake" \in ReadSteps
    BY DEF ReadSteps
  <2>4. QED
    BY <1>1, <2>2, <2>3, ReadSettles
<1>2. CASE t \in HandleOuterDisconnected(s, n)
  BY <1>2, DisconnectSettles
<1>3. QED
  BY <1>1, <1>2 DEF HandleWebSocketHandShakeReceive, Misled

Websocketed(r) == [r EXCEPT !.m_is_websocket = TRUE]
Framed(r, f) == [r EXCEPT !.frame = f]

LEMMA FramedIs ==
    ASSUME NEW r \in ReceiverType, NEW f \in {"none", "message", "control"} \X Nat
    PROVE  /\ OfReader(r, Framed(r, f)) /\ Framed(r, f).frame = f
           /\ \A m, sizes : Holding(r, m, sizes) => Holding(Framed(r, f), m, sizes)
           /\ Framed(r, f).peer = r.peer
<1> DEFINE q == Framed(r, f)
<1>1. q \in ReceiverType
  BY DEF Framed, ReceiverType
<1>2. /\ q.frame = f /\ q.peer = r.peer
      /\ q.got = r.got /\ q.told = r.told /\ q.m_socket = r.m_socket
      /\ q.m_executing = r.m_executing /\ q.closed = r.closed
      /\ q.m_message_head = r.m_message_head /\ q.m_head_size = r.m_head_size
      /\ q.m_memory = r.m_memory /\ q.m_body_size = r.m_body_size
      /\ q.complete = r.complete /\ q.refused = r.refused
  BY DEF Framed, ReceiverType
<1> HIDE DEF q
<1>3. \A m, sizes : Holding(r, m, sizes) => Holding(q, m, sizes)
  BY <1>2 DEF Holding, Partial, Position, Fresh, InHead, InBody
<1>4. QED
  BY <1>1, <1>2, <1>3 DEF q, OfReader

LEMMA WebsocketedIs ==
    ASSUME NEW r \in ReceiverType
    PROVE  /\ OfReader(r, Websocketed(r))
           /\ \A m, sizes : Holding(r, m, sizes) => Holding(Websocketed(r), m, sizes)
           /\ Misled(r) => Misled(Websocketed(r))
<1> DEFINE q == Websocketed(r)
<1>1. q \in ReceiverType
  BY DEF Websocketed, ReceiverType
<1>2. /\ q.peer = r.peer
      /\ q.got = r.got /\ q.told = r.told /\ q.m_socket = r.m_socket
      /\ q.m_executing = r.m_executing /\ q.closed = r.closed
      /\ q.m_message_head = r.m_message_head /\ q.m_head_size = r.m_head_size
      /\ q.m_memory = r.m_memory /\ q.m_body_size = r.m_body_size
      /\ q.complete = r.complete /\ q.refused = r.refused
  BY DEF Websocketed, ReceiverType
<1> HIDE DEF q
<1>3. \A m, sizes : Holding(r, m, sizes) => Holding(q, m, sizes)
  BY <1>2 DEF Holding, Partial, Position, Fresh, InHead, InBody
<1>4. Misled(r) => Misled(q)
  BY <1>2 DEF Misled
<1>5. QED
  BY <1>1, <1>2, <1>3, <1>4 DEF q, OfReader

(* A change to the reader alone, while nothing is read.                    *)
LEMMA PutWaits ==
    ASSUME NEW s, NEW n, NEW m, Waits(s, n, m), NEW q, OfReader(s.receiver[n], q)
    PROVE  LET t == Put(s, n, q)
           IN  Waits(t, n, m) /\ t.receiver[n] = q /\ t.limit = s.limit
<1> DEFINE t == Put(s, n, q)
<1>1. s \in ServerType /\ n \in DOMAIN s.receiver /\ m \in Nat /\ m <= Len(s.limit.sizes)
  BY WaitsIs
<1>2. PICK none : none = 0
  OBVIOUS
<1>3. t \in ServerType /\ Posts(s, t, n, m, none) /\ t.receiver[n] = q
  BY <1>1, <1>2, PutPosts
<1> HIDE DEF t
<1>4. t.limit = s.limit
  BY <1>3 DEF Posts
<1>5. none \in Nat /\ m + none = m /\ m + none <= Len(s.limit.sizes)
  BY <1>1, <1>2
<1>6. Waits(t, n, m + none)
  BY <1>3, <1>5, WaitsOn
<1>7. QED
  BY <1>3, <1>4, <1>5, <1>6 DEF t

LEMMA HeadFirstSettles ==
    ASSUME NEW s, NEW n, NEW m, Waits(s, n, m), NEW op, op.step = "first",
           ReadAt(s.receiver[n], m, s.limit.sizes, op), Came(s.receiver[n], s.limit.sizes),
           NEW t \in HandleReadHeadFirst(s, n)
    PROVE  Settled(t)
<1> DEFINE a == s.receiver[n]
           q == Websocketed(a)
           u == Put(s, n, q)
<1>1. /\ a.complete = <<>> /\ ~a.refused /\ Fresh(a)
      /\ a.peer.taken = Ends(s.limit.sizes)[m]
  BY DEF ReadAt
<1>2. CASE ~StartsWithG(s, n)
  <2>1. t = HandleReadHeadBinary(s, n) /\ ~a.peer.websocket
    BY <1>2 DEF HandleReadHeadFirst, StartsWithG
  <2>2. Settled(HandleReadHeadBinary(s, n))
    BY <2>1, HeadBinarySettles
  <2>3. QED
    BY <2>1, <2>2
<1>3. CASE StartsWithG(s, n)
  <2>1. t \in HandleWebSocketHandShakeReceive(u, n)
    BY <1>3 DEF HandleReadHeadFirst, Put, Websocketed
  <2>2. OfReader(a, q)
    BY WaitsIs, WebsocketedIs
  <2> HIDE DEF q
  <2>3. Waits(u, n, m) /\ u.receiver[n] = q /\ u.limit = s.limit
    BY <2>2, PutWaits
  <2> HIDE DEF u
  <2>4. CASE a.peer.websocket
    <3>1. Ends(s.limit.sizes)[m] \in Nat
      BY WaitsIs, EndsAre
    <3>2. Position(a, m, s.limit.sizes) = Ends(s.limit.sizes)[m]
      BY <1>1, <3>1 DEF Fresh, Position
    <3>3. Holding(a, m, s.limit.sizes)
      BY <1>1, <2>4, <3>2 DEF Holding, Partial
    <3>4. Holding(q, m, s.limit.sizes)
      BY <3>3, WaitsIs, WebsocketedIs DEF q
    <3>5. QED
      BY <2>1, <2>3, <3>4, HandShakeSettles
  <2>5. CASE ~a.peer.websocket
    <3>1. Misled(a)
      BY <1>1, <2>5 DEF Misled
    <3>2. Misled(q)
      BY <3>1, WaitsIs, WebsocketedIs DEF q
    <3>3. QED
      BY <2>1, <2>3, <3>2, MisledSettles
  <2>6. QED
    BY <2>4, <2>5
<1>4. QED
  BY <1>2, <1>3

-----------------------------------------------------------------------------
LEMMA FramesSpare ==
    ASSUME NEW s \in ServerType, NEW n \in DOMAIN s.receiver, NEW f \in Frames(s, n)
    PROVE  /\ f \in {"none", "message", "control"} \X Nat
           /\ f[1] # "control" =>
                s.receiver[n].peer.taken + f[2] <= Ends(s.limit.sizes)[Len(s.limit.sizes)]
<1> DEFINE taken == s.receiver[n].peer.taken
           all == Ends(s.limit.sizes)[Len(s.limit.sizes)]
<1>1. taken \in Nat
  BY Elements DEF ReceiverType, Peers
<1>2. Len(Stream(s)) = all
  BY StreamIs DEF StreamsTo
<1>3. all \in Nat
  <2>1. Stream(s) \in Seq(Units)
    BY StreamIs DEF StreamsTo
  <2>2. QED
    BY <1>2, <2>1, LenProperties
<1>4. Left(s, n) = all - taken
  BY <1>2 DEF Left
<1>5. s.limit.frame \in Nat
  BY SizesAre
<1> HIDE DEF taken, all
<1>6. CASE f = <<"control", 0>>
  BY <1>6
<1>7. CASE f # <<"control", 0>>
  <2>1. PICK size \in 0..s.limit.frame : size <= Left(s, n) /\ f = <<"message", size>>
    BY <1>7 DEF Frames
  <2>2. size \in Nat /\ taken + size <= all
    BY <1>1, <1>3, <1>4, <1>5, <2>1
  <2>3. f[2] = size /\ f \in {"none", "message", "control"} \X Nat
    BY <2>1, <2>2
  <2>4. QED
    BY <2>2, <2>3 DEF taken, all
<1>8. QED
  BY <1>6, <1>7

LEMMA Read1Settles ==
    ASSUME NEW s, NEW n, NEW m, Waits(s, n, m),
           Holding(s.receiver[n], m, s.limit.sizes),
           NEW t \in HandleNextWebSocketRead1(s, n)
    PROVE  Settled(t)
<1>1. CASE t \in HandleOuterDisconnected(s, n)
  BY <1>1, DisconnectSettles
<1>2. CASE ~(t \in HandleOuterDisconnected(s, n))
  <2>1. PICK f \in Frames(s, n), step \in {"length", "mark", "data"} :
           t = Read([s EXCEPT !.receiver[n].frame = f], n, step)
    BY <1>2 DEF HandleNextWebSocketRead1
  <2> DEFINE a == s.receiver[n]
             q == Framed(a, f)
             u == Put(s, n, q)
  <2>2. /\ f \in {"none", "message", "control"} \X Nat
        /\ f[1] # "control" => a.peer.taken + f[2] <= Ends(s.limit.sizes)[Len(s.limit.sizes)]
    BY WaitsIs, FramesSpare
  <2>3. /\ OfReader(a, q) /\ q.frame = f /\ q.peer = a.peer
        /\ Holding(q, m, s.limit.sizes)
    BY <2>2, WaitsIs, FramedIs
  <2>4. t = Read(u, n, step)
    BY <2>1 DEF Put, Framed
  <2> HIDE DEF q
  <2>5. Waits(u, n, m) /\ u.receiver[n] = q /\ u.limit = s.limit
    BY <2>3, PutWaits
  <2> HIDE DEF u
  <2>6. Spares(q, s.limit.sizes)
    BY <2>2, <2>3 DEF Spares
  <2>7. step \in ReadSteps \ {"first", "head", "body"}
    BY DEF ReadSteps
  <2>8. Settled(Read(u, n, step))
    BY <2>3, <2>5, <2>6, <2>7, HoldingRead
  <2>9. QED
    BY <2>4, <2>8
<1>3. QED
  BY <1>1, <1>2

LEMMA Read2Settles ==
    ASSUME NEW s, NEW n, NEW m, Waits(s, n, m),
           Holding(s.receiver[n], m, s.limit.sizes),
           Spares(s.receiver[n], s.limit.sizes),
           NEW t \in HandleNextWebSocketRead2(s, n)
    PROVE  Settled(t)
<1>1. \A step \in {"mark", "data"} : step \in ReadSteps \ {"first", "head", "body"}
  BY DEF ReadSteps
<1>2. \A step \in {"mark", "data"} : Settled(Read(s, n, step))
  BY <1>1, HoldingRead
<1>3. QED
  BY <1>2, DisconnectSettles DEF HandleNextWebSocketRead2

(* A payload has been read.                                                *)
LEMMA DataSettles ==
    ASSUME NEW s, NEW n, NEW m, Waits(s, n, m),
           Holding(s.receiver[n], m, s.limit.sizes),
           Spares(s.receiver[n], s.limit.sizes),
           NEW t \in HandleNextWebSocketReadData(s, n)
    PROVE  Settled(t)
<1> DEFINE a == s.receiver[n]
           sizes == s.limit.sizes
           f == a.frame
           payload == Bytes(s, n, f[2])
           from == a.peer.taken
           r == HandleWebSocketReadData(a, payload)
           u == Posted(With(s, n, r, f[2]), n)
<1>1. /\ s \in ServerType /\ n \in DOMAIN s.receiver /\ n \in Nat /\ m \in Nat
      /\ a \in ReceiverType /\ sizes \in Seq(Nat) /\ Len(sizes) \in Nat /\ m <= Len(sizes)
  BY WaitsIs
<1>2. /\ ~a.refused /\ a.peer.websocket /\ Partial(a, m, sizes)
      /\ from = Position(a, m, sizes)
  BY DEF Holding
<1>3. "frame" \in ReadSteps \ {"first", "head", "body"}
  BY DEF ReadSteps
<1>4. CASE f[1] = "control"
  <2>1. Settled(Read(s, n, "frame"))
    BY <1>3, HoldingRead
  <2>2. t = Read(s, n, "frame")
    BY <1>4 DEF HandleNextWebSocketReadData
  <2>3. QED
    BY <2>1, <2>2
<1>5. CASE f[1] # "control"
  <2>1. f[2] \in Nat /\ from \in Nat
    BY <1>1 DEF ReceiverType, Peers
  <2>2. from + f[2] <= Ends(sizes)[Len(sizes)]
    BY <1>5 DEF Spares
  <2>3. /\ payload \in Seq(Units) /\ Len(payload) = f[2]
        /\ \A p \in 1..f[2] : payload[p] = Stream(s)[from + p]
    BY <1>1, <2>1, <2>2, BytesAre
  <2>4. Carries(s, payload, from)
    BY <2>1, <2>2, <2>3 DEF Carries
  <2>5. t \in IF r.refused THEN HandleOuterDisconnected(u, n) ELSE {Read(u, n, "frame")}
    BY <1>5 DEF HandleNextWebSocketReadData
  <2> HIDE DEF payload, from
  <2>6. Reading(a, r, m, sizes, payload, from) /\ Late(r, Len(payload), payload)
    BY <1>1, <1>2, <2>4, DataIs
  <2> HIDE DEF r
  <2>7. PICK d \in Nat : ReadsTo(a, r, m, d, sizes, payload, from)
    BY <2>6 DEF Reading
  <2>8. /\ ReadsOn(a, r) /\ m + d <= Len(sizes) /\ Completes(r, m, d, sizes)
        /\ ~r.refused => At(r, m + d, sizes, payload, from)
    BY <2>7 DEF ReadsTo
  <2>9. u \in ServerType /\ Posts(s, u, n, m, d) /\ u.receiver[n] = Emptied(TakenBy(r, f[2]))
    <3>1. /\ s \in ServerType /\ n \in DOMAIN s.receiver /\ f[2] \in Nat /\ d \in Nat
          /\ ReadsOn(s.receiver[n], r) /\ Completes(r, m, d, s.limit.sizes)
      BY <1>1, <2>1, <2>8
    <3> HIDE DEF f
    <3>2. QED
      BY ONLY <3>1, PostedPosts DEF u
  <2> HIDE DEF u
  <2>10. Waits(u, n, m + d) /\ u.limit = s.limit
    <3>1. u.limit = s.limit
      BY <2>9 DEF Posts
    <3>2. QED
      BY <2>8, <2>9, <3>1, WaitsOn
  <2>11. CASE r.refused
    BY <2>5, <2>10, <2>11, DisconnectSettles
  <2>12. CASE ~r.refused
    <3> DEFINE q == u.receiver[n]
               v == TakenBy(r, f[2])
    <3>1. /\ Partial(r, m + d, sizes) /\ r.offset \in Nat /\ r.offset <= Len(payload)
          /\ from + r.offset = Position(r, m + d, sizes)
      BY <2>8, <2>12 DEF At
    <3>2. r.offset = f[2]
      BY <2>1, <2>3, <2>6, <2>12, <3>1 DEF Late
    <3>3. /\ v \in ReceiverType /\ v.peer.taken = r.peer.taken + f[2]
          /\ v.peer.websocket = r.peer.websocket
          /\ v.m_message_head = r.m_message_head /\ v.m_head_size = r.m_head_size
          /\ v.m_memory = r.m_memory /\ v.m_body_size = r.m_body_size
          /\ v.refused = r.refused
      BY <2>1, <2>8, TakenByIs DEF ReadsOn
    <3> HIDE DEF v
    <3>4. /\ q.complete = <<>> /\ q.peer = v.peer
          /\ q.m_message_head = v.m_message_head /\ q.m_head_size = v.m_head_size
          /\ q.m_memory = v.m_memory /\ q.m_body_size = v.m_body_size
          /\ q.refused = v.refused
      <4>1. q = Emptied(v)
        BY <2>9 DEF v
      <4>2. v \in ReceiverType
        BY <3>3
      <4> HIDE DEF q
      <4>3. QED
        BY <4>1, <4>2, EmptiedIs
    <3> HIDE DEF q
    <3>5. r.peer = a.peer
      BY <2>8 DEF ReadsOn
    <3>6. Partial(q, m + d, sizes) /\ Position(q, m + d, sizes) = Position(r, m + d, sizes)
      BY <3>1, <3>3, <3>4 DEF Partial, Position, Fresh, InHead, InBody
    <3>7. q.peer.taken = Position(q, m + d, sizes)
      BY <3>1, <3>2, <3>3, <3>4, <3>5, <3>6 DEF from
    <3>8. Holding(q, m + d, sizes)
      BY <1>2, <2>12, <3>3, <3>4, <3>5, <3>6, <3>7 DEF Holding
    <3>9. Settled(Read(u, n, "frame"))
      BY <1>3, <2>10, <3>8, HoldingRead DEF q
    <3>10. QED
      BY <2>5, <2>12, <3>9
  <2>13. QED
    BY <2>11, <2>12
<1>6. QED
  BY <1>4, <1>5

LEMMA ReadHandled ==
    ASSUME NEW s, NEW n, NEW m, Waits(s, n, m), NEW op \in Reads(n), op.kind = "read",
           NEW failed \in BOOLEAN,
           ~failed => /\ ReadAt(s.receiver[n], m, s.limit.sizes, op)
                      /\ Came(s.receiver[n], s.limit.sizes),
           NEW t \in HandleRead(s, n, op.step, failed)
    PROVE  Settled(t)
<1> DEFINE a == s.receiver[n]
           sizes == s.limit.sizes
<1>1. CASE failed
  <2>1. t \in HandleOuterDisconnected(s, n)
    BY <1>1 DEF HandleRead
  <2>2. QED
    BY <2>1, DisconnectSettles
<1>2. CASE ~failed
  <2>1. op.step \in ReadSteps
    BY DEF Reads, ReadOps, WriteOps
  <2>2. ReadAt(a, m, sizes, op) /\ Came(a, sizes)
    BY <1>2
  <2>3. /\ op.step \notin {"first", "head", "body", "handshake"} => Holding(a, m, sizes)
        /\ op.step = "handshake" => Holding(a, m, sizes) \/ Misled(a)
    BY <2>2 DEF ReadAt, Holding, Misled
  <2>4. op.step \in {"length", "mark", "data"} => Spares(a, sizes)
    BY <2>2 DEF ReadAt, Spares
  <2>5. CASE op.step = "first"
    <3>1. t \in HandleReadHeadFirst(s, n)
      BY <1>2, <2>5 DEF HandleRead
    <3>2. QED
      BY <2>2, <2>5, <3>1, HeadFirstSettles
  <2>6. CASE op.step = "head"
    <3>1. t = HandleReadHeadBinary(s, n)
      BY <1>2, <2>6 DEF HandleRead
    <3>2. ~a.peer.websocket
      BY <2>2, <2>6 DEF ReadAt
    <3>3. QED
      BY <2>2, <2>6, <3>1, <3>2, HeadBinarySettles
  <2>7. CASE op.step = "body"
    <3>1. t = HandleReadBodyBinary(s, n)
      BY <1>2, <2>7 DEF HandleRead
    <3>2. QED
      BY <2>2, <2>7, <3>1, BodyBinarySettles
  <2>8. CASE op.step = "handshake"
    <3>1. t \in HandleWebSocketHandShakeReceive(s, n)
      BY <1>2, <2>8 DEF HandleRead
    <3>2. QED
      BY <2>3, <2>8, <3>1, HandShakeSettles, MisledSettles
  <2>9. CASE op.step = "frame"
    <3>1. t \in HandleNextWebSocketRead1(s, n)
      BY <1>2, <2>9 DEF HandleRead
    <3>2. QED
      BY <2>3, <2>9, <3>1, Read1Settles
  <2>10. CASE op.step = "length"
    <3>1. t \in HandleNextWebSocketRead2(s, n)
      BY <1>2, <2>10 DEF HandleRead
    <3>2. QED
      BY <2>3, <2>4, <2>10, <3>1, Read2Settles
  <2>11. CASE op.step = "mark"
    <3>1. t = Read(s, n, "data")
      BY <1>2, <2>11 DEF HandleRead, HandleNextWebSocketReadMark
    <3>2. "data" \in ReadSteps \ {"first", "head", "body"}
      BY DEF ReadSteps
    <3>3. QED
      BY <2>3, <2>4, <2>11, <3>1, <3>2, HoldingRead
  <2>12. CASE op.step = "data"
    <3>1. t \in HandleNextWebSocketReadData(s, n)
      BY <1>2, <2>12 DEF HandleRead
    <3>2. QED
      BY <2>3, <2>4, <2>12, <3>1, DataSettles
  <2>13. QED
    BY <2>1, <2>5, <2>6, <2>7, <2>8, <2>9, <2>10, <2>11, <2>12 DEF ReadSteps
<1>3. QED
  BY <1>1, <1>2

(* A write of a pocket has ended, or the answer of the handshake.          *)
LEMMA AnswerHandled ==
    ASSUME NEW s, NEW n, NEW m, Waits(s, n, m), NEW op, op.step = "answer",
           NEW failed \in BOOLEAN,
           ~failed => ReadAt(s.receiver[n], m, s.limit.sizes, op),
           NEW t \in HandleWritten(s, n, op.step, failed)
    PROVE  Settled(t)
<1>1. CASE failed
  <2>1. t \in HandleOuterDisconnected(s, n)
    BY <1>1 DEF HandleWritten
  <2>2. QED
    BY <2>1, DisconnectSettles
<1>2. CASE ~failed
  <2>1. t = Read(s, n, "frame")
    BY <1>2 DEF HandleWritten
  <2>2. Holding(s.receiver[n], m, s.limit.sizes)
    BY <1>2 DEF ReadAt, Holding
  <2>3. "frame" \in ReadSteps \ {"first", "head", "body"}
    BY DEF ReadSteps
  <2>4. QED
    BY <2>1, <2>2, <2>3, HoldingRead
<1>3. QED
  BY <1>1, <1>2

LEMMA PocketHandled ==
    ASSUME NEW s, Settled(s), NEW n \in DOMAIN s.receiver, ~Has(s, Writes(n)),
           s.receiver[n].m_socket => s.receiver[n].m_executing,
           s.receiver[n].told + Load(s, n) <= 1, NEW failed \in BOOLEAN,
           NEW t \in HandleWritten(s, n, "pocket", failed)
    PROVE  Settled(t)
<1>1. Good(s) /\ Sound(s) /\ Accepting(s) /\ Hearing(s, {})
  BY DEF Settled, Good
<1>2. CASE failed
  <2>1. Hearing(s, {n})
    BY <1>1 DEF Hearing
  <2>2. t \in HandleOuterDisconnected(s, n)
    BY <1>2 DEF HandleWritten
  <2>3. QED
    BY <1>1, <2>1, <2>2, HandleOuterDisconnectedKeeps
<1>3. CASE ~failed
  <2>1. t \in NextSend(s, n)
    BY <1>3 DEF HandleWritten
  <2>2. Sent(s, t)
    BY <1>1, <2>1, NextSendKeeps
  <2>3. QED
    BY <1>1, <2>2, SentIsCalled, CalledSettled
<1>4. QED
  BY <1>2, <1>3

-----------------------------------------------------------------------------
(* A handler is taken from the queue.                                      *)
LEMMA TakenQueues ==
    ASSUME NEW s \in ServerType, s.ready # <<>>, NEW Q
    PROVE  LET t == Taken(s)
               op == Head(s.ready).op
           IN  /\ Has(t, Q) => Has(s, Q)
               /\ op \notin Q /\ Has(s, Q) => Has(t, Q)
               /\ Single(s, Q) => Single(t, Q)
               /\ op \in Q /\ Single(s, Q) => ~Has(t, Q)
<1> DEFINE t == Taken(s)
           op == Head(s.ready).op
<1>1. /\ t.pending = s.pending /\ 1 \in DOMAIN s.ready /\ op = s.ready[1].op
      /\ \A i \in DOMAIN t.ready :
            i \in Nat /\ i >= 1 /\ i + 1 \in DOMAIN s.ready /\ t.ready[i] = s.ready[i + 1]
      /\ \A i \in DOMAIN s.ready : i = 1 \/ i - 1 \in DOMAIN t.ready
  BY TakenIs
<1>2. Len(s.ready) \in Nat /\ DOMAIN s.ready = 1..Len(s.ready)
  BY Fields
<1> HIDE DEF t, op
<1>3. \A i \in DOMAIN s.ready : i = 1 \/ (i - 1 \in DOMAIN t.ready /\ t.ready[i - 1] = s.ready[i])
  <2>1. TAKE i \in DOMAIN s.ready
  <2>2. i \in Nat /\ (i - 1) + 1 = i
    BY <1>2
  <2>3. QED
    BY <1>1, <2>2
<1>4. \A i, j \in DOMAIN t.ready : i + 1 = j + 1 => i = j
  BY <1>1
<1>5. \A i \in DOMAIN t.ready : i + 1 # 1
  BY <1>1
<1>6. InReady(t, Q) => InReady(s, Q)
  BY <1>1 DEF InReady
<1>7. InPending(t, Q) <=> InPending(s, Q)
  BY <1>1 DEF InPending
<1>8. op \notin Q /\ InReady(s, Q) => InReady(t, Q)
  BY <1>1, <1>3 DEF InReady
<1>9. Single(s, Q) => Single(t, Q)
  <2>1. SUFFICES ASSUME Single(s, Q) PROVE Single(t, Q)
    OBVIOUS
  <2>2. /\ \A i, j \in DOMAIN s.pending : s.pending[i] \in Q /\ s.pending[j] \in Q => i = j
        /\ \A i, j \in DOMAIN s.ready : s.ready[i].op \in Q /\ s.ready[j].op \in Q => i = j
        /\ ~(InPending(s, Q) /\ InReady(s, Q))
    BY <2>1 DEF Single
  <2>3. \A i, j \in DOMAIN t.ready : t.ready[i].op \in Q /\ t.ready[j].op \in Q => i = j
    <3>1. TAKE i, j \in DOMAIN t.ready
    <3>2. /\ i + 1 \in DOMAIN s.ready /\ t.ready[i] = s.ready[i + 1]
          /\ j + 1 \in DOMAIN s.ready /\ t.ready[j] = s.ready[j + 1]
      BY <1>1
    <3>3. QED
      BY <1>4, <2>2, <3>2
  <2>4. QED
    BY <1>1, <1>6, <1>7, <2>2, <2>3 DEF Single
<1>10. op \in Q /\ Single(s, Q) => ~Has(t, Q)
  <2>1. SUFFICES ASSUME op \in Q, Single(s, Q) PROVE ~Has(t, Q)
    OBVIOUS
  <2>2. /\ \A i, j \in DOMAIN s.ready : s.ready[i].op \in Q /\ s.ready[j].op \in Q => i = j
        /\ ~(InPending(s, Q) /\ InReady(s, Q))
    BY <2>1 DEF Single
  <2>3. InReady(s, Q)
    BY <1>1, <2>1 DEF InReady
  <2>4. ~InReady(t, Q)
    <3>1. SUFFICES ASSUME NEW i \in DOMAIN t.ready, t.ready[i].op \in Q PROVE FALSE
      BY DEF InReady
    <3>2. i + 1 \in DOMAIN s.ready /\ s.ready[i + 1].op \in Q /\ i + 1 # 1
      BY <1>1, <1>5, <3>1
    <3>3. QED
      BY <1>1, <2>1, <2>2, <3>2
  <2>5. QED
    BY <1>7, <2>2, <2>3, <2>4 DEF Has
<1>11. QED
  BY <1>6, <1>7, <1>8, <1>9, <1>10 DEF Has, t, op

LEMMA TakenCounted ==
    ASSUME NEW s \in ServerType, s.ready # <<>>, NEW k, NEW m,
           ~IsMessage(Head(s.ready), k), Counted(s, k, m)
    PROVE  Counted(Taken(s), k, m)
<1> DEFINE t == Taken(s)
           got == s.receiver[k].got
           sizes == s.limit.sizes
<1>1. /\ 1 \in DOMAIN s.ready /\ ~IsMessage(s.ready[1], k)
      /\ \A i \in DOMAIN t.ready :
            i \in Nat /\ i + 1 \in DOMAIN s.ready /\ t.ready[i] = s.ready[i + 1]
      /\ \A i \in DOMAIN s.ready : i = 1 \/ i - 1 \in DOMAIN t.ready
  BY TakenIs
<1>2. t.receiver[k].got = got /\ t.limit.sizes = sizes
  BY TakenIs DEF SameButQueues
<1>3. Len(s.ready) \in Nat /\ DOMAIN s.ready = 1..Len(s.ready)
  BY Fields
<1>4. /\ m \in 0..Len(sizes) /\ Len(got) <= m
      /\ \A j \in DOMAIN got : got[j] = Message(j, sizes[j])
      /\ \A i \in DOMAIN s.ready :
            IsMessage(s.ready[i], k) =>
              \E j \in (Len(got) + 1)..m : s.ready[i].op.step = Message(j, sizes[j])
      /\ \A i, j \in DOMAIN s.ready :
            IsMessage(s.ready[i], k) /\ IsMessage(s.ready[j], k) /\ i < j =>
              Number(s.ready[i].op.step) < Number(s.ready[j].op.step)
      /\ \A j \in (Len(got) + 1)..m :
            \E i \in DOMAIN s.ready :
              IsMessage(s.ready[i], k) /\ s.ready[i].op.step = Message(j, sizes[j])
  BY DEF Counted
<1> HIDE DEF t, got, sizes
<1>5. \A i \in DOMAIN s.ready : i = 1 \/ (i - 1 \in DOMAIN t.ready /\ t.ready[i - 1] = s.ready[i])
  <2>1. TAKE i \in DOMAIN s.ready
  <2>2. i \in Nat /\ (i - 1) + 1 = i
    BY <1>3
  <2>3. QED
    BY <1>1, <2>2
<1>6. \A i \in DOMAIN t.ready :
          IsMessage(t.ready[i], k) =>
            \E j \in (Len(got) + 1)..m : t.ready[i].op.step = Message(j, sizes[j])
  <2>1. TAKE i \in DOMAIN t.ready
  <2>2. HAVE IsMessage(t.ready[i], k)
  <2>3. i + 1 \in DOMAIN s.ready /\ t.ready[i] = s.ready[i + 1]
    BY <1>1
  <2>4. QED
    BY <1>4, <2>2, <2>3
<1>7. ASSUME NEW i \in DOMAIN t.ready, NEW j \in DOMAIN t.ready,
             IsMessage(t.ready[i], k), IsMessage(t.ready[j], k), i < j
      PROVE  Number(t.ready[i].op.step) < Number(t.ready[j].op.step)
  <2>1. /\ i + 1 \in DOMAIN s.ready /\ t.ready[i] = s.ready[i + 1]
        /\ j + 1 \in DOMAIN s.ready /\ t.ready[j] = s.ready[j + 1] /\ i + 1 < j + 1
    BY <1>1, <1>7
  <2>2. QED
    BY <1>4, <1>7, <2>1
<1>8. \A j \in (Len(got) + 1)..m :
          \E i \in DOMAIN t.ready :
            IsMessage(t.ready[i], k) /\ t.ready[i].op.step = Message(j, sizes[j])
  <2>1. TAKE j \in (Len(got) + 1)..m
  <2>2. PICK i \in DOMAIN s.ready :
           IsMessage(s.ready[i], k) /\ s.ready[i].op.step = Message(j, sizes[j])
    BY <1>4
  <2>3. i # 1
    BY <1>1, <2>2
  <2>4. i - 1 \in DOMAIN t.ready /\ t.ready[i - 1] = s.ready[i]
    BY <1>5, <2>3
  <2>5. QED
    BY <2>2, <2>4
<1>9. Counted(t, k, m)
  <2>1. /\ m \in 0..Len(sizes) /\ Len(got) <= m
        /\ \A j \in DOMAIN got : got[j] = Message(j, sizes[j])
    BY <1>4
  <2>2. \A i, j \in DOMAIN t.ready :
            IsMessage(t.ready[i], k) /\ IsMessage(t.ready[j], k) /\ i < j =>
              Number(t.ready[i].op.step) < Number(t.ready[j].op.step)
    BY <1>7
  <2>3. QED
    BY ONLY <1>2, <1>6, <1>8, <2>1, <2>2 DEF Counted
<1>10. QED
  BY <1>9 DEF t

LEMMA LoadFalls ==
    ASSUME NEW s, NEW t, NEW n, \A Q : Has(t, Q) => Has(s, Q)
    PROVE  /\ Load(t, n) <= Load(s, n) /\ Load(t, n) \in Nat /\ Load(s, n) \in Nat
           /\ Has(s, Reads(n)) /\ ~Has(t, Reads(n)) => Load(t, n) <= Load(s, n) - 1
           /\ Has(s, Writes(n)) /\ ~Has(t, Writes(n)) => Load(t, n) <= Load(s, n) - 1
<1>1. /\ Has(t, Reads(n)) => Has(s, Reads(n))
      /\ Has(t, Writes(n)) => Has(s, Writes(n))
  OBVIOUS
<1>2. QED
  BY <1>1 DEF Load, Bit

LEMMA TakenKeeps ==
    ASSUME NEW s, Good(s), s.ready # <<>>, Head(s.ready).op.kind # "message"
    PROVE  LET t == Taken(s)
           IN  Good(t) /\ SameButQueues(s, t)
<1> DEFINE t == Taken(s)
<1>1. /\ s \in ServerType /\ Refers(s) /\ Open(s)
      /\ \A n \in DOMAIN s.receiver : Lanes(s, n) /\ Ordered(s, n)
  BY SoundIs DEF Good
<1>2. /\ t \in ServerType /\ SameButQueues(s, t) /\ t.pending = s.pending
      /\ 1 \in DOMAIN s.ready /\ Head(s.ready) = s.ready[1]
      /\ \A i \in DOMAIN t.ready : i + 1 \in DOMAIN s.ready /\ t.ready[i] = s.ready[i + 1]
  BY <1>1, TakenIs
<1>3. /\ t.receiver = s.receiver /\ t.limit = s.limit /\ t.m_outer_set = s.m_outer_set
  BY <1>2 DEF SameButQueues
<1>4. \A Q : (Has(t, Q) => Has(s, Q)) /\ (Single(s, Q) => Single(t, Q))
  BY <1>1, TakenQueues
<1>5. ASSUME NEW k, NEW m, Counted(s, k, m) PROVE Counted(t, k, m)
  <2>1. ~IsMessage(Head(s.ready), k)
    BY DEF IsMessage
  <2>2. QED
    BY <1>1, <1>5, <2>1, TakenCounted
<1> HIDE DEF t
<1>6. ASSUME NEW k PROVE ReadsKept(s, t, k)
  BY <1>2 DEF ReadsKept
<1>7. ASSUME NEW k \in DOMAIN s.receiver PROVE Ordered(t, k)
  <2>1. PICK m \in 0..Len(s.limit.sizes) : Counted(s, k, m) /\ ReadsAt(s, k, m)
    BY <1>1 DEF Ordered
  <2>2. SameReader(s.receiver[k], t.receiver[k])
    BY <1>3, SameReaderIs
  <2>3. Counted(t, k, m) /\ ReadsAt(t, k, m)
    BY <1>3, <1>5, <1>6, <2>1, <2>2, ReadsAtKept
  <2>4. QED
    BY <1>3, <2>1, <2>3 DEF Ordered
<1>8. ASSUME NEW k \in DOMAIN s.receiver PROVE Lanes(t, k)
  <2>1. /\ Single(s, Reads(k)) /\ Single(s, Writes(k))
        /\ s.receiver[k].told > 0 => ~s.receiver[k].m_socket
        /\ s.receiver[k].m_socket /\ Has(s, Writes(k)) => s.receiver[k].m_executing
        /\ s.receiver[k].told + Load(s, k) <= 2
    BY <1>1 DEF Lanes
  <2>2. Load(t, k) <= Load(s, k) /\ Load(t, k) \in Nat /\ Load(s, k) \in Nat
    BY <1>4, LoadFalls
  <2>3. s.receiver[k].told \in Nat
    BY <1>1, Elements DEF ReceiverType
  <2>4. s.receiver[k].told + Load(t, k) <= 2
    BY <2>1, <2>2, <2>3
  <2>5. QED
    BY <1>3, <1>4, <2>1, <2>4 DEF Lanes
<1>9. Refers(t)
  <2>1. /\ s.m_outer_set \subseteq DOMAIN s.receiver
        /\ \A i \in DOMAIN s.pending : OfReceiver(s, s.pending[i])
        /\ \A i \in DOMAIN s.ready : OfReceiver(s, s.ready[i].op)
    BY <1>1 DEF Refers
  <2>2. \A op : OfReceiver(s, op) => OfReceiver(t, op)
    BY <1>3 DEF OfReceiver
  <2>3. QED
    BY <1>2, <1>3, <2>1, <2>2 DEF Refers
<1>10. Sound(t)
  BY <1>2, <1>3, <1>7, <1>8, <1>9 DEF Sound
<1>11. Open(t)
  BY <1>1, <1>3 DEF Open
<1>12. QED
  BY <1>2, <1>10, <1>11 DEF Good, t

-----------------------------------------------------------------------------
LEMMA TakenHears ==
    ASSUME NEW s, Settled(s), s.ready # <<>>, NEW t, t = Taken(s)
    PROVE  /\ \A N : (\A k : k \notin N => Head(s.ready).op \notin Reads(k)) => Hearing(t, N)
           /\ Head(s.ready).op \notin Accepts => Accepting(t)
<1>1. s \in ServerType /\ Hearing(s, {}) /\ Accepting(s)
  BY SoundIs DEF Settled, Good
<1>2. /\ t.fate = s.fate /\ t.m_outer_set = s.m_outer_set
      /\ t.receiver = s.receiver /\ t.m_acceptor = s.m_acceptor
  BY <1>1, TakenIs DEF SameButQueues
<1>3. \A Q : Head(s.ready).op \notin Q /\ Has(s, Q) => Has(t, Q)
  BY <1>1, TakenQueues
<1>4. ASSUME NEW N, \A k : k \notin N => Head(s.ready).op \notin Reads(k)
      PROVE  Hearing(t, N)
  BY <1>1, <1>2, <1>3, <1>4 DEF Hearing
<1>5. Head(s.ready).op \notin Accepts => Accepting(t)
  BY <1>1, <1>2, <1>3 DEF Accepting
<1>6. QED
  BY <1>4, <1>5

LEMMA AcceptsApart ==
    ASSUME NEW op, NEW k
    PROVE  op \in Accepts => op \notin Reads(k) /\ op.kind = "accept"
BY DEF Accepts, AcceptOps, Reads, ReadOps, WriteOps

LEMMA TakenRead ==
    ASSUME NEW s, Settled(s), s.ready # <<>>, NEW t, t = Taken(s),
           NEW n, Head(s.ready).op \in Reads(n)
    PROVE  \E m : /\ Waits(t, n, m)
                  /\ ~Head(s.ready).failed =>
                        /\ ReadAt(t.receiver[n], m, t.limit.sizes, Head(s.ready).op)
                        /\ Came(t.receiver[n], t.limit.sizes)
<1> DEFINE h == Head(s.ready)
<1>1. /\ Good(s) /\ s \in ServerType /\ Refers(s)
      /\ \A k \in DOMAIN s.receiver : Lanes(s, k) /\ Ordered(s, k)
  BY SoundIs DEF Settled, Good
<1>2. 1 \in DOMAIN s.ready /\ h = s.ready[1]
  BY <1>1, TakenIs
<1> HIDE DEF h
<1>3. h.op.of = n /\ h.op.kind \in {"read", "write"}
  BY LanesApart DEF h
<1>4. h.op.kind # "message"
  BY <1>3
<1>5. Good(t) /\ SameButQueues(s, t)
  BY <1>1, <1>4, TakenKeeps DEF h
<1>6. n \in DOMAIN s.receiver
  BY <1>1, <1>2, <1>3 DEF Refers, OfReceiver
<1>7. t.receiver = s.receiver /\ t.limit = s.limit
  BY <1>5 DEF SameButQueues
<1>8. Hearing(t, {n}) /\ Accepting(t)
  <2>1. \A k : k \notin {n} => h.op \notin Reads(k)
    BY <1>3, LanesApart
  <2>2. h.op \notin Accepts
    BY AcceptsApart DEF h
  <2>3. QED
    BY <2>1, <2>2, TakenHears DEF h
<1>9. /\ \A Q : Has(t, Q) => Has(s, Q)
      /\ \A Q : h.op \in Q /\ Single(s, Q) => ~Has(t, Q)
  BY <1>1, TakenQueues DEF h
<1>10. /\ Single(s, Reads(n)) /\ s.receiver[n].told + Load(s, n) <= 2
       /\ s.receiver[n].told \in Nat
  BY <1>1, <1>6, Elements DEF Lanes, ReceiverType
<1>11. ~Has(t, Reads(n)) /\ Has(s, Reads(n))
  BY <1>2, <1>9, <1>10 DEF Has, InReady, h
<1>12. t.receiver[n].told + Load(t, n) <= 1
  <2>1. Load(t, n) <= Load(s, n) - 1 /\ Load(t, n) \in Nat /\ Load(s, n) \in Nat
    BY <1>9, <1>11, LoadFalls
  <2>2. QED
    BY <1>7, <1>10, <2>1
<1>13. PICK m \in 0..Len(s.limit.sizes) : Counted(s, n, m) /\ ReadsAt(s, n, m)
  BY <1>1, <1>6 DEF Ordered
<1>14. Counted(t, n, m)
  <2>1. ~IsMessage(h, n)
    BY <1>4 DEF IsMessage
  <2>2. QED
    BY <1>1, <1>13, <2>1, TakenCounted DEF h
<1>15. ~h.failed => /\ ReadAt(s.receiver[n], m, s.limit.sizes, h.op)
                    /\ Came(s.receiver[n], s.limit.sizes)
  BY <1>2, <1>13 DEF ReadsAt, h
<1>16. Waits(t, n, m)
  BY <1>5, <1>6, <1>7, <1>8, <1>11, <1>12, <1>13, <1>14 DEF Waits
<1>17. QED
  BY <1>7, <1>15, <1>16 DEF h

LEMMA TakenPocket ==
    ASSUME NEW s, Settled(s), s.ready # <<>>, NEW t, t = Taken(s),
           NEW n, Head(s.ready).op \in Writes(n)
    PROVE  /\ Settled(t) /\ n \in DOMAIN t.receiver /\ ~Has(t, Writes(n))
           /\ t.receiver[n].m_socket => t.receiver[n].m_executing
           /\ t.receiver[n].told + Load(t, n) <= 1
<1> DEFINE h == Head(s.ready)
<1>1. /\ Good(s) /\ s \in ServerType /\ Refers(s)
      /\ \A k \in DOMAIN s.receiver : Lanes(s, k) /\ Ordered(s, k)
  BY SoundIs DEF Settled, Good
<1>2. 1 \in DOMAIN s.ready /\ h = s.ready[1]
  BY <1>1, TakenIs
<1> HIDE DEF h
<1>3. h.op.of = n /\ h.op.kind = "write" /\ \A k : h.op \notin Reads(k)
  BY LanesApart DEF h, Reads, Writes
<1>4. h.op.kind # "message"
  BY <1>3
<1>5. Good(t) /\ SameButQueues(s, t)
  BY <1>1, <1>4, TakenKeeps DEF h
<1>6. n \in DOMAIN s.receiver
  BY <1>1, <1>2, <1>3 DEF Refers, OfReceiver
<1>7. t.receiver = s.receiver /\ t.limit = s.limit
  BY <1>5 DEF SameButQueues
<1>8. Hearing(t, {}) /\ Accepting(t)
  <2>1. h.op \notin Accepts
    BY <1>3, AcceptsApart
  <2>2. QED
    BY <1>3, <2>1, TakenHears DEF h
<1>9. /\ \A Q : Has(t, Q) => Has(s, Q)
      /\ \A Q : h.op \in Q /\ Single(s, Q) => ~Has(t, Q)
  BY <1>1, TakenQueues DEF h
<1>10. /\ Single(s, Writes(n)) /\ s.receiver[n].told + Load(s, n) <= 2
       /\ s.receiver[n].told \in Nat
       /\ s.receiver[n].m_socket /\ Has(s, Writes(n)) => s.receiver[n].m_executing
  BY <1>1, <1>6, Elements DEF Lanes, ReceiverType
<1>11. ~Has(t, Writes(n)) /\ Has(s, Writes(n))
  BY <1>2, <1>9, <1>10 DEF Has, InReady, h
<1>12. t.receiver[n].told + Load(t, n) <= 1
  <2>1. Load(t, n) <= Load(s, n) - 1 /\ Load(t, n) \in Nat /\ Load(s, n) \in Nat
    BY <1>9, <1>11, LoadFalls
  <2>2. QED
    BY <1>7, <1>10, <2>1
<1>13. QED
  BY <1>5, <1>6, <1>7, <1>8, <1>10, <1>11, <1>12 DEF Settled

(* A message is handed to the application.                                 *)
Given(s, n, message) == [s EXCEPT !.receiver[n].got = Append(@, message)]

LEMMA NextMessage ==
    ASSUME NEW s \in ServerType, s.ready # <<>>, NEW n \in DOMAIN s.receiver, NEW m,
           IsMessage(Head(s.ready), n), Counted(s, n, m)
    PROVE  LET k == Len(s.receiver[n].got) + 1
           IN  /\ k \in 1..m /\ m \in 0..Len(s.limit.sizes)
               /\ Head(s.ready).op.step = Message(k, s.limit.sizes[k])
               /\ \A i \in DOMAIN s.ready :
                     IsMessage(s.ready[i], n) /\ i # 1 =>
                       \E j \in (k + 1)..m : s.ready[i].op.step = Message(j, s.limit.sizes[j])
               /\ \A j \in (k + 1)..m :
                     \E i \in DOMAIN s.ready :
                       /\ IsMessage(s.ready[i], n) /\ i # 1
                       /\ s.ready[i].op.step = Message(j, s.limit.sizes[j])
<1> DEFINE got == s.receiver[n].got
           sizes == s.limit.sizes
           k == Len(got) + 1
           h == s.ready[1]
<1>1. 1 \in DOMAIN s.ready /\ Head(s.ready) = h /\ IsMessage(h, n)
  BY TakenIs
<1>2. /\ Len(s.ready) \in Nat /\ DOMAIN s.ready = 1..Len(s.ready)
      /\ sizes \in Seq(Nat) /\ Len(sizes) \in Nat
  BY Fields, SizesAre, LenProperties
<1>3. Len(got) \in Nat
  <2>1. got \in Seq(Seq(Units))
    BY Elements DEF ReceiverType
  <2>2. QED
    BY <2>1, LenProperties
<1>4. /\ m \in 0..Len(sizes) /\ Len(got) <= m
      /\ \A i \in DOMAIN s.ready :
            IsMessage(s.ready[i], n) =>
              \E j \in (Len(got) + 1)..m : s.ready[i].op.step = Message(j, sizes[j])
      /\ \A i, j \in DOMAIN s.ready :
            IsMessage(s.ready[i], n) /\ IsMessage(s.ready[j], n) /\ i < j =>
              Number(s.ready[i].op.step) < Number(s.ready[j].op.step)
      /\ \A j \in (Len(got) + 1)..m :
            \E i \in DOMAIN s.ready :
              IsMessage(s.ready[i], n) /\ s.ready[i].op.step = Message(j, sizes[j])
  BY DEF Counted
<1> HIDE DEF got, sizes, h
<1>5. ASSUME NEW j \in 1..m PROVE Number(Message(j, sizes[j])) = j /\ j \in Nat
  <2>1. j \in 1..Len(sizes) /\ j \in Nat
    BY <1>2, <1>4
  <2>2. sizes[j] \in Nat
    BY <1>2, <2>1, ElementOfSeq
  <2>3. QED
    BY <2>1, <2>2, MessageIs
<1>6. PICK first \in (Len(got) + 1)..m : h.op.step = Message(first, sizes[first])
  BY <1>1, <1>4 DEF h
<1>61. m \in Nat /\ m <= Len(sizes) /\ Len(got) <= m
  <2>1. m \in 0..Len(sizes) /\ Len(got) <= m
    BY <1>4
  <2>2. Len(sizes) \in Nat
    BY <1>2
  <2>3. QED
    BY <2>1, <2>2
<1>7. k \in 1..m /\ first \in 1..m /\ k \in Nat /\ k <= first
  <2>1. first \in (Len(got) + 1)..m
    BY <1>6
  <2>2. QED
    BY <1>3, <1>61, <2>1
<1>8. first = k
  <2>1. SUFFICES ASSUME first # k PROVE FALSE
    OBVIOUS
  <2>2. k \in (Len(got) + 1)..m
    BY <1>7
  <2>3. PICK i \in DOMAIN s.ready :
           IsMessage(s.ready[i], n) /\ s.ready[i].op.step = Message(k, sizes[k])
    BY <1>4, <2>2
  <2>4. Number(s.ready[i].op.step) = k /\ Number(h.op.step) = first
    BY <1>5, <1>6, <1>7, <2>3
  <2>5. i # 1
    BY <2>1, <2>4 DEF h
  <2>6. 1 < i
    BY <1>2, <2>5
  <2>7. first < k
    BY <1>1, <1>4, <2>3, <2>4, <2>6 DEF h
  <2>8. QED
    BY <1>5, <1>7, <2>7
<1>9. ASSUME NEW i \in DOMAIN s.ready, IsMessage(s.ready[i], n), i # 1
      PROVE  \E j \in (k + 1)..m : s.ready[i].op.step = Message(j, sizes[j])
  <2>1. PICK j \in (Len(got) + 1)..m : s.ready[i].op.step = Message(j, sizes[j])
    BY <1>4, <1>9
  <2>2. j \in 1..m /\ k \in 1..m
    BY <1>3, <1>7
  <2>3. 1 < i
    BY <1>2, <1>9
  <2>4. Number(h.op.step) < Number(s.ready[i].op.step)
    BY <1>1, <1>4, <1>9, <2>3 DEF h
  <2>5. k < j
    BY <1>5, <1>6, <1>8, <2>1, <2>2, <2>4
  <2>6. j \in (k + 1)..m
    BY <1>3, <1>5, <2>2, <2>5
  <2>7. QED
    BY <2>1, <2>6
<1>10. ASSUME NEW j \in (k + 1)..m
       PROVE  \E i \in DOMAIN s.ready : /\ IsMessage(s.ready[i], n) /\ i # 1
                                        /\ s.ready[i].op.step = Message(j, sizes[j])
  <2>1. j \in (Len(got) + 1)..m /\ j \in 1..m /\ j # k
    BY <1>3, <1>61
  <2>2. PICK i \in DOMAIN s.ready :
           IsMessage(s.ready[i], n) /\ s.ready[i].op.step = Message(j, sizes[j])
    BY <1>4, <2>1
  <2>3. Number(s.ready[i].op.step) = j /\ Number(h.op.step) = k
    BY <1>5, <1>6, <1>7, <1>8, <2>1, <2>2
  <2>4. i # 1
    BY <2>1, <2>3 DEF h
  <2>5. QED
    BY <2>2, <2>4
<1>11. QED
  BY <1>1, <1>4, <1>6, <1>7, <1>8, <1>9, <1>10 DEF got, sizes, h

-----------------------------------------------------------------------------
(* A message is handed to the application.                                 *)
GivenTo(r, message) == [r EXCEPT !.got = Append(@, message)]

LEMMA GivenToIs ==
    ASSUME NEW r \in ReceiverType, NEW message \in Seq(Units)
    PROVE  LET q == GivenTo(r, message)
           IN  /\ q \in ReceiverType /\ SamePart(r, q) /\ q.told = r.told
               /\ q.m_socket = r.m_socket /\ q.m_executing = r.m_executing
               /\ q.closed = r.closed /\ q.got = Append(r.got, message)
               /\ r.got \in Seq(Seq(Units))
<1> DEFINE q == GivenTo(r, message)
<1>1. r.got \in Seq(Seq(Units))
  BY DEF ReceiverType
<1>2. PICK longer : longer = Append(r.got, message)
  OBVIOUS
<1>3. longer \in Seq(Seq(Units))
  BY <1>1, <1>2, AppendIn
<1>4. q = [r EXCEPT !.got = longer]
  BY <1>2 DEF GivenTo
<1> HIDE DEF q
<1>5. q \in ReceiverType
  BY <1>3, <1>4 DEF ReceiverType
<1>6. /\ SamePart(r, q) /\ q.told = r.told
      /\ q.m_socket = r.m_socket /\ q.m_executing = r.m_executing
      /\ q.closed = r.closed /\ q.got = longer
  BY <1>4 DEF ReceiverType, SamePart
<1>7. QED
  BY <1>1, <1>2, <1>5, <1>6 DEF q

LEMMA GivenCounted ==
    ASSUME NEW s \in ServerType, s.ready # <<>>, NEW n \in DOMAIN s.receiver, NEW m,
           IsMessage(Head(s.ready), n), Counted(s, n, m),
           NEW t, t = Taken(s), NEW u, u.ready = t.ready, u.limit = s.limit,
           u.receiver[n].got = Append(s.receiver[n].got, Head(s.ready).op.step)
    PROVE  Counted(u, n, m)
<1> DEFINE got == s.receiver[n].got
           sizes == s.limit.sizes
           k == Len(got) + 1
           all == u.receiver[n].got
           message == Head(s.ready).op.step
<1>1. /\ 1 \in DOMAIN s.ready
      /\ \A i \in DOMAIN t.ready :
            i \in Nat /\ i >= 1 /\ i + 1 \in DOMAIN s.ready /\ t.ready[i] = s.ready[i + 1]
      /\ \A i \in DOMAIN s.ready : i = 1 \/ i - 1 \in DOMAIN t.ready
  BY TakenIs
<1>2. got \in Seq(Seq(Units)) /\ Len(got) \in Nat /\ DOMAIN got = 1..Len(got)
  <2>1. got \in Seq(Seq(Units))
    BY Elements DEF ReceiverType
  <2>2. QED
    BY <2>1, LenProperties
<1>3. /\ k \in 1..m /\ m \in 0..Len(sizes) /\ message = Message(k, sizes[k])
      /\ \A i \in DOMAIN s.ready :
            IsMessage(s.ready[i], n) /\ i # 1 =>
              \E j \in (k + 1)..m : s.ready[i].op.step = Message(j, sizes[j])
      /\ \A j \in (k + 1)..m :
            \E i \in DOMAIN s.ready :
              /\ IsMessage(s.ready[i], n) /\ i # 1
              /\ s.ready[i].op.step = Message(j, sizes[j])
  BY NextMessage
<1>4. /\ \A j \in DOMAIN got : got[j] = Message(j, sizes[j])
      /\ \A i, j \in DOMAIN s.ready :
            IsMessage(s.ready[i], n) /\ IsMessage(s.ready[j], n) /\ i < j =>
              Number(s.ready[i].op.step) < Number(s.ready[j].op.step)
  BY DEF Counted
<1>5. Len(s.ready) \in Nat /\ DOMAIN s.ready = 1..Len(s.ready)
  BY Fields
<1>6. message \in Seq(Units)
  <2>1. Len(sizes) \in Nat /\ sizes \in Seq(Nat)
    BY SizesAre, LenProperties
  <2>2. k \in 1..m /\ m \in 0..Len(sizes)
    BY <1>3
  <2>3. k \in Nat /\ k \in 1..Len(sizes)
    <3>1. PICK a \in Nat : a = Len(sizes)
      BY <2>1
    <3>2. \A b \in 0..a : \A j \in 1..b : j \in Nat /\ j \in 1..a
      OBVIOUS
    <3>3. QED
      BY <2>2, <3>1, <3>2
  <2>4. sizes[k] \in Nat
    BY <2>1, <2>3, ElementOfSeq
  <2>5. QED
    BY <1>3, <2>3, <2>4, MessageIs
<1>7. all = Append(got, message) /\ u.limit.sizes = sizes /\ u.ready = t.ready
  OBVIOUS
<1> HIDE DEF got, sizes, all, message
<1>8. /\ Len(all) = k
      /\ \A j \in DOMAIN all : all[j] = Message(j, sizes[j])
  <2>1. /\ Len(all) = Len(got) + 1 /\ all[Len(got) + 1] = message
        /\ \A i \in DOMAIN got : all[i] = got[i]
        /\ DOMAIN all = 1..(Len(got) + 1)
    BY <1>2, <1>6, <1>7, AppendProperties
  <2>2. ASSUME NEW j \in DOMAIN all PROVE all[j] = Message(j, sizes[j])
    <3>1. j = k \/ j \in DOMAIN got
      BY <1>2, <2>1
    <3>2. QED
      BY <1>3, <1>4, <2>1, <3>1
  <2>3. QED
    BY <2>1, <2>2
<1>9. \A i \in DOMAIN s.ready : i = 1 \/ (i - 1 \in DOMAIN t.ready /\ t.ready[i - 1] = s.ready[i])
  <2>1. TAKE i \in DOMAIN s.ready
  <2>2. i \in Nat /\ (i - 1) + 1 = i
    BY <1>5
  <2>3. QED
    BY <1>1, <2>2
<1>10. ASSUME NEW i \in DOMAIN t.ready, IsMessage(t.ready[i], n)
       PROVE  \E j \in (k + 1)..m : t.ready[i].op.step = Message(j, sizes[j])
  <2>1. i + 1 # 1 /\ i + 1 \in DOMAIN s.ready /\ t.ready[i] = s.ready[i + 1]
    BY <1>1
  <2>2. QED
    BY <1>3, <1>10, <2>1
<1>11. ASSUME NEW i \in DOMAIN t.ready, NEW j \in DOMAIN t.ready,
              IsMessage(t.ready[i], n), IsMessage(t.ready[j], n), i < j
       PROVE  Number(t.ready[i].op.step) < Number(t.ready[j].op.step)
  <2>1. /\ i + 1 \in DOMAIN s.ready /\ t.ready[i] = s.ready[i + 1]
        /\ j + 1 \in DOMAIN s.ready /\ t.ready[j] = s.ready[j + 1] /\ i + 1 < j + 1
    BY <1>1, <1>11
  <2>2. QED
    BY <1>4, <1>11, <2>1
<1>12. ASSUME NEW j \in (k + 1)..m
       PROVE  \E i \in DOMAIN t.ready :
                 IsMessage(t.ready[i], n) /\ t.ready[i].op.step = Message(j, sizes[j])
  <2>1. PICK i \in DOMAIN s.ready : /\ IsMessage(s.ready[i], n) /\ i # 1
                                    /\ s.ready[i].op.step = Message(j, sizes[j])
    BY <1>3
  <2>2. QED
    BY <1>9, <2>1
<1>13. k <= m
  BY <1>2, <1>3
<1> HIDE DEF k
<1>14. /\ m \in 0..Len(sizes) /\ Len(all) <= m
       /\ \A i \in DOMAIN t.ready :
            IsMessage(t.ready[i], n) =>
              \E j \in (Len(all) + 1)..m : t.ready[i].op.step = Message(j, sizes[j])
       /\ \A i, j \in DOMAIN t.ready :
            IsMessage(t.ready[i], n) /\ IsMessage(t.ready[j], n) /\ i < j =>
              Number(t.ready[i].op.step) < Number(t.ready[j].op.step)
       /\ \A j \in (Len(all) + 1)..m :
            \E i \in DOMAIN t.ready :
                 IsMessage(t.ready[i], n) /\ t.ready[i].op.step = Message(j, sizes[j])
  <2>1. Len(all) = k
    BY <1>8
  <2>2. m \in 0..Len(sizes) /\ Len(all) <= m
    BY <1>3, <1>13, <2>1
  <2>3. \A i \in DOMAIN t.ready :
            IsMessage(t.ready[i], n) =>
              \E j \in (Len(all) + 1)..m : t.ready[i].op.step = Message(j, sizes[j])
    BY <1>10, <2>1
  <2>4. \A j \in (Len(all) + 1)..m :
            \E i \in DOMAIN t.ready :
                 IsMessage(t.ready[i], n) /\ t.ready[i].op.step = Message(j, sizes[j])
    BY <1>12, <2>1
  <2>5. QED
    BY <1>11, <2>2, <2>3, <2>4
<1>15. u.receiver[n].got = all /\ u.limit.sizes = sizes /\ u.ready = t.ready
  BY <1>7 DEF all
<1>16. QED
  BY ONLY <1>8, <1>14, <1>15 DEF Counted


-----------------------------------------------------------------------------
(* A handler that is not of an operation has been taken.                   *)
Plain(s, t) ==
    /\ t \in ServerType /\ SameButQueues(s, t) /\ t.pending = s.pending
    /\ \A k : /\ Has(t, Reads(k)) <=> Has(s, Reads(k))
              /\ Has(t, Writes(k)) <=> Has(s, Writes(k))
              /\ ReadsKept(s, t, k)
    /\ Has(s, Accepts) => Has(t, Accepts)
    /\ \A Q : Single(s, Q) => Single(t, Q)
    /\ \A i \in DOMAIN t.ready : \E j \in DOMAIN s.ready : t.ready[i] = s.ready[j]

LEMMA TakenPlain ==
    ASSUME NEW s, Settled(s), s.ready # <<>>, NEW n, IsMessage(Head(s.ready), n),
           NEW t, t = Taken(s)
    PROVE  /\ n \in DOMAIN s.receiver /\ Head(s.ready).op.step \in Seq(Units)
           /\ Plain(s, t)
<1> DEFINE h == Head(s.ready)
<1>1. s \in ServerType /\ Refers(s)
  BY SoundIs DEF Settled, Good
<1>2. /\ 1 \in DOMAIN s.ready /\ h = s.ready[1] /\ t.pending = s.pending
      /\ t \in ServerType /\ SameButQueues(s, t)
      /\ \A i \in DOMAIN t.ready : i + 1 \in DOMAIN s.ready /\ t.ready[i] = s.ready[i + 1]
  BY <1>1, TakenIs
<1>3. h.op.kind = "message" /\ h.op.of = n
  BY DEF IsMessage
<1> HIDE DEF h
<1>4. n \in DOMAIN s.receiver
  BY <1>1, <1>2, <1>3 DEF Refers, OfReceiver
<1>5. h.op.step \in Seq(Units)
  <2>1. h.op \in PendingOps \cup MessageOps
    BY <1>1, <1>2, Elements
  <2>2. h.op \in MessageOps
    BY <1>3, <2>1, PendingKinds
  <2>3. QED
    BY <2>2 DEF MessageOps
<1>6. \A k : h.op \notin Reads(k) /\ h.op \notin Writes(k)
  BY <1>3, LanesApart
<1>7. h.op \notin Accepts
  BY <1>3, AcceptsApart
<1>8. \A Q : /\ Has(t, Q) => Has(s, Q)
             /\ h.op \notin Q /\ Has(s, Q) => Has(t, Q)
             /\ Single(s, Q) => Single(t, Q)
  BY <1>1, TakenQueues DEF h
<1>9. \A k : ReadsKept(s, t, k)
  BY <1>2 DEF ReadsKept
<1>10. QED
  BY <1>2, <1>4, <1>5, <1>6, <1>7, <1>8, <1>9 DEF Plain, h

LEMMA GivenKeeps ==
    ASSUME NEW s, Settled(s), s.ready # <<>>, NEW n, IsMessage(Head(s.ready), n)
    PROVE  Settled(Given(Taken(s), n, Head(s.ready).op.step))
<1> DEFINE message == Head(s.ready).op.step
<1>1. /\ s \in ServerType /\ Refers(s) /\ Open(s) /\ Hearing(s, {}) /\ Accepting(s)
      /\ \A k \in DOMAIN s.receiver : Lanes(s, k) /\ Ordered(s, k)
  BY SoundIs DEF Settled, Good
<1>2. PICK t : t = Taken(s)
  OBVIOUS
<1>3. /\ n \in DOMAIN s.receiver /\ message \in Seq(Units)
      /\ t \in ServerType /\ SameButQueues(s, t)
      /\ \A k : /\ Has(t, Reads(k)) <=> Has(s, Reads(k))
                /\ Has(t, Writes(k)) <=> Has(s, Writes(k))
                /\ ReadsKept(s, t, k)
      /\ Has(s, Accepts) => Has(t, Accepts)
      /\ \A Q : Single(s, Q) => Single(t, Q)
      /\ t.pending = s.pending
      /\ \A i \in DOMAIN t.ready : \E j \in DOMAIN s.ready : t.ready[i] = s.ready[j]
  <2>1. n \in DOMAIN s.receiver /\ message \in Seq(Units) /\ Plain(s, t)
    BY <1>2, TakenPlain
  <2>2. QED
    BY <2>1 DEF Plain
<1>4. t.receiver = s.receiver /\ t.limit = s.limit /\ t.m_outer_set = s.m_outer_set
      /\ t.fate = s.fate /\ t.m_acceptor = s.m_acceptor
  BY <1>3 DEF SameButQueues
<1> HIDE DEF message
<1>5. PICK q : q = GivenTo(t.receiver[n], message)
  OBVIOUS
<1>6. PICK u : u = Put(t, n, q)
  OBVIOUS
<1>7. Given(t, n, message) = u
  BY <1>5, <1>6 DEF Given, Put, GivenTo
<1>8. /\ q \in ReceiverType /\ SamePart(s.receiver[n], q) /\ q.told = s.receiver[n].told
      /\ q.m_socket = s.receiver[n].m_socket /\ q.m_executing = s.receiver[n].m_executing
      /\ q.closed = s.receiver[n].closed /\ q.got = Append(s.receiver[n].got, message)
  <2>1. t.receiver[n] \in ReceiverType
    BY <1>1, <1>3, <1>4, Elements
  <2>2. QED
    <3>1. /\ q.got = Append(t.receiver[n].got, message) /\ q \in ReceiverType
          /\ SamePart(t.receiver[n], q) /\ q.told = t.receiver[n].told
          /\ q.m_socket = t.receiver[n].m_socket /\ q.m_executing = t.receiver[n].m_executing
          /\ q.closed = t.receiver[n].closed
      BY <1>3, <1>5, <2>1, GivenToIs
    <3>2. QED
      BY <1>4, <3>1
<1>9. /\ u \in ServerType /\ SameQueues(t, u) /\ u.receiver[n] = q
      /\ DOMAIN u.receiver = DOMAIN s.receiver
      /\ \A k \in DOMAIN s.receiver : k # n => u.receiver[k] = s.receiver[k]
      /\ u.limit = s.limit /\ u.fate = s.fate /\ u.m_acceptor = s.m_acceptor
      /\ u.m_outer_set = s.m_outer_set
  BY <1>3, <1>4, <1>6, <1>8, PutIs
<1>10. /\ \A Q : (Has(u, Q) <=> Has(t, Q)) /\ (Single(t, Q) => Single(u, Q))
       /\ \A k : ReadsKept(t, u, k) /\ MessagesKept(t, u, k)
  BY <1>3, <1>9, QueuesSame
<1>11. ASSUME NEW k \in DOMAIN s.receiver
       PROVE  /\ SamePart(s.receiver[k], u.receiver[k])
              /\ u.receiver[k].told = s.receiver[k].told
              /\ u.receiver[k].m_socket = s.receiver[k].m_socket
              /\ u.receiver[k].m_executing = s.receiver[k].m_executing
              /\ u.receiver[k].closed = s.receiver[k].closed
              /\ k # n => u.receiver[k].got = s.receiver[k].got
  <2>1. CASE k = n
    BY <1>8, <1>9, <2>1
  <2>2. CASE k # n
    BY <1>9, <2>2 DEF SamePart
  <2>3. QED
    BY <2>1, <2>2
<1>12. ASSUME NEW k \in DOMAIN s.receiver PROVE Lanes(u, k)
  <2>1. /\ Single(s, Reads(k)) /\ Single(s, Writes(k))
        /\ s.receiver[k].told > 0 => ~s.receiver[k].m_socket
        /\ s.receiver[k].m_socket /\ Has(s, Writes(k)) => s.receiver[k].m_executing
        /\ s.receiver[k].told + Load(s, k) <= 2
    BY <1>1 DEF Lanes
  <2>2. (Has(u, Reads(k)) <=> Has(s, Reads(k))) /\ (Has(u, Writes(k)) <=> Has(s, Writes(k)))
    BY <1>3, <1>10
  <2>3. Load(u, k) = Load(s, k)
    BY <2>2 DEF Load, Bit
  <2>4. Single(u, Reads(k)) /\ Single(u, Writes(k))
    BY <1>3, <1>10, <2>1
  <2>5. QED
    BY <1>11, <2>1, <2>2, <2>3, <2>4 DEF Lanes
<1>13. ASSUME NEW k \in DOMAIN s.receiver, NEW m, ReadsAt(s, k, m)
       PROVE  ReadsAt(u, k, m)
  <2>1. \A op : /\ ReadAt(s.receiver[k], m, s.limit.sizes, op) =>
                     ReadAt(u.receiver[k], m, s.limit.sizes, op)
                /\ Came(s.receiver[k], s.limit.sizes) => Came(u.receiver[k], s.limit.sizes)
    BY <1>11, PartKept
  <2>2. /\ \A i \in DOMAIN s.pending :
              s.pending[i] \in Reads(k) => ReadAt(s.receiver[k], m, s.limit.sizes, s.pending[i])
        /\ \A i \in DOMAIN s.ready :
              s.ready[i].op \in Reads(k) /\ ~s.ready[i].failed =>
                /\ ReadAt(s.receiver[k], m, s.limit.sizes, s.ready[i].op)
                /\ Came(s.receiver[k], s.limit.sizes)
    BY <1>13 DEF ReadsAt
  <2>3. u.pending = s.pending /\ u.ready = t.ready
    BY <1>3, <1>9 DEF SameQueues
  <2>4. \A i \in DOMAIN u.ready :
              u.ready[i].op \in Reads(k) /\ ~u.ready[i].failed =>
                /\ ReadAt(u.receiver[k], m, s.limit.sizes, u.ready[i].op)
                /\ Came(u.receiver[k], s.limit.sizes)
    BY <1>3, <2>1, <2>2, <2>3
  <2>5. QED
    BY <1>9, <2>1, <2>2, <2>3, <2>4 DEF ReadsAt
<1>14. ASSUME NEW k \in DOMAIN s.receiver, NEW m, Counted(s, k, m)
       PROVE  Counted(u, k, m)
  <2>1. CASE k = n
    <3>1. u.ready = t.ready /\ u.receiver[n].got = Append(s.receiver[n].got, Head(s.ready).op.step)
      BY <1>8, <1>9 DEF SameQueues, message
    <3>2. QED
      BY <1>1, <1>2, <1>3, <1>9, <1>14, <2>1, <3>1, GivenCounted
  <2>2. CASE k # n
    <3>1. ~IsMessage(Head(s.ready), k)
      BY <2>2 DEF IsMessage
    <3>2. Counted(t, k, m)
      BY <1>1, <1>2, <1>14, <3>1, TakenCounted
    <3>3. u.receiver[k].got = t.receiver[k].got /\ u.limit = t.limit
      BY <1>4, <1>9, <1>11, <2>2
    <3>4. QED
      BY <1>3, <1>9, <1>10, <3>2, <3>3, CountedKept
  <2>3. QED
    BY <2>1, <2>2
<1>15. ASSUME NEW k \in DOMAIN s.receiver PROVE Ordered(u, k)
  BY <1>1, <1>9, <1>13, <1>14 DEF Ordered
<1>16. Refers(u)
  <2>1. /\ s.m_outer_set \subseteq DOMAIN s.receiver
        /\ \A i \in DOMAIN s.pending : OfReceiver(s, s.pending[i])
        /\ \A i \in DOMAIN s.ready : OfReceiver(s, s.ready[i].op)
    BY <1>1 DEF Refers
  <2>2. \A op : OfReceiver(s, op) => OfReceiver(u, op)
    BY <1>9 DEF OfReceiver
  <2>3. u.pending = s.pending /\ u.ready = t.ready
    BY <1>3, <1>9 DEF SameQueues
  <2>4. QED
    BY <1>3, <1>9, <2>1, <2>2, <2>3 DEF Refers
<1>17. Sound(u)
  BY <1>9, <1>12, <1>15, <1>16 DEF Sound
<1>18. Open(u)
  <2>1. ASSUME NEW k \in u.m_outer_set PROVE u.receiver[k].closed \/ u.receiver[k].m_socket
    <3>1. k \in s.m_outer_set /\ k \in DOMAIN s.receiver
      BY <1>1, <1>9 DEF Refers
    <3>2. QED
      BY <1>1, <1>11, <3>1 DEF Open
  <2>2. QED
    BY <2>1 DEF Open
<1>19. Hearing(u, {})
  <2>1. ASSUME u.fate = "running", NEW k \in u.m_outer_set \ {}
        PROVE  u.receiver[k].closed \/ Has(u, Reads(k))
    <3>1. k \in s.m_outer_set \ {} /\ k \in DOMAIN s.receiver /\ s.fate = "running"
      BY <1>1, <1>9, <2>1 DEF Refers
    <3>2. s.receiver[k].closed \/ Has(s, Reads(k))
      BY <1>1, <3>1 DEF Hearing
    <3>3. QED
      BY <1>3, <1>10, <1>11, <3>1, <3>2
  <2>2. QED
    BY <2>1 DEF Hearing
<1>20. Accepting(u)
  BY <1>1, <1>3, <1>9, <1>10 DEF Accepting
<1>21. Settled(u)
  BY <1>17, <1>18, <1>19, <1>20 DEF Settled, Good
<1>22. QED
  BY <1>2, <1>7, <1>21 DEF message

(* A message that has been posted is handed over.                          *)
LEMMA MessageHandled ==
    ASSUME NEW s, Settled(s), s.ready # <<>>, NEW n, IsMessage(Head(s.ready), n),
           NEW t \in HandleClientMessage(Taken(s), n, Head(s.ready).op.step)
    PROVE  Settled(t)
<1>1. PICK u : u = Given(Taken(s), n, Head(s.ready).op.step)
  OBVIOUS
<1>2. Settled(u)
  BY <1>1, GivenKeeps
<1>3. t \in Callback(u)
  BY <1>1 DEF HandleClientMessage, Given
<1>4. Called(u, t)
  BY <1>2, <1>3, CallbackKeeps DEF Settled
<1>5. QED
  BY <1>2, <1>4, CalledSettled


-----------------------------------------------------------------------------
(* Nothing is asked of a server that has crashed.                          *)
LEMMA CrashSettles ==
    ASSUME NEW s, Good(s)
    PROVE  Settled(Crash(s))
<1> DEFINE t == Crash(s)
<1>1. Sound(s) /\ Open(s) /\ s \in ServerType
  BY SoundIs DEF Good
<1>2. t = [s EXCEPT !.fate = "crashed"]
  BY DEF Crash
<1>3. t \in ServerType
  BY <1>1, <1>2 DEF ServerType
<1>4. /\ SameQueues(s, t) /\ t.limit = s.limit /\ t.receiver = s.receiver
      /\ t.m_outer_set = s.m_outer_set /\ t.fate = "crashed"
  BY <1>1, <1>2 DEF ServerType, SameQueues
<1> HIDE DEF t
<1>5. Sound(t)
  BY <1>1, <1>3, <1>4, OthersKeep
<1>6. Open(t)
  BY <1>1, <1>4 DEF Open
<1>7. QED
  BY <1>4, <1>5, <1>6 DEF Settled, Good, Hearing, Accepting, t

(* A connection has been accepted.                                         *)
LEMMA NewReceiverIs ==
    ASSUME NEW websocket \in BOOLEAN
    PROVE  LET r == NewReceiver(websocket)
           IN  /\ r \in ReceiverType /\ Fresh(r) /\ r.complete = <<>> /\ ~r.refused
               /\ r.m_socket /\ r.told = 0 /\ r.peer.taken = 0 /\ r.got = <<>>
<1> DEFINE r == NewReceiver(websocket)
<1>1. PICK none, zero : none = <<>> /\ zero = 0
  OBVIOUS
<1>2. none \in Seq(Units) /\ none \in Seq(Seq(Units)) /\ zero \in Nat
  BY <1>1
<1>3. PICK frame : frame = <<"none", zero>>
  OBVIOUS
<1>4. frame \in {"none", "message", "control"} \X Nat
  BY <1>2, <1>3
<1>5. PICK peer : peer = [websocket |-> websocket, gone |-> FALSE, taken |-> zero]
  OBVIOUS
<1>6. peer \in Peers /\ peer.taken = zero
  BY <1>2, <1>5 DEF Peers
<1>7. r = [m_message_head |-> none, m_head_size |-> zero, m_memory |-> none,
           m_body_size |-> zero, offset |-> zero, complete |-> none, refused |-> FALSE,
           m_socket |-> TRUE, m_is_websocket |-> FALSE, m_pocket_list |-> zero,
           m_executing |-> FALSE, frame |-> frame, peer |-> peer,
           got |-> none, told |-> zero, closed |-> FALSE]
  BY <1>1, <1>3, <1>5 DEF NewReceiver
<1> HIDE DEF r
<1>8. r \in ReceiverType
  BY <1>2, <1>4, <1>6, <1>7 DEF ReceiverType
<1>9. /\ r.m_head_size = zero /\ r.m_body_size = zero /\ r.m_memory = none
      /\ r.complete = none /\ ~r.refused
      /\ r.m_socket /\ r.told = zero /\ r.peer.taken = zero /\ r.got = none
  BY <1>6, <1>7
<1>10. QED
  BY <1>1, <1>8, <1>9 DEF Fresh, r

Connected(s, websocket) ==
    [s EXCEPT !.receiver = Append(@, NewReceiver(websocket)),
              !.m_outer_set = @ \cup {Len(s.receiver) + 1}]

LEMMA ConnectedFields ==
    ASSUME NEW s \in ServerType, NEW websocket \in BOOLEAN
    PROVE  LET c == Connected(s, websocket)
               n == Len(s.receiver) + 1
           IN  /\ c \in ServerType /\ SameQueues(s, c) /\ c.limit = s.limit
               /\ c.fate = s.fate
               /\ n \in Nat /\ n \notin DOMAIN s.receiver /\ n \in DOMAIN c.receiver
               /\ c.receiver[n] = NewReceiver(websocket)
               /\ \A k \in DOMAIN s.receiver :
                     k \in DOMAIN c.receiver /\ c.receiver[k] = s.receiver[k]
               /\ \A k \in DOMAIN c.receiver : k = n \/ k \in DOMAIN s.receiver
               /\ c.m_outer_set = s.m_outer_set \cup {n}
<1> DEFINE c == Connected(s, websocket)
           n == Len(s.receiver) + 1
<1>1. /\ s.receiver \in Seq(ReceiverType) /\ s.m_outer_set \in SUBSET Nat
      /\ Len(s.receiver) \in Nat /\ DOMAIN s.receiver = 1..Len(s.receiver)
  BY Fields
<1>2. PICK new : new = NewReceiver(websocket)
  OBVIOUS
<1>3. new \in ReceiverType
  BY <1>2, NewReceiverIs
<1>4. PICK all : all = Append(s.receiver, new)
  OBVIOUS
<1>5. /\ all \in Seq(ReceiverType) /\ all[n] = new /\ n \in DOMAIN all
      /\ \A k \in DOMAIN s.receiver : k \in DOMAIN all /\ all[k] = s.receiver[k]
      /\ \A k \in DOMAIN all : k = n \/ k \in DOMAIN s.receiver
  <2>1. /\ all \in Seq(ReceiverType) /\ Len(all) = n
        /\ n \in DOMAIN all /\ all[n] = new
        /\ \A k \in DOMAIN s.receiver : k \in DOMAIN all /\ all[k] = s.receiver[k]
    BY <1>1, <1>3, <1>4, AppendIs
  <2>2. DOMAIN all = 1..n
    BY <2>1, LenProperties
  <2>3. \A k \in 1..n : k = n \/ k \in 1..Len(s.receiver)
    BY <1>1
  <2>4. QED
    BY <1>1, <2>1, <2>2, <2>3
<1>6. n \in Nat /\ n \notin DOMAIN s.receiver
  BY <1>1
<1> HIDE DEF n
<1>7. PICK outer : outer = s.m_outer_set \cup {n}
  OBVIOUS
<1>8. outer \in SUBSET Nat
  BY <1>1, <1>6, <1>7
<1>9. c = [s EXCEPT !.receiver = all, !.m_outer_set = outer]
  BY <1>2, <1>4, <1>7 DEF Connected, n
<1> HIDE DEF c
<1>10. c \in ServerType
  BY <1>5, <1>8, <1>9 DEF ServerType
<1>11. /\ SameQueues(s, c) /\ c.limit = s.limit /\ c.fate = s.fate
       /\ c.receiver = all /\ c.m_outer_set = outer
  BY <1>9 DEF ServerType, SameQueues
<1>12. QED
  BY <1>2, <1>5, <1>6, <1>7, <1>10, <1>11 DEF c, n

LEMMA ConnectedKeeps ==
    ASSUME NEW s, Good(s), Hearing(s, {}), NEW websocket \in BOOLEAN,
           NEW c, c = Connected(s, websocket), NEW n, n = Len(s.receiver) + 1
    PROVE  /\ Good(c) /\ Hearing(c, {n}) /\ n \in DOMAIN c.receiver
           /\ ~Has(c, Reads(n)) /\ c.receiver[n].m_socket
           /\ Counted(c, n, 0) /\ 0 \in 0..Len(c.limit.sizes)
           /\ ReadAt(c.receiver[n], 0, c.limit.sizes, Op("read", n, "first"))
<1>1. /\ s \in ServerType /\ Refers(s) /\ Open(s) /\ Sound(s)
      /\ \A k \in DOMAIN s.receiver : Lanes(s, k) /\ Ordered(s, k)
  BY SoundIs DEF Good
<1>2. /\ c \in ServerType /\ SameQueues(s, c) /\ c.limit = s.limit /\ c.fate = s.fate
      /\ n \in Nat /\ n \notin DOMAIN s.receiver /\ n \in DOMAIN c.receiver
      /\ c.receiver[n] = NewReceiver(websocket)
      /\ \A k \in DOMAIN s.receiver :
            k \in DOMAIN c.receiver /\ c.receiver[k] = s.receiver[k]
      /\ \A k \in DOMAIN c.receiver : k = n \/ k \in DOMAIN s.receiver
      /\ c.m_outer_set = s.m_outer_set \cup {n}
  BY <1>1, ConnectedFields
<1>3. /\ \A Q : (Has(c, Q) <=> Has(s, Q)) /\ (Single(s, Q) => Single(c, Q))
      /\ \A k : ReadsKept(s, c, k) /\ MessagesKept(s, c, k)
  BY <1>1, <1>2, QueuesSame
<1>4. /\ \A i \in DOMAIN c.pending : OfReceiver(s, c.pending[i])
      /\ \A i \in DOMAIN c.ready : OfReceiver(s, c.ready[i].op)
      /\ s.m_outer_set \subseteq DOMAIN s.receiver
  BY <1>1, <1>2 DEF Refers, SameQueues
<1>5. \A op : OfReceiver(s, op) =>
                /\ OfReceiver(c, op)
                /\ op \notin Reads(n) /\ op \notin Writes(n)
                /\ ~(op.kind = "message" /\ op.of = n)
  BY <1>2, LanesApart DEF OfReceiver
<1>6. Refers(c)
  <2>1. c.m_outer_set \subseteq DOMAIN c.receiver
    BY <1>2, <1>4
  <2>2. QED
    BY <1>4, <1>5, <2>1 DEF Refers
<1>7. ~Has(c, Reads(n)) /\ ~Has(c, Writes(n))
  BY <1>4, <1>5 DEF Has, InPending, InReady
<1>8. /\ Fresh(c.receiver[n]) /\ c.receiver[n].complete = <<>> /\ ~c.receiver[n].refused
      /\ c.receiver[n].m_socket /\ c.receiver[n].told = 0 /\ c.receiver[n].peer.taken = 0
      /\ c.receiver[n].got = <<>>
  BY <1>2, NewReceiverIs
<1>9. /\ c.limit.sizes \in Seq(Nat) /\ Len(c.limit.sizes) \in Nat
      /\ 0 \in 0..Len(c.limit.sizes) /\ Ends(c.limit.sizes)[0] = 0
  <2>1. c.limit.sizes \in Seq(Nat) /\ Len(c.limit.sizes) \in Nat
    BY <1>2, SizesAre, LenProperties
  <2>2. QED
    BY <2>1, EndsAre
<1>10. Counted(c, n, 0)
  <2>1. \A i \in DOMAIN c.ready : ~IsMessage(c.ready[i], n)
    BY <1>4, <1>5 DEF IsMessage
  <2>2. Len(c.receiver[n].got) = 0 /\ DOMAIN c.receiver[n].got = {}
    BY <1>8, EmptyIs
  <2>3. (Len(c.receiver[n].got) + 1)..0 = {} /\ Len(c.receiver[n].got) <= 0
    BY <2>2
  <2>4. QED
    BY <1>9, <2>1, <2>2, <2>3 DEF Counted
<1>11. ReadsAt(c, n, 0)
  BY <1>4, <1>5 DEF ReadsAt
<1>12. Ordered(c, n)
  BY <1>9, <1>10, <1>11 DEF Ordered
<1>13. Lanes(c, n)
  <2>1. Single(c, Reads(n)) /\ Single(c, Writes(n))
    BY <1>7 DEF Single, Has, InPending, InReady
  <2>2. Load(c, n) = 0
    BY <1>7 DEF Load, Bit
  <2>3. QED
    BY <1>7, <1>8, <2>1, <2>2 DEF Lanes
<1>14. ASSUME NEW k \in DOMAIN s.receiver PROVE Lanes(c, k) /\ Ordered(c, k)
  <2>1. c.receiver[k] = s.receiver[k]
    BY <1>2
  <2>2. Lanes(s, k) /\ Ordered(s, k)
    BY <1>1
  <2>3. s.receiver[k].m_socket /\ Has(s, Writes(k)) => s.receiver[k].m_executing
    BY <2>2 DEF Lanes
  <2>4. Lanes(c, k)
    BY <1>3, <2>1, <2>2, <2>3, LanesKept
  <2>5. Ordered(c, k)
    BY <1>1, <1>2, <1>3, <2>1, <2>2, OrderedKept, SameReaderIs
  <2>6. QED
    BY <2>4, <2>5
<1>15. Sound(c)
  BY <1>2, <1>6, <1>12, <1>13, <1>14 DEF Sound
<1>16. Open(c)
  BY <1>1, <1>2, <1>4, <1>8 DEF Open
<1>17. Hearing(c, {n})
  BY <1>2, <1>3, <1>4 DEF Hearing
<1>18. ReadAt(c.receiver[n], 0, c.limit.sizes, Op("read", n, "first"))
  <2>1. Op("read", n, "first").step = "first"
    BY DEF Op
  <2>2. QED
    BY <1>8, <1>9, <2>1 DEF ReadAt
<1>19. QED
  BY <1>2, <1>7, <1>8, <1>9, <1>10, <1>15, <1>16, <1>17, <1>18 DEF Good

-----------------------------------------------------------------------------
LEMMA OuterConnectKeeps ==
    ASSUME NEW s, Good(s), Hearing(s, {}), NEW websocket \in BOOLEAN,
           NEW t \in HandleOuterConnect(s, websocket)
    PROVE  Good(t) /\ Hearing(t, {})
<1>1. PICK n : n = Len(s.receiver) + 1
  OBVIOUS
<1>2. PICK c : c = Connected(s, websocket)
  OBVIOUS
<1>3. /\ Good(c) /\ Hearing(c, {n}) /\ n \in DOMAIN c.receiver
      /\ ~Has(c, Reads(n)) /\ c.receiver[n].m_socket
      /\ Counted(c, n, 0) /\ 0 \in 0..Len(c.limit.sizes)
      /\ ReadAt(c.receiver[n], 0, c.limit.sizes, Op("read", n, "first"))
  BY <1>1, <1>2, ConnectedKeeps
<1>4. PICK op : op = Op("read", n, "first")
  OBVIOUS
<1>5. PICK b : b = Begin(c, op)
  OBVIOUS
<1>6. t \in Callback(b)
  BY <1>1, <1>2, <1>3, <1>4, <1>5 DEF HandleOuterConnect, Connected, Read, OnSocket
<1>7. Sound(c) /\ c \in ServerType /\ Refers(c)
  BY <1>3, SoundIs DEF Good
<1>8. n \in Nat
  BY <1>3, <1>7, Fields
<1>9. op \in Reads(n)
  BY <1>4, <1>8, ReadOf DEF ReadSteps
<1>10. /\ op \in PendingOps /\ op.of = n
       /\ \A k : (op \in Reads(k) => k = n) /\ op \notin Writes(k)
  BY <1>9, LanesApart
<1>11. OfReceiver(c, op)
  BY <1>3, <1>10 DEF OfReceiver
<1>12. \E m \in 0..Len(c.limit.sizes) :
          Counted(c, n, m) /\ ReadAt(c.receiver[n], m, c.limit.sizes, op)
  BY <1>3, <1>4
<1>13. /\ Sound(b) /\ SameButQueues(c, b)
       /\ \A Q : Has(b, Q) <=> Has(c, Q) \/ op \in Q
  <2>1. \A k \in DOMAIN c.receiver :
           /\ op \in Reads(k) =>
                /\ ~Has(c, Reads(k)) /\ c.receiver[k].m_socket
                /\ \E m \in 0..Len(c.limit.sizes) :
                      Counted(c, k, m) /\ ReadAt(c.receiver[k], m, c.limit.sizes, op)
           /\ op \in Writes(k) =>
                /\ ~Has(c, Writes(k)) /\ c.receiver[k].m_socket
                /\ c.receiver[k].m_executing
    BY <1>3, <1>10, <1>12
  <2>2. QED
    BY ONLY <1>5, <1>7, <1>10, <1>11, <2>1, BeginKeeps
<1>14. Frame(c, b) /\ SameSockets(c, b)
  BY <1>13, SameButQueuesFrame DEF SameSockets, SameButQueues
<1>15. Good(b)
  BY <1>3, <1>13, <1>14, OpenCarries
<1>16. Hearing(b, {n}) /\ Has(b, Reads(n))
  BY <1>3, <1>7, <1>9, <1>13, <1>14, FrameCarries
<1>17. Hearing(b, {})
  BY <1>16 DEF Hearing
<1>18. Called(b, t)
  BY <1>6, <1>15, CallbackKeeps
<1>19. QED
  BY <1>17, <1>18 DEF Called

(* An accept has ended: with an error, or with a connection.               *)
LEMMA AcceptHandled ==
    ASSUME NEW s, Settled(s), s.ready # <<>>, Head(s.ready).op \in Accepts,
           NEW failed \in BOOLEAN,
           NEW t \in HandleAccept(Taken(s), Head(s.ready).op.step, failed)
    PROVE  Settled(t)
<1>1. PICK u : u = Taken(s)
  OBVIOUS
<1>2. PICK errors : errors = Head(s.ready).op.step
  OBVIOUS
<1>3. errors \in Nat /\ Head(s.ready).op.kind = "accept"
  BY <1>2 DEF Accepts, AcceptOps
<1>4. Good(s)
  BY DEF Settled
<1>5. Good(u) /\ u \in ServerType
  BY <1>1, <1>3, <1>4, TakenKeeps, SoundIs DEF Good
<1>6. Hearing(u, {})
  <2>1. \A k : Head(s.ready).op \notin Reads(k)
    BY AcceptsApart
  <2>2. QED
    BY <1>1, <2>1, TakenHears
<1>7. ErrorCount \in Nat
  BY LimitsAssumption
<1>8. ASSUME NEW v, Good(v), Hearing(v, {}), NEW count \in Nat
      PROVE  Settled(NextAccept(v, count))
  <2>1. Sent(v, NextAccept(v, count)) /\ Accepting(NextAccept(v, count))
    BY <1>8, NextAcceptKeeps DEF Good
  <2>2. Called(v, NextAccept(v, count))
    BY <1>8, <2>1, SentIsCalled
  <2>3. QED
    BY <1>8, <2>1, <2>2 DEF Called, Settled
<1>9. CASE failed
  <2>1. t = IF u.m_acceptor = 0 THEN u ELSE AcceptAfterError(u, errors)
    BY <1>1, <1>2, <1>9 DEF HandleAccept
  <2>2. CASE u.m_acceptor = 0
    <3>1. t = u /\ Accepting(u)
      BY <2>1, <2>2 DEF Accepting
    <3>2. QED
      BY <1>5, <1>6, <3>1 DEF Settled
  <2>3. CASE u.m_acceptor # 0 /\ errors > ErrorCount
    <3>1. t = CloseServer(u)
      BY <2>1, <2>3 DEF AcceptAfterError
    <3>2. Called(u, t) /\ Hearing(t, {}) /\ Accepting(t)
      BY <1>5, <3>1, CloseServerKeeps
    <3>3. QED
      BY <3>2 DEF Called, Settled
  <2>4. CASE u.m_acceptor # 0 /\ ~(errors > ErrorCount)
    <3>1. t = NextAccept(u, errors + 1)
      BY <2>1, <2>4 DEF AcceptAfterError
    <3>2. errors + 1 \in Nat
      BY <1>3
    <3>3. QED
      BY <1>5, <1>6, <1>8, <3>1, <3>2
  <2>5. QED
    BY <2>2, <2>3, <2>4
<1>10. CASE ~failed
  <2>1. CASE t = Crash(u)
    BY <1>5, <2>1, CrashSettles
  <2>2. CASE \E websocket \in u.limit.websockets :
                \E v \in HandleOuterConnect(u, websocket) : t = NextAccept(v, 0)
    <3>1. PICK websocket \in u.limit.websockets :
             \E v \in HandleOuterConnect(u, websocket) : t = NextAccept(v, 0)
      BY <2>2
    <3>2. PICK v \in HandleOuterConnect(u, websocket) : t = NextAccept(v, 0)
      BY <3>1
    <3>3. websocket \in BOOLEAN
      BY <1>5, <3>1, SizesAre
    <3>4. Good(v) /\ Hearing(v, {})
      BY <1>5, <1>6, <3>2, <3>3, OuterConnectKeeps
    <3>5. QED
      BY <1>8, <3>2, <3>4
  <2>3. QED
    BY <1>1, <1>10, <2>1, <2>2 DEF HandleAccept
<1>11. QED
  BY <1>9, <1>10

(* Heartbeats are sent when the timer's handler runs.                      *)
LEMMA HeartbeatHandled ==
    ASSUME NEW s, Settled(s), s.ready # <<>>, Head(s.ready).op.kind = "heartbeat",
           NEW failed \in BOOLEAN, NEW t \in ServerSendHeartbeat(Taken(s), failed)
    PROVE  Settled(t)
<1>1. PICK u : u = Taken(s)
  OBVIOUS
<1>2. Good(u)
  BY <1>1, TakenKeeps DEF Settled
<1>3. /\ \A k : Head(s.ready).op \notin Reads(k)
      /\ Head(s.ready).op \notin Accepts
  BY LanesApart, AcceptsApart
<1>4. Hearing(u, {}) /\ Accepting(u)
  BY <1>1, <1>3, TakenHears
<1>5. Settled(u)
  BY <1>2, <1>4 DEF Settled
<1>6. QED
  BY <1>1, <1>5, HeartbeatKeeps


-----------------------------------------------------------------------------
(* Whatever the handler is that runs next.                                 *)
LEMMA HandlerIs ==
    ASSUME NEW s \in ServerType, s.ready # <<>>
    PROVE  LET h == Head(s.ready)
           IN  /\ h.failed \in BOOLEAN
               /\ \/ h.op.kind = "read" /\ h.op \in Reads(h.op.of)
                  \/ h.op.kind = "write" /\ h.op.step = "answer" /\ h.op \in Reads(h.op.of)
                  \/ h.op.kind = "write" /\ h.op.step = "pocket" /\ h.op \in Writes(h.op.of)
                  \/ h.op.kind = "accept" /\ h.op \in Accepts
                  \/ h.op.kind = "heartbeat"
                  \/ h.op.kind = "message" /\ IsMessage(h, h.op.of)
<1>1. 1 \in DOMAIN s.ready /\ Head(s.ready) = s.ready[1]
  BY TakenIs
<1>2. PICK h : h = Head(s.ready)
  OBVIOUS
<1>3. h.failed \in BOOLEAN /\ h.op \in PendingOps \cup MessageOps
  BY <1>1, <1>2, Elements
<1>4. CASE h.op \in ReadOps
  <2>1. h.op.kind = "read"
    BY <1>4 DEF ReadOps
  <2>2. h.op \in Reads(h.op.of)
    BY <1>4, <2>1 DEF Reads
  <2>3. QED
    BY <1>2, <1>3, <2>1, <2>2
<1>5. CASE h.op \in WriteOps
  <2>1. h.op.kind = "write" /\ h.op.step \in {"answer", "pocket"}
    BY <1>5 DEF WriteOps
  <2>2. h.op.step = "answer" => h.op \in Reads(h.op.of)
    BY <1>5 DEF Reads
  <2>3. h.op.step = "pocket" => h.op \in Writes(h.op.of)
    BY <1>5 DEF Writes
  <2>4. QED
    BY <1>2, <1>3, <2>1, <2>2, <2>3
<1>6. CASE h.op \in AcceptOps
  BY <1>2, <1>3, <1>6 DEF Accepts, AcceptOps
<1>7. CASE h.op \in HeartbeatOps
  BY <1>2, <1>3, <1>7 DEF HeartbeatOps
<1>8. CASE h.op \in MessageOps
  BY <1>2, <1>3, <1>8 DEF MessageOps, IsMessage
<1>9. QED
  BY <1>3, <1>4, <1>5, <1>6, <1>7, <1>8 DEF PendingOps

LEMMA HandledKeeps ==
    ASSUME NEW s, Settled(s), s.ready # <<>>,
           NEW t \in Handled(Taken(s), Head(s.ready).op, Head(s.ready).failed)
    PROVE  Settled(t)
<1>1. s \in ServerType
  BY SoundIs DEF Settled, Good
<1>2. PICK op, failed, n : op = Head(s.ready).op /\ failed = Head(s.ready).failed /\ n = op.of
  OBVIOUS
<1>3. PICK u : u = Taken(s)
  OBVIOUS
<1>4. t \in Handled(u, op, failed)
  BY <1>2, <1>3
<1>5. /\ failed \in BOOLEAN
      /\ \/ op.kind = "read" /\ op \in Reads(n)
         \/ op.kind = "write" /\ op.step = "answer" /\ op \in Reads(n)
         \/ op.kind = "write" /\ op.step = "pocket" /\ op \in Writes(n)
         \/ op.kind = "accept" /\ op \in Accepts
         \/ op.kind = "heartbeat"
         \/ op.kind = "message" /\ IsMessage(Head(s.ready), n)
  BY <1>1, <1>2, HandlerIs
<1>6. CASE op \in Reads(n)
  <2>1. PICK m : /\ Waits(u, n, m)
                 /\ ~failed => /\ ReadAt(u.receiver[n], m, u.limit.sizes, op)
                               /\ Came(u.receiver[n], u.limit.sizes)
    BY <1>2, <1>3, <1>6, TakenRead
  <2>2. CASE op.kind = "read"
    <3>1. t \in HandleRead(u, n, op.step, failed)
      BY <1>2, <1>4, <2>2 DEF Handled
    <3>2. QED
      BY <1>5, <1>6, <2>1, <2>2, <3>1, ReadHandled
  <2>3. CASE op.kind = "write" /\ op.step = "answer"
    <3>1. t \in HandleWritten(u, n, op.step, failed)
      BY <1>2, <1>4, <2>3 DEF Handled
    <3>2. QED
      BY <1>5, <2>1, <2>3, <3>1, AnswerHandled
  <2>4. QED
    BY <1>5, <1>6, <2>2, <2>3, LanesApart, AcceptsApart DEF IsMessage
<1>7. CASE op.kind = "write" /\ op.step = "pocket" /\ op \in Writes(n)
  <2>1. /\ Settled(u) /\ n \in DOMAIN u.receiver /\ ~Has(u, Writes(n))
        /\ u.receiver[n].m_socket => u.receiver[n].m_executing
        /\ u.receiver[n].told + Load(u, n) <= 1
    BY <1>2, <1>3, <1>7, TakenPocket
  <2>2. t \in HandleWritten(u, n, "pocket", failed)
    BY <1>2, <1>4, <1>7 DEF Handled
  <2>3. QED
    BY <1>5, <2>1, <2>2, PocketHandled
<1>8. CASE op.kind = "accept" /\ op \in Accepts
  <2>1. t \in HandleAccept(u, op.step, failed)
    BY <1>4, <1>8 DEF Handled
  <2>2. QED
    BY <1>2, <1>3, <1>5, <1>8, <2>1, AcceptHandled
<1>9. CASE op.kind = "heartbeat"
  <2>1. t \in ServerSendHeartbeat(u, failed)
    BY <1>4, <1>9 DEF Handled
  <2>2. QED
    BY <1>2, <1>3, <1>5, <1>9, <2>1, HeartbeatHandled
<1>10. CASE op.kind = "message" /\ IsMessage(Head(s.ready), n)
  <2>1. t \in HandleClientMessage(u, n, op.step)
    BY <1>2, <1>4, <1>10 DEF Handled
  <2>2. QED
    BY <1>2, <1>3, <1>10, <2>1, MessageHandled
<1>11. QED
  BY <1>5, <1>6, <1>7, <1>8, <1>9, <1>10

(* An operation ends.                                                      *)
LEMMA EndReads ==
    ASSUME NEW s \in ServerType, NEW at \in DOMAIN s.pending, NEW failed \in BOOLEAN,
           NEW t \in ServerType, SameButQueues(s, t), Moved(s, t, {at}, failed),
           LongerBy(s.ready, t.ready, Ended(s.pending[at], failed)),
           NEW n, NEW m, ReadsAt(s, n, m),
           ~failed /\ s.pending[at] \in Reads(n) => Came(s.receiver[n], s.limit.sizes)
    PROVE  ReadsAt(t, n, m)
<1>1. t.receiver = s.receiver /\ t.limit = s.limit
  BY DEF SameButQueues
<1>2. /\ \A i \in DOMAIN s.pending :
            s.pending[i] \in Reads(n) =>
              ReadAt(s.receiver[n], m, s.limit.sizes, s.pending[i])
      /\ \A i \in DOMAIN s.ready :
            s.ready[i].op \in Reads(n) /\ ~s.ready[i].failed =>
              /\ ReadAt(s.receiver[n], m, s.limit.sizes, s.ready[i].op)
              /\ Came(s.receiver[n], s.limit.sizes)
  BY DEF ReadsAt
<1>3. \A i \in DOMAIN t.pending : \E j \in DOMAIN s.pending : t.pending[i] = s.pending[j]
  BY DEF Moved, Moves
<1>4. \A i \in DOMAIN t.ready :
         \/ \E j \in DOMAIN s.ready : t.ready[i] = s.ready[j]
         \/ t.ready[i] = Ended(s.pending[at], failed)
  <2>1. /\ Len(s.ready) \in Nat /\ DOMAIN s.ready = 1..Len(s.ready)
        /\ DOMAIN t.ready = 1..Len(t.ready)
    BY Fields
  <2>2. /\ \A i \in 1..Len(s.ready) : t.ready[i] = s.ready[i]
        /\ Len(t.ready) = Len(s.ready) + 1
        /\ t.ready[Len(s.ready) + 1] = Ended(s.pending[at], failed)
    BY DEF LongerBy, Longer
  <2>3. TAKE i \in DOMAIN t.ready
  <2>4. i \in 1..Len(s.ready) \/ i = Len(s.ready) + 1
    BY <2>1, <2>2
  <2>5. QED
    BY <2>1, <2>2, <2>4
<1>5. Ended(s.pending[at], failed).op = s.pending[at] /\ Ended(s.pending[at], failed).failed = failed
  BY DEF Ended
<1>6. ASSUME NEW i \in DOMAIN t.ready, t.ready[i].op \in Reads(n), ~t.ready[i].failed
      PROVE  /\ ReadAt(s.receiver[n], m, s.limit.sizes, t.ready[i].op)
             /\ Came(s.receiver[n], s.limit.sizes)
  <2>1. CASE \E j \in DOMAIN s.ready : t.ready[i] = s.ready[j]
    BY <1>2, <1>6, <2>1
  <2>2. CASE t.ready[i] = Ended(s.pending[at], failed)
    BY <1>2, <1>5, <1>6, <2>2
  <2>3. QED
    BY <1>4, <2>1, <2>2
<1>7. \A i \in DOMAIN t.pending :
            t.pending[i] \in Reads(n) =>
              ReadAt(s.receiver[n], m, s.limit.sizes, t.pending[i])
  BY <1>2, <1>3
<1>8. QED
  BY <1>1, <1>6, <1>7 DEF ReadsAt

-----------------------------------------------------------------------------
LEMMA EndKeeps ==
    ASSUME NEW s, Settled(s), NEW at \in DOMAIN s.pending, NEW failed \in BOOLEAN,
           NEW op, op = s.pending[at],
           ~failed /\ op.kind = "read" => Came(s.receiver[op.of], s.limit.sizes)
    PROVE  Settled(End(s, at, failed)) /\ SameButQueues(s, End(s, at, failed))
<1>1. /\ s \in ServerType /\ Refers(s) /\ Open(s) /\ Hearing(s, {}) /\ Accepting(s)
      /\ \A k \in DOMAIN s.receiver : Lanes(s, k) /\ Ordered(s, k)
  BY SoundIs DEF Settled, Good
<1>2. PICK t : t = End(s, at, failed)
  OBVIOUS
<1>3. /\ t \in ServerType /\ SameButQueues(s, t) /\ Moved(s, t, {at}, failed)
      /\ LongerBy(s.ready, t.ready, Ended(op, failed))
  BY <1>1, <1>2, EndIs
<1>4. \A Q : (Has(t, Q) <=> Has(s, Q)) /\ (Single(s, Q) => Single(t, Q))
  BY <1>1, <1>3, MovedHas, MovedSingle
<1>5. t.receiver = s.receiver /\ t.limit = s.limit /\ t.m_outer_set = s.m_outer_set
  BY <1>3 DEF SameButQueues
<1>6. op \in PendingOps /\ OfReceiver(s, op)
  BY <1>1, Elements DEF Refers
<1>7. \A i \in DOMAIN t.pending : \E j \in DOMAIN s.pending : t.pending[i] = s.pending[j]
  BY <1>3 DEF Moved, Moves
<1>8. /\ Len(s.ready) \in Nat /\ DOMAIN s.ready = 1..Len(s.ready)
      /\ DOMAIN t.ready = 1..Len(t.ready)
  BY <1>1, <1>3, Fields
<1>9. /\ Longer(s.ready, t.ready) /\ \A i \in 1..Len(s.ready) : t.ready[i] = s.ready[i]
      /\ Len(t.ready) = Len(s.ready) + 1
      /\ t.ready[Len(s.ready) + 1] = Ended(op, failed)
  BY <1>3 DEF LongerBy, Longer
<1>10. Ended(op, failed).op = op
  BY DEF Ended
<1>11. ASSUME NEW k PROVE MessagesKept(s, t, k)
  <2>1. ASSUME NEW i \in (Len(s.ready) + 1)..Len(t.ready) PROVE ~IsMessage(t.ready[i], k)
    <3>1. i = Len(s.ready) + 1
      BY <1>8, <1>9
    <3>2. t.ready[i].op = op
      BY <1>9, <1>10, <3>1
    <3>3. QED
      BY <1>6, <3>2, PendingKinds DEF IsMessage
  <2>2. QED
    BY <1>9, <2>1 DEF MessagesKept
<1>12. Refers(t)
  <2>1. \A p : OfReceiver(s, p) => OfReceiver(t, p)
    BY <1>5 DEF OfReceiver
  <2>2. /\ s.m_outer_set \subseteq DOMAIN s.receiver
        /\ \A i \in DOMAIN s.pending : OfReceiver(s, s.pending[i])
        /\ \A i \in DOMAIN s.ready : OfReceiver(s, s.ready[i].op)
    BY <1>1 DEF Refers
  <2>3. \A i \in DOMAIN t.pending : OfReceiver(t, t.pending[i])
    BY <1>7, <2>1, <2>2
  <2>4. ASSUME NEW i \in DOMAIN t.ready PROVE OfReceiver(t, t.ready[i].op)
    <3>1. CASE i \in 1..Len(s.ready)
      BY <1>8, <1>9, <2>1, <2>2, <3>1
    <3>2. CASE i = Len(s.ready) + 1
      BY <1>6, <1>9, <1>10, <2>1, <3>2
    <3>3. QED
      BY <1>8, <1>9, <3>1, <3>2
  <2>5. QED
    BY <1>5, <2>2, <2>3, <2>4 DEF Refers
<1>13. ASSUME NEW k \in DOMAIN s.receiver PROVE Lanes(t, k)
  <2>1. s.receiver[k].m_socket /\ Has(s, Writes(k)) => s.receiver[k].m_executing
    BY <1>1 DEF Lanes
  <2>2. QED
    BY <1>1, <1>4, <1>5, <2>1, LanesKept
<1>14. ASSUME NEW k \in DOMAIN s.receiver PROVE Ordered(t, k)
  <2>1. PICK m \in 0..Len(s.limit.sizes) : Counted(s, k, m) /\ ReadsAt(s, k, m)
    BY <1>1 DEF Ordered
  <2>2. Counted(t, k, m)
    BY <1>1, <1>3, <1>5, <1>11, <2>1, CountedKept
  <2>3. ASSUME ~failed, op \in Reads(k) PROVE Came(s.receiver[k], s.limit.sizes)
    <3>1. op.of = k /\ op.kind \in {"read", "write"}
      BY <2>3, LanesApart
    <3>2. CASE op.kind = "read"
      BY <2>3, <3>1, <3>2
    <3>3. CASE op.kind = "write"
      <4>1. op.step = "answer"
        BY <2>3, <3>3 DEF Reads
      <4>2. ReadAt(s.receiver[k], m, s.limit.sizes, op)
        BY <2>1, <2>3 DEF ReadsAt
      <4>3. QED
        BY <4>1, <4>2 DEF ReadAt, Came
    <3>4. QED
      BY <3>1, <3>2, <3>3
  <2>4. ReadsAt(t, k, m)
    <3>1. ~failed /\ s.pending[at] \in Reads(k) => Came(s.receiver[k], s.limit.sizes)
      BY <2>3
    <3>2. LongerBy(s.ready, t.ready, Ended(s.pending[at], failed))
      BY <1>3
    <3>3. /\ s \in ServerType /\ t \in ServerType /\ SameButQueues(s, t)
          /\ Moved(s, t, {at}, failed) /\ ReadsAt(s, k, m)
      BY <1>1, <1>3, <2>1
    <3>4. QED
      BY <3>1, <3>2, <3>3, EndReads
  <2>5. QED
    BY <1>5, <2>1, <2>2, <2>4 DEF Ordered
<1>15. Sound(t)
  BY <1>3, <1>5, <1>12, <1>13, <1>14 DEF Sound
<1>16. Frame(s, t) /\ SameSockets(s, t)
  BY <1>3, <1>4, <1>5, SameButQueuesFrame DEF SameSockets
<1>17. Good(t)
  BY <1>15, <1>16, OpenCarries DEF Settled
<1>18. Hearing(t, {}) /\ Accepting(t)
  BY <1>1, <1>16, FrameCarries
<1>19. QED
  BY <1>2, <1>3, <1>17, <1>18 DEF Settled

-----------------------------------------------------------------------------
(* The steps.                                                              *)
LEMMA AcceptEndsKeeps ==
    ASSUME Settled(server), NEW failed \in BOOLEAN, AcceptEnds(failed)
    PROVE  Settled(server')
<1>1. PICK at \in DOMAIN server.pending :
         /\ server.pending[at].kind = "accept"
         /\ server' = [End(server, at, failed) EXCEPT
                         !.errors = IF failed THEN @ + 1 ELSE @]
  BY DEF AcceptEnds
<1>2. PICK t : t = End(server, at, failed)
  OBVIOUS
<1>3. Settled(t)
  <2>1. server.pending[at].kind # "read"
    BY <1>1
  <2>2. QED
    BY <1>2, <2>1, EndKeeps
<1>4. t \in ServerType
  BY <1>3, SoundIs DEF Settled, Good
<1>5. PICK errors : errors = IF failed THEN t.errors + 1 ELSE t.errors
  OBVIOUS
<1>6. errors \in Nat
  BY <1>4, <1>5, Fields
<1>7. server' = [t EXCEPT !.errors = errors]
  BY <1>1, <1>2, <1>5
<1>8. PICK u : u = server'
  OBVIOUS
<1>9. u = [t EXCEPT !.errors = errors]
  BY <1>7, <1>8
<1>10. u \in ServerType
  BY <1>4, <1>6, <1>9 DEF ServerType
<1>11. /\ SameQueues(t, u) /\ u.limit = t.limit /\ u.receiver = t.receiver
       /\ u.m_outer_set = t.m_outer_set /\ u.fate = t.fate /\ u.m_acceptor = t.m_acceptor
  BY <1>4, <1>9 DEF ServerType, SameQueues
<1>12. Called(t, t)
  BY <1>3 DEF Called, Settled
<1>13. Called(t, u)
  BY <1>10, <1>11, <1>12, CountedCalled
<1>14. Settled(u)
  BY <1>3, <1>13, CalledSettled
<1>15. QED
  BY <1>8, <1>14

LEMMA TimerExpiresKeeps ==
    ASSUME Settled(server), TimerExpires
    PROVE  Settled(server')
<1>1. PICK at \in DOMAIN server.pending :
         server.pending[at].kind = "heartbeat" /\ server' = End(server, at, FALSE)
  BY DEF TimerExpires
<1>2. Settled(End(server, at, FALSE))
  BY <1>1, EndKeeps
<1>3. QED
  BY <1>1, <1>2

LEMMA TransferEndsKeeps ==
    ASSUME Settled(server), NEW failed \in BOOLEAN, TransferEnds(failed)
    PROVE  Settled(server')
<1>1. PICK at \in DOMAIN server.pending :
         /\ server.pending[at].kind \in {"read", "write"}
         /\ server.pending[at].kind = "read" /\ ~failed => Arrived(server.pending[at])
         /\ server' = End(server, at, failed)
  BY DEF TransferEnds
<1>2. PICK op : op = server.pending[at]
  OBVIOUS
<1>3. server \in ServerType /\ Refers(server)
  BY SoundIs DEF Settled, Good
<1>4. ASSUME Arrived(op), op.kind = "read"
      PROVE  Came(server.receiver[op.of], server.limit.sizes)
  <2>1. op.of \in DOMAIN server.receiver
    BY <1>2, <1>3, <1>4 DEF Refers, OfReceiver
  <2>2. server.receiver[op.of].peer.taken \in Nat
    <3>1. server.receiver[op.of] \in ReceiverType
      BY <1>3, <2>1, Elements
    <3>2. QED
      BY <3>1 DEF ReceiverType, Peers
  <2>3. Len(Stream(server)) = Ends(server.limit.sizes)[Len(server.limit.sizes)]
    BY <1>3, StreamIs DEF StreamsTo
  <2>4. Len(Stream(server)) \in Nat
    <3>1. Stream(server) \in Seq(Units)
      BY <1>3, StreamIs DEF StreamsTo
    <3>2. QED
      BY <3>1, LenProperties
  <2>5. CASE server.receiver[op.of].peer.websocket
    BY <2>5 DEF Came
  <2>6. CASE Left(server, op.of) > 0
    <3>1. server.receiver[op.of].peer.taken < Len(Stream(server))
      BY <2>2, <2>4, <2>6 DEF Left
    <3>2. QED
      BY <2>3, <3>1 DEF Came
  <2>7. QED
    BY <1>4, <2>5, <2>6 DEF Arrived
<1>5. Settled(End(server, at, failed))
  BY <1>1, <1>2, <1>4, EndKeeps
<1>6. QED
  BY <1>1, <1>5

Gone(r) == [r EXCEPT !.peer.gone = TRUE]

LEMMA GoneIs ==
    ASSUME NEW r \in ReceiverType
    PROVE  LET q == Gone(r)
           IN  /\ q \in ReceiverType /\ SameReader(r, q) /\ q.told = r.told
               /\ q.m_socket = r.m_socket /\ q.m_executing = r.m_executing
               /\ q.closed = r.closed
<1> DEFINE q == Gone(r)
<1>1. r.peer \in Peers
  BY DEF ReceiverType
<1>2. PICK peer : peer = [r.peer EXCEPT !.gone = TRUE]
  OBVIOUS
<1>3. peer \in Peers /\ peer.websocket = r.peer.websocket /\ peer.taken = r.peer.taken
  BY <1>1, <1>2 DEF Peers
<1>4. q = [r EXCEPT !.peer = peer]
  BY <1>2 DEF Gone
<1> HIDE DEF q
<1>5. q \in ReceiverType
  BY <1>3, <1>4 DEF ReceiverType
<1>6. /\ q.peer = peer
      /\ q.m_message_head = r.m_message_head /\ q.m_head_size = r.m_head_size
      /\ q.m_memory = r.m_memory /\ q.m_body_size = r.m_body_size
      /\ q.complete = r.complete /\ q.refused = r.refused /\ q.frame = r.frame
      /\ q.got = r.got /\ q.told = r.told
      /\ q.m_socket = r.m_socket /\ q.m_executing = r.m_executing
      /\ q.closed = r.closed
  BY <1>4 DEF ReceiverType
<1>7. QED
  BY <1>3, <1>5, <1>6 DEF SameReader, q

LEMMA PeerGoesKeeps ==
    ASSUME Settled(server), NEW n \in DOMAIN server.receiver, PeerGoes(n)
    PROVE  Settled(server')
<1>1. PICK s : s = server
  OBVIOUS
<1>2. /\ s \in ServerType /\ Sound(s) /\ Good(s) /\ Refers(s)
      /\ Hearing(s, {}) /\ Accepting(s) /\ n \in DOMAIN s.receiver
  BY <1>1, SoundIs DEF Settled, Good
<1>3. PICK q : q = Gone(s.receiver[n])
  OBVIOUS
<1>4. PICK t : t = Put(s, n, q)
  OBVIOUS
<1>5. server' = t
  BY <1>1, <1>3, <1>4 DEF PeerGoes, Put, Gone
<1>6. /\ s.receiver[n] \in ReceiverType
      /\ s.receiver[n].told > 0 => ~s.receiver[n].m_socket
      /\ s.receiver[n].m_socket /\ Has(s, Writes(n)) => s.receiver[n].m_executing
      /\ s.receiver[n].told + Load(s, n) <= 2
  BY <1>2, ReceiverIs
<1>7. /\ q \in ReceiverType /\ SameReader(s.receiver[n], q) /\ q.told = s.receiver[n].told
      /\ q.m_socket = s.receiver[n].m_socket /\ q.m_executing = s.receiver[n].m_executing
      /\ q.closed = s.receiver[n].closed
  BY <1>3, <1>6, GoneIs
<1>8. /\ Sound(t) /\ Frame(s, t) /\ t.receiver[n] = q
      /\ \A k \in DOMAIN s.receiver : k # n => t.receiver[k] = s.receiver[k]
  BY <1>2, <1>4, <1>6, <1>7, PutKeeps
<1>9. SameSockets(s, t)
  BY <1>7, <1>8 DEF SameSockets
<1>10. Good(t) /\ Hearing(t, {}) /\ Accepting(t)
  BY <1>2, <1>8, <1>9, OpenCarries, FrameCarries
<1>11. QED
  BY <1>5, <1>10 DEF Settled

LEMMA RunHandlerKeeps ==
    ASSUME Settled(server), RunHandler
    PROVE  Settled(server')
<1>1. PICK s, t : s = server /\ t = server'
  OBVIOUS
<1>2. /\ s.ready # <<>>
      /\ t \in Handled(Taken(s), Head(s.ready).op, Head(s.ready).failed)
  BY <1>1 DEF RunHandler, Taken
<1>3. Settled(t)
  BY <1>1, <1>2, HandledKeeps
<1>4. QED
  BY <1>1, <1>3

LEMMA AppCallKeeps ==
    ASSUME Settled(server), AppCall
    PROVE  Settled(server')
<1>1. PICK s, t : s = server /\ t = server'
  OBVIOUS
<1>2. Settled(s) /\ t \in Calls(s)
  BY <1>1 DEF AppCall
<1>3. Called(s, t)
  BY <1>2, CallsKeep DEF Settled
<1>4. Settled(t)
  BY <1>2, <1>3, CalledSettled
<1>5. QED
  BY <1>1, <1>4

-----------------------------------------------------------------------------
(* The operations of a connection, as the properties count them.           *)
Bears(s, op) ==
    \/ \E j \in DOMAIN s.pending : s.pending[j] = op
    \/ \E j \in DOMAIN s.ready : s.ready[j].op = op

OpsOf(s) == [i \in DOMAIN s.ready |-> s.ready[i].op]

AllOps == PendingOps \cup MessageOps

Selects(t, ops, kinds, n) ==
    /\ t \in Seq(AllOps)
    /\ \E m : /\ \A j \in DOMAIN t : m[j] \in DOMAIN ops /\ t[j] = ops[m[j]]
              /\ \A i, j \in DOMAIN t : m[i] = m[j] => i = j
    /\ \A j \in DOMAIN t : t[j].kind \in kinds /\ t[j].of = n
    /\ \A i \in DOMAIN ops :
          ops[i].kind \in kinds /\ ops[i].of = n => \E j \in DOMAIN t : t[j] = ops[i]

LEMMA OperationsAre ==
    ASSUME NEW ops \in Seq(AllOps), NEW kinds, NEW n
    PROVE  Selects(Operations(ops, kinds, n), ops, kinds, n)
<1> DEFINE I == {i \in DOMAIN ops : ops[i].kind \in kinds /\ ops[i].of = n}
           t == Operations(ops, kinds, n)
<1>1. t = Those(ops, I)
  BY DEF Operations
<1>2. \A i \in I : i \in DOMAIN ops /\ ops[i].kind \in kinds /\ ops[i].of = n
  OBVIOUS
<1>3. \A i \in DOMAIN ops : ops[i].kind \in kinds /\ ops[i].of = n => i \in I
  OBVIOUS
<1> HIDE DEF I, t
<1>4. t \in Seq(AllOps) /\ \E m : Picks(m, t, ops, I)
  BY <1>1, ThoseIs
<1>5. PICK m : Picks(m, t, ops, I)
  BY <1>4
<1>6. /\ Len(t) \in Nat /\ DOMAIN t = 1..Len(t)
      /\ Len(ops) \in Nat /\ DOMAIN ops = 1..Len(ops)
  BY <1>4, LenProperties
<1>7. /\ m \in [1..Len(t) -> 1..Len(ops)]
      /\ \A j \in 1..Len(t) : m[j] \in I /\ t[j] = ops[m[j]]
      /\ \A i, j \in 1..Len(t) : i < j => m[i] < m[j]
      /\ \A i \in 1..Len(ops) : i \in I => \E j \in 1..Len(t) : m[j] = i
  BY <1>5 DEF Picks
<1>8. ASSUME NEW i \in DOMAIN t, NEW j \in DOMAIN t, m[i] = m[j] PROVE i = j
  <2>1. i \in 1..Len(t) /\ j \in 1..Len(t) /\ m[i] \in Nat /\ m[j] \in Nat
    BY <1>6, <1>7
  <2>2. ~(i < j) /\ ~(j < i)
    BY <1>7, <1>8, <2>1
  <2>3. QED
    BY <2>1, <2>2
<1>9. \A j \in DOMAIN t : m[j] \in DOMAIN ops /\ t[j] = ops[m[j]]
                          /\ t[j].kind \in kinds /\ t[j].of = n
  BY <1>2, <1>6, <1>7
<1>10. ASSUME NEW i \in DOMAIN ops, ops[i].kind \in kinds, ops[i].of = n
       PROVE  \E j \in DOMAIN t : t[j] = ops[i]
  <2>1. i \in I /\ i \in 1..Len(ops)
    BY <1>3, <1>6, <1>10
  <2>2. PICK j \in 1..Len(t) : m[j] = i
    BY <1>7, <2>1
  <2>3. QED
    BY <1>6, <1>7, <2>2
<1>11. QED
  BY <1>4, <1>8, <1>9, <1>10 DEF Selects, t

LEMMA OutstandingIs ==
    ASSUME NEW s \in ServerType, NEW kinds, NEW n
    PROVE  LET w == OutstandingOf(s, kinds, n)
           IN  /\ w \in Seq(AllOps)
               /\ \A i \in DOMAIN w : w[i].kind \in kinds /\ w[i].of = n /\ Bears(s, w[i])
               /\ \A op : Bears(s, op) /\ op.kind \in kinds /\ op.of = n =>
                            \E i \in DOMAIN w : w[i] = op
               /\ \A Q : Single(s, Q) =>
                    \A i, j \in DOMAIN w : w[i] \in Q /\ w[j] \in Q => i = j
<1> DEFINE ops == OpsOf(s)
           p == Operations(s.pending, kinds, n)
           q == Operations(ops, kinds, n)
           w == OutstandingOf(s, kinds, n)
<1>1. w = p \o q
  BY DEF OutstandingOf, OpsOf
<1>2. s.pending \in Seq(AllOps)
  <2>1. s.pending \in Seq(PendingOps)
    BY Fields
  <2>2. QED
    BY <2>1 DEF AllOps
<1>3. /\ ops \in Seq(AllOps) /\ DOMAIN ops = DOMAIN s.ready
      /\ \A i \in DOMAIN s.ready : ops[i] = s.ready[i].op
  <2>1. DOMAIN s.ready = 1..Len(s.ready) /\ Len(s.ready) \in Nat
    BY Fields
  <2>2. \A i \in DOMAIN s.ready : s.ready[i].op \in AllOps
    BY Elements DEF AllOps
  <2>3. ops \in [1..Len(s.ready) -> AllOps]
    BY <2>1, <2>2 DEF OpsOf
  <2>4. ops \in Seq(AllOps)
    BY <2>1, <2>3, FunctionIsSeq
  <2>5. QED
    BY <2>4 DEF OpsOf
<1> HIDE DEF ops
<1>4. /\ p \in Seq(AllOps)
      /\ \E m : /\ \A j \in DOMAIN p : m[j] \in DOMAIN s.pending /\ p[j] = s.pending[m[j]]
                /\ \A i, j \in DOMAIN p : m[i] = m[j] => i = j
      /\ \A j \in DOMAIN p : p[j].kind \in kinds /\ p[j].of = n
      /\ \A i \in DOMAIN s.pending :
            s.pending[i].kind \in kinds /\ s.pending[i].of = n =>
              \E j \in DOMAIN p : p[j] = s.pending[i]
  <2>1. Selects(p, s.pending, kinds, n)
    BY <1>2, OperationsAre
  <2>2. QED
    BY <2>1 DEF Selects
<1>5. /\ q \in Seq(AllOps)
      /\ \E m : /\ \A j \in DOMAIN q : m[j] \in DOMAIN ops /\ q[j] = ops[m[j]]
                /\ \A i, j \in DOMAIN q : m[i] = m[j] => i = j
      /\ \A j \in DOMAIN q : q[j].kind \in kinds /\ q[j].of = n
      /\ \A i \in DOMAIN ops :
            ops[i].kind \in kinds /\ ops[i].of = n =>
              \E j \in DOMAIN q : q[j] = ops[i]
  <2>1. Selects(q, ops, kinds, n)
    BY <1>3, OperationsAre
  <2>2. QED
    BY <2>1 DEF Selects
<1> HIDE DEF p, q, w
<1>6. PICK mp : /\ \A j \in DOMAIN p : mp[j] \in DOMAIN s.pending /\ p[j] = s.pending[mp[j]]
                /\ \A i, j \in DOMAIN p : mp[i] = mp[j] => i = j
  BY <1>4
<1>61. PICK mq : /\ \A j \in DOMAIN q : mq[j] \in DOMAIN ops /\ q[j] = ops[mq[j]]
                 /\ \A i, j \in DOMAIN q : mq[i] = mq[j] => i = j
  BY <1>5
<1>7. /\ \A j \in DOMAIN q : mq[j] \in DOMAIN s.ready /\ q[j] = s.ready[mq[j]].op
      /\ \A i, j \in DOMAIN q : mq[i] = mq[j] => i = j
  BY <1>3, <1>61
<1>8. /\ Len(p) \in Nat /\ DOMAIN p = 1..Len(p) /\ Len(q) \in Nat /\ DOMAIN q = 1..Len(q)
  BY <1>4, <1>5, LenProperties
<1>9. w \in Seq(AllOps) /\ DOMAIN w = 1..(Len(p) + Len(q))
  BY <1>1, <1>4, <1>5, <1>8, ConcatProperties, LenProperties
<1>10. ASSUME NEW i \in DOMAIN w
       PROVE  /\ i \in Nat
              /\ \/ i \in DOMAIN p /\ w[i] = p[i]
                 \/ i \notin DOMAIN p /\ i - Len(p) \in DOMAIN q /\ w[i] = q[i - Len(p)]
  BY <1>1, <1>4, <1>5, <1>8, <1>9, ConcatProperties
<1>11. /\ \A i \in DOMAIN p : i \in DOMAIN w /\ w[i] = p[i]
       /\ \A i \in DOMAIN q : i + Len(p) \in DOMAIN w /\ w[i + Len(p)] = q[i]
  BY <1>1, <1>4, <1>5, <1>8, <1>9, ConcatProperties
<1>12. \A i \in DOMAIN w : w[i].kind \in kinds /\ w[i].of = n /\ Bears(s, w[i])
  BY <1>4, <1>5, <1>6, <1>7, <1>10 DEF Bears
<1>13. ASSUME NEW op, Bears(s, op), op.kind \in kinds, op.of = n
       PROVE  \E i \in DOMAIN w : w[i] = op
  <2>1. CASE \E j \in DOMAIN s.pending : s.pending[j] = op
    BY <1>4, <1>11, <1>13, <2>1
  <2>2. CASE \E j \in DOMAIN s.ready : s.ready[j].op = op
    BY <1>3, <1>5, <1>11, <1>13, <2>2
  <2>3. QED
    BY <1>13, <2>1, <2>2 DEF Bears
<1>14. ASSUME NEW Q, Single(s, Q), NEW i \in DOMAIN w, NEW j \in DOMAIN w,
              w[i] \in Q, w[j] \in Q
       PROVE  i = j
  <2>1. /\ \A k, l \in DOMAIN s.pending : s.pending[k] \in Q /\ s.pending[l] \in Q => k = l
        /\ \A k, l \in DOMAIN s.ready : s.ready[k].op \in Q /\ s.ready[l].op \in Q => k = l
        /\ ~(InPending(s, Q) /\ InReady(s, Q))
    BY <1>14 DEF Single
  <2>2. ASSUME NEW k \in DOMAIN w, w[k] \in Q
        PROVE  /\ k \in DOMAIN p => InPending(s, Q)
               /\ k \notin DOMAIN p => InReady(s, Q)
    BY <1>6, <1>7, <1>10, <2>2 DEF InPending, InReady
  <2>3. CASE i \in DOMAIN p
    <3>1. j \in DOMAIN p
      BY <1>14, <2>1, <2>2, <2>3
    <3>2. mp[i] = mp[j]
      BY <1>6, <1>11, <1>14, <2>1, <2>3, <3>1
    <3>3. QED
      BY <1>6, <2>3, <3>1, <3>2
  <2>4. CASE i \notin DOMAIN p
    <3>1. j \notin DOMAIN p
      BY <1>14, <2>1, <2>2, <2>4
    <3>2. PICK k, l : k = i - Len(p) /\ l = j - Len(p)
      OBVIOUS
    <3>3. k \in DOMAIN q /\ l \in DOMAIN q /\ q[k] = w[i] /\ q[l] = w[j]
      BY <1>10, <2>4, <3>1, <3>2
    <3>4. mq[k] = mq[l]
      BY <1>7, <1>14, <2>1, <3>3
    <3>5. k = l
      BY <1>7, <3>3, <3>4
    <3>6. i \in Nat /\ j \in Nat
      BY <1>10
    <3>7. QED
      BY <1>8, <3>2, <3>5, <3>6
  <2>5. QED
    BY <2>3, <2>4
<1>15. QED
  BY <1>9, <1>12, <1>13, <1>14 DEF w

LEMMA SingleSame ==
    ASSUME NEW s, NEW Q, Single(s, Q), NEW a \in Q, NEW b \in Q, Bears(s, a), Bears(s, b)
    PROVE  a = b
BY DEF Single, InPending, InReady, Bears

LEMMA HasIs ==
    ASSUME NEW s, NEW Q
    PROVE  Has(s, Q) <=> \E op \in Q : Bears(s, op)
BY DEF Has, InPending, InReady, Bears

-----------------------------------------------------------------------------
(* No more than one of each of two lanes.                                  *)
LEMMA OneAtMost ==
    ASSUME NEW S, NEW w \in Seq(S), \A i, j \in DOMAIN w : i = j
    PROVE  /\ Len(w) \in Nat /\ Len(w) <= 1
           /\ Len(w) = 0 \/ 1 \in DOMAIN w
           /\ (\E i \in DOMAIN w : TRUE) => Len(w) = 1
<1>1. Len(w) \in Nat /\ DOMAIN w = 1..Len(w)
  BY LenProperties
<1>2. Len(w) <= 1
  <2>1. SUFFICES ASSUME Len(w) >= 2 PROVE FALSE
    BY <1>1
  <2>2. 1 \in DOMAIN w /\ 2 \in DOMAIN w
    BY <1>1, <2>1
  <2>3. QED
    BY <2>2
<1>3. (\E i \in DOMAIN w : TRUE) => Len(w) = 1
  BY <1>1, <1>2
<1>4. Len(w) = 0 \/ 1 \in DOMAIN w
  BY <1>1
<1>5. QED
  BY <1>1, <1>2, <1>3, <1>4

LEMMA TwoAtMost ==
    ASSUME NEW S, NEW w \in Seq(S), NEW A, NEW B,
           \A i \in DOMAIN w : w[i] \in A \/ w[i] \in B,
           \A i, j \in DOMAIN w : w[i] \in A /\ w[j] \in A => i = j,
           \A i, j \in DOMAIN w : w[i] \in B /\ w[j] \in B => i = j
    PROVE  Len(w) <= Bit(\E i \in DOMAIN w : w[i] \in A) + Bit(\E i \in DOMAIN w : w[i] \in B)
<1>1. Len(w) \in Nat /\ DOMAIN w = 1..Len(w)
  BY LenProperties
<1>2. Len(w) <= 2
  <2>1. SUFFICES ASSUME Len(w) >= 3 PROVE FALSE
    BY <1>1
  <2>2. 1 \in DOMAIN w /\ 2 \in DOMAIN w /\ 3 \in DOMAIN w /\ 1 # 2 /\ 2 # 3 /\ 1 # 3
    BY <1>1, <2>1
  <2>3. QED
    BY <2>2
<1>3. CASE Len(w) = 0
  BY <1>3 DEF Bit
<1>4. CASE Len(w) = 1
  <2>1. 1 \in DOMAIN w
    BY <1>1, <1>4
  <2>2. (\E i \in DOMAIN w : w[i] \in A) \/ (\E i \in DOMAIN w : w[i] \in B)
    BY <2>1
  <2>3. QED
    BY <1>4, <2>2 DEF Bit
<1>5. CASE Len(w) = 2
  <2>1. 1 \in DOMAIN w /\ 2 \in DOMAIN w /\ 1 # 2
    BY <1>1, <1>5
  <2>2. (\E i \in DOMAIN w : w[i] \in A) /\ (\E i \in DOMAIN w : w[i] \in B)
    BY <2>1
  <2>3. QED
    BY <1>5, <2>2 DEF Bit
<1>6. Len(w) = 0 \/ Len(w) = 1 \/ Len(w) = 2
  BY <1>1, <1>2
<1>7. QED
  BY ONLY <1>3, <1>4, <1>5, <1>6

LEMMA Reported ==
    ASSUME NEW s, Sound(s), NEW n \in DOMAIN s.receiver
    PROVE  s.receiver[n].told + Len(OutstandingOf(s, {"read", "write"}, n)) <= 2
<1>1. s \in ServerType /\ Single(s, Reads(n)) /\ Single(s, Writes(n))
      /\ s.receiver[n].told \in Nat /\ s.receiver[n].told + Load(s, n) <= 2
  BY SoundIs, ReceiverIs
<1>2. PICK w : w = OutstandingOf(s, {"read", "write"}, n)
  OBVIOUS
<1>3. /\ w \in Seq(AllOps)
      /\ \A i \in DOMAIN w : w[i].kind \in {"read", "write"} /\ w[i].of = n /\ Bears(s, w[i])
      /\ \A Q : Single(s, Q) =>
           \A i, j \in DOMAIN w : w[i] \in Q /\ w[j] \in Q => i = j
  BY <1>1, <1>2, OutstandingIs
<1>4. ASSUME NEW i \in DOMAIN w PROVE w[i] \in Reads(n) \/ w[i] \in Writes(n)
  <2>1. w[i] \in AllOps /\ w[i].kind \in {"read", "write"} /\ w[i].of = n
    BY <1>3, ElementOfSeq, LenProperties
  <2>2. w[i] \in ReadOps \cup WriteOps
    BY <2>1 DEF AllOps, PendingOps, MessageOps, AcceptOps, HeartbeatOps
  <2>3. QED
    BY <2>1, <2>2 DEF Reads, Writes, ReadOps, WriteOps
<1>5. Len(w) <= Bit(\E i \in DOMAIN w : w[i] \in Reads(n))
                  + Bit(\E i \in DOMAIN w : w[i] \in Writes(n))
  <2>1. /\ \A i, j \in DOMAIN w : w[i] \in Reads(n) /\ w[j] \in Reads(n) => i = j
        /\ \A i, j \in DOMAIN w : w[i] \in Writes(n) /\ w[j] \in Writes(n) => i = j
    BY <1>1, <1>3
  <2>2. QED
    BY <1>3, <1>4, <2>1, TwoAtMost
<1>6. /\ (\E i \in DOMAIN w : w[i] \in Reads(n)) => Has(s, Reads(n))
      /\ (\E i \in DOMAIN w : w[i] \in Writes(n)) => Has(s, Writes(n))
  BY <1>3, HasIs
<1>7. Len(w) \in Nat
  BY <1>3, LenProperties
<1>8. Len(w) <= Load(s, n) /\ Load(s, n) \in Nat
  BY <1>5, <1>6, <1>7 DEF Load, Bit
<1>9. QED
  BY <1>1, <1>2, <1>7, <1>8

(* A receiver's reads, and its answer to the handshake.                    *)
Answers(w) == Those(w, {i \in DOMAIN w : w[i].step = "answer"})

LEMMA AnswersAre ==
    ASSUME NEW s \in ServerType, NEW n, Single(s, Reads(n)),
           NEW w, w = OutstandingOf(s, {"write"}, n)
    PROVE  LET a == Answers(w)
           IN  /\ Len(a) \in Nat /\ Len(a) <= 1
               /\ Len(a) # 0 => \E op \in Reads(n) : Bears(s, op) /\ op.kind = "write"
               /\ (\E op \in Reads(n) : Bears(s, op) /\ op.kind = "write") => Len(a) = 1
<1> DEFINE I == {i \in DOMAIN w : w[i].step = "answer"}
           a == Answers(w)
<1>1. /\ w \in Seq(AllOps)
      /\ \A i \in DOMAIN w : w[i].kind = "write" /\ w[i].of = n /\ Bears(s, w[i])
      /\ \A op : Bears(s, op) /\ op.kind = "write" /\ op.of = n =>
                   \E i \in DOMAIN w : w[i] = op
      /\ \A i, j \in DOMAIN w : w[i] \in Reads(n) /\ w[j] \in Reads(n) => i = j
  <2>1. /\ w \in Seq(AllOps)
        /\ \A i \in DOMAIN w : w[i].kind \in {"write"} /\ w[i].of = n /\ Bears(s, w[i])
        /\ \A op : Bears(s, op) /\ op.kind \in {"write"} /\ op.of = n =>
                     \E i \in DOMAIN w : w[i] = op
        /\ \A Q : Single(s, Q) =>
             \A i, j \in DOMAIN w : w[i] \in Q /\ w[j] \in Q => i = j
    BY OutstandingIs
  <2>2. QED
    BY <2>1
<1>2. ASSUME NEW i \in I PROVE i \in DOMAIN w /\ w[i] \in Reads(n)
  <2>1. /\ i \in DOMAIN w /\ w[i] \in AllOps
        /\ w[i].kind = "write" /\ w[i].of = n /\ w[i].step = "answer"
    BY <1>1, ElementOfSeq, LenProperties
  <2>2. w[i] \in ReadOps \cup WriteOps
    BY <2>1 DEF AllOps, PendingOps, MessageOps, AcceptOps, HeartbeatOps
  <2>3. QED
    BY <2>1, <2>2 DEF Reads
<1>3. ASSUME NEW op \in Reads(n), op.kind = "write"
      PROVE  op.of = n /\ op.step = "answer"
  BY <1>3 DEF Reads
<1>4. \A i \in DOMAIN w : w[i].step = "answer" => i \in I
  OBVIOUS
<1>5. a = Those(w, I)
  BY DEF Answers
<1> HIDE DEF I, a
<1>6. a \in Seq(AllOps) /\ \E m : Picks(m, a, w, I)
  BY <1>1, <1>5, ThoseIs
<1>7. PICK m : Picks(m, a, w, I)
  BY <1>6
<1>8. /\ Len(a) \in Nat /\ DOMAIN a = 1..Len(a)
      /\ Len(w) \in Nat /\ DOMAIN w = 1..Len(w)
  BY <1>1, <1>6, LenProperties
<1>9. /\ \A j \in DOMAIN a : m[j] \in DOMAIN w /\ m[j] \in I /\ a[j] = w[m[j]]
      /\ \A i, j \in DOMAIN a : i < j => m[i] < m[j]
      /\ \A i \in DOMAIN w : i \in I => \E j \in DOMAIN a : m[j] = i
  BY <1>7, <1>8 DEF Picks
<1>10. ASSUME NEW i \in DOMAIN a, NEW j \in DOMAIN a PROVE i = j
  <2>1. m[i] = m[j]
    BY <1>1, <1>2, <1>9
  <2>2. i \in Nat /\ j \in Nat /\ m[i] \in Nat
    BY <1>8, <1>9
  <2>3. ~(i < j) /\ ~(j < i)
    BY <1>9, <2>1, <2>2
  <2>4. QED
    BY <2>2, <2>3
<1>11. /\ Len(a) <= 1 /\ (Len(a) = 0 \/ 1 \in DOMAIN a)
       /\ (\E i \in DOMAIN a : TRUE) => Len(a) = 1
  BY <1>6, <1>10, OneAtMost
<1>12. Len(a) # 0 => \E op \in Reads(n) : Bears(s, op) /\ op.kind = "write"
  <2>1. SUFFICES ASSUME 1 \in DOMAIN a
                 PROVE  \E op \in Reads(n) : Bears(s, op) /\ op.kind = "write"
    BY <1>11
  <2>2. m[1] \in DOMAIN w /\ w[m[1]] \in Reads(n)
    BY <1>2, <1>9, <2>1
  <2>3. QED
    BY <1>1, <2>2
<1>13. ASSUME NEW op \in Reads(n), Bears(s, op), op.kind = "write" PROVE Len(a) = 1
  <2>1. PICK i \in DOMAIN w : w[i] = op
    BY <1>1, <1>3, <1>13
  <2>2. i \in I
    BY <1>3, <1>4, <1>13, <2>1
  <2>3. PICK j \in DOMAIN a : m[j] = i
    BY <1>9, <2>2
  <2>4. QED
    BY <1>11
<1>14. QED
  BY <1>8, <1>11, <1>12, <1>13 DEF a

LEMMA ReadsAre ==
    ASSUME NEW s \in ServerType, NEW n, Single(s, Reads(n)),
           NEW w, w = OutstandingOf(s, {"read"}, n)
    PROVE  /\ Len(w) \in Nat /\ Len(w) <= 1
           /\ Len(w) # 0 => \E op \in Reads(n) : Bears(s, op) /\ op.kind = "read"
           /\ (\E op \in Reads(n) : Bears(s, op) /\ op.kind = "read") => Len(w) = 1
<1>1. /\ w \in Seq(AllOps)
      /\ \A i \in DOMAIN w : w[i].kind \in {"read"} /\ w[i].of = n /\ Bears(s, w[i])
      /\ \A op : Bears(s, op) /\ op.kind \in {"read"} /\ op.of = n =>
                   \E i \in DOMAIN w : w[i] = op
      /\ \A Q : Single(s, Q) =>
           \A i, j \in DOMAIN w : w[i] \in Q /\ w[j] \in Q => i = j
  BY OutstandingIs
<1>2. ASSUME NEW i \in DOMAIN w PROVE w[i] \in Reads(n) /\ w[i].kind = "read"
  <2>1. w[i] \in AllOps /\ w[i].kind = "read" /\ w[i].of = n
    BY <1>1, ElementOfSeq, LenProperties
  <2>2. w[i] \in ReadOps
    BY <2>1 DEF AllOps, PendingOps, MessageOps, AcceptOps, HeartbeatOps, WriteOps
  <2>3. QED
    BY <2>1, <2>2 DEF Reads
<1>3. \A i, j \in DOMAIN w : i = j
  BY <1>1, <1>2
<1>4. /\ Len(w) \in Nat /\ Len(w) <= 1 /\ (Len(w) = 0 \/ 1 \in DOMAIN w)
      /\ (\E i \in DOMAIN w : TRUE) => Len(w) = 1
  BY <1>1, <1>3, OneAtMost
<1>5. Len(w) # 0 => \E op \in Reads(n) : Bears(s, op) /\ op.kind = "read"
  BY <1>1, <1>2, <1>4
<1>6. ASSUME NEW op \in Reads(n), Bears(s, op), op.kind = "read" PROVE Len(w) = 1
  <2>1. op.of = n
    BY LanesApart
  <2>2. PICK i \in DOMAIN w : w[i] = op
    BY <1>1, <1>6, <2>1
  <2>3. QED
    BY <1>4
<1>7. QED
  BY <1>4, <1>5, <1>6

-----------------------------------------------------------------------------
-----------------------------------------------------------------------------
(* In the beginning there is nothing.                                      *)
LEMMA InitSettled ==
    ASSUME Init
    PROVE  Settled(server)
<1>1. PICK limit \in Limits :
         server = [limit |-> limit, m_acceptor |-> 0, m_heartbeat_timer |-> 0,
                   m_outer_set |-> {}, receiver |-> <<>>, pending |-> <<>>, ready |-> <<>>,
                   starts |-> 0, closes |-> 0, sends |-> 0, errors |-> 0,
                   early |-> FALSE, fate |-> "running"]
  BY DEF Init
<1>2. PICK none, zero, empty : none = <<>> /\ zero = 0 /\ empty = {}
  OBVIOUS
<1>3. /\ none \in Seq(ReceiverType) /\ none \in Seq(PendingOps) /\ none \in Seq(Handlers)
      /\ zero \in Nat /\ empty \in SUBSET Nat
  BY <1>2
<1>4. PICK s : s = server
  OBVIOUS
<1>5. s = [limit |-> limit, m_acceptor |-> zero, m_heartbeat_timer |-> zero,
           m_outer_set |-> empty, receiver |-> none, pending |-> none, ready |-> none,
           starts |-> zero, closes |-> zero, sends |-> zero, errors |-> zero,
           early |-> FALSE, fate |-> "running"]
  BY <1>1, <1>2, <1>4
<1>6. s \in ServerType
  BY <1>3, <1>5 DEF ServerType
<1>7. /\ s.receiver = none /\ s.pending = none /\ s.ready = none
      /\ s.m_outer_set = empty /\ s.m_acceptor = zero
  BY <1>5
<1>8. /\ DOMAIN s.receiver = {} /\ DOMAIN s.pending = {} /\ DOMAIN s.ready = {}
      /\ s.m_outer_set = {} /\ s.m_acceptor = 0
  BY <1>2, <1>7, EmptyIs
<1>9. Sound(s)
  BY <1>6, <1>8 DEF Sound, Refers
<1>10. Open(s) /\ Hearing(s, {}) /\ Accepting(s)
  BY <1>8 DEF Open, Hearing, Accepting
<1>11. QED
  BY <1>4, <1>9, <1>10 DEF Settled, Good

LEMMA NextKeeps ==
    ASSUME Settled(server), [Next]_vars
    PROVE  Settled(server')
<1>1. CASE AppCall
  BY <1>1, AppCallKeeps
<1>2. CASE RunHandler
  BY <1>2, RunHandlerKeeps
<1>3. CASE \E failed \in BOOLEAN : AcceptEnds(failed)
  BY <1>3, AcceptEndsKeeps
<1>4. CASE \E failed \in BOOLEAN : TransferEnds(failed)
  BY <1>4, TransferEndsKeeps
<1>5. CASE TimerExpires
  BY <1>5, TimerExpiresKeeps
<1>6. CASE \E n \in DOMAIN server.receiver : PeerGoes(n)
  BY <1>6, PeerGoesKeeps
<1>7. CASE UNCHANGED vars
  <2>1. server' = server
    BY <1>7 DEF vars
  <2>2. QED
    BY <2>1
<1>8. QED
  BY <1>1, <1>2, <1>3, <1>4, <1>5, <1>6, <1>7 DEF Next

-----------------------------------------------------------------------------
(* The invariant: the receivers, the operations and the handlers of the    *)
(* server fit together, whatever the application calls and whatever fails. *)
THEOREM ServerIsSettled == Spec => []IInv
<1>1. Init => IInv
  BY InitSettled DEF Settled, IInv
<1>2. IInv /\ [Next]_vars => IInv'
  <2>1. SUFFICES ASSUME IInv, [Next]_vars PROVE IInv'
    OBVIOUS
  <2>2. Settled(server)
    BY <2>1 DEF Settled, IInv
  <2>3. Settled(server')
    BY <2>1, <2>2, NextKeeps
  <2>4. QED
    BY <2>3 DEF Settled, IInv
<1>3. QED
  BY <1>1, <1>2, PTL DEF Spec

(* However many frames the bytes are cut into, and wherever, the           *)
(* application is handed the peer's messages, whole, each once and in      *)
(* order: by HandleReadHeadBinary and HandleWebSocketReadData.             *)
THEOREM MessagesAreInOrder == Spec => []MessagesInOrder
<1>1. IInv => MessagesInOrder
  <2>1. SUFFICES ASSUME IInv, NEW n \in DOMAIN server.receiver
                 PROVE  LET got == server.receiver[n].got
                        IN  /\ Len(got) <= Len(server.limit.sizes)
                            /\ got = [k \in DOMAIN got |-> Message(k, server.limit.sizes[k])]
    BY DEF MessagesInOrder
  <2>2. PICK s : s = server
    OBVIOUS
  <2>3. s \in ServerType /\ n \in DOMAIN s.receiver /\ Ordered(s, n)
    BY <2>1, <2>2, SoundIs DEF IInv, Good
  <2>4. PICK got, sizes : got = s.receiver[n].got /\ sizes = s.limit.sizes
    OBVIOUS
  <2>5. got \in Seq(Seq(Units)) /\ sizes \in Seq(Nat)
    BY <2>3, <2>4, Elements, SizesAre DEF ReceiverType
  <2>6. Len(got) \in Nat /\ Len(sizes) \in Nat /\ DOMAIN got = 1..Len(got)
    BY <2>5, LenProperties
  <2>7. PICK m : /\ m \in 0..Len(sizes) /\ Len(got) <= m
                 /\ \A k \in DOMAIN got : got[k] = Message(k, sizes[k])
    BY <2>3, <2>4 DEF Ordered, Counted
  <2>8. Len(got) <= Len(sizes)
    BY <2>6, <2>7
  <2>9. got = [k \in DOMAIN got |-> Message(k, sizes[k])]
    BY <2>5, <2>6, <2>7
  <2>10. QED
    BY <2>2, <2>4, <2>8, <2>9
<1>2. QED
  BY <1>1, ServerIsSettled, PTL

(* HandleClientDisconnect is called by the read and the write that fail    *)
(* with the connection, so twice at most for a receiver, whoever closes it *)
(* and whatever is sent.                                                   *)
THEOREM LossIsReportedByOperations == Spec => []ReportedByOperations
<1>1. IInv => ReportedByOperations
  <2>1. SUFFICES ASSUME IInv, NEW n \in DOMAIN server.receiver
                 PROVE  server.receiver[n].told + Len(Outstanding({"read", "write"}, n)) <= 2
    BY DEF ReportedByOperations
  <2>2. PICK s : s = server
    OBVIOUS
  <2>3. Sound(s) /\ n \in DOMAIN s.receiver
    BY <2>1, <2>2 DEF IInv, Good
  <2>4. s.receiver[n].told + Len(OutstandingOf(s, {"read", "write"}, n)) <= 2
    BY <2>3, Reported
  <2>5. QED
    BY <2>2, <2>4 DEF Outstanding
<1>2. QED
  BY <1>1, ServerIsSettled, PTL

(* A server that is open accepts (NextAccept), and each of its receivers   *)
(* reads or answers the handshake, once at a time, unless the application  *)
(* has closed it itself.                                                   *)
THEOREM ServerKeepsListening == Spec => []KeepsListening
<1>1. IInv => KeepsListening
  <2>1. SUFFICES ASSUME IInv, server.fate = "running" PROVE KeepsListening
    BY DEF KeepsListening, Running
  <2>2. PICK s : s = server
    OBVIOUS
  <2>3. /\ s \in ServerType /\ Sound(s) /\ Refers(s) /\ Hearing(s, {}) /\ Accepting(s)
        /\ s.fate = "running"
    BY <2>1, <2>2, SoundIs DEF IInv, Good
  <2>4. s.m_acceptor # 0 =>
           \/ \E i \in DOMAIN s.pending : s.pending[i].kind = "accept"
           \/ \E i \in DOMAIN s.ready : s.ready[i].op.kind = "accept"
    <3>1. s.m_acceptor # 0 => Has(s, Accepts)
      BY <2>3 DEF Accepting
    <3>2. \A op \in Accepts : op.kind = "accept"
      BY AcceptsApart
    <3>3. QED
      BY <3>1, <3>2 DEF Has, InPending, InReady
  <2>5. ASSUME NEW n \in DOMAIN s.receiver,
               NEW reads, reads = OutstandingOf(s, {"read"}, n),
               NEW writes, writes = OutstandingOf(s, {"write"}, n),
               NEW answers, answers = Answers(writes)
        PROVE  /\ Len(reads) + Len(answers) <= 1
               /\ n \in s.m_outer_set /\ ~s.receiver[n].closed =>
                     Len(reads) + Len(answers) = 1
    <3>1. Single(s, Reads(n))
      BY <2>3, ReceiverIs
    <3>2. /\ Len(reads) \in Nat /\ Len(reads) <= 1
          /\ Len(reads) # 0 => \E op \in Reads(n) : Bears(s, op) /\ op.kind = "read"
          /\ (\E op \in Reads(n) : Bears(s, op) /\ op.kind = "read") => Len(reads) = 1
      BY <2>3, <2>5, <3>1, ReadsAre
    <3>3. /\ Len(answers) \in Nat /\ Len(answers) <= 1
          /\ Len(answers) # 0 => \E op \in Reads(n) : Bears(s, op) /\ op.kind = "write"
          /\ (\E op \in Reads(n) : Bears(s, op) /\ op.kind = "write") => Len(answers) = 1
      BY <2>3, <2>5, <3>1, AnswersAre
    <3>4. Len(reads) = 0 \/ Len(answers) = 0
      <4>1. ASSUME NEW a \in Reads(n), NEW b \in Reads(n), Bears(s, a), Bears(s, b)
            PROVE  a = b
        BY <3>1, <4>1, SingleSame
      <4>2. QED
        BY <3>2, <3>3, <4>1
    <3>5. Has(s, Reads(n)) => Len(reads) = 1 \/ Len(answers) = 1
      <4>1. \A op \in Reads(n) : op.kind = "read" \/ op.kind = "write"
        BY LanesApart
      <4>2. QED
        BY <3>2, <3>3, <4>1, HasIs
    <3>6. n \in s.m_outer_set /\ ~s.receiver[n].closed => Has(s, Reads(n))
      BY <2>3 DEF Hearing
    <3>7. Len(reads) + Len(answers) <= 1
      BY <3>2, <3>3, <3>4
    <3>8. Has(s, Reads(n)) => Len(reads) + Len(answers) = 1
      BY <3>2, <3>3, <3>4, <3>5
    <3>9. QED
      BY <3>6, <3>7, <3>8
  <2>6. QED
    BY <2>2, <2>4, <2>5 DEF KeepsListening, Outstanding, Answers
<1>2. QED
  BY <1>1, ServerIsSettled, PTL

=============================================================================
