----------------------------- MODULE TimerProofs -----------------------------
(***************************************************************************)
(* Proofs about CarpTimer and the CarpMiniHeap it keeps its timers in, for *)
(* any number of timers, any times and any limits of ids and pool: that    *)
(* the nodes are accounted for, and that the timer implements the queue    *)
(* its comments promise.  The heap comes first: what its loops compute,    *)
(* then what Push, Pop and Erase do.                                       *)
(***************************************************************************)
EXTENDS Timer, SequenceFacts, FunctionTheorems

-----------------------------------------------------------------------------
(* Heaps of nodes in P.                                                    *)

NodeType ==
    [end_time : Int, id : Int, heap_index : Nat, loop : Int, interval_ms : Int]

HeapOf(P) == [elements : Seq(P), node : [P -> NodeType]]

Key(h, p) == h.node[p].end_time

(* Nodes that differ in their place in the heap at most.                   *)
Alike(m, n) ==
    /\ m.end_time = n.end_time /\ m.id = n.id /\ m.loop = n.loop
    /\ m.interval_ms = n.interval_ms

(* g has the nodes and the size of h.                                      *)
Rearranged(g, h, P) ==
    /\ g \in HeapOf(P) /\ Len(g.elements) = Len(h.elements)
    /\ \A p \in P : Alike(g.node[p], h.node[p])

(* What Place does.                                                        *)
Placed(g, h, i, e, P) ==
    /\ Rearranged(g, h, P)
    /\ g.elements[i] = e /\ g.node[e].heap_index = i
    /\ \A j \in 1..Len(h.elements) : j # i => g.elements[j] = h.elements[j]
    /\ \A p \in P : p # e => g.node[p] = h.node[p]

LEMMA PlaceIs ==
    ASSUME NEW P, NEW h \in HeapOf(P), NEW i \in 1..Len(h.elements), NEW e \in P
    PROVE  Placed(Place(h, i, e), h, i, e, P)
<1> DEFINE n == [h.node[e] EXCEPT !.heap_index = i]
           el == [h.elements EXCEPT ![i] = e]
           nodes == [h.node EXCEPT ![e] = n]
           g == [h EXCEPT !.elements = el, !.node = nodes]
<1>1. Place(h, i, e) = g
  BY DEF Place, HeapOf
<1>2. h.elements \in Seq(P) /\ h.node \in [P -> NodeType] /\ i \in Nat
  BY DEF HeapOf
<1>3. n \in NodeType /\ n.heap_index = i /\ Alike(n, h.node[e])
  <2>1. h.node[e] \in NodeType
    BY <1>2
  <2>2. QED
    BY <1>2, <2>1 DEF NodeType, Alike
<1>4. /\ el \in Seq(P) /\ Len(el) = Len(h.elements) /\ el[i] = e
      /\ \A j \in 1..Len(h.elements) : j # i => el[j] = h.elements[j]
  BY <1>2
<1> HIDE DEF n, el
<1>5. /\ nodes \in [P -> NodeType] /\ nodes[e] = n
      /\ \A p \in P : p # e => nodes[p] = h.node[p]
  BY <1>2, <1>3
<1> HIDE DEF nodes
<1>6. g \in HeapOf(P) /\ g.elements = el /\ g.node = nodes
  BY <1>4, <1>5 DEF HeapOf
<1>7. \A p \in P : Alike(nodes[p], h.node[p])
  BY <1>3, <1>5 DEF Alike
<1> HIDE DEF g
<1>8. QED
  BY <1>1, <1>3, <1>4, <1>5, <1>6, <1>7 DEF Placed, Rearranged

(* The place above i in the heap, and those below it.                      *)
LEMMA Halves ==
    ASSUME NEW i \in Nat, i > 0
    PROVE  /\ i \div 2 \in Nat /\ i \div 2 < i /\ (i > 1 => i \div 2 > 0)
           /\ \A j \in Nat : i \div 2 = j <=> i \in {2 * j, 2 * j + 1}
  OBVIOUS

LEMMA PlaceKeeps ==
    ASSUME NEW P, NEW h \in HeapOf(P), NEW i \in 1..Len(h.elements), NEW e \in P,
           NEW v, Rearranged(v, h, P)
    PROVE  Rearranged(Place(v, i, e), h, P) /\ Placed(Place(v, i, e), v, i, e, P)
<1>1. v \in HeapOf(P) /\ i \in 1..Len(v.elements)
  BY DEF Rearranged
<1>2. Placed(Place(v, i, e), v, i, e, P)
  BY <1>1, PlaceIs
<1>3. QED
  BY <1>2 DEF Placed, Rearranged, Alike

-----------------------------------------------------------------------------
(* The loops: what the recursive functions are, step by step.              *)

UpStep(h, i, e) ==
    ShiftUp(h, i, e) =
        IF i > 1 /\ Greater(h, h.elements[i \div 2], e)
          THEN Place(ShiftUp(h, i \div 2, e), i, h.elements[i \div 2])
          ELSE Place(h, i, e)

LEMMA UpSteps ==
    ASSUME NEW P, NEW h \in HeapOf(P), NEW e, NEW i \in 1..Len(h.elements)
    PROVE  UpStep(h, i, e)
<1> DEFINE el == h.elements
           Body(f, k) == IF k > 1 /\ Greater(h, el[k \div 2], e)
                           THEN Place(f[k \div 2], k, el[k \div 2])
                           ELSE Place(h, k, e)
           Is(f) == f = [k \in DOMAIN el |-> Body(f, k)]
           up == CHOOSE f : Is(f)
<1>1. \A k : ShiftUp(h, k, e) = up[k]
  BY DEF ShiftUp
<1>2. DOMAIN el = 1..Len(el) /\ Len(el) \in Nat
  BY DEF HeapOf
<1>3. \A f, g, k : (k > 1 => f[k \div 2] = g[k \div 2]) => Body(f, k) = Body(g, k)
  OBVIOUS
<1>4. Is(up)
  <2> HIDE DEF Body
  <2> DEFINE Made(f, n) == f = [k \in 1..n |-> Body(f, k)]
             T == {n \in Nat : \E f : Made(f, n)}
  <2>1. 0 \in T
    <3> DEFINE f == [k \in 1..0 |-> 0]
    <3>1. Made(f, 0)
      OBVIOUS
    <3>2. QED
      BY <3>1
  <2>2. ASSUME NEW n \in Nat, n \in T PROVE n + 1 \in T
    <3>1. PICK f : Made(f, n)
      BY <2>2
    <3> DEFINE g == [k \in 1..(n + 1) |-> Body(f, k)]
    <3>2. \A k \in 1..n : g[k] = f[k]
      BY <3>1
    <3>3. \A k \in 1..(n + 1) : Body(g, k) = Body(f, k)
      <4>1. TAKE k \in 1..(n + 1)
      <4>2. k > 1 => k \div 2 \in 1..n
        BY Halves
      <4>3. k > 1 => g[k \div 2] = f[k \div 2]
        BY <3>2, <4>2
      <4> HIDE DEF g
      <4>4. QED
        BY <1>3, <4>3
    <3>4. Made(g, n + 1)
      BY <3>3
    <3> HIDE DEF g, Made
    <3>5. \E new : Made(new, n + 1)
      BY <3>4
    <3>6. QED
      BY <3>5
  <2>3. Len(el) \in T
    BY <1>2, <2>1, <2>2, NatInductionOverSet
  <2>4. PICK f : Made(f, Len(el))
    BY <2>3
  <2>5. Is(f)
    BY <1>2, <2>4
  <2>6. QED
    BY <2>5
<1>5. up[i] = Body(up, i)
  <2> HIDE DEF Body, up
  <2>1. QED
    BY <1>2, <1>4
<1> HIDE DEF up
<1>6. QED
  BY <1>1, <1>5 DEF UpStep

DownStep(h, size, i, e) ==
    LET child == MinChild(h, size, i)
    IN  ShiftDown(h, size, i, e) =
            IF 2 * i <= size /\ Greater(h, e, h.elements[child])
              THEN Place(ShiftDown(h, size, child, e), i, h.elements[child])
              ELSE Place(h, i, e)

LEMMA MinChildIs ==
    ASSUME NEW h, NEW size \in Nat, NEW i \in Nat, i > 0, 2 * i <= size
    PROVE  /\ MinChild(h, size, i) \in {2 * i, 2 * i + 1}
           /\ MinChild(h, size, i) \in i + 1 .. size
<1>1. MinChild(h, size, i) \in {2 * i, 2 * i + 1}
  BY DEF MinChild
<1>2. 2 * i = size => MinChild(h, size, i) = 2 * i
  BY DEF MinChild
<1>3. QED
  BY <1>1, <1>2

LEMMA DownSteps ==
    ASSUME NEW P, NEW h \in HeapOf(P), NEW e, NEW i \in 1..Len(h.elements),
           NEW size \in Nat, size <= Len(h.elements)
    PROVE  DownStep(h, size, i, e)
<1> DEFINE el == h.elements
           Body(f, k) == LET child == MinChild(h, size, k)
                         IN  IF 2 * k <= size /\ Greater(h, e, el[child])
                               THEN Place(f[child], k, el[child])
                               ELSE Place(h, k, e)
           Is(f) == f = [k \in DOMAIN el |-> Body(f, k)]
           down == CHOOSE f : Is(f)
           last == Len(el)
<1>1. \A k : ShiftDown(h, size, k, e) = down[k]
  BY DEF ShiftDown
<1>2. DOMAIN el = 1..last /\ last \in Nat
  BY DEF HeapOf
<1>3. \A f, g, k : (2 * k <= size => f[MinChild(h, size, k)] = g[MinChild(h, size, k)])
                       => Body(f, k) = Body(g, k)
  OBVIOUS
<1>4. Is(down)
  <2> HIDE DEF Body, last
  <2> DEFINE Made(f, n) == f = [k \in (last + 1 - n)..last |-> Body(f, k)]
             T == {n \in Nat : n <= last => \E f : Made(f, n)}
  <2>1. 0 \in T
    <3> DEFINE f == [k \in (last + 1)..last |-> 0]
    <3>1. Made(f, 0)
      BY <1>2
    <3>2. QED
      BY <3>1
  <2>2. ASSUME NEW n \in Nat, n \in T PROVE n + 1 \in T
    <3> SUFFICES ASSUME n + 1 <= last PROVE \E f : Made(f, n + 1)
      OBVIOUS
    <3>1. PICK f : Made(f, n)
      BY <1>2, <2>2
    <3> DEFINE S == (last + 1 - (n + 1))..last
               g == [k \in S |-> Body(f, k)]
    <3>2. \A k \in (last + 1 - n)..last : g[k] = f[k]
      <4>1. (last + 1 - n)..last \subseteq S
        BY <1>2
      <4> HIDE DEF S
      <4>2. QED
        BY <3>1, <4>1
    <3>3. \A k \in S : Body(g, k) = Body(f, k)
      <4>1. TAKE k \in S
      <4>2. k \in Nat /\ k > 0 /\ k >= last - n
        BY <1>2
      <4>3. 2 * k <= size => MinChild(h, size, k) \in (last + 1 - n)..last
        <5>1. 2 * k <= size => MinChild(h, size, k) \in k + 1 .. size
          BY <4>2, MinChildIs
        <5>2. size <= last
          BY DEF last
        <5>3. QED
          BY <1>2, <4>2, <5>1, <5>2
      <4>4. 2 * k <= size => g[MinChild(h, size, k)] = f[MinChild(h, size, k)]
        BY <3>2, <4>3
      <4> HIDE DEF g
      <4>5. QED
        BY <1>3, <4>4
    <3>4. Made(g, n + 1)
      BY <3>3
    <3> HIDE DEF g, Made
    <3>5. QED
      BY <3>4
  <2>3. last \in T
    BY <1>2, <2>1, <2>2, NatInductionOverSet
  <2>4. PICK f : Made(f, last)
    BY <1>2, <2>3
  <2>5. last + 1 - last = 1
    BY <1>2
  <2>6. Is(f)
    BY <1>2, <2>4, <2>5
  <2>7. QED
    BY <2>6
<1>5. down[i] = Body(down, i)
  <2> HIDE DEF Body, down
  <2>1. QED
    BY <1>2, <1>4
<1> HIDE DEF down
<1>6. QED
  BY <1>1, <1>5 DEF DownStep

-----------------------------------------------------------------------------
(* The places of the nodes.  Every node but the last knows its place, and  *)
(* the last is another: it is the one that is to be put in.                *)

Held(h) ==
    \A k \in 1..(Len(h.elements) - 1) :
        /\ h.node[h.elements[k]].heap_index = k
        /\ h.elements[k] # h.elements[Len(h.elements)]

(* g has the last node of h in place of the one that was at i, in the      *)
(* first places: each node is one of h's, and each of h's is at its place. *)
FromOthers(g, h, i) ==
    \A j \in 1..(Len(h.elements) - 1) :
        /\ g.node[g.elements[j]].heap_index = j
        /\ \E k \in 1..Len(h.elements) : k # i /\ g.elements[j] = h.elements[k]

OthersIn(g, h, i) ==
    \A k \in 1..Len(h.elements) :
        k # i => /\ g.node[h.elements[k]].heap_index \in 1..(Len(h.elements) - 1)
                 /\ g.elements[g.node[h.elements[k]].heap_index] = h.elements[k]

Filled(g, h, i) == FromOthers(g, h, i) /\ OthersIn(g, h, i)

LEMMA HeldIs ==
    ASSUME NEW P, NEW h \in HeapOf(P), Held(h)
    PROVE  /\ Len(h.elements) \in Nat
           /\ \A k \in 1..Len(h.elements) : h.elements[k] \in P
           /\ \A j, k \in 1..Len(h.elements) : h.elements[j] = h.elements[k] => j = k
<1>1. h.elements \in Seq(P)
  BY DEF HeapOf
<1> DEFINE n == Len(h.elements)
<1>2. n \in Nat /\ \A k \in 1..n : h.elements[k] \in P
  BY <1>1
<1> HIDE DEF n
<1>3. ASSUME NEW j \in 1..n, NEW k \in 1..n, h.elements[j] = h.elements[k]
      PROVE  j = k
  <2>1. CASE j = n \/ k = n
    <3>1. j # k => j \in 1..(n - 1) \/ k \in 1..(n - 1)
      BY <1>2, <2>1
    <3>2. QED
      BY <1>3, <2>1, <3>1 DEF Held, n
  <2>2. CASE j # n /\ k # n
    <3>1. j \in 1..(n - 1) /\ k \in 1..(n - 1)
      BY <1>2, <2>2
    <3>2. QED
      BY <1>3, <3>1 DEF Held, n
  <2>3. QED
    BY <2>1, <2>2
<1>4. QED
  BY <1>2, <1>3 DEF n

(* The last node is put in place i.                                        *)
LEMMA FilledBase ==
    ASSUME NEW P, NEW h \in HeapOf(P), Held(h), NEW i \in 1..Len(h.elements),
           NEW g, Placed(g, h, i, h.elements[Len(h.elements)], P)
    PROVE  Filled(g, h, i)
<1> DEFINE n == Len(h.elements)
           el == h.elements
           e == el[n]
<1>1. /\ n \in Nat /\ n \in 1..n /\ \A k \in 1..n : el[k] \in P
      /\ \A j, k \in 1..n : el[j] = el[k] => j = k
  BY HeldIs
<1>2. /\ g.elements[i] = e /\ g.node[e].heap_index = i
      /\ \A j \in 1..n : j # i => g.elements[j] = el[j]
      /\ \A p \in P : p # e => g.node[p] = h.node[p]
  BY DEF Placed
<1>3. \A k \in 1..(n - 1) : h.node[el[k]].heap_index = k /\ el[k] # e /\ k \in 1..n
  BY <1>1 DEF Held
<1>4. i \in 1..n
  OBVIOUS
<1> HIDE DEF n, e, el
<1>5. ASSUME NEW j \in 1..(n - 1)
      PROVE  /\ g.node[g.elements[j]].heap_index = j
             /\ \E k \in 1..n : k # i /\ g.elements[j] = el[k]
  <2>1. CASE j = i
    <3>1. n # i
      BY <1>1, <2>1
    <3>2. QED
      BY <1>1, <1>2, <2>1, <3>1 DEF e
  <2>2. CASE j # i
    <3>1. j \in 1..n /\ g.elements[j] = el[j] /\ el[j] # e /\ el[j] \in P
      BY <1>1, <1>2, <1>3, <2>2
    <3>2. g.node[el[j]].heap_index = j
      BY <1>2, <1>3, <3>1
    <3>3. QED
      BY <2>2, <3>1, <3>2
  <2>3. QED
    BY <2>1, <2>2
<1>6. ASSUME NEW k \in 1..n, k # i
      PROVE  /\ g.node[el[k]].heap_index \in 1..(n - 1)
             /\ g.elements[g.node[el[k]].heap_index] = el[k]
  <2>1. CASE k = n
    <3>1. i \in 1..(n - 1) /\ el[k] = e
      BY <1>1, <1>4, <1>6, <2>1 DEF e
    <3>2. QED
      BY <1>2, <3>1
  <2>2. CASE k # n
    <3>1. k \in 1..(n - 1) /\ el[k] \in P
      BY <1>1, <2>2
    <3>2. g.node[el[k]].heap_index = k /\ g.elements[k] = el[k]
      BY <1>2, <1>3, <1>6, <3>1
    <3>3. QED
      BY <3>1, <3>2
  <2>3. QED
    BY <2>1, <2>2
<1>7. QED
  BY <1>5, <1>6 DEF Filled, FromOthers, OthersIn, n, el

(* The node at `from` is put in place i; what it leaves has been filled.   *)
LEMMA FilledStep ==
    ASSUME NEW P, NEW h \in HeapOf(P), Held(h), NEW i \in 1..(Len(h.elements) - 1),
           NEW from \in 1..Len(h.elements), from # i,
           NEW v, Filled(v, h, from), v.elements[i] = h.elements[i],
           NEW g, Placed(g, v, i, h.elements[from], P), Len(v.elements) = Len(h.elements)
    PROVE  Filled(g, h, i)
<1> DEFINE n == Len(h.elements)
           el == h.elements
           e == el[from]
<1>1. /\ n \in Nat /\ \A k \in 1..n : el[k] \in P
      /\ \A j, k \in 1..n : el[j] = el[k] => j = k
  BY HeldIs
<1>2. /\ g.elements[i] = e /\ g.node[e].heap_index = i
      /\ \A j \in 1..n : j # i => g.elements[j] = v.elements[j]
      /\ \A p \in P : p # e => g.node[p] = v.node[p]
  BY DEF Placed
<1>3. /\ \A j \in 1..(n - 1) :
            /\ v.node[v.elements[j]].heap_index = j
            /\ \E k \in 1..n : k # from /\ v.elements[j] = el[k]
      /\ \A k \in 1..n :
            k # from => /\ v.node[el[k]].heap_index \in 1..(n - 1)
                        /\ v.elements[v.node[el[k]].heap_index] = el[k]
  BY DEF Filled, FromOthers, OthersIn
<1>4. i \in 1..(n - 1) /\ from \in 1..n /\ from # i /\ v.elements[i] = el[i]
  OBVIOUS
<1> HIDE DEF n, e, el
<1>5. i \in 1..n /\ \A j \in 1..(n - 1) : j \in 1..n
  BY <1>1, <1>4
<1>6. ASSUME NEW j \in 1..(n - 1)
      PROVE  /\ g.node[g.elements[j]].heap_index = j
             /\ \E k \in 1..n : k # i /\ g.elements[j] = el[k]
  <2>1. CASE j = i
    BY <1>2, <1>4, <2>1 DEF e
  <2>2. CASE j # i
    <3>1. PICK k \in 1..n : k # from /\ v.elements[j] = el[k]
      BY <1>3
    <3>2. g.elements[j] = el[k] /\ el[k] # e /\ el[k] \in P
      BY <1>1, <1>2, <1>4, <1>5, <2>2, <3>1 DEF e
    <3>3. v.node[el[k]].heap_index = j
      BY <1>3, <3>1
    <3>4. k # i
      BY <1>3, <1>4, <2>2, <3>1, <3>3
    <3>5. QED
      BY <1>2, <3>2, <3>3, <3>4
  <2>3. QED
    BY <2>1, <2>2
<1>7. ASSUME NEW k \in 1..n, k # i
      PROVE  /\ g.node[el[k]].heap_index \in 1..(n - 1)
             /\ g.elements[g.node[el[k]].heap_index] = el[k]
  <2>1. CASE k = from
    BY <1>2, <1>4, <2>1 DEF e
  <2>2. CASE k # from
    <3>1. el[k] # e /\ el[k] \in P
      BY <1>1, <1>4, <2>2 DEF e
    <3>2. g.node[el[k]].heap_index = v.node[el[k]].heap_index
      BY <1>2, <3>1
    <3> DEFINE x == v.node[el[k]].heap_index
    <3>3. x \in 1..(n - 1) /\ v.elements[x] = el[k]
      BY <1>3, <2>2
    <3> HIDE DEF x
    <3>4. x # i
      BY <1>1, <1>4, <1>5, <1>7, <3>3
    <3>5. g.elements[x] = el[k]
      BY <1>2, <1>5, <3>3, <3>4
    <3>6. QED
      BY <3>2, <3>3, <3>5 DEF x
  <2>3. QED
    BY <2>1, <2>2
<1>8. QED
  BY <1>6, <1>7 DEF Filled, FromOthers, OthersIn, n, el

-----------------------------------------------------------------------------
(* Order, as a matter of the keys at the places 1 to m.                    *)

Ascending(x, m) == \A j \in 2..m : x[j \div 2] <= x[j]

LEMMA Parents ==
    ASSUME NEW m \in Nat, NEW j \in 2..m
    PROVE  j \div 2 \in 1..m /\ j \div 2 # j /\ j \in 1..m /\ j \div 2 < j /\ j \in Nat
<1>1. j \in Nat /\ j > 1 /\ j <= m
  OBVIOUS
<1>2. j \div 2 \in Nat /\ j \div 2 < j /\ j \div 2 > 0
  BY <1>1, Halves
<1> DEFINE half == j \div 2
<1> HIDE DEF half
<1>3. half \in Nat /\ half < j /\ half > 0
  BY <1>2 DEF half
<1>4. half \in 1..m /\ half # j /\ j \in 1..m
  BY <1>1, <1>3
<1>5. QED
  BY <1>1, <1>3, <1>4 DEF half

(* One key is changed, which fits between the one above and those below.   *)
LEMMA FitsBetween ==
    ASSUME NEW m \in Nat, NEW x \in [1..m -> Int], NEW z \in [1..m -> Int],
           NEW i \in 1..m, Ascending(x, m),
           \A j \in 1..m : j # i => z[j] = x[j],
           i > 1 => x[i \div 2] <= z[i],
           \A c \in 1..m : c \div 2 = i => z[i] <= x[c]
    PROVE  Ascending(z, m)
<1> SUFFICES ASSUME NEW j \in 2..m PROVE z[j \div 2] <= z[j]
  BY DEF Ascending
<1>1. j \div 2 \in 1..m /\ j \div 2 # j /\ j \in 1..m
  BY Parents
<1>2. x[j \div 2] <= x[j]
  BY DEF Ascending
<1>3. CASE j = i
  BY <1>1, <1>3
<1>4. CASE j # i
  <2>1. z[j] = x[j]
    BY <1>1, <1>4
  <2>2. j \div 2 = i => z[i] <= x[j]
    BY <1>1
  <2>3. j \div 2 # i => z[j \div 2] = x[j \div 2]
    BY <1>1
  <2> DEFINE half == j \div 2
  <2> HIDE DEF half
  <2>4. QED
    BY <1>2, <2>1, <2>2, <2>3 DEF half
<1>5. QED
  BY <1>3, <1>4

(* What was above i comes down to i, when above it something less has come.*)
LEMMA ComesDown ==
    ASSUME NEW m \in Nat, NEW x \in [1..m -> Int], NEW y \in [1..m -> Int],
           NEW z \in [1..m -> Int], NEW i \in 2..m, Ascending(x, m), Ascending(y, m),
           \A j \in 1..m : j > i \div 2 => y[j] = x[j],
           y[i \div 2] <= x[i \div 2],
           z[i] = x[i \div 2], \A j \in 1..m : j # i => z[j] = y[j]
    PROVE  Ascending(z, m) /\ z[i] <= x[i]
<1>1. /\ i \div 2 \in 1..m /\ i \div 2 # i /\ i \in 1..m /\ i \div 2 < i
      /\ i \in Nat /\ i > 1
  BY Parents
<1>2. x[i \div 2] <= x[i]
  BY DEF Ascending
<1>3. y[i \div 2] <= z[i]
  OBVIOUS
<1>4. ASSUME NEW c \in 1..m, c \div 2 = i PROVE z[i] <= y[c]
  <2>1. c \in Nat /\ c > 0
    OBVIOUS
  <2>2. c \in {2 * i, 2 * i + 1}
    BY <1>1, <1>4, <2>1, Halves
  <2>3. c > i /\ c \in 2..m
    BY <1>1, <2>1, <2>2
  <2>4. x[i] <= x[c]
    BY <1>4, <2>3 DEF Ascending
  <2>5. c > i \div 2
    <3> DEFINE half == i \div 2
    <3> HIDE DEF half
    <3>1. half < i /\ half \in Int
      BY <1>1 DEF half
    <3>2. c > half
      BY <1>1, <2>1, <2>3, <3>1
    <3>3. QED
      BY <3>2 DEF half
  <2>6. y[c] = x[c]
    BY <2>5
  <2>7. x[i] \in Int /\ x[i \div 2] \in Int /\ x[c] \in Int
    BY <1>1
  <2>8. PICK a \in Int, b \in Int, d \in Int : a = x[i \div 2] /\ b = x[i] /\ d = x[c]
    BY <2>7
  <2>9. a <= b /\ b <= d
    BY <1>2, <2>4, <2>8
  <2>10. a <= d
    BY <2>9
  <2>11. QED
    BY <2>6, <2>8, <2>10
<1>5. QED
  BY <1>1, <1>2, <1>3, <1>4, FitsBetween

(* The lesser child c of i comes up to i, and below it something greater   *)
(* has come.                                                               *)
Raised(x, y, z, i, c, m) ==
    /\ Ascending(x, m) /\ Ascending(y, m)
    /\ c \div 2 = i
    /\ \A j \in 1..m : j \div 2 = i => x[c] <= x[j]
    /\ \A j \in 1..m : j < c => y[j] = x[j]
    /\ \A j \in 1..m : x[j] <= y[j]
    /\ z[i] = x[c]
    /\ \A j \in 1..m : j # i => z[j] = y[j]

LEMMA ComesUp ==
    ASSUME NEW m \in Nat, NEW x \in [1..m -> Int], NEW y \in [1..m -> Int],
           NEW z \in [1..m -> Int], NEW i \in 1..m, NEW c \in 1..m,
           Raised(x, y, z, i, c, m)
    PROVE  Ascending(z, m) /\ \A j \in 1..m : x[j] <= z[j]
<1> USE DEF Raised
<1>1. i \in Nat /\ i > 0 /\ c \in Nat /\ c > 0 /\ c <= m
  OBVIOUS
<1>2. c \in {2 * i, 2 * i + 1}
  BY <1>1, Halves
<1>3. c \in 2..m /\ c > i
  BY <1>1, <1>2
<1>4. x[i] <= x[c]
  BY <1>3 DEF Ascending
<1>5. i > 1 => y[i \div 2] <= z[i]
  <2> SUFFICES ASSUME i > 1 PROVE y[i \div 2] <= z[i]
    OBVIOUS
  <2>1. i \in 2..m
    BY <1>1
  <2>2. i \div 2 \in 1..m /\ i \div 2 < i
    BY <2>1, Parents
  <2>3. x[i \div 2] <= x[i]
    BY <2>1 DEF Ascending
  <2> DEFINE half == i \div 2
  <2> HIDE DEF half
  <2>4. half \in 1..m /\ half < i /\ x[half] <= x[i]
    BY <2>2, <2>3 DEF half
  <2>5. half < c
    BY <1>1, <1>3, <2>4
  <2>6. y[half] = x[half]
    BY <2>4, <2>5
  <2>7. x[half] <= x[c]
    <3>1. PICK a \in Int, b \in Int, d \in Int : a = x[half] /\ b = x[i] /\ d = x[c]
      BY <2>4
    <3>2. a <= b /\ b <= d
      BY <1>4, <2>4, <3>1
    <3>3. a <= d
      BY <3>2
    <3>4. QED
      BY <3>1, <3>3
  <2>8. QED
    BY <2>6, <2>7 DEF half
<1>6. ASSUME NEW j \in 1..m, j \div 2 = i PROVE z[i] <= y[j]
  <2>1. x[c] <= x[j] /\ x[j] <= y[j]
    BY <1>6
  <2>2. PICK a \in Int, b \in Int, d \in Int : a = x[c] /\ b = x[j] /\ d = y[j]
    OBVIOUS
  <2>3. a <= b /\ b <= d
    BY <2>1, <2>2
  <2>4. a <= d
    BY <2>3
  <2>5. QED
    BY <2>2, <2>4
<1>7. Ascending(z, m)
  <2>1. \A k \in 1..m : k \div 2 = i => z[i] <= y[k]
    BY <1>6
  <2>2. \A j \in 1..m : j # i => z[j] = y[j]
    BY DEF Raised
  <2>3. m \in Nat /\ i \in 1..m /\ y \in [1..m -> Int] /\ z \in [1..m -> Int]
    OBVIOUS
  <2>4. Ascending(y, m)
    BY DEF Raised
  <2>5. QED
    BY ONLY <1>5, <2>1, <2>2, <2>3, <2>4, FitsBetween
<1>8. \A j \in 1..m : x[j] <= z[j]
  <2>1. TAKE j \in 1..m
  <2>2. CASE j = i
    BY <1>4, <2>2
  <2>3. CASE j # i
    BY <2>3
  <2>4. QED
    BY <2>2, <2>3
<1>9. QED
  BY <1>7, <1>8

-----------------------------------------------------------------------------
(* The loops as a whole: e is the last node of h, which goes up or down    *)
(* from i, over the node that is there.                                    *)

Keys(g, h) == [j \in 1..(Len(h.elements) - 1) |-> Key(h, g.elements[j])]

LEMMA KeysAre ==
    ASSUME NEW P, NEW h \in HeapOf(P), NEW g, Rearranged(g, h, P)
    PROVE  /\ Keys(g, h) \in [1..(Len(h.elements) - 1) -> Int]
           /\ \A p \in P : Key(g, p) = Key(h, p) /\ Key(h, p) \in Int
<1>1. /\ h.node \in [P -> NodeType] /\ g.elements \in Seq(P)
      /\ Len(g.elements) = Len(h.elements)
  BY DEF HeapOf, Rearranged
<1>2. \A p \in P : Key(h, p) \in Int
  <2>1. TAKE p \in P
  <2>2. h.node[p] \in NodeType
    BY <1>1
  <2>3. QED
    BY <2>2 DEF NodeType, Key
<1>3. \A j \in 1..(Len(h.elements) - 1) : g.elements[j] \in P
  BY <1>1
<1>4. \A p \in P : Key(g, p) = Key(h, p)
  BY DEF Rearranged, Alike, Key
<1>5. QED
  BY <1>2, <1>3, <1>4 DEF Keys

UpMade(g, h, i, P) ==
    LET n == Len(h.elements)
        x == Keys(h, h)
        z == Keys(g, h)
        e == Key(h, h.elements[n])
    IN  /\ Rearranged(g, h, P) /\ Filled(g, h, i)
        /\ \A j \in 1..n : j > i => g.elements[j] = h.elements[j]
        /\ e <= x[i] => z[i] <= x[i]
        /\ (\A c \in 1..(n - 1) : c \div 2 = i => e <= x[c]) => Ascending(z, n - 1)

LEMMA UpIs ==
    ASSUME NEW P, NEW h \in HeapOf(P), Held(h),
           Ascending(Keys(h, h), Len(h.elements) - 1),
           NEW hole \in 1..(Len(h.elements) - 1)
    PROVE  UpMade(ShiftUp(h, hole, h.elements[Len(h.elements)]), h, hole, P)
<1> DEFINE n == Len(h.elements)
           el == h.elements
           e == el[n]
           x == Keys(h, h)
           m == n - 1
           T == {k \in Nat : \A i \in 1..m : i <= k => UpMade(ShiftUp(h, i, e), h, i, P)}
<1>1. /\ n \in Nat /\ n \in 1..n /\ \A k \in 1..n : el[k] \in P
      /\ m \in Nat /\ \A k \in 1..m : k \in 1..n
  BY HeldIs
<1>2. Rearranged(h, h, P)
  BY DEF Rearranged, Alike
<1>3. x \in [1..m -> Int] /\ \A p \in P : Key(h, p) \in Int
  BY <1>2, KeysAre
<1>4. e \in P /\ Ascending(x, m)
  BY <1>1
<1>5. \A g, k : k \in 1..m => Keys(g, h)[k] = Key(h, g.elements[k])
  BY DEF Keys
<1>6. \A a, b : Greater(h, a, b) <=> Key(h, a) > Key(h, b)
  BY DEF Greater, Key
<1>7. 0 \in T
  OBVIOUS
<1>8. ASSUME NEW k \in Nat, k \in T PROVE k + 1 \in T
  <2> SUFFICES ASSUME k + 1 \in 1..m PROVE UpMade(ShiftUp(h, k + 1, e), h, k + 1, P)
    BY <1>8
  <2> DEFINE i == k + 1
             par == i \div 2
             g == ShiftUp(h, i, e)
             z == Keys(g, h)
  <2>1. i \in 1..m /\ i \in 1..n /\ i \in Nat
    BY <1>1
  <2>2. UpStep(h, i, e)
    BY <2>1, UpSteps
  <2>3. CASE i > 1 /\ Greater(h, el[par], e)
    <3> DEFINE v == ShiftUp(h, par, e)
               y == Keys(v, h)
    <3>1. i \in 2..m
      BY <1>1, <2>1, <2>3
    <3>2. par \in 1..m /\ par # i /\ par < i /\ par \in 1..n
      BY <1>1, <3>1, Parents
    <3>3. UpMade(v, h, par, P)
      <4> HIDE DEF v
      <4>1. par <= k
        <5> HIDE DEF par
        <5>1. QED
          BY <3>2
      <4>2. QED
        BY <1>8, <3>2, <4>1 DEF v
    <3>4. g = Place(v, i, el[par])
      BY <2>2, <2>3 DEF UpStep
    <3> HIDE DEF par, v, i, g
    <3>5. /\ Rearranged(v, h, P) /\ Filled(v, h, par)
          /\ \A j \in 1..n : j > par => v.elements[j] = el[j]
          /\ Key(h, e) <= x[par] => y[par] <= x[par]
          /\ (\A c \in 1..m : c \div 2 = par => Key(h, e) <= x[c]) => Ascending(y, m)
      BY <3>3 DEF UpMade
    <3>6. el[par] \in P
      BY <1>1, <3>2
    <3>7. Rearranged(g, h, P) /\ Placed(g, v, i, el[par], P)
      BY <2>1, <3>4, <3>5, <3>6, PlaceKeeps
    <3>8. Len(v.elements) = n
      BY <3>5 DEF Rearranged
    <3>9. v.elements[i] = el[i]
      BY <2>1, <3>2, <3>5
    <3>10. Filled(g, h, i)
      BY <2>1, <3>2, <3>5, <3>7, <3>8, <3>9, FilledStep
    <3>11. g.elements[i] = el[par] /\ \A j \in 1..n : j # i => g.elements[j] = v.elements[j]
      BY <3>7, <3>8 DEF Placed
    <3>12. \A j \in 1..n : j > i => g.elements[j] = el[j]
      BY <1>1, <2>1, <3>2, <3>5, <3>11
    <3>13. y \in [1..m -> Int] /\ z \in [1..m -> Int]
      BY <3>5, <3>7, KeysAre
    <3>14. Key(h, e) <= x[par] /\ Key(h, e) < x[par] /\ x[par] \in Int /\ Key(h, e) \in Int
      <4>1. x[par] = Key(h, el[par])
        BY <1>5, <3>2
      <4>2. Key(h, el[par]) > Key(h, e)
        BY <1>6, <2>3 DEF par, i
      <4>3. x[par] \in Int /\ Key(h, e) \in Int
        BY <1>3, <1>4, <3>2
      <4> HIDE DEF x
      <4>4. QED
        BY <4>1, <4>2, <4>3
    <3>15. \A c \in 1..m : c \div 2 = par => Key(h, e) <= x[c]
      <4>1. TAKE c \in 1..m
      <4>2. HAVE c \div 2 = par
      <4>3. c \in 2..m
        <5>1. c \in Nat /\ c > 0
          BY <1>1
        <5>2. c \in {2 * par, 2 * par + 1} /\ par > 0 /\ par \in Nat
          BY <1>1, <3>2, <4>2, <5>1, Halves
        <5>3. QED
          BY <1>1, <5>1, <5>2
      <4>4. x[par] <= x[c]
        BY <1>4, <4>2, <4>3 DEF Ascending
      <4>5. x[c] \in Int
        BY <1>3
      <4> HIDE DEF x
      <4>6. QED
        BY <3>14, <4>4, <4>5
    <3>16. Ascending(y, m) /\ y[par] <= x[par]
      BY <3>5, <3>14, <3>15
    <3>17. \A j \in 1..m : j > par => y[j] = x[j]
      BY <1>1, <1>5, <3>5
    <3>18. z[i] = x[par] /\ \A j \in 1..m : j # i => z[j] = y[j]
      <4>1. z[i] = Key(h, g.elements[i]) /\ x[par] = Key(h, el[par])
        BY <1>5, <2>1, <3>2
      <4>2. \A j \in 1..m : z[j] = Key(h, g.elements[j]) /\ y[j] = Key(h, v.elements[j])
        BY <1>5
      <4> HIDE DEF x, y, z
      <4>3. \A j \in 1..m : j # i => g.elements[j] = v.elements[j]
        BY <1>1, <3>11
      <4>4. QED
        BY <3>11, <4>1, <4>2, <4>3
    <3> HIDE DEF x, y, z, m
    <3>19. Ascending(z, m) /\ z[i] <= x[i]
      BY <1>1, <1>3, <1>4, <3>1, <3>13, <3>16, <3>17, <3>18, ComesDown DEF par
    <3>20. UpMade(g, h, i, P)
      BY <3>7, <3>10, <3>12, <3>19 DEF UpMade, x, z, m
    <3>21. QED
      BY <3>20 DEF g, i
  <2>4. CASE ~(i > 1 /\ Greater(h, el[par], e))
    <3>1. g = Place(h, i, e)
      BY <2>2, <2>4 DEF UpStep
    <3>2. i > 1 => i \in 2..m /\ par \in 1..m
      BY <1>1, <2>1, Parents
    <3>3. i > 1 => x[par] <= Key(h, e)
      <4> SUFFICES ASSUME i > 1 PROVE x[par] <= Key(h, e)
        OBVIOUS
      <4>1. par \in 1..m
        BY <3>2
      <4> HIDE DEF par
      <4>2. x[par] = Key(h, el[par]) /\ x[par] \in Int /\ Key(h, e) \in Int
        BY <1>3, <1>4, <1>5, <4>1
      <4>3. ~(Key(h, el[par]) > Key(h, e))
        BY <1>6, <2>4 DEF par
      <4> HIDE DEF x
      <4>4. QED
        BY <4>2, <4>3
    <3> HIDE DEF par, i, g
    <3>4. Placed(g, h, i, e, P)
      BY <1>4, <2>1, <3>1, PlaceIs
    <3>5. Rearranged(g, h, P) /\ Filled(g, h, i)
      BY <2>1, <3>4, FilledBase DEF Placed
    <3>6. g.elements[i] = e /\ \A j \in 1..n : j # i => g.elements[j] = el[j]
      BY <3>4 DEF Placed
    <3>7. \A j \in 1..n : j > i => g.elements[j] = el[j]
      BY <1>1, <2>1, <3>6
    <3>8. z \in [1..m -> Int]
      BY <3>5, KeysAre
    <3>9. z[i] = Key(h, e) /\ \A j \in 1..m : j # i => z[j] = x[j]
      <4>1. z[i] = Key(h, g.elements[i])
        BY <1>5, <2>1
      <4>2. \A j \in 1..m : z[j] = Key(h, g.elements[j]) /\ x[j] = Key(h, el[j])
        BY <1>5
      <4> HIDE DEF x, z
      <4>3. \A j \in 1..m : j # i => g.elements[j] = el[j]
        BY <1>1, <3>6
      <4>4. QED
        BY <3>6, <4>1, <4>2, <4>3
    <3> HIDE DEF x, z, m
    <3>10. Key(h, e) <= x[i] => z[i] <= x[i]
      BY <3>9
    <3>11. ASSUME \A c \in 1..m : c \div 2 = i => Key(h, e) <= x[c]
           PROVE  Ascending(z, m)
      <4>1. \A c \in 1..m : c \div 2 = i => z[i] <= x[c]
        BY <3>9, <3>11
      <4>2. i > 1 => x[i \div 2] <= z[i]
        BY <3>3, <3>9 DEF par
      <4>3. m \in Nat /\ i \in 1..m /\ x \in [1..m -> Int] /\ Ascending(x, m)
        BY <1>1, <1>3, <1>4, <2>1
      <4>4. \A j \in 1..m : j # i => z[j] = x[j]
        BY <3>9
      <4>5. QED
        BY ONLY <3>8, <4>1, <4>2, <4>3, <4>4, FitsBetween
    <3>12. UpMade(g, h, i, P)
      BY <3>5, <3>7, <3>10, <3>11 DEF UpMade, x, z, m
    <3>13. QED
      BY <3>12 DEF g, i
  <2>5. QED
    BY <2>3, <2>4
<1>9. m \in T
  BY <1>1, <1>7, <1>8, NatInductionOverSet
<1>10. QED
  BY <1>1, <1>9

DownMade(g, h, i, P) ==
    LET n == Len(h.elements)
        x == Keys(h, h)
        z == Keys(g, h)
        e == Key(h, h.elements[n])
    IN  /\ Rearranged(g, h, P) /\ Filled(g, h, i)
        /\ \A j \in 1..n : j < i => g.elements[j] = h.elements[j]
        /\ x[i] <= e => \A j \in 1..(n - 1) : x[j] <= z[j]
        /\ (i > 1 => x[i \div 2] <= e) => Ascending(z, n - 1)

(* The child that is taken is the lesser one.                              *)
LEMMA MinChildLeast ==
    ASSUME NEW P, NEW h \in HeapOf(P), NEW m \in Nat, m = Len(h.elements) - 1,
           NEW i \in 1..m, 2 * i <= m
    PROVE  /\ MinChild(h, m, i) \in 1..m /\ MinChild(h, m, i) \div 2 = i
           /\ MinChild(h, m, i) > i
           /\ \A j \in 1..m :
                 j \div 2 = i => Keys(h, h)[MinChild(h, m, i)] <= Keys(h, h)[j]
<1> DEFINE x == Keys(h, h)
           c == MinChild(h, m, i)
           el == h.elements
<1>1. i \in Nat /\ i > 0 /\ Len(h.elements) \in Nat
  BY DEF HeapOf
<1>2. c \in {2 * i, 2 * i + 1} /\ c \in i + 1 .. m
  BY <1>1, MinChildIs
<1>3. Rearranged(h, h, P)
  BY DEF Rearranged, Alike
<1>4. x \in [1..m -> Int]
  BY <1>3, KeysAre
<1>5. \A k \in 1..m : x[k] = Key(h, el[k])
  BY DEF Keys
<1>6. 2 * i \in 1..m
  BY <1>1
<1>7. \A j \in 1..m : j \div 2 = i => j \in {2 * i, 2 * i + 1}
  <2>1. TAKE j \in 1..m
  <2>2. j \in Nat /\ j > 0
    OBVIOUS
  <2>3. QED
    BY <1>1, <2>2, Halves
<1>8. CASE 2 * i = m
  <2>1. c = 2 * i
    BY <1>8 DEF MinChild
  <2>2. ~(2 * i + 1 \in 1..m)
    BY <1>1, <1>8
  <2> HIDE DEF x, c
  <2>3. \A j \in 1..m : j \div 2 = i => x[c] <= x[j]
    <3>1. TAKE j \in 1..m
    <3>2. HAVE j \div 2 = i
    <3>3. j = c
      BY <1>7, <2>1, <2>2, <3>2
    <3>4. x[c] \in Int
      BY <1>4, <1>6, <2>1
    <3>5. QED
      BY <3>3, <3>4
  <2>4. c \div 2 = i /\ c > i /\ c \in 1..m
    BY <1>1, <1>6, <2>1
  <2>5. QED
    BY <2>3, <2>4 DEF c, x
<1>9. CASE 2 * i # m
  <2> DEFINE a == x[2 * i]
             b == x[2 * i + 1]
  <2>1. 2 * i + 1 \in 1..m
    BY <1>1, <1>9
  <2>2. a \in Int /\ b \in Int
    BY <1>4, <1>6, <2>1
  <2>3. a = Key(h, el[2 * i]) /\ b = Key(h, el[2 * i + 1])
    BY <1>5, <1>6, <2>1
  <2>4. c = IF b > a THEN 2 * i ELSE 2 * i + 1
    <3> HIDE DEF a, b
    <3>1. QED
      BY <1>9, <2>3 DEF MinChild, Greater, Key
  <2>5. x[c] <= a /\ x[c] <= b
    <3>1. CASE b > a
      <4>1. x[c] = a
        BY <2>4, <3>1
      <4> HIDE DEF a, b, x
      <4>2. QED
        BY <2>2, <3>1, <4>1
    <3>2. CASE ~(b > a)
      <4>1. x[c] = b
        BY <2>4, <3>2
      <4> HIDE DEF a, b, x
      <4>2. QED
        BY <2>2, <3>2, <4>1
    <3>3. QED
      BY <3>1, <3>2
  <2>6. \A j \in 1..m : j \div 2 = i => x[c] <= x[j]
    <3> HIDE DEF x, c
    <3>1. TAKE j \in 1..m
    <3>2. HAVE j \div 2 = i
    <3>3. j = 2 * i \/ j = 2 * i + 1
      BY <1>7, <3>2
    <3>4. QED
      BY <2>5, <3>3
  <2> HIDE DEF c, x
  <2>7. c \div 2 = i /\ c > i /\ c \in 1..m
    <3>1. c \in Nat /\ c > 0 /\ c > i /\ c \in 1..m
      BY <1>1, <1>2
    <3>2. QED
      BY <1>1, <1>2, <3>1, Halves
  <2>8. QED
    BY <2>6, <2>7 DEF c, x
<1>10. QED
  BY <1>8, <1>9

LEMMA DownIs ==
    ASSUME NEW P, NEW h \in HeapOf(P), Held(h),
           Ascending(Keys(h, h), Len(h.elements) - 1),
           NEW hole \in 1..(Len(h.elements) - 1)
    PROVE  DownMade(ShiftDown(h, Len(h.elements) - 1, hole, h.elements[Len(h.elements)]),
                    h, hole, P)
<1> DEFINE n == Len(h.elements)
           el == h.elements
           e == el[n]
           x == Keys(h, h)
           m == n - 1
           T == {k \in Nat : \A i \in 1..m :
                                i + k >= m => DownMade(ShiftDown(h, m, i, e), h, i, P)}
<1>1. /\ n \in Nat /\ n \in 1..n /\ \A k \in 1..n : el[k] \in P
      /\ m \in Nat /\ (\A k \in 1..m : k \in 1..n) /\ m <= n /\ 0 \in Nat
  BY HeldIs
<1>2. Rearranged(h, h, P)
  BY DEF Rearranged, Alike
<1>3. x \in [1..m -> Int] /\ \A p \in P : Key(h, p) \in Int
  BY <1>2, KeysAre
<1>4. e \in P /\ Ascending(x, m) /\ Key(h, e) \in Int
  BY <1>1, <1>3
<1>5. \A g, k : k \in 1..m => Keys(g, h)[k] = Key(h, g.elements[k])
  BY DEF Keys
<1>6. \A a, b : Greater(h, a, b) <=> Key(h, a) > Key(h, b)
  BY DEF Greater, Key
<1>7. ASSUME NEW i \in 1..m,
             2 * i <= m /\ Greater(h, e, el[MinChild(h, m, i)]) =>
                 DownMade(ShiftDown(h, m, MinChild(h, m, i), e), h, MinChild(h, m, i), P)
      PROVE  DownMade(ShiftDown(h, m, i, e), h, i, P)
  <2> DEFINE c == MinChild(h, m, i)
             g == ShiftDown(h, m, i, e)
             z == Keys(g, h)
  <2>1. i \in 1..n /\ i \in Nat /\ i > 0
    BY <1>1
  <2>2. DownStep(h, m, i, e)
    BY <1>1, <2>1, DownSteps
  <2>3. CASE 2 * i <= m /\ Greater(h, e, el[c])
    <3> DEFINE v == ShiftDown(h, m, c, e)
               y == Keys(v, h)
    <3>1. c \in 1..m /\ c \div 2 = i /\ c > i /\ \A j \in 1..m : j \div 2 = i => x[c] <= x[j]
      BY <1>1, <2>3, MinChildLeast
    <3>2. c \in 1..n /\ c # i
      BY <1>1, <2>1, <3>1
    <3>3. DownMade(v, h, c, P)
      BY <1>7, <2>3
    <3>4. g = Place(v, i, el[c])
      BY <2>2, <2>3 DEF DownStep
    <3>5. Key(h, e) > x[c] /\ x[c] \in Int
      <4>1. x[c] = Key(h, el[c])
        BY <1>5, <3>1
      <4>2. QED
        BY <1>3, <1>6, <2>3, <3>1, <4>1
    <3> HIDE DEF c, v, g
    <3>6. /\ Rearranged(v, h, P) /\ Filled(v, h, c)
          /\ \A j \in 1..n : j < c => v.elements[j] = el[j]
          /\ x[c] <= Key(h, e) => \A j \in 1..m : x[j] <= y[j]
          /\ (c > 1 => x[c \div 2] <= Key(h, e)) => Ascending(y, m)
      BY <3>3 DEF DownMade
    <3>7. el[c] \in P
      BY <1>1, <3>2
    <3>8. Rearranged(g, h, P) /\ Placed(g, v, i, el[c], P)
      BY <2>1, <3>4, <3>6, <3>7, PlaceKeeps
    <3>9. Len(v.elements) = n
      BY <3>6 DEF Rearranged
    <3>10. v.elements[i] = el[i]
      BY <2>1, <3>1, <3>6
    <3>11. Filled(g, h, i)
      BY <2>1, <3>2, <3>6, <3>8, <3>9, <3>10, FilledStep
    <3>12. g.elements[i] = el[c] /\ \A j \in 1..n : j # i => g.elements[j] = v.elements[j]
      BY <3>8, <3>9 DEF Placed
    <3>13. \A j \in 1..n : j < i => g.elements[j] = el[j]
      <4>1. TAKE j \in 1..n
      <4>2. HAVE j < i
      <4>3. j < c /\ j # i
        BY <2>1, <3>2, <3>1, <4>2
      <4>4. QED
        BY <3>6, <3>12, <4>3
    <3>14. y \in [1..m -> Int] /\ z \in [1..m -> Int]
      BY <3>6, <3>8, KeysAre
    <3>15. x[i] <= x[c] /\ x[i] \in Int
      <4>1. c \in 2..m
        BY <2>1, <3>1
      <4>2. QED
        BY <1>3, <1>4, <3>1, <4>1 DEF Ascending
    <3>16. x[c] <= Key(h, e) /\ x[i] <= Key(h, e)
      <4> HIDE DEF x
      <4>1. QED
        BY <1>4, <3>5, <3>15
    <3>17. Ascending(y, m) /\ \A j \in 1..m : x[j] <= y[j]
      BY <3>1, <3>6, <3>16
    <3>18. \A j \in 1..m : j < c => y[j] = x[j]
      <4>1. \A j \in 1..m : y[j] = Key(h, v.elements[j]) /\ x[j] = Key(h, el[j])
        BY <1>5
      <4> HIDE DEF x, y
      <4>2. QED
        BY <1>1, <3>6, <4>1
    <3>19. z[i] = x[c] /\ \A j \in 1..m : j # i => z[j] = y[j]
      <4>1. z[i] = Key(h, g.elements[i]) /\ x[c] = Key(h, el[c])
        BY <1>5, <2>1, <3>1
      <4>2. \A j \in 1..m : z[j] = Key(h, g.elements[j]) /\ y[j] = Key(h, v.elements[j])
        BY <1>5
      <4> HIDE DEF x, y, z
      <4>3. \A j \in 1..m : j # i => g.elements[j] = v.elements[j]
        BY <1>1, <3>12
      <4>4. QED
        BY <3>12, <4>1, <4>2, <4>3
    <3> HIDE DEF x, y, z, m
    <3>20. Ascending(z, m) /\ \A j \in 1..m : x[j] <= z[j]
      <4>1. m \in Nat /\ x \in [1..m -> Int] /\ Ascending(x, m) /\ i \in 1..m
        BY <1>1, <1>3, <1>4
      <4>2. c \in 1..m /\ c \div 2 = i /\ \A j \in 1..m : j \div 2 = i => x[c] <= x[j]
        BY <3>1
      <4>3. Raised(x, y, z, i, c, m)
        BY ONLY <3>17, <3>18, <3>19, <4>1, <4>2 DEF Raised
      <4>4. QED
        BY ONLY <3>14, <4>1, <4>2, <4>3, ComesUp
    <3>21. DownMade(g, h, i, P)
      BY <3>8, <3>11, <3>13, <3>20 DEF DownMade, x, z, m
    <3>22. QED
      BY <3>21 DEF g, m
  <2>4. CASE ~(2 * i <= m /\ Greater(h, e, el[c]))
    <3>1. g = Place(h, i, e)
      BY <2>2, <2>4 DEF DownStep
    <3>2. \A j \in 1..m : j \div 2 = i => Key(h, e) <= x[j]
      <4>1. TAKE j \in 1..m
      <4>2. HAVE j \div 2 = i
      <4>3. 2 * i <= m
        <5>1. j \in Nat /\ j > 0 /\ j <= m
          BY <1>1
        <5>2. j \in {2 * i, 2 * i + 1}
          BY <2>1, <4>2, <5>1, Halves
        <5>3. QED
          BY <1>1, <2>1, <5>1, <5>2
      <4>4. ~(Key(h, e) > Key(h, el[c]))
        BY <1>6, <2>4, <4>3
      <4>5. c \in 1..m /\ x[c] <= x[j]
        BY <1>1, <4>2, <4>3, MinChildLeast
      <4>6. x[c] = Key(h, el[c]) /\ x[c] \in Int /\ x[j] \in Int
        BY <1>3, <1>5, <4>5
      <4> HIDE DEF x, c
      <4>7. QED
        BY <1>4, <4>4, <4>5, <4>6
    <3> HIDE DEF g
    <3>3. Placed(g, h, i, e, P)
      BY <1>4, <2>1, <3>1, PlaceIs
    <3>4. Rearranged(g, h, P) /\ Filled(g, h, i)
      BY <2>1, <3>3, FilledBase DEF Placed
    <3>5. g.elements[i] = e /\ \A j \in 1..n : j # i => g.elements[j] = el[j]
      BY <3>3 DEF Placed
    <3>6. \A j \in 1..n : j < i => g.elements[j] = el[j]
      BY <1>1, <2>1, <3>5
    <3>7. z \in [1..m -> Int]
      BY <3>4, KeysAre
    <3>8. z[i] = Key(h, e) /\ \A j \in 1..m : j # i => z[j] = x[j]
      <4>1. z[i] = Key(h, g.elements[i])
        BY <1>5, <2>1
      <4>2. \A j \in 1..m : z[j] = Key(h, g.elements[j]) /\ x[j] = Key(h, el[j])
        BY <1>5
      <4> HIDE DEF x, z
      <4>3. \A j \in 1..m : j # i => g.elements[j] = el[j]
        BY <1>1, <3>5
      <4>4. QED
        BY <3>5, <4>1, <4>2, <4>3
    <3> HIDE DEF x, z, m
    <3>9. ASSUME x[i] <= Key(h, e) PROVE \A j \in 1..m : x[j] <= z[j]
      <4>1. TAKE j \in 1..m
      <4>2. CASE j = i
        BY <3>8, <3>9, <4>2
      <4>3. CASE j # i
        <5>1. z[j] = x[j] /\ x[j] \in Int
          BY <1>3, <3>8, <4>3
        <5>2. QED
          BY <5>1
      <4>4. QED
        BY <4>2, <4>3
    <3>10. ASSUME i > 1 => x[i \div 2] <= Key(h, e)
           PROVE  Ascending(z, m)
      <4>1. \A j \in 1..m : j \div 2 = i => z[i] <= x[j]
        BY <3>2, <3>8
      <4>2. i > 1 => x[i \div 2] <= z[i]
        BY <3>8, <3>10
      <4>3. m \in Nat /\ i \in 1..m /\ x \in [1..m -> Int] /\ Ascending(x, m)
        BY <1>1, <1>3, <1>4, <2>1
      <4>4. \A j \in 1..m : j # i => z[j] = x[j]
        BY <3>8
      <4>5. QED
        BY ONLY <3>7, <4>1, <4>2, <4>3, <4>4, FitsBetween
    <3>11. DownMade(g, h, i, P)
      BY <3>4, <3>6, <3>9, <3>10 DEF DownMade, x, z, m
    <3>12. QED
      BY <3>11 DEF g, m
  <2>5. QED
    BY <2>3, <2>4
<1>8. ASSUME NEW i \in 1..m, 2 * i <= m
      PROVE  MinChild(h, m, i) \in 1..m /\ MinChild(h, m, i) > i
  BY <1>1, <1>8, MinChildLeast
<1>9. 0 \in T
  <2> SUFFICES ASSUME NEW i \in 1..m, i + 0 >= m
               PROVE  DownMade(ShiftDown(h, m, i, e), h, i, P)
    BY <1>1
  <2>1. ~(2 * i <= m)
    BY <1>1
  <2>2. QED
    BY <1>7, <2>1
<1>10. ASSUME NEW k \in Nat, k \in T PROVE k + 1 \in T
  <2> SUFFICES ASSUME NEW i \in 1..m, i + (k + 1) >= m
               PROVE  DownMade(ShiftDown(h, m, i, e), h, i, P)
    BY <1>1
  <2> DEFINE c == MinChild(h, m, i)
  <2>1. 2 * i <= m => DownMade(ShiftDown(h, m, c, e), h, c, P)
    <3> SUFFICES ASSUME 2 * i <= m PROVE DownMade(ShiftDown(h, m, c, e), h, c, P)
      OBVIOUS
    <3>1. c \in 1..m /\ c > i
      BY <1>8
    <3> HIDE DEF c
    <3>2. c + k >= m
      <4> HIDE DEF m
      <4>1. QED
        BY <1>1, <3>1
    <3>3. QED
      BY <1>10, <3>1, <3>2
  <2>2. QED
    BY <1>7, <2>1
<1>11. m \in T
  BY <1>1, <1>9, <1>10, NatInductionOverSet
<1>12. hole + m >= m /\ hole \in 1..m
  BY <1>1
<1>13. QED
  BY <1>11, <1>12

-----------------------------------------------------------------------------
(* Heaps, and what Push, Pop and Erase make of them.                       *)

AllKeys(h) == [k \in 1..Len(h.elements) |-> Key(h, h.elements[k])]

InPlace(h) == \A k \in 1..Len(h.elements) : h.node[h.elements[k]].heap_index = k

IsHeap(h, P) ==
    h \in HeapOf(P) /\ InPlace(h) /\ Ascending(AllKeys(h), Len(h.elements))

LEMMA HeapIs ==
    ASSUME NEW P, NEW h, IsHeap(h, P)
    PROVE  /\ h \in HeapOf(P) /\ Len(h.elements) \in Nat
           /\ \A k \in 1..Len(h.elements) : h.elements[k] \in P
           /\ Held(h) /\ Ascending(Keys(h, h), Len(h.elements) - 1)
           /\ AllKeys(h) \in [1..Len(h.elements) -> Int]
           /\ Range(h.elements) = {h.elements[k] : k \in 1..Len(h.elements)}
<1> DEFINE n == Len(h.elements)
           el == h.elements
<1>1. h \in HeapOf(P) /\ InPlace(h) /\ Ascending(AllKeys(h), n)
  BY DEF IsHeap
<1>2. el \in Seq(P)
  BY <1>1 DEF HeapOf
<1>3. n \in Nat /\ DOMAIN el = 1..n /\ \A k \in 1..n : el[k] \in P
  BY <1>2
<1>4. Rearranged(h, h, P)
  BY <1>1 DEF Rearranged, Alike
<1>5. \A p \in P : Key(h, p) \in Int
  BY <1>1, <1>4, KeysAre
<1> HIDE DEF n, el
<1>6. AllKeys(h) \in [1..n -> Int]
  BY <1>3, <1>5 DEF AllKeys, n, el
<1>7. \A k \in 1..(n - 1) : k \in 1..n /\ k # n
  BY <1>3
<1>8. n \in 1..n \/ n = 0
  BY <1>3
<1>9. Held(h)
  <2> SUFFICES ASSUME NEW k \in 1..(n - 1)
               PROVE  h.node[el[k]].heap_index = k /\ el[k] # el[n]
    BY DEF Held, n, el
  <2>1. h.node[el[k]].heap_index = k
    BY <1>1, <1>7 DEF InPlace, n, el
  <2>2. n \in 1..n
    BY <1>3
  <2>3. h.node[el[n]].heap_index = n
    BY <1>1, <2>2 DEF InPlace, n, el
  <2>4. QED
    BY <1>7, <2>1, <2>3
<1>10. Ascending(Keys(h, h), n - 1)
  <2> SUFFICES ASSUME NEW j \in 2..(n - 1)
               PROVE  Keys(h, h)[j \div 2] <= Keys(h, h)[j]
    BY DEF Ascending
  <2>1. n - 1 \in Nat
    BY <1>3
  <2>2. j \div 2 \in 1..(n - 1) /\ j \in 1..(n - 1)
    BY <2>1, Parents
  <2>3. j \in 2..n
    BY <1>3
  <2>4. AllKeys(h)[j \div 2] <= AllKeys(h)[j]
    BY <1>1, <2>3 DEF Ascending
  <2>5. \A k \in 1..(n - 1) : Keys(h, h)[k] = AllKeys(h)[k]
    BY <1>7 DEF Keys, AllKeys, n
  <2>6. QED
    BY <2>2, <2>4, <2>5
<1>11. QED
  BY <1>1, <1>3, <1>6, <1>9, <1>10 DEF n, el, Range

(* The last node is in the heap without its place, and the node that was   *)
(* at i is not.                                                            *)
Finished(g, h, i, P) ==
    /\ Rearranged(g, h, P) /\ Filled(g, h, i)
    /\ Ascending(Keys(g, h), Len(h.elements) - 1)

(* What was the last one goes down from i, or stays.                       *)
LEMMA DownFinishes ==
    ASSUME NEW P, NEW h, IsHeap(h, P), NEW i \in 1..Len(h.elements),
           i > 1 => Key(h, h.elements[i \div 2]) <= Key(h, h.elements[Len(h.elements)]),
           NEW g, g = ShiftDown(h, Len(h.elements) - 1, i, h.elements[Len(h.elements)])
    PROVE  Finished(g, h, i, P)
<1> DEFINE n == Len(h.elements)
           el == h.elements
           e == el[n]
<1>1. /\ h \in HeapOf(P) /\ n \in Nat /\ \A k \in 1..n : el[k] \in P
      /\ Held(h) /\ Ascending(Keys(h, h), n - 1)
  BY HeapIs
<1>2. n \in 1..n /\ n > 0 /\ n - 1 \in Nat /\ n - 1 <= n
  BY <1>1
<1>3. CASE i = n
  <2>1. DownStep(h, n - 1, n, e)
    BY <1>1, <1>2, DownSteps
  <2>2. ~(2 * n <= n - 1)
    BY <1>1, <1>2
  <2>3. g = Place(h, n, e)
    BY <1>3, <2>1, <2>2 DEF DownStep
  <2>4. Placed(g, h, i, e, P)
    BY <1>1, <1>2, <1>3, <2>3, PlaceIs
  <2>5. Rearranged(g, h, P) /\ Filled(g, h, i)
    BY <1>1, <2>4, FilledBase DEF Placed
  <2>6. \A j \in 1..(n - 1) : g.elements[j] = el[j]
    BY <1>1, <1>3, <2>4 DEF Placed
  <2>7. Keys(g, h) = Keys(h, h)
    BY <2>6 DEF Keys
  <2>8. QED
    BY <1>1, <2>5, <2>7 DEF Finished
<1>4. CASE i # n
  <2>1. i \in 1..(n - 1)
    BY <1>1, <1>4
  <2>2. DownMade(g, h, i, P)
    BY <1>1, <2>1, DownIs
  <2>3. i > 1 => Keys(h, h)[i \div 2] <= Key(h, e)
    <3> SUFFICES ASSUME i > 1 PROVE Keys(h, h)[i \div 2] <= Key(h, e)
      OBVIOUS
    <3>1. i \in 2..(n - 1)
      BY <1>1, <2>1
    <3>2. i \div 2 \in 1..(n - 1)
      BY <1>2, <3>1, Parents
    <3>3. Keys(h, h)[i \div 2] = Key(h, el[i \div 2])
      BY <3>2 DEF Keys
    <3>4. QED
      BY <3>3
  <2>4. QED
    BY <2>2, <2>3 DEF DownMade, Finished
<1>5. QED
  BY <1>3, <1>4

(* What was the last one goes up from below one that is greater.           *)
LEMMA UpFinishes ==
    ASSUME NEW P, NEW h, IsHeap(h, P), NEW i \in 1..Len(h.elements), i > 1,
           Greater(h, h.elements[i \div 2], h.elements[Len(h.elements)]),
           NEW g, g = ShiftUpUnconditional(h, i, h.elements[Len(h.elements)])
    PROVE  Finished(g, h, i, P)
<1> DEFINE n == Len(h.elements)
           el == h.elements
           e == el[n]
           x == Keys(h, h)
           m == n - 1
<1>1. /\ h \in HeapOf(P) /\ n \in Nat /\ \A k \in 1..n : el[k] \in P
      /\ Held(h) /\ Ascending(x, m) /\ AllKeys(h) \in [1..n -> Int]
  BY HeapIs
<1>2. Ascending(AllKeys(h), n)
  BY DEF IsHeap
<1>3. i \in 2..n
  BY <1>1
<1>4. i \div 2 \in 1..n /\ i \div 2 < i /\ i \div 2 \in Nat
  BY <1>1, <1>3, Parents
<1>5. \A k \in 1..n : AllKeys(h)[k] = Key(h, el[k]) /\ Key(h, el[k]) \in Int
  BY <1>1 DEF AllKeys
<1>6. Key(h, el[i \div 2]) > Key(h, e)
  BY DEF Greater, Key
<1>7. i # n
  <2>1. AllKeys(h)[i \div 2] <= AllKeys(h)[i]
    BY <1>2, <1>3 DEF Ascending
  <2>2. Key(h, el[i \div 2]) <= Key(h, el[i])
    BY <1>4, <1>5, <2>1
  <2> DEFINE a == Key(h, el[i \div 2])
             b == Key(h, el[i])
  <2>3. a \in Int /\ b \in Int
    BY <1>4, <1>5
  <2>4. i = n => a > b
    BY <1>6
  <2>5. a <= b
    BY <2>2
  <2> HIDE DEF a, b
  <2>6. QED
    BY <2>3, <2>4, <2>5
<1>8. i \in 1..m /\ m \in Nat /\ i \in 2..m
  BY <1>1, <1>3, <1>7
<1>9. UpStep(h, i, e)
  BY <1>1, UpSteps
<1>10. g = ShiftUp(h, i, e)
  BY <1>9 DEF UpStep, ShiftUpUnconditional
<1>11. UpMade(g, h, i, P)
  BY <1>1, <1>8, <1>10, UpIs
<1>12. \A c \in 1..m : c \div 2 = i => Key(h, e) <= x[c]
  <2>1. TAKE c \in 1..m
  <2>2. HAVE c \div 2 = i
  <2>3. c \in Nat /\ c > 0
    BY <1>1
  <2>4. c \in {2 * i, 2 * i + 1}
    BY <2>2, <2>3, Halves
  <2>5. c \in 2..m
    BY <1>8, <2>3, <2>4
  <2>6. i \div 2 \in 1..m
    BY <1>8, Parents
  <2>7. x[i \div 2] <= x[i] /\ x[i] <= x[c]
    BY <1>1, <1>8, <2>2, <2>5 DEF Ascending
  <2>8. \A k \in 1..m : k \in 1..n /\ x[k] = Key(h, el[k])
    BY <1>1 DEF Keys
  <2>9. x[i \div 2] > Key(h, e)
    BY <1>6, <2>6, <2>8
  <2>10. /\ x[i \div 2] \in Int /\ x[i] \in Int /\ x[c] \in Int
    BY <1>5, <1>8, <2>6, <2>8
  <2>11. Key(h, e) \in Int
    <3>1. n \in 1..n
      BY <1>1, <1>8
    <3>2. QED
      BY <1>5, <3>1
  <2>12. PICK a \in Int, b \in Int, d \in Int, k \in Int :
             a = x[i \div 2] /\ b = x[i] /\ d = x[c] /\ k = Key(h, e)
    BY <2>10, <2>11
  <2>13. a <= b /\ b <= d /\ a > k
    BY <2>7, <2>9, <2>12
  <2>14. k <= d
    BY <2>13
  <2>15. QED
    BY <2>12, <2>14
<1>13. QED
  BY <1>11, <1>12 DEF UpMade, Finished

(* What a heap is after a call: which nodes are in it, and nothing else    *)
(* of the nodes has changed.                                               *)
Becomes(g, h, in, P) ==
    /\ IsHeap(g, P) /\ Range(g.elements) = in
    /\ \A p \in P : Alike(g.node[p], h.node[p])

(* The last place is given up, and the node that was at i is out.          *)
LEMMA ShrunkIs ==
    ASSUME NEW P, NEW h, IsHeap(h, P), NEW i \in 1..Len(h.elements),
           NEW g, Finished(g, h, i, P)
    PROVE  Becomes(Shrunk(g, h.elements[i]), h, Range(h.elements) \ {h.elements[i]}, P)
<1> DEFINE n == Len(h.elements)
           el == h.elements
           e == el[i]
           m == n - 1
           s == Shrunk(g, e)
           out == [g.node[e] EXCEPT !.heap_index = 0]
           short == SubSeq(g.elements, 1, Len(g.elements) - 1)
           nodes == [g.node EXCEPT ![e] = out]
<1>1. /\ h \in HeapOf(P) /\ n \in Nat /\ (\A k \in 1..n : el[k] \in P) /\ Held(h)
      /\ Range(el) = {el[k] : k \in 1..n}
  BY HeapIs
<1>2. \A j, k \in 1..n : el[j] = el[k] => j = k
  BY <1>1, HeldIs
<1>3. /\ g \in HeapOf(P) /\ Len(g.elements) = n /\ g.elements \in Seq(P)
      /\ g.node \in [P -> NodeType] /\ m \in Nat
      /\ \A p \in P : Alike(g.node[p], h.node[p])
  BY <1>1 DEF Finished, Rearranged, HeapOf
<1>4. e \in P
  BY <1>1
<1>5. s = [g EXCEPT !.elements = short, !.node = nodes]
  BY <1>3 DEF Shrunk, HeapOf
<1>6. out \in NodeType /\ Alike(out, g.node[e])
  <2>1. g.node[e] \in NodeType
    BY <1>3, <1>4
  <2>2. QED
    BY <2>1 DEF NodeType, Alike
<1>7. short \in Seq(P) /\ Len(short) = m /\ \A j \in 1..m : short[j] = g.elements[j]
  BY <1>1, <1>3
<1> HIDE DEF out, short, el, n, e, m, s
<1>8. /\ nodes \in [P -> NodeType] /\ nodes[e] = out
      /\ \A p \in P : p # e => nodes[p] = g.node[p]
  BY <1>3, <1>4, <1>6
<1> HIDE DEF nodes
<1>9. s \in HeapOf(P) /\ s.elements = short /\ s.node = nodes
  BY <1>3, <1>5, <1>7, <1>8 DEF HeapOf
<1>10. \A p \in P : Alike(s.node[p], h.node[p])
  <2>1. TAKE p \in P
  <2>2. Alike(s.node[p], g.node[p])
    BY <1>6, <1>8, <1>9 DEF Alike
  <2>3. Alike(g.node[p], h.node[p])
    BY <1>3
  <2>4. QED
    BY <2>2, <2>3 DEF Alike
<1>11. \A j \in 1..m : /\ g.node[g.elements[j]].heap_index = j
                       /\ \E k \in 1..n : k # i /\ g.elements[j] = el[k]
  BY DEF Finished, Filled, FromOthers, n, el, m
<1>12. i \in 1..n
  BY DEF n
<1>13. ASSUME NEW j \in 1..m
       PROVE  /\ short[j] = g.elements[j] /\ short[j] \in Range(el) \ {e}
              /\ s.node[short[j]].heap_index = j /\ short[j] \in P
  <2>1. PICK k \in 1..n : k # i /\ g.elements[j] = el[k]
    BY <1>11
  <2>2. el[k] # e /\ el[k] \in P /\ el[k] \in Range(el)
    BY <1>1, <1>2, <1>12, <2>1 DEF e
  <2>3. QED
    BY <1>7, <1>8, <1>9, <1>11, <2>1, <2>2
<1>14. ASSUME NEW p \in Range(el) \ {e} PROVE p \in {short[j] : j \in 1..m}
  <2>1. PICK k \in 1..n : p = el[k]
    BY <1>1
  <2>2. k # i
    BY <2>1 DEF e
  <2>3. PICK j \in 1..m : g.elements[j] = el[k]
    BY <2>2 DEF Finished, Filled, OthersIn, n, el, m
  <2>4. QED
    BY <1>7, <2>1, <2>3
<1>15. DOMAIN short = 1..m
  BY <1>7
<1>16. Range(short) = {short[j] : j \in 1..m}
  BY <1>15 DEF Range
<1>17. Range(short) = Range(el) \ {e}
  BY <1>13, <1>14, <1>16
<1>18. InPlace(s)
  BY <1>7, <1>9, <1>13 DEF InPlace
<1>19. Ascending(AllKeys(s), m)
  <2> SUFFICES ASSUME NEW j \in 2..m PROVE AllKeys(s)[j \div 2] <= AllKeys(s)[j]
    BY DEF Ascending
  <2>1. j \div 2 \in 1..m /\ j \in 1..m
    BY <1>3, Parents
  <2>2. Keys(g, h)[j \div 2] <= Keys(g, h)[j]
    BY DEF Finished, Ascending, m, n
  <2>3. \A k \in 1..m : AllKeys(s)[k] = Keys(g, h)[k]
    <3>1. TAKE k \in 1..m
    <3>2. AllKeys(s)[k] = Key(s, short[k])
      BY <1>7, <1>9 DEF AllKeys
    <3>3. Keys(g, h)[k] = Key(h, short[k])
      BY <1>7 DEF Keys, m, n
    <3>4. Key(s, short[k]) = Key(h, short[k])
      BY <1>10, <1>13 DEF Alike, Key
    <3>5. QED
      BY <3>2, <3>3, <3>4
  <2>4. QED
    BY <2>1, <2>2, <2>3
<1>20. IsHeap(s, P)
  BY <1>7, <1>9, <1>18, <1>19 DEF IsHeap
<1>21. QED
  BY <1>9, <1>10, <1>17, <1>20 DEF Becomes, el, e, s

LEMMA PopIs ==
    ASSUME NEW P, NEW h, IsHeap(h, P), h.elements # <<>>
    PROVE  Becomes(Pop(h), h, Range(h.elements) \ {h.elements[1]}, P)
<1> DEFINE n == Len(h.elements)
           g == ShiftDown(h, n - 1, 1, h.elements[n])
<1>1. n \in Nat /\ h.elements \in Seq(P)
  BY HeapIs DEF HeapOf
<1>2. 1 \in 1..n
  BY <1>1
<1>3. Finished(g, h, 1, P)
  BY <1>2, DownFinishes
<1>4. Pop(h) = Shrunk(g, h.elements[1])
  BY DEF Pop
<1> HIDE DEF g
<1>5. QED
  BY <1>2, <1>3, <1>4, ShrunkIs

LEMMA EraseIs ==
    ASSUME NEW P, NEW h, IsHeap(h, P), NEW e \in Range(h.elements)
    PROVE  Becomes(Erase(h, e), h, Range(h.elements) \ {e}, P)
<1> DEFINE n == Len(h.elements)
           el == h.elements
           last == el[n]
<1>1. n \in Nat /\ Range(el) = {el[k] : k \in 1..n} /\ AllKeys(h) \in [1..n -> Int]
  BY HeapIs
<1>2. PICK i \in 1..n : e = el[i]
  BY <1>1
<1>3. h.node[e].heap_index = i
  BY <1>2 DEF IsHeap, InPlace
<1>4. i \in Nat /\ i # 0 /\ n \in 1..n
  BY <1>1
<1>5. CASE i > 1 /\ Greater(h, el[i \div 2], last)
  <2> DEFINE g == ShiftUpUnconditional(h, i, last)
  <2>1. Finished(g, h, i, P)
    BY <1>5, UpFinishes
  <2>2. Erase(h, e) = Shrunk(g, el[i])
    BY <1>2, <1>3, <1>4, <1>5 DEF Erase
  <2> HIDE DEF g
  <2>3. QED
    BY <1>2, <2>1, <2>2, ShrunkIs
<1>6. CASE ~(i > 1 /\ Greater(h, el[i \div 2], last))
  <2> DEFINE g == ShiftDown(h, n - 1, i, last)
  <2>1. i > 1 => Key(h, el[i \div 2]) <= Key(h, last)
    <3> SUFFICES ASSUME i > 1 PROVE Key(h, el[i \div 2]) <= Key(h, last)
      OBVIOUS
    <3>1. i \in 2..n
      BY <1>1, <1>4
    <3>2. i \div 2 \in 1..n
      BY <1>1, <3>1, Parents
    <3>3. \A k \in 1..n : Key(h, el[k]) \in Int
      BY <1>1 DEF AllKeys
    <3> DEFINE a == Key(h, el[i \div 2])
               b == Key(h, last)
    <3>4. a \in Int /\ b \in Int
      BY <1>4, <3>2, <3>3
    <3>5. ~(a > b)
      BY <1>6 DEF Greater, Key
    <3> HIDE DEF a, b
    <3>6. a <= b
      BY <3>4, <3>5
    <3>7. QED
      BY <3>6 DEF a, b
  <2>2. Finished(g, h, i, P)
    BY <2>1, DownFinishes
  <2>3. Erase(h, e) = Shrunk(g, el[i])
    BY <1>2, <1>3, <1>4, <1>6 DEF Erase
  <2> HIDE DEF g
  <2>4. QED
    BY <1>2, <2>2, <2>3, ShrunkIs
<1>7. QED
  BY <1>5, <1>6

(* A node that is not in the heap goes up from the new last place.         *)
LEMMA PushIs ==
    ASSUME NEW P, NEW h, IsHeap(h, P), NEW e \in P, e \notin Range(h.elements)
    PROVE  Becomes(Push(h, e), h, Range(h.elements) \cup {e}, P)
<1> DEFINE el == Append(h.elements, e)
           b == [h EXCEPT !.elements = el]
           n == Len(el)
           m == n - 1
           g == Push(h, e)
           x == Keys(b, b)
           key == Key(b, e)
<1>1. /\ h \in HeapOf(P) /\ Len(h.elements) \in Nat /\ Held(h)
      /\ \A k \in 1..Len(h.elements) : h.elements[k] \in P
      /\ Range(h.elements) = {h.elements[k] : k \in 1..Len(h.elements)}
      /\ AllKeys(h) \in [1..Len(h.elements) -> Int]
  BY HeapIs
<1>2. h.elements \in Seq(P)
  BY <1>1 DEF HeapOf
<1>3. /\ el \in Seq(P) /\ n = Len(h.elements) + 1 /\ el[n] = e
      /\ \A k \in 1..Len(h.elements) : el[k] = h.elements[k]
  BY <1>2, AppendProperties
<1>4. m = Len(h.elements) /\ m \in Nat /\ n \in Nat /\ n \in 1..n
  BY <1>1, <1>3
<1>5. g = ShiftUp(b, n, e)
  BY <1>3 DEF Push
<1> HIDE DEF el, m, n, g
<1>6. b \in HeapOf(P) /\ b.elements = el /\ b.node = h.node
  BY <1>1, <1>3 DEF HeapOf
<1> HIDE DEF b
<1>7. \A k \in 1..m : el[k] = h.elements[k] /\ el[k] # e /\ el[k] \in P /\ k \in 1..n
  BY <1>1, <1>3, <1>4
<1>8. Held(b)
  <2> SUFFICES ASSUME NEW k \in 1..m PROVE b.node[el[k]].heap_index = k /\ el[k] # el[n]
    BY <1>6 DEF Held, m, n
  <2>1. h.node[h.elements[k]].heap_index = k
    BY <1>4 DEF IsHeap, InPlace
  <2>2. QED
    BY <1>3, <1>6, <1>7, <2>1
<1>9. \A p \in P : Key(b, p) \in Int
  <2>1. Rearranged(b, b, P)
    BY <1>6 DEF Rearranged, Alike
  <2>2. QED
    BY <1>6, <2>1, KeysAre
<1>10. x = AllKeys(h)
  <2>1. \A k \in 1..m : Key(b, el[k]) = Key(h, h.elements[k])
    BY <1>6, <1>7 DEF Key
  <2>2. x = [k \in 1..m |-> Key(b, el[k])]
    BY <1>6 DEF Keys, m, n
  <2>3. AllKeys(h) = [k \in 1..m |-> Key(h, h.elements[k])]
    BY <1>4 DEF AllKeys
  <2>4. QED
    BY <2>1, <2>2, <2>3
<1>11. Ascending(x, m) /\ x \in [1..m -> Int] /\ key \in Int
  BY <1>1, <1>4, <1>9, <1>10 DEF IsHeap
<1>12. \A k \in 1..m : x[k] = Key(b, el[k])
  BY <1>6 DEF Keys, m, n
<1> DEFINE par == n \div 2
<1>13. UpStep(b, n, e)
  <2>1. n \in 1..Len(b.elements)
    BY <1>4, <1>6 DEF n
  <2>2. QED
    BY <1>6, <2>1, UpSteps
<1>14. n > 1 => n \in 2..n /\ par \in 1..m /\ par \in 1..n /\ par # n /\ par < n
  BY <1>4, Parents DEF m
<1> DEFINE Right == /\ Rearranged(g, b, P)
                    /\ \A j \in 1..n : g.node[g.elements[j]].heap_index = j
                    /\ \A j \in 1..n : \E k \in 1..n : g.elements[j] = el[k]
                    /\ \A k \in 1..n : \E j \in 1..n : g.elements[j] = el[k]
                    /\ \A j \in 2..n : Key(b, g.elements[j \div 2]) <= Key(b, g.elements[j])
<1> HIDE DEF Right
<1>15. ASSUME n > 1 /\ Greater(b, el[par], e) PROVE Right
  <2> DEFINE v == ShiftUp(b, par, e)
             y == Keys(v, b)
             a == el[par]
  <2>1. g = Place(v, n, a)
    BY <1>5, <1>6, <1>13, <1>15 DEF UpStep
  <2>2. UpMade(v, b, par, P)
    BY <1>3, <1>6, <1>8, <1>11, <1>14, <1>15, UpIs DEF m, n
  <2> HIDE DEF v, par
  <2>3. par \in 1..m /\ par \in 1..n /\ par # n /\ par < n
    BY <1>14, <1>15
  <2>4. a \in P /\ a # e
    BY <1>7, <2>3
  <2>5. /\ Rearranged(v, b, P)
        /\ \A j \in 1..m : /\ v.node[v.elements[j]].heap_index = j
                           /\ \E k \in 1..n : k # par /\ v.elements[j] = el[k]
        /\ \A k \in 1..n :
              k # par => /\ v.node[el[k]].heap_index \in 1..m
                         /\ v.elements[v.node[el[k]].heap_index] = el[k]
        /\ key <= x[par] => y[par] <= x[par]
        /\ (\A c \in 1..m : c \div 2 = par => key <= x[c]) => Ascending(y, m)
    BY <1>3, <1>6, <2>2 DEF UpMade, Filled, FromOthers, OthersIn, m, n
  <2>6. Rearranged(g, b, P) /\ Placed(g, v, n, a, P)
    BY <1>4, <1>6, <2>1, <2>4, <2>5, PlaceKeeps DEF n
  <2>7. Len(v.elements) = n
    BY <1>6, <2>5 DEF Rearranged, n
  <2>8. /\ g.elements[n] = a /\ g.node[a].heap_index = n
        /\ \A j \in 1..n : j # n => g.elements[j] = v.elements[j]
        /\ \A p \in P : p # a => g.node[p] = v.node[p]
    BY <2>6, <2>7 DEF Placed
  <2>9. \A j \in 1..n : j = n \/ (j \in 1..m /\ j # n)
    BY <1>4 DEF m
  <2>10. \A j, k \in 1..n : el[j] = el[k] => j = k
    BY <1>6, <1>8, HeldIs DEF n
  <2>11. \A j \in 1..m : j \in 1..n /\ j # n
    BY <1>4, <1>7 DEF m
  <2>12. ASSUME NEW j \in 1..m
         PROVE  /\ g.node[g.elements[j]].heap_index = j
                /\ g.elements[j] = v.elements[j]
                /\ \E k \in 1..n : g.elements[j] = el[k]
    <3>1. PICK k \in 1..n : k # par /\ v.elements[j] = el[k]
      BY <2>5
    <3>2. el[k] # a /\ el[k] \in P
      BY <1>3, <1>7, <2>3, <2>9, <2>10, <3>1
    <3>3. QED
      BY <2>5, <2>8, <2>11, <3>1, <3>2
  <2>13. \A j \in 1..n : /\ g.node[g.elements[j]].heap_index = j
                         /\ \E k \in 1..n : g.elements[j] = el[k]
    BY <2>3, <2>8, <2>9, <2>12
  <2>14. ASSUME NEW k \in 1..n PROVE \E j \in 1..n : g.elements[j] = el[k]
    <3>1. CASE k = par
      BY <1>4, <2>8, <3>1
    <3>2. CASE k # par
      <4>1. PICK j \in 1..m : v.elements[j] = el[k]
        BY <2>5, <3>2
      <4>2. QED
        BY <2>8, <2>11, <4>1
    <3>3. QED
      BY <3>1, <3>2
  <2>15. x[par] > key /\ x[par] \in Int /\ x[par] = Key(b, a)
    <3>1. Key(b, a) > key
      BY <1>15 DEF Greater, Key, par
    <3>2. QED
      BY <1>11, <1>12, <2>3, <3>1
  <2> HIDE DEF x, y, key
  <2>16. \A c \in 1..m : c \div 2 = par => key <= x[c]
    <3>1. TAKE c \in 1..m
    <3>2. HAVE c \div 2 = par
    <3>3. c \in 2..m
      <4>1. c \in Nat /\ c > 0 /\ par \in Nat /\ par > 0
        BY <1>4, <2>3
      <4>2. c \in {2 * par, 2 * par + 1}
        BY <3>2, <4>1, Halves
      <4>3. QED
        BY <1>4, <4>1, <4>2
    <3>4. x[par] <= x[c]
      BY <1>11, <3>2, <3>3 DEF Ascending
    <3>5. x[c] \in Int
      BY <1>11
    <3>6. QED
      BY <1>11, <2>15, <3>4, <3>5
  <2>17. Ascending(y, m) /\ y[par] <= x[par]
    BY <1>11, <2>5, <2>15, <2>16
  <2>18. \A j \in 1..m : y[j] = Key(b, v.elements[j])
    BY <1>6 DEF y, Keys, m, n
  <2>19. ASSUME NEW j \in 2..n PROVE Key(b, g.elements[j \div 2]) <= Key(b, g.elements[j])
    <3>1. j \div 2 \in 1..n /\ j \div 2 < j /\ j \in 1..n /\ j \in Nat
      BY <1>4, Parents
    <3>2. CASE j = n
      <4>1. j \div 2 = par
        BY <3>2 DEF par
      <4>2. QED
        BY <2>3, <2>8, <2>12, <2>15, <2>17, <2>18, <3>2, <4>1
    <3>3. CASE j # n
      <4>1. j \in 2..m /\ j \in 1..m
        BY <2>9, <3>1, <3>3
      <4>2. j \div 2 \in 1..m
        BY <1>4, <4>1, Parents
      <4>3. y[j \div 2] <= y[j]
        BY <2>17, <4>1 DEF Ascending
      <4>4. QED
        BY <2>12, <2>18, <4>1, <4>2, <4>3
    <3>4. QED
      BY <3>2, <3>3
  <2>20. /\ \A j \in 1..n : g.node[g.elements[j]].heap_index = j
         /\ \A j \in 1..n : \E k \in 1..n : g.elements[j] = el[k]
         /\ \A k \in 1..n : \E j \in 1..n : g.elements[j] = el[k]
    BY <2>13, <2>14
  <2>21. \A j \in 2..n : Key(b, g.elements[j \div 2]) <= Key(b, g.elements[j])
    BY <2>19
  <2>22. QED
    BY ONLY <2>6, <2>20, <2>21 DEF Right
<1>16. ASSUME ~(n > 1 /\ Greater(b, el[par], e)) PROVE Right
  <2>1. g = Place(b, n, e)
    BY <1>5, <1>6, <1>13, <1>16 DEF UpStep
  <2>2. Placed(g, b, n, e, P)
    BY <1>4, <1>6, <2>1, PlaceIs DEF n
  <2>3. /\ Rearranged(g, b, P) /\ g.elements[n] = e /\ g.node[e].heap_index = n
        /\ \A j \in 1..n : j # n => g.elements[j] = el[j]
        /\ \A p \in P : p # e => g.node[p] = h.node[p]
    BY <1>6, <2>2 DEF Placed, n
  <2>4. \A j \in 1..n : j = n \/ (j \in 1..m /\ j # n)
    BY <1>4 DEF m
  <2>5. \A j \in 1..n : g.elements[j] = el[j]
    BY <1>3, <2>3
  <2>6. \A j \in 1..m : h.node[el[j]].heap_index = j
    BY <1>4, <1>7 DEF IsHeap, InPlace
  <2>7. \A j \in 1..n : g.node[el[j]].heap_index = j
    BY <1>3, <1>7, <2>3, <2>4, <2>6
  <2>8. ASSUME NEW j \in 2..n PROVE Key(b, el[j \div 2]) <= Key(b, el[j])
    <3>1. j \div 2 \in 1..n /\ j \div 2 < j /\ j \in 1..n /\ j \in Nat
      BY <1>4, Parents
    <3>2. CASE j = n
      <4>1. n > 1
        BY <3>2
      <4>2. par \in 1..m
        BY <1>14, <4>1
      <4> DEFINE a == Key(b, el[par])
      <4>3. ~(a > key) /\ a \in Int
        <5>1. el[par] \in P
          BY <1>7, <4>2
        <5>2. QED
          BY <1>9, <1>16, <4>1, <5>1 DEF Greater, Key
      <4> HIDE DEF a
      <4>4. a <= key
        BY <1>11, <4>3
      <4>5. QED
        BY <1>3, <3>2, <4>4 DEF a
    <3>3. CASE j # n
      <4>1. j \in 2..m /\ j \in 1..m
        BY <2>4, <3>1, <3>3
      <4>2. j \div 2 \in 1..m
        BY <1>4, <4>1, Parents
      <4>3. x[j \div 2] <= x[j]
        BY <1>11, <4>1 DEF Ascending
      <4>4. QED
        BY <1>12, <4>1, <4>2, <4>3
    <3>4. QED
      BY <3>2, <3>3
  <2>9. \A j \in 2..n : j \in 1..n /\ j \div 2 \in 1..n
    BY <1>4, Parents
  <2>10. \A j \in 2..n : Key(b, g.elements[j \div 2]) <= Key(b, g.elements[j])
    BY <2>5, <2>8, <2>9
  <2>11. /\ \A j \in 1..n : g.node[g.elements[j]].heap_index = j
         /\ \A j \in 1..n : \E k \in 1..n : g.elements[j] = el[k]
         /\ \A k \in 1..n : \E j \in 1..n : g.elements[j] = el[k]
    BY <2>5, <2>7
  <2>12. QED
    BY ONLY <2>3, <2>10, <2>11 DEF Right
<1>17. Right
  BY <1>15, <1>16
<1>18. /\ g \in HeapOf(P) /\ Len(g.elements) = n /\ g.elements \in Seq(P)
       /\ \A p \in P : Alike(g.node[p], h.node[p])
  BY <1>6, <1>17 DEF Right, Rearranged, HeapOf, n
<1>19. DOMAIN g.elements = 1..n
  BY <1>18
<1>20. Range(g.elements) = {g.elements[j] : j \in 1..n}
  BY <1>19 DEF Range
<1>21. {g.elements[j] : j \in 1..n} = {el[k] : k \in 1..n}
  <2>1. /\ \A j \in 1..n : \E k \in 1..n : g.elements[j] = el[k]
        /\ \A k \in 1..n : \E j \in 1..n : g.elements[j] = el[k]
    BY <1>17 DEF Right
  <2>2. QED
    BY ONLY <2>1
<1>22. {el[k] : k \in 1..n} = Range(h.elements) \cup {e}
  <2>1. \A k \in 1..n : k = n \/ k \in 1..m
    BY <1>4 DEF m
  <2>2. Range(h.elements) = {h.elements[k] : k \in 1..m}
    BY <1>1, <1>4
  <2>3. QED
    BY <1>3, <1>4, <1>7, <2>1, <2>2
<1>23. InPlace(g)
  BY <1>17, <1>18 DEF Right, InPlace
<1>24. Ascending(AllKeys(g), n)
  <2> SUFFICES ASSUME NEW j \in 2..n PROVE AllKeys(g)[j \div 2] <= AllKeys(g)[j]
    BY DEF Ascending
  <2>1. j \div 2 \in 1..n /\ j \in 1..n
    BY <1>4, Parents
  <2>2. \A k \in 1..n : AllKeys(g)[k] = Key(b, g.elements[k])
    <3>1. TAKE k \in 1..n
    <3>2. AllKeys(g)[k] = Key(g, g.elements[k])
      BY <1>18 DEF AllKeys
    <3>3. g.elements[k] \in P
      BY <1>18
    <3>4. Key(g, g.elements[k]) = Key(b, g.elements[k])
      BY <1>6, <1>18, <3>3 DEF Key, Alike
    <3>5. QED
      BY <3>2, <3>4
  <2>3. QED
    BY <1>17, <2>1, <2>2 DEF Right
<1>25. QED
  BY <1>18, <1>20, <1>21, <1>22, <1>23, <1>24 DEF Becomes, IsHeap, g

(* The first node of a heap is due first.                                  *)
LEMMA RootLeast ==
    ASSUME NEW P, NEW h, IsHeap(h, P), NEW k \in 1..Len(h.elements)
    PROVE  Key(h, h.elements[1]) <= Key(h, h.elements[k])
<1> DEFINE n == Len(h.elements)
           x == AllKeys(h)
           T == {i \in Nat : \A j \in 1..n : j <= i => x[1] <= x[j]}
<1>1. n \in Nat /\ x \in [1..n -> Int] /\ Ascending(x, n)
  BY HeapIs DEF IsHeap
<1>2. 0 \in T
  OBVIOUS
<1>3. ASSUME NEW i \in Nat, i \in T PROVE i + 1 \in T
  <2> HIDE DEF x, n
  <2> SUFFICES ASSUME i + 1 \in 1..n PROVE x[1] <= x[i + 1]
    BY <1>3
  <2> DEFINE j == i + 1
  <2>1. CASE i = 0
    BY <1>1, <2>1
  <2>2. CASE i # 0
    <3>1. j \in 2..n
      BY <2>2
    <3>2. j \div 2 \in 1..n /\ j \div 2 < j /\ j \in 1..n
      BY <1>1, <3>1, Parents
    <3>3. x[j \div 2] <= x[j]
      BY <1>1, <3>1 DEF Ascending
    <3> DEFINE half == j \div 2
    <3> HIDE DEF half
    <3>4. half \in 1..n /\ half <= i
      BY <3>2 DEF half
    <3>5. x[1] <= x[half]
      BY <1>3, <3>4
    <3>6. 1 \in 1..n
      BY <1>1, <3>4
    <3>7. PICK a \in Int, b \in Int, d \in Int : a = x[1] /\ b = x[half] /\ d = x[j]
      BY <1>1, <3>2, <3>4, <3>6
    <3>8. a <= b /\ b <= d
      BY <3>3, <3>5, <3>7 DEF half
    <3>9. a <= d
      BY <3>8
    <3>10. QED
      BY <3>7, <3>9
  <2>3. QED
    BY <2>1, <2>2
<1>4. n \in T
  BY <1>1, <1>2, <1>3, NatInductionOverSet
<1>5. k \in 1..n /\ 1 \in 1..n /\ k <= n
  BY <1>1
<1>6. x[1] <= x[k]
  BY <1>4, <1>5
<1>7. QED
  BY <1>5, <1>6 DEF AllKeys

-----------------------------------------------------------------------------
(* The timer's invariant.                                                  *)

(* The nodes of a heap are those of M, every other node is in the pool, in *)
(* one place of it, and no node has been given no loop.                    *)
Sound(heap, pool, M) ==
    LET P == DOMAIN heap.node
    IN  /\ IsFiniteSet(P) /\ IsHeap(heap, P) /\ Range(heap.elements) = M
        /\ \A p \in P : heap.node[p].loop # 0
        /\ pool \in Seq(P) /\ IsInjective(pool) /\ Range(pool) = P \ M

(* The nodes of the map have its ids.                                      *)
Mapped(map, nodes) ==
    /\ map = [id \in DOMAIN map |-> map[id]] /\ IsInjective(map)
    /\ DOMAIN map \subseteq Nat \ {0}
    /\ \A id \in DOMAIN map : nodes[map[id]].id = id

Accounted == Sound(Heap, m_pool, Range(m_map)) /\ Mapped(m_map, node)

(* Clear has left pointers in the heap, and nothing else.                  *)
Cleared == Range(m_heap) # {} /\ DOMAIN node = {} /\ m_map = <<>> /\ m_pool = <<>>

IInv ==
    /\ m_cur_time \in Int /\ m_max_id \in Nat /\ limit \in Limits
    /\ Accounted \/ Cleared

-----------------------------------------------------------------------------
(* What the calls are made of.                                             *)

(* The heap, when nodes outside of it come and go.                         *)
LEMMA HeapWithin ==
    ASSUME NEW P, NEW h, IsHeap(h, P), NEW Q, NEW nodes \in [Q -> NodeType],
           Range(h.elements) \subseteq Q, \A q \in Range(h.elements) : nodes[q] = h.node[q]
    PROVE  IsHeap([elements |-> h.elements, node |-> nodes], Q)
<1> DEFINE g == [elements |-> h.elements, node |-> nodes]
           n == Len(h.elements)
           el == h.elements
<1>1. /\ n \in Nat /\ h \in HeapOf(P) /\ Range(el) = {el[k] : k \in 1..n}
      /\ AllKeys(h) \in [1..n -> Int]
  BY HeapIs
<1>2. g.elements = el /\ g.node = nodes
  OBVIOUS
<1>3. el \in Seq(P)
  BY <1>1 DEF HeapOf
<1>4. DOMAIN el = 1..n /\ el = [k \in 1..n |-> el[k]]
  BY <1>3
<1>5. \A k \in 1..n : el[k] \in Q /\ nodes[el[k]] = h.node[el[k]]
  BY <1>1
<1>6. el \in Seq(Q)
  <2> HIDE DEF el, n
  <2>1. el \in [1..n -> Q]
    BY <1>4, <1>5
  <2>2. QED
    BY <1>1, <2>1, FunctionIsSeq
<1>7. g \in HeapOf(Q)
  BY <1>6 DEF HeapOf
<1> HIDE DEF g
<1>8. InPlace(g)
  BY <1>2, <1>5 DEF InPlace, IsHeap
<1>9. AllKeys(g) = AllKeys(h)
  BY <1>2, <1>5 DEF AllKeys, Key
<1>10. Ascending(AllKeys(g), n)
  BY <1>9 DEF IsHeap
<1>11. QED
  BY <1>2, <1>7, <1>8, <1>10 DEF IsHeap, g

(* A sequence of what it has.                                              *)
LEMMA SeqWithin ==
    ASSUME NEW P, NEW s \in Seq(P), NEW Q, Range(s) \subseteq Q
    PROVE  s \in Seq(Q)
<1>1. Len(s) \in Nat /\ DOMAIN s = 1..Len(s) /\ s = [k \in 1..Len(s) |-> s[k]]
  OBVIOUS
<1>2. \A k \in 1..Len(s) : s[k] \in Q
  BY <1>1 DEF Range
<1>3. s \in [1..Len(s) -> Q]
  BY <1>1, <1>2
<1>4. QED
  BY <1>1, <1>3, FunctionIsSeq

(* A node is taken from the end of the pool.                               *)
LEMMA TakenFromPool ==
    ASSUME NEW P, NEW pool \in Seq(P), IsInjective(pool), pool # <<>>
    PROVE  LET p == pool[Len(pool)]
               rest == SubSeq(pool, 1, Len(pool) - 1)
           IN  /\ p \in Range(pool) /\ rest \in Seq(P) /\ IsInjective(rest)
               /\ Range(rest) = Range(pool) \ {p}
<1> DEFINE n == Len(pool)
           p == pool[n]
           rest == SubSeq(pool, 1, n - 1)
<1>1. n \in Nat /\ n > 0 /\ DOMAIN pool = 1..n /\ n \in 1..n
  OBVIOUS
<1>2. /\ rest \in Seq(P) /\ Len(rest) = n - 1
      /\ \A k \in 1..(n - 1) : rest[k] = pool[k]
  BY <1>1
<1>3. DOMAIN rest = 1..(n - 1)
  BY <1>2
<1> HIDE DEF n, rest
<1>4. \A k \in 1..n : k = n \/ k \in 1..(n - 1)
  BY <1>1
<1>5. \A k \in 1..(n - 1) : k \in 1..n /\ k # n
  BY <1>1
<1>6. \A j, k \in 1..n : pool[j] = pool[k] => j = k
  BY <1>1 DEF IsInjective
<1>7. IsInjective(rest)
  BY <1>2, <1>3, <1>5, <1>6 DEF IsInjective
<1>8. p \in Range(pool)
  BY <1>1 DEF Range
<1>9. Range(rest) = Range(pool) \ {p}
  <2>1. Range(rest) \subseteq Range(pool) \ {p}
    BY <1>1, <1>2, <1>3, <1>5, <1>6 DEF Range
  <2>2. ASSUME NEW q \in Range(pool), q # p PROVE q \in Range(rest)
    <3>1. PICK k \in 1..n : q = pool[k]
      BY <1>1 DEF Range
    <3>2. k \in 1..(n - 1)
      BY <1>4, <2>2, <3>1
    <3>3. QED
      BY <1>2, <1>3, <3>1, <3>2 DEF Range
  <2>3. QED
    BY <2>1, <2>2
<1>10. QED
  BY <1>2, <1>7, <1>8, <1>9 DEF n, rest

(* A node is put at the end of the pool.                                   *)
LEMMA GivenToPool ==
    ASSUME NEW P, NEW pool \in Seq(P), IsInjective(pool), NEW p \in P, p \notin Range(pool)
    PROVE  /\ Append(pool, p) \in Seq(P) /\ IsInjective(Append(pool, p))
           /\ Range(Append(pool, p)) = Range(pool) \cup {p}
<1> DEFINE n == Len(pool)
           more == Append(pool, p)
<1>1. n \in Nat /\ DOMAIN pool = 1..n
  OBVIOUS
<1>2. /\ more \in Seq(P) /\ Len(more) = n + 1 /\ more[n + 1] = p
      /\ \A k \in 1..n : more[k] = pool[k]
  BY AppendProperties
<1>3. DOMAIN more = 1..(n + 1)
  BY <1>2
<1> HIDE DEF n, more
<1>4. \A k \in 1..(n + 1) : k = n + 1 \/ k \in 1..n
  BY <1>1
<1>5. n + 1 \in 1..(n + 1) /\ \A k \in 1..n : k \in 1..(n + 1)
  BY <1>1
<1>6. \A k \in 1..n : pool[k] # p
  BY <1>1 DEF Range
<1>7. \A j, k \in 1..n : pool[j] = pool[k] => j = k
  BY <1>1 DEF IsInjective
<1>8. ASSUME NEW j \in 1..(n + 1), NEW k \in 1..(n + 1), more[j] = more[k]
      PROVE  j = k
  <2>1. CASE j \in 1..n /\ k \in 1..n
    BY <1>2, <1>7, <1>8, <2>1
  <2>2. CASE j \in 1..n /\ k = n + 1
    BY <1>2, <1>6, <1>8, <2>2
  <2>3. CASE j = n + 1 /\ k \in 1..n
    BY <1>2, <1>6, <1>8, <2>3
  <2>4. QED
    BY <1>4, <2>1, <2>2, <2>3
<1>9. IsInjective(more)
  BY <1>3, <1>8 DEF IsInjective
<1>10. Range(more) = Range(pool) \cup {p}
  <2>1. Range(more) \subseteq Range(pool) \cup {p}
    BY <1>1, <1>2, <1>3, <1>4 DEF Range
  <2>2. p \in Range(more)
    BY <1>2, <1>3, <1>5 DEF Range
  <2>3. ASSUME NEW q \in Range(pool) PROVE q \in Range(more)
    <3>1. PICK k \in 1..n : q = pool[k]
      BY <1>1 DEF Range
    <3>2. QED
      BY <1>2, <1>3, <1>5, <3>1 DEF Range
  <2>4. QED
    BY <2>1, <2>2, <2>3
<1>11. QED
  BY <1>2, <1>9, <1>10 DEF more

(* p is neither in the heap nor in the pool.                               *)
SoundBut(p, heap, pool, M) ==
    LET P == DOMAIN heap.node
    IN  /\ IsFiniteSet(P) /\ IsHeap(heap, P) /\ Range(heap.elements) = M
        /\ \A q \in P : heap.node[q].loop # 0
        /\ pool \in Seq(P) /\ IsInjective(pool) /\ Range(pool) = P \ (M \cup {p})
        /\ p \in P /\ p \notin M

LEMMA ReleaseIs ==
    ASSUME NEW p, NEW h, NEW pool, NEW M, SoundBut(p, h, pool, M),
           ReleaseNode(p, pool, h.node)
    PROVE  /\ Sound([elements |-> h.elements, node |-> node'], m_pool', M)
           /\ \A q \in M : node'[q] = h.node[q]
<1> DEFINE P == DOMAIN h.node
           g == [elements |-> h.elements, node |-> node']
<1>1. /\ IsFiniteSet(P) /\ IsHeap(h, P) /\ Range(h.elements) = M
      /\ \A q \in P : h.node[q].loop # 0
      /\ pool \in Seq(P) /\ IsInjective(pool) /\ Range(pool) = P \ (M \cup {p})
      /\ p \in P /\ p \notin M
  BY DEF SoundBut
<1>2. h.node \in [P -> NodeType] /\ M \subseteq P
  <2>1. h \in HeapOf(P) /\ \A k \in 1..Len(h.elements) : h.elements[k] \in P
    BY <1>1, HeapIs
  <2>2. Range(h.elements) = {h.elements[k] : k \in 1..Len(h.elements)}
    BY <1>1, HeapIs
  <2>3. QED
    BY <1>1, <2>1, <2>2 DEF HeapOf
<1>3. g.elements = h.elements /\ g.node = node'
  OBVIOUS
<1>4. CASE Len(pool) > PoolLimit
  <2> DEFINE Q == P \ {p}
  <2>1. m_pool' = pool /\ node' = [q \in Q |-> h.node[q]]
    BY <1>4 DEF ReleaseNode, Without, Restrict
  <2>2. node' \in [Q -> NodeType] /\ DOMAIN node' = Q /\ \A q \in Q : node'[q] = h.node[q]
    BY <1>2, <2>1
  <2>3. M \subseteq Q /\ Range(pool) \subseteq Q
    BY <1>1, <1>2
  <2>4. IsHeap(g, Q)
    BY <1>1, <2>2, <2>3, HeapWithin
  <2>5. IsFiniteSet(Q)
    BY <1>1, FS_RemoveElement
  <2>6. m_pool' \in Seq(Q) /\ IsInjective(m_pool') /\ Range(m_pool') = Q \ M
    BY <1>1, <2>1, <2>3, SeqWithin
  <2> HIDE DEF g
  <2>7. QED
    BY <1>1, <1>3, <2>2, <2>3, <2>4, <2>5, <2>6 DEF Sound, g
<1>5. CASE ~(Len(pool) > PoolLimit)
  <2>1. m_pool' = Append(pool, p) /\ node' = h.node
    BY <1>5 DEF ReleaseNode
  <2>2. p \notin Range(pool)
    BY <1>1
  <2>3. m_pool' \in Seq(P) /\ IsInjective(m_pool') /\ Range(m_pool') = Range(pool) \cup {p}
    BY <1>1, <2>1, <2>2, GivenToPool
  <2>4. Range(m_pool') = P \ M
    BY <1>1, <2>3
  <2>5. IsHeap(g, P)
    BY <1>1, <1>2, <2>1, HeapWithin
  <2> HIDE DEF g
  <2>6. QED
    BY <1>1, <1>3, <2>1, <2>3, <2>4, <2>5 DEF Sound, g
<1>6. QED
  BY <1>4, <1>5

(* The calls of the heap keep its nodes.                                   *)
LEMMA BecomesIs ==
    ASSUME NEW P, NEW h, IsHeap(h, P), NEW g, NEW in, Becomes(g, h, in, P)
    PROVE  /\ g.node \in [P -> NodeType] /\ DOMAIN g.node = P /\ IsHeap(g, P)
           /\ Range(g.elements) = in
           /\ \A p \in P : /\ g.node[p].end_time = h.node[p].end_time
                           /\ g.node[p].id = h.node[p].id
                           /\ g.node[p].loop = h.node[p].loop
                           /\ g.node[p].interval_ms = h.node[p].interval_ms
<1>1. g \in HeapOf(P)
  BY DEF Becomes, IsHeap
<1>2. g.node \in [P -> NodeType]
  BY <1>1 DEF HeapOf
<1>3. QED
  BY <1>2 DEF Becomes, Alike

LEMMA HeapRange ==
    ASSUME NEW P, NEW h, IsHeap(h, P)
    PROVE  /\ h.node \in [P -> NodeType] /\ Range(h.elements) \subseteq P
           /\ h.elements \in Seq(P)
<1>1. h \in HeapOf(P) /\ \A k \in 1..Len(h.elements) : h.elements[k] \in P
  BY HeapIs
<1>2. Range(h.elements) = {h.elements[k] : k \in 1..Len(h.elements)}
  BY HeapIs
<1>3. QED
  BY <1>1, <1>2 DEF HeapOf

-----------------------------------------------------------------------------
(* What the invariant says.                                                *)

LEMMA SoundIs ==
    ASSUME Accounted
    PROVE  /\ IsFiniteSet(DOMAIN node) /\ IsHeap(Heap, DOMAIN node)
           /\ Heap.elements = m_heap /\ Heap.node = node
           /\ m_heap \in Seq(DOMAIN node) /\ node \in [DOMAIN node -> NodeType]
           /\ Range(m_heap) = Range(m_map) /\ Range(m_map) \subseteq DOMAIN node
           /\ \A p \in DOMAIN node : node[p].loop # 0
           /\ m_pool \in Seq(DOMAIN node) /\ IsInjective(m_pool)
           /\ Range(m_pool) = DOMAIN node \ Range(m_map)
           /\ Intact
<1>1. Heap.elements = m_heap /\ Heap.node = node
  BY DEF Heap
<1>2. Sound(Heap, m_pool, Range(m_map))
  BY DEF Accounted
<1>3. IsHeap(Heap, DOMAIN node) /\ Range(m_heap) = Range(m_map)
  BY <1>1, <1>2 DEF Sound
<1>4. /\ node \in [DOMAIN node -> NodeType] /\ Range(m_heap) \subseteq DOMAIN node
      /\ m_heap \in Seq(DOMAIN node)
  BY <1>1, <1>3, HeapRange
<1>5. QED
  BY <1>1, <1>2, <1>3, <1>4 DEF Sound, Intact

LEMMA MapIs ==
    ASSUME Accounted
    PROVE  /\ m_map = [id \in DOMAIN m_map |-> m_map[id]]
           /\ \A i, j \in DOMAIN m_map : m_map[i] = m_map[j] => i = j
           /\ DOMAIN m_map \subseteq Nat \ {0}
           /\ \A id \in DOMAIN m_map : /\ node[m_map[id]].id = id
                                       /\ m_map[id] \in Range(m_map)
                                       /\ m_map[id] \in DOMAIN node
           /\ \A p \in Range(m_map) : \E id \in DOMAIN m_map : p = m_map[id]
<1>1. Mapped(m_map, node)
  BY DEF Accounted
<1>2. \A id \in DOMAIN m_map : m_map[id] \in Range(m_map)
  BY DEF Range
<1>3. \A p \in Range(m_map) : \E id \in DOMAIN m_map : p = m_map[id]
  BY DEF Range
<1>4. Range(m_map) \subseteq DOMAIN node
  BY SoundIs
<1>5. QED
  BY <1>1, <1>2, <1>3, <1>4 DEF Mapped, IsInjective

(* A sequence without repeats is as long as what it has.                   *)
LEMMA LengthIs ==
    ASSUME NEW S, NEW s \in Seq(S), \A j, k \in DOMAIN s : s[j] = s[k] => j = k
    PROVE  Len(s) = Cardinality(Range(s)) /\ IsFiniteSet(Range(s))
<1> DEFINE n == Len(s)
<1>1. n \in Nat /\ DOMAIN s = 1..n
  OBVIOUS
<1>2. s \in [1..n -> Range(s)] /\ \A q \in Range(s) : \E k \in 1..n : s[k] = q
  BY <1>1 DEF Range
<1> HIDE DEF n
<1>3. s \in Bijection(1..n, Range(s))
  BY <1>1, <1>2, Fun_IsBij
<1>4. ExistsBijection(1..n, Range(s))
  BY <1>3, Zenon DEF ExistsBijection
<1>5. Cardinality(Range(s)) = n
  BY <1>1, <1>4, FS_CountingElements
<1>6. IsFiniteSet(Range(s))
  BY <1>1, <1>4, FS_NatBijection
<1>7. QED
  BY <1>5, <1>6 DEF n

LEMMA InvariantImplies == IInv => NodesAccounted
<1> SUFFICES ASSUME IInv, Intact PROVE NodesAccounted
  BY DEF NodesAccounted
<1>1. Accounted
  BY DEF IInv, Cleared, Intact
<1>2. /\ IsHeap(Heap, DOMAIN node) /\ Heap.elements = m_heap /\ Heap.node = node
      /\ m_heap \in Seq(DOMAIN node) /\ Range(m_heap) = Range(m_map)
      /\ m_pool \in Seq(DOMAIN node) /\ IsInjective(m_pool)
      /\ Range(m_pool) = DOMAIN node \ Range(m_map)
  BY <1>1, SoundIs
<1>3. DOMAIN m_heap = 1..Len(m_heap)
  BY <1>2
<1>4. \A i \in DOMAIN m_heap : node[m_heap[i]].heap_index = i
  BY <1>2, <1>3 DEF IsHeap, InPlace
<1>5. \A j, k \in DOMAIN m_heap : m_heap[j] = m_heap[k] => j = k
  BY <1>4
<1>6. Len(m_heap) = Cardinality(Range(m_map)) /\ IsFiniteSet(Range(m_map))
  BY <1>2, <1>5, LengthIs
<1>7. \A j, k \in DOMAIN m_pool : m_pool[j] = m_pool[k] => j = k
  BY <1>2 DEF IsInjective
<1>8. Len(m_pool) = Cardinality(Range(m_pool))
  BY <1>2, <1>7, LengthIs
<1>9. Mapped(m_map, node)
  BY <1>1 DEF Accounted
<1>10. Cardinality(DOMAIN m_map) = Cardinality(Range(m_map))
  <2> DEFINE D == DOMAIN m_map
  <2>1. /\ m_map = [id \in D |-> m_map[id]] /\ \A id \in D : m_map[id] \in Range(m_map)
        /\ \A i, j \in D : m_map[i] = m_map[j] => i = j
        /\ \A p \in Range(m_map) : \E id \in D : m_map[id] = p
    BY <1>1, MapIs
  <2> HIDE DEF D
  <2>2. m_map \in [D -> Range(m_map)]
    BY <2>1
  <2>3. m_map \in Injection(D, Range(m_map)) /\ m_map \in Surjection(D, Range(m_map))
    BY <2>1, <2>2, Fun_IsInj, Fun_IsSurj
  <2>4. Cardinality(D) = Cardinality(Range(m_map))
    BY <1>6, <2>3, FS_Injection
  <2>5. QED
    BY <2>4 DEF D
<1>11. QED
  BY <1>2, <1>4, <1>6, <1>8, <1>9, <1>10 DEF NodesAccounted, Mapped

-----------------------------------------------------------------------------
(* Add.                                                                    *)

LEMMA CandidateIs ==
    ASSUME IInv, NEW k \in 1..FindCount
    PROVE  Candidate(k) \in Nat \ {0}
<1>1. MaxId \in Nat /\ MaxId > 1 /\ m_max_id \in Nat /\ k \in Nat /\ k > 0
  BY TimerAssumption DEF IInv
<1>2. PICK a \in Nat, b \in Nat : a = m_max_id + k - 1 /\ b = MaxId - 1 /\ b > 0
  BY <1>1
<1>3. a % b \in Nat
  BY <1>2
<1>4. 1 + (a % b) \in Nat \ {0}
  BY <1>3
<1>5. QED
  BY <1>2, <1>4 DEF Candidate

LEMMA NewNodeIs ==
    ASSUME IInv, NEW id \in Nat, NEW delay_ms \in Int, NEW loop \in Int,
           NEW interval_ms \in Int
    PROVE  LET new == NewNode(id, delay_ms, loop, interval_ms)
           IN  new \in NodeType /\ new.loop # 0 /\ new.id = id
<1>1. m_cur_time \in Int
  BY DEF IInv
<1>2. m_cur_time + (IF delay_ms < 0 THEN 0 ELSE delay_ms) \in Int
  BY <1>1
<1>3. QED
  BY <1>2 DEF NewNode, NodeType

LEMMA LimitsAre ==
    ASSUME IInv
    PROVE  /\ \A d \in limit.delays : d \in Int
           /\ \A l \in limit.loops : l \in Int
           /\ \A i \in limit.intervals : i \in Int
           /\ \A f \in limit.frames : f \in Int
           /\ \A c \in limit.clocks : c \in Int
  BY LimitsAssumption DEF IInv

(* CreateNode: a node that no timer has, which is not left in the pool.    *)
LEMMA CreatedIs ==
    ASSUME Accounted, NEW new \in NodeType, new.loop # 0
    PROVE  LET p == CreateNode
               nodes == With(node, p, new)
           IN  /\ SoundBut(p, [elements |-> m_heap, node |-> nodes], PoolWithout, Range(m_map))
               /\ \A q \in Range(m_map) : nodes[q] = node[q]
               /\ nodes[p] = new
<1> DEFINE P == DOMAIN node
           M == Range(m_map)
           p == CreateNode
           nodes == With(node, p, new)
           Q == P \cup {p}
           b == [elements |-> m_heap, node |-> nodes]
<1>1. /\ IsFiniteSet(P) /\ IsHeap(Heap, P) /\ Heap.elements = m_heap /\ Heap.node = node
      /\ node \in [P -> NodeType] /\ Range(m_heap) = M /\ M \subseteq P
      /\ \A q \in P : node[q].loop # 0
      /\ m_pool \in Seq(P) /\ IsInjective(m_pool) /\ Range(m_pool) = P \ M
  BY SoundIs
<1> HIDE DEF P
<1>2. p \notin M /\ PoolWithout \in Seq(P) /\ IsInjective(PoolWithout)
      /\ Range(PoolWithout) = Q \ (M \cup {p})
  <2>1. CASE m_pool = <<>>
    <3> DEFINE c == Cardinality(P)
    <3>1. c \in Nat
      BY <1>1, FS_CardinalityType
    <3>2. \E q \in 1..(c + 1) : q \notin P
      <4> SUFFICES ASSUME \A q \in 1..(c + 1) : q \in P PROVE FALSE
        OBVIOUS
      <4>1. 1..(c + 1) \in SUBSET P
        OBVIOUS
      <4>2. Cardinality(1..(c + 1)) <= c
        BY <1>1, <4>1, FS_Subset
      <4> HIDE DEF c
      <4>3. 1 \in Int /\ c + 1 \in Int /\ ~(1 > c + 1) /\ (c + 1) - 1 + 1 = c + 1
        BY <3>1
      <4>4. Cardinality(1..(c + 1)) = c + 1
        BY <4>3, FS_Interval
      <4>5. QED
        BY <3>1, <4>2, <4>4
    <3>3. p \in 1..(c + 1) /\ p \notin P
      <4>1. p = CHOOSE q \in 1..(c + 1) : q \notin P
        BY <2>1 DEF CreateNode, P
      <4> HIDE DEF p, c
      <4>2. QED
        BY <3>2, <4>1
    <3> HIDE DEF p
    <3>4. PoolWithout = m_pool
      BY <2>1 DEF PoolWithout
    <3>5. Range(m_pool) = {}
      BY <2>1, EmptyIs DEF Range
    <3>6. QED
      BY <1>1, <3>3, <3>4, <3>5
  <2>2. CASE m_pool # <<>>
    <3>1. p = m_pool[Len(m_pool)] /\ PoolWithout = SubSeq(m_pool, 1, Len(m_pool) - 1)
      BY <2>2 DEF CreateNode, PoolWithout
    <3> HIDE DEF p
    <3>2. /\ p \in Range(m_pool) /\ PoolWithout \in Seq(P) /\ IsInjective(PoolWithout)
          /\ Range(PoolWithout) = Range(m_pool) \ {p}
      BY <1>1, <2>2, <3>1, TakenFromPool
    <3>3. QED
      BY <1>1, <3>2
  <2>3. QED
    BY <2>1, <2>2
<1> HIDE DEF p
<1>3. nodes = [q \in Q |-> IF q = p THEN new ELSE node[q]]
  BY DEF With, P
<1>4. /\ nodes \in [Q -> NodeType] /\ DOMAIN nodes = Q /\ nodes[p] = new
      /\ \A q \in Q : q # p => nodes[q] = node[q] /\ q \in P
  BY <1>1, <1>3
<1> HIDE DEF nodes
<1>5. \A q \in M : nodes[q] = node[q] /\ q \in Q
  BY <1>1, <1>2, <1>4
<1>6. IsHeap(b, Q)
  <2>1. Range(Heap.elements) \subseteq Q /\ \A q \in Range(Heap.elements) : nodes[q] = Heap.node[q]
    BY <1>1, <1>5
  <2>2. IsHeap([elements |-> Heap.elements, node |-> nodes], Q)
    BY <1>1, <1>4, <2>1, HeapWithin
  <2>3. QED
    BY <1>1, <2>2
<1>7. IsFiniteSet(Q)
  BY <1>1, FS_AddElement
<1>8. PoolWithout \in Seq(Q)
  BY <1>2, SeqWithin
<1>9. b.elements = m_heap /\ b.node = nodes
  OBVIOUS
<1> HIDE DEF b
<1>10. \A q \in Q : nodes[q].loop # 0
  BY <1>1, <1>4
<1>11. SoundBut(p, b, PoolWithout, M)
  BY <1>1, <1>2, <1>4, <1>6, <1>7, <1>8, <1>9, <1>10 DEF SoundBut
<1>12. QED
  BY <1>4, <1>5, <1>11 DEF b, p, nodes

-----------------------------------------------------------------------------
(* What a call makes of the map and of the nodes.                          *)

SameIds(new, nodes, S) == \A q \in S : new[q].id = nodes[q].id

LEMMA MapWith ==
    ASSUME NEW map, NEW nodes, Mapped(map, nodes),
           NEW id \in Nat \ {0}, id \notin DOMAIN map, NEW p, p \notin Range(map),
           NEW new, SameIds(new, nodes, Range(map)), new[p].id = id
    PROVE  LET more == With(map, id, p)
           IN  /\ Mapped(more, new) /\ Range(more) = Range(map) \cup {p}
               /\ DOMAIN more = DOMAIN map \cup {id}
               /\ \A i \in DOMAIN map : more[i] = map[i]
               /\ more[id] = p
<1> DEFINE more == With(map, id, p)
           D == DOMAIN map
           E == D \cup {id}
<1>1. /\ \A i, j \in D : map[i] = map[j] => i = j
      /\ D \subseteq Nat \ {0} /\ \A i \in D : nodes[map[i]].id = i
      /\ Range(map) = {map[i] : i \in D}
  BY DEF Mapped, IsInjective, Range
<1>2. more = [i \in E |-> IF i = id THEN p ELSE map[i]]
  BY DEF With
<1> HIDE DEF more, D
<1>3. /\ DOMAIN more = E /\ more[id] = p /\ more = [i \in E |-> more[i]]
      /\ \A i \in D : more[i] = map[i]
  BY <1>2 DEF D
<1>4. Range(more) = Range(map) \cup {p}
  <2>1. Range(more) = {more[i] : i \in E}
    BY <1>3 DEF Range
  <2>2. \A i \in E : i = id \/ i \in D
    OBVIOUS
  <2>3. id \in E /\ \A i \in D : i \in E
    OBVIOUS
  <2> HIDE DEF E
  <2>4. \A q \in Range(more) : q \in Range(map) \cup {p}
    BY <1>1, <1>3, <2>1, <2>2
  <2>5. \A q \in Range(map) : q \in Range(more)
    BY <1>1, <1>3, <2>1, <2>3
  <2>6. p \in Range(more)
    BY <1>3, <2>1, <2>3
  <2>7. QED
    BY <2>4, <2>5, <2>6
<1>5. \A i \in D : more[i] # p
  BY <1>1, <1>3
<1>6. \A i, j \in E : more[i] = more[j] => i = j
  BY <1>1, <1>3, <1>5
<1>7. IsInjective(more)
  BY <1>3, <1>6 DEF IsInjective
<1>8. \A i \in E : new[more[i]].id = i
  BY <1>1, <1>3 DEF SameIds
<1>9. E \subseteq Nat \ {0}
  BY <1>1
<1> HIDE DEF E
<1>10. Mapped(more, new)
  BY <1>3, <1>7, <1>8, <1>9 DEF Mapped
<1>11. QED
  BY <1>3, <1>4, <1>10 DEF more, D, E

LEMMA MapWithout ==
    ASSUME NEW map, NEW nodes, Mapped(map, nodes), NEW id \in DOMAIN map,
           NEW new, SameIds(new, nodes, Range(map) \ {map[id]})
    PROVE  LET less == Without(map, id)
           IN  /\ Mapped(less, new) /\ Range(less) = Range(map) \ {map[id]}
               /\ DOMAIN less = DOMAIN map \ {id}
               /\ \A i \in DOMAIN map \ {id} : less[i] = map[i] /\ map[i] # map[id]
<1> DEFINE less == Without(map, id)
           D == DOMAIN map
           E == D \ {id}
<1>1. /\ \A i, j \in D : map[i] = map[j] => i = j
      /\ D \subseteq Nat \ {0} /\ \A i \in D : nodes[map[i]].id = i
      /\ Range(map) = {map[i] : i \in D}
  BY DEF Mapped, IsInjective, Range
<1>2. less = [i \in E |-> map[i]]
  BY DEF Without, Restrict
<1> HIDE DEF less
<1>3. /\ DOMAIN less = E /\ less = [i \in E |-> less[i]]
      /\ \A i \in E : less[i] = map[i]
  BY <1>2
<1>4. \A i \in E : map[i] # map[id]
  BY <1>1
<1>5. Range(less) = Range(map) \ {map[id]}
  BY <1>1, <1>3, <1>4 DEF Range
<1>6. IsInjective(less)
  BY <1>1, <1>3 DEF IsInjective
<1>7. \A i \in E : new[less[i]].id = i
  BY <1>1, <1>3, <1>4 DEF SameIds
<1>8. E \subseteq Nat \ {0}
  BY <1>1
<1> HIDE DEF E
<1>9. Mapped(less, new)
  BY <1>3, <1>6, <1>7, <1>8 DEF Mapped
<1>10. QED
  BY <1>3, <1>4, <1>5, <1>9 DEF less, E

LEMMA NextIsSound ==
    ASSUME NEW P, IsFiniteSet(P), NEW g, IsHeap(g, P), Range(g.elements) = Range(m_map'),
           \A p \in P : g.node[p].loop # 0,
           m_pool' \in Seq(P), IsInjective(m_pool'), Range(m_pool') = P \ Range(m_map'),
           m_heap' = g.elements, node' = g.node,
           Mapped(m_map', node')
    PROVE  Accounted'
<1> DEFINE h == [elements |-> g.elements, node |-> g.node]
<1>1. g.node \in [P -> NodeType] /\ Range(g.elements) \subseteq P
  BY HeapRange
<1>2. IsHeap(h, P)
  BY <1>1, HeapWithin
<1>3. h.elements = g.elements /\ h.node = g.node /\ DOMAIN g.node = P
  BY <1>1
<1>4. Heap' = h
  BY DEF Heap
<1> HIDE DEF h
<1>5. Sound(h, m_pool', Range(m_map'))
  BY <1>2, <1>3 DEF Sound
<1>6. QED
  BY <1>4, <1>5 DEF Accounted

(* A timer as it was.                                                      *)
Facts(n) ==
    [end_time |-> n.end_time, loop |-> n.loop, interval_ms |-> n.interval_ms]

Kept(id) == Facts(node'[m_map'[id]]) = Facts(node[m_map[id]])

(* Remove, and Poll of a timer for the last time.                          *)
LEMMA TimerLeaves ==
    ASSUME Accounted, NEW id \in DOMAIN m_map, NEW g,
           Becomes(g, Heap, Range(m_heap) \ {m_map[id]}, DOMAIN node),
           m_heap' = g.elements, m_map' = Without(m_map, id),
           ReleaseNode(m_map[id], m_pool, g.node)
    PROVE  /\ Accounted' /\ DOMAIN m_map' = DOMAIN m_map \ {id}
           /\ \A i \in DOMAIN m_map \ {id} : Kept(i)
<1> DEFINE p == m_map[id]
           P == DOMAIN node
           M == Range(m_map) \ {p}
<1>1. /\ IsFiniteSet(P) /\ IsHeap(Heap, P) /\ Heap.node = node
      /\ Range(m_heap) = Range(m_map) /\ Range(m_map) \subseteq P
      /\ \A q \in P : node[q].loop # 0
      /\ m_pool \in Seq(P) /\ IsInjective(m_pool) /\ Range(m_pool) = P \ Range(m_map)
  BY SoundIs
<1>2. p \in Range(m_map) /\ Mapped(m_map, node)
  BY MapIs DEF Accounted
<1> HIDE DEF P
<1>3. Becomes(g, Heap, M, P)
  BY <1>1 DEF P
<1>4. /\ DOMAIN g.node = P /\ IsHeap(g, P) /\ Range(g.elements) = M
      /\ \A q \in P : /\ g.node[q].end_time = node[q].end_time
                      /\ g.node[q].id = node[q].id
                      /\ g.node[q].loop = node[q].loop
                      /\ g.node[q].interval_ms = node[q].interval_ms
  BY <1>1, <1>3, BecomesIs
<1>5. SoundBut(p, g, m_pool, M)
  <2>1. Range(m_pool) = P \ (M \cup {p}) /\ p \in P /\ p \notin M
    BY <1>1, <1>2
  <2>2. \A q \in P : g.node[q].loop # 0
    BY <1>1, <1>4
  <2> HIDE DEF M, p
  <2>3. QED
    BY <1>1, <1>4, <2>1, <2>2 DEF SoundBut
<1>6. /\ Sound([elements |-> g.elements, node |-> node'], m_pool', M)
      /\ \A q \in M : node'[q] = g.node[q]
  BY <1>5, ReleaseIs
<1>7. \A q \in M : /\ node'[q].end_time = node[q].end_time /\ node'[q].id = node[q].id
                   /\ node'[q].loop = node[q].loop
                   /\ node'[q].interval_ms = node[q].interval_ms
  BY <1>1, <1>4, <1>6
<1>8. /\ Mapped(m_map', node') /\ Range(m_map') = M /\ DOMAIN m_map' = DOMAIN m_map \ {id}
      /\ \A i \in DOMAIN m_map \ {id} : m_map'[i] = m_map[i] /\ m_map[i] # p
  <2>1. SameIds(node', node, Range(m_map) \ {m_map[id]})
    BY <1>7 DEF SameIds
  <2> DEFINE less == Without(m_map, id)
  <2>2. /\ Mapped(less, node') /\ Range(less) = Range(m_map) \ {m_map[id]}
        /\ DOMAIN less = DOMAIN m_map \ {id}
        /\ \A i \in DOMAIN m_map \ {id} : less[i] = m_map[i] /\ m_map[i] # m_map[id]
    BY <1>2, <2>1, MapWithout
  <2>3. m_map' = less
    OBVIOUS
  <2> HIDE DEF less
  <2>4. QED
    BY <2>2, <2>3
<1>9. Accounted'
  <2>1. Heap' = [elements |-> g.elements, node |-> node']
    BY DEF Heap
  <2> HIDE DEF M
  <2>2. QED
    BY <1>6, <1>8, <2>1 DEF Accounted
<1>10. ASSUME NEW i \in DOMAIN m_map \ {id} PROVE Kept(i)
  <2>1. m_map[i] \in M /\ m_map'[i] = m_map[i]
    BY <1>8, MapIs
  <2>2. QED
    BY <1>7, <2>1 DEF Kept, Facts
<1>11. QED
  BY <1>8, <1>9, <1>10

-----------------------------------------------------------------------------
(* The calls.                                                              *)

LEMMA IsAccounted == ASSUME IInv, Intact PROVE Accounted
  BY DEF IInv, Cleared, Intact

LEMMA AddKeeps ==
    ASSUME IInv, NEW delay_ms \in Int, NEW loop \in Int, NEW interval_ms \in Int,
           Add(delay_ms, loop, interval_ms)
    PROVE  /\ Accounted' /\ m_max_id' \in Nat /\ UNCHANGED <<m_cur_time, limit>>
           /\ \E id \in Nat \ {0} :
                 /\ id \notin DOMAIN m_map /\ DOMAIN m_map' = DOMAIN m_map \cup {id}
                 /\ answer' = <<"Add", id>> /\ \A i \in DOMAIN m_map : Kept(i)
<1> DEFINE p == CreateNode
<1>1. Accounted
  BY IsAccounted DEF Add, Adding
<1>2. PICK k \in 1..FindCount :
          /\ Tried(k)
          /\ LET new == NewNode(Candidate(k), delay_ms, loop, interval_ms)
                 heap == Push([Heap EXCEPT !.node = With(node, p, new)], p)
             IN  /\ m_max_id' = Candidate(k) /\ answer' = <<"Add", Candidate(k)>>
                 /\ m_heap' = heap.elements /\ node' = heap.node
                 /\ m_map' = With(m_map, Candidate(k), p)
                 /\ m_pool' = PoolWithout
  BY DEF Add
<1> DEFINE id == Candidate(k)
           new == NewNode(id, delay_ms, loop, interval_ms)
           nodes == With(node, p, new)
           b == [elements |-> m_heap, node |-> nodes]
           g == Push(b, p)
           Q == DOMAIN nodes
<1>3. id \in Nat \ {0} /\ id \notin DOMAIN m_map
  BY <1>2, CandidateIs DEF Tried
<1>4. new \in NodeType /\ new.loop # 0 /\ new.id = id
  <2> HIDE DEF id
  <2>1. QED
    BY <1>3, NewNodeIs
<1>5. [Heap EXCEPT !.node = nodes] = b
  BY DEF Heap
<1>6. /\ m_max_id' = id /\ answer' = <<"Add", id>> /\ m_heap' = g.elements /\ node' = g.node
      /\ m_map' = With(m_map, id, p) /\ m_pool' = PoolWithout
  BY <1>2, <1>5
<1> HIDE DEF id, new
<1>7. /\ SoundBut(p, b, PoolWithout, Range(m_map))
      /\ \A q \in Range(m_map) : nodes[q] = node[q]
      /\ nodes[p] = new
  BY <1>1, <1>4, CreatedIs
<1>8. b.elements = m_heap /\ b.node = nodes
  OBVIOUS
<1> HIDE DEF p, nodes, b
<1>9. /\ IsFiniteSet(Q) /\ IsHeap(b, Q) /\ Range(m_heap) = Range(m_map)
      /\ \A q \in Q : nodes[q].loop # 0
      /\ PoolWithout \in Seq(Q) /\ IsInjective(PoolWithout)
      /\ Range(PoolWithout) = Q \ (Range(m_map) \cup {p})
      /\ p \in Q /\ p \notin Range(m_map)
  BY <1>7, <1>8 DEF SoundBut
<1> HIDE DEF Q
<1>10. Becomes(g, b, Range(m_map) \cup {p}, Q)
  BY <1>8, <1>9, PushIs
<1> HIDE DEF g
<1>11. /\ IsHeap(g, Q) /\ Range(g.elements) = Range(m_map) \cup {p}
       /\ \A q \in Q : /\ g.node[q].end_time = nodes[q].end_time
                       /\ g.node[q].id = nodes[q].id
                       /\ g.node[q].loop = nodes[q].loop
                       /\ g.node[q].interval_ms = nodes[q].interval_ms
  BY <1>8, <1>9, <1>10, BecomesIs
<1>12. Range(m_map) \subseteq Q
  BY <1>8, <1>9, HeapRange
<1>13. \A q \in Range(m_map) : /\ g.node[q].end_time = node[q].end_time
                               /\ g.node[q].id = node[q].id
                               /\ g.node[q].loop = node[q].loop
                               /\ g.node[q].interval_ms = node[q].interval_ms
  BY <1>7, <1>11, <1>12
<1>14. SameIds(g.node, node, Range(m_map)) /\ g.node[p].id = id
  BY <1>4, <1>7, <1>9, <1>11, <1>13 DEF SameIds
<1>15. Mapped(m_map, node)
  BY <1>1 DEF Accounted
<1> DEFINE more == With(m_map, id, p)
<1>16. /\ Mapped(more, g.node) /\ Range(more) = Range(m_map) \cup {p}
       /\ DOMAIN more = DOMAIN m_map \cup {id}
       /\ \A i \in DOMAIN m_map : more[i] = m_map[i]
  <2>1. id \in Nat \ {0} /\ id \notin DOMAIN m_map /\ p \notin Range(m_map)
    BY <1>3, <1>9
  <2> HIDE DEF more
  <2>2. LET with == With(m_map, id, p)
        IN  /\ Mapped(with, g.node) /\ Range(with) = Range(m_map) \cup {p}
            /\ DOMAIN with = DOMAIN m_map \cup {id}
            /\ \A i \in DOMAIN m_map : with[i] = m_map[i]
            /\ with[id] = p
    BY <1>14, <1>15, <2>1, MapWith
  <2>3. QED
    BY <2>2 DEF more
<1>17. m_map' = more
  BY <1>6
<1> HIDE DEF more
<1>18. \A q \in Q : g.node[q].loop # 0
  BY <1>9, <1>11
<1>19. Accounted'
  <2>1. /\ Range(g.elements) = Range(m_map') /\ m_pool' \in Seq(Q) /\ IsInjective(m_pool')
        /\ Range(m_pool') = Q \ Range(m_map') /\ Mapped(m_map', node')
    BY <1>6, <1>9, <1>11, <1>16, <1>17
  <2>2. QED
    BY <1>6, <1>9, <1>11, <1>18, <2>1, NextIsSound
<1>20. ASSUME NEW i \in DOMAIN m_map PROVE Kept(i)
  <2>1. m_map[i] \in Range(m_map) /\ m_map'[i] = m_map[i]
    BY <1>1, <1>16, <1>17, MapIs
  <2>2. QED
    BY <1>6, <1>13, <2>1 DEF Kept, Facts
<1>21. m_max_id' \in Nat /\ UNCHANGED <<m_cur_time, limit>>
  BY <1>3, <1>6 DEF Add
<1>22. DOMAIN m_map' = DOMAIN m_map \cup {id}
  BY <1>16, <1>17
<1>23. QED
  BY <1>3, <1>6, <1>19, <1>20, <1>21, <1>22

LEMMA AddFailsKeeps ==
    ASSUME IInv, NEW delay_ms \in Int, NEW loop \in Int, NEW interval_ms \in Int,
           AddFails(delay_ms, loop, interval_ms)
    PROVE  /\ Accounted' /\ m_max_id' \in Nat /\ answer' = <<"Add", 0>>
           /\ UNCHANGED <<m_cur_time, limit, m_map>> /\ \A i \in DOMAIN m_map : Kept(i)
<1> DEFINE p == CreateNode
<1>1. Accounted
  BY IsAccounted DEF AddFails, Adding
<1>2. PICK k \in 1..FindCount :
          LET id == IF Tried(k) THEN Candidate(k) ELSE 0
              new == NewNode(id, delay_ms, loop, interval_ms)
          IN  /\ m_max_id' = Candidate(k)
              /\ ReleaseNode(p, PoolWithout, With(node, p, new))
  BY DEF AddFails
<1> DEFINE id == IF Tried(k) THEN Candidate(k) ELSE 0
           new == NewNode(id, delay_ms, loop, interval_ms)
           nodes == With(node, p, new)
           b == [elements |-> m_heap, node |-> nodes]
<1>3. m_max_id' \in Nat /\ id \in Nat
  BY <1>2, CandidateIs
<1>4. new \in NodeType /\ new.loop # 0
  <2>1. id \in Nat
    BY <1>3
  <2> HIDE DEF id
  <2>2. new \in NodeType /\ new.loop # 0 /\ new.id = id
    BY <2>1, NewNodeIs
  <2>3. QED
    BY <2>2
<1>5. ReleaseNode(p, PoolWithout, nodes)
  BY <1>2
<1> HIDE DEF id, new
<1>6. /\ SoundBut(p, b, PoolWithout, Range(m_map))
      /\ \A q \in Range(m_map) : nodes[q] = node[q]
  BY <1>1, <1>4, CreatedIs
<1>7. b.elements = m_heap /\ b.node = nodes
  OBVIOUS
<1> HIDE DEF p, nodes, b
<1>8. UNCHANGED <<m_cur_time, m_heap, m_map, limit>> /\ answer' = <<"Add", 0>>
  BY DEF AddFails
<1>9. /\ Sound([elements |-> b.elements, node |-> node'], m_pool', Range(m_map))
      /\ \A q \in Range(m_map) : node'[q] = b.node[q]
  BY <1>5, <1>6, <1>7, ReleaseIs
<1>10. \A q \in Range(m_map) : node'[q] = node[q]
  BY <1>6, <1>7, <1>9
<1>11. Sound(Heap, m_pool, Range(m_map))'
  BY <1>7, <1>8, <1>9 DEF Heap
<1>12. \A i \in DOMAIN m_map : m_map[i] \in Range(m_map)
  BY DEF Range
<1>13. Mapped(m_map, node)'
  BY <1>1, <1>8, <1>10, <1>12 DEF Accounted, Mapped
<1>14. \A i \in DOMAIN m_map : Kept(i)
  BY <1>8, <1>10, <1>12 DEF Kept
<1>15. QED
  BY <1>3, <1>8, <1>11, <1>13, <1>14 DEF Accounted

LEMMA RemoveKeeps ==
    ASSUME IInv, NEW id, Remove(id), id \in DOMAIN m_map
    PROVE  /\ Accounted' /\ DOMAIN m_map' = DOMAIN m_map \ {id}
           /\ \A i \in DOMAIN m_map \ {id} : Kept(i)
<1> DEFINE p == m_map[id]
           g == Erase(Heap, p)
<1>1. Accounted
  BY IsAccounted DEF Remove
<1>2. /\ m_heap' = g.elements /\ ReleaseNode(p, m_pool, g.node)
      /\ m_map' = Without(m_map, id)
  BY DEF Remove
<1>3. /\ IsHeap(Heap, DOMAIN node) /\ Heap.elements = m_heap
      /\ Range(m_heap) = Range(m_map)
  BY <1>1, SoundIs
<1>4. p \in Range(Heap.elements)
  BY <1>1, <1>3, MapIs
<1>5. Becomes(g, Heap, Range(m_heap) \ {p}, DOMAIN node)
  BY <1>3, <1>4, EraseIs
<1> HIDE DEF g
<1>6. QED
  BY <1>1, <1>2, <1>5, TimerLeaves

(* Clear: the pool and the timers have all the nodes.                      *)
LEMMA ClearKeeps ==
    ASSUME IInv, Clear
    PROVE  (Accounted \/ Cleared)'
<1>1. m_map' = <<>> /\ m_pool' = <<>> /\ m_heap' = m_heap
      /\ node' = [p \in DOMAIN node \ (Range(m_pool) \cup Range(m_map)) |-> node[p]]
  BY DEF Clear
<1>2. DOMAIN node' = DOMAIN node \ (Range(m_pool) \cup Range(m_map))
  BY <1>1
<1>3. CASE Cleared
  <2>1. DOMAIN node' = {} /\ Range(m_heap') # {}
    BY <1>1, <1>2, <1>3 DEF Cleared
  <2>2. QED
    BY <1>1, <2>1 DEF Cleared
<1>4. CASE Accounted
  <2>1. /\ IsHeap(Heap, DOMAIN node) /\ Heap.elements = m_heap
        /\ Range(m_pool) = DOMAIN node \ Range(m_map)
    BY <1>4, SoundIs
  <2>2. DOMAIN node' = {}
    BY <1>2, <2>1
  <2>3. CASE Range(m_heap) # {}
    BY <1>1, <2>2, <2>3 DEF Cleared
  <2>4. CASE Range(m_heap) = {}
    <3> DEFINE nodes == node'
               h == [elements |-> Heap.elements, node |-> nodes]
    <3>1. nodes \in [{} -> NodeType]
      BY <1>1, <2>2
    <3>2. h.elements = m_heap /\ h.node = nodes
      BY <2>1
    <3> HIDE DEF nodes
    <3>3. IsHeap(h, {})
      BY <2>1, <2>4, <3>1, HeapWithin
    <3>4. Heap' = h
      BY <1>1, <2>1 DEF Heap, nodes
    <3> HIDE DEF h
    <3>5. Range(m_map') = {} /\ Range(m_pool') = {} /\ IsInjective(m_pool') /\ m_pool' \in Seq({})
      BY <1>1, EmptyIs DEF Range, IsInjective
    <3>6. DOMAIN nodes = {} /\ IsFiniteSet({})
      BY <3>1, FS_EmptySet
    <3>7. Sound(h, m_pool', Range(m_map'))
      BY <2>4, <3>2, <3>3, <3>5, <3>6 DEF Sound
    <3>8. m_map' = [id \in DOMAIN m_map' |-> m_map'[id]] /\ DOMAIN m_map' = {}
      BY <1>1, EmptyIs
    <3>9. Mapped(m_map', node')
      BY <3>8 DEF Mapped, IsInjective
    <3>10. QED
      BY <3>4, <3>7, <3>9 DEF Accounted
  <2>5. QED
    BY <2>3, <2>4
<1>5. QED
  BY <1>3, <1>4 DEF IInv

(* Who is polled: the first of the heap, which no timer is due before.     *)
LEMMA PolledIs ==
    ASSUME Accounted, m_heap # <<>>
    PROVE  /\ m_heap[1] \in Range(m_heap)
           /\ \E id \in DOMAIN m_map :
                 /\ m_map[id] = m_heap[1] /\ node[m_heap[1]].id = id
                 /\ \A other \in DOMAIN m_map :
                       node[m_heap[1]].end_time <= node[m_map[other]].end_time
<1>1. /\ IsHeap(Heap, DOMAIN node) /\ Heap.elements = m_heap /\ Heap.node = node
      /\ m_heap \in Seq(DOMAIN node) /\ Range(m_heap) = Range(m_map)
  BY SoundIs
<1>2. Len(m_heap) \in Nat /\ DOMAIN m_heap = 1..Len(m_heap) /\ 1 \in 1..Len(m_heap)
  BY <1>1
<1>3. m_heap[1] \in Range(m_heap)
  BY <1>2 DEF Range
<1>4. PICK id \in DOMAIN m_map : m_heap[1] = m_map[id]
  BY <1>1, <1>3, MapIs
<1>5. node[m_heap[1]].id = id
  BY <1>4, MapIs
<1>6. ASSUME NEW other \in DOMAIN m_map
      PROVE  node[m_heap[1]].end_time <= node[m_map[other]].end_time
  <2>1. m_map[other] \in Range(m_heap)
    BY <1>1, MapIs
  <2>2. PICK k \in 1..Len(m_heap) : m_heap[k] = m_map[other]
    BY <1>2, <2>1 DEF Range
  <2>3. Key(Heap, Heap.elements[1]) <= Key(Heap, Heap.elements[k])
    BY <1>1, RootLeast
  <2>4. QED
    BY <1>1, <2>2, <2>3 DEF Key
<1>7. QED
  BY <1>3, <1>4, <1>5, <1>6

LEMMA PoppedIs ==
    ASSUME Accounted, m_heap # <<>>
    PROVE  Becomes(Pop(Heap), Heap, Range(m_heap) \ {m_heap[1]}, DOMAIN node)
<1>1. IsHeap(Heap, DOMAIN node) /\ Heap.elements = m_heap
  BY SoundIs
<1>2. QED
  BY <1>1, PopIs

(* The last time: the timer leaves.                                        *)
LEMMA PollLastKeeps ==
    ASSUME Accounted, Poll, ~(node[m_heap[1]].loop < 0 \/ node[m_heap[1]].loop > 1),
           NEW id \in DOMAIN m_map, m_map[id] = m_heap[1], node[m_heap[1]].id = id
    PROVE  /\ Accounted' /\ DOMAIN m_map' = DOMAIN m_map \ {id}
           /\ \A i \in DOMAIN m_map \ {id} : Kept(i)
           /\ node[m_heap[1]].loop = 1 /\ answer' = <<"Poll", -id>>
<1> DEFINE p == m_heap[1]
           g == Pop(Heap)
<1>1. /\ m_heap # <<>> /\ m_heap' = g.elements /\ m_map' = Without(m_map, node[p].id)
      /\ ReleaseNode(p, m_pool, g.node) /\ answer' = <<"Poll", -node[p].id>>
  BY DEF Poll
<1>2. Becomes(g, Heap, Range(m_heap) \ {m_map[id]}, DOMAIN node)
  BY <1>1, PoppedIs
<1> HIDE DEF g
<1>3. m_map' = Without(m_map, id) /\ ReleaseNode(m_map[id], m_pool, g.node)
  BY <1>1
<1>4. /\ Accounted' /\ DOMAIN m_map' = DOMAIN m_map \ {id}
      /\ \A i \in DOMAIN m_map \ {id} : Kept(i)
  BY <1>1, <1>2, <1>3, TimerLeaves
<1>5. node[p].loop \in Int /\ node[p].loop # 0
  <2>1. p \in DOMAIN node /\ node \in [DOMAIN node -> NodeType] /\ node[p].loop # 0
    BY MapIs, SoundIs
  <2>2. QED
    BY <2>1 DEF NodeType
<1>6. node[p].loop = 1
  BY <1>5
<1>7. QED
  BY <1>1, <1>4, <1>6

(* Else the timer goes back into the heap, due its period later.           *)
LEMMA PollAgainKeeps ==
    ASSUME Accounted, Poll, node[m_heap[1]].loop < 0 \/ node[m_heap[1]].loop > 1,
           NEW id \in DOMAIN m_map, m_map[id] = m_heap[1], node[m_heap[1]].id = id
    PROVE  LET info == node[m_heap[1]]
           IN  /\ Accounted' /\ m_map' = m_map
               /\ \A i \in DOMAIN m_map \ {id} : Kept(i)
               /\ Facts(node'[m_map[id]]) =
                    [end_time |-> info.end_time + info.interval_ms,
                     loop |-> IF info.loop > 0 THEN info.loop - 1 ELSE info.loop,
                     interval_ms |-> info.interval_ms]
               /\ info.loop # 1 /\ answer' = <<"Poll", id>>
<1> DEFINE p == m_heap[1]
           info == node[p]
           popped == Pop(Heap)
           again == [popped EXCEPT !.node[p].end_time = @ + info.interval_ms,
                                   !.node[p].loop = IF @ > 1 THEN @ - 1 ELSE @]
           g == Push(again, p)
           P == DOMAIN node
           M == Range(m_heap)
           turn == [end_time |-> info.end_time + info.interval_ms, id |-> info.id,
                    heap_index |-> popped.node[p].heap_index,
                    loop |-> IF info.loop > 1 THEN info.loop - 1 ELSE info.loop,
                    interval_ms |-> info.interval_ms]
           nodes == [popped.node EXCEPT ![p] = turn]
<1>1. /\ m_heap # <<>> /\ m_heap' = g.elements /\ node' = g.node
      /\ answer' = <<"Poll", info.id>> /\ m_map' = m_map /\ m_pool' = m_pool
  BY DEF Poll
<1>2. /\ IsFiniteSet(P) /\ IsHeap(Heap, P) /\ Heap.elements = m_heap /\ Heap.node = node
      /\ node \in [P -> NodeType] /\ M = Range(m_map) /\ M \subseteq P
      /\ \A q \in P : node[q].loop # 0
      /\ m_pool \in Seq(P) /\ IsInjective(m_pool) /\ Range(m_pool) = P \ M
  BY SoundIs
<1>3. Becomes(popped, Heap, M \ {p}, P)
  BY <1>1, PoppedIs
<1>4. p \in M
  BY <1>1, PolledIs
<1> HIDE DEF P, M, popped
<1>5. /\ popped.node \in [P -> NodeType] /\ IsHeap(popped, P) /\ Range(popped.elements) = M \ {p}
      /\ \A q \in P : /\ popped.node[q].end_time = node[q].end_time
                      /\ popped.node[q].id = node[q].id
                      /\ popped.node[q].loop = node[q].loop
                      /\ popped.node[q].interval_ms = node[q].interval_ms
  BY <1>2, <1>3, BecomesIs
<1>6. /\ info.end_time \in Int /\ info.id \in Int /\ info.loop \in Int
      /\ info.interval_ms \in Int /\ info.loop # 0 /\ p \in P
  BY <1>2, <1>4 DEF NodeType
<1>7. turn \in NodeType /\ turn.loop # 0
  <2>1. popped.node[p].heap_index \in Nat
    BY <1>5, <1>6 DEF NodeType
  <2> HIDE DEF info
  <2>2. QED
    BY <1>6, <2>1 DEF NodeType
<1>8. again = [elements |-> popped.elements, node |-> nodes]
  <2> DEFINE n == popped.node[p]
  <2>1. n \in NodeType /\ popped \in HeapOf(P)
    BY <1>5, <1>6 DEF IsHeap
  <2>2. popped = [elements |-> popped.elements, node |-> popped.node]
    BY <2>1 DEF HeapOf
  <2>3. n = [end_time |-> info.end_time, id |-> info.id, heap_index |-> n.heap_index,
             loop |-> info.loop, interval_ms |-> info.interval_ms]
    BY <1>5, <1>6, <2>1 DEF NodeType
  <2> DEFINE t == info.end_time + info.interval_ms
             l == IF info.loop > 1 THEN info.loop - 1 ELSE info.loop
             later == [n EXCEPT !.end_time = t]
             after == [later EXCEPT !.loop = l]
  <2>4. after = turn
    <3> HIDE DEF n, info, t, l
    <3>1. later = [end_time |-> t, id |-> info.id, heap_index |-> n.heap_index,
                   loop |-> info.loop, interval_ms |-> info.interval_ms]
      BY <2>3
    <3> HIDE DEF later
    <3>2. after = [end_time |-> t, id |-> info.id, heap_index |-> n.heap_index,
                   loop |-> l, interval_ms |-> info.interval_ms]
      BY <3>1
    <3>3. QED
      BY <3>2 DEF n, t, l
  <2>5. n.end_time = info.end_time /\ n.loop = info.loop /\ later.loop = info.loop
    BY <2>3
  <2>6. again = [popped EXCEPT !.node[p].end_time = t, !.node[p].loop = l]
    <3> HIDE DEF info
    <3>1. popped.node[p].end_time = info.end_time /\ popped.node[p].loop = info.loop
      BY <1>5, <1>6 DEF info
    <3>2. QED
      BY <1>5, <1>6, <2>1, <2>2, <3>1
  <2> DEFINE once == [popped EXCEPT !.node[p].end_time = t]
             twice == [once EXCEPT !.node[p].loop = l]
  <2>7. again = twice
    BY <2>6
  <2> HIDE DEF t, l, again
  <2>8. once = [elements |-> popped.elements, node |-> [popped.node EXCEPT ![p] = later]]
    BY <2>2
  <2> HIDE DEF once, later
  <2>9. once.node = [popped.node EXCEPT ![p] = later]
        /\ once.elements = popped.elements /\ once.node[p] = later
    BY <1>5, <1>6, <2>8
  <2>10. twice = [elements |-> popped.elements, node |-> [once.node EXCEPT ![p] = after]]
    BY <2>8, <2>9
  <2> HIDE DEF after, turn, twice
  <2>11. [once.node EXCEPT ![p] = after] = [popped.node EXCEPT ![p] = after]
    BY <1>5, <1>6, <2>9
  <2>12. QED
    BY <2>4, <2>7, <2>10, <2>11
<1> DEFINE a == [elements |-> popped.elements, node |-> nodes]
<1> HIDE DEF again, turn, info
<1>9. /\ nodes \in [P -> NodeType] /\ nodes[p] = turn
      /\ \A q \in P : q # p => nodes[q] = popped.node[q]
  BY <1>5, <1>6, <1>7
<1> HIDE DEF nodes
<1>10. /\ IsHeap(a, P) /\ a.elements = popped.elements /\ a.node = nodes
  <2>1. a.elements = popped.elements /\ a.node = nodes
    OBVIOUS
  <2>2. Range(popped.elements) \subseteq P
        /\ \A q \in Range(popped.elements) : nodes[q] = popped.node[q]
    BY <1>2, <1>5, <1>9
  <2>3. IsHeap(a, P)
    BY <1>5, <1>9, <2>2, HeapWithin
  <2>4. QED
    BY <2>1, <2>3
<1> HIDE DEF a, p
<1>11. Becomes(g, a, M, P)
  <2>1. g = Push(a, p)
    BY <1>8 DEF a
  <2>2. p \notin Range(a.elements) /\ Range(a.elements) \cup {p} = M
    BY <1>4, <1>5, <1>10
  <2>3. Becomes(Push(a, p), a, Range(a.elements) \cup {p}, P)
    BY <1>6, <1>10, <2>2, PushIs
  <2>4. QED
    BY <2>1, <2>2, <2>3
<1> HIDE DEF g
<1>12. /\ IsHeap(g, P) /\ Range(g.elements) = M
       /\ \A q \in P : /\ g.node[q].end_time = nodes[q].end_time
                       /\ g.node[q].id = nodes[q].id
                       /\ g.node[q].loop = nodes[q].loop
                       /\ g.node[q].interval_ms = nodes[q].interval_ms
  BY <1>10, <1>11, BecomesIs
<1>13. \A q \in P : q # p => /\ g.node[q].end_time = node[q].end_time
                             /\ g.node[q].id = node[q].id
                             /\ g.node[q].loop = node[q].loop
                             /\ g.node[q].interval_ms = node[q].interval_ms
  BY <1>5, <1>9, <1>12
<1>14. /\ g.node[p].end_time = info.end_time + info.interval_ms
       /\ g.node[p].id = info.id
       /\ g.node[p].loop = IF info.loop > 1 THEN info.loop - 1 ELSE info.loop
       /\ g.node[p].interval_ms = info.interval_ms
  BY <1>6, <1>9, <1>12 DEF turn
<1>15. \A q \in P : g.node[q].loop # 0 /\ g.node[q].id = node[q].id
  <2>1. g.node[p].loop # 0
    BY <1>6, <1>14
  <2>2. g.node[p].id = node[p].id
    BY <1>14 DEF info
  <2>3. QED
    BY <1>2, <1>13, <2>1, <2>2
<1>16. \A i \in DOMAIN m_map : m_map[i] \in P /\ (i # id => m_map[i] # m_map[id])
  BY MapIs DEF P
<1>17. Mapped(m_map', node')
  BY <1>1, <1>15, <1>16 DEF Accounted, Mapped
<1>18. Accounted'
  BY <1>1, <1>2, <1>12, <1>15, <1>17, NextIsSound
<1>19. ASSUME NEW i \in DOMAIN m_map \ {id} PROVE Kept(i)
  <2>1. m_map[i] \in P /\ m_map[i] # p
    BY <1>16 DEF p
  <2>2. QED
    BY <1>1, <1>13, <2>1 DEF Kept, Facts
<1>20. info.loop # 1 /\ (info.loop > 1 <=> info.loop > 0)
  BY <1>6 DEF info, p
<1>21. Facts(node'[m_map[id]]) =
          [end_time |-> info.end_time + info.interval_ms,
           loop |-> IF info.loop > 0 THEN info.loop - 1 ELSE info.loop,
           interval_ms |-> info.interval_ms]
  BY <1>1, <1>14, <1>20 DEF Facts, p
<1>22. QED
  BY <1>1, <1>18, <1>19, <1>20, <1>21 DEF info, p

-----------------------------------------------------------------------------
(* The invariant.                                                          *)

LEMMA InitEmpty == Init => IInv
<1> SUFFICES ASSUME Init PROVE IInv
  OBVIOUS
<1>1. m_heap = <<>> /\ m_pool = <<>> /\ m_map = <<>> /\ node = <<>>
  BY DEF Init
<1>2. DOMAIN node = {} /\ node \in [{} -> NodeType] /\ m_heap = <<>>
  BY <1>1, EmptyIs
<1>3. Heap \in HeapOf({}) /\ Heap.elements = <<>>
  BY <1>1, <1>2 DEF Heap, HeapOf
<1>4. IsHeap(Heap, {})
  BY <1>3, EmptyIs DEF IsHeap, InPlace, Ascending
<1>5. Range(m_heap) = {} /\ Range(m_pool) = {} /\ Range(m_map) = {}
      /\ IsInjective(m_pool) /\ m_pool \in Seq({})
  BY <1>1, EmptyIs DEF Range, IsInjective
<1>6. Heap.elements = m_heap /\ Heap.node = node /\ IsFiniteSet({})
  BY FS_EmptySet DEF Heap
<1>7. Sound(Heap, m_pool, Range(m_map))
  BY <1>2, <1>4, <1>5, <1>6 DEF Sound
<1>8. m_map = [id \in DOMAIN m_map |-> m_map[id]] /\ DOMAIN m_map = {}
  BY <1>1, EmptyIs
<1>9. Mapped(m_map, node)
  BY <1>8 DEF Mapped, IsInjective
<1>10. QED
  BY <1>7, <1>9 DEF Init, IInv, Accounted

(* A call that leaves the timers alone.                                    *)
LEMMA NothingKeeps ==
    ASSUME IInv, UNCHANGED <<m_max_id, m_heap, m_pool, m_map, node, limit>>,
           m_cur_time' \in Int
    PROVE  IInv'
<1>1. Heap' = Heap
  BY DEF Heap
<1>2. Accounted => Accounted'
  BY <1>1 DEF Accounted
<1>3. Cleared => Cleared'
  BY DEF Cleared
<1>4. QED
  BY <1>2, <1>3 DEF IInv

LEMMA StepKeeps == IInv /\ [Next]_vars => IInv'
<1> SUFFICES ASSUME IInv, [Next]_vars PROVE IInv'
  OBVIOUS
<1>1. /\ m_cur_time \in Int /\ m_max_id \in Nat /\ limit \in Limits
  BY DEF IInv
<1>2. ASSUME NEW delay_ms \in limit.delays, NEW loop \in limit.loops,
             NEW interval_ms \in limit.intervals, Add(delay_ms, loop, interval_ms)
      PROVE  IInv'
  <2>1. delay_ms \in Int /\ loop \in Int /\ interval_ms \in Int
    BY LimitsAre
  <2>2. Accounted' /\ m_max_id' \in Nat /\ UNCHANGED <<m_cur_time, limit>>
    BY <1>2, <2>1, AddKeeps
  <2>3. QED
    BY <1>1, <2>2 DEF IInv
<1>3. ASSUME NEW delay_ms \in limit.delays, NEW loop \in limit.loops,
             NEW interval_ms \in limit.intervals, AddFails(delay_ms, loop, interval_ms)
      PROVE  IInv'
  <2>1. delay_ms \in Int /\ loop \in Int /\ interval_ms \in Int
    BY LimitsAre
  <2>2. Accounted' /\ m_max_id' \in Nat /\ UNCHANGED <<m_cur_time, limit>>
    BY <1>3, <2>1, AddFailsKeeps
  <2>3. QED
    BY <1>1, <2>2 DEF IInv
<1>4. ASSUME NEW id, Remove(id) PROVE IInv'
  <2>1. CASE id \in DOMAIN m_map
    <3>1. Accounted'
      BY <1>4, <2>1, RemoveKeeps
    <3>2. UNCHANGED <<m_cur_time, m_max_id, limit>>
      BY <1>4 DEF Remove
    <3>3. QED
      BY <1>1, <3>1, <3>2 DEF IInv
  <2>2. CASE id \notin DOMAIN m_map
    <3>1. UNCHANGED <<m_cur_time, m_max_id, m_heap, m_pool, m_map, node, limit>>
      BY <1>4, <2>2 DEF Remove
    <3>2. QED
      BY <1>1, <3>1, NothingKeeps
  <2>3. QED
    BY <2>1, <2>2
<1>5. ASSUME NEW frame_time \in limit.frames, Update(frame_time) PROVE IInv'
  <2>1. frame_time \in Int
    BY LimitsAre
  <2>2. m_cur_time' \in Int
    BY <1>1, <1>5, <2>1 DEF Update
  <2>3. QED
    BY <1>5, <2>2, NothingKeeps DEF Update
<1>6. ASSUME NEW time \in limit.clocks, UpdateCurTime(time) PROVE IInv'
  <2>1. m_cur_time' \in Int
    BY <1>6, LimitsAre DEF UpdateCurTime
  <2>2. QED
    BY <1>6, <2>1, NothingKeeps DEF UpdateCurTime
<1>7. CASE PollNothing
  BY <1>1, <1>7, NothingKeeps DEF PollNothing
<1>8. CASE Poll
  <2>1. Accounted /\ m_heap # <<>> /\ UNCHANGED <<m_cur_time, m_max_id, limit>>
    BY <1>8, IsAccounted DEF Poll
  <2>2. PICK id \in DOMAIN m_map : m_map[id] = m_heap[1] /\ node[m_heap[1]].id = id
    BY <2>1, PolledIs
  <2>3. CASE node[m_heap[1]].loop < 0 \/ node[m_heap[1]].loop > 1
    BY <1>1, <1>8, <2>1, <2>2, <2>3, PollAgainKeeps DEF IInv
  <2>4. CASE ~(node[m_heap[1]].loop < 0 \/ node[m_heap[1]].loop > 1)
    BY <1>1, <1>8, <2>1, <2>2, <2>4, PollLastKeeps DEF IInv
  <2>5. QED
    BY <2>3, <2>4
<1>9. CASE Clear
  <2>1. (Accounted \/ Cleared)'
    BY <1>9, ClearKeeps
  <2>2. UNCHANGED <<m_cur_time, m_max_id, limit>>
    BY <1>9 DEF Clear
  <2>3. QED
    BY <1>1, <2>1, <2>2 DEF IInv
<1>10. CASE UNCHANGED vars
  BY <1>1, <1>10, NothingKeeps DEF vars
<1>11. QED
  BY <1>2, <1>3, <1>4, <1>5, <1>6, <1>7, <1>8, <1>9, <1>10 DEF Next

(* The invariant of carp_timer.hpp: m_heap is in order, with every node at *)
(* the place written in it, and the nodes are accounted for, or Clear has  *)
(* left pointers in m_heap.                                                *)
THEOREM TimerIsSound == Spec => []IInv
  BY InitEmpty, StepKeeps, PTL DEF Spec

(* Whatever is added, removed, polled and cleared, in any order: every     *)
(* node of carp_timer.hpp is a timer's, at its place in m_heap and under   *)
(* its id in m_map, or it is in m_pool, and only once in either.           *)
THEOREM NodesAreAccounted == Spec => []NodesAccounted
  BY TimerIsSound, InvariantImplies, PTL

-----------------------------------------------------------------------------
(* The timer implements the queue.                                         *)

LEMMA EmptyFunction ==
    ASSUME NEW f, DOMAIN f = {}, f = [x \in {} |-> f[x]]
    PROVE  f = <<>>
<1>1. f \in Seq({}) /\ Len(f) = 0
  <2>1. 1..0 = {}
    OBVIOUS
  <2>2. f \in [1..0 -> {}]
    BY <2>1
  <2>3. QED
    BY <2>2, FunctionIsSeq
<1>2. QED
  BY <1>1

LEMMA TimersAre ==
    /\ Timers = [id \in DOMAIN m_map |-> Facts(node[m_map[id]])]
    /\ Timers' = [id \in DOMAIN m_map' |-> Facts(node'[m_map'[id]])]
  BY DEF Timers, Facts

LEMMA AddMaps ==
    ASSUME IInv, NEW delay_ms \in Int, NEW loop \in Int, NEW interval_ms \in Int,
           Add(delay_ms, loop, interval_ms)
    PROVE  \E id \in DOMAIN Timers' : Queue!Add(id, Timers'[id])
<1>1. PICK id \in Nat \ {0} :
          /\ id \notin DOMAIN m_map /\ DOMAIN m_map' = DOMAIN m_map \cup {id}
          /\ answer' = <<"Add", id>> /\ \A i \in DOMAIN m_map : Kept(i)
  BY AddKeeps
<1>2. UNCHANGED m_cur_time
  BY AddKeeps
<1>3. /\ DOMAIN Timers = DOMAIN m_map /\ DOMAIN Timers' = DOMAIN m_map'
      /\ \A i \in DOMAIN m_map : Timers'[i] = Timers[i]
  BY <1>1, TimersAre DEF Kept
<1>4. Timers' = [i \in DOMAIN Timers \cup {id} |-> Timers'[i]]
  BY <1>1, <1>3, TimersAre
<1> DEFINE new == Timers'[id]
<1>5. Timers' = [i \in DOMAIN Timers \cup {id} |-> IF i = id THEN new ELSE Timers[i]]
  <2>1. \A i \in DOMAIN Timers \cup {id} :
            Timers'[i] = IF i = id THEN new ELSE Timers[i]
    BY <1>3
  <2>2. QED
    BY <1>4, <2>1
<1> HIDE DEF new
<1>6. Queue!Add(id, new)
  BY <1>1, <1>2, <1>3, <1>5 DEF Queue!Add
<1>7. QED
  BY <1>1, <1>3, <1>6 DEF new

(* A timer leaves the queue.                                               *)
LEMMA LeavesQueue ==
    ASSUME NEW id, DOMAIN m_map' = DOMAIN m_map \ {id},
           \A i \in DOMAIN m_map \ {id} : Kept(i)
    PROVE  Timers' = Queue!Without(id)
  BY TimersAre DEF Kept, Queue!Without

LEMMA SameQueue ==
    ASSUME m_map' = m_map, \A i \in DOMAIN m_map : Kept(i)
    PROVE  Timers' = Timers
  BY TimersAre DEF Kept

LEMMA RemoveMaps ==
    ASSUME IInv, NEW id \in DOMAIN m_map \cup {0}, Remove(id)
    PROVE  Queue!Remove(id) /\ id \in DOMAIN Timers \cup {0}
<1>1. DOMAIN Timers = DOMAIN m_map
  BY TimersAre
<1>2. UNCHANGED m_cur_time
  BY DEF Remove
<1>3. CASE id \in DOMAIN m_map
  <2>1. Timers' = Queue!Without(id)
    BY <1>3, RemoveKeeps, LeavesQueue
  <2>2. answer' = <<"Remove", id>>
    BY <1>3 DEF Remove
  <2>3. QED
    BY <1>1, <1>2, <1>3, <2>1, <2>2 DEF Queue!Remove
<1>4. CASE id \notin DOMAIN m_map
  <2>1. answer' = <<"Remove", 0>> /\ UNCHANGED <<m_map, node>>
    BY <1>4 DEF Remove
  <2>2. Timers' = Queue!Without(id)
    BY <1>4, <2>1, LeavesQueue DEF Kept
  <2>3. QED
    BY <1>1, <1>2, <1>4, <2>1, <2>2 DEF Queue!Remove
<1>5. QED
  BY <1>3, <1>4

LEMMA PollNothingMaps ==
    ASSUME IInv, PollNothing
    PROVE  Queue!PollNone
<1>1. /\ Accounted /\ answer' = <<"Poll", 0>> /\ UNCHANGED <<m_cur_time, m_map, node>>
      /\ m_cur_time \in Int
      /\ m_heap # <<>> => node[m_heap[1]].end_time > m_cur_time
  BY IsAccounted DEF PollNothing, IInv
<1>2. UNCHANGED Timers
  BY <1>1 DEF Timers
<1>3. ASSUME NEW id \in DOMAIN m_map PROVE ~(node[m_map[id]].end_time <= m_cur_time)
  <2>1. /\ m_map[id] \in Range(m_heap) /\ node \in [DOMAIN node -> NodeType]
        /\ Range(m_heap) \subseteq DOMAIN node
    BY <1>1, MapIs, SoundIs
  <2>2. m_heap # <<>>
    BY <2>1, EmptyIs DEF Range
  <2>3. m_heap[1] \in Range(m_heap)
        /\ node[m_heap[1]].end_time <= node[m_map[id]].end_time
    BY <1>1, <2>2, PolledIs
  <2>4. PICK a \in Int, b \in Int : a = node[m_heap[1]].end_time /\ b = node[m_map[id]].end_time
    BY <2>1, <2>3 DEF NodeType
  <2>5. QED
    BY <1>1, <2>2, <2>3, <2>4
<1>4. \A id \in DOMAIN Timers : ~Queue!Due(id)
  BY <1>3, TimersAre DEF Queue!Due, Facts
<1>5. QED
  BY <1>1, <1>2, <1>4 DEF Queue!PollNone

LEMMA PollMaps ==
    ASSUME IInv, Poll
    PROVE  \E id \in DOMAIN Timers : Queue!Poll(id)
<1>1. Accounted /\ m_heap # <<>> /\ UNCHANGED m_cur_time
  BY IsAccounted DEF Poll
<1>2. PICK id \in DOMAIN m_map :
          /\ m_map[id] = m_heap[1] /\ node[m_heap[1]].id = id
          /\ \A other \in DOMAIN m_map :
                node[m_heap[1]].end_time <= node[m_map[other]].end_time
  BY <1>1, PolledIs
<1> DEFINE info == node[m_heap[1]]
<1>3. DOMAIN Timers = DOMAIN m_map /\ Timers[id] = Facts(info)
  BY <1>2, TimersAre
<1>4. Queue!Due(id)
  BY <1>3 DEF Queue!Due, Facts, Poll
<1>5. \A other \in DOMAIN Timers : Timers[id].end_time <= Timers[other].end_time
  BY <1>2, <1>3, TimersAre DEF Facts
<1>6. CASE ~(info.loop < 0 \/ info.loop > 1)
  <2>1. /\ DOMAIN m_map' = DOMAIN m_map \ {id} /\ \A i \in DOMAIN m_map \ {id} : Kept(i)
        /\ info.loop = 1 /\ answer' = <<"Poll", -id>>
    BY <1>1, <1>2, <1>6, PollLastKeeps
  <2>2. Timers' = Queue!Without(id)
    BY <2>1, LeavesQueue
  <2>3. Timers[id].loop = 1
    BY <1>3, <2>1 DEF Facts
  <2>4. Queue!Poll(id)
    BY <1>1, <1>4, <1>5, <2>1, <2>2, <2>3 DEF Queue!Poll
  <2>5. QED
    BY <1>3, <2>4
<1>7. CASE info.loop < 0 \/ info.loop > 1
  <2>1. /\ m_map' = m_map /\ \A i \in DOMAIN m_map \ {id} : Kept(i)
        /\ Facts(node'[m_map[id]]) =
             [end_time |-> info.end_time + info.interval_ms,
              loop |-> IF info.loop > 0 THEN info.loop - 1 ELSE info.loop,
              interval_ms |-> info.interval_ms]
        /\ info.loop # 1 /\ answer' = <<"Poll", id>>
    BY <1>1, <1>2, <1>7, PollAgainKeeps
  <2> DEFINE timer == Timers[id]
             again == [timer EXCEPT !.end_time = @ + timer.interval_ms,
                                    !.loop = IF @ > 0 THEN @ - 1 ELSE @]
  <2>2. again = [end_time |-> info.end_time + info.interval_ms,
                 loop |-> IF info.loop > 0 THEN info.loop - 1 ELSE info.loop,
                 interval_ms |-> info.interval_ms]
    <3> HIDE DEF info
    <3>1. timer = [end_time |-> info.end_time, loop |-> info.loop,
                   interval_ms |-> info.interval_ms]
      BY <1>3 DEF Facts
    <3> DEFINE later == [timer EXCEPT !.end_time = @ + timer.interval_ms]
    <3>2. later = [end_time |-> info.end_time + info.interval_ms, loop |-> info.loop,
                   interval_ms |-> info.interval_ms]
      BY <3>1
    <3>3. again = [later EXCEPT !.loop = IF @ > 0 THEN @ - 1 ELSE @]
      BY <3>1
    <3> HIDE DEF timer, later, again
    <3>4. QED
      BY <3>2, <3>3
  <2> HIDE DEF again
  <2>3. Timers'[id] = again
    BY <2>1, <2>2, TimersAre
  <2>4. \A i \in DOMAIN m_map \ {id} : Timers'[i] = Timers[i]
    BY <2>1, TimersAre DEF Kept
  <2>5. Timers' = [Timers EXCEPT ![id] = again]
    <3>1. DOMAIN Timers' = DOMAIN m_map /\ Timers' = [i \in DOMAIN m_map |-> Timers'[i]]
      BY <2>1, TimersAre
    <3>2. Timers = [i \in DOMAIN m_map |-> Timers[i]]
      BY TimersAre
    <3>3. QED
      BY <2>3, <2>4, <3>1, <3>2
  <2>6. timer.loop # 1
    BY <1>3, <2>1 DEF Facts
  <2>7. Queue!Poll(id)
    BY <1>1, <1>4, <1>5, <2>1, <2>5, <2>6 DEF Queue!Poll, again
  <2>8. QED
    BY <1>3, <2>7
<1>8. QED
  BY <1>6, <1>7

LEMMA StepMaps == IInv /\ [Next]_vars => [Queue!Next]_(Queue!vars)
<1> SUFFICES ASSUME IInv, [Next]_vars PROVE [Queue!Next]_(Queue!vars)
  OBVIOUS
<1>1. ASSUME NEW delay_ms \in limit.delays, NEW loop \in limit.loops,
             NEW interval_ms \in limit.intervals, Add(delay_ms, loop, interval_ms)
      PROVE  Queue!Next
  <2>1. delay_ms \in Int /\ loop \in Int /\ interval_ms \in Int
    BY LimitsAre
  <2>2. QED
    BY <1>1, <2>1, AddMaps DEF Queue!Next
<1>2. ASSUME NEW delay_ms \in limit.delays, NEW loop \in limit.loops,
             NEW interval_ms \in limit.intervals, AddFails(delay_ms, loop, interval_ms)
      PROVE  Queue!Next
  <2>1. delay_ms \in Int /\ loop \in Int /\ interval_ms \in Int
    BY LimitsAre
  <2>2. /\ answer' = <<"Add", 0>> /\ UNCHANGED <<m_cur_time, m_map>>
        /\ \A i \in DOMAIN m_map : Kept(i)
    BY <1>2, <2>1, AddFailsKeeps
  <2>3. Timers' = Timers
    BY <2>2, SameQueue
  <2>4. QED
    BY <2>2, <2>3 DEF Queue!Next, Queue!AddRefused
<1>3. ASSUME NEW id \in DOMAIN m_map \cup {0}, Remove(id) PROVE Queue!Next
  BY <1>3, RemoveMaps DEF Queue!Next
<1>4. ASSUME NEW frame_time \in limit.frames, Update(frame_time) PROVE Queue!Next
  <2>1. frame_time \in Int /\ m_cur_time \in Int
    BY LimitsAre DEF IInv
  <2>2. m_cur_time' \in Int /\ answer' = <<"Update", 0>> /\ UNCHANGED <<m_map, node>>
    BY <1>4, <2>1 DEF Update
  <2>3. Timers' = Timers
    BY <2>2 DEF Timers
  <2>4. QED
    BY <2>2, <2>3 DEF Queue!Next, Queue!SetTime
<1>5. ASSUME NEW time \in limit.clocks, UpdateCurTime(time) PROVE Queue!Next
  <2>1. m_cur_time' \in Int /\ answer' = <<"Update", 0>> /\ UNCHANGED <<m_map, node>>
    BY <1>5, LimitsAre DEF UpdateCurTime
  <2>2. Timers' = Timers
    BY <2>1 DEF Timers
  <2>3. QED
    BY <2>1, <2>2 DEF Queue!Next, Queue!SetTime
<1>6. CASE PollNothing
  BY <1>6, PollNothingMaps DEF Queue!Next
<1>7. CASE Poll
  BY <1>7, PollMaps DEF Queue!Next
<1>8. CASE Clear
  <2>1. m_map' = <<>> /\ answer' = <<"Clear", 0>> /\ UNCHANGED m_cur_time
    BY <1>8 DEF Clear
  <2>2. DOMAIN Timers' = {} /\ Timers' = [id \in {} |-> Timers'[id]]
    BY <2>1, EmptyIs, TimersAre
  <2>3. Timers' = <<>>
    BY <2>2, EmptyFunction
  <2>4. QED
    BY <2>1, <2>3 DEF Queue!Next, Queue!Clear
<1>9. CASE UNCHANGED vars
  BY <1>9 DEF vars, Queue!vars, Timers
<1>10. QED
  BY <1>1, <1>2, <1>3, <1>4, <1>5, <1>6, <1>7, <1>8, <1>9 DEF Next

(* CarpTimer does what its comments say (carp_timer.hpp:38-41, 104-107):   *)
(* whatever is called, Poll reports a timer that is due, the earliest of   *)
(* them, under the id that Add gave it, as often as it was asked to, or    *)
(* that there is none.                                                     *)
THEOREM TimerImplementsQueue == Spec => EarliestFirst
<1>1. Init => Queue!Init
  <2> SUFFICES ASSUME Init PROVE Queue!Init
    OBVIOUS
  <2>1. m_map = <<>> /\ m_cur_time = 0 /\ answer = <<"none", 0>>
    BY DEF Init
  <2>2. DOMAIN Timers = {} /\ Timers = [id \in {} |-> Timers[id]]
    BY <2>1, EmptyIs, TimersAre
  <2>3. Timers = <<>>
    BY <2>2, EmptyFunction
  <2>4. QED
    BY <2>1, <2>3 DEF Queue!Init
<1>2. QED
  BY <1>1, InitEmpty, StepKeeps, StepMaps, PTL DEF Spec, EarliestFirst, Queue!Spec
=============================================================================
