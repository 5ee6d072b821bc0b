---------------------------- MODULE SequenceFacts ----------------------------
(***************************************************************************)
(* Facts about sequences: two that form one queue, their elements when one *)
(* is appended or taken, and functions that are sequences.  And about what *)
(* a recursive function or a fold computes, by induction: the library's    *)
(* theorems are of predicates, which the provers cannot instantiate; these *)
(* are of sets.                                                            *)
(***************************************************************************)
EXTENDS SequenceTheorems, FiniteSetTheorems, WellFoundedInduction, TLAPS

(* What is appended to the second sequence is appended to the whole.       *)
LEMMA AppendConcat ==
    ASSUME NEW S, NEW s \in Seq(S), NEW t \in Seq(S), NEW e \in S
    PROVE  s \o Append(t, e) = Append(s \o t, e)
<1>1. /\ Append(t, e) \in Seq(S) /\ s \o t \in Seq(S)
      /\ Append(s \o t, e) \in Seq(S) /\ s \o Append(t, e) \in Seq(S)
  OBVIOUS
<1>2. Len(s \o Append(t, e)) = Len(Append(s \o t, e))
  OBVIOUS
<1>3. \A i \in 1 .. Len(s \o Append(t, e)) :
         (s \o Append(t, e))[i] = Append(s \o t, e)[i]
  OBVIOUS
<1>4. QED
  BY <1>1, <1>2, <1>3, SeqEqual, Zenon

(* The empty sequence adds nothing on either side.                         *)
LEMMA EmptyConcat ==
    ASSUME NEW S, NEW s \in Seq(S)
    PROVE  <<>> \o s = s /\ s \o <<>> = s
  OBVIOUS

(* The head is taken from the first sequence while it has one.             *)
LEMMA HeadTailConcat ==
    ASSUME NEW S, NEW s \in Seq(S), NEW t \in Seq(S), s # <<>>
    PROVE  /\ s \o t # <<>>
           /\ Head(s \o t) = Head(s)
           /\ Tail(s \o t) = Tail(s) \o t
<1>1. /\ s \o t \in Seq(S) /\ Tail(s) \in Seq(S) /\ Len(s) > 0
      /\ Len(Tail(s)) = Len(s) - 1 /\ Len(s \o t) = Len(s) + Len(t)
  OBVIOUS
<1>2. s \o t # <<>>
  BY <1>1
<1>3. Head(s \o t) = Head(s)
  BY <1>1, <1>2
<1>4. /\ Tail(s \o t) \in Seq(S) /\ Tail(s) \o t \in Seq(S)
      /\ Len(Tail(s \o t)) = Len(Tail(s) \o t)
  BY <1>1, <1>2
<1>5. \A i \in 1 .. Len(Tail(s \o t)) : Tail(s \o t)[i] = (Tail(s) \o t)[i]
  BY <1>1, <1>2, <1>4
<1>6. QED
  BY <1>2, <1>3, <1>4, <1>5, SeqEqual, Zenon

(* What is left when the head is taken, and the head itself.               *)
LEMMA HeadTailIn ==
    ASSUME NEW S, NEW s \in Seq(S), s # <<>>
    PROVE  Tail(s) \in Seq(S) /\ Head(s) \in S
  OBVIOUS

(* What is appended is of the sequence's set.                              *)
LEMMA AppendIn ==
    ASSUME NEW S, NEW s \in Seq(S), NEW e \in S
    PROVE  Append(s, e) \in Seq(S)
  OBVIOUS

(* A function from the first n numbers is a sequence.                      *)
LEMMA FunctionIsSeq ==
    ASSUME NEW S, NEW n \in Nat, NEW f \in [1 .. n -> S]
    PROVE  f \in Seq(S) /\ Len(f) = n
<1>1. f \in Seq(S)
  BY SeqDef, Zenon
<1>2. DOMAIN f = 1 .. Len(f) /\ Len(f) \in Nat
  BY <1>1, LenProperties, Zenon
<1>3. QED
  BY <1>1, <1>2

(* What is appended to the empty sequence is all there is.                 *)
LEMMA SingleIs ==
    ASSUME NEW e
    PROVE  /\ Append(<<>>, e) # <<>> /\ Len(Append(<<>>, e)) = 1
           /\ DOMAIN Append(<<>>, e) = {1} /\ Append(<<>>, e)[1] = e
<1> DEFINE S == {e}
<1>1. <<>> \in Seq(S) /\ Len(<<>>) = 0 /\ e \in S
  OBVIOUS
<1>2. /\ Append(<<>>, e) \in Seq(S) /\ Len(Append(<<>>, e)) = 1
      /\ Append(<<>>, e)[1] = e
  BY <1>1
<1>3. QED
  BY <1>2

(* The empty sequence has no element.                                      *)
LEMMA EmptyIs == DOMAIN <<>> = {} /\ Len(<<>>) = 0
  OBVIOUS

(* The elements of a sequence to which one is appended.                    *)
LEMMA AppendIs ==
    ASSUME NEW S, NEW s \in Seq(S), NEW e \in S
    PROVE  LET t == Append(s, e)
           IN  /\ t \in Seq(S) /\ t # <<>> /\ Len(t) = Len(s) + 1
               /\ Len(s) + 1 \in DOMAIN t /\ t[Len(s) + 1] = e
               /\ \A i \in DOMAIN s : i \in DOMAIN t /\ t[i] = s[i]
               /\ \A i \in DOMAIN t :
                     \/ i \in DOMAIN s /\ t[i] = s[i]
                     \/ i = Len(s) + 1 /\ t[i] = e
<1> DEFINE t == Append(s, e)
<1>1. /\ t \in Seq(S) /\ Len(t) = Len(s) + 1 /\ t[Len(s) + 1] = e
      /\ Len(s) \in Nat /\ DOMAIN s = 1 .. Len(s)
      /\ \A i \in 1 .. Len(s) : t[i] = s[i]
  BY AppendProperties
<1>2. DOMAIN t = 1 .. (Len(s) + 1) /\ t # <<>>
  BY <1>1
<1> HIDE DEF t
<1>3. QED
  BY <1>1, <1>2 DEF t

(* The elements of what is left when the head is taken.                    *)
LEMMA TailIs ==
    ASSUME NEW S, NEW s \in Seq(S), s # <<>>
    PROVE  LET t == Tail(s)
           IN  /\ t \in Seq(S) /\ Head(s) \in S /\ Head(s) = s[1]
               /\ Len(s) \in Nat /\ Len(t) = Len(s) - 1
               /\ DOMAIN s = 1 .. Len(s) /\ 1 \in DOMAIN s
               /\ \A i \in DOMAIN t :
                     i \in Nat /\ i >= 1 /\ i + 1 \in DOMAIN s /\ t[i] = s[i + 1]
               /\ \A i \in DOMAIN s : i = 1 \/ i - 1 \in DOMAIN t
<1> DEFINE t == Tail(s)
<1>1. /\ t \in Seq(S) /\ Len(t) = Len(s) - 1 /\ Head(s) = s[1] /\ Head(s) \in S
      /\ \A i \in 1 .. Len(t) : t[i] = s[i + 1]
  BY HeadTailProperties
<1>2. /\ Len(s) \in Nat /\ Len(s) >= 1 /\ DOMAIN s = 1 .. Len(s)
      /\ DOMAIN t = 1 .. Len(t)
  BY <1>1
<1> HIDE DEF t
<1>3. QED
  BY <1>1, <1>2 DEF t

(* The elements of two sequences put together.                             *)
LEMMA ConcatElements ==
    ASSUME NEW S, NEW s \in Seq(S), NEW t \in Seq(S)
    PROVE  /\ s \o t \in Seq(S)
           /\ \A i \in DOMAIN (s \o t) :
                 \/ \E j \in DOMAIN s : (s \o t)[i] = s[j]
                 \/ \E j \in DOMAIN t : (s \o t)[i] = t[j]
           /\ \A j \in DOMAIN s : j \in DOMAIN (s \o t) /\ (s \o t)[j] = s[j]
<1> DEFINE u == s \o t
<1>1. /\ u \in Seq(S) /\ Len(u) = Len(s) + Len(t)
      /\ \A i \in 1 .. Len(s) + Len(t) :
            u[i] = IF i <= Len(s) THEN s[i] ELSE t[i - Len(s)]
  BY ConcatProperties
<1>2. /\ Len(s) \in Nat /\ Len(t) \in Nat /\ DOMAIN s = 1 .. Len(s)
      /\ DOMAIN t = 1 .. Len(t) /\ DOMAIN u = 1 .. (Len(s) + Len(t))
  BY <1>1
<1> HIDE DEF u
<1>3. ASSUME NEW i \in DOMAIN u
      PROVE  \/ \E j \in DOMAIN s : u[i] = s[j]
             \/ \E j \in DOMAIN t : u[i] = t[j]
  <2>1. CASE i <= Len(s)
    <3>1. i \in DOMAIN s /\ u[i] = s[i]
      BY <1>1, <1>2, <2>1
    <3>2. QED
      BY <3>1
  <2>2. CASE ~(i <= Len(s))
    <3>1. i - Len(s) \in DOMAIN t /\ u[i] = t[i - Len(s)]
      BY <1>1, <1>2, <2>2
    <3>2. QED
      BY <3>1
  <2>3. QED
    BY <2>1, <2>2
<1>4. \A j \in DOMAIN s : j \in DOMAIN u /\ u[j] = s[j]
  BY <1>1, <1>2
<1>5. QED
  BY <1>1, <1>3, <1>4 DEF u

(* Sequences that are written out.                                         *)
LEMMA WrittenOut ==
    ASSUME NEW S, NEW d \in S, NEW e \in S
    PROVE  /\ <<e>> \in Seq(S) /\ Len(<<e>>) = 1 /\ <<e>>[1] = e
           /\ <<d, e>> \in Seq(S) /\ Len(<<d, e>>) = 2
           /\ <<d, e>>[1] = d /\ <<d, e>>[2] = e
<1>1. <<e>> \in Seq(S) /\ Len(<<e>>) = 1 /\ <<e>>[1] = e
  OBVIOUS
<1>2. /\ <<d, e>> \in Seq(S) /\ Len(<<d, e>>) = 2
      /\ <<d, e>>[1] = d /\ <<d, e>>[2] = e
  OBVIOUS
<1>3. QED
  BY <1>1, <1>2

-----------------------------------------------------------------------------
(* What 0 has, and n + 1 whenever n has it, all numbers have.              *)
LEMMA NatInductionOverSet ==
    ASSUME NEW S, 0 \in S, \A n \in Nat : n \in S => n + 1 \in S
    PROVE  Nat \subseteq S
<1> DEFINE T == Nat \ S
           below == {ss \in Nat \X Nat : ss[1] < ss[2]}
<1>1. SUFFICES ASSUME T # {} PROVE FALSE
  OBVIOUS
<1>2. IsWellFoundedOn(below, Nat)
  BY NatLessThanWellFounded DEF OpToRel
<1>3. \A x, y \in Nat : x < y => <<x, y>> \in below
  OBVIOUS
<1> HIDE DEF below
<1>4. PICK x \in T : \A y \in T : ~(<<y, x>> \in below)
  BY <1>1, <1>2, WFMin
<1>5. x \in Nat /\ x # 0 /\ x \notin S
  BY <1>4
<1>6. x - 1 \in Nat /\ x - 1 \notin S
  BY <1>5
<1>7. <<x - 1, x>> \in below
  BY <1>3, <1>5, <1>6
<1>8. QED
  BY <1>4, <1>6, <1>7

(* A value that is made in n steps, each from the one before, exists.      *)
IsStep(step, n, V) == step \in [1..n -> [V -> V]]

MadeBy(f, step, base, n, V) ==
    /\ f \in [0..n -> V] /\ f[0] = base
    /\ \A k \in 1..n : f[k] = step[k][f[k - 1]]

LEMMA StepsExist ==
    ASSUME NEW V, NEW base, base \in V, NEW n \in Nat, NEW step, IsStep(step, n, V)
    PROVE  \E f : MadeBy(f, step, base, n, V)
<1> DEFINE Good(f, m) == f[0] = base /\ \A k \in 1..m : f[k] = step[k][f[k - 1]]
           S == {m \in Nat : m <= n => \E f \in [0..m -> V] : Good(f, m)}
<1>1. 0 \in S
  <2> DEFINE f == [k \in 0..0 |-> base]
  <2>1. f \in [0..0 -> V] /\ Good(f, 0)
    OBVIOUS
  <2>2. QED
    BY <2>1
<1>2. ASSUME NEW m \in Nat, m \in S PROVE m + 1 \in S
  <2>1. SUFFICES ASSUME m + 1 <= n PROVE \E f \in [0..(m + 1) -> V] : Good(f, m + 1)
    OBVIOUS
  <2>2. PICK g \in [0..m -> V] : Good(g, m)
    BY <1>2, <2>1
  <2>3. m + 1 \in 1..n /\ m \in 0..m
    BY <2>1
  <2> DEFINE new == step[m + 1][g[m]]
             f == [k \in 0..(m + 1) |-> IF k = m + 1 THEN new ELSE g[k]]
  <2>4. new \in V
    BY <2>2, <2>3 DEF IsStep
  <2> HIDE DEF new
  <2>5. f \in [0..(m + 1) -> V]
    BY <2>2, <2>4
  <2>6. f[0] = base
    BY <2>2
  <2>7. ASSUME NEW k \in 1..(m + 1) PROVE f[k] = step[k][f[k - 1]]
    <3>1. CASE k = m + 1
      <4>1. f[k] = new /\ f[k - 1] = g[m]
        BY <3>1
      <4>2. QED
        BY <3>1, <4>1 DEF new
    <3>2. CASE k # m + 1
      <4>1. k \in 1..m /\ f[k] = g[k] /\ f[k - 1] = g[k - 1]
        BY <3>2
      <4>2. QED
        BY <2>2, <4>1
    <3>3. QED
      BY <3>1, <3>2
  <2>8. QED
    BY <2>5, <2>6, <2>7
<1>3. n \in S
  BY <1>1, <1>2, NatInductionOverSet
<1>4. QED
  BY <1>3 DEF MadeBy

-----------------------------------------------------------------------------
(* A value that is made of a finite set, one element after another.        *)
IsSetStep(step, W, V) == step \in [W -> [V -> V]]

Some(X) == CHOOSE x \in X : TRUE

FoldBy(f, step, base, W, V) ==
    /\ f \in [SUBSET W -> V] /\ f[{}] = base
    /\ \A X \in SUBSET W : X # {} => f[X] = step[Some(X)][f[X \ {Some(X)}]]

LEMMA SomeIs ==
    ASSUME NEW X, X # {}, IsFiniteSet(X)
    PROVE  /\ Some(X) \in X /\ IsFiniteSet(X \ {Some(X)})
           /\ Cardinality(X) \in Nat /\ Cardinality(X) # 0
           /\ Cardinality(X \ {Some(X)}) = Cardinality(X) - 1
<1>1. Some(X) \in X
  BY DEF Some
<1>2. Cardinality(X) \in Nat /\ Cardinality(X) # 0
  BY FS_CardinalityType, FS_EmptySet
<1>3. QED
  BY <1>1, <1>2, FS_RemoveElement

LEMMA FoldExists ==
    ASSUME NEW V, NEW base, base \in V, NEW W, IsFiniteSet(W),
           NEW step, IsSetStep(step, W, V)
    PROVE  \E f : FoldBy(f, step, base, W, V)
<1> DEFINE Upto(n) == {X \in SUBSET W : Cardinality(X) <= n}
           Made(f, n) ==
               /\ f \in [Upto(n) -> V] /\ f[{}] = base
               /\ \A X \in Upto(n) : X # {} => f[X] = step[Some(X)][f[X \ {Some(X)}]]
           T == {n \in Nat : \E f : Made(f, n)}
<1>1. \A X \in SUBSET W : IsFiniteSet(X) /\ Cardinality(X) \in Nat
  BY FS_Subset, FS_CardinalityType
<1>2. \A n \in Nat : {} \in Upto(n)
  BY FS_EmptySet
<1>3. 0 \in T
  <2>1. \A X \in Upto(0) : X = {}
    BY <1>1, FS_EmptySet
  <2> DEFINE f == [X \in Upto(0) |-> base]
  <2>2. f[{}] = base
    BY <1>2
  <2>3. Made(f, 0)
    BY <2>1, <2>2
  <2>4. QED
    BY <2>3
<1>4. ASSUME NEW n \in Nat, n \in T PROVE n + 1 \in T
  <2>1. PICK g : Made(g, n)
    BY <1>4
  <2> DEFINE Next(X) == step[Some(X)][g[X \ {Some(X)}]]
             f == [X \in Upto(n + 1) |-> IF X \in Upto(n) THEN g[X] ELSE Next(X)]
  <2>2. ASSUME NEW X \in Upto(n + 1), X # {}
        PROVE  Some(X) \in W /\ X \ {Some(X)} \in Upto(n)
    <3>1. IsFiniteSet(X) /\ X \subseteq W
      BY <1>1
    <3>2. /\ Some(X) \in X /\ Cardinality(X \ {Some(X)}) = Cardinality(X) - 1
          /\ Cardinality(X) \in Nat
      BY <3>1, <2>2, SomeIs
    <3>3. QED
      BY <3>1, <3>2
  <2>3. \A X \in Upto(n) : g[X] \in V
    BY <2>1
  <2>4. \A X \in Upto(n + 1) : X # {} => Next(X) \in V
    BY <2>2, <2>3 DEF IsSetStep
  <2>5. f \in [Upto(n + 1) -> V]
    BY <1>2, <2>3, <2>4
  <2>6. {} \in Upto(n) /\ {} \in Upto(n + 1) /\ Upto(n) \subseteq Upto(n + 1)
    BY <1>1, <1>2
  <2>7. f[{}] = base
    BY <2>1, <2>6
  <2>8. ASSUME NEW X \in Upto(n + 1), X # {}
        PROVE  f[X] = step[Some(X)][f[X \ {Some(X)}]]
    <3>1. X \ {Some(X)} \in Upto(n) /\ X \ {Some(X)} \in Upto(n + 1)
      BY <2>2, <2>6, <2>8
    <3>2. f[X \ {Some(X)}] = g[X \ {Some(X)}]
      BY <3>1
    <3>3. f[X] = Next(X)
      BY <2>1, <2>8
    <3>4. QED
      BY <3>2, <3>3
  <2>9. Made(f, n + 1)
    BY <2>5, <2>7, <2>8
  <2> HIDE DEF f, Made
  <2>10. \E made : Made(made, n + 1)
    BY <2>9
  <2>11. QED
    BY <2>10
<1>5. Cardinality(W) \in T
  BY <1>1, <1>3, <1>4, NatInductionOverSet
<1>6. PICK f : Made(f, Cardinality(W))
  BY <1>5
<1>7. Upto(Cardinality(W)) = SUBSET W
  BY <1>1, FS_Subset
<1>8. QED
  BY <1>6, <1>7 DEF FoldBy

(* What holds of the base, and is kept when one more is taken, holds of    *)
(* what is made of the whole set.  h need not be known but where V is.     *)
KeptBy(Q, step, base, W, V) ==
    /\ <<{}, base>> \in Q
    /\ \A X \in SUBSET W : \A x \in X, v \in V :
          <<X \ {x}, v>> \in Q => <<X, step[x][v]>> \in Q

FollowsStep(h, step, base, W, V) ==
    /\ h[{}] = base
    /\ \A X \in SUBSET W :
          X # {} /\ h[X \ {Some(X)}] \in V => h[X] = step[Some(X)][h[X \ {Some(X)}]]

LEMMA FoldKeeps ==
    ASSUME NEW V, NEW base, base \in V, NEW W, IsFiniteSet(W),
           NEW step, IsSetStep(step, W, V),
           NEW h, FollowsStep(h, step, base, W, V),
           NEW Q, KeptBy(Q, step, base, W, V)
    PROVE  h[W] \in V /\ <<W, h[W]>> \in Q
<1> DEFINE Holds(X) == h[X] \in V /\ <<X, h[X]>> \in Q
           T == {n \in Nat : \A X \in SUBSET W : Cardinality(X) = n => Holds(X)}
<1>1. \A X \in SUBSET W : IsFiniteSet(X) /\ Cardinality(X) \in Nat
  BY FS_Subset, FS_CardinalityType
<1>2. 0 \in T
  <2>1. \A X \in SUBSET W : Cardinality(X) = 0 => X = {}
    BY <1>1, FS_EmptySet
  <2>2. Holds({})
    BY DEF KeptBy, FollowsStep
  <2>3. QED
    BY <2>1, <2>2
<1>3. ASSUME NEW n \in Nat, n \in T PROVE n + 1 \in T
  <2>1. SUFFICES ASSUME NEW X \in SUBSET W, Cardinality(X) = n + 1 PROVE Holds(X)
    OBVIOUS
  <2>2. X # {}
    BY <2>1, FS_EmptySet
  <2> DEFINE x == Some(X)
  <2>3. x \in X /\ X \ {x} \in SUBSET W /\ Cardinality(X \ {x}) = n
    BY <1>1, <2>1, <2>2, SomeIs
  <2>4. h[X \ {x}] \in V /\ <<X \ {x}, h[X \ {x}]>> \in Q
    BY <1>3, <2>3
  <2>5. h[X] = step[x][h[X \ {x}]]
    BY <2>2, <2>4 DEF FollowsStep
  <2>6. h[X] \in V
    BY <2>3, <2>4, <2>5 DEF IsSetStep
  <2>7. <<X, h[X]>> \in Q
    BY <2>3, <2>4, <2>5 DEF KeptBy
  <2>8. QED
    BY <2>6, <2>7
<1>4. Cardinality(W) \in T
  BY <1>1, <1>2, <1>3, NatInductionOverSet
<1>5. QED
  BY <1>4
=============================================================================
