----------------------------- MODULE RobotGraph -----------------------------
(***************************************************************************)
(* CarpRobotComputationGraph (src/carp_robot.hpp): nodes that compute      *)
(* tensors from the tensors of earlier nodes, forwards once and on demand, *)
(* and backwards through every node to the gradients of the parameters,    *)
(* which gather until a trainer has used them.                             *)
(*                                                                         *)
(* A number is <<n, d>>: n, modulo Q, stands for the real number, and d,   *)
(* modulo P, is its derivative with respect to the one element of a        *)
(* parameter that is watched (the code has no d), by the function that the *)
(* comments of the nodes' classes give.  Modulo P numbers can be divided,  *)
(* and exp takes sums modulo P - 1 to products modulo P, so what a gradient*)
(* rests on holds as it does of reals.                                     *)
(***************************************************************************)
EXTENDS Integers, Sequences, FiniteSetsExt, SequencesExt

CONSTANTS
    P,              \* a prime
    ROOT,           \* a number whose powers are all but 0, modulo P
    RobotCases      \* nodes and parameters, labels, and how many calls

VARIABLE robot

(* A case has the nodes that are added one after another, the values of the*)
(* parameters, the values the label takes in turn, and how many calls are  *)
(* made.                                                                   *)
Case == robot.case

-----------------------------------------------------------------------------
(* Numbers.                                                                *)

Q == P * (P - 1)

Real(n) == <<n % Q, 0>>

(* What reals have and numbers modulo P do not: a quotient, a root or a    *)
(* logarithm.  No step is modelled behind one that comes to it.            *)
NotReal == <<Q, 0>>

Strict(S, a) == IF NotReal \in S THEN NotReal ELSE a

Plus(a, b) == Strict({a, b}, <<(a[1] + b[1]) % Q, (a[2] + b[2]) % P>>)

Times(a, b) == Strict({a, b}, <<(a[1] * b[1]) % Q, (a[1] * b[2] + a[2] * b[1]) % P>>)

Minus(a) == Strict({a}, <<(Q - a[1]) % Q, (P - a[2]) % P>>)

Less(a, b) == Plus(a, Minus(b))

Reciprocal(n) == CHOOSE k \in 1..(P - 1) : (k * n) % P = 1

Over(a, b) ==
    LET k == Reciprocal(b[1])
    IN  IF b[1] % P = 0 THEN NotReal ELSE Times(a, <<k, (P - ((b[2] * k * k) % P)) % P>>)

Exp(a) == LET e == (ROOT ^ (a[1] % (P - 1))) % P IN <<e, (e * a[2]) % P>>

Log(a) ==
    LET S == {n \in 0..(P - 2) : (ROOT ^ n) % P = a[1] % P}
    IN  IF S = {} THEN NotReal ELSE <<Max(S), (a[2] * Reciprocal(a[1])) % P>>

Sqrt(a) ==
    LET S == {n \in 1..(P - 1) : (n * n) % P = a[1] % P}
    IN  IF S = {} THEN NotReal ELSE <<Max(S), (a[2] * Reciprocal(2 * Max(S))) % P>>

Signed(a) == IF 2 * a[1] > Q THEN a[1] - Q ELSE a[1]

Largest(S) == CHOOSE a \in S : \A b \in S : Signed(b) <= Signed(a)

Sum(S, f(_)) == FoldSet(LAMBDA c, total : Plus(f(c), total), Real(0), S)

-----------------------------------------------------------------------------
(* Dimensions, up to three of them, counted from 0: the total is kept      *)
(* beside them, and Set leaves it as it was.                               *)

TotalOf(d) == IF d = <<>> THEN 0 ELSE FoldLeft(LAMBDA a, b : a * b, 1, d)

Dim(d) == [d |-> d, total |-> TotalOf(d)]

Count(dim) == Len(dim.d)

Get(dim, i) == IF i < Count(dim) THEN dim.d[i + 1] ELSE 1

Rows(dim) == IF dim.d = <<>> THEN 0 ELSE dim.d[1]

Cols(dim) == Get(dim, 1)

Set(dim, i, n) == IF i < Count(dim) THEN [dim EXCEPT !.d[i + 1] = n] ELSE dim

Resize(dim, n) == Dim([i \in 1..n |-> IF i <= Count(dim) THEN dim.d[i] ELSE 0])

Delete(dim, i) ==
    CASE i >= Count(dim) -> dim
      [] i < Count(dim) /\ Count(dim) = 1 -> Dim(<<1>>)
      [] OTHER -> Dim(RemoveAt(dim.d, i + 1))

Exact(dim) == dim.total = TotalOf(dim.d)

(* Where the numbers of a tensor are, as tb<4> and m show its memory.      *)
Cells(dim) ==
    (0..(Get(dim, 0) - 1)) \X (0..(Get(dim, 1) - 1)) \X (0..(Get(dim, 2) - 1))

Tensor(dim, value) == [dim |-> dim, value |-> value]

Same(dim_left, dim_right, n) == \A i \in 0..(n - 1) : Get(dim_left, i) = Get(dim_right, i)

(* broadcast: the cell of `dim` that stands for a cell of a larger tensor. *)
Narrow(dim, c) == <<c[1] % Get(dim, 0), c[2] % Get(dim, 1), c[3] % Get(dim, 2)>>

Spread(x, c) == x.value[Narrow(x.dim, c)]

(* sum over the axes that were broadcast, then reshape.                    *)
Gather(dim, value) ==
    [c \in Cells(dim) |-> Sum({e \in DOMAIN value : Narrow(dim, e) = c}, LAMBDA e : value[e])]

(* chip and slice: a cell at n of one axis more, a cell moved along one.   *)
Insert(c, i, n) == SubSeq(InsertAt(c, i + 1, n), 1, 3)

Without(c, i) == Append(RemoveAt(c, i + 1), 0)

Move(c, i, n) == [c EXCEPT ![i + 1] = @ + n]

(* A matrix multiplied by another, either transposed or not.               *)
Flip(x) == [dim |-> Dim(<<Cols(x.dim), Rows(x.dim)>>),
            value |-> [c \in Cells(Dim(<<Cols(x.dim), Rows(x.dim)>>)) |-> x.value[<<c[2], c[1], 0>>]]]

Product(x, y, c) ==
    Sum(0..(Cols(x.dim) - 1), LAMBDA k : Times(x.value[<<c[1], k, 0>>], y.value[<<k, c[2], 0>>]))

(* The place of a cell in memory, column by column; and the cells of x at  *)
(* the places of those of a tensor of `dim`, from its first again and again*)
(* when x is the smaller one.                                              *)
Offset(dim, c) == c[1] + Get(dim, 0) * (c[2] + Get(dim, 1) * c[3])

At(x, dim, c) ==
    x.value[CHOOSE e \in DOMAIN x.value : Offset(x.dim, e) = Offset(dim, c) % TotalOf(x.dim.d)]

-----------------------------------------------------------------------------
(* Nodes: Dim accepts the dimensions of the inputs or throws, and has those*)
(* of the output; Forward computes the numbers of the output; Backward is  *)
(* what is added to the gradient of input k, where f came out and g is the *)
(* gradient of that.  What Forward and Backward do where they throw or     *)
(* leave their memory is not here but in Throws, Fits and their like.      *)

One == <<0, 0, 0>>

Each(x, f(_)) == [c \in DOMAIN x.value |-> f(x.value[c])]

Fill(dim, f(_)) == [c \in Cells(dim) |-> f(c)]

Scaled(g, f(_)) == [c \in DOMAIN g.value |-> Times(g.value[c], f(c))]

Column(x, c) == {e \in DOMAIN x.value : e[2] = c[2]}

Maximum(x, c) == Largest({x.value[e] : e \in Column(x, c)})

Accepted(ok, dim) == [ok |-> ok, dim |-> IF ok THEN dim ELSE Dim(<<>>)]

(* -- Of one number each. *)

Negate(x) == Each(x, Minus)

NegateBackward(g) == Each(g, Minus)

ConstantPlusX(x, v) == Each(x, LAMBDA a : Plus(Real(v), a))

ConstantMinusX(x, v) == Each(x, LAMBDA a : Less(Real(v), a))

ConstScalarMultiply(x, v) == Each(x, LAMBDA a : Times(a, Real(v)))

Sigmoid(x) == Each(x, LAMBDA a : Over(Real(1), Plus(Real(1), Exp(Minus(a)))))

SigmoidBackward(f, g) == Scaled(g, LAMBDA c : Times(Less(Real(1), f.value[c]), f.value[c]))

Tanh(x) == Each(x, LAMBDA a : Less(Real(1), Over(Real(2), Plus(Exp(Plus(a, a)), Real(1)))))

TanhBackward(f, g) == Scaled(g, LAMBDA c : Less(Real(1), Times(f.value[c], f.value[c])))

Rectify(x) == Each(x, LAMBDA a : Largest({a, Real(0)}))

RectifyBackward(f, g) == Scaled(g, LAMBDA c : IF f.value[c][1] = 0 THEN Real(0) ELSE Real(1))

Square(x) == Each(x, LAMBDA a : Times(a, a))

SquareBackward(x, g) == Scaled(g, LAMBDA c : Times(x.value[c], Real(2)))

(* -- Of two tensors, of which a size 1 is broadcast. *)

Longest(x, y) ==
    Dim([i \in 1..Max({Count(x), Count(y)}) |-> Max({Get(x, i - 1), Get(y, i - 1)})])

Common(x, y) == 0..(Min({Count(x), Count(y)}) - 1)

CwiseDim(x, y) ==
    Accepted(\A i \in Common(x, y) : Get(x, i) = Get(y, i) \/ Min({Get(x, i), Get(y, i)}) = 1,
             Longest(x, y))

CwiseSum(x, y, dim) == Fill(dim, LAMBDA c : Plus(Spread(x, c), Spread(y, c)))

CwiseSumBackward(x, g) == Gather(x.dim, g.value)

(* A product of tensors of one shape is their sum; d is that of a product. *)
CwiseMultiply(x, y, dim) ==
    LET product(c) == Times(Spread(x, c), Spread(y, c))
    IN  IF Same(x.dim, y.dim, Count(dim))
          THEN Fill(dim, LAMBDA c : <<Plus(Spread(x, c), Spread(y, c))[1], product(c)[2]>>)
          ELSE Fill(dim, product)

CwiseMultiplyBackward(x, y, g) ==
    IF Same(x.dim, y.dim, Count(g.dim)) THEN g.value
    ELSE Gather(x.dim, Scaled(g, LAMBDA c : Spread(y, c)))

CwiseQuotientDim(x, y) ==
    Accepted(\A i \in Common(x, y) : Get(x, i) = Get(y, i) \/ Get(y, i) = 1, Longest(x, y))

CwiseQuotient(x, y, dim) == Fill(dim, LAMBDA c : Over(Spread(x, c), Spread(y, c)))

CwiseQuotientBackward(x, y, g, k) ==
    IF k = 1 THEN [c \in DOMAIN g.value |-> Over(g.value[c], Spread(y, c))]
    ELSE Gather(y.dim, Scaled(g, LAMBDA c : LET b == Spread(y, c)
                                            IN  Minus(Over(x.value[c], Times(b, b)))))

MatrixMultiplyDim(x, y) ==
    Accepted(Cols(x) = Rows(y) /\ Count(x) <= 2 /\ Count(y) <= 2, Dim(<<Rows(x), Cols(y)>>))

MatrixMultiply(x, y, dim) == Fill(dim, LAMBDA c : Product(x, y, c))

MatrixMultiplyBackward(x, y, g, k) ==
    LET first(product, c) == IF c[3] = 0 THEN product ELSE Real(0)
    IN  IF k = 1 THEN Fill(x.dim, LAMBDA c : first(Product(g, Flip(y), c), c))
        ELSE Fill(y.dim, LAMBDA c : first(Product(Flip(x), g, c), c))

(* -- Of the columns of a matrix. *)

Softmax(x) ==
    Fill(x.dim, LAMBDA c : LET e(b) == Exp(Less(x.value[b], Maximum(x, c)))
                           IN  Over(e(c), Sum(Column(x, c), e)))

SoftmaxBackward(f, g) ==
    Fill(g.dim, LAMBDA c : LET z == Sum(Column(g, c), LAMBDA e : Times(f.value[e], g.value[e]))
                           IN  Times(Less(g.value[c], z), f.value[c]))

Logsumexp(x, c) ==
    LET m == Maximum(x, c)
    IN  Plus(Log(Sum(Column(x, c), LAMBDA e : Exp(Less(x.value[e], m)))), m)

LogSoftmax(x) == Fill(x.dim, LAMBDA c : Less(x.value[c], Logsumexp(x, c)))

LogSoftmaxBackward(f, g) ==
    LET z(c) == Sum(Column(g, c), LAMBDA e : g.value[e])
    IN  Fill(g.dim, LAMBDA c : Plus(Times(Exp(f.value[c]), Minus(z(c))), g.value[c]))

PickNegLogSoftmaxDim(x) == Accepted(x.total = Rows(x), Dim(<<1>>))

PickNegLogSoftmax(x, label, dim) ==
    Fill(dim, LAMBDA c : Less(Logsumexp(x, One), x.value[<<label, 0, 0>>]))

PickNegLogSoftmaxBackward(x, g, label) ==
    Fill(x.dim, LAMBDA c : Less(Times(Exp(Less(x.value[c], Logsumexp(x, One))), g.value[One]),
                                IF c[1] = label THEN g.value[One] ELSE Real(0)))

(* -- Of parts and of places. *)

PickElementDim(x, label, m_dim) == Accepted(label < Get(x, m_dim), Delete(x, m_dim))

PickElement(x, label, m_dim, dim) == Fill(dim, LAMBDA c : x.value[Insert(c, m_dim, label)])

PickElementBackward(x, g, label, m_dim) ==
    Fill(x.dim, LAMBDA c : IF c[m_dim + 1] = label THEN g.value[Without(c, m_dim)] ELSE Real(0))

ReshapeDim(x, m_dim) == Accepted(x.total = TotalOf(m_dim), Dim(m_dim))

Reshape(x, dim) == Fill(dim, LAMBDA c : At(x, dim, c))

MeanElementsDim(x, m_dim) == Accepted(Count(x) <= 3, Delete(x, m_dim))

MeanElements(x, m_dim, dim) ==
    Fill(dim, LAMBDA c : Over(Sum(0..(Get(x.dim, m_dim) - 1), LAMBDA n : x.value[Insert(c, m_dim, n)]),
                              Real(dim.total)))

MeanElementsBackward(x, g, m_dim) ==
    Fill(x.dim, LAMBDA c : Over(g.value[Without(c, m_dim)], Real(x.dim.total)))

Mean(x) == Over(Sum(DOMAIN x.value, LAMBDA c : x.value[c]), Real(x.dim.total))

StdElements(x, dim) ==
    LET off(c) == Less(x.value[c], Mean(x))
    IN  Fill(dim, LAMBDA c : Sqrt(Over(Sum(DOMAIN x.value, LAMBDA b : Times(off(b), off(b))),
                                       Real(x.dim.total))))

StdElementsBackward(x, f, g) ==
    Each(x, LAMBDA a : Times(Over(Times(Real(2), Less(a, Mean(x))), Real(x.dim.total)),
                             Over(g.value[One], Times(Real(2), f.value[One]))))

PickRangeDim(x, start, end, m_dim) ==
    Accepted(m_dim < Count(x) /\ start < end /\ end <= Get(x, m_dim), Set(x, m_dim, end - start))

PickRange(x, start, m_dim, dim) == Fill(dim, LAMBDA c : x.value[Move(c, m_dim, start)])

PickRangeBackward(x, g, start, m_dim) ==
    Fill(x.dim, LAMBDA c : LET e == Move(c, m_dim, -start)
                           IN  IF e \in DOMAIN g.value THEN g.value[e] ELSE Real(0))

(* -- Of several inputs. *)

AffineTransformDim(xs) ==
    LET lefts == {i \in DOMAIN xs : i % 2 = 0}
    IN  IF Len(xs) = 1 THEN Accepted(TRUE, xs[1])
        ELSE Accepted(/\ Len(xs) % 2 = 1
                      /\ \A i \in lefts : /\ Cols(xs[i]) = Rows(xs[i + 1]) /\ Rows(xs[i]) = Rows(xs[1])
                                          /\ Cols(xs[i + 1]) = Cols(xs[3]),
                      IF Cols(xs[3]) # 1 THEN Dim(<<Rows(xs[1]), Cols(xs[3])>>) ELSE Dim(<<Rows(xs[1])>>))

(* The first input is copied as often as there is place for it.            *)
AffineTransform(xs, dim) ==
    Fill(dim, LAMBDA c : Plus(At(xs[1], dim, c), Sum({i \in DOMAIN xs : i % 2 = 0},
                                                     LAMBDA i : Product(xs[i], xs[i + 1], c))))

AffineTransformBackward(xs, g, k) ==
    CASE k = 1 -> Fill(xs[1].dim, LAMBDA c :
                    Sum({e \in DOMAIN g.value :
                           Offset(g.dim, e) % TotalOf(xs[1].dim.d) = Offset(xs[1].dim, c)},
                        LAMBDA e : g.value[e]))
      [] k # 1 /\ k % 2 = 0 -> MatrixMultiplyBackward(xs[k], xs[k + 1], g, 1)
      [] k # 1 /\ k % 2 = 1 -> MatrixMultiplyBackward(xs[k - 1], xs[k], g, 2)

(* Each input sets its size and adds to the sum of them; the total is that *)
(* of what the last one set.                                               *)
ConcatenateDim(xs, m_dim) ==
    LET larger(dr, c) == IF Count(dr) < Count(c) THEN Resize(dr, Count(c)) ELSE dr
        add(acc, c) == LET n == Get(larger(c, acc.dr), m_dim)
                       IN  [dr |-> Set(larger(acc.dr, c), m_dim, n), new_rows |-> acc.new_rows + n]
        all == FoldLeft(add, [dr |-> xs[1], new_rows |-> 0], xs)
    IN  Accepted(TRUE, Set(Resize(all.dr, Max({Count(xs[1]), m_dim + 1})), m_dim, all.new_rows))

(* The memory is large enough only for what is one input. *)
Concatenate(xs) == xs[1].value

(* -- Which is called. *)

Sources == {"Input", "Parameter", "ConstParameter"}

DimOf(node, xs, label) ==
    LET with == node.with
    IN  CASE node.op \in {"CwiseSum", "CwiseMultiply"} -> CwiseDim(xs[1], xs[2])
          [] node.op = "CwiseQuotient" -> CwiseQuotientDim(xs[1], xs[2])
          [] node.op = "MatrixMultiply" -> MatrixMultiplyDim(xs[1], xs[2])
          [] node.op = "PickNegLogSoftmax" -> PickNegLogSoftmaxDim(xs[1])
          [] node.op = "PickElement" -> PickElementDim(xs[1], label, with[1])
          [] node.op = "Reshape" -> ReshapeDim(xs[1], with)
          [] node.op = "MeanElements" -> MeanElementsDim(xs[1], with[1])
          [] node.op = "StdElements" -> Accepted(TRUE, Dim(<<1>>))
          [] node.op = "PickRange" -> PickRangeDim(xs[1], with[1], with[2], with[3])
          [] node.op = "AffineTransform" -> AffineTransformDim(xs)
          [] node.op = "Concatenate" -> ConcatenateDim(xs, with[1])
          [] node.op = "BinaryLogLoss" -> Accepted(Len(xs) = 2, Dim(<<1>>))
          [] OTHER -> Accepted(TRUE, xs[1])

(* What Forward refuses: the views of tensors have so many dimensions.     *)
Throws(node, xs, dim) ==
    LET x == xs[1].dim
    IN  CASE node.op = "LogSoftmax" -> Count(x) > 2
          [] node.op = "PickNegLogSoftmax" -> Cols(x) # 1 \/ Count(x) > 2
          [] node.op = "MeanElements" -> Count(dim) > 2
          [] OTHER -> FALSE

BackwardThrows(node, xs, dim) ==
    CASE node.op = "Softmax" -> Count(xs[1].dim) > 2
      [] node.op = "PickElement" -> Count(dim) > 2
      [] OTHER -> FALSE

(* What the memory that Forward goes through must be: as large as the      *)
(* dimensions say, written before, and of one size where tensors are taken *)
(* as vectors.  Anything else is written or read outside of it.            *)
Fits(node, xs, dim, label) ==
    LET x == xs[1].dim
        y == xs[2].dim
    IN  CASE node.op \in {"CwiseSum", "CwiseMultiply"} ->
               Same(x, y, Count(dim)) => x.total = dim.total /\ y.total = dim.total
          [] node.op = "CwiseQuotient" ->
               IF x.total = y.total THEN Same(x, y, 3)
               ELSE \A i \in Count(x)..(Count(y) - 1) : Get(y, i) = 1
          [] node.op = "Softmax" -> Get(x, 2) = 1
          [] node.op \in {"LogSoftmax", "Reshape", "StdElements"} -> Exact(x)
          [] node.op = "PickNegLogSoftmax" -> Exact(x) /\ label < x.total
          [] node.op = "PickElement" -> label < Get(x, node.with[1])
          [] node.op = "AffineTransform" -> Len(xs) > 1 => Exact(x) /\ dim.total % x.total = 0
          [] node.op = "Concatenate" -> Same(x, dim, 3) /\ dim.total >= TotalOf(dim.d)
          [] OTHER -> TRUE

(* And where Backward goes for input k, of a node that Forward was done of.*)
BackwardFits(node, xs, dim, k, label) ==
    LET x == xs[k].dim
    IN  CASE node.op = "CwiseSum" -> Same(x, dim, Count(dim)) => x.total = dim.total
          [] node.op = "PickNegLogSoftmax" -> label < x.total
          [] node.op = "PickElement" -> label < Get(x, node.with[1])
          [] node.op = "AffineTransform" ->
               k = 1 /\ x.total # dim.total => Cols(dim) * x.total <= dim.total
          [] OTHER -> TRUE

Forward(node, xs, dim, label) ==
    LET x == xs[1]
        y == xs[2]
        v == node.with[1]
    IN  CASE node.op = "Negate" -> Negate(x)
          [] node.op = "ConstantPlusX" -> ConstantPlusX(x, v)
          [] node.op = "ConstantMinusX" -> ConstantMinusX(x, v)
          [] node.op = "ConstScalarMultiply" -> ConstScalarMultiply(x, v)
          [] node.op = "Sigmoid" -> Sigmoid(x)
          [] node.op = "Tanh" -> Tanh(x)
          [] node.op = "Rectify" -> Rectify(x)
          [] node.op = "Square" -> Square(x)
          [] node.op = "CwiseSum" -> CwiseSum(x, y, dim)
          [] node.op = "CwiseMultiply" -> CwiseMultiply(x, y, dim)
          [] node.op = "CwiseQuotient" -> CwiseQuotient(x, y, dim)
          [] node.op = "MatrixMultiply" -> MatrixMultiply(x, y, dim)
          [] node.op = "Softmax" -> Softmax(x)
          [] node.op = "LogSoftmax" -> LogSoftmax(x)
          [] node.op = "PickNegLogSoftmax" -> PickNegLogSoftmax(x, label, dim)
          [] node.op = "PickElement" -> PickElement(x, label, v, dim)
          [] node.op = "Reshape" -> Reshape(x, dim)
          [] node.op = "MeanElements" -> MeanElements(x, v, dim)
          [] node.op = "StdElements" -> StdElements(x, dim)
          [] node.op = "PickRange" -> PickRange(x, v, node.with[3], dim)
          [] node.op = "AffineTransform" -> AffineTransform(xs, dim)
          [] node.op = "Concatenate" -> Concatenate(xs)

BackwardTo(node, xs, f, g, k, label) ==
    LET x == xs[1]
        y == xs[2]
        v == node.with[1]
    IN  CASE node.op \in {"Negate", "ConstantMinusX"} -> NegateBackward(g)
          [] node.op \in {"ConstantPlusX", "Concatenate"} -> g.value
          [] node.op = "ConstScalarMultiply" -> ConstScalarMultiply(g, v)
          [] node.op = "Sigmoid" -> SigmoidBackward(f, g)
          [] node.op = "Tanh" -> TanhBackward(f, g)
          [] node.op = "Rectify" -> RectifyBackward(f, g)
          [] node.op = "Square" -> SquareBackward(x, g)
          [] node.op = "CwiseSum" -> CwiseSumBackward(xs[k], g)
          [] node.op = "CwiseMultiply" -> CwiseMultiplyBackward(xs[k], xs[3 - k], g)
          [] node.op = "CwiseQuotient" -> CwiseQuotientBackward(x, y, g, k)
          [] node.op = "MatrixMultiply" -> MatrixMultiplyBackward(x, y, g, k)
          [] node.op = "Softmax" -> SoftmaxBackward(f, g)
          [] node.op = "LogSoftmax" -> LogSoftmaxBackward(f, g)
          [] node.op = "PickNegLogSoftmax" -> PickNegLogSoftmaxBackward(x, g, label)
          [] node.op = "PickElement" -> PickElementBackward(x, g, label, v)
          [] node.op = "Reshape" -> Reshape(g, x.dim)
          [] node.op = "MeanElements" -> MeanElementsBackward(x, g, v)
          [] node.op = "StdElements" -> StdElementsBackward(x, f, g)
          [] node.op = "PickRange" -> PickRangeBackward(x, g, v, node.with[3])
          [] node.op = "AffineTransform" -> AffineTransformBackward(xs, g, k)

-----------------------------------------------------------------------------
(* The graph.  (`due`, `sure`, `summed` and `fresh` are not in the code:   *)
(* the sum of the derivatives that the gradients should have come to,      *)
(* whether it is known, whether a product that is a sum went into it, and  *)
(* whether nodes saw the label that is there.  `broken`: memory was written*)
(* or read outside of what there is, or no real was met; or the call has   *)
(* thrown, of which nothing stays when it is over.)                        *)

Marked(value, watched) ==
    [c \in DOMAIN value |-> <<value[c][1], IF c = watched THEN 1 ELSE 0>>]

Zeros(dim) == [c \in Cells(dim) |-> Real(0)]

Init ==
    \E case \in RobotCases : \E p \in DOMAIN case.params : \E c \in Cells(case.params[p].dim) :
        robot =
          [case |-> case, watched |-> <<p, c>>, added |-> 0, calls |-> case.calls, labels |-> 0,
           values |-> [i \in DOMAIN case.params |->
                         Marked(case.params[i].value, IF i = p THEN c ELSE <<>>)],
           grads |-> [i \in DOMAIN case.params |-> Zeros(case.params[i].dim)],
           m_nodes |-> <<>>, m_fx_list |-> <<>>, m_evaluated_index |-> 0,
           m_immediate_compute |-> FALSE,
           due |-> 0, sure |-> TRUE, summed |-> FALSE, fresh |-> TRUE, broken |-> "no"]

Label(r) == r.case.labels[1 + r.labels]

Inputs(r, i) == [k \in DOMAIN r.m_nodes[i].args |-> r.m_fx_list[r.m_nodes[i].args[k]]]

(* The value of a node that has no inputs. *)
Source(r, node) ==
    CASE node.op = "Input" -> r.case.inputs[node.with[1]].value
      [] node.op = "Parameter" -> r.values[node.with[1]]
      [] node.op = "ConstParameter" ->
           [c \in DOMAIN r.values[node.with[1]] |-> Real(r.values[node.with[1]][c][1])]

EvaluateNext(r) ==
    LET i == r.m_evaluated_index + 1
        node == r.m_nodes[i]
        dim == r.m_fx_list[i].dim
        source == node.op \in Sources
        throws == ~source /\ Throws(node, Inputs(r, i), dim)
        fits == node.ok /\ (source \/ Fits(node, Inputs(r, i), dim, Label(r)))
        value == IF source THEN Source(r, node)
                 ELSE Forward(node, Inputs(r, i), dim, Label(r))
    IN  IF r.broken # "no" THEN r
        ELSE IF throws THEN [r EXCEPT !.broken = "thrown"]
        ELSE IF ~fits THEN [r EXCEPT !.broken = "memory"]
        ELSE IF \E c \in DOMAIN value : value[c] = NotReal THEN [r EXCEPT !.broken = "number"]
        ELSE [r EXCEPT !.m_fx_list[i].value = value, !.m_evaluated_index = i]

(* Forward: up to a node, from the first that has not been evaluated.      *)
ForwardTo(r, index) ==
    FoldLeft(LAMBDA s, i : EvaluateNext(s), r,
             [i \in 1..(Min({index, Len(r.m_nodes)}) - r.m_evaluated_index) |-> i])

Caught(r) == IF r.broken = "thrown" THEN [r EXCEPT !.broken = "no"] ELSE r

(* AddNode and AddParameterNode: the node and its tensor are there before  *)
(* Dim has accepted the inputs, and stay when it throws.                   *)
AddNode ==
    /\ robot.broken = "no" /\ robot.added < Len(Case.nodes)
    /\ LET node == Case.nodes[robot.added + 1]
           xs == [k \in DOMAIN node.args |-> robot.m_fx_list[node.args[k]].dim]
           source == IF node.op = "Input" THEN Case.inputs[node.with[1]].dim
                     ELSE IF node.op \in Sources THEN Case.params[node.with[1]].dim ELSE Dim(<<>>)
           out == IF node.op \in Sources THEN Accepted(TRUE, source) ELSE DimOf(node, xs, Label(robot))
           added == [robot EXCEPT !.added = @ + 1,
                                  !.m_nodes = Append(@, [ok |-> out.ok] @@ node),
                                  !.m_fx_list = Append(@, Tensor(out.dim, Zeros(out.dim)))]
       IN  robot' = IF robot.m_immediate_compute /\ out.ok
                    THEN Caught(ForwardTo(added, Len(added.m_nodes))) ELSE added

Call(r) == [r EXCEPT !.calls = @ - 1]

MayCall == robot.broken = "no" /\ robot.calls > 0

GetValue ==
    /\ MayCall
    /\ \E i \in DOMAIN robot.m_nodes : robot' = Caught(ForwardTo(Call(robot), i))

(* Which nodes depend on parameters. *)
NeedsDerivative(r) ==
    FoldLeft(LAMBDA need, i : IF \/ r.m_nodes[i].op = "Parameter"
                                 \/ \E k \in DOMAIN r.m_nodes[i].args : r.m_nodes[i].args[k] \in need
                              THEN need \cup {i} ELSE need,
             {}, [i \in DOMAIN r.m_nodes |-> i])

(* Which nodes the last one was computed from, and which of them pass a    *)
(* gradient on.                                                            *)
InComputation(r) ==
    FoldRight(LAMBDA i, in : IF i \in in THEN in \cup ToSet(r.m_nodes[i].args) ELSE in,
              [i \in DOMAIN r.m_nodes |-> i], {Len(r.m_nodes)})

Passes(r) ==
    {<<i, k>> \in InComputation(r) \X (1..5) :
       k \in DOMAIN r.m_nodes[i].args /\ r.m_nodes[i].args[k] \in NeedsDerivative(r)}

(* Mutant: a node that is used twice keeps what the first use gave it.     *)
Assigned(g, value) == [g EXCEPT !.value = value]

Added(g, value) == [g EXCEPT !.value = [c \in DOMAIN @ |-> Plus(@[c], value[c])]]

(* A node passes its gradient to each input that depends on a parameter.   *)
BackwardNode(r, passes, dEdf, i) ==
    LET node == r.m_nodes[i]
        pass(d, k) ==
            IF <<i, k>> \notin passes THEN d
            ELSE [d EXCEPT ![node.args[k]] =
                    Added(@, BackwardTo(node, Inputs(r, i), r.m_fx_list[i], d[i], k, Label(r)))]
    IN  FoldLeft(pass, dEdf, [k \in DOMAIN node.args |-> k])

(* The gradient of the last node is one, and that of others gathers from   *)
(* the nodes the last one was computed from, last to first.                *)
Gradients(r) ==
    LET n == Len(r.m_nodes)
        zero == [i \in 1..n |-> Tensor(r.m_fx_list[i].dim, Zeros(r.m_fx_list[i].dim))]
        last == Tensor(zero[n].dim, [c \in DOMAIN zero[n].value |-> Real(1)])
        passes == Passes(r)
    IN  FoldLeft(LAMBDA dEdf, i : BackwardNode(r, passes, dEdf, i),
                 [zero EXCEPT ![n] = last], [i \in 1..n |-> n + 1 - i])

(* AccumulateGrad of every parameter node. *)
Accumulated(r, dEdf) ==
    [p \in DOMAIN r.grads |->
       [c \in DOMAIN r.grads[p] |->
          Plus(r.grads[p][c],
               Real(Sum({i \in DOMAIN r.m_nodes : r.m_nodes[i].op = "Parameter" /\ r.m_nodes[i].with[1] = p},
                        LAMBDA i : dEdf[i].value[c])[1]))]]

(* MeanElements divides by the size that comes out, and its gradient by the*)
(* size that goes in.                                                      *)
MeansAgree(r) ==
    \A i \in DOMAIN r.m_nodes :
       r.m_nodes[i].op = "MeanElements" => r.m_fx_list[i].dim.total = Inputs(r, i)[1].dim.total

(* CwiseMultiply adds tensors of one shape. *)
ProductSummed(r) ==
    \E i \in InComputation(r) :
       /\ r.m_nodes[i].op = "CwiseMultiply"
       /\ Same(Inputs(r, i)[1].dim, Inputs(r, i)[2].dim, Count(r.m_fx_list[i].dim))

(* The inputs at which Backward throws, and those at which it leaves its   *)
(* memory.                                                                 *)
Refused(r) ==
    {<<i, k>> \in Passes(r) : BackwardThrows(r.m_nodes[i], Inputs(r, i), r.m_fx_list[i].dim)}

Misfits(r) ==
    {<<i, k>> \in Passes(r) :
       ~BackwardFits(r.m_nodes[i], Inputs(r, i), r.m_fx_list[i].dim, k, Label(r))}

Latest(inputs) == Max({0} \cup {input[1] : input \in inputs})

(* After Forward of every node.  No gradient of a parameter has changed    *)
(* when a node throws.                                                     *)
Propagated(r) ==
    LET derivative == Sum(DOMAIN Last(r.m_fx_list).value, LAMBDA c : Last(r.m_fx_list).value[c])[2]
        refused == Latest(Refused(r))
        misfit == Latest(Misfits(r))
    IN  IF r.broken # "no" THEN Caught(r)
        ELSE IF refused = 0 /\ misfit = 0
             THEN [r EXCEPT !.grads = Accumulated(r, Gradients(r)),
                            !.due = (@ + derivative) % P,
                            !.sure = @ /\ r.fresh /\ MeansAgree(r),
                            !.summed = @ \/ ProductSummed(r)]
        ELSE IF refused >= misfit THEN r ELSE [r EXCEPT !.broken = "memory"]

Backward ==
    /\ MayCall /\ robot.m_nodes # <<>>
    /\ robot' = Propagated(ForwardTo(Call(robot), Len(robot.m_nodes)))

(* CarpRobotTrainer::Update with CarpRobotSGDTrainer; gradients are cleared*)
Update ==
    /\ MayCall
    /\ robot' = [Call(robot) EXCEPT
                   !.values = [p \in DOMAIN @ |-> [c \in DOMAIN @[p] |->
                                 <<Less(@[p][c], Times(robot.grads[p][c], Real(Case.m_learning_rate)))[1],
                                   @[p][c][2]>>]],
                   !.grads = [p \in DOMAIN @ |-> [c \in DOMAIN @[p] |-> Real(0)]],
                   !.due = 0, !.sure = TRUE, !.summed = FALSE]

Invalidate ==
    /\ MayCall
    /\ robot' = [Call(robot) EXCEPT !.m_evaluated_index = 0, !.fresh = TRUE]

SetImmediateCompute ==
    /\ MayCall
    /\ robot' = [Call(robot) EXCEPT !.m_immediate_compute = ~@]

Clear ==
    /\ MayCall
    /\ robot' = [Call(robot) EXCEPT !.m_nodes = <<>>, !.m_fx_list = <<>>, !.added = 0,
                                    !.m_evaluated_index = 0, !.fresh = TRUE]

(* CarpRobotLabel::Update: nodes read the label where it is.               *)
UpdateLabel ==
    /\ MayCall /\ robot.labels + 1 < Len(Case.labels)
    /\ robot' = [Call(robot) EXCEPT !.labels = @ + 1, !.fresh = robot.m_evaluated_index = 0]

Next == AddNode \/ GetValue \/ Backward \/ Update \/ Invalidate \/ Clear \/ UpdateLabel \/ SetImmediateCompute

-----------------------------------------------------------------------------
(* The gradients of parameters are the derivatives of what the classes of  *)
(* the nodes say they compute: after any number of Backward since they were*)
(* last cleared they are the sum of them, whatever was evaluated when,     *)
(* unless the label changed under nodes that had been evaluated, a mean was*)
(* taken of several elements or a product of tensors of one shape.         *)
(* Memory is respected unless dimensions have a total that is not theirs,  *)
(* Dim has thrown, the label is out of range, or Dim has accepted what     *)
(* cannot be broadcast.                                                    *)
GradientsExact ==
    LET watched == robot.grads[robot.watched[1]][robot.watched[2]][1] % P
        risky(node) == \/ ~node.ok
                       \/ node.op \in {"PickRange", "Concatenate", "CwiseQuotient", "AffineTransform",
                                       "Softmax"}
                       \/ node.op \in {"PickElement", "PickNegLogSoftmax"} /\ Len(Case.labels) > 1
    IN  /\ robot.broken = "no" /\ robot.sure /\ ~robot.summed => watched = robot.due
        /\ robot.broken = "memory" => \E i \in DOMAIN robot.m_nodes : risky(robot.m_nodes[i])

(* What carp_robot.hpp:1351 says of CwiseMultiply, y = x_1 dot x_2: that is*)
(* what the gradients are of, of tensors of one shape as well.             *)
ProductsMultiply ==
    robot.broken = "no" /\ robot.sure =>
      robot.grads[robot.watched[1]][robot.watched[2]][1] % P = robot.due
=============================================================================
