------------------------------ MODULE Tensors ------------------------------
(* Tensors and their gradients (tensor.rs, vm/tensors.rs, vm.rs ad_run,     *)
(* ad_record, ad_backward, ad_finish): a pure function of one tensor x, run *)
(* with recording on.  Its registers hold what the code computes, a tensor  *)
(* as a layout over a buffer that views share and the derivation ad_record  *)
(* built, and beside it what is meant: an element at each coordinate with   *)
(* its derivative by every element of x.  Numbers are taken modulo a prime, *)
(* where division is exact; the transcendental operations (exp, log, sqrt,  *)
(* softmax, cholesky_solve), element types and devices are left out.        *)
EXTENDS Integers, Sequences, FiniteSets, SequencesExt

CONSTANTS
    Prime,         (* numbers are 0 .. Prime - 1; those above half are negative *)
    Inputs,        (* pairs of x and another tensor the function uses *)
    Shapes,        (* what a program reshapes to *)
    Positions,     (* what it indexes with: <<n>>, or <<from, to>> for a slice *)
    MaxOperations  (* operations of a function *)

VARIABLE registers
TNvars == <<registers>>

-----------------------------------------------------------------------------
(* Numbers.                                                                *)

SumOf(s) == FoldLeft(LAMBDA p, q : (p + q) % Prime, 0, s)
ProductOf(s) == FoldLeft(LAMBDA p, q : p * q, 1, s)
Inverse1(n) == CHOOSE i \in 1 .. Prime - 1 : (n * i) % Prime = 1
Signed(n) == IF 2 * n > Prime THEN n - Prime ELSE n

Apply(op, p, q) ==
    (CASE op = "+" -> p + q
       [] op = "-" -> p - q
       [] op = "*" -> p * q
       [] op = "/" -> p * Inverse1(q)) % Prime

-----------------------------------------------------------------------------
(* Layouts.  Coordinates and linear numbers count from 0.                   *)

Counted(shape) == ProductOf(shape)
RowMajor(shape) ==
    [i \in DOMAIN shape |-> Counted(SubSeq(shape, i + 1, Len(shape)))]
Coordinates(shape, linear) ==
    [i \in DOMAIN shape |->
        (linear \div Counted(SubSeq(shape, i + 1, Len(shape)))) % shape[i]]
AllCoordinates(shape) == {Coordinates(shape, n) : n \in 0 .. Counted(shape) - 1}
Offset(coordinates, strides) ==
    FoldLeft(LAMBDA p, q : p + q, 0,
             [i \in DOMAIN strides |-> coordinates[i] * strides[i]])
Linear(shape, coordinates) == Offset(coordinates, RowMajor(shape))

At(t, coordinates) == t.data[t.offset + Offset(coordinates, t.strides) + 1]

Logical(t, linear) == At(t, Coordinates(t.shape, linear))

NewTensor(shape, F(_)) ==
    [shape |-> shape, strides |-> RowMajor(shape), offset |-> 0,
     data |-> [n \in 1 .. Counted(shape) |-> F(n - 1)]]

(* Wrong on purpose: a view of a view starts where the first one did.       *)
BrokenView(t, shape, strides, offset) ==
    [shape |-> shape, strides |-> strides, offset |-> t.offset, data |-> t.data]

View(t, shape, strides, offset) ==
    [shape |-> shape, strides |-> strides, offset |-> offset, data |-> t.data]

SwapLast(s) ==
    [i \in DOMAIN s |-> CASE i = Len(s) -> s[i - 1]
                          [] i = Len(s) - 1 -> s[i + 1]
                          [] OTHER -> s[i]]
Transpose(t) == View(t, SwapLast(t.shape), SwapLast(t.strides), t.offset)

Reshape(t, shape) == NewTensor(shape, LAMBDA n : Logical(t, n))

-----------------------------------------------------------------------------
(* Broadcasting: shapes are aligned at their last axes.                     *)

Wider(p, q) == IF Len(p) >= Len(q) THEN Len(p) ELSE Len(q)
Padded(shape, rank) == [i \in 1 .. rank - Len(shape) |-> 1] \o shape
Compatible(p, q) ==
    LET n == Wider(p, q)
        P == Padded(p, n)
        Q == Padded(q, n)
    IN  \A i \in 1 .. n : P[i] = Q[i] \/ P[i] = 1 \/ Q[i] = 1
BroadcastShape(p, q) ==
    LET n == Wider(p, q)
        P == Padded(p, n)
        Q == Padded(q, n)
    IN  [i \in 1 .. n |-> IF P[i] = 1 THEN Q[i] ELSE P[i]]

BroadcastStrides(shape, strides, out) ==
    LET skipped == Len(out) - Len(shape)
    IN  [i \in DOMAIN out |->
            IF i <= skipped \/ (shape[i - skipped] = 1 /\ out[i] # 1) THEN 0
            ELSE strides[i - skipped]]
BroadcastAt(t, out, linear) ==
    t.data[t.offset + Offset(Coordinates(out, linear),
                             BroadcastStrides(t.shape, t.strides, out)) + 1]

NoZero(t) == \A n \in 0 .. Counted(t.shape) - 1 : Logical(t, n) # 0

Elementwise(s, t, op) ==
    LET out == BroadcastShape(s.shape, t.shape)
    IN  NewTensor(out, LAMBDA n :
            Apply(op, BroadcastAt(s, out, n), BroadcastAt(t, out, n)))

(* The number is always the second operand, also where a program wrote it   *)
(* first (lift_binary_raw).                                                 *)
ElementwiseScalar(t, number, op) ==
    NewTensor(t.shape, LAMBDA n : Apply(op, Logical(t, n), number))

Relations == {"eq", "lt", "ge"}
Holds(relation, p, q) ==
    CASE relation = "eq" -> p = q
      [] relation = "lt" -> Signed(p) < Signed(q)
      [] relation = "ge" -> Signed(p) >= Signed(q)

Compare(s, t, relation) ==
    LET out == BroadcastShape(s.shape, t.shape)
    IN  NewTensor(out, LAMBDA n :
            IF Holds(relation, BroadcastAt(s, out, n), BroadcastAt(t, out, n))
            THEN 1 ELSE 0)

Maskable(mask, out) ==
    Compatible(mask.shape, out) /\ BroadcastShape(mask.shape, out) = out
Selected(mask, yes, no) ==
    LET out == BroadcastShape(yes.shape, no.shape)
    IN  NewTensor(out, LAMBDA n :
            IF BroadcastAt(mask, out, n) # 0 THEN BroadcastAt(yes, out, n)
            ELSE BroadcastAt(no, out, n))

-----------------------------------------------------------------------------
(* Products of matrices: a vector is one row on the left and one column on  *)
(* the right; the axes before the last two are broadcast.                   *)

Rank(t) == Len(t.shape)
AsRow(t) ==
    IF Rank(t) # 1 THEN t
    ELSE View(t, <<1>> \o t.shape, <<0>> \o t.strides, t.offset)
AsColumn(t) ==
    IF Rank(t) # 1 THEN t
    ELSE View(t, t.shape \o <<1>>, t.strides \o <<0>>, t.offset)
Batch(s) == SubSeq(s, 1, Len(s) - 2)

Multipliable(s, t) ==
    /\ Rank(s) > 0 /\ Rank(t) > 0
    /\ Last(AsRow(s).shape) = AsColumn(t).shape[Rank(AsColumn(t)) - 1]
    /\ Compatible(Batch(AsRow(s).shape), Batch(AsColumn(t).shape))

Matmul(s, t) ==
    LET p == AsRow(s)
        q == AsColumn(t)
        m == p.shape[Rank(p) - 1]
        n == Last(q.shape)
        batch == BroadcastShape(Batch(p.shape), Batch(q.shape))
        pBatch == BroadcastStrides(Batch(p.shape), Batch(p.strides), batch)
        qBatch == BroadcastStrides(Batch(q.shape), Batch(q.strides), batch)
        Cell(b, i, j) ==
            SumOf([k \in 1 .. Last(p.shape) |->
                p.data[p.offset + Offset(b, pBatch) + i * p.strides[Rank(p) - 1]
                         + (k - 1) * Last(p.strides) + 1]
              * q.data[q.offset + Offset(b, qBatch) + (k - 1) * q.strides[Rank(q) - 1]
                         + j * Last(q.strides) + 1]])
    IN  NewTensor(batch \o (IF Rank(s) = 1 THEN <<>> ELSE <<m>>)
                        \o (IF Rank(t) = 1 THEN <<>> ELSE <<n>>),
                  LAMBDA l : Cell(Coordinates(batch, l \div (m * n)),
                                  (l \div n) % m, l % n))

-----------------------------------------------------------------------------
(* Reductions, of all elements (a number) or along an axis; axes from 1.    *)

Least(s) ==
    CHOOSE i \in DOMAIN s :
        /\ \A j \in DOMAIN s : s[i] <= s[j]
        /\ \A j \in 1 .. i - 1 : s[i] < s[j]
Signs(s) == [i \in DOMAIN s |-> Signed(s[i])]
Opposites(s) == [i \in DOMAIN s |-> -Signed(s[i])]

Reductions == {"sum", "mean", "max", "min", "argmax"}
Reduction(op, s) ==
    CASE op = "sum" -> SumOf(s)
      [] op = "mean" -> Apply("/", SumOf(s), Len(s))
      [] op = "max" -> s[Least(Opposites(s))]
      [] op = "min" -> s[Least(Signs(s))]
      [] op = "argmax" -> Least(Opposites(s)) - 1

Scalar(n) == NewTensor(<<>>, LAMBDA l : n)
Reduce(t, op) ==
    Scalar(Reduction(op, [n \in 1 .. Counted(t.shape) |-> Logical(t, n - 1)]))
ReduceAxis(t, op, axis) ==
    LET shape == RemoveAt(t.shape, axis)
        Fiber(l) ==
            t.offset + Offset(Coordinates(shape, l), RemoveAt(t.strides, axis))
    IN  NewTensor(shape, LAMBDA l :
            Reduction(op, [k \in 1 .. t.shape[axis] |->
                              t.data[Fiber(l) + (k - 1) * t.strides[axis] + 1]]))

-----------------------------------------------------------------------------
(* Gathering and indexing.                                                  *)

Resolved(n, width) == IF Signed(n) < 0 THEN Signed(n) + width ELSE Signed(n)
InRange(n, width) == Resolved(n, width) \in 0 .. width - 1

Gather(t, indices, axis) ==
    LET k == Len(indices.shape)
        shape == SubSeq(t.shape, 1, axis - 1) \o indices.shape
                     \o SubSeq(t.shape, axis + 1, Rank(t))
        Source(c) ==
            SubSeq(c, 1, axis - 1)
              \o <<Resolved(Logical(indices, Linear(indices.shape,
                                                    SubSeq(c, axis, axis + k - 1))),
                            t.shape[axis])>>
              \o SubSeq(c, axis + k, Len(c))
    IN  NewTensor(shape, LAMBDA n : At(t, Source(Coordinates(shape, n))))

Bound(n, width) ==
    LET from == IF n < 0 THEN n + width ELSE n
    IN  IF from < 0 THEN 0 ELSE IF from > width THEN width ELSE from
IsPosition(p) == Len(p) = 1
Start(p, width) ==
    IF ~IsPosition(p) THEN Bound(p[1], width)
    ELSE IF p[1] < 0 THEN p[1] + width ELSE p[1]
Extent(p, width) ==
    IF Bound(p[2], width) < Bound(p[1], width) THEN 0
    ELSE Bound(p[2], width) - Bound(p[1], width)

Indexable(t, spec) ==
    /\ Len(spec) <= Rank(t)
    /\ \A i \in DOMAIN spec :
          IsPosition(spec[i]) => spec[i][1] \in -t.shape[i] .. t.shape[i] - 1

(* Axes with a slice, or without a position, stay.                          *)
Kept(t, spec) ==
    SelectSeq([i \in 1 .. Rank(t) |-> i],
              LAMBDA i : i > Len(spec) \/ ~IsPosition(spec[i]))
Starts(t, spec) == [i \in DOMAIN spec |-> Start(spec[i], t.shape[i])]
Index(t, spec) ==
    LET kept == Kept(t, spec)
    IN  View(t,
             [j \in DOMAIN kept |->
                 IF kept[j] > Len(spec) THEN t.shape[kept[j]]
                 ELSE Extent(spec[kept[j]], t.shape[kept[j]])],
             [j \in DOMAIN kept |-> t.strides[kept[j]]],
             t.offset + Offset(Starts(t, spec), SubSeq(t.strides, 1, Len(spec))))

-----------------------------------------------------------------------------
(* Derivations and the backward pass.                                       *)

Underived == [op |-> "none"] (* no derivation                                 *)
Lost == [op |-> "lost"]      (* one that records no operation                 *)
Input == [op |-> "input"]    (* the leaf that stands for x                    *)

Negate(t) == NewTensor(t.shape, LAMBDA n : (-Logical(t, n)) % Prime)
Outer(s, t) ==
    NewTensor(<<s.shape[1], t.shape[1]>>, LAMBDA n :
        Apply("*", s.data[s.offset + (n \div t.shape[1]) * s.strides[1] + 1],
                   t.data[t.offset + (n % t.shape[1]) * t.strides[1] + 1]))

(* The sum over the axes that were broadcast to.                            *)
Unbroadcast(g, target) ==
    LET To(n) ==
            [i \in DOMAIN target.shape |->
                IF target.shape[i] = 1 THEN 0
                ELSE Coordinates(g.shape, n)[i + Rank(g) - Rank(target)]]
    IN  NewTensor(target.shape, LAMBDA l :
            SumOf([n \in 1 .. Counted(g.shape) |->
                IF Linear(target.shape, To(n - 1)) = l THEN g.data[g.offset + n]
                ELSE 0]))

BroadcastReduce(g, input, axis, scale) ==
    NewTensor(input.shape, LAMBDA n :
        Apply("*", scale,
              g.data[g.offset + 1 +
                     (IF axis = 0 THEN 0
                      ELSE Linear(g.shape,
                                  RemoveAt(Coordinates(input.shape, n), axis)))]))

(* Each element of the seed goes to the element it was gathered from.       *)
Scatter(seed, t, indices, axis) ==
    LET from == Gather(NewTensor(t.shape, LAMBDA n : n), indices, axis)
    IN  NewTensor(t.shape, LAMBDA l :
            SumOf([n \in 1 .. Counted(seed.shape) |->
                IF from.data[n] = l THEN Logical(seed, n - 1) ELSE 0]))

ArithmeticSeeds(op, s, t, seed) ==
    CASE op = "+" -> <<seed, seed>>
      [] op = "-" -> <<seed, Negate(seed)>>
      [] op = "*" -> <<Elementwise(seed, t, "*"), Elementwise(seed, s, "*")>>
      [] op = "/" ->
            <<Elementwise(seed, t, "/"),
              Negate(Elementwise(Elementwise(seed, s, "*"),
                                 Elementwise(t, t, "*"), "/"))>>
MatmulSeeds(s, t, seed) ==
    IF Rank(s) = 1 /\ Rank(t) = 1
    THEN <<Elementwise(seed, t, "*"), Elementwise(seed, s, "*")>>
    ELSE IF Rank(s) = 1 THEN <<Matmul(seed, Transpose(t)), Outer(s, seed)>>
    ELSE IF Rank(t) = 1 THEN <<Outer(seed, t), Matmul(Transpose(s), seed)>>
    ELSE <<Unbroadcast(Matmul(seed, Transpose(t)), s),
           Unbroadcast(Matmul(Transpose(s), seed), t)>>

(* What each operand of a derivation is seeded with.                        *)
Seeds(node, seed) ==
    LET s == node.operands[1]
        t == node.operands[2]
    IN  CASE node.op \in {"+", "-", "*", "/"} ->
                [k \in 1 .. 2 |-> Unbroadcast(ArithmeticSeeds(node.op, s, t, seed)[k],
                                              node.operands[k])]
          [] node.op = "matmul" -> MatmulSeeds(s, t, seed)
          [] node.op = "sum" -> <<BroadcastReduce(seed, s, node.axis, 1)>>
          [] node.op = "mean" ->
                <<BroadcastReduce(seed, s, node.axis,
                      Inverse1(IF node.axis = 0 THEN Counted(s.shape)
                               ELSE s.shape[node.axis]))>>
          [] node.op = "reshape" -> <<NewTensor(s.shape, LAMBDA n : Logical(seed, n))>>
          [] node.op = "transpose" ->
                <<NewTensor(s.shape, LAMBDA n :
                      At(seed, SwapLast(Coordinates(s.shape, n))))>>
          [] node.op = "relu" ->
                <<NewTensor(s.shape, LAMBDA n :
                      IF Signed(Logical(s, n)) > 0 THEN Logical(seed, n) ELSE 0)>>
          [] node.op = "gather" -> <<Scatter(seed, s, t, node.axis)>>

(* The gradient kept at the leaf takes the shape of the first seed.         *)
(* Wrong on purpose: the last seed replaces what came before.               *)
BrokenAccumulate(gradient, seed) == NewTensor(seed.shape, LAMBDA n : Logical(seed, n))

Accumulate(gradient, seed) ==
    IF gradient = <<>> THEN NewTensor(seed.shape, LAMBDA n : seed.data[seed.offset + n + 1])
    ELSE [gradient EXCEPT !.data = [n \in DOMAIN @ |->
              Apply("+", @[n], seed.data[seed.offset + n])]]

RECURSIVE AdBackward(_, _, _)
AdBackward(node, seed, gradient) ==
    CASE node.op \in {"none", "lost"} -> gradient
      [] node.op = "input" -> Accumulate(gradient, seed)
      [] OTHER ->
            FoldLeft(LAMBDA done, s :
                         [of |-> done.of + 1,
                          g |-> AdBackward(node.derivations[done.of], s, done.g)],
                     [of |-> 1, g |-> gradient], Seeds(node, seed)).g

(* ad_finish; without a path to the leaf the gradient is zero.              *)
Gradient(g) ==
    IF g = <<>> THEN NewTensor(registers[1].value.shape, LAMBDA n : 0) ELSE g

-----------------------------------------------------------------------------
(* What is meant: a shape and, at each coordinate, the element [v] and its  *)
(* derivatives [d] by the elements of x.                                    *)

Size == Counted(registers[1].value.shape)
Constant(n) == [v |-> n, d |-> [i \in 1 .. Size |-> 0]]
Dual(op, p, q) ==
    [v |-> Apply(op, p.v, q.v),
     d |-> [i \in DOMAIN p.d |->
        CASE op \in {"+", "-"} -> Apply(op, p.d[i], q.d[i])
          [] op = "*" -> (p.v * q.d[i] + p.d[i] * q.v) % Prime
          [] op = "/" -> Apply("/", p.d[i] * q.v - p.v * q.d[i], q.v * q.v % Prime)]]

Meaning(shape, F(_)) ==
    [shape |-> shape, at |-> [c \in AllCoordinates(shape) |-> F(c)]]
Aligned(p, c) ==
    p.at[[i \in DOMAIN p.shape |->
            IF p.shape[i] = 1 THEN 0 ELSE c[Len(c) - Len(p.shape) + i]]]
DualSum(s) == FoldLeft(LAMBDA p, q : Dual("+", p, q), Constant(0), s)

MeaningArithmetic(p, q, op) ==
    Meaning(BroadcastShape(p.shape, q.shape),
            LAMBDA c : Dual(op, Aligned(p, c), Aligned(q, c)))
MeaningMatmul(p, q) ==
    LET row == IF Len(p.shape) = 1 THEN 0 ELSE 1
        column == IF Len(q.shape) = 1 THEN 0 ELSE 1
        batch == BroadcastShape(Batch(p.shape), Batch(q.shape))
        rows == IF row = 0 THEN <<>> ELSE <<p.shape[Len(p.shape) - 1]>>
        columns == IF column = 0 THEN <<>> ELSE <<Last(q.shape)>>
        Left(c, k) == SubSeq(c, 1, Len(batch) + row) \o <<k>>
        Right(c, k) ==
            SubSeq(c, 1, Len(batch)) \o <<k>> \o SubSeq(c, Len(batch) + row + 1, Len(c))
    IN  Meaning(batch \o rows \o columns, LAMBDA c :
            DualSum([k \in 1 .. Last(p.shape) |->
                Dual("*", Aligned(p, Left(c, k - 1)), Aligned(q, Right(c, k - 1)))]))

ValuesOf(s) == [i \in DOMAIN s |-> s[i].v]

(* Of several elements: their sum, mean, or the first that is the best.     *)
MeaningReduction(op, s) ==
    CASE op = "sum" -> DualSum(s)
      [] op = "mean" -> Dual("/", DualSum(s), Constant(Len(s)))
      [] op = "argmax" -> Constant(Least(Opposites(ValuesOf(s))) - 1)
      [] op = "max" -> s[Least(Opposites(ValuesOf(s)))]
      [] op = "min" -> s[Least(Signs(ValuesOf(s)))]
MeaningReduce(p, op) ==
    Meaning(<<>>, LAMBDA c :
        MeaningReduction(op, [n \in 1 .. Counted(p.shape) |->
                                  p.at[Coordinates(p.shape, n - 1)]]))
MeaningReduceAxis(p, op, axis) ==
    Meaning(RemoveAt(p.shape, axis), LAMBDA c :
        MeaningReduction(op, [k \in 1 .. p.shape[axis] |->
                                  p.at[InsertAt(c, axis, k - 1)]]))

MeaningGather(p, q, axis) ==
    LET k == Len(q.shape)
    IN  Meaning(SubSeq(p.shape, 1, axis - 1) \o q.shape
                    \o SubSeq(p.shape, axis + 1, Len(p.shape)),
                LAMBDA c :
                    p.at[SubSeq(c, 1, axis - 1)
                           \o <<Resolved(q.at[SubSeq(c, axis, axis + k - 1)].v,
                                         p.shape[axis])>>
                           \o SubSeq(c, axis + k, Len(c))])
MeaningIndex(p, spec) ==
    LET kept == SelectSeq([i \in DOMAIN p.shape |-> i],
                          LAMBDA i : i > Len(spec) \/ ~IsPosition(spec[i]))
        Back(c) ==
            [i \in DOMAIN p.shape |->
                (IF i > Len(spec) THEN 0 ELSE Start(spec[i], p.shape[i]))
                + (IF Contains(kept, i)
                   THEN c[CHOOSE j \in DOMAIN kept : kept[j] = i] ELSE 0)]
    IN  Meaning([j \in DOMAIN kept |->
                    IF kept[j] > Len(spec) THEN p.shape[kept[j]]
                    ELSE Extent(spec[kept[j]], p.shape[kept[j]])],
                LAMBDA c : p.at[Back(c)])

-----------------------------------------------------------------------------
(* Registers and operations.                                                *)

Tensor(r) == r.kind = "tensor"
Derived(r) == r.node # Underived

Constantly(r) ==
    \A c \in DOMAIN r.meaning.at : r.meaning.at[c] = Constant(r.meaning.at[c].v)

TNInit ==
    \E p \in Inputs :
        LET n == Counted(p[1].shape)
            Register(t, node, D(_)) ==
                [kind |-> "tensor", value |-> t, node |-> node,
                 meaning |-> Meaning(t.shape, LAMBDA c :
                                [v |-> At(t, c), d |-> D(Linear(t.shape, c))]),
                 meant |-> TRUE, whole |-> TRUE]
        IN  registers =
              <<Register(p[1], Input,
                         LAMBDA l : [i \in 1 .. n |-> IF i = l + 1 THEN 1 ELSE 0]),
                Register(p[2], Underived, LAMBDA l : [i \in 1 .. n |-> 0])>>

(* A result: meant if the code computes what is written, whole if the       *)
(* derivation leads to every operand it depends on.  What does not depend   *)
(* on x is of no interest; each operation goes on from the one before, a    *)
(* bound.                                                                   *)
Result(kind, value, node, meaning, used, meant, whole) ==
    /\ Len(registers) > 2 => Last(registers) \in Range(used)
    /\ \E r \in Range(used) : ~Constantly(r)
    /\ registers' = Append(registers,
          [kind |-> kind, value |-> value, node |-> node, meaning |-> meaning,
           meant |-> meant /\ \A r \in Range(used) : r.meant,
           whole |-> whole /\ \A r \in Range(used) : r.whole])

Recorded(op, axis, used) ==
    [op |-> op, axis |-> axis, operands |-> [k \in DOMAIN used |-> used[k].value],
     derivations |-> [k \in DOMAIN used |-> used[k].node]]
RecordedIfDerived(op, axis, used) ==
    IF Derived(used[1]) THEN Recorded(op, axis, used) ELSE Underived

Arithmetic(r, s, op) ==
    /\ Tensor(r) /\ Tensor(s)
    /\ Compatible(r.value.shape, s.value.shape)
    /\ op = "/" => NoZero(s.value)
    /\ Result("tensor", Elementwise(r.value, s.value, op), Recorded(op, 0, <<r, s>>),
              MeaningArithmetic(r.meaning, s.meaning, op), <<r, s>>, TRUE, TRUE)

(* A tensor and a number: nothing is recorded.                              *)
ScalarArithmetic(r, s, op) ==
    LET t == IF Tensor(r) THEN r ELSE s
        n == IF Tensor(r) THEN s ELSE r
    IN  /\ Tensor(r) # Tensor(s)
        /\ op = "/" => NoZero(n.value) /\ NoZero(s.value)
        /\ Result("tensor", ElementwiseScalar(t.value, n.value.data[1], op),
                  IF Derived(r) \/ Derived(s) THEN Lost ELSE Underived,
                  MeaningArithmetic(r.meaning, s.meaning, op), <<r, s>>,
                  Tensor(r) \/ op \in {"+", "*"}, FALSE)

NumberArithmetic(r, s, op) ==
    /\ ~Tensor(r) /\ ~Tensor(s)
    /\ op = "/" => NoZero(s.value)
    /\ Result("number", Elementwise(r.value, s.value, op),
              IF Derived(r) \/ Derived(s) THEN Lost ELSE Underived,
              MeaningArithmetic(r.meaning, s.meaning, op), <<r, s>>, TRUE, FALSE)

(* A vector by a batch of matrices has a derivation that ad_backward reads  *)
(* only the first axis of.                                                  *)
MatmulOf(r, s) ==
    /\ Tensor(r) /\ Tensor(s) /\ Multipliable(r.value, s.value)
    /\ Result("tensor", Matmul(r.value, s.value), Recorded("matmul", 0, <<r, s>>),
              MeaningMatmul(r.meaning, s.meaning), <<r, s>>, TRUE,
              1 \in {Rank(r.value), Rank(s.value)} =>
                  {Rank(r.value), Rank(s.value)} \subseteq {1, 2})

(* The largest and the smallest are not recorded; argmax does not vary.     *)
ReduceOf(r, op) ==
    /\ Tensor(r) /\ (op = "sum" \/ Counted(r.value.shape) > 0)
    /\ Result("number", Reduce(r.value, op),
              IF op \in {"sum", "mean"} THEN Recorded(op, 0, <<r>>) ELSE Underived,
              MeaningReduce(r.meaning, op), <<r>>, TRUE, op \notin {"max", "min"})
ReduceAlong(r, op, axis) ==
    /\ Tensor(r) /\ axis <= Rank(r.value)
    /\ op = "sum" \/ r.value.shape[axis] > 0
    /\ op = "argmax" => Counted(r.value.shape) > 0
    /\ Result("tensor", ReduceAxis(r.value, op, axis),
              IF op \in {"sum", "mean"} THEN Recorded(op, axis, <<r>>) ELSE Underived,
              MeaningReduceAxis(r.meaning, op, axis), <<r>>, TRUE,
              op \notin {"max", "min"})

ReshapeOf(r, shape) ==
    /\ Tensor(r) /\ Counted(shape) = Counted(r.value.shape)
    /\ Result("tensor", Reshape(r.value, shape), RecordedIfDerived("reshape", 0, <<r>>),
              Meaning(shape, LAMBDA c :
                  r.meaning.at[Coordinates(r.meaning.shape, Linear(shape, c))]),
              <<r>>, TRUE, TRUE)

TransposeOf(r) ==
    /\ Tensor(r) /\ Rank(r.value) >= 2
    /\ Result("tensor", Transpose(r.value), RecordedIfDerived("transpose", 0, <<r>>),
              Meaning(SwapLast(r.meaning.shape), LAMBDA c : r.meaning.at[SwapLast(c)]),
              <<r>>, TRUE, TRUE)

ReluOf(r) ==
    /\ Tensor(r)
    /\ Result("tensor",
              NewTensor(r.value.shape, LAMBDA n :
                  IF Signed(Logical(r.value, n)) > 0 THEN Logical(r.value, n) ELSE 0),
              RecordedIfDerived("relu", 0, <<r>>),
              Meaning(r.meaning.shape, LAMBDA c :
                  IF Signed(r.meaning.at[c].v) > 0 THEN r.meaning.at[c] ELSE Constant(0)),
              <<r>>, TRUE, TRUE)

GatherOf(r, s, axis) ==
    /\ Tensor(r) /\ Tensor(s) /\ axis <= Rank(r.value)
    /\ \A n \in 0 .. Counted(s.value.shape) - 1 :
          InRange(Logical(s.value, n), r.value.shape[axis])
    /\ Result("tensor", Gather(r.value, s.value, axis),
              RecordedIfDerived("gather", axis, <<r, s>>),
              MeaningGather(r.meaning, s.meaning, axis), <<r, s>>, TRUE, TRUE)

CompareOf(r, s, relation) ==
    /\ Tensor(r) /\ Tensor(s) /\ Compatible(r.value.shape, s.value.shape)
    /\ Result("tensor", Compare(r.value, s.value, relation), Underived,
              Meaning(BroadcastShape(r.value.shape, s.value.shape), LAMBDA c :
                  Constant(IF Holds(relation, Aligned(r.meaning, c).v,
                                    Aligned(s.meaning, c).v) THEN 1 ELSE 0)),
              <<r, s>>, TRUE, TRUE)

(* Recorded as the sum of what is taken from either side.                   *)
SelectOf(m, r, s) ==
    LET out == BroadcastShape(r.value.shape, s.value.shape)
        Where(t) == [value |-> t, node |-> Underived]
        ones == NewTensor(out, LAMBDA n : IF BroadcastAt(m.value, out, n) # 0 THEN 1 ELSE 0)
        zeros == NewTensor(out, LAMBDA n : 1 - ones.data[n + 1])
        Part(side, mask) ==
            [value |-> Elementwise(side.value, mask, "*"),
             node |-> RecordedIfDerived("*", 0, <<side, Where(mask)>>)]
    IN  /\ Tensor(m) /\ Tensor(r) /\ Tensor(s)
        /\ Compatible(r.value.shape, s.value.shape) /\ Maskable(m.value, out)
        /\ Result("tensor", Selected(m.value, r.value, s.value),
                  IF Derived(r) \/ Derived(s)
                  THEN Recorded("+", 0, <<Part(r, ones), Part(s, zeros)>>) ELSE Underived,
                  Meaning(out, LAMBDA c :
                      IF Aligned(m.meaning, c).v # 0 THEN Aligned(r.meaning, c)
                      ELSE Aligned(s.meaning, c)),
                  <<m, r, s>>, TRUE, TRUE)

(* A view, or the number at a position; nothing is recorded.                *)
IndexOf(r, spec) ==
    LET view == Index(r.value, spec)
    IN  /\ Tensor(r) /\ Indexable(r.value, spec)
        /\ Result(IF view.shape = <<>> THEN "number" ELSE "tensor",
                  IF view.shape = <<>> THEN Scalar(At(view, <<>>)) ELSE view, Underived,
                  MeaningIndex(r.meaning, spec), <<r>>, TRUE, FALSE)

Registers == Range(registers)
Binary(r, s) ==
    \E op \in {"+", "-", "*", "/"} :
        Arithmetic(r, s, op) \/ ScalarArithmetic(r, s, op) \/ NumberArithmetic(r, s, op)
Operation ==
    \/ \E r, s \in Registers :
          \/ Binary(r, s)
          \/ MatmulOf(r, s)
          \/ \E axis \in 1 .. 3 : GatherOf(r, s, axis)
          \/ \E relation \in Relations : CompareOf(r, s, relation)
          \/ \E m \in Registers : SelectOf(m, r, s)
    \/ \E r \in Registers :
          \/ \E op \in Reductions :
                ReduceOf(r, op) \/ \E axis \in 1 .. 3 : ReduceAlong(r, op, axis)
          \/ \E shape \in Shapes : ReshapeOf(r, shape)
          \/ TransposeOf(r)
          \/ ReluOf(r)
          \/ \E spec \in SeqOf(Positions, 2) : IndexOf(r, spec)

TNNext == Len(registers) < MaxOperations + 2 /\ Operation
TNSpec == TNInit /\ [][TNNext]_TNvars

-----------------------------------------------------------------------------
(* Properties.                                                             *)

(* Every element of a tensor is the one that its operations mean, through   *)
(* views of views and broadcasts, whatever the layout (tensor.rs).  Except  *)
(* where the number is the first operand of - or /, which the code takes    *)
(* for the second (lift_binary_raw).                                        *)
TensorsExact ==
    LET r == Last(registers)
    IN  r.meant =>
          /\ r.value.shape = r.meaning.shape
          /\ \A c \in DOMAIN r.meaning.at : At(r.value, c) = r.meaning.at[c].v

(* Seeded with each element of r in turn, the backward pass gives each      *)
(* element of x its derivative.                                            *)
Differentiated(r) ==
    \A c \in DOMAIN r.meaning.at :
        LET seed == NewTensor(r.meaning.shape, LAMBDA n :
                        IF n = Linear(r.meaning.shape, c) THEN 1 ELSE 0)
        IN  \A g \in {AdBackward(r.node, seed, <<>>)} :
                /\ Gradient(g).shape = registers[1].value.shape
                /\ Gradient(g).data = r.meaning.at[c].d

(* The backward pass gives each element of x the derivative of each element *)
(* of the result, summed over every path of the derivation (ad_backward,    *)
(* ad_finish), where each operation is one whose derivation it follows.     *)
GradientsExact ==
    LET r == Last(registers)
    IN  r.whole /\ r.meant => Differentiated(r)
=============================================================================
