---------------------------- MODULE ReactiveProofs ----------------------------
(***************************************************************************)
(* Theorems about Reactive, for any roots, derived values and places of a  *)
(* program in which no generator or future keeps live values while it is   *)
(* not running; and about Training, for any points, epochs and sizes of    *)
(* batches.                                                                *)
(***************************************************************************)
EXTENDS Reactive, Training, FiniteSetTheorems, WellFoundedInduction, TLAPS

-----------------------------------------------------------------------------
(* Sequences of anything. *)

IsSeq(s) == \E V : s \in Seq(V)

LEMMA AppendTyped ==
  ASSUME NEW W, NEW s \in Seq(W), NEW x \in W
  PROVE  /\ Append(s, x) \in Seq(W) /\ Len(s) \in Nat /\ Len(Append(s, x)) = Len(s) + 1
         /\ \A i \in 1 .. Len(s) : Append(s, x)[i] = s[i]
         /\ Append(s, x)[Len(s) + 1] = x
OBVIOUS

LEMMA AppendAny ==
  ASSUME NEW s, NEW x, IsSeq(s)
  PROVE  /\ IsSeq(Append(s, x)) /\ Len(s) \in Nat /\ Len(Append(s, x)) = Len(s) + 1
         /\ \A i \in 1 .. Len(s) : Append(s, x)[i] = s[i]
         /\ Append(s, x)[Len(s) + 1] = x
<1>1. PICK V : s \in Seq(V)
  BY DEF IsSeq
<1>2. PICK W : W = V \cup {x}
  OBVIOUS
<1>3. s \in Seq(W) /\ x \in W
  BY <1>1, <1>2
<1>4. QED
  BY <1>3, AppendTyped DEF IsSeq

LEMMA OneOf ==
  ASSUME NEW x
  PROVE  IsSeq(<<x>>) /\ Len(<<x>>) = 1 /\ <<x>>[1] = x /\ <<x>> # <<>>
<1>1. <<x>> \in Seq({x})
  OBVIOUS
<1>2. QED
  BY <1>1 DEF IsSeq

LEMMA LeastOf ==
  ASSUME NEW S, S \subseteq Nat, S # {}
  PROVE  \E m \in S : \A y \in S : m <= y
<1>1. PICK m \in S : \A y \in S : ~(<<y, m>> \in OpToRel(<, Nat))
  BY NatLessThanWellFounded, WFMin, Zenon
<1>2. ASSUME NEW y \in S PROVE m <= y
  <2>1. y \in Nat /\ m \in Nat
    OBVIOUS
  <2>2. ~(y < m)
    BY <1>1, <2>1 DEF OpToRel
  <2>3. QED
    BY <2>1, <2>2
<1>3. QED
  BY <1>2

LEMMA LastOfSome ==
  ASSUME NEW n \in Nat, NEW S, S \subseteq 1 .. n, S # {}
  PROVE  \E i \in S : \A j \in S : j <= i
<1>1. PICK T : T = {k \in 0 .. n : n - k \in S}
  OBVIOUS
<1>2. ASSUME NEW i \in S PROVE n - i \in T
  <2>1. i \in 1 .. n
    OBVIOUS
  <2>2. n - i \in 0 .. n /\ n - (n - i) = i
    BY <2>1
  <2>3. QED
    BY <1>1, <2>2
<1>3. T \subseteq Nat /\ T # {}
  <2>1. PICK i \in S : TRUE
    OBVIOUS
  <2>2. n - i \in T
    BY <1>2, <2>1
  <2>3. T \subseteq Nat
    BY <1>1
  <2>4. QED
    BY <2>2, <2>3
<1>4. PICK m \in T : \A y \in T : m <= y
  BY <1>3, LeastOf
<1>5. n - m \in S
  BY <1>1, <1>4
<1>6. ASSUME NEW j \in S PROVE j <= n - m
  <2>1. m <= n - j
    BY <1>2, <1>4
  <2>2. m \in Nat /\ j \in Nat
    BY <1>3, <1>4
  <2>3. QED
    BY <2>1, <2>2
<1>7. QED
  BY <1>5, <1>6

-----------------------------------------------------------------------------
(* What a node was: ContentsAt, of its history, version and contents. *)

Past(h, r) == {i \in 1 .. Len(h) : h[i].revision <= r}
Latest(S) == CHOOSE i \in S : \A j \in S : j <= i
ValueAt(h, v, c, r) ==
    IF v <= r THEN c ELSE IF Past(h, r) = {} THEN NoNode ELSE h[Latest(Past(h, r))].value

LEMMA ContentsAtIs ==
  ASSUME NEW n, NEW r, n # NoNode
  PROVE  ContentsAt(n, r) = ValueAt(history[n], version[n], current[n], r)
BY Zenon DEF ContentsAt, ValueAt, Past, Latest

(* Once it is superseded, a version is found in the history. *)
LEMMA Superseded ==
  ASSUME NEW h, IsSeq(h), NEW v \in Nat, NEW w \in Nat, NEW r \in Nat, r < w,
         NEW c, NEW d
  PROVE  ValueAt(Append(h, [revision |-> v, value |-> c]), w, d, r) = ValueAt(h, v, c, r)
<1> DEFINE e == [revision |-> v, value |-> c]
           g == Append(h, e)
           n == Len(h)
<1>1. /\ n \in Nat /\ Len(g) = n + 1 /\ g[n + 1] = e
      /\ \A i \in 1 .. n : g[i] = h[i]
  BY AppendAny
<1>2. e.revision = v /\ e.value = c
  OBVIOUS
<1> HIDE DEF g, e
<1>3. ~(w <= r)
  OBVIOUS
<1>4. Past(h, r) \subseteq 1 .. n
  BY DEF Past
<1>5. CASE v <= r
  <2>1. n + 1 \in Past(g, r) /\ \A j \in Past(g, r) : j \in Nat /\ j <= n + 1
    BY <1>1, <1>2, <1>5 DEF Past
  <2>2. PICK S : S = Past(g, r)
    OBVIOUS
  <2>3. \A i \in S : (\A j \in S : j <= i) => i = n + 1
    BY <1>1, <2>1, <2>2
  <2>4. Latest(S) = n + 1
    BY <2>1, <2>2, <2>3 DEF Latest
  <2>5. ValueAt(g, w, d, r) = c
    BY <1>1, <1>2, <1>3, <2>1, <2>2, <2>4 DEF ValueAt
  <2>6. QED
    BY <1>5, <2>5 DEF ValueAt, g, e
<1>6. CASE ~(v <= r)
  <2>1. Past(g, r) = Past(h, r)
    BY <1>1, <1>2, <1>6 DEF Past
  <2>2. CASE Past(h, r) = {}
    BY <1>3, <1>6, <2>1, <2>2 DEF ValueAt, g, e
  <2>3. CASE Past(h, r) # {}
    <3>1. \E i \in Past(h, r) : \A j \in Past(h, r) : j <= i
      BY <1>1, <1>4, <2>3, LastOfSome
    <3>2. Latest(Past(h, r)) \in Past(h, r)
      BY <3>1 DEF Latest
    <3>3. g[Latest(Past(h, r))] = h[Latest(Past(h, r))]
      BY <1>1, <1>4, <3>2
    <3>4. QED
      BY <1>3, <1>6, <2>1, <2>3, <3>3 DEF ValueAt, g, e
  <2>4. QED
    BY <2>2, <2>3
<1>7. QED
  BY <1>5, <1>6

-----------------------------------------------------------------------------
(* The inductive invariant. *)

Operands == Live \cup {NoNode}

RXTypeOK ==
    /\ held \in [Places -> Operands]
    /\ DOMAIN dependency = Live /\ dependency = [n \in Live |-> dependency[n]]
    /\ inputs \in [Live -> Operands \X Operands]
    /\ version \in [Live -> Nat] /\ born \in [Live -> Nat] /\ vmRevision \in Nat
    /\ current = [n \in Live |-> current[n]]
    /\ history = [n \in Live |-> history[n]] /\ \A n \in Live : IsSeq(history[n])
    /\ list \in Seq(Live) /\ IsSeq(staged) /\ published \in Nat \cup {NoNode}

(* What is held is made, and so are the inputs of what is made. *)
Sound ==
    /\ \A p \in Places : held[p] # NoNode => Made(held[p])
    /\ \A n \in Live : Made(n) => \A m \in Inputs(n) : Made(m)
    /\ \A n \in ReactiveRoots : Inputs(n) = {}

(* No version is later than the revision, or than the one being published. *)
Dated ==
    /\ \A n \in Live : born[n] <= vmRevision
    /\ \A n \in Live : version[n] <= vmRevision + 1
    /\ published = NoNode => \A n \in Live : version[n] <= vmRevision

Agrees(n, r) ==
    ContentsAt(n, r) = Apply(ContentsAt(inputs[n][1], r), ContentsAt(inputs[n][2], r))

(* HistoryAgrees of everything the program can reach, and at all times. *)
Agreed ==
    \A n \in Collected \cap Derived : \A r \in born[n] .. vmRevision : Agrees(n, r)

(* What is listed is what can be reached, each node once and after its      *)
(* inputs.                                                                  *)
Distinct(l) == \A i, j \in 1 .. Len(l) : l[i] = l[j] => i = j
Listed ==
    /\ {list[i] : i \in 1 .. Len(list)} = Collected
    /\ Distinct(list) /\ Topological(list)
    /\ staged[1] \in ReactiveRoots

(* What a node is to have by what is staged: Operand, of its variables.     *)
PositionIn(l, m) == CHOOSE i \in 1 .. Len(l) : l[i] = m
OperandIn(l, s, c, m) ==
    IF m # NoNode /\ s[PositionIn(l, m) + 1] # <<>> THEN s[PositionIn(l, m) + 1][1]
    ELSE Contents(m, c)

(* It is the operation's result of what the operands are to have.           *)
Applied(l, s, c, ins, n) ==
    n \in Derived =>
        OperandIn(l, s, c, n) =
            Apply(OperandIn(l, s, c, ins[n][1]), OperandIn(l, s, c, ins[n][2]))

Recomputed ==
    /\ Len(staged) \in 1 .. Len(list) + 1
    /\ \A k \in 1 .. Len(staged) - 1 : Applied(list, staged, current, inputs, list[k])
    /\ published # NoNode =>
          /\ Len(staged) = Len(list) + 1 /\ published <= Len(list)
          /\ \A k \in 1 .. published :
                current[list[k]] = OperandIn(list, staged, current, list[k])

RXInv ==
    /\ RXTypeOK /\ Sound /\ Dated /\ Agreed
    /\ Observing => Listed /\ Recomputed
    /\ ~Observing => published = NoNode

-----------------------------------------------------------------------------
(* What can be reached. *)

InputsOf(ins, n) == {ins[n][1], ins[n][2]} \ {NoNode}
Closed(h, ins, S) ==
    /\ \A p \in Places : h[p] # NoNode => h[p] \in S
    /\ \A m \in S : InputsOf(ins, m) \subseteq S
From(h, ins) == {n \in Live : \A S \in SUBSET Live : Closed(h, ins, S) => n \in S}

LEMMA CollectedFrom ==
  Collected = From(held, inputs) /\ Collected' = From(held', inputs')
BY DEF Collected, From, Closed, Inputs, InputsOf, Live

LEMMA FromIs ==
  ASSUME NEW h \in [Places -> Operands], NEW ins \in [Live -> Operands \X Operands]
  PROVE  /\ From(h, ins) \subseteq Live
         /\ \A S \in SUBSET Live : Closed(h, ins, S) => From(h, ins) \subseteq S
         /\ Closed(h, ins, From(h, ins))
<1>1. From(h, ins) \subseteq Live
  BY DEF From
<1>2. \A S \in SUBSET Live : Closed(h, ins, S) => From(h, ins) \subseteq S
  BY DEF From
<1>3. ASSUME NEW p \in Places, h[p] # NoNode PROVE h[p] \in From(h, ins)
  <2>1. h[p] \in Live
    BY <1>3 DEF Operands
  <2>2. QED
    BY <1>3, <2>1 DEF From, Closed
<1>4. ASSUME NEW m \in From(h, ins), NEW x \in InputsOf(ins, m) PROVE x \in From(h, ins)
  <2>1. m \in Live
    BY <1>1
  <2>2. ins[m] \in Operands \X Operands
    BY <2>1
  <2>3. x \in Live
    BY <2>2 DEF Operands, InputsOf
  <2>4. \A S \in SUBSET Live : Closed(h, ins, S) => x \in S
    BY DEF From, Closed
  <2>5. QED
    BY <2>3, <2>4 DEF From
<1>5. QED
  BY <1>1, <1>2, <1>3, <1>4 DEF Closed

(* Fewer places reach less, and a new node adds only itself. *)
LEMMA FromFewer ==
  ASSUME NEW h \in [Places -> Operands], NEW ins \in [Live -> Operands \X Operands],
         NEW g \in [Places -> Operands],
         \A p \in Places : g[p] # NoNode => g[p] = h[p]
  PROVE  From(g, ins) \subseteq From(h, ins)
<1>1. Closed(h, ins, From(h, ins)) /\ From(h, ins) \in SUBSET Live
  BY FromIs
<1>2. Closed(g, ins, From(h, ins))
  BY <1>1 DEF Closed
<1>3. QED
  BY <1>1, <1>2, FromIs

LEMMA FromWithNew ==
  ASSUME NEW h \in [Places -> Operands], NEW ins \in [Live -> Operands \X Operands],
         NEW g \in [Places -> Operands], NEW jns \in [Live -> Operands \X Operands],
         NEW n \in Live,
         \A p \in Places : g[p] \notin {NoNode, n} => g[p] = h[p],
         \A m \in Live : m # n => jns[m] = ins[m],
         InputsOf(jns, n) \subseteq From(h, ins)
  PROVE  From(g, jns) \subseteq From(h, ins) \cup {n}
<1>1. Closed(h, ins, From(h, ins)) /\ From(h, ins) \in SUBSET Live
  BY FromIs
<1>2. PICK S : S = From(h, ins) \cup {n}
  OBVIOUS
<1>3. \A p \in Places : g[p] # NoNode => g[p] \in S
  BY <1>1, <1>2 DEF Closed
<1>4. ASSUME NEW m \in S PROVE InputsOf(jns, m) \subseteq S
  <2>1. CASE m = n
    BY <1>2, <2>1
  <2>2. CASE m # n
    <3>1. m \in From(h, ins) /\ jns[m] = ins[m]
      BY <1>1, <1>2, <2>2
    <3>2. InputsOf(jns, m) = InputsOf(ins, m)
      BY <3>1 DEF InputsOf
    <3>3. QED
      BY <1>1, <1>2, <3>1, <3>2 DEF Closed
  <2>3. QED
    BY <2>1, <2>2
<1>5. S \in SUBSET Live
  BY <1>1, <1>2
<1>6. From(g, jns) \subseteq S
  BY <1>3, <1>4, <1>5, FromIs DEF Closed
<1>7. QED
  BY <1>2, <1>6

(* What can be reached is made. *)
LEMMA ReachedIsMade ==
  ASSUME RXTypeOK, Sound
  PROVE  \A n \in Collected : n \in Live /\ n # NoNode /\ Made(n)
<1>1. Closed(held, inputs, {n \in Live : Made(n)})
  <2>1. \A p \in Places : held[p] # NoNode => held[p] \in Live
    BY DEF RXTypeOK, Operands
  <2>2. ASSUME NEW m \in Live, NEW x \in Inputs(m) PROVE x \in Live
    BY DEF RXTypeOK, Operands, Inputs
  <2>3. QED
    BY <2>1, <2>2 DEF Closed, Sound, Inputs, InputsOf
<1>2. Collected \subseteq {n \in Live : Made(n)}
  BY <1>1, CollectedFrom, FromIs DEF RXTypeOK
<1>3. QED
  BY <1>2, NodesAreLive DEF Live

LEMMA ReachedIsClosed ==
  ASSUME RXTypeOK
  PROVE  /\ Collected \subseteq Live
         /\ \A p \in Places : held[p] # NoNode => held[p] \in Collected
         /\ \A n \in Collected : Inputs(n) \subseteq Collected
         /\ \A n \in Collected : \A i \in {1, 2} :
                inputs[n][i] = NoNode \/ inputs[n][i] \in Inputs(n)
<1>1. Closed(held, inputs, Collected) /\ Collected \subseteq Live
  BY CollectedFrom, FromIs DEF RXTypeOK
<1>2. QED
  BY <1>1 DEF Closed, Inputs, InputsOf

-----------------------------------------------------------------------------
(* Steps outside an observation. *)

LEMMA ContentsSame ==
  ASSUME NEW n, NEW r,
         n # NoNode => current'[n] = current[n] /\ version'[n] = version[n]
                          /\ history'[n] = history[n]
  PROVE  ContentsAt(n, r)' = ContentsAt(n, r)
<1>1. CASE n = NoNode
  BY <1>1 DEF ContentsAt
<1>2. CASE n # NoNode
  <2>1. ContentsAt(n, r)' = ValueAt(history'[n], version'[n], current'[n], r)
    BY <1>2, Zenon DEF ContentsAt, ValueAt, Past, Latest
  <2>2. QED
    BY <1>2, <2>1, ContentsAtIs
<1>3. QED
  BY <1>1, <1>2

LEMMA ContentsNow ==
  ASSUME NEW n, NEW r, n # NoNode => version[n] <= r
  PROVE  ContentsAt(n, r) = Contents(n, current)
BY DEF ContentsAt, Contents

LEMMA ContentsNext ==
  ASSUME NEW n, NEW r, n # NoNode => version'[n] <= r
  PROVE  ContentsAt(n, r)' = Contents(n, current')
BY DEF ContentsAt, Contents

LEMMA MakeKeeps ==
  ASSUME RXInv, NEW n \in Live, NEW dep, dep # NoNode, NEW ins \in Operands \X Operands,
         NEW value, Make(n, dep, ins, value),
         held' \in [Places -> Operands],
         \A p \in Places : held'[p] \notin {NoNode, n} => held'[p] = held[p],
         {ins[1], ins[2]} \ {NoNode} \subseteq Collected,
         n \in ReactiveRoots => {ins[1], ins[2]} \subseteq {NoNode},
         n \in Derived =>
            value = Apply(Contents(ins[1], current), Contents(ins[2], current))
  PROVE  RXInv'
<1>1. /\ ~Observing /\ ~Observing' /\ published = NoNode /\ published' = NoNode
      /\ ~Made(n) /\ n # NoNode
  BY NodesAreLive DEF RXInv, Make, Observing, Live
<1>2. /\ \A m \in Live : m # n =>
            /\ dependency'[m] = dependency[m] /\ inputs'[m] = inputs[m]
            /\ current'[m] = current[m] /\ version'[m] = version[m]
            /\ born'[m] = born[m] /\ history'[m] = history[m]
      /\ dependency'[n] = dep /\ inputs'[n] = ins /\ current'[n] = value
      /\ version'[n] = vmRevision /\ born'[n] = vmRevision
      /\ vmRevision' = vmRevision /\ list' = list /\ staged' = staged /\ history' = history
  BY DEF Make, RXInv, RXTypeOK
<1>3. RXTypeOK'
  <2>1. /\ held' \in [Places -> Operands] /\ inputs' \in [Live -> Operands \X Operands]
        /\ version' \in [Live -> Nat] /\ born' \in [Live -> Nat] /\ vmRevision' \in Nat
    BY DEF Make, RXInv, RXTypeOK
  <2>2. DOMAIN dependency' = Live /\ dependency' = [m \in Live |-> dependency'[m]]
    BY DEF Make, RXInv, RXTypeOK
  <2>3. current' = [m \in Live |-> current'[m]]
    BY DEF Make, RXInv, RXTypeOK
  <2>4. /\ history' = [m \in Live |-> history'[m]] /\ \A m \in Live : IsSeq(history'[m])
        /\ list' \in Seq(Live) /\ IsSeq(staged') /\ published' \in Nat \cup {NoNode}
    BY <1>1, <1>2 DEF RXInv, RXTypeOK
  <2>5. QED
    BY <2>1, <2>2, <2>3, <2>4 DEF RXTypeOK
<1>4. \A m \in Collected : m \in Live /\ m # NoNode /\ m # n /\ Made(m) /\ Made(m)'
  BY <1>1, <1>2, ReachedIsMade DEF RXInv, Made
<1>5. Collected' \subseteq Collected \cup {n}
  <2>1. InputsOf(inputs', n) \subseteq Collected
    BY <1>2 DEF InputsOf
  <2>2. \A m \in Live : m # n => inputs'[m] = inputs[m]
    BY <1>2
  <2>3. inputs \in [Live -> Operands \X Operands] /\ inputs' \in [Live -> Operands \X Operands]
    BY <1>3 DEF RXInv, RXTypeOK
  <2>4. held \in [Places -> Operands]
    BY DEF RXInv, RXTypeOK
  <2>5. QED
    BY <2>1, <2>2, <2>3, <2>4, FromWithNew, CollectedFrom
<1>6. Sound'
  <2>2. \A p \in Places : held'[p] # NoNode => dependency'[held'[p]] # NoNode
    BY <1>2, <1>4, ReachedIsClosed DEF RXInv, Made
  <2>3. ASSUME NEW m \in Live, Made(m)', NEW x \in Inputs(m)' PROVE Made(x)'
    <3>1. CASE m = n
      BY <1>2, <1>4, <2>3, <3>1 DEF Inputs
    <3>2. CASE m # n
      <4>1. Made(m) /\ x \in Inputs(m)
        BY <1>2, <2>3, <3>2 DEF Made, Inputs
      <4>2. x \in Live /\ Made(x)
        BY <4>1 DEF RXInv, RXTypeOK, Sound, Inputs, Operands
      <4>3. QED
        BY <1>1, <1>2, <4>2 DEF Made
    <3>3. QED
      BY <3>1, <3>2
  <2>4. ASSUME NEW m \in ReactiveRoots PROVE Inputs(m)' = {}
    <3>1. m \in Live
      BY DEF Live
    <3>2. QED
      BY <1>2, <3>1 DEF RXInv, Sound, Inputs
  <2>5. QED
    BY <2>2, <2>3, <2>4 DEF Sound, Made
<1>7. Dated'
  <2>1. ASSUME NEW m \in Live PROVE born'[m] <= vmRevision' /\ version'[m] <= vmRevision'
    <3>1. vmRevision \in Nat /\ vmRevision <= vmRevision
      BY DEF RXInv, RXTypeOK
    <3>2. born[m] <= vmRevision /\ version[m] <= vmRevision
      BY <1>1 DEF RXInv, Dated
    <3>3. QED
      BY <1>2, <3>1, <3>2
  <2>2. \A m \in Live : version'[m] <= vmRevision' + 1
    <3>1. \A v, w \in Nat : v <= w => v <= w + 1
      OBVIOUS
    <3>2. QED
      BY <1>3, <2>1, <3>1 DEF RXTypeOK
  <2>3. QED
    BY <2>1, <2>2 DEF Dated
<1>8. Agreed'
  <2> SUFFICES ASSUME NEW m \in Collected' \cap Derived,
                      NEW r \in (born[m] .. vmRevision)'
               PROVE  Agrees(m, r)'
    BY DEF Agreed
  <2>1. m \in Live
    BY DEF Live
  <2>2. CASE m = n
    <3>1. r = vmRevision
      BY <1>2, <2>2 DEF RXInv, RXTypeOK
    <3>2. ContentsAt(m, r)' = value
      BY <1>1, <1>2, <2>2, <3>1, ContentsNext DEF RXInv, RXTypeOK, Contents
    <3>3. ASSUME NEW x \in {ins[1], ins[2]} PROVE ContentsAt(x, r)' = Contents(x, current)
      <4>1. x # NoNode => x \in Collected
        OBVIOUS
      <4>2. x # NoNode => /\ version'[x] <= r /\ current'[x] = current[x]
        BY <1>1, <1>2, <1>4, <3>1, <4>1 DEF RXInv, Dated
      <4>3. QED
        BY <4>2, ContentsNext DEF Contents
    <3>4. QED
      BY <1>2, <2>2, <3>2, <3>3 DEF Agrees
  <2>3. CASE m # n
    <3>1. m \in Collected
      BY <1>5, <2>3
    <3>2. Agrees(m, r)
      BY <1>2, <2>1, <2>3, <3>1 DEF RXInv, Agreed
    <3>3. ASSUME NEW x \in {m, inputs[m][1], inputs[m][2]}
          PROVE  ContentsAt(x, r)' = ContentsAt(x, r)
      <4>1. x = NoNode \/ x \in Collected
        BY <3>1, ReachedIsClosed DEF RXInv
      <4>2. QED
        BY <1>2, <1>4, <4>1, ContentsSame
    <3>4. inputs'[m] = inputs[m]
      BY <1>2, <2>1, <2>3
    <3>5. QED
      BY <3>2, <3>3, <3>4 DEF Agrees
  <2>4. QED
    BY <2>2, <2>3
<1>9. QED
  BY <1>1, <1>3, <1>6, <1>7, <1>8 DEF RXInv

LEMMA RootKeeps ==
  ASSUME RXInv, NEW p \in Places, NEW n \in ReactiveRoots, NEW dep \in Nat, Root(p, n, dep)
  PROVE  RXInv'
<1>1. n \in Live /\ dep # NoNode
  BY NodesAreLive DEF Live
<1>2. held' = [held EXCEPT ![p] = n] /\ Make(n, dep, <<NoNode, NoNode>>, <<0>>)
  BY DEF Root, Hold
<1>3. held \in [Places -> Operands]
  BY DEF RXInv, RXTypeOK
<1>4. /\ held' \in [Places -> Operands]
      /\ \A q \in Places : held'[q] \notin {NoNode, n} => held'[q] = held[q]
  BY <1>1, <1>2, <1>3 DEF Operands
<1>5. PICK ins : ins = <<NoNode, NoNode>>
  OBVIOUS
<1>6. ins \in Operands \X Operands /\ ins[1] = NoNode /\ ins[2] = NoNode
  BY <1>5 DEF Operands
<1>7. n \notin Derived
  BY NodesAreLive
<1>8. PICK value : value = <<0>>
  OBVIOUS
<1>9. Make(n, dep, ins, value)
  BY <1>2, <1>5, <1>8, Zenon
<1>10. QED
  BY <1>1, <1>4, <1>6, <1>7, <1>9, MakeKeeps

LEMMA DeriveKeeps ==
  ASSUME RXInv, NEW p \in Places, NEW l \in Places, NEW n \in Derived,
         NEW r \in Places \cup {NoNode}, Derive(p, n, l, r)
  PROVE  RXInv'
<1>1. n \in Live /\ n \notin ReactiveRoots
  BY NodesAreLive DEF Live
<1>2. PICK left, right : left = held[l] /\ right = IF r = NoNode THEN NoNode ELSE held[r]
  OBVIOUS
<1>3. held \in [Places -> Operands]
  BY DEF RXInv, RXTypeOK
<1>4. left \in Operands /\ right \in Operands
  BY <1>2, <1>3 DEF Operands
<1>5. {left, right} \ {NoNode} \subseteq Collected
  BY <1>2, ReachedIsClosed DEF RXInv
<1>6. PICK D : D = {dependency[m] : m \in {left, right} \ {NoNode}}
  OBVIOUS
<1>7. PICK ins, value, dep :
        /\ ins = <<left, right>> /\ dep = CHOOSE d \in D : TRUE
        /\ value = Apply(Contents(left, current), Contents(right, current))
  OBVIOUS
<1>8. ins \in Operands \X Operands /\ ins[1] = left /\ ins[2] = right
  BY <1>4, <1>7
<1>9. Make(n, dep, ins, value) /\ {left, right} # {NoNode}
  BY <1>2, <1>6, <1>7, Zenon DEF Derive
<1>10. dep # NoNode
  <2>1. PICK m \in {left, right} \ {NoNode} : TRUE
    BY <1>9
  <2>2. dependency[m] \in D
    BY <1>6, <2>1
  <2>3. dep \in D
    BY <1>7, <2>2
  <2>4. PICK x \in {left, right} \ {NoNode} : dep = dependency[x]
    BY <1>6, <2>3
  <2>5. x \in Collected
    BY <1>5, <2>4
  <2>6. QED
    BY <2>4, <2>5, ReachedIsMade DEF RXInv, Made
<1>11. held' = [held EXCEPT ![p] = n]
  BY DEF Derive, Hold
<1>12. /\ held' \in [Places -> Operands]
       /\ \A q \in Places : held'[q] \notin {NoNode, n} => held'[q] = held[q]
  BY <1>1, <1>3, <1>11 DEF Operands
<1>13. value = Apply(Contents(ins[1], current), Contents(ins[2], current))
  BY <1>7, <1>8
<1>14. {ins[1], ins[2]} \ {NoNode} \subseteq Collected
  BY <1>5, <1>8
<1>15. QED
  BY <1>1, <1>8, <1>9, <1>10, <1>12, <1>13, <1>14, MakeKeeps

LEMMA AgreedSame ==
  ASSUME RXTypeOK, Agreed, Collected' \subseteq Collected,
         UNCHANGED <<inputs, current, version, born, history, vmRevision>>
  PROVE  Agreed'
<1> SUFFICES ASSUME NEW m \in Collected' \cap Derived, NEW r \in (born[m] .. vmRevision)'
             PROVE  Agrees(m, r)'
  BY DEF Agreed
<1>1. Agrees(m, r)
  BY DEF Agreed
<1>2. \A x \in {m, inputs[m][1], inputs[m][2]} : ContentsAt(x, r)' = ContentsAt(x, r)
  BY ContentsSame
<1>3. QED
  BY <1>1, <1>2 DEF Agrees

LEMMA ListsKeep ==
  ASSUME RXInv, UNCHANGED <<dependency, inputs, current, version, born, history, vmRevision>>,
         held' \in [Places -> Operands],
         \A p \in Places : held'[p] # NoNode => held'[p] = held[p],
         list' \in Seq(Live), IsSeq(staged'), published' \in Nat \cup {NoNode},
         published' = NoNode => published = NoNode
  PROVE  RXTypeOK' /\ Sound' /\ Dated' /\ Agreed'
<1>1. RXTypeOK'
  BY DEF RXInv, RXTypeOK
<1>2. Sound'
  BY DEF RXInv, Sound, Made, Inputs
<1>3. Dated'
  BY DEF RXInv, Dated
<1>4. Collected' \subseteq Collected
  <2>1. /\ held \in [Places -> Operands] /\ inputs \in [Live -> Operands \X Operands]
        /\ inputs' = inputs
    BY DEF RXInv, RXTypeOK
  <2>2. From(held', inputs) \subseteq From(held, inputs)
    BY <2>1, FromFewer
  <2>3. QED
    BY <2>1, <2>2, CollectedFrom
<1>5. Agreed'
  BY <1>4, AgreedSame DEF RXInv
<1>6. QED
  BY <1>1, <1>2, <1>3, <1>5

LEMMA DropKeeps ==
  ASSUME RXInv, NEW p \in Places, Drop(p)
  PROVE  RXInv'
<1>1. held' = [held EXCEPT ![p] = NoNode] /\ held \in [Places -> Operands]
  BY DEF Drop, Hold, RXInv, RXTypeOK
<1>2. /\ held' \in [Places -> Operands]
      /\ \A q \in Places : held'[q] # NoNode => held'[q] = held[q]
  BY <1>1 DEF Operands
<1>3. /\ ~Observing /\ list' = list /\ staged' = staged /\ published' = published
      /\ UNCHANGED <<dependency, inputs, current, version, born, history, vmRevision>>
  BY DEF Drop
<1>4. RXTypeOK' /\ Sound' /\ Dated' /\ Agreed'
  <2>1. list' \in Seq(Live) /\ IsSeq(staged') /\ published' \in Nat \cup {NoNode}
    BY <1>3 DEF RXInv, RXTypeOK
  <2>2. QED
    BY <1>2, <1>3, <2>1, ListsKeep
<1>5. ~Observing' /\ published' = NoNode
  BY <1>3 DEF RXInv, Observing
<1>6. QED
  BY <1>4, <1>5 DEF RXInv

LEMMA ObservePlainKeeps ==
  ASSUME RXInv, ObservePlain
  PROVE  RXInv'
<1>1. /\ ~Observing /\ ~Observing' /\ published = NoNode /\ published' = NoNode
      /\ vmRevision' = vmRevision + 1 /\ vmRevision \in Nat
      /\ UNCHANGED <<held, dependency, inputs, current, version, born, history, list, staged>>
  BY DEF ObservePlain, RXInv, RXTypeOK, Observing
<1>2. RXTypeOK' /\ Sound'
  <2>1. RXTypeOK'
    BY <1>1 DEF RXInv, RXTypeOK
  <2>2. Sound'
    BY <1>1 DEF RXInv, Sound, Made, Inputs
  <2>3. QED
    BY <2>1, <2>2
<1>3. ASSUME NEW n \in Live
      PROVE  /\ born[n] <= vmRevision + 1 /\ version[n] <= vmRevision + 1
             /\ version[n] <= vmRevision + 1 + 1
             /\ version[n] <= vmRevision
  <2>1. /\ born[n] <= vmRevision /\ version[n] <= vmRevision
        /\ born[n] \in Nat /\ version[n] \in Nat
    BY <1>1 DEF RXInv, RXTypeOK, Dated
  <2>2. QED
    BY <1>1, <2>1
<1>4. Dated'
  BY <1>1, <1>3 DEF Dated
<1>5. Agreed'
  <2> SUFFICES ASSUME NEW m \in Collected' \cap Derived, NEW r \in (born[m] .. vmRevision)'
               PROVE  Agrees(m, r)'
    BY DEF Agreed
  <2>1. m \in Collected /\ Collected \subseteq Live /\ inputs' = inputs
    BY <1>1, CollectedFrom, ReachedIsClosed DEF RXInv
  <2>2. \A x \in {m, inputs[m][1], inputs[m][2]} : x # NoNode => x \in Live
    BY <2>1, ReachedIsClosed DEF RXInv
  <2>3. CASE r <= vmRevision
    <3>1. r \in born[m] .. vmRevision
      BY <1>1, <2>1, <2>3 DEF RXInv, RXTypeOK
    <3>2. Agrees(m, r)
      BY <2>1, <3>1 DEF RXInv, Agreed
    <3>3. \A x \in {m, inputs[m][1], inputs[m][2]} : ContentsAt(x, r)' = ContentsAt(x, r)
      BY <1>1, ContentsSame
    <3>4. QED
      BY <2>1, <3>2, <3>3 DEF Agrees
  <2>4. CASE ~(r <= vmRevision)
    <3>1. r = vmRevision + 1
      BY <1>1, <2>1, <2>4 DEF RXInv, RXTypeOK
    <3>2. ASSUME NEW x \in {m, inputs[m][1], inputs[m][2]}
          PROVE  ContentsAt(x, r)' = ContentsAt(x, vmRevision)
      <4>1. x # NoNode => version[x] <= vmRevision /\ version'[x] <= r
        BY <1>1, <1>3, <2>2, <3>1
      <4>2. QED
        BY <1>1, <4>1, ContentsNow, ContentsNext DEF Contents
    <3>3. vmRevision \in born[m] .. vmRevision
      BY <1>1, <2>1 DEF RXInv, RXTypeOK, Dated
    <3>4. Agrees(m, vmRevision)
      BY <2>1, <3>3 DEF RXInv, Agreed
    <3>5. QED
      BY <2>1, <3>2, <3>4 DEF Agrees
  <2>5. QED
    BY <2>3, <2>4
<1>6. QED
  BY <1>1, <1>2, <1>4, <1>5 DEF RXInv

-----------------------------------------------------------------------------
(* Steps of an observation. *)

LEMMA OperandIs ==
  ASSUME NEW m
  PROVE  /\ Operand(m) = OperandIn(list, staged, current, m)
         /\ Operand(m)' = OperandIn(list', staged', current', m)
BY Zenon DEF Operand, OperandIn, Affected, Staged, Position, PositionIn, Contents

LEMMA PositionOf ==
  ASSUME NEW l, Distinct(l), NEW k \in 1 .. Len(l)
  PROVE  PositionIn(l, l[k]) = k
BY DEF Distinct, PositionIn

LEMMA OperandAt ==
  ASSUME NEW l, Distinct(l), NEW k \in 1 .. Len(l), l[k] # NoNode, NEW s, NEW c
  PROVE  OperandIn(l, s, c, l[k]) = IF s[k + 1] # <<>> THEN s[k + 1][1] ELSE c[l[k]]
BY PositionOf, Zenon DEF OperandIn, Contents

(* The operands of a listed node are listed before it. *)
LEMMA OperandsBefore ==
  ASSUME RXTypeOK, Listed, NEW k \in 1 .. Len(list), NEW i \in {1, 2}
  PROVE  LET m == inputs[list[k]][i]
         IN  m = NoNode \/ (m \in Inputs(list[k]) /\ \E j \in 1 .. k - 1 : list[j] = m)
<1>1. list[k] \in Collected
  BY DEF Listed
<1>2. inputs[list[k]][i] = NoNode \/ inputs[list[k]][i] \in Inputs(list[k])
  BY <1>1, ReachedIsClosed
<1>3. QED
  BY <1>2 DEF Listed, Topological

LEMMA ObserveRootKeeps ==
  ASSUME RXInv, NEW n \in ReactiveRoots, ObserveRoot(n)
  PROVE  RXInv'
<1>1. /\ list' \in Orders(Collected) /\ staged' = <<n>> /\ published = NoNode
      /\ published' = published
      /\ UNCHANGED <<held, dependency, inputs, current, version, born, history, vmRevision>>
  BY DEF ObserveRoot, RXInv
<1>2. IsSeq(staged') /\ Len(staged') = 1 /\ staged'[1] = n
  BY <1>1, OneOf
<1>3. Collected \subseteq Live /\ Cardinality(Collected) \in Nat
  <2>1. Collected \subseteq Live
    BY ReachedIsClosed DEF RXInv
  <2>2. IsFiniteSet(Collected)
    BY <2>1, NodesAreLive, FS_Subset DEF Live
  <2>3. QED
    BY <2>1, <2>2, FS_CardinalityType
<1>4. list' \in Seq(Live) /\ Len(list') = Cardinality(Collected)
  <2>1. list' \in [1 .. Cardinality(Collected) -> Live]
    BY <1>1, <1>3 DEF Orders
  <2>2. QED
    BY <1>3, <2>1
<1>5. DOMAIN list' = 1 .. Len(list')
  BY <1>4
<1>6. Collected' = Collected
  BY <1>1, CollectedFrom
<1>7. Listed'
  <2>1. {list'[i] : i \in 1 .. Len(list')} = Collected'
    BY <1>1, <1>5, <1>6 DEF Orders
  <2>2. Distinct(list')
    BY <1>1, <1>5 DEF Orders, Distinct
  <2>3. Topological(list')
    BY <1>1 DEF Orders
  <2>4. Topological(list)'
    BY <1>1, <2>3 DEF Topological, Inputs
  <2>5. QED
    BY <1>2, <2>1, <2>2, <2>4 DEF Listed
<1>8. Recomputed'
  BY <1>1, <1>2, <1>4 DEF Recomputed
<1>9. RXTypeOK' /\ Sound' /\ Dated' /\ Agreed'
  <2>1. held' \in [Places -> Operands] /\ held' = held
    BY <1>1 DEF RXInv, RXTypeOK
  <2>2. published' \in Nat \cup {NoNode}
    BY <1>1
  <2>3. QED
    BY <1>1, <1>2, <1>4, <2>1, <2>2, ListsKeep
<1>10. QED
  BY <1>1, <1>7, <1>8, <1>9 DEF RXInv

LEMMA ObserveFailsKeeps ==
  ASSUME RXInv, ObserveFails
  PROVE  RXInv'
<1>1. /\ list' = <<>> /\ staged' = <<>> /\ published' = NoNode /\ published = NoNode
      /\ UNCHANGED <<held, dependency, inputs, current, version, born, history, vmRevision>>
  BY DEF ObserveFails, Idle
<1>2. list' \in Seq(Live) /\ IsSeq(staged')
  <2>1. <<>> \in Seq(Live)
    OBVIOUS
  <2>2. QED
    BY <1>1, <2>1 DEF IsSeq
<1>3. held' \in [Places -> Operands] /\ held' = held /\ published' \in Nat \cup {NoNode}
  BY <1>1 DEF RXInv, RXTypeOK
<1>4. RXTypeOK' /\ Sound' /\ Dated' /\ Agreed'
  BY <1>1, <1>2, <1>3, ListsKeep
<1>5. QED
  BY <1>1, <1>4 DEF RXInv, Observing

LEMMA AdmitKeeps ==
  ASSUME RXInv, Admit
  PROVE  RXInv'
<1>1. /\ Observing /\ Len(staged) = Len(list) + 1 /\ published' = 0
      /\ list' = list /\ staged' = staged
      /\ UNCHANGED <<held, dependency, inputs, current, version, born, history, vmRevision>>
  BY DEF Admit
<1>2. /\ held' \in [Places -> Operands] /\ held' = held /\ published' \in Nat \cup {NoNode}
      /\ list' \in Seq(Live) /\ IsSeq(staged') /\ published' # NoNode
  BY <1>1, NodesAreLive DEF RXInv, RXTypeOK
<1>3. RXTypeOK' /\ Sound' /\ Dated' /\ Agreed'
  BY <1>1, <1>2, ListsKeep
<1>4. Listed'
  BY <1>1, CollectedFrom DEF RXInv, Listed, Topological, Inputs
<1>5. Recomputed'
  <2>1. Len(staged') \in 1 .. Len(list') + 1 /\ Len(list) \in Nat
    BY <1>1, <1>2 DEF RXInv, Recomputed
  <2>2. \A k \in 1 .. Len(staged') - 1 : Applied(list', staged', current', inputs', list'[k])
    BY <1>1 DEF RXInv, Recomputed
  <2>3. published' <= Len(list') /\ 1 .. published' = {}
    BY <1>1, <2>1
  <2>4. QED
    BY <1>1, <2>1, <2>2, <2>3 DEF Recomputed
<1>6. QED
  BY <1>1, <1>2, <1>3, <1>4, <1>5 DEF RXInv, Observing

LEMMA StageKeeps ==
  ASSUME RXInv, Stage
  PROVE  RXInv'
<1>1. /\ Observing /\ published = NoNode /\ published' = NoNode
      /\ Len(staged) <= Len(list) /\ staged' = Append(staged, StagedNow(list[Len(staged)]))
      /\ UNCHANGED <<held, dependency, inputs, current, version, born, history, vmRevision>>
      /\ list' = list
  BY DEF Stage
<1>2. RXTypeOK /\ Sound /\ Dated /\ Agreed /\ Listed /\ Recomputed
  BY <1>1 DEF RXInv
<1>3. PICK k0, n0, e, t :
        /\ k0 = Len(staged) /\ n0 = list[k0] /\ e = StagedNow(n0) /\ t = staged'
  OBVIOUS
<1>4. k0 \in Nat /\ k0 \in 1 .. Len(list) /\ Len(list) \in Nat
  BY <1>1, <1>2, <1>3 DEF Recomputed, RXTypeOK
<1>5. /\ IsSeq(t) /\ Len(t) = k0 + 1 /\ t[k0 + 1] = e
      /\ \A i \in 1 .. k0 : t[i] = staged[i]
  BY <1>1, <1>2, <1>3, AppendAny DEF RXTypeOK
<1>6. \A k \in 1 .. Len(list) : list[k] \in Live /\ list[k] # NoNode
  BY <1>2, NodesAreLive DEF RXTypeOK, Live
<1>7. Distinct(list)
  BY <1>2 DEF Listed
<1>8. ASSUME NEW k \in 1 .. k0 - 1
      PROVE  OperandIn(list, t, current, list[k]) = OperandIn(list, staged, current, list[k])
  <2>1. k \in 1 .. Len(list) /\ k + 1 \in 1 .. k0
    BY <1>4
  <2>2. t[k + 1] = staged[k + 1]
    BY <1>5, <2>1
  <2>3. /\ OperandIn(list, t, current, list[k])
              = IF t[k + 1] # <<>> THEN t[k + 1][1] ELSE current[list[k]]
        /\ OperandIn(list, staged, current, list[k])
              = IF staged[k + 1] # <<>> THEN staged[k + 1][1] ELSE current[list[k]]
    <3>1. list[k] # NoNode
      BY <1>6, <2>1
    <3>2. PositionIn(list, list[k]) = k
      BY <1>7, <2>1, PositionOf
    <3>3. QED
      BY <3>1, <3>2, Zenon DEF OperandIn, Contents
  <2>4. QED
    BY <2>2, <2>3
<1>9. ASSUME NEW k \in 1 .. k0, NEW i \in {1, 2}
      PROVE  OperandIn(list, t, current, inputs[list[k]][i])
                = OperandIn(list, staged, current, inputs[list[k]][i])
  <2>1. k \in 1 .. Len(list)
    BY <1>4
  <2>2. CASE inputs[list[k]][i] = NoNode
    BY <2>2 DEF OperandIn
  <2>3. CASE inputs[list[k]][i] # NoNode
    <3>1. PICK j \in 1 .. k - 1 : list[j] = inputs[list[k]][i]
      BY <1>2, <2>1, <2>3, OperandsBefore
    <3>2. j \in 1 .. k0 - 1
      BY <1>4
    <3>3. QED
      BY <1>8, <3>1, <3>2
  <2>4. QED
    BY <2>2, <2>3
<1>10. ASSUME NEW k \in 1 .. k0 - 1 PROVE Applied(list, t, current, inputs, list[k])
  <2>1. Applied(list, staged, current, inputs, list[k])
    BY <1>2, <1>3 DEF Recomputed
  <2>2. k \in 1 .. k0
    BY <1>4
  <2>3. QED
    BY <1>8, <1>9, <2>1, <2>2 DEF Applied
<1>11. Applied(list, t, current, inputs, n0)
  <2> SUFFICES ASSUME n0 \in Derived
               PROVE  OperandIn(list, t, current, n0) =
                        Apply(OperandIn(list, t, current, inputs[n0][1]),
                              OperandIn(list, t, current, inputs[n0][2]))
    BY DEF Applied
  <2>1. n0 # Target
    BY <1>2, NodesAreLive DEF Listed, Target
  <2>2. k0 \in 1 .. k0
    BY <1>4
  <2>3. /\ OperandIn(list, t, current, inputs[n0][1]) = Operand(inputs[n0][1])
        /\ OperandIn(list, t, current, inputs[n0][2]) = Operand(inputs[n0][2])
    BY <1>3, <1>9, <2>2, OperandIs
  <2>4. OperandIn(list, t, current, n0) = IF e # <<>> THEN e[1] ELSE current[n0]
    BY <1>3, <1>4, <1>5, <1>6, <1>7, OperandAt
  <2>5. CASE \E m \in Inputs(n0) : Affected(m)
    <3>1. PICK x : x = Apply(Operand(inputs[n0][1]), Operand(inputs[n0][2]))
      OBVIOUS
    <3>2. e = <<x>>
      BY <1>3, <2>1, <2>5, <3>1, Zenon DEF StagedNow
    <3>3. e # <<>> /\ e[1] = x
      BY <3>2, OneOf
    <3>4. QED
      BY <2>3, <2>4, <3>1, <3>3
  <2>6. CASE ~\E m \in Inputs(n0) : Affected(m)
    <3>1. e = <<>>
      BY <1>3, <2>1, <2>6, Zenon DEF StagedNow
    <3>2. ASSUME NEW i \in {1, 2} PROVE Operand(inputs[n0][i]) = Contents(inputs[n0][i], current)
      <4>1. inputs[n0][i] # NoNode => inputs[n0][i] \in Inputs(n0)
        BY <1>2, <1>3, <1>4, OperandsBefore
      <4>2. QED
        BY <2>6, <4>1 DEF Operand
    <3>3. n0 \in Collected /\ n0 \in Live
      BY <1>2, <1>3, <1>4, <1>6 DEF Listed
    <3>4. vmRevision \in born[n0] .. vmRevision
      BY <1>2, <3>3 DEF RXTypeOK, Dated
    <3>5. Agrees(n0, vmRevision)
      BY <1>2, <3>3, <3>4 DEF Agreed
    <3>6. ASSUME NEW x \in {n0, inputs[n0][1], inputs[n0][2]}
          PROVE  ContentsAt(x, vmRevision) = Contents(x, current)
      <4>1. x # NoNode => x \in Live
        BY <1>2, <3>3, ReachedIsClosed
      <4>2. QED
        BY <1>1, <1>2, <4>1, ContentsNow DEF Dated
    <3>7. current[n0] = Contents(n0, current)
      BY <1>3, <1>4, <1>6 DEF Contents
    <3>8. QED
      BY <2>3, <2>4, <3>1, <3>2, <3>5, <3>6, <3>7 DEF Agrees
  <2>7. QED
    BY <2>5, <2>6
<1>12. RXTypeOK' /\ Sound' /\ Dated' /\ Agreed'
  <2>1. /\ held' \in [Places -> Operands] /\ held' = held /\ list' \in Seq(Live)
        /\ published' \in Nat \cup {NoNode} /\ IsSeq(staged')
    BY <1>1, <1>2, <1>3, <1>5 DEF RXTypeOK
  <2>2. QED
    BY <1>1, <2>1, ListsKeep
<1>13. Listed'
  <2>1. staged'[1] = staged[1] /\ Collected' = Collected
    BY <1>1, <1>3, <1>4, <1>5, CollectedFrom
  <2>2. Topological(list)'
    BY <1>1, <1>2 DEF Listed, Topological, Inputs
  <2>3. QED
    BY <1>1, <1>2, <2>1, <2>2 DEF Listed
<1>14. Recomputed'
  <2>1. Len(t) \in 1 .. Len(list) + 1 /\ Len(t) - 1 = k0
    BY <1>4, <1>5
  <2>2. \A k \in 1 .. k0 : Applied(list, t, current, inputs, list[k])
    <3>1. \A k \in 1 .. k0 : k \in 1 .. k0 - 1 \/ k = k0
      BY <1>4
    <3>2. QED
      BY <1>3, <1>10, <1>11, <3>1
  <2>3. QED
    BY <1>1, <1>3, <2>1, <2>2 DEF Recomputed
<1>15. QED
  BY <1>1, <1>12, <1>13, <1>14 DEF RXInv, Observing

LEMMA PublishNextKeeps ==
  ASSUME RXInv, PublishNext
  PROVE  RXInv'
<1>1. /\ Observing /\ published # NoNode /\ published < Len(list)
      /\ published' = published + 1 /\ list' = list /\ staged' = staged
      /\ UNCHANGED <<held, dependency, inputs, born, vmRevision>>
  BY DEF PublishNext
<1>2. RXTypeOK /\ Sound /\ Dated /\ Agreed /\ Listed /\ Recomputed
  BY <1>1 DEF RXInv
<1>3. PICK k0, n0 : k0 = published + 1 /\ n0 = list[k0]
  OBVIOUS
<1>4. published \in Nat /\ k0 \in 1 .. Len(list) /\ Len(list) \in Nat /\ vmRevision \in Nat
  BY <1>1, <1>2, <1>3 DEF RXTypeOK
<1>5. \A k \in 1 .. Len(list) : list[k] \in Live /\ list[k] # NoNode
  BY <1>2, NodesAreLive DEF RXTypeOK, Live
<1>6. n0 \in Live /\ n0 # NoNode /\ Distinct(list)
  BY <1>2, <1>3, <1>4, <1>5 DEF Listed
<1>7. Staged(n0) = staged[k0 + 1]
  <2>1. PositionIn(list, list[k0]) = k0
    BY <1>4, <1>6, PositionOf
  <2>2. Staged(n0) = staged[PositionIn(list, list[k0]) + 1]
    BY <1>3, Zenon DEF Staged, Position, PositionIn
  <2>3. QED
    BY <2>1, <2>2, Zenon
<1>8. PICK w, v, c, h, e :
        /\ w = Staged(n0)[1] /\ v = version[n0] /\ c = current[n0] /\ h = history[n0]
        /\ e = Version(n0)
  OBVIOUS
<1>9. v \in Nat /\ IsSeq(h) /\ e = [revision |-> v, value |-> c]
  BY <1>2, <1>6, <1>8 DEF RXTypeOK, Version
<1>10. IsSeq(Append(h, e))
  BY <1>9, AppendAny
<1> DEFINE
    PastKept == \A m \in Operands : \A r \in Nat :
                    r <= vmRevision => ContentsAt(m, r)' = ContentsAt(m, r)
    StagedKept == \A m \in Operands :
        OperandIn(list, staged, current', m) = OperandIn(list, staged, current, m)
    OneChanged == \A m \in Live : m # n0 => current'[m] = current[m]
    VersionsDated == \A m \in Live : version'[m] <= vmRevision + 1
    NowStaged == OperandIn(list, staged, current', n0) = current'[n0]
<1> HIDE DEF PastKept, StagedKept, OneChanged, VersionsDated, NowStaged
<1>11. ASSUME Affected(n0)
       PROVE  RXTypeOK' /\ VersionsDated /\ PastKept /\ StagedKept /\ OneChanged /\ NowStaged
  <2>1. /\ history' = [history EXCEPT ![n0] = Append(h, e)]
        /\ current' = [current EXCEPT ![n0] = w]
        /\ version' = [version EXCEPT ![n0] = vmRevision + 1]
    BY <1>3, <1>8, <1>11, Zenon DEF PublishNext
  <2>2. /\ \A m \in Live : m # n0 =>
              history'[m] = history[m] /\ current'[m] = current[m] /\ version'[m] = version[m]
        /\ history'[n0] = Append(h, e) /\ current'[n0] = w /\ version'[n0] = vmRevision + 1
    BY <1>2, <1>6, <2>1 DEF RXTypeOK
  <2>3. RXTypeOK'
    <3>1. version' \in [Live -> Nat]
      BY <1>2, <1>4, <1>6, <2>1 DEF RXTypeOK
    <3>2. current' = [m \in Live |-> current'[m]]
      BY <1>2, <1>6, <2>1 DEF RXTypeOK
    <3>3. history' = [m \in Live |-> history'[m]]
      BY <1>2, <1>6, <2>1 DEF RXTypeOK
    <3>4. \A m \in Live : IsSeq(history'[m])
      BY <1>2, <1>10, <2>2 DEF RXTypeOK
    <3>5. published' \in Nat \cup {NoNode}
      BY <1>1, <1>4
    <3>6. QED
      BY <1>1, <1>2, <3>1, <3>2, <3>3, <3>4, <3>5 DEF RXTypeOK
  <2>4. VersionsDated
    BY <1>2, <1>4, <2>2 DEF Dated, VersionsDated
  <2>5. ASSUME NEW m \in Operands, NEW r \in Nat, r <= vmRevision
        PROVE  ContentsAt(m, r)' = ContentsAt(m, r)
    <3>1. CASE m = n0
      <4>1. ContentsAt(m, r)' = ValueAt(history'[m], version'[m], current'[m], r)
        BY <1>6, <3>1, Zenon DEF ContentsAt, ValueAt, Past, Latest
      <4>2. ContentsAt(m, r) = ValueAt(h, v, c, r)
        BY <1>6, <1>8, <3>1, ContentsAtIs
      <4>3. r < vmRevision + 1 /\ vmRevision + 1 \in Nat
        BY <1>4, <2>5
      <4>4. ValueAt(Append(h, [revision |-> v, value |-> c]), vmRevision + 1, w, r)
              = ValueAt(h, v, c, r)
        BY <1>9, <4>3, Superseded
      <4>5. QED
        BY <1>9, <2>2, <3>1, <4>1, <4>2, <4>4
    <3>2. CASE m # n0
      BY <2>2, <3>2, ContentsSame DEF Operands
    <3>3. QED
      BY <3>1, <3>2
  <2>6. ASSUME NEW m \in Operands, m # n0
        PROVE  OperandIn(list, staged, current', m) = OperandIn(list, staged, current, m)
    BY <2>2, <2>6 DEF OperandIn, Contents, Operands
  <2>7. /\ OperandIn(list, staged, current', n0) = OperandIn(list, staged, current, n0)
        /\ OperandIn(list, staged, current', n0) = current'[n0]
    <3>1. staged[k0 + 1] # <<>> /\ w = staged[k0 + 1][1]
      BY <1>7, <1>8, <1>11 DEF Affected
    <3>2. PositionIn(list, n0) = k0
      BY <1>3, <1>4, <1>6, PositionOf
    <3>3. \A d : OperandIn(list, staged, d, n0) = w
      BY <1>6, <3>1, <3>2 DEF OperandIn
    <3>4. QED
      BY <2>2, <3>3
  <2>8. PastKept
    BY <2>5, Zenon DEF PastKept
  <2>9. StagedKept
    BY <2>6, <2>7, Zenon DEF StagedKept
  <2>10. NowStaged
    BY <2>7 DEF NowStaged
  <2>11. OneChanged
    BY <2>2 DEF OneChanged
  <2>12. QED
    BY <2>3, <2>4, <2>8, <2>9, <2>10, <2>11
<1>12. ASSUME ~Affected(n0)
       PROVE  RXTypeOK' /\ VersionsDated /\ PastKept /\ StagedKept /\ OneChanged /\ NowStaged
  <2>1. history' = history /\ current' = current /\ version' = version
    BY <1>3, <1>12, Zenon DEF PublishNext
  <2>2. RXTypeOK'
    <3>1. published' \in Nat \cup {NoNode}
      BY <1>1, <1>4
    <3>2. QED
      BY <1>1, <1>2, <2>1, <3>1 DEF RXTypeOK
  <2>3. VersionsDated
    BY <1>2, <2>1 DEF Dated, VersionsDated
  <2>4. ASSUME NEW m \in Operands, NEW r \in Nat PROVE ContentsAt(m, r)' = ContentsAt(m, r)
    BY <2>1, ContentsSame
  <2>5. PastKept
    BY <2>4, Zenon DEF PastKept
  <2>6. StagedKept /\ OneChanged
    BY <2>1 DEF StagedKept, OneChanged
  <2>7. NowStaged
    <3>1. staged[k0 + 1] = <<>>
      BY <1>7, <1>12 DEF Affected
    <3>2. QED
      BY <1>3, <1>4, <1>6, <2>1, <3>1, OperandAt DEF NowStaged
  <2>8. QED
    BY <2>2, <2>3, <2>5, <2>6, <2>7
<1>13. RXTypeOK' /\ VersionsDated /\ PastKept /\ StagedKept /\ OneChanged /\ NowStaged
  BY <1>11, <1>12, Zenon
<1>14. Sound'
  BY <1>1, <1>2 DEF Sound, Made, Inputs
<1>15. Dated'
  <2>1. published' # NoNode
    BY <1>1, <1>4, NodesAreLive
  <2>2. QED
    BY <1>1, <1>2, <1>13, <2>1 DEF Dated, VersionsDated
<1>16. Collected' = Collected
  BY <1>1, CollectedFrom
<1>17. Agreed'
  <2> SUFFICES ASSUME NEW m \in Collected' \cap Derived, NEW r \in (born[m] .. vmRevision)'
               PROVE  Agrees(m, r)'
    BY DEF Agreed
  <2>1. m \in Collected /\ m \in Live
    BY <1>16 DEF Live
  <2>2. r \in born[m] .. vmRevision /\ r \in Nat /\ r <= vmRevision
    BY <1>1, <1>2, <1>4, <2>1 DEF RXTypeOK
  <2>3. Agrees(m, r)
    BY <1>2, <2>1, <2>2 DEF Agreed
  <2>4. ASSUME NEW x \in {m, inputs[m][1], inputs[m][2]}
        PROVE  ContentsAt(x, r)' = ContentsAt(x, r)
    <3>1. x \in Operands
      BY <1>2, <2>1, ReachedIsClosed DEF Operands
    <3>2. QED
      BY <1>13, <2>2, <3>1 DEF PastKept
  <2>5. QED
    BY <1>1, <2>3, <2>4 DEF Agrees
<1>18. Listed'
  <2>1. Topological(list)'
    <3>1. list' = list /\ inputs' = inputs
      BY <1>1
    <3>2. \A i \in 1 .. Len(list) : \A m \in {inputs[list[i]][1], inputs[list[i]][2]} \ {NoNode} :
              \E j \in 1 .. i - 1 : list[j] = m
      BY <1>2, Zenon DEF Listed, Topological, Inputs
    <3>3. \A i \in 1 .. Len(list') : \A m \in {inputs'[list'[i]][1], inputs'[list'[i]][2]} \ {NoNode} :
              \E j \in 1 .. i - 1 : list'[j] = m
      BY <3>1, <3>2
    <3>4. QED
      BY <3>3, Zenon DEF Topological, Inputs
  <2>2. QED
    BY <1>1, <1>2, <1>16, <2>1 DEF Listed
<1>19. Recomputed'
  <2>1. /\ Len(staged) \in 1 .. Len(list) + 1 /\ Len(staged) = Len(list) + 1
        /\ published' <= Len(list)
    BY <1>1, <1>2, <1>4 DEF Recomputed
  <2>2. ASSUME NEW k \in 1 .. Len(staged) - 1
        PROVE  Applied(list, staged, current', inputs, list[k])
    <3>1. Applied(list, staged, current, inputs, list[k])
      BY <1>2 DEF Recomputed
    <3>2. list[k] \in Live
      BY <1>4, <1>5, <2>1
    <3>3. \A x \in {list[k], inputs[list[k]][1], inputs[list[k]][2]} : x \in Operands
      BY <1>2, <3>2 DEF RXTypeOK, Operands
    <3>4. QED
      BY <1>13, <3>1, <3>3 DEF StagedKept, Applied
  <2>3. ASSUME NEW k \in 1 .. k0
        PROVE  current'[list[k]] = OperandIn(list, staged, current', list[k])
    <3>1. CASE k = k0
      BY <1>3, <1>13, <3>1 DEF NowStaged
    <3>2. CASE k # k0
      <4>1. k \in 1 .. published /\ k \in 1 .. Len(list)
        BY <1>3, <1>4, <3>2
      <4>2. current[list[k]] = OperandIn(list, staged, current, list[k])
        BY <1>1, <1>2, <4>1 DEF Recomputed
      <4>3. list[k] # n0 /\ list[k] \in Live
        BY <1>3, <1>4, <1>5, <1>6, <3>2, <4>1 DEF Distinct
      <4>4. list[k] \in Operands
        BY <4>3 DEF Operands
      <4>5. QED
        BY <1>13, <4>2, <4>3, <4>4 DEF StagedKept, OneChanged
    <3>3. QED
      BY <3>1, <3>2
  <2>4. QED
    BY <1>1, <1>3, <2>1, <2>2, <2>3 DEF Recomputed
<1>20. ~(published' = NoNode) /\ Observing'
  BY <1>1, <1>4, NodesAreLive DEF Observing
<1>21. QED
  BY <1>13, <1>14, <1>15, <1>17, <1>18, <1>19, <1>20 DEF RXInv

LEMMA PublishedKeeps ==
  ASSUME RXInv, Published
  PROVE  RXInv'
<1>1. /\ Observing /\ published = Len(list) /\ vmRevision' = vmRevision + 1
      /\ list' = <<>> /\ staged' = <<>> /\ published' = NoNode
      /\ UNCHANGED <<held, dependency, inputs, current, version, born, history>>
  BY DEF Published, Idle
<1>2. RXTypeOK /\ Sound /\ Dated /\ Agreed /\ Listed /\ Recomputed
  BY <1>1 DEF RXInv
<1>3. Len(list) \in Nat /\ vmRevision \in Nat /\ published # NoNode
  BY <1>1, <1>2, NodesAreLive DEF RXTypeOK
<1>4. RXTypeOK'
  <2>1. vmRevision' \in Nat /\ list' \in Seq(Live) /\ IsSeq(staged')
    <3>1. <<>> \in Seq(Live)
      OBVIOUS
    <3>2. QED
      BY <1>1, <1>3, <3>1 DEF IsSeq
  <2>2. QED
    BY <1>1, <1>2, <2>1 DEF RXTypeOK
<1>5. Sound'
  BY <1>1, <1>2 DEF Sound, Made, Inputs
<1>6. ASSUME NEW n \in Live
      PROVE  /\ born[n] <= vmRevision + 1 /\ version[n] <= vmRevision + 1
             /\ version[n] <= vmRevision + 1 + 1
  <2>1. /\ born[n] <= vmRevision /\ version[n] <= vmRevision + 1
        /\ born[n] \in Nat /\ version[n] \in Nat
    BY <1>2 DEF RXTypeOK, Dated
  <2>2. QED
    BY <1>3, <2>1
<1>7. Dated'
  BY <1>1, <1>6 DEF Dated
<1>8. \A k \in 1 .. Len(list) :
        /\ OperandIn(list, staged, current, list[k]) = current[list[k]]
        /\ Applied(list, staged, current, inputs, list[k])
        /\ list[k] # NoNode
  <2>1. Len(staged) - 1 = Len(list)
    BY <1>2, <1>3 DEF Recomputed
  <2>2. \A k \in 1 .. Len(list) : list[k] # NoNode
    BY <1>2, NodesAreLive DEF RXTypeOK, Live
  <2>3. QED
    BY <1>1, <1>2, <1>3, <2>1, <2>2 DEF Recomputed
<1>9. Agreed'
  <2> SUFFICES ASSUME NEW m \in Collected' \cap Derived, NEW r \in (born[m] .. vmRevision)'
               PROVE  Agrees(m, r)'
    BY DEF Agreed
  <2>1. m \in Collected /\ m \in Live /\ inputs' = inputs
    BY <1>1, CollectedFrom DEF Live
  <2>2. \A x \in {m, inputs[m][1], inputs[m][2]} : x # NoNode => x \in Live
    BY <1>2, <2>1, ReachedIsClosed
  <2>3. CASE r <= vmRevision
    <3>1. r \in born[m] .. vmRevision
      BY <1>1, <1>2, <1>3, <2>1, <2>3 DEF RXTypeOK
    <3>2. Agrees(m, r)
      BY <1>2, <2>1, <3>1 DEF Agreed
    <3>3. \A x \in {m, inputs[m][1], inputs[m][2]} : ContentsAt(x, r)' = ContentsAt(x, r)
      BY <1>1, ContentsSame
    <3>4. QED
      BY <2>1, <3>2, <3>3 DEF Agrees
  <2>4. CASE ~(r <= vmRevision)
    <3>1. r = vmRevision + 1
      BY <1>1, <1>2, <1>3, <2>1, <2>4 DEF RXTypeOK
    <3>2. ASSUME NEW x \in {m, inputs[m][1], inputs[m][2]}
          PROVE  ContentsAt(x, r)' = Contents(x, current)
      <4>1. x # NoNode => version'[x] <= r
        BY <1>1, <1>6, <2>2, <3>1
      <4>2. QED
        BY <1>1, <4>1, ContentsNext DEF Contents
    <3>3. PICK k \in 1 .. Len(list) : list[k] = m
      BY <1>2, <2>1 DEF Listed
    <3>4. OperandIn(list, staged, current, m) = Contents(m, current)
      BY <1>8, <3>3 DEF Contents
    <3>5. ASSUME NEW i \in {1, 2}
          PROVE  OperandIn(list, staged, current, inputs[m][i]) = Contents(inputs[m][i], current)
      <4>1. CASE inputs[m][i] = NoNode
        BY <4>1 DEF OperandIn
      <4>2. CASE inputs[m][i] # NoNode
        <5>1. PICK j \in 1 .. k - 1 : list[j] = inputs[m][i]
          BY <1>2, <3>3, <4>2, OperandsBefore
        <5>2. j \in 1 .. Len(list)
          BY <1>3
        <5>3. QED
          BY <1>8, <4>2, <5>1, <5>2 DEF Contents
      <4>3. QED
        BY <4>1, <4>2
    <3>6. Applied(list, staged, current, inputs, m)
      BY <1>8, <3>3
    <3>7. QED
      BY <2>1, <3>2, <3>4, <3>5, <3>6 DEF Applied, Agrees
  <2>5. QED
    BY <2>3, <2>4
<1>10. QED
  BY <1>1, <1>4, <1>5, <1>7, <1>9 DEF RXInv, Observing

-----------------------------------------------------------------------------
(* The theorems. *)

LEMMA InvInit ==
  ASSUME Suspended = {}, RXInit
  PROVE  RXInv
<1>1. /\ held = [p \in Places |-> NoNode] /\ list = <<>> /\ published = NoNode
      /\ staged = <<>>
  BY DEF RXInit
<1>2. RXTypeOK
  <2>1. held \in [Places -> Operands]
    BY <1>1 DEF Operands
  <2>2. inputs \in [Live -> Operands \X Operands]
    BY DEF RXInit, Operands
  <2>3. version \in [Live -> Nat] /\ born \in [Live -> Nat] /\ vmRevision \in Nat
    BY DEF RXInit
  <2>4. /\ DOMAIN dependency = Live /\ dependency = [n \in Live |-> dependency[n]]
        /\ current = [n \in Live |-> current[n]] /\ history = [n \in Live |-> history[n]]
    BY DEF RXInit
  <2>5. <<>> \in Seq(Live)
    OBVIOUS
  <2>6. IsSeq(<<>>)
    BY <2>5 DEF IsSeq
  <2>7. \A n \in Live : IsSeq(history[n])
    BY <2>6 DEF RXInit
  <2>8. QED
    BY <1>1, <2>1, <2>2, <2>3, <2>4, <2>5, <2>6, <2>7 DEF RXTypeOK
<1>3. Sound
  BY <1>1 DEF RXInit, Sound, Made, Inputs, Live
<1>4. Dated
  BY DEF RXInit, Dated
<1>5. Agreed
  <2>1. Collected = {}
    BY <1>2, <1>3, ReachedIsMade DEF RXInit, Made
  <2>2. QED
    BY <2>1 DEF Agreed
<1>6. QED
  BY <1>1, <1>2, <1>3, <1>4, <1>5 DEF RXInv, Observing

LEMMA InvNext ==
  ASSUME Suspended = {}, RXInv, [RXNext]_RXvars
  PROVE  RXInv'
<1>1. CASE \E p \in Places, n \in ReactiveRoots, dep \in 1 .. Cardinality(ReactiveRoots) :
              Root(p, n, dep)
  <2>1. PICK p \in Places, n \in ReactiveRoots, dep \in 1 .. Cardinality(ReactiveRoots) :
            Root(p, n, dep)
    BY <1>1
  <2>2. dep \in Nat
    OBVIOUS
  <2>3. QED
    BY <2>1, <2>2, RootKeeps
<1>2. CASE \E p, l \in Places, n \in Derived, r \in Places \cup {NoNode} : Derive(p, n, l, r)
  BY <1>2, DeriveKeeps
<1>3. CASE \E p \in Places : Drop(p)
  BY <1>3, DropKeeps
<1>4. CASE \E n \in ReactiveRoots : ObserveRoot(n)
  BY <1>4, ObserveRootKeeps
<1>5. CASE Stage
  BY <1>5, StageKeeps
<1>6. CASE ObserveFails
  BY <1>6, ObserveFailsKeeps
<1>7. CASE Admit
  BY <1>7, AdmitKeeps
<1>8. CASE PublishNext
  BY <1>8, PublishNextKeeps
<1>9. CASE Published
  BY <1>9, PublishedKeeps
<1>10. CASE ObservePlain
  BY <1>10, ObservePlainKeeps
<1>11. CASE UNCHANGED RXvars
  <2>1. /\ UNCHANGED <<dependency, inputs, current, version, born, history, vmRevision>>
        /\ held' = held /\ list' = list /\ staged' = staged /\ published' = published
    BY <1>11 DEF RXvars
  <2>2. RXTypeOK' /\ Sound' /\ Dated' /\ Agreed'
    <3>1. /\ held' \in [Places -> Operands] /\ list' \in Seq(Live) /\ IsSeq(staged')
          /\ published' \in Nat \cup {NoNode}
      BY <2>1 DEF RXInv, RXTypeOK
    <3>2. QED
      BY <2>1, <3>1, ListsKeep
  <2>3. Collected' = Collected /\ Topological(list)' = Topological(list)
    BY <2>1, CollectedFrom DEF Topological, Inputs
  <2>4. Listed' = Listed /\ Recomputed' = Recomputed
    BY <2>1, <2>3 DEF Listed, Recomputed
  <2>5. QED
    BY <2>1, <2>2, <2>4 DEF RXInv, Observing
<1>12. QED
  BY <1>1, <1>2, <1>3, <1>4, <1>5, <1>6, <1>7, <1>8, <1>9, <1>10, <1>11 DEF RXNext

(* Whatever is derived is reached, outside an observation and during one. *)
LEMMA DerivableAgrees ==
  ASSUME Suspended = {}, RXInv, NEW n \in Derivable, NEW r \in born[n] .. vmRevision
  PROVE  /\ n \in Live
         /\ ContentsAt(n, r) = Apply(ContentsAt(inputs[n][1], r), ContentsAt(inputs[n][2], r))
<1>1. RXTypeOK /\ Agreed
  BY DEF RXInv
<1>2. n \in Live /\ n # NoNode
  BY NodesAreLive DEF Derivable, Live
<1>3. PICK p \in Places : held[p] = n
  BY <1>1 DEF Derivable, RXTypeOK
<1>4. n \in Collected \cap Derived
  BY <1>1, <1>2, <1>3, ReachedIsClosed DEF Derivable
<1>5. QED
  BY <1>1, <1>2, <1>4 DEF Agreed, Agrees

(* The histories tell one story (reactive_recompute_transaction): at every  *)
(* revision since it was made, what a derived value was is what its         *)
(* operation makes of what its operands were, as long as no generator or    *)
(* future that is not running keeps a live value.                           *)
THEOREM HistoriesAgree ==
  ASSUME Suspended = {}
  PROVE  RXSpec => []HistoryAgrees
<1>1. RXInit => RXInv
  BY InvInit
<1>2. RXInv /\ [RXNext]_RXvars => RXInv'
  BY InvNext
<1>3. RXInv => HistoryAgrees
  BY DerivableAgrees DEF HistoryAgrees
<1>4. QED
  BY <1>1, <1>2, <1>3, PTL DEF RXSpec

(* Nor is a derived value then ever out of date outside an observation:     *)
(* only a suspended frame can bring one back.                               *)
THEOREM NothingGoesStale ==
  ASSUME Suspended = {}
  PROVE  RXSpec => []DerivedCurrent
<1>1. RXInit => RXInv
  BY InvInit
<1>2. RXInv /\ [RXNext]_RXvars => RXInv'
  BY InvNext
<1>3. RXInv => DerivedCurrent
  <2> SUFFICES ASSUME RXInv, ~Observing, NEW n \in Derivable
               PROVE  current[n] = Apply(Contents(inputs[n][1], current),
                                         Contents(inputs[n][2], current))
    BY DEF DerivedCurrent
  <2>1. n \in Live /\ n # NoNode
    BY NodesAreLive DEF Derivable, Live
  <2>2. /\ RXTypeOK /\ vmRevision \in Nat /\ born[n] \in Nat /\ born[n] <= vmRevision
        /\ \A m \in Live : version[m] <= vmRevision
    BY <2>1 DEF RXInv, RXTypeOK, Dated
  <2>3. vmRevision \in born[n] .. vmRevision
    BY <2>2
  <2>4. ContentsAt(n, vmRevision) = Apply(ContentsAt(inputs[n][1], vmRevision),
                                          ContentsAt(inputs[n][2], vmRevision))
    BY <2>3, DerivableAgrees
  <2>5. \A x \in {n, inputs[n][1], inputs[n][2]} : x \in Operands
    BY <2>1, <2>2 DEF RXTypeOK, Operands
  <2>6. \A x \in {n, inputs[n][1], inputs[n][2]} :
            ContentsAt(x, vmRevision) = Contents(x, current)
    BY <2>2, <2>5, ContentsNow DEF Operands
  <2>7. current[n] = Contents(n, current)
    BY <2>1 DEF Contents
  <2>8. QED
    BY <2>4, <2>6, <2>7
<1>4. QED
  BY <1>1, <1>2, <1>3, PTL DEF RXSpec

-----------------------------------------------------------------------------
(* Training: what the steps of a run are. *)

(* What holds of 0 and of the next number holds up to N: as a set. *)
LEMMA UpTo ==
  ASSUME NEW N \in Nat, NEW S, 0 \in S, \A k \in 0 .. N : k + 1 <= N /\ k \in S => k + 1 \in S
  PROVE  0 .. N \subseteq S
<1> SUFFICES ASSUME ~(0 .. N \subseteq S) PROVE FALSE
  OBVIOUS
<1>1. PICK T : T = {k \in 0 .. N : k \notin S}
  OBVIOUS
<1>2. T \subseteq Nat /\ T # {}
  BY <1>1
<1>3. PICK m \in T : \A y \in T : m <= y
  BY <1>2, LeastOf
<1>4. m \in 0 .. N /\ m \notin S /\ m # 0
  BY <1>1
<1>5. m - 1 \in 0 .. N /\ (m - 1) + 1 = m /\ m <= N /\ ~(m <= m - 1)
  BY <1>4
<1>6. m - 1 \in S
  BY <1>1, <1>3, <1>5
<1>7. QED
  BY <1>4, <1>5, <1>6

TodoOf(step) == [epoch |-> step.epoch, batch |-> step.batch, points |-> step.gradient[2]]
IsTodo(t) == t = [epoch |-> t.epoch, batch |-> t.batch, points |-> t.points]

ParamsAt(steps, k) == IF k = 1 THEN Initial ELSE steps[k - 1].parameters
StateAt(steps, k) == IF k = 1 THEN <<>> ELSE steps[k - 1].optimizer_state

(* Each step is the optimizer's next after the one before it.               *)
Chained(steps) ==
    \A k \in 1 .. Len(steps) :
        steps[k] = OptimizerStep(ParamsAt(steps, k), StateAt(steps, k), TodoOf(steps[k]))

LEMMA StepOf ==
  ASSUME NEW p, NEW s, NEW t, IsTodo(t)
  PROVE  /\ TodoOf(OptimizerStep(p, s, t)) = t
<1>1. OptimizerStep(p, s, t).gradient = <<p, t.points>>
  BY DEF OptimizerStep
<1>2. OptimizerStep(p, s, t).gradient[2] = t.points
  BY <1>1
<1>3. OptimizerStep(p, s, t).epoch = t.epoch /\ OptimizerStep(p, s, t).batch = t.batch
  BY DEF OptimizerStep
<1>4. QED
  BY <1>2, <1>3 DEF TodoOf, IsTodo

NextStep(s, t) == OptimizerStep(ParamsOf(s), StateOf(s), t)

LEMMA OneMore ==
  ASSUME NEW s, IsSeq(s), Chained(s), NEW t, IsTodo(t)
  PROVE  /\ IsSeq(Append(s, NextStep(s, t))) /\ Chained(Append(s, NextStep(s, t)))
         /\ Len(s) \in Nat /\ Len(Append(s, NextStep(s, t))) = Len(s) + 1
         /\ \A i \in 1 .. Len(s) : Append(s, NextStep(s, t))[i] = s[i]
         /\ TodoOf(Append(s, NextStep(s, t))[Len(s) + 1]) = t
<1>1. PICK x, u : x = NextStep(s, t) /\ u = Append(s, x)
  OBVIOUS
<1>2. /\ IsSeq(u) /\ Len(s) \in Nat /\ Len(u) = Len(s) + 1 /\ u[Len(s) + 1] = x
      /\ \A i \in 1 .. Len(s) : u[i] = s[i]
  BY <1>1, AppendAny
<1>3. TodoOf(x) = t
  BY <1>1, StepOf DEF NextStep
<1>4. /\ ParamsOf(s) = ParamsAt(u, Len(s) + 1) /\ StateOf(s) = StateAt(u, Len(s) + 1)
  <2>1. CASE s = <<>>
    <3>1. Len(s) + 1 = 1
      BY <2>1
    <3>2. QED
      BY <2>1, <3>1 DEF ParamsOf, StateOf, ParamsAt, StateAt
  <2>2. CASE s # <<>>
    <3>1. Len(s) # 0
      <4>1. PICK V : s \in Seq(V)
        BY DEF IsSeq
      <4>2. QED
        BY <2>2, <4>1
    <3>2. Len(s) + 1 # 1 /\ (Len(s) + 1) - 1 = Len(s) /\ Len(s) \in 1 .. Len(s)
      BY <1>2, <3>1
    <3>3. u[Len(s)] = s[Len(s)]
      BY <1>2, <3>2
    <3>4. Last(s) = s[Len(s)]
      BY DEF Last
    <3>5. QED
      BY <2>2, <3>2, <3>3, <3>4 DEF ParamsOf, StateOf, ParamsAt, StateAt
  <2>3. QED
    BY <2>1, <2>2
<1>5. ASSUME NEW k \in 1 .. Len(u)
      PROVE  u[k] = OptimizerStep(ParamsAt(u, k), StateAt(u, k), TodoOf(u[k]))
  <2>1. CASE k = Len(s) + 1
    <3>1. u[k] = OptimizerStep(ParamsOf(s), StateOf(s), t)
      BY <1>1, <1>2, <2>1 DEF NextStep
    <3>2. TodoOf(u[k]) = t
      BY <1>2, <1>3, <2>1
    <3>3. QED
      BY <1>4, <2>1, <3>1, <3>2
  <2>2. CASE k # Len(s) + 1
    <3>1. k \in 1 .. Len(s) /\ (k # 1 => k - 1 \in 1 .. Len(s))
      BY <1>2, <2>2
    <3>2. ParamsAt(u, k) = ParamsAt(s, k) /\ StateAt(u, k) = StateAt(s, k) /\ u[k] = s[k]
      BY <1>2, <3>1 DEF ParamsAt, StateAt
    <3>3. s[k] = OptimizerStep(ParamsAt(s, k), StateAt(s, k), TodoOf(s[k]))
      BY <3>1 DEF Chained
    <3>4. QED
      BY <3>2, <3>3
  <2>3. QED
    BY <2>1, <2>2
<1>6. Chained(u)
  BY <1>5 DEF Chained
<1>7. QED
  BY <1>1, <1>2, <1>3, <1>6

StepsIs(params, state, steps, todo, n, g) ==
    g = [i \in 0 .. n |->
            IF i = 0 THEN steps
            ELSE IF i = 1 THEN Append(steps, OptimizerStep(params, state, todo[1]))
            ELSE Append(g[i - 1],
                        OptimizerStep(ParamsOf(g[i - 1]), StateOf(g[i - 1]), todo[i]))]

LEMMA StepsExist ==
  ASSUME NEW params, NEW state, NEW steps, NEW todo, NEW N \in Nat
  PROVE  \E g : StepsIs(params, state, steps, todo, N, g)
<1> DEFINE First == Append(steps, OptimizerStep(params, state, todo[1]))
           Then(s, i) == Append(s, OptimizerStep(ParamsOf(s), StateOf(s), todo[i]))
<1>0. ASSUME NEW n, NEW g
      PROVE  StepsIs(params, state, steps, todo, n, g) <=>
                g = [i \in 0 .. n |-> IF i = 0 THEN steps ELSE IF i = 1 THEN First ELSE Then(g[i - 1], i)]
  BY DEF StepsIs
<1> HIDE DEF First, Then
<1>1. PICK S : S = {n \in Nat : \E g : StepsIs(params, state, steps, todo, n, g)}
  OBVIOUS
<1>2. 0 \in S
  <2>1. PICK g : g = [i \in 0 .. 0 |-> steps]
    OBVIOUS
  <2>2. g = [i \in 0 .. 0 |-> IF i = 0 THEN steps ELSE IF i = 1 THEN First ELSE Then(g[i - 1], i)]
    <3>1. \A i \in 0 .. 0 : i = 0
      OBVIOUS
    <3>2. QED
      BY <2>1, <3>1
  <2>3. StepsIs(params, state, steps, todo, 0, g)
    BY <1>0, <2>2, Zenon
  <2>4. QED
    BY <1>1, <2>3
<1>3. ASSUME NEW k \in 0 .. N, k + 1 <= N, k \in S PROVE k + 1 \in S
  <2>1. PICK g : g = [i \in 0 .. k |-> IF i = 0 THEN steps ELSE IF i = 1 THEN First ELSE Then(g[i - 1], i)]
    BY <1>0, <1>1, <1>3
  <2>2. PICK h : h = [i \in 0 .. k + 1 |->
                        IF i = k + 1 THEN IF i = 1 THEN First ELSE Then(g[k], k + 1) ELSE g[i]]
    OBVIOUS
  <2>3. k \in Nat /\ k + 1 \in Nat
    OBVIOUS
  <2>4. \A i \in 0 .. k : h[i] = g[i] /\ i # k + 1
    BY <2>2, <2>3
  <2>5. ASSUME NEW i \in 0 .. k + 1
        PROVE  h[i] = IF i = 0 THEN steps ELSE IF i = 1 THEN First ELSE Then(h[i - 1], i)
    <3>1. CASE i = k + 1
      <4>1. h[i] = (IF i = 1 THEN First ELSE Then(g[k], i)) /\ i # 0 /\ i - 1 = k
        BY <2>2, <2>3, <3>1
      <4>2. h[k] = g[k]
        BY <2>3, <2>4
      <4>3. QED
        BY <4>1, <4>2
    <3>2. CASE i # k + 1
      <4>1. i \in 0 .. k /\ (i # 0 => i - 1 \in 0 .. k)
        BY <2>3, <3>2
      <4>2. g[i] = IF i = 0 THEN steps ELSE IF i = 1 THEN First ELSE Then(g[i - 1], i)
        BY <2>1, <4>1
      <4>3. QED
        BY <2>4, <4>1, <4>2
    <3>3. QED
      BY <3>1, <3>2
  <2>6. h = [i \in 0 .. k + 1 |-> h[i]]
    BY <2>2
  <2>7. StepsIs(params, state, steps, todo, k + 1, h)
    <3>1. h = [i \in 0 .. k + 1 |-> IF i = 0 THEN steps ELSE IF i = 1 THEN First ELSE Then(h[i - 1], i)]
      BY <2>5, <2>6
    <3>2. QED
      BY <1>0, <3>1, Zenon
  <2>8. QED
    BY <1>1, <2>3, <2>7
<1>4. 0 .. N \subseteq S
  BY <1>2, <1>3, UpTo
<1>5. N \in S
  BY <1>4
<1>6. QED
  BY <1>1, <1>5

(* What goes on from the last step of a chain is a chain.                   *)
LEMMA Continued ==
  ASSUME NEW prior, IsSeq(prior), Chained(prior),
         NEW params, NEW state, params = ParamsOf(prior), state = StateOf(prior),
         NEW N \in Nat, NEW todo, Len(todo) = N, \A m \in 1 .. N : IsTodo(todo[m])
  PROVE  \E u : /\ u = StepsFrom(params, state, prior, todo)
                /\ IsSeq(u) /\ Chained(u) /\ Len(prior) \in Nat /\ Len(u) = Len(prior) + N
                /\ \A k \in 1 .. Len(prior) : u[k] = prior[k]
                /\ \A m \in 1 .. N : TodoOf(u[Len(prior) + m]) = todo[m]
<1>1. PICK g : StepsIs(params, state, prior, todo, N, g) /\ StepsFrom(params, state, prior, todo) = g[N]
  <2>1. \E g : StepsIs(params, state, prior, todo, N, g)
    BY StepsExist
  <2>2. StepsFrom(params, state, prior, todo) = (CHOOSE g : StepsIs(params, state, prior, todo, N, g))[N]
    BY Zenon DEF StepsFrom, StepsIs
  <2>3. QED
    BY <2>1, <2>2, Zenon
<1>2. g[0] = prior /\ \A i \in 1 .. N : g[i] = Append(g[i - 1], NextStep(g[i - 1], todo[i]))
  <2>1. 0 \in 0 .. N /\ \A i \in 1 .. N : i \in 0 .. N /\ i # 0 /\ (i = 1 => i - 1 = 0)
    OBVIOUS
  <2>2. g[0] = prior
    BY <1>1, <2>1 DEF StepsIs
  <2>3. ASSUME NEW i \in 1 .. N PROVE g[i] = Append(g[i - 1], NextStep(g[i - 1], todo[i]))
    <3>1. CASE i = 1
      <4>1. g[i] = Append(prior, OptimizerStep(params, state, todo[1]))
        BY <1>1, <2>1, <3>1 DEF StepsIs
      <4>2. g[i - 1] = prior
        BY <2>1, <2>2, <3>1
      <4>3. QED
        BY <3>1, <4>1, <4>2 DEF NextStep
    <3>2. CASE i # 1
      BY <1>1, <2>1, <3>2 DEF StepsIs, NextStep
    <3>3. QED
      BY <3>1, <3>2
  <2>4. QED
    BY <2>2, <2>3
<1>3. PICK L : L = Len(prior) /\ L \in Nat
  BY AppendAny
<1> DEFINE Good(i) == /\ IsSeq(g[i]) /\ Chained(g[i]) /\ Len(g[i]) = L + i
                      /\ \A k \in 1 .. L : g[i][k] = prior[k]
                      /\ \A m \in 1 .. i : TodoOf(g[i][L + m]) = todo[m]
<1>4. PICK S : S = {i \in Nat : Good(i)}
  OBVIOUS
<1>5. Good(0)
  BY <1>2, <1>3
<1>6. ASSUME NEW i \in 0 .. N, i + 1 <= N, Good(i) PROVE Good(i + 1)
  <2>1. PICK s, t, u : s = g[i] /\ t = todo[i + 1] /\ u = Append(s, NextStep(s, t))
    OBVIOUS
  <2>2. i \in Nat /\ i + 1 \in 1 .. N /\ (i + 1) - 1 = i
    BY <1>6
  <2>3. g[i + 1] = u
    BY <1>2, <2>1, <2>2
  <2>4. /\ IsSeq(s) /\ Chained(s) /\ Len(s) = L + i
        /\ \A k \in 1 .. L : s[k] = prior[k]
        /\ \A m \in 1 .. i : TodoOf(s[L + m]) = todo[m]
    BY <1>6, <2>1
  <2>5. IsTodo(t)
    BY <2>1, <2>2
  <2>6. /\ IsSeq(u) /\ Chained(u) /\ Len(u) = Len(s) + 1
        /\ \A k \in 1 .. Len(s) : u[k] = s[k]
        /\ TodoOf(u[Len(s) + 1]) = t
    <3>1. /\ IsSeq(Append(s, NextStep(s, t))) /\ Chained(Append(s, NextStep(s, t)))
          /\ Len(Append(s, NextStep(s, t))) = Len(s) + 1
          /\ \A k \in 1 .. Len(s) : Append(s, NextStep(s, t))[k] = s[k]
          /\ TodoOf(Append(s, NextStep(s, t))[Len(s) + 1]) = t
      <4>1. IsSeq(s) /\ Chained(s)
        BY <2>4
      <4>2. QED
        BY <2>5, <4>1, OneMore
    <3>2. QED
      BY <2>1, <3>1
  <2>7. Len(u) = L + (i + 1) /\ Len(s) + 1 = L + (i + 1)
    BY <1>3, <2>2, <2>4, <2>6
  <2>8. \A k \in 1 .. L : u[k] = prior[k]
    BY <1>3, <2>2, <2>4, <2>6
  <2>9. ASSUME NEW m \in 1 .. i + 1 PROVE TodoOf(u[L + m]) = todo[m]
    <3>1. CASE m = i + 1
      BY <2>1, <2>6, <2>7, <3>1
    <3>2. CASE m # i + 1
      <4>1. m \in 1 .. i /\ L + m \in 1 .. Len(s)
        BY <1>3, <2>2, <2>4, <3>2
      <4>2. QED
        BY <2>4, <2>6, <4>1
    <3>3. QED
      BY <3>1, <3>2
  <2>10. QED
    BY <2>3, <2>6, <2>7, <2>8, <2>9
<1> HIDE DEF Good
<1>7. 0 .. N \subseteq S
  <2>1. 0 \in S
    BY <1>4, <1>5
  <2>2. ASSUME NEW k \in 0 .. N, k + 1 <= N, k \in S PROVE k + 1 \in S
    BY <1>4, <1>6, <2>2
  <2>3. QED
    BY <2>1, <2>2, UpTo
<1>8. Good(N)
  <2>1. N \in 0 .. N
    OBVIOUS
  <2>2. QED
    BY <1>4, <1>7, <2>1
<1>9. QED
  BY <1>1, <1>3, <1>8 DEF Good

LEMMA SameSteps ==
  ASSUME NEW s, NEW u, IsSeq(s), IsSeq(u), Chained(s), Chained(u), Len(s) = Len(u),
         \A k \in 1 .. Len(s) : TodoOf(s[k]) = TodoOf(u[k])
  PROVE  s = u
<1>1. PICK V, W : s \in Seq(V) /\ u \in Seq(W)
  BY DEF IsSeq
<1>2. PICK N : N = Len(s) /\ N \in Nat
  BY <1>1
<1>3. PICK S : S = {k \in Nat : \A j \in 1 .. k : s[j] = u[j]}
  OBVIOUS
<1>4. 0 \in S
  BY <1>3
<1>5. ASSUME NEW k \in 0 .. N, k + 1 <= N, k \in S PROVE k + 1 \in S
  <2>1. k \in Nat /\ k + 1 \in 1 .. N /\ (k + 1) - 1 = k /\ (k + 1 # 1 => k \in 1 .. k)
    BY <1>2, <1>5
  <2>2. \A j \in 1 .. k : s[j] = u[j]
    BY <1>3, <1>5
  <2>3. ParamsAt(s, k + 1) = ParamsAt(u, k + 1) /\ StateAt(s, k + 1) = StateAt(u, k + 1)
    BY <2>1, <2>2 DEF ParamsAt, StateAt
  <2>4. s[k + 1] = OptimizerStep(ParamsAt(s, k + 1), StateAt(s, k + 1), TodoOf(s[k + 1]))
    BY <1>2, <2>1 DEF Chained
  <2>5. u[k + 1] = OptimizerStep(ParamsAt(u, k + 1), StateAt(u, k + 1), TodoOf(u[k + 1]))
    BY <1>2, <2>1 DEF Chained
  <2>6. s[k + 1] = u[k + 1]
    BY <1>2, <2>1, <2>3, <2>4, <2>5
  <2>7. \A j \in 1 .. k + 1 : j \in 1 .. k \/ j = k + 1
    BY <2>1
  <2>8. QED
    BY <1>3, <2>1, <2>2, <2>6, <2>7
<1>6. 0 .. N \subseteq S
  BY <1>2, <1>4, <1>5, UpTo
<1>7. N \in S
  BY <1>2, <1>6
<1>8. \A j \in 1 .. N : s[j] = u[j]
  BY <1>3, <1>7
<1>9. s = [j \in 1 .. N |-> s[j]] /\ u = [j \in 1 .. N |-> u[j]]
  BY <1>1, <1>2
<1>10. QED
  BY <1>8, <1>9

PointsOf(step) == step.gradient[2]

LEMMA Fields ==
  ASSUME NEW s, Chained(s), NEW k \in 1 .. Len(s)
  PROVE  /\ s[k].gradient = <<ParamsAt(s, k), PointsOf(s[k])>>
         /\ s[k].optimizer_state = Append(StateAt(s, k), s[k].gradient)
         /\ s[k].parameters = <<s[k].gradient, s[k].optimizer_state>>
<1>1. PICK p, q, t : p = ParamsAt(s, k) /\ q = StateAt(s, k) /\ t = TodoOf(s[k])
  OBVIOUS
<1>2. s[k] = OptimizerStep(p, q, t)
  BY <1>1 DEF Chained
<1>3. t.points = PointsOf(s[k])
  BY <1>1 DEF TodoOf, PointsOf
<1>4. /\ OptimizerStep(p, q, t).gradient = <<p, t.points>>
      /\ OptimizerStep(p, q, t).optimizer_state = Append(q, <<p, t.points>>)
      /\ OptimizerStep(p, q, t).parameters = <<<<p, t.points>>, Append(q, <<p, t.points>>)>>
  BY DEF OptimizerStep, NextState
<1>5. QED
  BY <1>1, <1>2, <1>3, <1>4

(* Two chains have the same parameters after k steps if, and only if, the   *)
(* first k steps were over the same points.                                 *)
LEMMA SameParameters ==
  ASSUME NEW s, NEW u, Chained(s), Chained(u), Len(s) \in Nat, Len(s) = Len(u),
         NEW k \in 1 .. Len(s)
  PROVE  s[k].parameters = u[k].parameters
         <=> \A m \in 1 .. k : PointsOf(s[m]) = PointsOf(u[m])
<1>1. PICK N : N = Len(s) /\ N \in Nat
  OBVIOUS
<1>2. PICK S : S = {j \in Nat : j = 0
                     \/ (s[j].parameters = u[j].parameters
                            => \A m \in 1 .. j : PointsOf(s[m]) = PointsOf(u[m]))}
  OBVIOUS
<1>3. PICK T : T = {j \in Nat : j = 0
                     \/ ((\A m \in 1 .. j : PointsOf(s[m]) = PointsOf(u[m]))
                            => /\ s[j].parameters = u[j].parameters
                               /\ s[j].optimizer_state = u[j].optimizer_state)}
  OBVIOUS
<1>4. ASSUME NEW j \in 0 .. N, j + 1 <= N
      PROVE  /\ j \in Nat /\ j + 1 \in Nat /\ j + 1 # 0 /\ j + 1 \in 1 .. N /\ (j + 1) - 1 = j
             /\ (j = 0 <=> j + 1 = 1) /\ (\A m \in 1 .. j + 1 : m = j + 1 \/ m \in 1 .. j)
             /\ (\A m \in 1 .. j : m \in 1 .. j + 1) /\ j + 1 \in 1 .. j + 1
  BY <1>1, <1>4
<1>5. ASSUME NEW j \in 0 .. N, j + 1 <= N, j \in S PROVE j + 1 \in S
  <2>1. SUFFICES ASSUME s[j + 1].parameters = u[j + 1].parameters
                 PROVE  \A m \in 1 .. j + 1 : PointsOf(s[m]) = PointsOf(u[m])
    BY <1>2, <1>4, <1>5
  <2>2. s[j + 1].gradient = u[j + 1].gradient
    BY <1>1, <1>4, <1>5, <2>1, Fields
  <2>3. PointsOf(s[j + 1]) = PointsOf(u[j + 1]) /\ ParamsAt(s, j + 1) = ParamsAt(u, j + 1)
    BY <1>1, <1>4, <1>5, <2>2, Fields
  <2>4. j = 0 \/ s[j].parameters = u[j].parameters
    BY <1>4, <1>5, <2>3 DEF ParamsAt
  <2>5. \A m \in 1 .. j : PointsOf(s[m]) = PointsOf(u[m])
    <3>1. CASE j = 0
      BY <3>1
    <3>2. CASE j # 0
      BY <1>2, <1>5, <2>4, <3>2
    <3>3. QED
      BY <3>1, <3>2
  <2>6. QED
    BY <1>4, <1>5, <2>3, <2>5
<1>6. ASSUME NEW j \in 0 .. N, j + 1 <= N, j \in T PROVE j + 1 \in T
  <2>1. SUFFICES ASSUME \A m \in 1 .. j + 1 : PointsOf(s[m]) = PointsOf(u[m])
                 PROVE  /\ s[j + 1].parameters = u[j + 1].parameters
                        /\ s[j + 1].optimizer_state = u[j + 1].optimizer_state
    BY <1>3, <1>4, <1>6
  <2>2. j = 0 \/ (/\ s[j].parameters = u[j].parameters
                  /\ s[j].optimizer_state = u[j].optimizer_state)
    BY <1>3, <1>4, <1>6, <2>1
  <2>3. ParamsAt(s, j + 1) = ParamsAt(u, j + 1) /\ StateAt(s, j + 1) = StateAt(u, j + 1)
    BY <1>4, <1>6, <2>2 DEF ParamsAt, StateAt
  <2>4. PointsOf(s[j + 1]) = PointsOf(u[j + 1])
    BY <1>4, <1>6, <2>1
  <2>5. j + 1 \in 1 .. Len(s) /\ j + 1 \in 1 .. Len(u)
    BY <1>1, <1>4, <1>6
  <2>6. s[j + 1].gradient = u[j + 1].gradient
    BY <2>3, <2>4, <2>5, Fields
  <2>7. s[j + 1].optimizer_state = u[j + 1].optimizer_state
    BY <2>3, <2>5, <2>6, Fields
  <2>8. s[j + 1].parameters = u[j + 1].parameters
    BY <2>5, <2>6, <2>7, Fields
  <2>9. QED
    BY <2>7, <2>8
<1>7. 0 .. N \subseteq S
  <2>1. 0 \in S
    BY <1>2
  <2>2. QED
    BY <1>1, <1>5, <2>1, UpTo
<1>8. 0 .. N \subseteq T
  <2>1. 0 \in T
    BY <1>3
  <2>2. QED
    BY <1>1, <1>6, <2>1, UpTo
<1>9. k \in 0 .. N /\ k # 0
  BY <1>1
<1>10. QED
  BY <1>2, <1>3, <1>7, <1>8, <1>9

-----------------------------------------------------------------------------
(* The inductive invariant of Training. *)

IsRun(x) ==
    /\ x = [steps |-> x.steps, batch_size |-> x.batch_size, made |-> x.made,
            from |-> x.from, at |-> x.at, over |-> x.over]
    /\ IsSeq(x.steps) /\ Chained(x.steps) /\ x.batch_size \in Nat \ {0}

(* The batch that the dataset, as it was then, has in the place of step k.  *)
InPlace(x, k) == BatchAt(x.over, Effective(x.over, x.batch_size), k - 1)

(* A run that was trained is over the batches of its dataset in order.      *)
Planned(x) ==
    x.made = "train" => \A k \in 1 .. Len(x.steps) : TodoOf(x.steps[k]) = InPlace(x, k)

(* What a run has from the one it was made from.                            *)
Descends(x, prior) ==
    /\ x.at \in 0 .. Len(x.steps) /\ x.at <= Len(prior.steps)
    /\ \A k \in 1 .. x.at : x.steps[k] = prior.steps[k]
    /\ x.made = "resume" =>
          /\ Len(x.steps) = Len(prior.steps) /\ x.batch_size = prior.batch_size
          /\ \A k \in 1 .. Len(x.steps) : k > x.at => TodoOf(x.steps[k]) = InPlace(x, k)

Fits(x, runs) ==
    /\ IsRun(x) /\ Planned(x) /\ x.from \in 0 .. Len(runs)
    /\ x.from # 0 => Descends(x, runs[x.from])
    /\ x.made = "resume" => x.from # 0

TRInv ==
    /\ IsSeq(data) /\ IsSeq(results) /\ node \in 0 .. Len(results)
    /\ \A r \in 1 .. Len(results) : Fits(results[r], results)

(* A result made from y, by an update and by a resumption.                  *)
MadeFrom(y, steps, made, from, at) ==
    [y EXCEPT !.steps = steps, !.made = made, !.from = from, !.at = at]
MadeOver(y, steps, made, from, at, points) ==
    [y EXCEPT !.steps = steps, !.made = made, !.from = from, !.at = at, !.over = points]

LEMMA Lengths ==
  ASSUME NEW s, IsSeq(s)
  PROVE  Len(s) \in Nat /\ DOMAIN s = 1 .. Len(s) /\ (s # <<>> => Len(s) # 0) /\ (s = <<>> => Len(s) = 0)
<1>1. PICK V : s \in Seq(V)
  BY DEF IsSeq
<1>2. QED
  BY <1>1

LEMMA KeepKeeps ==
  ASSUME TRInv, NEW x, Fits(x, results), Keep(x), data' = data,
         node' = node \/ node' = Len(results) + 1
  PROVE  TRInv'
<1>1. PICK R, n : R = Append(results, x) /\ n = Len(results)
  OBVIOUS
<1>2. /\ IsSeq(R) /\ n \in Nat /\ Len(R) = n + 1 /\ R[n + 1] = x
      /\ \A i \in 1 .. n : R[i] = results[i]
  BY <1>1, AppendAny DEF TRInv
<1>3. results' = R
  BY <1>1 DEF Keep
<1>4. ASSUME NEW y, Fits(y, results) PROVE Fits(y, R)
  <2>1. y.from \in 0 .. n /\ (y.from # 0 => y.from \in 1 .. n)
    BY <1>1, <1>2, <1>4 DEF Fits
  <2>2. y.from \in 0 .. Len(R) /\ (y.from # 0 => R[y.from] = results[y.from])
    BY <1>2, <2>1
  <2>3. QED
    BY <1>4, <2>2 DEF Fits
<1>5. ASSUME NEW r \in 1 .. Len(R) PROVE Fits(R[r], R)
  <2>1. CASE r = n + 1
    BY <1>2, <1>4, <2>1
  <2>2. CASE r # n + 1
    <3>1. r \in 1 .. n
      BY <1>2, <2>2
    <3>2. Fits(results[r], results)
      BY <1>1, <3>1 DEF TRInv
    <3>3. QED
      BY <1>2, <1>4, <3>1, <3>2
  <2>3. QED
    BY <2>1, <2>2
<1>6. node' \in 0 .. Len(R)
  <2>1. node \in 0 .. n
    BY <1>1 DEF TRInv
  <2>2. QED
    BY <1>1, <1>2, <2>1
<1>7. QED
  BY <1>2, <1>3, <1>5, <1>6 DEF TRInv

LEMMA BatchIsTodo ==
  ASSUME NEW points, NEW size, NEW j
  PROVE  IsTodo(BatchAt(points, size, j))
  BY DEF IsTodo, BatchAt

LEMMA Batches ==
  ASSUME NEW points, NEW size, NEW first \in Nat, NEW total \in Nat, first <= total
  PROVE  /\ total - first \in Nat /\ Len(BatchesFrom(points, size, first, total)) = total - first
         /\ \A m \in 1 .. total - first :
              /\ BatchesFrom(points, size, first, total)[m] = BatchAt(points, size, first + m - 1)
              /\ IsTodo(BatchesFrom(points, size, first, total)[m])
<1>1. PICK n, b : n = total - first /\ b = BatchesFrom(points, size, first, total)
  OBVIOUS
<1>2. n \in Nat /\ b = [i \in 1 .. n |-> BatchAt(points, size, first + i - 1)]
  BY <1>1 DEF BatchesFrom
<1>3. Len(b) = n /\ \A m \in 1 .. n : b[m] = BatchAt(points, size, first + m - 1)
  BY <1>2
<1>4. \A m \in 1 .. n : IsTodo(b[m])
  BY <1>3, BatchIsTodo
<1>5. QED
  BY <1>1, <1>2, <1>3, <1>4

LEMMA NoSteps ==
  /\ IsSeq(<<>>) /\ Chained(<<>>) /\ Len(<<>>) = 0
  /\ ParamsOf(<<>>) = Initial /\ StateOf(<<>>) = <<>>
<1>1. <<>> \in Seq({})
  OBVIOUS
<1>2. Len(<<>>) = 0
  OBVIOUS
<1>3. QED
  BY <1>1, <1>2 DEF IsSeq, Chained, ParamsOf, StateOf

LEMMA TrainKeeps ==
  ASSUME TRInv, NEW epochs \in Nat, NEW size \in Nat, NEW live, Train(epochs, size, live)
  PROVE  TRInv'
<1>1. PICK batch, total, todo, u, x :
        /\ batch = Effective(data, size) /\ total = epochs * PerEpoch(data, batch)
        /\ todo = BatchesFrom(data, batch, 0, total)
        /\ u = StepsFrom(Initial, <<>>, <<>>, todo) /\ x = Result(u, batch, "train", 0, 0)
  OBVIOUS
<1>2. data # <<>> /\ Keep(x) /\ data' = data /\ (node' = node \/ node' = Len(results) + 1)
  BY <1>1 DEF Train
<1>3. Len(data) \in Nat \ {0}
  BY <1>2, Lengths DEF TRInv
<1>4. batch \in Nat \ {0} /\ batch <= Len(data)
  BY <1>1, <1>3 DEF Effective
<1>5. total \in Nat
  <2>1. PICK p : p = PerEpoch(data, batch)
    OBVIOUS
  <2>2. Len(data) + batch - 1 \in Nat
    BY <1>3, <1>4
  <2>3. p \in Nat
    BY <1>4, <2>1, <2>2 DEF PerEpoch
  <2>4. QED
    BY <1>1, <2>1, <2>3
<1>6. /\ Len(todo) = total
      /\ \A m \in 1 .. total : todo[m] = BatchAt(data, batch, m - 1) /\ IsTodo(todo[m])
  <2>1. /\ total - 0 \in Nat /\ Len(BatchesFrom(data, batch, 0, total)) = total - 0
        /\ \A m \in 1 .. total - 0 :
              /\ BatchesFrom(data, batch, 0, total)[m] = BatchAt(data, batch, 0 + m - 1)
              /\ IsTodo(BatchesFrom(data, batch, 0, total)[m])
    <3>1. 0 <= total /\ 0 \in Nat
      BY <1>5
    <3>2. QED
      BY <1>5, <3>1, Batches
  <2>2. total - 0 = total /\ \A m \in 1 .. total : 0 + m - 1 = m - 1
    BY <1>5
  <2>3. QED
    BY <1>1, <2>1, <2>2
<1>7. /\ IsSeq(u) /\ Chained(u) /\ Len(u) = total
      /\ \A m \in 1 .. total : TodoOf(u[m]) = BatchAt(data, batch, m - 1)
  <2>1. PICK none : none = <<>>
    OBVIOUS
  <2>2. IsSeq(none) /\ Chained(none) /\ Len(none) = 0 /\ Initial = ParamsOf(none) /\ <<>> = StateOf(none)
    BY <2>1, NoSteps
  <2>3. /\ IsSeq(u) /\ Chained(u) /\ Len(u) = Len(none) + total
        /\ \A m \in 1 .. total : TodoOf(u[Len(none) + m]) = todo[m]
    <3>1. PICK v : /\ v = StepsFrom(Initial, <<>>, none, todo)
                   /\ IsSeq(v) /\ Chained(v) /\ Len(v) = Len(none) + total
                   /\ \A m \in 1 .. total : TodoOf(v[Len(none) + m]) = todo[m]
      BY <1>5, <1>6, <2>2, Continued
    <3>2. QED
      BY <1>1, <2>1, <3>1
  <2>4. 0 + total = total /\ \A m \in 1 .. total : 0 + m = m
    BY <1>5
  <2>5. QED
    BY <1>6, <2>2, <2>3, <2>4
<1>8. /\ x.steps = u /\ x.batch_size = batch /\ x.made = "train" /\ x.from = 0 /\ IsRun(x)
  BY <1>1, <1>4, <1>7 DEF Result, IsRun
<1>9. Planned(x)
  <2>1. x.over = data
    BY <1>1 DEF Result
  <2>2. Effective(data, batch) = batch
    BY <1>3, <1>4 DEF Effective
  <2>3. ASSUME NEW k \in 1 .. Len(x.steps) PROVE TodoOf(x.steps[k]) = InPlace(x, k)
    BY <1>7, <1>8, <2>1, <2>2, <2>3 DEF InPlace
  <2>4. QED
    BY <2>3 DEF Planned
<1>10. Fits(x, results)
  <2>1. Len(results) \in Nat
    BY Lengths DEF TRInv
  <2>2. x.from \in 0 .. Len(results) /\ x.made # "resume"
    BY <1>8, <2>1
  <2>3. QED
    BY <1>8, <1>9, <2>2 DEF Fits
<1>11. QED
  BY <1>2, <1>10, KeepKeeps

LEMMA ExtendKeeps ==
  ASSUME TRInv, NEW r \in 1 .. Len(results), NEW points, NEW count \in Nat, Extend(r, points, count),
         data' = data, node' = node \/ node' = Len(results) + 1
  PROVE  TRInv'
<1>1. PICK prior, u, x, todo, L :
        /\ prior = results[r].steps /\ u = Extended(r, points, count) /\ L = Len(prior)
        /\ todo = [i \in 1..count |-> [epoch |-> L + i - 1, batch |-> 0, points |-> points]]
        /\ x = MadeFrom(results[r], u, "update", r, L)
  OBVIOUS
<1>2. Keep(x)
  BY <1>1 DEF Extend, MadeFrom
<1>3. IsRun(results[r]) /\ IsSeq(prior) /\ Chained(prior) /\ L \in Nat
  <2>1. IsRun(results[r])
    BY DEF TRInv, Fits
  <2>2. IsSeq(prior) /\ Chained(prior)
    BY <1>1, <2>1 DEF IsRun
  <2>3. QED
    BY <1>1, <2>1, <2>2, Lengths
<1>4. Len(todo) = count /\ \A m \in 1 .. count : IsTodo(todo[m])
  <2>1. Len(todo) = count
    BY <1>1
  <2>2. \A m \in 1 .. count : todo[m] = [epoch |-> L + m - 1, batch |-> 0, points |-> points]
    BY <1>1
  <2>3. QED
    BY <2>1, <2>2 DEF IsTodo
<1>5. /\ IsSeq(u) /\ Chained(u) /\ Len(u) = L + count
      /\ \A k \in 1 .. L : u[k] = prior[k]
  <2>1. PICK v : /\ v = StepsFrom(ParamsOf(prior), StateOf(prior), prior, todo)
                 /\ IsSeq(v) /\ Chained(v) /\ Len(v) = Len(prior) + count
                 /\ \A k \in 1 .. Len(prior) : v[k] = prior[k]
    BY <1>3, <1>4, Continued
  <2>2. u = v
    BY <1>1, <2>1 DEF Extended
  <2>3. QED
    BY <1>1, <2>1, <2>2
<1>6. /\ x.steps = u /\ x.batch_size = results[r].batch_size /\ x.made = "update" /\ x.from = r
      /\ x.at = L /\ IsRun(x)
  <2>1. PICK y : y = results[r]
    OBVIOUS
  <2>2. /\ y = [steps |-> y.steps, batch_size |-> y.batch_size, made |-> y.made,
                from |-> y.from, at |-> y.at, over |-> y.over]
        /\ y.batch_size \in Nat \ {0}
    BY <1>3, <2>1 DEF IsRun
  <2>3. x = [steps |-> u, batch_size |-> y.batch_size, made |-> "update", from |-> r, at |-> L, over |-> y.over]
    BY <1>1, <2>1, <2>2 DEF MadeFrom
  <2>4. QED
    BY <1>5, <2>1, <2>2, <2>3 DEF IsRun
<1>7. Descends(x, results[r])
  <2>1. L \in 0 .. Len(u) /\ L <= Len(prior)
    BY <1>1, <1>3, <1>5
  <2>2. QED
    BY <1>1, <1>5, <1>6, <2>1 DEF Descends
<1>8. Fits(x, results)
  <2>1. x.from \in 0 .. Len(results) /\ x.from # 0 /\ x.made # "resume"
    BY <1>6
  <2>2. Planned(x)
    BY <1>6 DEF Planned
  <2>3. QED
    BY <1>6, <1>7, <2>1, <2>2 DEF Fits
<1>9. QED
  BY <1>2, <1>8, KeepKeeps

LEMMA Shortened ==
  ASSUME NEW s, IsSeq(s), Chained(s), NEW n \in 0 .. Len(s)
  PROVE  /\ IsSeq(SubSeq(s, 1, n)) /\ Chained(SubSeq(s, 1, n)) /\ Len(SubSeq(s, 1, n)) = n
         /\ \A k \in 1 .. n : SubSeq(s, 1, n)[k] = s[k]
<1>1. PICK V, u : s \in Seq(V) /\ u = SubSeq(s, 1, n)
  BY DEF IsSeq
<1>2. n \in Nat /\ n <= Len(s) /\ Len(s) \in Nat /\ \A k \in 1 .. n : k \in 1 .. Len(s) /\ s[k] \in V
  BY <1>1
<1>3. u \in Seq(V) /\ Len(u) = n /\ \A k \in 1 .. n : u[k] = s[k]
  BY <1>1, <1>2
<1>4. ASSUME NEW k \in 1 .. n
      PROVE  u[k] = OptimizerStep(ParamsAt(u, k), StateAt(u, k), TodoOf(u[k]))
  <2>1. k \in 1 .. Len(s) /\ (k # 1 => k - 1 \in 1 .. n)
    BY <1>2
  <2>2. ParamsAt(u, k) = ParamsAt(s, k) /\ StateAt(u, k) = StateAt(s, k)
    BY <1>3, <2>1 DEF ParamsAt, StateAt
  <2>3. s[k] = OptimizerStep(ParamsAt(s, k), StateAt(s, k), TodoOf(s[k]))
    BY <2>1 DEF Chained
  <2>4. QED
    BY <1>3, <2>2, <2>3
<1>5. Chained(u)
  BY <1>3, <1>4 DEF Chained
<1>6. QED
  BY <1>1, <1>3, <1>5 DEF IsSeq

LEMMA ResumeRunKeeps ==
  ASSUME TRInv, NEW r \in 1 .. Len(results), NEW i \in Nat, ResumeRun(r, i)
  PROVE  TRInv'
<1>1. PICK prior, size, kept, todo, u, x, L :
        /\ prior = results[r].steps /\ size = Effective(data, results[r].batch_size)
        /\ kept = SubSeq(prior, 1, i + 1) /\ L = Len(prior)
        /\ todo = BatchesFrom(data, size, i + 1, L)
        /\ u = StepsFrom(ParamsOf(kept), StateOf(kept), kept, todo)
        /\ x = MadeOver(results[r], u, "resume", r, i + 1, data)
  OBVIOUS
<1>2. i < L /\ Keep(x) /\ data' = data /\ node' = node
  <2>1. Resumed(r, i) = u
    BY <1>1 DEF Resumed
  <2>2. QED
    BY <1>1, <2>1 DEF ResumeRun, MadeOver
<1>3. IsRun(results[r]) /\ IsSeq(prior) /\ Chained(prior) /\ L \in Nat
  <2>1. IsRun(results[r])
    BY DEF TRInv, Fits
  <2>2. IsSeq(prior) /\ Chained(prior)
    BY <1>1, <2>1 DEF IsRun
  <2>3. QED
    BY <1>1, <2>1, <2>2, Lengths
<1>4. i + 1 \in Nat /\ i + 1 <= L /\ i + 1 \in 0 .. Len(prior) /\ i + 1 \in 0 .. L
  BY <1>1, <1>2, <1>3
<1>5. /\ IsSeq(kept) /\ Chained(kept) /\ Len(kept) = i + 1
      /\ \A k \in 1 .. i + 1 : kept[k] = prior[k]
  BY <1>1, <1>3, <1>4, Shortened
<1>6. PICK N : N = L - (i + 1) /\ N \in Nat
  BY <1>3, <1>4
<1>7. /\ Len(todo) = N
      /\ \A m \in 1 .. N : todo[m] = BatchAt(data, size, (i + 1) + m - 1) /\ IsTodo(todo[m])
  <2>1. PICK f, d : f = i + 1 /\ d = data
    OBVIOUS
  <2>2. f \in Nat /\ L \in Nat /\ f <= L
    BY <1>3, <1>4, <2>1
  <2>3. N = L - f /\ todo = BatchesFrom(d, size, f, L)
    BY <1>1, <1>6, <2>1
  <2>4. /\ Len(BatchesFrom(d, size, f, L)) = L - f
        /\ \A m \in 1 .. L - f :
              /\ BatchesFrom(d, size, f, L)[m] = BatchAt(d, size, f + m - 1)
              /\ IsTodo(BatchesFrom(d, size, f, L)[m])
    BY <2>2, Batches
  <2>5. QED
    BY <2>1, <2>3, <2>4
<1>8. /\ IsSeq(u) /\ Chained(u) /\ Len(u) = L
      /\ \A k \in 1 .. i + 1 : u[k] = prior[k]
      /\ \A m \in 1 .. N : TodoOf(u[(i + 1) + m]) = BatchAt(data, size, (i + 1) + m - 1)
  <2>0. Len(todo) = N /\ \A m \in 1 .. N : IsTodo(todo[m])
    BY <1>7
  <2>9. IsSeq(kept) /\ Chained(kept) /\ N \in Nat
    BY <1>5, <1>6
  <2>1. PICK v : /\ v = StepsFrom(ParamsOf(kept), StateOf(kept), kept, todo)
                 /\ IsSeq(v) /\ Chained(v) /\ Len(v) = Len(kept) + N
                 /\ \A k \in 1 .. Len(kept) : v[k] = kept[k]
                 /\ \A m \in 1 .. N : TodoOf(v[Len(kept) + m]) = todo[m]
    BY <2>0, <2>9, Continued
  <2>2. u = v
    BY <1>1, <2>1
  <2>3. (i + 1) + N = L
    BY <1>3, <1>4, <1>6
  <2>4. QED
    BY <1>5, <1>7, <2>1, <2>2, <2>3
<1>9. PICK y : y = results[r]
  OBVIOUS
<1>10. /\ x.steps = u /\ x.batch_size = y.batch_size /\ x.made = "resume" /\ x.from = r
       /\ x.at = i + 1 /\ x.over = data /\ x.batch_size = y.batch_size /\ IsRun(x)
  <2>1. /\ y = [steps |-> y.steps, batch_size |-> y.batch_size, made |-> y.made,
                from |-> y.from, at |-> y.at, over |-> y.over]
        /\ y.batch_size \in Nat \ {0}
    BY <1>3, <1>9 DEF IsRun
  <2>2. x = [steps |-> u, batch_size |-> y.batch_size, made |-> "resume", from |-> r,
             at |-> i + 1, over |-> data]
    BY <1>1, <1>9, <2>1 DEF MadeOver
  <2>3. QED
    BY <1>8, <2>1, <2>2 DEF IsRun
<1>11. ASSUME NEW k \in 1 .. Len(x.steps), k > x.at PROVE TodoOf(x.steps[k]) = InPlace(x, k)
  <2>1. PICK m : m = k - (i + 1)
    OBVIOUS
  <2>2. m \in 1 .. N /\ (i + 1) + m = k
    BY <1>3, <1>4, <1>6, <1>8, <1>10, <1>11, <2>1
  <2>3. TodoOf(u[k]) = BatchAt(data, size, k - 1)
    BY <1>8, <2>2
  <2>4. size = Effective(x.over, x.batch_size)
    BY <1>1, <1>9, <1>10
  <2>5. QED
    BY <1>10, <2>3, <2>4 DEF InPlace
<1>12. Descends(x, y) /\ Planned(x)
  <2>1. Planned(x)
    BY <1>10 DEF Planned
  <2>2. Len(x.steps) = L /\ Len(y.steps) = L /\ x.at = i + 1 /\ x.batch_size = y.batch_size
    BY <1>1, <1>8, <1>9, <1>10
  <2>3. \A k \in 1 .. x.at : x.steps[k] = y.steps[k]
    BY <1>1, <1>8, <1>9, <1>10
  <2>4. x.at \in 0 .. Len(x.steps) /\ x.at <= Len(y.steps)
    BY <1>4, <2>2
  <2>5. QED
    BY <1>11, <2>1, <2>2, <2>3, <2>4 DEF Descends
<1>13. Fits(x, results)
  BY <1>9, <1>10, <1>12 DEF Fits
<1>14. QED
  BY <1>2, <1>13, KeepKeeps

LEMMA WriteKeeps ==
  ASSUME TRInv, NEW points, IsSeq(points), Write(points)
  PROVE  TRInv'
  BY DEF TRInv, Write

LEMMA TRStep == TRInv /\ [TRNext]_TRvars => TRInv'
<1> SUFFICES ASSUME TRInv, [TRNext]_TRvars PROVE TRInv'
  OBVIOUS
<1>1. PICK n : n = Len(results) /\ n \in Nat /\ DOMAIN results = 1 .. n
  BY Lengths DEF TRInv
<1>2. ASSUME NEW x \in Points, Push(x) PROVE TRInv'
  <2>1. Write(Append(data, x)) /\ IsSeq(Append(data, x))
    BY <1>2, AppendAny DEF Push, TRInv
  <2>2. QED
    BY <2>1, WriteKeeps
<1>3. ASSUME NEW x \in Points, ObserveData(x) PROVE TRInv'
  <2>1. node # 0 /\ Extend(node, <<x>>, 1) /\ node' = Len(results) + 1 /\ data' = data
    BY <1>3 DEF ObserveData
  <2>2. node \in 1 .. Len(results)
    BY <1>1, <2>1 DEF TRInv
  <2>3. QED
    BY <2>1, <2>2, ExtendKeeps
<1>4. ASSUME NEW i \in DOMAIN data, NEW x \in Points, Set(i, x) PROVE TRInv'
  <2>1. PICK V : data \in Seq(V)
    BY DEF TRInv, IsSeq
  <2>2. [data EXCEPT ![i] = x] \in Seq(V \cup {x})
    BY <2>1
  <2>3. IsSeq([data EXCEPT ![i] = x]) /\ Write([data EXCEPT ![i] = x])
    BY <1>4, <2>2 DEF Set, IsSeq
  <2>4. QED
    BY <2>3, WriteKeeps
<1>5. ASSUME NEW e \in Epochs, NEW s \in BatchSizes, NEW l \in BOOLEAN, Train(e, s, l) PROVE TRInv'
  <2>1. e \in Nat /\ s \in Nat
    BY TrainingConstants
  <2>2. QED
    BY <1>5, <2>1, TrainKeeps
<1>6. ASSUME NEW r \in DOMAIN results, NEW x \in Points, Update(r, <<x>>, 1) PROVE TRInv'
  <2>1. r \in 1 .. Len(results) /\ Extend(r, <<x>>, 1) /\ data' = data /\ node' = node
    BY <1>1, <1>6 DEF Update
  <2>2. QED
    BY <2>1, ExtendKeeps
<1>7. ASSUME NEW r \in DOMAIN results, Update(r, data, 2) PROVE TRInv'
  <2>1. r \in 1 .. Len(results) /\ Extend(r, data, 2) /\ data' = data /\ node' = node
    BY <1>1, <1>7 DEF Update
  <2>2. QED
    BY <2>1, ExtendKeeps
<1>8. ASSUME NEW r \in DOMAIN results, NEW i \in 0..(MaxSteps - 1), ResumeRun(r, i) PROVE TRInv'
  <2>1. r \in 1 .. Len(results) /\ i \in Nat
    BY <1>1
  <2>2. QED
    BY <1>8, <2>1, ResumeRunKeeps
<1>9. CASE UNCHANGED TRvars
  BY <1>9 DEF TRvars, TRInv
<1>10. QED
  BY <1>2, <1>3, <1>4, <1>5, <1>6, <1>7, <1>8, <1>9 DEF TRNext

(* Every run is one chain of steps of the optimizer; a trained one has the  *)
(* batches of its dataset, a resumed one those the dataset has by then.     *)
THEOREM TrainingInvariant == TRSpec => []TRInv
<1>1. TRInit => TRInv
  <2> SUFFICES ASSUME data = <<>>, results = <<>>, node = 0 PROVE TRInv
    BY DEF TRInit
  <2>1. Len(results) = 0
    BY NoSteps
  <2>2. QED
    BY <2>1, NoSteps DEF TRInv
<1>2. TRInv /\ [TRNext]_TRvars => TRInv'
  BY TRStep
<1>3. QED
  BY <1>1, <1>2, PTL DEF TRSpec

LEMMA InvReplays == TRInv => RunsReplay
<1> SUFFICES ASSUME TRInv PROVE ResumesAgree /\ OneOptimizer
  BY DEF RunsReplay
<1>1. PICK n : n = Len(results) /\ n \in Nat /\ DOMAIN results = 1 .. n
  BY Lengths DEF TRInv
<1>2. \A r \in 1 .. n : Fits(results[r], results)
  BY <1>1 DEF TRInv
<1>3. ASSUME NEW r \in 1 .. n, results[r].made = "resume"
      PROVE  Continues(results[r], results[results[r].from])
  <2>1. PICK y, f, z : y = results[r] /\ f = y.from /\ z = results[f]
    OBVIOUS
  <2>2. /\ IsRun(y) /\ f \in 0 .. n /\ f # 0 /\ Descends(y, z)
    BY <1>1, <1>2, <1>3, <2>1 DEF Fits
  <2>3. IsRun(z) /\ Planned(z)
    <3>1. f \in 1 .. n
      BY <1>1, <2>2
    <3>2. QED
      BY <1>2, <2>1, <3>1 DEF Fits
  <2>4. PICK s, t, a, L : s = y.steps /\ t = z.steps /\ a = y.at /\ L = Len(s)
    OBVIOUS
  <2>5. /\ IsSeq(s) /\ Chained(s) /\ IsSeq(t) /\ Chained(t) /\ L \in Nat /\ DOMAIN s = 1 .. L
    BY <2>2, <2>3, <2>4, Lengths DEF IsRun
  <2>6. /\ L = Len(t) /\ y.batch_size = z.batch_size /\ a \in 0 .. L
        /\ \A k \in 1 .. a : s[k] = t[k]
        /\ \A k \in 1 .. L : k > a => TodoOf(s[k]) = InPlace(y, k)
    BY <1>3, <2>1, <2>2, <2>4 DEF Descends
  <2>7. ASSUME NEW k \in 1 .. L, k > a PROVE PointsOf(s[k]) = Retaken(y, k)
    <3>1. TodoOf(s[k]).points = Retaken(y, k)
      BY <2>6, <2>7 DEF InPlace, Retaken
    <3>2. QED
      BY <3>1 DEF TodoOf, PointsOf
  <2>8. ASSUME NEW k \in 1 .. L
        PROVE  (s[k].parameters = t[k].parameters)
               <=> \A m \in (a + 1) .. k : t[m].gradient[2] = Retaken(y, m)
    <3>1. (s[k].parameters = t[k].parameters)
          <=> \A m \in 1 .. k : PointsOf(s[m]) = PointsOf(t[m])
      <4>1. Chained(s) /\ Chained(t) /\ Len(s) \in Nat /\ Len(s) = Len(t) /\ k \in 1 .. Len(s)
        BY <2>4, <2>5, <2>6
      <4>2. QED
        BY <4>1, SameParameters
    <3>2. \A m \in 1 .. k : m \in 1 .. L /\ (m \in 1 .. a \/ (m \in (a + 1) .. k /\ m > a))
      BY <2>5, <2>6
    <3>3. \A m \in (a + 1) .. k : m \in 1 .. k /\ m > a
      BY <2>5, <2>6
    <3>4. \A m \in (a + 1) .. k : PointsOf(s[m]) = Retaken(y, m)
      BY <2>7, <3>2, <3>3
    <3>5. \A m \in 1 .. a : PointsOf(s[m]) = PointsOf(t[m])
      BY <2>6
    <3>6. (\A m \in 1 .. k : PointsOf(s[m]) = PointsOf(t[m]))
          <=> \A m \in (a + 1) .. k : PointsOf(t[m]) = Retaken(y, m)
      BY <3>2, <3>3, <3>4, <3>5
    <3>7. QED
      BY <3>1, <3>6 DEF PointsOf
  <2>9. ASSUME z.made = "train", z.over = y.over PROVE s = t
    <3>1. \A k \in 1 .. L : InPlace(y, k) = InPlace(z, k)
      BY <2>6, <2>9 DEF InPlace
    <3>2. \A k \in 1 .. L : TodoOf(t[k]) = InPlace(z, k)
      BY <2>3, <2>4, <2>6, <2>9 DEF Planned
    <3>3. ASSUME NEW k \in 1 .. L PROVE TodoOf(s[k]) = TodoOf(t[k])
      <4>1. k \in 1 .. a \/ k > a
        BY <2>5, <2>6
      <4>2. QED
        BY <2>6, <3>1, <3>2, <4>1
    <3>4. QED
      BY <2>4, <2>5, <2>6, <3>3, SameSteps
  <2>10. QED
    BY <2>1, <2>4, <2>5, <2>6, <2>8, <2>9 DEF Continues
<1>4. ASSUME NEW r \in 1 .. n
      PROVE  results[r].steps =
               StepsFrom(Initial, <<>>, <<>>, [k \in DOMAIN results[r].steps |-> TodoOf(results[r].steps[k])])
  <2>1. PICK s, N, todo : /\ s = results[r].steps /\ N = Len(s)
                          /\ todo = [k \in DOMAIN s |-> TodoOf(s[k])]
    OBVIOUS
  <2>2. IsSeq(s) /\ Chained(s)
    BY <1>2, <2>1 DEF Fits, IsRun
  <2>3. N \in Nat /\ DOMAIN s = 1 .. N
    BY <2>1, <2>2, Lengths
  <2>4. todo = [k \in 1 .. N |-> TodoOf(s[k])]
    BY <2>1, <2>3
  <2>5. Len(todo) = N /\ \A k \in 1 .. N : todo[k] = TodoOf(s[k]) /\ IsTodo(todo[k])
    <3>1. Len(todo) = N /\ \A k \in 1 .. N : todo[k] = TodoOf(s[k])
      BY <2>3, <2>4
    <3>2. \A x : IsTodo(TodoOf(x))
      BY DEF IsTodo, TodoOf
    <3>3. QED
      BY <3>1, <3>2
  <2>6. PICK none : none = <<>>
    OBVIOUS
  <2>7. IsSeq(none) /\ Chained(none) /\ Len(none) = 0 /\ Initial = ParamsOf(none) /\ <<>> = StateOf(none)
    BY <2>6, NoSteps
  <2>8. PICK u : /\ u = StepsFrom(Initial, <<>>, none, todo)
                 /\ IsSeq(u) /\ Chained(u) /\ Len(u) = Len(none) + N
                 /\ \A m \in 1 .. N : TodoOf(u[Len(none) + m]) = todo[m]
    <3>1. Len(todo) = N /\ \A k \in 1 .. N : IsTodo(todo[k])
      BY <2>5
    <3>2. N \in Nat /\ IsSeq(none) /\ Chained(none)
      BY <2>3, <2>7
    <3>3. PICK p, q : p = ParamsOf(none) /\ q = StateOf(none)
      OBVIOUS
    <3>4. /\ IsSeq(StepsFrom(p, q, none, todo)) /\ Chained(StepsFrom(p, q, none, todo))
          /\ Len(StepsFrom(p, q, none, todo)) = Len(none) + N
          /\ \A m \in 1 .. N : TodoOf(StepsFrom(p, q, none, todo)[Len(none) + m]) = todo[m]
      BY <3>1, <3>2, <3>3, Continued
    <3>5. p = Initial /\ q = <<>>
      BY <2>7, <3>3
    <3>6. QED
      BY <3>4, <3>5
  <2>9. Len(u) = N /\ \A m \in 1 .. N : TodoOf(u[m]) = TodoOf(s[m])
    <3>1. 0 + N = N /\ \A m \in 1 .. N : 0 + m = m
      BY <2>3
    <3>2. QED
      BY <2>5, <2>7, <2>8, <3>1
  <2>10. s = u
    BY <2>1, <2>2, <2>8, <2>9, SameSteps
  <2>11. QED
    BY <2>1, <2>6, <2>8, <2>10
<1>5. ASSUME NEW r \in 1 .. n, results[r].from # 0
      PROVE  IsPrefix(SubSeq(results[r].steps, 1, results[r].at), results[results[r].from].steps)
  <2>1. PICK y, f, z, a : y = results[r] /\ f = y.from /\ z = results[f] /\ a = y.at
    OBVIOUS
  <2>2. IsRun(y) /\ f \in 1 .. n /\ Descends(y, z)
    BY <1>1, <1>2, <1>5, <2>1 DEF Fits
  <2>3. IsRun(z)
    BY <1>2, <2>1, <2>2 DEF Fits
  <2>4. PICK s, t : s = SubSeq(y.steps, 1, a) /\ t = z.steps
    OBVIOUS
  <2>5. /\ IsSeq(y.steps) /\ Chained(y.steps) /\ IsSeq(t) /\ Chained(t)
        /\ a \in 0 .. Len(y.steps) /\ a <= Len(t) /\ \A k \in 1 .. a : y.steps[k] = t[k]
    BY <2>1, <2>2, <2>3, <2>4 DEF IsRun, Descends
  <2>6. a \in 0 .. Len(t)
    BY <2>5, Lengths
  <2>7. IsSeq(s) /\ Chained(s) /\ Len(s) = a /\ \A k \in 1 .. a : s[k] = t[k]
    BY <2>4, <2>5, Shortened
  <2>8. PICK p, q : p = SubSeq(s, 1, a) /\ q = SubSeq(t, 1, a)
    OBVIOUS
  <2>9. /\ IsSeq(q) /\ Chained(q) /\ Len(q) = a /\ \A k \in 1 .. a : q[k] = t[k]
    BY <2>5, <2>6, <2>8, Shortened
  <2>10. /\ IsSeq(p) /\ Chained(p) /\ Len(p) = a /\ \A k \in 1 .. a : p[k] = s[k]
    <3>1. a \in 0 .. Len(s)
      BY <2>5, <2>7
    <3>2. QED
      BY <2>7, <2>8, <3>1, Shortened
  <2>11. p = q
    BY <2>7, <2>9, <2>10, SameSteps
  <2>12. IsPrefix(s, t)
    BY <2>5, <2>7, <2>8, <2>11 DEF IsPrefix
  <2>13. QED
    BY <2>1, <2>4, <2>12
<1>6. ResumesAgree
  BY <1>1, <1>3 DEF ResumesAgree
<1>7. OneOptimizer
  BY <1>1, <1>4, <1>5 DEF OneOptimizer, TodoOf
<1>8. QED
  BY <1>6, <1>7

(* However it came about, over updates, observations, resumptions and       *)
(* writes to the dataset, a run can be replayed from its batches; and a     *)
(* resumed one goes with the run it resumes as far as that one's steps were *)
(* over the points the dataset has in their places by then, and no further  *)
(* (host_train, incremental_train, host_resume): for any points, batch      *)
(* sizes and epochs.                                                        *)
THEOREM RunsCanBeReplayed == TRSpec => []RunsReplay
<1>1. TRInv => RunsReplay
  BY InvReplays
<1>2. QED
  BY <1>1, TrainingInvariant, PTL
=============================================================================
