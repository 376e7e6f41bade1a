----------------------------- MODULE Possibilities -----------------------------
(* Arithmetic on what is not known: a possibility keeps its alternatives, a *)
(* path set what the sides of a branch left, and both name the dependency   *)
(* their alternatives come from.  Operations map over the alternatives, and *)
(* combine those of two values of one dependency pairwise.  What a value    *)
(* means is kept beside it: its outcome in each world, a world being one    *)
(* choice of alternative for each dependency.                               *)
EXTENDS Integers, Sequences, FiniteSets, SequencesExt

CONSTANTS
    Supports,        \* the arrays possibilities are built from
    Laws,            \* the weights given to alternatives, as proportions
    Constants,       \* the numbers in the program
    MaxBuilt,        \* bounds next_dependency_id
    MaxValues,       \* bounds the values of a run and their dependencies, together
    MaxAlternatives  \* the length of the longest support

VARIABLES
    registers,  \* the values computed so far, each with its meaning
    built,      \* next_dependency_id, less one
    refused     \* whether an operation was refused with an error

PBvars == <<registers, built, refused>>

Number(n) == <<"number", n>>
Bool(b) == <<"bool", IF b THEN 1 ELSE 0>>
True == Bool(TRUE)
Booleans == {Bool(TRUE), Bool(FALSE)}

Worlds == [1 .. MaxBuilt -> 1 .. MaxAlternatives]

-----------------------------------------------------------------------------
(* Values.                                                                  *)

Definite(x) == [kind |-> "definite", of |-> x]
Possibility(xs, weights, by) ==
    [kind |-> "possibility", of |-> xs, weights |-> weights, by |-> by]
PathSet(yes, no, weights, by) ==
    [kind |-> "paths", yes |-> yes, no |-> no, weights |-> weights, by |-> by]
Refused == [kind |-> "refused"]

Unweighted == <<>>
Is(v, kind) == v.kind = kind
Uncertain(v) == v.kind \in {"possibility", "paths"}

(* Weights are proportions in lowest terms: a conditioned law is scaled     *)
(* back to one.                                                             *)
Scaled(weights) ==
    IF weights = Unweighted THEN weights
    ELSE LET Divides(d) == \A i \in DOMAIN weights : weights[i] % d = 0
             largest == CHOOSE d \in 1 .. weights[1] :
                            Divides(d) /\ \A e \in (d + 1) .. weights[1] : ~Divides(e)
         IN  [i \in DOMAIN weights |-> weights[i] \div largest]

(* The values of an array, each once (possibility_build).                   *)
Distinct(xs) ==
    FoldLeft(LAMBDA seen, x : IF Contains(seen, x) THEN seen ELSE Append(seen, x), <<>>, xs)

RECURSIVE Alternatives(_)
Alternatives(v) ==
    CASE v.kind = "definite" -> {v.of}
      [] v.kind = "possibility" -> ToSet(v.of)
      [] v.kind = "paths" -> Alternatives(v.yes) \cup Alternatives(v.no)

-----------------------------------------------------------------------------
(* Meanings.  order is what tells the alternatives of a value apart: "none" *)
(* where it is definite, a dependency, the outcome of a condition, or       *)
(* nothing another value shares.  exact is dropped where an operation is    *)
(* known to mix alternatives of different worlds: see AlternativesReal.     *)

Meaning(outcome, within, order, exact) ==
    [outcome |-> outcome, within |-> within, order |-> order, exact |-> exact]
Constant(x) == Meaning([w \in Worlds |-> x], Worlds, <<"none">>, TRUE)
Register(v, m) == [value |-> v, meaning |-> m]
Literals == {Register(Definite(Number(n)), Constant(Number(n))) : n \in Constants}
Operands == registers \cup Literals

Everywhere(m) == m.order = <<"none">> /\ m.within = Worlds
Aligned(m, n) ==
    \/ Everywhere(m) \/ Everywhere(n)
    \/ m.order[1] = "dependency" /\ n.order[1] = "dependency" /\ m.order # n.order
    \/ /\ m.within = n.within
       /\ (m.order = n.order \/ <<"none">> \in {m.order, n.order})

(* Where a value that two were combined into comes from.                    *)
Combined(m, n, outcome) ==
    Meaning(outcome,
            m.within \cap n.within,
            IF m.order = <<"none">> THEN n.order ELSE m.order,
            m.exact /\ n.exact /\ Aligned(m, n))

-----------------------------------------------------------------------------
(* Operations on values.                                                    *)

(* pure_scalar_binary, pure_scalar_unary.                                   *)
Operations == {"add", "less"}
Typed(x, y) == x[1] = "number" /\ y[1] = "number"
Scalar(op, x, y) == IF op = "add" THEN Number(x[2] + y[2]) ELSE Bool(x[2] < y[2])
Not(x) == Bool(x # True)

(* Wrong on purpose: alternatives are combined by their number alone.       *)
BrokenZipped(l, r) == Len(l.of) = Len(r.of)

Zipped(l, r) == l.by = r.by /\ Len(l.of) = Len(r.of)

WeightsAgree(l, r) == Unweighted \in {l.weights, r.weights} \/ l.weights = r.weights
EitherWeights(l, r) == IF l.weights = Unweighted THEN r.weights ELSE l.weights

Side(v, side) == IF Is(v, "paths") THEN v[side] ELSE v

RECURSIVE LiftBinary(_, _, _)
LiftBinary(l, r, op) ==
    CASE Is(l, "paths") \/ Is(r, "paths") ->
           LET first == IF Is(l, "paths") THEN l ELSE r
               yes == LiftBinary(Side(l, "yes"), Side(r, "yes"), op)
               no == LiftBinary(Side(l, "no"), Side(r, "no"), op)
           IN  IF \/ (Is(l, "paths") /\ Is(r, "paths") /\ l.by # r.by)
                  \/ Refused \in {yes, no}
               THEN Refused
               ELSE PathSet(yes, no, first.weights, first.by)
      [] Is(l, "possibility") /\ Is(r, "possibility") ->
           IF /\ Zipped(l, r) /\ WeightsAgree(l, r)
              /\ \A i \in DOMAIN l.of : Typed(l.of[i], r.of[i])
           THEN Possibility([i \in DOMAIN l.of |-> Scalar(op, l.of[i], r.of[i])],
                            EitherWeights(l, r), l.by)
           ELSE Refused
      [] Is(l, "possibility") /\ Is(r, "definite") ->
           IF \A i \in DOMAIN l.of : Typed(l.of[i], r.of)
           THEN [l EXCEPT !.of = [i \in DOMAIN l.of |-> Scalar(op, l.of[i], r.of)]]
           ELSE Refused
      [] Is(l, "definite") /\ Is(r, "possibility") ->
           IF \A i \in DOMAIN r.of : Typed(l.of, r.of[i])
           THEN [r EXCEPT !.of = [i \in DOMAIN r.of |-> Scalar(op, l.of, r.of[i])]]
           ELSE Refused
      [] OTHER -> IF Typed(l.of, r.of) THEN Definite(Scalar(op, l.of, r.of)) ELSE Refused

RECURSIVE LiftUnary(_)
LiftUnary(v) ==
    CASE ~Alternatives(v) \subseteq Booleans -> Refused
      [] Is(v, "paths") -> [v EXCEPT !.yes = LiftUnary(v.yes), !.no = LiftUnary(v.no)]
      [] Is(v, "possibility") -> [v EXCEPT !.of = [i \in DOMAIN v.of |-> Not(v.of[i])]]
      [] OTHER -> Definite(Not(v.of))

(* Which alternatives of a possibility evidence leaves: its places.         *)
Kept(v, evidence) == SelectSeq([i \in 1 .. Len(v.of) |-> i], LAMBDA i : v.of[i] \in evidence)
Picked(xs, places) == [i \in DOMAIN places |-> xs[places[i]]]

CoreCondition(v, evidence) ==
    CASE Is(v, "paths") -> Refused
      [] Is(v, "definite") -> IF v.of \in evidence THEN v ELSE Refused
      [] Is(v, "possibility") /\ Kept(v, evidence) = <<>> -> Refused
      [] OTHER ->
           LET places == Kept(v, evidence)
           IN  Possibility(Picked(v.of, places),
                           IF v.weights = Unweighted THEN Unweighted
                           ELSE Scaled(Picked(v.weights, places)),
                           v.by)

(* The weight of the alternatives that are true, or false.                  *)
WeightOf(v, x) ==
    FoldLeft(LAMBDA sum, i : sum + IF v.of[i] = x THEN v.weights[i] ELSE 0, 0,
             [i \in 1 .. Len(v.of) |-> i])

(* PATH_SPLIT on a condition, and PATH_JOIN of a register its sides differ  *)
(* in.  Path sets and possibilities are equal when they are the same object.*)
Joined(c, yes, no) ==
    CASE ~(c.kind \in {"definite", "possibility"} /\ Alternatives(c) \subseteq Booleans) -> Refused
      [] Alternatives(c) = {True} -> yes
      [] Alternatives(c) = {Bool(FALSE)} -> no
      [] yes = no -> yes
      [] OTHER -> PathSet(yes, no,
                          IF c.weights = Unweighted THEN Unweighted
                          ELSE Scaled(<<WeightOf(c, True), WeightOf(c, Bool(FALSE))>>),
                          c.by)

-----------------------------------------------------------------------------
(* Instructions and host calls.  One that is refused ends the program.      *)

PBInit == registers = {} /\ built = 0 /\ refused = FALSE

Runs == ~refused /\ Cardinality(registers) + built < MaxValues
Computes(v, m) ==
    IF v = Refused
    THEN refused' = TRUE /\ registers' = {} /\ UNCHANGED built
    ELSE registers' = registers \cup {Register(v, m)} /\ UNCHANGED <<built, refused>>

(* The outcome of dependency d: worlds that only differ in alternatives it  *)
(* does not have are the same to it.                                        *)
Chosen(xs, d) == [w \in Worlds |-> xs[((w[d] - 1) % Len(xs)) + 1]]

PossibilityBuild(xs) ==
    /\ Runs /\ built < MaxBuilt /\ built' = built + 1
    /\ LET d == built'
           unique == Distinct(xs)
       IN  registers' = registers \cup {Register(Possibility(unique, Unweighted, d),
               Meaning(Chosen(unique, d), Worlds, <<"dependency", d>>, TRUE))}
    /\ UNCHANGED refused

(* A repeated alternative is refused, not counted once.                     *)
DistributionBuild(xs, law) ==
    /\ Runs /\ built < MaxBuilt /\ Len(xs) = Len(law)
    /\ IF Distinct(xs) # xs THEN refused' = TRUE /\ registers' = {} /\ UNCHANGED built
       ELSE /\ built' = built + 1
            /\ registers' = registers \cup {Register(Possibility(xs, Scaled(law), built'),
                   Meaning(Chosen(xs, built'), Worlds, <<"dependency", built'>>, TRUE))}
            /\ UNCHANGED refused

(* Alternatives that are the same after an operation become one: their      *)
(* places no longer name worlds.                                            *)
ForgetWeights(r) ==
    /\ Runs
    /\ LET unique == Distinct(r.value.of)
       IN  IF ~Is(r.value, "possibility") \/ r.value.weights = Unweighted
           THEN Computes(Refused, r.meaning)
           ELSE Computes(Possibility(unique, Unweighted, r.value.by),
                         IF unique = r.value.of THEN r.meaning
                         ELSE [r.meaning EXCEPT !.order = <<"register", Cardinality(registers)>>])

(* Each alternative is given one weight, so none may be there twice.        *)
AssignWeights(r, law) ==
    /\ Runs
    /\ Computes(IF /\ Is(r.value, "possibility") /\ r.value.weights = Unweighted
                   /\ Len(law) = Len(r.value.of) /\ Distinct(r.value.of) = r.value.of
                THEN [r.value EXCEPT !.weights = Scaled(law)] ELSE Refused,
                r.meaning)

Binary(l, r, op) ==
    /\ Runs
    /\ LET v == LiftBinary(l.value, r.value, op)
           Outcome(w) == IF Typed(l.meaning.outcome[w], r.meaning.outcome[w])
                         THEN Scalar(op, l.meaning.outcome[w], r.meaning.outcome[w]) ELSE <<"none">>
       IN  Computes(v, Combined(l.meaning, r.meaning, [w \in Worlds |-> Outcome(w)]))

Unary(r) ==
    /\ Runs
    /\ Computes(LiftUnary(r.value),
                [r.meaning EXCEPT !.outcome = [w \in Worlds |-> Not(@[w])]])

(* Evidence is a definite value, or what an unweighted possibility leaves.  *)
Condition(r, e) ==
    /\ Runs
    /\ LET evidence == Alternatives(e.value)
           within == {w \in r.meaning.within : r.meaning.outcome[w] \in evidence}
           usable == Is(e.value, "definite")
                     \/ (Is(e.value, "possibility") /\ e.value.weights = Unweighted)
       IN  Computes(IF usable THEN CoreCondition(r.value, evidence) ELSE Refused,
                    [r.meaning EXCEPT !.within = within])

(* The other side loads a constant: a condition's negation has the sides    *)
(* the other way round.                                                     *)
Branch(c, yes, no) ==
    /\ Runs
    /\ LET v == Joined(c.value, yes.value, no.value)
           split == Alternatives(c.value) = Booleans
           Outcome(w) == IF c.meaning.outcome[w] = True THEN yes.meaning.outcome[w]
                         ELSE no.meaning.outcome[w]
       IN  Computes(v, CASE split /\ yes.value # no.value ->
                              Meaning([w \in Worlds |-> Outcome(w)], c.meaning.within,
                                      <<"condition", c.meaning.outcome>>,
                                      /\ c.meaning.exact /\ yes.meaning.exact /\ no.meaning.exact
                                      /\ Everywhere(yes.meaning) /\ Everywhere(no.meaning))
                         [] Alternatives(c.value) = {Bool(FALSE)} -> no.meaning
                         [] OTHER -> yes.meaning)

(* information_resolve: what all alternatives agree on.                     *)
Agreed(v) ==
    CASE Is(v, "definite") -> {v}
      [] Is(v, "possibility") -> {Definite(x) : x \in ToSet(v.of)}
      [] Is(v, "paths") -> {v.yes, v.no}
Resolve(r) ==
    /\ Runs
    /\ Computes(IF \E v \in Agreed(r.value) : Agreed(r.value) = {v}
                THEN CHOOSE v \in Agreed(r.value) : TRUE ELSE Refused,
                [r.meaning EXCEPT !.order = <<"none">>])

(* information_sample: one alternative that has weight.  The worlds in      *)
(* which it is the outcome are those the draw leaves.                       *)
Sample(r) ==
    /\ Runs /\ Uncertain(r.value)
    /\ IF r.value.weights = Unweighted THEN Computes(Refused, r.meaning)
       ELSE \E drawn \in Agreed(r.value) :
              Computes(drawn, [r.meaning EXCEPT
                  !.within = {w \in @ : r.meaning.outcome[w] \in Alternatives(drawn)},
                  !.order = <<"none">>])

PBNext ==
    \/ \E xs \in Supports : PossibilityBuild(xs)
    \/ \E xs \in Supports, law \in Laws : DistributionBuild(xs, law)
    \/ \E r \in registers : ForgetWeights(r) \/ Unary(r) \/ Resolve(r) \/ Sample(r)
    \/ \E r \in registers, law \in Laws : AssignWeights(r, law)
    \/ \E r \in registers, e \in Operands : Condition(r, e)
    \/ \E l, r \in Operands, op \in Operations : Binary(l, r, op)
    \/ \E c \in registers, yes \in Operands, no \in Literals : Branch(c, yes, no)

PBSpec == PBInit /\ [][PBNext]_PBvars

-----------------------------------------------------------------------------
(* Properties.                                                              *)

(* Where a value's alternatives are told apart by one dependency or one     *)
(* condition, they are the outcomes of the worlds it is restricted to: no   *)
(* operation forms an alternative no world gives, or drops one a world      *)
(* gives (lift_binary_raw, lift_pointwise, core_condition,                  *)
(* core_convert_weights, path_join, information_resolve, sample).           *)
AlternativesReal ==
    \A r \in registers : r.meaning.exact =>
        Alternatives(r.value) = {r.meaning.outcome[w] : w \in r.meaning.within}

(* The dependencies a value's alternatives come from.                       *)
RECURSIVE Dependencies(_)
Dependencies(v) ==
    CASE Is(v, "definite") -> {}
      [] Is(v, "possibility") -> {v.by}
      [] Is(v, "paths") -> {v.by} \cup Dependencies(v.yes) \cup Dependencies(v.no)

(* docs/spec/SPEC.md:234: combining two uncertain values requires the same  *)
(* dependency identity.  An operation that is not refused has left a value  *)
(* of one dependency, where its operands had one each.                      *)
SilentProduct ==
    \E l, r \in registers : \E d, e \in 1 .. built :
        /\ Dependencies(l.value) = {d} /\ Dependencies(r.value) = {e} /\ d # e
        /\ \E op \in Operations : Binary(l, r, op)
NoSilentProduct == [][SilentProduct => refused']_PBvars
=============================================================================
