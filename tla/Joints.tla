-------------------------------- MODULE Joints --------------------------------
(* Joint laws and inference: a joint over named variables is built from a   *)
(* support or from marginals, projected, renamed and conditioned; finite    *)
(* kernels are built by a callback, composed, and made a network over a     *)
(* joint, which inference turns into a joint again.  The law that a value   *)
(* stands for is kept beside it, as a weight for each assignment.  Weights  *)
(* are exact; limits of work and memory are left out.                       *)
EXTENDS Integers, Sequences, FiniteSets, SequencesExt, FiniteSetsExt

CONSTANTS
    Names,     \* the names of variables, numbers in the order of their sort
    Outcomes,  \* the values of variables
    Tables,    \* the supports joints are built from: sequences of <<values, weight>>
    Marginals, \* the marginals of independent joints: sequences of <<value, weight>>
    Shapes,    \* the domains of kernels: <<of the inputs, of the output>>
    Chance,    \* the callback of kernels: what it gives each tuple, per outcome
    Unit,      \* what weights must sum to
    MaxKernels,\* bounds the kernels of a run
    MaxOperations   \* bounds its operations

VARIABLES
    value,    \* the joint, the network or the tuple computed last
    meaning,  \* the law it stands for, or NoLaw
    kernels,  \* the kernels built, each with what it means
    steps

JTvars == <<value, meaning, kernels, steps>>

-----------------------------------------------------------------------------
(* Laws.                                                                    *)

NoLaw == <<>>
Assignments(names) == [names -> Outcomes]
Sum(weight(_), set) == MapThenSumSet(weight, set)

(* Weights are proportions, in lowest terms.                                *)
Lowest(f) ==
    LET weights == {f[x] : x \in DOMAIN f} \ {0}
        Divides(d) == \A w \in weights : w % d = 0
        d == IF weights = {} THEN 1 ELSE Max({c \in 1 .. Min(weights) : Divides(c)})
    IN  [x \in DOMAIN f |-> f[x] \div d]

Law(names, weight(_)) == Lowest([a \in Assignments(names) |-> weight(a)])
Variables(law) == DOMAIN (CHOOSE a \in DOMAIN law : TRUE)
Support(law) == {a \in DOMAIN law : law[a] > 0}
On(a, names) == [n \in names |-> a[n]]

Marginal(law, names) ==
    Law(names, LAMBDA a : Sum(LAMBDA b : law[b], {b \in DOMAIN law : On(b, names) = a}))
Given(law, evidence) ==
    Law(Variables(law), LAMBDA a : IF \A n \in DOMAIN evidence : a[n] = evidence[n]
                                   THEN law[a] ELSE 0)
Renamed(law, old, new) ==
    LET names == (Variables(law) \ {old}) \cup {new}
    IN  Law(names, LAMBDA a : law[[n \in Variables(law) |-> a[IF n = old THEN new ELSE n]]])

-----------------------------------------------------------------------------
(* Joints.  One built from a support has rows, an independent or            *)
(* conditional one marginals: a marginal of one value is definite.          *)

Joint(kind, names, rows, marginals) ==
    [kind |-> kind, names |-> names, rows |-> rows, marginals |-> marginals]
IsJoint == value.kind \in {"law", "independent", "conditional", "projected", "conditioned"}

Sorted(names) == SetToSortSeq(DOMAIN names, LAMBDA i, j : names[i] < names[j])
Selected(xs, positions) == [i \in DOMAIN positions |-> xs[positions[i]]]
Position(names, n) == CHOOSE i \in DOMAIN names : names[i] = n
Total(rows) == FoldLeft(LAMBDA sum, row : sum + row[2], 0, rows)

Reduced(rows) ==
    LET weights == Lowest([i \in DOMAIN rows |-> rows[i][2]])
    IN  [i \in DOMAIN rows |-> <<rows[i][1], weights[i]>>]

(* Wrong on purpose: rows are told apart by their first value.              *)
BrokenMerged(rows) ==
    FoldLeft(LAMBDA merged, row :
                 IF \E i \in DOMAIN merged : merged[i][1][1] = row[1][1]
                 THEN LET i == CHOOSE i \in DOMAIN merged : merged[i][1][1] = row[1][1]
                      IN  [merged EXCEPT ![i][2] = @ + row[2]]
                 ELSE Append(merged, row),
             <<>>, rows)

(* Rows that are equal become one, in the order of their first appearance.  *)
Merged(rows) ==
    FoldLeft(LAMBDA merged, row :
                 IF \E i \in DOMAIN merged : merged[i][1] = row[1]
                 THEN LET i == CHOOSE i \in DOMAIN merged : merged[i][1] = row[1]
                      IN  [merged EXCEPT ![i][2] = @ + row[2]]
                 ELSE Append(merged, row),
             <<>>, rows)

BuildFinite(kind, names, rows) ==
    LET order == Sorted(names)
        columns == [i \in DOMAIN rows |-> <<Selected(rows[i][1], order), rows[i][2]>>]
    IN  Joint(kind, Selected(names, order), Reduced(Merged(columns)), <<>>)
Build(kind, names, marginals) ==
    LET order == Sorted(names)
    IN  Joint(kind, Selected(names, order), <<>>, Selected(marginals, order))

Capable(joint) == joint.kind # "conditional"

Project(joint, names) ==
    LET positions == [i \in DOMAIN names |-> Position(joint.names, names[i])]
    IN  IF joint.rows = <<>> THEN Build("projected", names, Selected(joint.marginals, positions))
        ELSE BuildFinite("projected", names,
                 [i \in DOMAIN joint.rows |->
                     <<Selected(joint.rows[i][1], positions), joint.rows[i][2]>>])

Possible(joint, n, x) ==
    LET p == Position(joint.names, n)
    IN  IF joint.rows = <<>> THEN joint.marginals[p] = <<<<x, Unit>>>>
        ELSE \E i \in DOMAIN joint.rows : joint.rows[i][1][p] = x
Conditioned(joint, n, x) ==
    LET p == Position(joint.names, n)
    IN  IF joint.rows = <<>> THEN [joint EXCEPT !.kind = "conditioned"]
        ELSE BuildFinite("conditioned", joint.names,
                         SelectSeq(joint.rows, LAMBDA row : row[1][p] = x))

(* A renamed joint is built anew, from its support or as an independent     *)
(* one: also where it was conditional.                                      *)
Rename(joint, old, new) ==
    LET names == [i \in DOMAIN joint.names |-> IF joint.names[i] = old THEN new ELSE joint.names[i]]
    IN  IF joint.rows = <<>> THEN Build("independent", names, joint.marginals)
        ELSE BuildFinite("law", names, joint.rows)

-----------------------------------------------------------------------------
(* Kernels: a row of chances for each tuple of their inputs.                *)

Product(numbers) == FoldLeft(LAMBDA product, n : product * n, 1, numbers)
Sizes(domains) == [i \in DOMAIN domains |-> Len(domains[i])]
IndexIn(domain, x) == (CHOOSE i \in DOMAIN domain : domain[i] = x) - 1

(* The tuple of a row: its number's digits, the last input's the lowest.    *)
TupleAt(domains, row) ==
    [i \in DOMAIN domains |->
        LET digit == (row \div Product(Sizes(SubSeq(domains, i + 1, Len(domains)))))
                         % Len(domains[i])
        IN  domains[i][digit + 1]]

RowOf(domains, tuple) ==
    FoldLeft(LAMBDA row, i : row * Len(domains[i]) + IndexIn(domains[i], tuple[i]), 0,
             [i \in DOMAIN domains |-> i])

(* Chances are proportions of the kernel's unit, the same in all its rows.  *)
Kernel(inputs, output, rows, unit, means) ==
    [inputs |-> inputs, output |-> output, rows |-> rows, unit |-> unit, means |-> means]
RowSum(row) == FoldLeft(LAMBDA sum, w : sum + w, 0, row)

CallbackRow(tuple, output) == [j \in DOMAIN output |-> Chance[tuple][output[j]]]
TuplesOf(domains) == {TupleAt(domains, i) : i \in 0 .. Product(Sizes(domains)) - 1}

Composed(later, earlier) ==
    LET Cell(i, k) == RowSum([j \in DOMAIN earlier.output |->
                                  earlier.rows[i][j] * later.rows[j][k]])
        Mean(tuple, x) == Sum(LAMBDA y : earlier.means[tuple][y] * later.means[<<y>>][x], Outcomes)
    IN  Kernel(earlier.inputs, later.output,
               [i \in DOMAIN earlier.rows |-> [k \in DOMAIN later.output |-> Cell(i, k)]],
               later.unit * earlier.unit,
               [tuple \in DOMAIN earlier.means |-> [x \in Outcomes |-> Mean(tuple, x)]])

-----------------------------------------------------------------------------
(* Networks.                                                                *)

Firsts(xs) ==
    FoldLeft(LAMBDA seen, x : IF Contains(seen, x) THEN seen ELSE Append(seen, x), <<>>, xs)

(* The values of a root in the order they appear in, those of no weight     *)
(* left out.                                                                *)
RootDomains(joint) ==
    [p \in DOMAIN joint.names |->
        IF joint.rows = <<>>
        THEN Firsts([i \in DOMAIN joint.marginals[p] |-> joint.marginals[p][i][1]])
        ELSE Firsts([i \in DOMAIN joint.rows |-> joint.rows[i][1][p]])]

Node(name, parents, kernel) == [name |-> name, parents |-> parents, kernel |-> kernel]
AllNames(root, nodes) == root.names \o [i \in DOMAIN nodes |-> nodes[i].name]
AllDomains(root, nodes) == RootDomains(root) \o [i \in DOMAIN nodes |-> nodes[i].kernel.output]

WellFormed(root, nodes) ==
    LET names == AllNames(root, nodes)
        domains == AllDomains(root, nodes)
    IN  /\ IsInjective(names)
        /\ \A i \in DOMAIN nodes :
              /\ Len(nodes[i].parents) = Len(nodes[i].kernel.inputs)
              /\ IsInjective(nodes[i].parents)
              /\ \A j \in DOMAIN nodes[i].parents :
                    /\ Contains(names, nodes[i].parents[j])
                    /\ domains[Position(names, nodes[i].parents[j])] = nodes[i].kernel.inputs[j]

(* The first node whose parents are all placed goes next; where there is    *)
(* none, nodes depend on one another.                                       *)
Ready(root, nodes, order) ==
    {i \in DOMAIN nodes : ~Contains(order, i) /\ \A j \in DOMAIN nodes[i].parents :
        \/ Contains(root.names, nodes[i].parents[j])
        \/ \E k \in DOMAIN order : nodes[order[k]].name = nodes[i].parents[j]}
Ordered(root, nodes) ==
    FoldLeft(LAMBDA order, i : IF Ready(root, nodes, order) = {} THEN order
                               ELSE Append(order, Min(Ready(root, nodes, order))),
             <<>>, nodes)

Network(root, nodes, order) ==
    [kind |-> "network", root |-> root, nodes |-> nodes, order |-> order]

(* What a network means: the chance of each node given its parents.         *)
NetworkLaw(law, nodes) ==
    LET names == Variables(law) \cup {nodes[i].name : i \in DOMAIN nodes}
        Tuple(a, node) == [j \in DOMAIN node.parents |-> a[node.parents[j]]]
        Of(a, node) == IF Tuple(a, node) \in DOMAIN node.kernel.means
                       THEN node.kernel.means[Tuple(a, node)][a[node.name]] ELSE 0
    IN  Law(names, LAMBDA a : law[On(a, Variables(law))]
                                * Product([i \in DOMAIN nodes |-> Of(a, nodes[i])]))

(* Inference: the root's rows, or all combinations of its marginals, each   *)
(* a function of the names it has a value for.                              *)
Combinations(joint) ==
    FoldLeft(LAMBDA rows, p :
                 FlattenSeq([r \in DOMAIN rows |->
                     [c \in DOMAIN joint.marginals[p] |->
                         <<Append(rows[r][1], joint.marginals[p][c][1]),
                           rows[r][2] * joint.marginals[p][c][2]>>]]),
             <<<<<<>>, 1>>>>, [p \in DOMAIN joint.marginals |-> p])
RootRows(joint) == IF joint.rows = <<>> THEN Combinations(joint) ELSE joint.rows

(* A row, extended by a node: one row for each value that has a chance.     *)
Expanded(root, nodes, order) ==
    LET ParentValue(row, placed, n) ==
            row[Position(root.names \o [i \in DOMAIN placed |-> nodes[placed[i]].name], n)]
        Extend(row, placed, node) ==
            LET tuple == [j \in DOMAIN node.parents |->
                             ParentValue(row[1], placed, node.parents[j])]
                chances == node.kernel.rows[RowOf(node.kernel.inputs, tuple) + 1]
            IN  SelectSeq([k \in DOMAIN chances |->
                              <<Append(row[1], node.kernel.output[k]), row[2] * chances[k]>>],
                          LAMBDA r : r[2] > 0)
    IN  FoldLeft(LAMBDA rows, k : FlattenSeq([r \in DOMAIN rows |->
                     Extend(rows[r], SubSeq(order, 1, k - 1), nodes[order[k]])]),
                 RootRows(root), [k \in DOMAIN order |-> k])

(* The rows that agree with the evidence, grouped by what is asked for.     *)
Inferred(network, query, evidence) ==
    LET names == network.root.names
                 \o [k \in DOMAIN network.order |-> network.nodes[network.order[k]].name]
        Agrees(row) == \A n \in DOMAIN evidence : row[1][Position(names, n)] = evidence[n]
        rows == SelectSeq(Expanded(network.root, network.nodes, network.order), Agrees)
        asked == [i \in DOMAIN query |-> Position(names, query[i])]
    IN  Joint("law", query,
              Reduced(Merged([r \in DOMAIN rows |-> <<Selected(rows[r][1], asked), rows[r][2]>>])),
              <<>>)

-----------------------------------------------------------------------------
(* Operations.  One that is refused computes nothing, and is no step.       *)

NoValue == [kind |-> "none"]
JTInit == value = NoValue /\ meaning = NoLaw /\ kernels = {} /\ steps = 0

Step == steps < MaxOperations /\ steps' = steps + 1
Yields(v, law) == value' = v /\ meaning' = law /\ UNCHANGED kernels

Lists(set, length) == {names \in [1 .. length -> set] : IsInjective(names)}

JointBuildFinite(names, table) ==
    /\ Step /\ value = NoValue
    /\ \A i \in DOMAIN table : Len(table[i][1]) = Len(names) /\ table[i][2] > 0
    /\ Total(table) = Unit
    /\ Yields(BuildFinite("law", names, table),
                Law(ToSet(names), LAMBDA a :
                    Total(SelectSeq(table, LAMBDA row : row[1] = [i \in DOMAIN names |-> a[names[i]]]))))

ProductLaw(names, marginals) ==
    Law(ToSet(names), LAMBDA a : Product([i \in DOMAIN names |->
        Total(SelectSeq(marginals[i], LAMBDA choice : choice[1] = a[names[i]]))]))
JointBuild(kind, names, marginals) ==
    /\ Step /\ value = NoValue
    /\ Yields(Build(kind, names, marginals),
                IF kind = "conditional" THEN NoLaw ELSE ProductLaw(names, marginals))

JointProject(names) ==
    /\ Step /\ IsJoint /\ Capable(value)
    /\ ToSet(names) \subseteq ToSet(value.names)
    /\ Yields(Project(value, names),
                IF meaning = NoLaw THEN NoLaw ELSE Marginal(meaning, ToSet(names)))

(* Evidence is a map, applied name by name in the order of its entries.     *)
ConditionMap(entries) ==
    FoldLeft(LAMBDA joint, entry :
                 IF joint # NoValue /\ Possible(joint, entry[1], entry[2])
                 THEN Conditioned(joint, entry[1], entry[2]) ELSE NoValue,
             value, entries)
JointConditionMap(entries) ==
    /\ Step /\ IsJoint /\ Capable(value)
    /\ \A i \in DOMAIN entries : Contains(value.names, entries[i][1])
    /\ ConditionMap(entries) # NoValue
    /\ Yields(ConditionMap(entries),
                IF meaning = NoLaw THEN NoLaw
                ELSE Given(meaning, [n \in {entries[i][1] : i \in DOMAIN entries} |->
                         entries[CHOOSE i \in DOMAIN entries : entries[i][1] = n][2]]))

JointRename(old, new) ==
    /\ Step /\ IsJoint
    /\ Contains(value.names, old) /\ ~Contains(value.names, new)
    /\ Yields(Rename(value, old, new),
                IF meaning = NoLaw THEN NoLaw ELSE Renamed(meaning, old, new))

(* A draw takes one row; marginals are given as they are.                   *)
JointSample ==
    /\ Step /\ IsJoint /\ Capable(value)
    /\ \E tuple \in IF value.rows = <<>> THEN {value.marginals}
                    ELSE {value.rows[i][1] : i \in DOMAIN value.rows} :
          Yields([kind |-> "sampled", names |-> value.names,
                    definite |-> value.rows # <<>>, of |-> tuple], meaning)

(* A support of one row; marginals count as definite also where they are    *)
(* possibilities.                                                           *)
JointResolve ==
    /\ Step /\ IsJoint /\ Capable(value) /\ Len(value.rows) <= 1
    /\ Yields([kind |-> "resolved", names |-> value.names,
                 definite |-> value.rows # <<>>,
                 of |-> IF value.rows = <<>> THEN value.marginals ELSE value.rows[1][1]],
                meaning)

(* Nothing of a joint goes into a kernel: they are built first.             *)
NewKernel(kernel) ==
    /\ value = NoValue /\ Cardinality(kernels) < MaxKernels
    /\ kernels' = kernels \cup {kernel}
    /\ UNCHANGED <<value, meaning>>

CoreKernel(inputs, output) ==
    /\ Step
    /\ \A tuple \in TuplesOf(inputs) : RowSum(CallbackRow(tuple, output)) = Unit
    /\ NewKernel(Kernel(inputs, output,
           [i \in 1 .. Product(Sizes(inputs)) |-> CallbackRow(TupleAt(inputs, i - 1), output)],
           Unit, [tuple \in TuplesOf(inputs) |-> Chance[tuple]]))

IdentityKernel(domain) ==
    /\ Step
    /\ NewKernel(Kernel(<<domain>>, domain,
           [i \in DOMAIN domain |-> [j \in DOMAIN domain |-> IF i = j THEN 1 ELSE 0]],
           1, [tuple \in {<<x>> : x \in ToSet(domain)} |->
                  [x \in Outcomes |-> IF tuple = <<x>> THEN 1 ELSE 0]]))

ComposeKernels(later, earlier) ==
    /\ Step
    /\ later.inputs = <<earlier.output>>
    /\ NewKernel(Composed(later, earlier))

(* Only a law of a support, or of marginals, may be a root: not a projected *)
(* or conditioned one.                                                      *)
CoreNetwork(nodes) ==
    /\ Step /\ value.kind \in {"law", "independent"}
    /\ WellFormed(value, nodes)
    /\ Len(Ordered(value, nodes)) = Len(nodes)
    /\ Yields(Network(value, nodes, Ordered(value, nodes)),
                IF meaning = NoLaw THEN NoLaw ELSE NetworkLaw(meaning, nodes))

CoreInfer(query, evidence) ==
    /\ Step /\ value.kind = "network"
    /\ ToSet(query) \cup DOMAIN evidence \subseteq ToSet(AllNames(value.root, value.nodes))
    /\ Inferred(value, query, evidence).rows # <<>>
    /\ Yields(Inferred(value, query, evidence),
                IF meaning = NoLaw THEN NoLaw
                ELSE Marginal(Given(meaning, evidence), ToSet(query)))

NewNames == Names \ ToSet(value.names)
Nodes == UNION {{Node(n, parents, k) : n \in NewNames, parents \in Lists(Names, Len(k.inputs))} :
                    k \in kernels}
EvidenceMaps == UNION {[names -> Outcomes] : names \in {{}} \cup {{n} : n \in Names}}

JTNext ==
    \/ \E names \in Lists(Names, 1) \cup Lists(Names, 2), table \in Tables :
          JointBuildFinite(names, table)
    \/ \E kind \in {"independent", "conditional"}, names \in Lists(Names, 2),
          marginals \in [1 .. 2 -> Marginals] : JointBuild(kind, names, marginals)
    \/ \E names \in Lists(Names, 1) \cup Lists(Names, 2) : JointProject(names)
    \/ \E n, m \in Names, x, y \in Outcomes :
          JointConditionMap(IF n = m THEN <<<<n, x>>>> ELSE <<<<n, x>>, <<m, y>>>>)
    \/ \E old, new \in Names : JointRename(old, new)
    \/ JointSample \/ JointResolve
    \/ \E shape \in Shapes : CoreKernel(shape[1], shape[2]) \/ IdentityKernel(shape[2])
    \/ \E later, earlier \in kernels : ComposeKernels(later, earlier)
    \/ value.kind \in {"law", "independent"} /\
          \E nodes \in [1 .. 1 -> Nodes] \cup [1 .. 2 -> Nodes] : CoreNetwork(nodes)
    \/ \E query \in Lists(Names, 1) \cup Lists(Names, 2), evidence \in EvidenceMaps :
          CoreInfer(query, evidence)

JTSpec == JTInit /\ [][JTNext]_JTvars

-----------------------------------------------------------------------------
(* Properties.                                                              *)

(* The law a joint states, read from its rows or its marginals.             *)
Stated(joint) ==
    IF joint.rows = <<>> THEN ProductLaw(joint.names, joint.marginals)
    ELSE Law(ToSet(joint.names), LAMBDA a :
             Total(SelectSeq(joint.rows, LAMBDA row : row[1] = [i \in DOMAIN joint.names |-> a[joint.names[i]]])))

(* However a joint was reached, by projections, conditions, renamings and   *)
(* inference in any order, it states the law its history defines, with      *)
(* each assignment in one row; the rows of a kernel are found under the     *)
(* tuples they were computed for; and what is sampled or resolved is        *)
(* possible (joint_build_finite, joint_project, joint_condition,            *)
(* joint_rename, core_kernel, core_kernel_compose, core_network,            *)
(* core_infer, joint_sample, joint_resolve).                                *)
LawsExact ==
    /\ IsJoint /\ meaning # NoLaw =>
          /\ Stated(value) = meaning
          /\ \A i, j \in DOMAIN value.rows : value.rows[i][1] = value.rows[j][1] => i = j
    /\ \A k \in kernels : \A tuple \in DOMAIN k.means : \A j \in DOMAIN k.output :
          k.rows[RowOf(k.inputs, tuple) + 1][j] = k.means[tuple][k.output[j]]
    /\ (value.kind \in {"sampled", "resolved"} /\ value.definite /\ meaning # NoLaw) =>
          LET drawn == [n \in ToSet(value.names) |-> value.of[Position(value.names, n)]]
          IN  /\ drawn \in Support(meaning)
              /\ value.kind = "resolved" => Support(meaning) = {drawn}
=============================================================================
