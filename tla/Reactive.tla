------------------------------ MODULE Reactive ------------------------------
(* Live Information in one VM: roots, the values derived from them, and the *)
(* transaction that recomputes what an observation affects. A value stands  *)
(* for the expression it came from, so that two values are equal only if    *)
(* the same operations were applied to the same contents of the roots.      *)
EXTENDS Naturals, Sequences, FiniteSets

CONSTANTS
    ReactiveRoots, \* live Information roots
    Derived,       \* values derived from them by pure operations
    Places,        \* registers of the frames, containers, registered names
    Suspended,     \* registers of generators and futures that do not run
    NoNode,        \* no node, or a plain value: none of the above
    MaxVmRevision  \* bound on the revisions of the VM

VARIABLES
    held,       \* the node of the value in a place, suspended ones included
    dependency, \* what a node depends on, NoNode before it is made
    inputs,     \* the two operands of a derived node, NoNode for a constant
    current,    \* the contents of a node
    version,    \* the revision they are of
    born,       \* the revision a node was made at, for the properties
    history,    \* the contents of earlier revisions
    vmRevision, \* the VM's revision
    list,       \* the observation's nodes, inputs first; empty for none
    staged,     \* the root, and for the first nodes their new contents in a tuple,
                \* an empty one if unaffected
    published   \* how many of them are published, NoNode while staging

ASSUME NodesAreLive ==
    /\ NoNode \notin ReactiveRoots \cup Derived /\ NoNode \notin Nat
    /\ IsFiniteSet(ReactiveRoots \cup Derived) /\ ReactiveRoots \cap Derived = {}

RXvars == <<held, dependency, inputs, current, version, born, history, vmRevision,
            list, staged, published>>

Live == ReactiveRoots \cup Derived
Made(n) == dependency[n] # NoNode
Inputs(n) == {inputs[n][1], inputs[n][2]} \ {NoNode}
Observing == list # <<>>

RXInit ==
    /\ held = [p \in Places \cup Suspended |-> NoNode]
    /\ dependency = [n \in Live |-> NoNode]
    /\ inputs = [n \in Live |-> <<NoNode, NoNode>>]
    /\ current = [n \in Live |-> <<>>]
    /\ version = [n \in Live |-> 0]
    /\ born = [n \in Live |-> 0]
    /\ history = [n \in Live |-> <<>>]
    /\ vmRevision = 0
    /\ list = <<>> /\ staged = <<>> /\ published = NoNode

Hold(p, n) == held' = [held EXCEPT ![p] = n]

Make(n, dep, ins, value) ==
    /\ ~Observing /\ ~Made(n)
    /\ dependency' = [dependency EXCEPT ![n] = dep]
    /\ inputs' = [inputs EXCEPT ![n] = ins]
    /\ current' = [current EXCEPT ![n] = value]
    /\ version' = [version EXCEPT ![n] = vmRevision]
    /\ born' = [born EXCEPT ![n] = vmRevision]
    /\ UNCHANGED <<history, vmRevision, list, staged, published>>

(* A root takes the dependency of the possibility or the paths it is made   *)
(* from, which several roots may share, or else a new one.                  *)
Root(p, n, dep) ==
    /\ dep <= 1 + Cardinality({dependency[m] : m \in ReactiveRoots} \ {NoNode})
    /\ Make(n, dep, <<NoNode, NoNode>>, <<0>>)
    /\ Hold(p, n)

Contents(n, value) == IF n = NoNode THEN <<0>> ELSE value[n]

Apply(l, r) == <<l, r>>

(* reactive_derived_value: the operands must share their dependency.        *)
Derive(p, n, l, r) ==
    /\ {held[l], IF r = NoNode THEN NoNode ELSE held[r]} # {NoNode}
    /\ LET left == held[l]
           right == IF r = NoNode THEN NoNode ELSE held[r]
           deps == {dependency[m] : m \in {left, right} \ {NoNode}}
       IN  /\ Cardinality(deps) = 1
           /\ Make(n, CHOOSE d \in deps : TRUE, <<left, right>>,
                   Apply(Contents(left, current), Contents(right, current)))
    /\ Hold(p, n)

(* A generator or a future is made with copies of registers, and runs with  *)
(* them later.                                                              *)
Suspend(p, s) ==
    /\ ~Observing /\ held[p] # NoNode /\ held[s] = NoNode
    /\ Hold(s, held[p])
    /\ UNCHANGED <<dependency, inputs, current, version, born, history, vmRevision,
                   list, staged, published>>

Resume(s, p) ==
    /\ ~Observing /\ held[s] # NoNode
    /\ held' = [held EXCEPT ![p] = held[s], ![s] = NoNode]
    /\ UNCHANGED <<dependency, inputs, current, version, born, history, vmRevision,
                   list, staged, published>>

Drop(p) ==
    /\ ~Observing /\ held[p] # NoNode
    /\ Hold(p, NoNode)
    /\ UNCHANGED <<dependency, inputs, current, version, born, history, vmRevision,
                   list, staged, published>>

-----------------------------------------------------------------------------
(* An observation.                                                          *)

(* reactive_collect_value, over frames, containers, the result and the      *)
(* registered names: what suspended frames hold is not looked at.           *)
Collected ==
    {n \in Live : \A S \in SUBSET Live :
        (\A p \in Places : held[p] # NoNode => held[p] \in S)
            /\ (\A m \in S : Inputs(m) \subseteq S) => n \in S}

(* Inputs before what is derived from them: reactive_list_add.              *)
Topological(s) ==
    \A i \in 1..Len(s) : \A m \in Inputs(s[i]) : \E j \in 1..(i - 1) : s[j] = m

Orders(S) ==
    {s \in [1..Cardinality(S) -> S] :
        /\ {s[i] : i \in DOMAIN s} = S /\ Topological(s)
        /\ \A i, j \in DOMAIN s : s[i] = s[j] => i = j}

(* The registers are gone through in their order: any one that is           *)
(* topological will do.                                                     *)
ObserveRoot(n) ==
    /\ ~Observing
    /\ vmRevision < MaxVmRevision
    /\ n \in ReactiveRoots /\ n \in {held[p] : p \in Places}
    /\ list' \in Orders(Collected)
    /\ staged' = <<n>>
    /\ UNCHANGED <<held, dependency, inputs, current, version, born, history, vmRevision,
                   published>>

Target == staged[1]
Position(m) == CHOOSE i \in 1..Len(list) : list[i] = m

(* staged holds the root and then what was staged, node for node.           *)
Staged(m) == staged[Position(m) + 1]
Affected(m) == Staged(m) # <<>>

Operand(m) ==
    IF m # NoNode /\ Affected(m) THEN Staged(m)[1] ELSE Contents(m, current)

(* The root takes what the evidence leaves of it, the others are applied to *)
(* their staged operands.                                                   *)
StagedNow(n) ==
    IF n = Target THEN <<<<vmRevision + 1>>>>
    ELSE IF \E m \in Inputs(n) : Affected(m)
         THEN <<Apply(Operand(inputs[n][1]), Operand(inputs[n][2]))>>
         ELSE <<>>

Stage ==
    /\ Observing /\ published = NoNode /\ Len(staged) <= Len(list)
    /\ staged' = Append(staged, StagedNow(list[Len(staged)]))
    /\ UNCHANGED <<held, dependency, inputs, current, version, born, history, vmRevision,
                   list, published>>

Idle == list' = <<>> /\ staged' = <<>> /\ published' = NoNode

(* An operation fails, or there is no room for the result or the history.   *)
ObserveFails ==
    /\ Observing /\ published = NoNode
    /\ Idle
    /\ UNCHANGED <<held, dependency, inputs, current, version, born, history, vmRevision>>

(* Every history has room: from here on nothing fails.                      *)
Admit ==
    /\ Observing /\ published = NoNode /\ Len(staged) = Len(list) + 1
    /\ published' = 0
    /\ UNCHANGED <<held, dependency, inputs, current, version, born, history, vmRevision,
                   list, staged>>

(* Wrong on purpose: the old contents are filed under the new revision.     *)
BrokenVersion(n) == [revision |-> vmRevision + 1, value |-> current[n]]

Version(n) == [revision |-> version[n], value |-> current[n]]

PublishNext ==
    /\ Observing /\ published # NoNode
    /\ published < Len(list)
    /\ published' = published + 1
    /\ LET n == list[published + 1]
       IN  IF Affected(n)
           THEN /\ history' = [history EXCEPT ![n] = Append(@, Version(n))]
                /\ current' = [current EXCEPT ![n] = Staged(n)[1]]
                /\ version' = [version EXCEPT ![n] = vmRevision + 1]
           ELSE UNCHANGED <<history, current, version>>
    /\ UNCHANGED <<held, dependency, inputs, born, vmRevision, list, staged>>

Published ==
    /\ Observing /\ published = Len(list)
    /\ vmRevision' = vmRevision + 1
    /\ Idle
    /\ UNCHANGED <<held, dependency, inputs, current, version, born, history>>

(* A joint that is not live is observed: only the revision moves.           *)
ObservePlain ==
    /\ ~Observing /\ vmRevision < MaxVmRevision
    /\ vmRevision' = vmRevision + 1
    /\ UNCHANGED <<held, dependency, inputs, current, version, born, history,
                   list, staged, published>>

RXNext ==
    \/ \E p \in Places, n \in ReactiveRoots, dep \in 1..Cardinality(ReactiveRoots) :
          Root(p, n, dep)
    \/ \E p, l \in Places, n \in Derived, r \in Places \cup {NoNode} : Derive(p, n, l, r)
    \/ \E p \in Places, s \in Suspended : Suspend(p, s) \/ Resume(s, p)
    \/ \E p \in Places : Drop(p)
    \/ \E n \in ReactiveRoots : ObserveRoot(n)
    \/ Stage
    \/ ObserveFails
    \/ Admit
    \/ PublishNext
    \/ Published
    \/ ObservePlain

RXSpec == RXInit /\ [][RXNext]_RXvars

-----------------------------------------------------------------------------
(* Properties.                                                              *)

Derivable == {n \in Derived : Made(n) /\ \E p \in DOMAIN held : held[p] = n}

(* Outside an observation every derived value the program holds is what its *)
(* operation makes of its operands' present contents: an observation that   *)
(* failed left all as it was, one that succeeded recomputed all of them.    *)
DerivedCurrent ==
    ~Observing =>
        \A n \in Derivable :
            current[n] = Apply(Contents(inputs[n][1], current), Contents(inputs[n][2], current))

(* What a node was at a revision.                                           *)
ContentsAt(n, r) ==
    IF n = NoNode THEN <<0>>
    ELSE IF version[n] <= r THEN current[n]
    ELSE LET past == {i \in 1..Len(history[n]) : history[n][i].revision <= r}
         IN  IF past = {} THEN NoNode
             ELSE history[n][CHOOSE i \in past : \A j \in past : j <= i].value

(* The histories tell one story: at every revision since it was made a      *)
(* derived value was what its operation made of its operands' contents at   *)
(* that same revision.                                                      *)
HistoryAgrees ==
    ~Observing =>
        \A n \in Derivable :
            \A r \in born[n]..vmRevision :
                ContentsAt(n, r) =
                    Apply(ContentsAt(inputs[n][1], r), ContentsAt(inputs[n][2], r))
=============================================================================
