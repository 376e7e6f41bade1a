--------------------------- MODULE CollectorProofs --------------------------
(***************************************************************************)
(* Theorems about Collector, for any finite heap, arena and registers.     *)
(***************************************************************************)
EXTENDS Collector, FiniteSetTheorems, TLAPS

-----------------------------------------------------------------------------
(* The inductive invariant. *)

Phases == {"Idle", "Register", "Trace", "Classify", "Promote", "Remember", "Sweep",
           "Release", "Done"}

TypeOK ==
    /\ heap \in SUBSET Nodes /\ kids \in [Nodes -> SUBSET Nodes]
    /\ regs \in [Regs -> Nodes \cup {None}]
    /\ root \in [Nodes -> {"none", "live", "retired"}]
    /\ young \in SUBSET Nodes /\ remembered \in SUBSET Nodes
    /\ phase \in Phases /\ major \in BOOLEAN /\ stale \in BOOLEAN
    /\ pinned \in SUBSET Nodes /\ slotless \in SUBSET Nodes /\ left \in SUBSET pinned
    /\ edges \in [Nodes -> SUBSET Nodes] /\ incoming \in [Nodes -> Nat]
    /\ live \in SUBSET Nodes /\ doomed \in SUBSET Nodes /\ lost \in SUBSET Nodes

(* What the program can reach exists, and what was given up leads nowhere. *)
HeapClosed ==
    /\ Reachable \subseteq heap
    /\ \A n \in Nodes \ heap : kids[n] = {}

(* The nodes a routine collection has done with, and is to release. *)
Swept ==
    CASE phase = "Sweep" -> (pinned \ left) \ live
      [] phase = "Release" -> left \ live
      [] OTHER -> {}
SweptAside == lost = {} => \A n \in Swept : n \notin Reachable /\ kids[n] = {}

(* What has been made since a routine collection began is young. *)
NewbornYoung ==
    phase \in {"Register", "Trace", "Classify"} =>
        (heap \ pinned) \cup (slotless \cap heap) \subseteq young

(* A minor collection finds every old node live. *)
OldKept ==
    ~major => /\ phase = "Classify" => (pinned \ left) \ live \subseteq young \cup (Nodes \ heap)
              /\ phase \in {"Promote", "Remember", "Sweep"} =>
                    pinned \ live \subseteq young \cup (Nodes \ heap)

(* What the trace has seen is so. *)
Traced ==
    /\ phase \in {"Trace", "Classify"} /\ ~stale =>
          \A n \in Nodes :
              edges[n] = IF n \in Tracing THEN Seen(n) ELSE {}
    /\ phase = "Register" => left = pinned /\ \A n \in Nodes : edges[n] = {}

(* The owners that the trace has counted. *)
Counted ==
    phase \in {"Trace", "Classify"} /\ ~stale =>
        \A n \in Nodes :
            incoming[n] = (IF Recorded(n) THEN 1 ELSE 0) + Count({k \in Nodes : n \in edges[k]})

(* What was garbage when the collection began is still out of reach of all *)
(* else, and on the way to be released.                                    *)
DoomedApart ==
    /\ doomed \cap Reachable = {}
    /\ Routine =>
          /\ \A n \in Nodes \ doomed : kids[n] \cap doomed = {}
          /\ doomed \cap slotless = {}
          /\ phase # "Release" => doomed \subseteq pinned
          /\ major => /\ phase = "Release" => doomed \cap heap \subseteq left
                      /\ phase # "Register" => doomed \cap live = {}

IInv ==
    /\ TypeOK /\ HeapClosed /\ SweptAside /\ NewbornYoung /\ OldKept /\ Traced
    /\ Counted /\ DoomedApart /\ GarbageGone

-----------------------------------------------------------------------------
(* Lemmas about closures. *)

LEMMA ClosureFacts ==
  ASSUME NEW S \in SUBSET Nodes, NEW f \in [Nodes -> SUBSET Nodes]
  PROVE  /\ Closure(S, f) \subseteq Nodes
         /\ S \subseteq Closure(S, f)
         /\ \A m \in Closure(S, f) : f[m] \subseteq Closure(S, f)
<1>1. Closure(S, f) \subseteq Nodes /\ S \subseteq Closure(S, f)
  BY DEF Closure
<1>2. ASSUME NEW m \in Closure(S, f), NEW n \in f[m]
      PROVE  n \in Closure(S, f)
  <2>1. n \in Nodes
    BY <1>1, <1>2
  <2>2. ASSUME NEW T \in SUBSET Nodes, S \subseteq T, \A k \in T : f[k] \subseteq T
        PROVE  n \in T
    <3>1. m \in T
      BY <2>2 DEF Closure
    <3>2. QED
      BY <1>2, <2>2, <3>1
  <2>3. QED
    BY <2>1, <2>2 DEF Closure
<1>3. QED
  BY <1>1, <1>2

LEMMA ClosureLeast ==
  ASSUME NEW S, NEW f, NEW T \in SUBSET Nodes, S \subseteq T, \A m \in T : f[m] \subseteq T
  PROVE  Closure(S, f) \subseteq T
BY DEF Closure

(* What the program can reach. *)
LEMMA ReachableFacts ==
  ASSUME TypeOK
  PROVE  /\ InRegisters \subseteq Reachable /\ LiveRoots \subseteq Reachable
         /\ Reachable \subseteq Nodes
         /\ \A m \in Reachable : kids[m] \subseteq Reachable
<1>1. InRegisters \cup LiveRoots \in SUBSET Nodes /\ kids \in [Nodes -> SUBSET Nodes]
  BY DEF TypeOK, InRegisters, LiveRoots
<1>2. QED
  BY <1>1, ClosureFacts DEF Reachable

LEMMA ReachableLeast ==
  ASSUME NEW T \in SUBSET Nodes, InRegisters \subseteq T, LiveRoots \subseteq T,
         \A m \in T : kids[m] \subseteq T
  PROVE  Reachable \subseteq T
BY ClosureLeast DEF Reachable

LEMMA ReachableLeastNext ==
  ASSUME NEW T \in SUBSET Nodes, InRegisters' \subseteq T, LiveRoots' \subseteq T,
         \A m \in T : kids'[m] \subseteq T
  PROVE  Reachable' \subseteq T
BY ClosureLeast DEF Reachable

-----------------------------------------------------------------------------
(* Every variable has its type. *)

LEMMA TypeInit == GCInit => TypeOK
<1> SUFFICES ASSUME GCInit PROVE TypeOK
  OBVIOUS
<1>1. /\ kids \in [Nodes -> SUBSET Nodes] /\ edges \in [Nodes -> SUBSET Nodes]
      /\ incoming \in [Nodes -> Nat]
      /\ root \in [Nodes -> {"none", "live", "retired"}]
      /\ regs \in [Regs -> Nodes \cup {None}]
  BY DEF GCInit
<1>2. QED
  BY <1>1 DEF GCInit, TypeOK, Phases

LEMMA ProgramTypes ==
  ASSUME TypeOK, ProgramNext
  PROVE  TypeOK'
<1> USE DEF TypeOK, Program, Bumped, Mutated, graph
<1>1. ASSUME NEW n \in Nodes, NEW r \in Regs, NEW S \in {{}} \cup {{k} : k \in InRegisters},
             New(n, r, S)
      PROVE  TypeOK'
  <2>1. S \subseteq Nodes
    BY DEF InRegisters
  <2>2. QED
    BY <1>1, <2>1 DEF New
<1>2. ASSUME NEW from \in Regs, NEW r \in Regs, NEW n \in Nodes, Get(from, r, n)
      PROVE  TypeOK'
  BY <1>2 DEF Get
<1>3. ASSUME NEW r \in Regs, Forget(r) PROVE TypeOK'
  BY <1>3 DEF Forget
<1>4. ASSUME NEW to \in Regs, NEW r \in Regs, Put(to, r) PROVE TypeOK'
  BY <1>4 DEF Put
<1>5. ASSUME NEW from \in Regs, NEW n \in Nodes, RemoveChild(from, n) PROVE TypeOK'
  BY <1>5 DEF RemoveChild
<1>6. ASSUME NEW n \in Nodes, Retain(n) \/ DropRoot(n) PROVE TypeOK'
  BY <1>6 DEF Retain, DropRoot
<1>7. QED
  BY <1>1, <1>2, <1>3, <1>4, <1>5, <1>6 DEF ProgramNext

LEMMA SliceTypes ==
  ASSUME TypeOK, SliceNext
  PROVE  TypeOK'
<1> USE DEF TypeOK, program, Phases
<1>1. CASE Roots
  BY <1>1 DEF Roots, LiveRoots
<1>2. ASSUME NEW n \in Nodes, Trace(n) PROVE TypeOK'
  <2>1. Seen(n) \subseteq Nodes /\ Found(n) \subseteq Seen(n)
    BY DEF Seen, Found
  <2>2. QED
    BY <1>2, <2>1 DEF Trace
<1>3. ASSUME NEW n \in Nodes, Classify(n) PROVE TypeOK'
  BY <1>3 DEF Classify
<1>4. CASE Mark
  <2>1. Closure(live, edges) \subseteq Nodes
    BY ClosureFacts
  <2>2. QED
    BY <1>4, <2>1 DEF Mark
<1>5. ASSUME NEW n \in Nodes, Promote(n) \/ Remember(n) PROVE TypeOK'
  BY <1>5 DEF Promote, Remember
<1>6. ASSUME NEW n \in Nodes, Sweep(n) PROVE TypeOK'
  BY <1>6 DEF Sweep
<1>7. CASE Retire
  BY <1>7 DEF Retire
<1>8. ASSUME NEW n \in Nodes, Release(n) PROVE TypeOK'
  BY <1>8 DEF Release
<1>9. CASE Finish
  BY <1>9 DEF Finish, Cleared
<1>10. CASE Go("Trace", "Classify") \/ Go("Promote", "Remember") \/ Go("Remember", "Sweep")
  BY <1>10 DEF Go
<1>11. QED
  BY <1>1, <1>2, <1>3, <1>4, <1>5, <1>6, <1>7, <1>8, <1>9, <1>10 DEF SliceNext

LEMMA TypeStep ==
  ASSUME TypeOK, [GCNext]_gcVars
  PROVE  TypeOK'
<1>1. ASSUME NEW m \in BOOLEAN, Start(m) PROVE TypeOK'
  BY <1>1 DEF TypeOK, program, Phases, Start
<1>2. CASE Abort
  BY <1>2 DEF TypeOK, program, Phases, Abort, Cleared
<1>3. ASSUME NEW m \in BOOLEAN, Full(m) PROVE TypeOK'
  <2>1. FullLive(m) \subseteq Nodes
    BY DEF FullLive, Closure
  <2>2. QED
    BY <1>3, <2>1 DEF TypeOK, Phases, Full, Cleared
<1>4. CASE UNCHANGED gcVars
  BY <1>4 DEF gcVars, program, graph, TypeOK
<1>5. QED
  BY <1>1, <1>2, <1>3, <1>4, ProgramTypes, SliceTypes DEF GCNext

-----------------------------------------------------------------------------
(* What any step of the program does to the heap and to a collection.       *)

Added == heap' \ heap

ProgramDoes ==
    /\ lost = {} /\ UNCHANGED <<phase, major, graph, lost>>
    /\ heap \subseteq heap' /\ Added \cap pinned = {}
    /\ young' = young \cup Added
    /\ doomed' = doomed \ Added
    /\ Reachable' \subseteq Reachable \cup Added
    /\ \A m \in Nodes :
          /\ kids'[m] \subseteq kids[m] \cup Reachable
          /\ kids'[m] # kids[m] => m \in Reachable \cup Added
    /\ stale /\ Routine => stale'
    /\ phase \in {"Trace", "Classify"} /\ ~stale' =>
          root' = root /\ \A m \in Tracing : Seen(m)' = Seen(m)

(* A step that makes nothing reachable. *)
LEMMA NothingReached ==
  ASSUME TypeOK, TypeOK', InRegisters' \cup LiveRoots' \subseteq Reachable,
         \A m \in Reachable : kids'[m] \subseteq Reachable
  PROVE  Reachable' \subseteq Reachable
BY ReachableFacts, ReachableLeastNext

LEMMA NewDoes ==
  ASSUME TypeOK, TypeOK', HeapClosed,
         NEW n \in Nodes, NEW r \in Regs, NEW S \in {{}} \cup {{k} : k \in InRegisters},
         New(n, r, S)
  PROVE  ProgramDoes
<1>1. /\ n \notin heap /\ n \notin pinned /\ heap' = heap \cup {n}
      /\ kids' = [kids EXCEPT ![n] = S] /\ regs' = [regs EXCEPT ![r] = n]
      /\ young' = young \cup {n} /\ doomed' = doomed \ {n}
      /\ root' = root /\ remembered' = remembered
  BY DEF New
<1>2. lost = {} /\ UNCHANGED <<phase, major, graph, lost>>
  BY DEF New, Program
<1>3. Added = {n}
  BY <1>1 DEF Added
<1>4. InRegisters \subseteq Reachable /\ LiveRoots \subseteq Reachable /\ S \subseteq Reachable
  BY ReachableFacts
<1>5. kids[n] = {} /\ n \notin Reachable
  BY <1>1 DEF HeapClosed
<1>6. \A m \in Nodes : kids'[m] = IF m = n THEN S ELSE kids[m]
  BY <1>1 DEF TypeOK
<1>7. InRegisters' \subseteq InRegisters \cup {n} /\ LiveRoots' = LiveRoots
  BY <1>1 DEF InRegisters, LiveRoots, TypeOK
<1>8. Reachable' \subseteq Reachable \cup {n}
  <2>1. \A m \in Reachable \cup {n} : kids'[m] \subseteq Reachable \cup {n}
    BY <1>4, <1>5, <1>6, ReachableFacts
  <2>2. Reachable \cup {n} \in SUBSET Nodes
    BY ReachableFacts
  <2>3. QED
    BY <1>4, <1>7, <2>1, <2>2, ReachableLeastNext
<1>9. stale /\ Routine => stale'
  BY DEF New, Bumped
<1>10. ASSUME phase \in {"Trace", "Classify"}, ~stale', NEW m \in Tracing
       PROVE  Seen(m)' = Seen(m)
  <2>1. m # n /\ m \in Nodes
    BY <1>1, <1>10 DEF Tracing, TypeOK
  <2>2. QED
    BY <1>1, <1>2, <1>6, <2>1 DEF Seen, OldClean, graph
<1>11. QED
  BY <1>1, <1>2, <1>3, <1>4, <1>5, <1>6, <1>8, <1>9, <1>10 DEF ProgramDoes

(* A write that the collection is told of, or that it has not come to. *)
LEMMA MutatedDoes ==
  ASSUME TypeOK, TypeOK', HeapClosed, NEW n \in Nodes, Mutated(n), n \in Reachable,
         lost = {}, UNCHANGED <<phase, major, graph, lost, heap, regs, root, young, doomed>>,
         NEW S \in SUBSET Nodes, S \subseteq kids[n] \cup Reachable,
         kids' = [kids EXCEPT ![n] = S]
  PROVE  ProgramDoes
<1>1. \A m \in Nodes : kids'[m] = IF m = n THEN S ELSE kids[m]
  BY DEF TypeOK
<1>2. Added = {}
  BY DEF Added
<1>3. S \subseteq Reachable
  BY ReachableFacts
<1>4. Reachable' \subseteq Reachable
  <2>1. InRegisters' = InRegisters /\ LiveRoots' = LiveRoots
    BY DEF InRegisters, LiveRoots
  <2>2. \A m \in Reachable : kids'[m] \subseteq Reachable
    BY <1>1, <1>3, ReachableFacts
  <2>3. QED
    BY <2>1, <2>2, ReachableFacts, NothingReached
<1>5. stale /\ Routine => stale'
  BY DEF Mutated, Bumped
<1>6. ASSUME phase \in {"Trace", "Classify"}, ~stale', NEW m \in Tracing
      PROVE  Seen(m)' = Seen(m)
  <2>1. Routine
    BY <1>6 DEF Routine
  <2>2. n \notin Tracing /\ n \in young
    BY <1>6, <2>1 DEF Mutated, Bumped
  <2>3. m # n /\ m \in Nodes /\ remembered' = remembered
    BY <1>6, <2>2 DEF Tracing, TypeOK, Mutated
  <2>4. QED
    BY <1>1, <2>3 DEF Seen, OldClean, graph
<1>7. QED
  BY <1>1, <1>2, <1>3, <1>4, <1>5, <1>6 DEF ProgramDoes

LEMMA ProgramStep ==
  ASSUME TypeOK, TypeOK', HeapClosed, ProgramNext
  PROVE  ProgramDoes
<1>1. ASSUME NEW n \in Nodes, NEW r \in Regs, NEW S \in {{}} \cup {{k} : k \in InRegisters},
             New(n, r, S)
      PROVE  ProgramDoes
  BY <1>1, NewDoes
<1>2. ASSUME NEW from \in Regs, NEW r \in Regs, NEW n \in Nodes,
             Get(from, r, n) \/ Forget(r)
      PROVE  ProgramDoes
  <2>1. /\ lost = {} /\ UNCHANGED <<phase, major, graph, lost>>
        /\ UNCHANGED <<heap, kids, root, young, remembered, stale, doomed>>
    BY <1>2 DEF Get, Forget, Program
  <2>2. InRegisters' \subseteq Reachable
    <3>1. CASE Get(from, r, n)
      <4>1. regs' = [regs EXCEPT ![r] = n] /\ regs[from] \in InRegisters /\ n \in kids[regs[from]]
        BY <3>1 DEF Get, InRegisters, TypeOK
      <4>2. n \in Reachable /\ InRegisters' \subseteq InRegisters \cup {n}
        BY <4>1, ReachableFacts DEF InRegisters, TypeOK
      <4>3. QED
        BY <4>2, ReachableFacts
    <3>2. CASE Forget(r)
      <4>1. InRegisters' \subseteq InRegisters
        BY <3>2 DEF Forget, InRegisters, TypeOK
      <4>2. QED
        BY <4>1, ReachableFacts
    <3>3. QED
      BY <1>2, <3>1, <3>2
  <2>3. LiveRoots' = LiveRoots
    BY <2>1 DEF LiveRoots
  <2>4. Reachable' \subseteq Reachable
    BY <2>1, <2>2, <2>3, ReachableFacts, NothingReached
  <2>5. \A m \in Nodes : Seen(m)' = Seen(m)
    BY <2>1 DEF Seen, OldClean, graph
  <2>6. Added = {} /\ \A m \in Tracing : m \in Nodes
    BY <2>1 DEF Added, Tracing, TypeOK
  <2>7. QED
    BY <2>1, <2>4, <2>5, <2>6 DEF ProgramDoes
<1>3. ASSUME NEW to \in Regs, NEW r \in Regs, Put(to, r) PROVE ProgramDoes
  <2>1. regs[to] \in InRegisters /\ regs[r] \in InRegisters /\ regs[to] \in Nodes
    BY <1>3 DEF Put, InRegisters, TypeOK
  <2>2. regs[to] \in Reachable /\ regs[r] \in Reachable
    BY <2>1, ReachableFacts
  <2>3. /\ kids' = [kids EXCEPT ![regs[to]] = kids[regs[to]] \cup {regs[r]}]
        /\ kids[regs[to]] \cup {regs[r]} \in SUBSET Nodes
        /\ kids[regs[to]] \cup {regs[r]} \subseteq kids[regs[to]] \cup Reachable
    BY <1>3, <2>1, <2>2 DEF Put, TypeOK, InRegisters
  <2>4. /\ Mutated(regs[to]) /\ lost = {}
        /\ UNCHANGED <<phase, major, graph, lost, heap, regs, root, young, doomed>>
    BY <1>3 DEF Put, Program
  <2>5. QED
    BY <2>1, <2>2, <2>3, <2>4, MutatedDoes
<1>4. ASSUME NEW from \in Regs, NEW n \in Nodes, RemoveChild(from, n) PROVE ProgramDoes
  <2>1. regs[from] \in InRegisters /\ regs[from] \in Nodes
    BY <1>4 DEF RemoveChild, InRegisters, TypeOK
  <2>2. regs[from] \in Reachable
    BY <2>1, ReachableFacts
  <2>3. /\ kids' = [kids EXCEPT ![regs[from]] = kids[regs[from]] \ {n}]
        /\ kids[regs[from]] \ {n} \in SUBSET Nodes
        /\ kids[regs[from]] \ {n} \subseteq kids[regs[from]] \cup Reachable
    BY <1>4, <2>1 DEF RemoveChild, TypeOK
  <2>4. /\ Mutated(regs[from]) /\ lost = {}
        /\ UNCHANGED <<phase, major, graph, lost, heap, regs, root, young, doomed>>
    BY <1>4 DEF RemoveChild, Program
  <2>5. QED
    BY <2>1, <2>2, <2>3, <2>4, MutatedDoes
<1>5. ASSUME NEW n \in Nodes, Retain(n) \/ DropRoot(n) PROVE ProgramDoes
  <2>1. /\ lost = {} /\ UNCHANGED <<phase, major, graph, lost>>
        /\ UNCHANGED <<heap, kids, regs, young, remembered, doomed>> /\ Bumped
    BY <1>5 DEF Retain, DropRoot, Program
  <2>2. LiveRoots' \subseteq Reachable
    <3>1. CASE Retain(n)
      <4>1. n \in Reachable /\ LiveRoots' \subseteq LiveRoots \cup {n}
        BY <3>1, ReachableFacts DEF Retain, LiveRoots, TypeOK
      <4>2. QED
        BY <4>1, ReachableFacts
    <3>2. CASE DropRoot(n)
      <4>1. LiveRoots' \subseteq LiveRoots
        BY <3>2 DEF DropRoot, LiveRoots, TypeOK
      <4>2. QED
        BY <4>1, ReachableFacts
    <3>3. QED
      BY <1>5, <3>1, <3>2
  <2>3. InRegisters' = InRegisters
    BY <2>1 DEF InRegisters
  <2>4. Reachable' \subseteq Reachable
    BY <2>1, <2>2, <2>3, ReachableFacts, NothingReached
  <2>5. phase \in {"Trace", "Classify"} => stale'
    BY <2>1 DEF Bumped, Routine
  <2>6. stale /\ Routine => stale'
    BY <2>1 DEF Bumped
  <2>7. Added = {}
    BY <2>1 DEF Added
  <2>8. QED
    BY <2>1, <2>4, <2>5, <2>6, <2>7 DEF ProgramDoes
<1>6. ASSUME NEW r \in Regs, Forget(r) PROVE ProgramDoes
  <2>1. regs[r] \in Nodes
    BY <1>6 DEF Forget, TypeOK
  <2>2. QED
    BY <1>2, <1>6, <2>1
<1>7. QED
  BY <1>1, <1>2, <1>3, <1>4, <1>5, <1>6 DEF ProgramNext

-----------------------------------------------------------------------------
(* What every step keeps. *)

(* Nothing but the program moves what it can reach, except that a node     *)
(* emptied leads nowhere any more.                                         *)
LEMMA ReachableKept ==
  ASSUME TypeOK, TypeOK', regs' = regs, LiveRoots' = LiveRoots,
         \A m \in Nodes : kids'[m] \subseteq kids[m]
  PROVE  Reachable' \subseteq Reachable
<1>1. InRegisters' = InRegisters
  BY DEF InRegisters
<1>2. QED
  BY <1>1, ReachableFacts, NothingReached

(* The steps of a routine collection up to its sweep leave the program as   *)
(* it is, but for what is young and what is remembered.                     *)
LEMMA SameReach ==
  ASSUME UNCHANGED <<kids, regs, root>>
  PROVE  Reachable' = Reachable
BY DEF Reachable, InRegisters, LiveRoots

(* The registers that hold a node, and the nodes a full trace sees it from. *)
Holders(n) == {r \in Regs : regs[r] = n}
SeenFrom(m, n) == {k \in heap : n \in FullSeen(m)[k]}

LEMMA FullHeldCounts ==
  ASSUME NEW m, NEW n
  PROVE  FullHeld(m, n) <=> \/ root[n] = "live"
                            \/ ~m /\ (n \in Arena \/ n \notin young)
                            \/ Count(Holders(n)) + Count(Parents(n)) > Count(SeenFrom(m, n))
BY DEF FullHeld, Holders, SeenFrom

LEMMA Counts ==
  ASSUME TypeOK, NEW n
  PROVE  /\ IsFiniteSet(Holders(n)) /\ IsFiniteSet(Parents(n))
         /\ Count(Holders(n)) \in Nat /\ Count(Parents(n)) \in Nat
         /\ Count(Holders(n)) = 0 <=> \A r \in Regs : regs[r] # n
<1>1. IsFiniteSet(Nodes) /\ IsFiniteSet(Regs)
  BY NodesAndRegisters
<1>2. Holders(n) \subseteq Regs /\ Parents(n) \subseteq Nodes
  BY DEF Holders, Parents, TypeOK
<1>3. IsFiniteSet(Holders(n)) /\ IsFiniteSet(Parents(n))
  BY <1>1, <1>2, FS_Subset
<1>4. Count(Holders(n)) = 0 <=> Holders(n) = {}
  BY <1>3, FS_EmptySet DEF Count
<1>5. Holders(n) = {} <=> \A r \in Regs : regs[r] # n
  BY DEF Holders
<1>6. QED
  BY <1>3, <1>4, <1>5, FS_CardinalityType DEF Count

LEMMA MoreThanSeen ==
  ASSUME NEW owners, NEW seen, IsFiniteSet(owners), seen \subseteq owners
  PROVE  /\ Count(owners) \in Nat /\ Count(seen) \in Nat
         /\ Count(seen) <= Count(owners)
         /\ Count(seen) = Count(owners) => seen = owners
<1>1. /\ IsFiniteSet(seen) /\ Cardinality(seen) <= Cardinality(owners)
      /\ Cardinality(seen) = Cardinality(owners) => seen = owners
  BY FS_Subset
<1>2. QED
  BY <1>1, FS_CardinalityType DEF Count

(* A full collection keeps what can be reached, minor or major: whatever    *)
(* holds a node is counted, and what holds it unseen keeps it alive.        *)
LEMMA FullKeepsReachable ==
  ASSUME TypeOK, HeapClosed, NEW m \in BOOLEAN
  PROVE  Reachable \subseteq FullLive(m)
<1> DEFINE H == {n \in heap : FullHeld(m, n)}
           F == FullSeen(m)
<1>1. F \in [Nodes -> SUBSET Nodes] /\ H \in SUBSET Nodes
  BY DEF FullSeen, TypeOK
<1>2. \A n \in Nodes : F[n] \subseteq kids[n]
  BY DEF FullSeen, TypeOK
<1>3. /\ FullLive(m) \subseteq Nodes /\ H \subseteq FullLive(m)
      /\ \A k \in FullLive(m) : F[k] \subseteq FullLive(m)
  BY <1>1, ClosureFacts DEF FullLive
<1>4. ASSUME NEW n \in heap
      PROVE  /\ IsFiniteSet(Parents(n)) /\ SeenFrom(m, n) \subseteq Parents(n)
             /\ Count(Holders(n)) \in Nat /\ Count(Parents(n)) \in Nat
             /\ Count(SeenFrom(m, n)) \in Nat
             /\ Count(SeenFrom(m, n)) <= Count(Parents(n))
             /\ Count(SeenFrom(m, n)) = Count(Parents(n)) => SeenFrom(m, n) = Parents(n)
  <2>1. SeenFrom(m, n) \subseteq Parents(n)
    BY <1>2 DEF SeenFrom, Parents, TypeOK
  <2>2. QED
    BY <2>1, Counts, MoreThanSeen
<1>5. InRegisters \subseteq FullLive(m)
  <2>1. SUFFICES ASSUME NEW r \in Regs, NEW n, n = regs[r], n # None
                 PROVE  n \in FullLive(m)
    BY DEF InRegisters
  <2>2. n \in heap
    BY <2>1, ReachableFacts DEF HeapClosed, InRegisters
  <2>3. Count(Holders(n)) # 0
    BY <2>1, Counts
  <2>4. Count(Holders(n)) + Count(Parents(n)) > Count(SeenFrom(m, n))
    BY <1>4, <2>2, <2>3
  <2>5. QED
    BY <1>3, <2>2, <2>4, FullHeldCounts
<1>6. LiveRoots \subseteq FullLive(m)
  BY <1>3, ReachableFacts DEF HeapClosed, LiveRoots, FullHeld
<1>7. ASSUME NEW k \in Reachable \cap FullLive(m), NEW n \in kids[k]
      PROVE  n \in Reachable \cap FullLive(m)
  <2>1. n \in Reachable /\ n \in heap /\ k \in heap
    BY <1>7, ReachableFacts DEF HeapClosed
  <2>2. CASE n \in F[k]
    BY <1>3, <1>7, <2>1, <2>2
  <2>3. CASE n \notin F[k]
    <3>1. k \in Parents(n) /\ k \notin SeenFrom(m, n)
      BY <1>7, <2>1, <2>3 DEF Parents, SeenFrom
    <3>2. Count(SeenFrom(m, n)) # Count(Parents(n))
      BY <1>4, <2>1, <3>1
    <3>3. Count(Holders(n)) + Count(Parents(n)) > Count(SeenFrom(m, n))
      BY <1>4, <2>1, <3>2
    <3>4. QED
      BY <1>3, <2>1, <3>3, FullHeldCounts
  <2>4. QED
    BY <2>2, <2>3
<1>8. QED
  BY <1>3, <1>5, <1>6, <1>7, ReachableFacts, ReachableLeast

(* A full major collection releases all the garbage there is: every owner   *)
(* of it is seen.                                                           *)
LEMMA NoMoreThanSeen ==
  ASSUME NEW held, NEW owners, NEW seen \in Nat, held = 0, owners = seen
  PROVE  ~(held + owners > seen)
OBVIOUS

LEMMA GarbageNotHeld ==
  ASSUME TypeOK, NEW m, m = TRUE, NEW n \in heap, n \notin Reachable
  PROVE  ~FullHeld(m, n)
<1>1. n \in Nodes /\ root[n] # "live" /\ \A r \in Regs : regs[r] # n
  <2>1. n \in Nodes /\ n # None
    BY NodesAndRegisters DEF TypeOK
  <2>2. n \notin LiveRoots /\ n \notin InRegisters
    BY ReachableFacts
  <2>3. QED
    BY <2>1, <2>2 DEF LiveRoots, InRegisters
<1>2. SeenFrom(m, n) = Parents(n)
  BY DEF SeenFrom, Parents, FullSeen, TypeOK
<1>3. Count(Holders(n)) = 0 /\ Count(Parents(n)) \in Nat
  BY <1>1, Counts
<1>4. Count(Parents(n)) = Count(SeenFrom(m, n))
  BY <1>2
<1>5. ~(Count(Holders(n)) + Count(Parents(n)) > Count(SeenFrom(m, n)))
  BY <1>3, <1>4, NoMoreThanSeen
<1>6. QED
  BY <1>1, <1>5, FullHeldCounts

LEMMA FullReleasesGarbage ==
  ASSUME TypeOK, NEW m, m = TRUE
  PROVE  FullLive(m) \subseteq Reachable
<1> DEFINE H == {n \in heap : FullHeld(m, n)}
           F == FullSeen(m)
<1>1. H \subseteq Reachable
  BY GarbageNotHeld
<1>2. Reachable \in SUBSET Nodes /\ \A k \in Reachable : F[k] \subseteq Reachable
  BY ReachableFacts DEF FullSeen, TypeOK
<1>3. Closure(H, F) \subseteq Reachable
  <2> HIDE DEF H, F
  <2>1. QED
    BY <1>1, <1>2, ClosureLeast
<1>4. QED
  BY <1>3 DEF FullLive

(* All the owners of garbage are garbage, and the trace has counted them.   *)
LEMMA DoomedNotHeld ==
  ASSUME TypeOK, Traced, Counted, DoomedApart, phase = "Classify", ~stale, major,
         NEW n \in doomed
  PROVE  ~HeldFromOutside(n)
<1>1. n \in Nodes /\ n \notin Reachable /\ Routine /\ n \notin slotless /\ n \in pinned
  BY DEF DoomedApart, Routine, TypeOK
<1>2. root[n] # "live" /\ \A r \in Regs : regs[r] # n
  <2>1. n # None /\ n \notin LiveRoots /\ n \notin InRegisters
    BY <1>1, ReachableFacts, NodesAndRegisters
  <2>2. QED
    BY <1>1, <2>1 DEF LiveRoots, InRegisters
<1>3. Count(Holders(n)) = 0 /\ Count(Parents(n)) \in Nat
  BY <1>2, Counts
<1>4. Parents(n) \subseteq {k \in Nodes : n \in edges[k]}
  <2>1. SUFFICES ASSUME NEW k \in heap, n \in kids[k] PROVE k \in Nodes /\ n \in edges[k]
    BY DEF Parents
  <2>2. k \in Nodes /\ k \in doomed
    BY <1>1, <2>1 DEF DoomedApart, TypeOK
  <2>3. k \in Tracing
    BY <1>1, <2>2 DEF DoomedApart, Tracing
  <2>4. edges[k] = kids[k]
    BY <2>2, <2>3 DEF Traced, Seen
  <2>5. QED
    BY <2>1, <2>2, <2>4
<1>5. /\ Count({k \in Nodes : n \in edges[k]}) \in Nat
      /\ Count(Parents(n)) <= Count({k \in Nodes : n \in edges[k]})
  <2>1. IsFiniteSet({k \in Nodes : n \in edges[k]})
    BY NodesAndRegisters, FS_Subset
  <2>2. QED
    BY <1>4, <2>1, MoreThanSeen
<1>6. incoming[n] = (IF Recorded(n) THEN 1 ELSE 0) + Count({k \in Nodes : n \in edges[k]})
  BY <1>1 DEF Counted
<1>7. References(n) = Count(Parents(n)) + (IF Recorded(n) THEN 1 ELSE 0) + 2
  <2>1. References(n) = Count(Holders(n)) + Count(Parents(n))
          + (CASE root[n] = "live" -> 2 [] root[n] = "retired" -> 1 [] OTHER -> 0)
          + 1 + (IF n \in pinned THEN 1 ELSE 0)
    BY DEF References, Holders
  <2>2. (CASE root[n] = "live" -> 2 [] root[n] = "retired" -> 1 [] OTHER -> 0)
          = IF Recorded(n) THEN 1 ELSE 0
    BY <1>1, <1>2 DEF Recorded, TypeOK
  <2>3. QED
    BY <1>1, <1>3, <2>1, <2>2
<1>8. ~(References(n) > incoming[n] + 1 + (IF n \in slotless THEN 0 ELSE 1))
  BY <1>1, <1>3, <1>5, <1>6, <1>7
<1>9. QED
  BY <1>8 DEF HeldFromOutside

-----------------------------------------------------------------------------
(* The invariant is inductive: one lemma for the program, one for each kind *)
(* of step of a collection.                                                 *)

LEMMA ProgramKeeps ==
  ASSUME IInv, TypeOK', ProgramDoes
  PROVE  IInv'
<1> USE DEF IInv
<1>1. /\ lost = {} /\ lost' = lost
      /\ UNCHANGED <<phase, major, pinned, slotless, left, edges, incoming, live>>
      /\ heap \subseteq heap' /\ Added = heap' \ heap /\ Added \cap pinned = {}
      /\ young' = young \cup Added /\ doomed' = doomed \ Added
      /\ Reachable' \subseteq Reachable \cup Added
  BY DEF ProgramDoes, graph, Added
<1>2. /\ \A m \in Nodes : kids'[m] \subseteq kids[m] \cup Reachable
      /\ \A m \in Nodes : m \notin Reachable \cup Added => kids'[m] = kids[m]
  BY DEF ProgramDoes
<1>3. /\ Routine' = Routine /\ Swept' = Swept /\ Tracing' = Tracing
      /\ Swept \subseteq pinned
  BY <1>1 DEF Routine, Swept, Tracing, TypeOK
<1>4. HeapClosed'
  BY <1>1, <1>2 DEF HeapClosed
<1>5. SweptAside'
  <2>1. \A n \in Swept : n \in Nodes /\ n \notin Reachable \cup Added /\ kids[n] = {}
    BY <1>1, <1>3 DEF SweptAside, TypeOK
  <2>2. QED
    BY <1>1, <1>2, <1>3, <2>1 DEF SweptAside
<1>6. NewbornYoung'
  BY <1>1 DEF NewbornYoung
<1>7. OldKept'
  BY <1>1 DEF OldKept, TypeOK
<1>8. Traced'
  <2>1. ASSUME phase \in {"Trace", "Classify"}, ~stale', NEW n \in Nodes
        PROVE  edges'[n] = IF n \in Tracing' THEN Seen(n)' ELSE {}
    <3>1. ~stale
      BY <2>1 DEF ProgramDoes, Routine
    <3>2. n \in Tracing => Seen(n)' = Seen(n)
      BY <2>1 DEF ProgramDoes
    <3>3. QED
      BY <1>1, <1>3, <2>1, <3>1, <3>2 DEF Traced
  <2>2. phase = "Register" => left' = pinned' /\ \A n \in Nodes : edges'[n] = {}
    BY <1>1 DEF Traced
  <2>3. QED
    BY <1>1, <2>1, <2>2 DEF Traced
<1>9. Counted'
  <2>1. ASSUME phase \in {"Trace", "Classify"}, ~stale' PROVE ~stale /\ root' = root
    BY <2>1 DEF ProgramDoes, Routine
  <2>2. QED
    BY <1>1, <2>1 DEF Counted, Recorded
<1>10. DoomedApart'
  <2>1. \A n \in Nodes \ doomed' : Routine => kids'[n] \cap doomed' = {}
    BY <1>1, <1>2 DEF DoomedApart, HeapClosed
  <2>2. doomed' \cap Reachable' = {}
    BY <1>1 DEF DoomedApart
  <2>3. QED
    BY <1>1, <1>3, <2>1, <2>2 DEF DoomedApart
<1>11. GarbageGone'
  BY <1>1 DEF GarbageGone
<1>12. QED
  BY <1>4, <1>5, <1>6, <1>7, <1>8, <1>9, <1>10, <1>11

LEMMA StartKeeps ==
  ASSUME IInv, TypeOK', NEW m \in BOOLEAN, Start(m)
  PROVE  IInv'
<1>1. /\ phase' = "Register" /\ pinned' = heap /\ left' = heap /\ slotless' = {}
      /\ edges' = [n \in Nodes |-> {}] /\ doomed' = heap \ Reachable
      /\ UNCHANGED <<heap, kids, regs, root>>
  BY DEF Start, program
<1>2. Reachable' = Reachable /\ Routine'
  BY <1>1, SameReach DEF Routine
<1>3. HeapClosed'
  BY <1>1, <1>2 DEF IInv, HeapClosed
<1>4. SweptAside' /\ NewbornYoung' /\ OldKept' /\ Traced' /\ Counted' /\ GarbageGone'
  BY <1>1 DEF SweptAside, Swept, NewbornYoung, OldKept, Traced, Counted, GarbageGone
<1>5. DoomedApart'
  <2>1. \A n \in Nodes \ doomed' : kids[n] \subseteq Reachable
    BY <1>1, ReachableFacts DEF IInv, HeapClosed
  <2>2. QED
    BY <1>1, <1>2, <2>1 DEF DoomedApart
<1>6. QED
  BY <1>3, <1>4, <1>5 DEF IInv

(* The root records are live, and the first owners that are counted. *)
LEMMA RootsKeep ==
  ASSUME IInv, TypeOK', Roots
  PROVE  IInv'
<1>1. /\ phase = "Register" /\ phase' = "Trace" /\ ~stale /\ live' = LiveRoots
      /\ incoming' = [n \in Nodes |-> IF Recorded(n) THEN 1 ELSE 0]
      /\ UNCHANGED <<heap, kids, regs, root, young, remembered, major, stale, pinned,
                     slotless, left, edges, doomed, lost>>
  BY DEF Roots, Slice, program
<1>2. Reachable' = Reachable /\ Routine /\ Routine'
  BY <1>1, SameReach DEF Routine
<1>3. HeapClosed'
  BY <1>1, <1>2 DEF IInv, HeapClosed
<1>4. SweptAside' /\ NewbornYoung' /\ OldKept' /\ GarbageGone'
  BY <1>1 DEF IInv, SweptAside, Swept, NewbornYoung, OldKept, GarbageGone
<1>5. Traced'
  BY <1>1 DEF IInv, Traced, Tracing
<1>6. Counted'
  <2>1. ASSUME NEW n \in Nodes PROVE Count({k \in Nodes : n \in edges'[k]}) = 0
    <3>1. {k \in Nodes : n \in edges'[k]} = {}
      BY <1>1 DEF IInv, Traced
    <3>2. QED
      BY <3>1, FS_EmptySet DEF Count
  <2>2. \A n \in Nodes : incoming'[n] = (IF Recorded(n)' THEN 1 ELSE 0)
    BY <1>1 DEF Recorded
  <2>3. QED
    BY <2>1, <2>2 DEF Counted, Recorded
<1>7. DoomedApart'
  BY <1>1, <1>2, ReachableFacts DEF IInv, DoomedApart
<1>8. QED
  BY <1>3, <1>4, <1>5, <1>6, <1>7 DEF IInv

(* One node is traced, and what it leads to is pinned. *)
LEMMA TraceKeeps ==
  ASSUME IInv, TypeOK', NEW n \in Nodes, Trace(n)
  PROVE  IInv'
<1>1. /\ phase = "Trace" /\ phase' = "Trace" /\ ~stale /\ n \in left /\ n \in pinned
      /\ edges' = [edges EXCEPT ![n] = Seen(n)]
      /\ incoming' = [m \in Nodes |-> incoming[m] + IF m \in Seen(n) THEN 1 ELSE 0]
      /\ pinned' = pinned \cup Found(n) /\ slotless' = slotless \cup Found(n)
      /\ left' = (left \cup Found(n)) \ {n}
      /\ UNCHANGED <<heap, kids, regs, root, young, remembered, major, stale, live,
                     doomed, lost>>
  BY DEF Trace, Slice, program, IInv, TypeOK
<1>2. Reachable' = Reachable /\ Routine /\ Routine'
  BY <1>1, SameReach DEF Routine
<1>3. Found(n) \cap pinned = {} /\ Found(n) \subseteq Seen(n) /\ left \subseteq pinned
  BY DEF Found, IInv, TypeOK
<1>4. HeapClosed'
  BY <1>1, <1>2 DEF IInv, HeapClosed
<1>5. SweptAside' /\ OldKept' /\ GarbageGone'
  BY <1>1 DEF IInv, SweptAside, Swept, OldKept, GarbageGone
<1>6. NewbornYoung'
  BY <1>1, <1>3 DEF IInv, NewbornYoung
<1>7. Tracing' = Tracing \cup {n} /\ n \notin Tracing /\ Tracing \subseteq pinned
  BY <1>1, <1>3 DEF Tracing
<1>8. edges[n] = {} /\ \A m \in Nodes : edges'[m] = IF m = n THEN Seen(n) ELSE edges[m]
  BY <1>1, <1>7 DEF IInv, Traced, TypeOK
<1>9. Traced'
  <2>1. \A m \in pinned : Seen(m)' = Seen(m)
    BY <1>1, <1>3 DEF Seen, OldClean
  <2>2. ASSUME NEW m \in Nodes
        PROVE  edges'[m] = IF m \in Tracing' THEN Seen(m)' ELSE {}
    BY <1>1, <1>7, <1>8, <2>1 DEF IInv, Traced
  <2>3. QED
    BY <1>1, <2>2 DEF Traced
<1>10. Counted'
  <2>1. ASSUME NEW m \in Nodes
        PROVE  incoming'[m] = (IF Recorded(m)' THEN 1 ELSE 0)
                                + Count({k \in Nodes : m \in edges'[k]})
    <3> DEFINE before == {k \in Nodes : m \in edges[k]}
               after == {k \in Nodes : m \in edges'[k]}
    <3>1. IsFiniteSet(before) /\ Count(before) \in Nat
      BY NodesAndRegisters, FS_Subset, FS_CardinalityType DEF Count
    <3>2. after = IF m \in Seen(n) THEN before \cup {n} ELSE before
      BY <1>8
    <3>3. n \notin before
      BY <1>8
    <3>4. Count(after) = Count(before) + IF m \in Seen(n) THEN 1 ELSE 0
      <4> HIDE DEF before, after
      <4>1. Count(before \cup {n}) = Count(before) + 1
        BY <3>1, <3>3, FS_AddElement DEF Count
      <4>2. QED
        BY <3>1, <3>2, <4>1
    <3>5. incoming[m] = (IF Recorded(m) THEN 1 ELSE 0) + Count(before)
      BY <1>1 DEF IInv, Counted
    <3>6. /\ incoming'[m] = incoming[m] + IF m \in Seen(n) THEN 1 ELSE 0
          /\ Recorded(m)' = Recorded(m)
      BY <1>1 DEF Recorded
    <3> HIDE DEF before, after
    <3>7. incoming'[m] = (IF Recorded(m)' THEN 1 ELSE 0) + Count(after)
      BY <3>1, <3>4, <3>5, <3>6
    <3>8. QED
      BY <3>7 DEF after
  <2>2. QED
    BY <2>1 DEF Counted
<1>11. DoomedApart'
  BY <1>1, <1>2, <1>3 DEF IInv, DoomedApart
<1>12. QED
  BY <1>4, <1>5, <1>6, <1>9, <1>10, <1>11 DEF IInv

LEMMA GoKeeps ==
  ASSUME IInv, TypeOK',
         Go("Trace", "Classify") \/ Go("Promote", "Remember") \/ Go("Remember", "Sweep")
  PROVE  IInv'
<1>1. /\ left = {} /\ left' = pinned
      /\ \/ phase = "Trace" /\ phase' = "Classify"
         \/ phase = "Promote" /\ phase' = "Remember"
         \/ phase = "Remember" /\ phase' = "Sweep"
      /\ UNCHANGED <<heap, kids, regs, root, young, remembered, major, stale, pinned,
                     slotless, edges, incoming, live, doomed, lost>>
  BY DEF Go, Slice, program
<1>2. Reachable' = Reachable /\ Routine /\ Routine'
  BY <1>1, SameReach DEF Routine
<1>3. HeapClosed'
  BY <1>1, <1>2 DEF IInv, HeapClosed
<1>4. Swept' = {}
  BY <1>1 DEF Swept
<1>5. SweptAside' /\ NewbornYoung' /\ OldKept' /\ GarbageGone'
  BY <1>1, <1>4 DEF IInv, SweptAside, NewbornYoung, OldKept, GarbageGone
<1>6. Traced'
  <2>1. phase' = "Classify" => Tracing' = Tracing
    BY <1>1 DEF Tracing
  <2>2. \A m \in Nodes : Seen(m)' = Seen(m)
    BY <1>1 DEF Seen, OldClean
  <2>3. QED
    BY <1>1, <2>1, <2>2 DEF IInv, Traced
<1>7. Counted'
  BY <1>1 DEF IInv, Counted, Recorded
<1>8. DoomedApart'
  BY <1>1, <1>2 DEF IInv, DoomedApart
<1>9. QED
  BY <1>3, <1>5, <1>6, <1>7, <1>8 DEF IInv

(* What has no owner outside the graph is young in a minor collection; in a *)
(* major one all the garbage is among it.                                   *)
LEMMA ClassifyKeeps ==
  ASSUME IInv, TypeOK', NEW n \in Nodes, Classify(n)
  PROVE  IInv'
<1>1. /\ phase = "Classify" /\ phase' = "Classify" /\ ~stale /\ n \in left
      /\ live' = IF HeldFromOutside(n) THEN live \cup {n} ELSE live
      /\ left' = left \ {n}
      /\ UNCHANGED <<heap, kids, regs, root, young, remembered, major, stale, pinned,
                     slotless, edges, incoming, doomed, lost>>
  BY DEF Classify, Slice, program
<1>2. Reachable' = Reachable /\ Routine /\ Routine'
  BY <1>1, SameReach DEF Routine
<1>3. HeapClosed'
  BY <1>1, <1>2 DEF IInv, HeapClosed
<1>4. SweptAside' /\ NewbornYoung' /\ GarbageGone'
  BY <1>1 DEF IInv, SweptAside, Swept, NewbornYoung, GarbageGone
<1>5. OldKept'
  <2>1. ASSUME ~major, n \notin live' PROVE n \in young \cup (Nodes \ heap)
    <3>1. n \in young \/ n \in slotless
      BY <1>1, <2>1 DEF HeldFromOutside
    <3>2. QED
      BY <1>1, <3>1 DEF IInv, NewbornYoung
  <2>2. QED
    BY <1>1, <2>1 DEF IInv, OldKept
<1>6. Traced'
  <2>1. Tracing' = Tracing /\ \A m \in Nodes : Seen(m)' = Seen(m)
    BY <1>1 DEF Tracing, Seen, OldClean
  <2>2. QED
    BY <1>1, <2>1 DEF IInv, Traced
<1>7. Counted'
  BY <1>1 DEF IInv, Counted, Recorded
<1>8. DoomedApart'
  <2>1. major => doomed \cap live' = {}
    BY <1>1, <1>2, DoomedNotHeld DEF IInv, DoomedApart
  <2>2. QED
    BY <1>1, <1>2, <2>1 DEF IInv, DoomedApart
<1>9. QED
  BY <1>3, <1>4, <1>5, <1>6, <1>7, <1>8 DEF IInv

(* What is live leads to no garbage. *)
LEMMA MarkKeeps ==
  ASSUME IInv, TypeOK', Mark
  PROVE  IInv'
<1>1. /\ phase = "Classify" /\ phase' = "Promote" /\ ~stale /\ left = {} /\ left' = pinned
      /\ live' = Closure(live, edges)
      /\ UNCHANGED <<heap, kids, regs, root, young, remembered, major, stale, pinned,
                     slotless, edges, incoming, doomed, lost>>
  BY DEF Mark, Slice, program
<1>2. Reachable' = Reachable /\ Routine /\ Routine'
  BY <1>1, SameReach DEF Routine
<1>3. HeapClosed'
  BY <1>1, <1>2 DEF IInv, HeapClosed
<1>4. SweptAside' /\ NewbornYoung' /\ GarbageGone' /\ Traced' /\ Counted'
  BY <1>1 DEF IInv, SweptAside, Swept, NewbornYoung, GarbageGone, Traced, Counted
<1>5. live \subseteq live'
  BY <1>1, ClosureFacts DEF IInv, TypeOK
<1>6. OldKept'
  BY <1>1, <1>5 DEF IInv, OldKept
<1>7. ASSUME major PROVE doomed \cap live' = {}
  <2>1. live \subseteq Nodes \ doomed
    BY <1>1, <1>2, <1>7 DEF IInv, DoomedApart, TypeOK
  <2>2. \A m \in Nodes \ doomed : edges[m] \subseteq Nodes \ doomed
    <3>1. ASSUME NEW m \in Nodes \ doomed PROVE edges[m] \subseteq kids[m]
      BY <1>1, <1>7 DEF IInv, Traced, Seen
    <3>2. QED
      BY <1>2, <3>1 DEF IInv, DoomedApart, TypeOK
  <2>3. Nodes \ doomed \in SUBSET Nodes
    OBVIOUS
  <2>4. QED
    BY <1>1, <2>1, <2>2, <2>3, ClosureLeast
<1>8. DoomedApart'
  BY <1>1, <1>2, <1>7 DEF IInv, DoomedApart
<1>9. QED
  BY <1>3, <1>4, <1>6, <1>8 DEF IInv

LEMMA AgeKeeps ==
  ASSUME IInv, TypeOK', NEW n \in Nodes, Promote(n) \/ Remember(n)
  PROVE  IInv'
<1>1. /\ phase \in {"Promote", "Remember"}
      /\ young' = young \/ (n \in live /\ young' = young \ {n})
      /\ UNCHANGED <<heap, kids, regs, root, phase, major, stale, pinned,
                     slotless, edges, incoming, live, doomed, lost>>
  BY DEF Promote, Remember, Slice
<1>2. Reachable' = Reachable /\ Routine /\ Routine'
  BY <1>1, SameReach DEF Routine
<1>3. HeapClosed'
  BY <1>1, <1>2 DEF IInv, HeapClosed
<1>4. SweptAside' /\ NewbornYoung' /\ GarbageGone' /\ Traced' /\ Counted'
  BY <1>1 DEF IInv, SweptAside, Swept, NewbornYoung, GarbageGone, Traced, Counted
<1>5. OldKept'
  BY <1>1 DEF IInv, OldKept
<1>6. DoomedApart'
  BY <1>1, <1>2 DEF IInv, DoomedApart
<1>7. QED
  BY <1>3, <1>4, <1>5, <1>6 DEF IInv

(* A node that is not live is emptied, or it is old and has been given up.  *)
LEMMA SweepKeeps ==
  ASSUME IInv, TypeOK', NEW n \in Nodes, Sweep(n)
  PROVE  IInv'
<1>1. /\ phase = "Sweep" /\ lost = {} /\ n \in left /\ n \in pinned
      /\ kids' = IF n \in Emptied THEN [kids EXCEPT ![n] = {}] ELSE kids
      /\ lost' = lost \cup ({n} \cap Emptied \cap Reachable)
      /\ left' = left \ {n}
      /\ UNCHANGED <<heap, regs, root, young, remembered, phase, major, stale,
                     pinned, slotless, edges, incoming, live, doomed>>
  BY DEF Sweep, Slice, IInv, TypeOK
<1>2. /\ \A m \in Nodes : kids'[m] = IF m = n /\ n \in Emptied THEN {} ELSE kids[m]
      /\ \A m \in Nodes : kids'[m] \subseteq kids[m]
  BY <1>1 DEF IInv, TypeOK
<1>3. LiveRoots' = LiveRoots /\ Routine /\ Routine'
  BY <1>1 DEF LiveRoots, Routine
<1>4. Reachable' \subseteq Reachable
  BY <1>1, <1>2, <1>3, ReachableKept DEF IInv
<1>5. HeapClosed'
  BY <1>1, <1>2, <1>4 DEF IInv, HeapClosed
<1>6. SweptAside'
  <2>1. SUFFICES ASSUME lost' = {}, NEW m \in Swept'
                 PROVE  m \notin Reachable' /\ kids'[m] = {}
    BY DEF SweptAside
  <2>2. m \in pinned /\ m \notin live /\ (m \in Swept \/ m = n)
    BY <1>1, <2>1 DEF Swept
  <2>3. CASE m \in Swept
    BY <1>1, <1>2, <1>4, <2>2, <2>3 DEF IInv, SweptAside, TypeOK
  <2>4. CASE m = n /\ n \in Emptied
    BY <1>1, <1>2, <1>4, <2>1, <2>4
  <2>5. CASE m = n /\ n \notin Emptied
    <3>1. n \notin heap
      BY <1>1, <2>2, <2>5 DEF IInv, OldKept, Emptied
    <3>2. QED
      BY <1>2, <1>4, <2>5, <3>1 DEF IInv, HeapClosed
  <2>6. QED
    BY <2>2, <2>3, <2>4, <2>5
<1>7. NewbornYoung' /\ GarbageGone' /\ Traced' /\ Counted'
  BY <1>1 DEF IInv, NewbornYoung, GarbageGone, Traced, Counted
<1>8. OldKept'
  BY <1>1 DEF IInv, OldKept
<1>9. DoomedApart'
  BY <1>1, <1>2, <1>3, <1>4 DEF IInv, DoomedApart
<1>10. QED
  BY <1>5, <1>6, <1>7, <1>8, <1>9 DEF IInv

LEMMA RetireKeeps ==
  ASSUME IInv, TypeOK', Retire
  PROVE  IInv'
<1>1. /\ phase = "Sweep" /\ phase' = "Release" /\ left = {} /\ left' = pinned
      /\ root' = [n \in Nodes |-> IF root[n] = "retired" THEN "none" ELSE root[n]]
      /\ UNCHANGED <<heap, kids, regs, young, remembered, major, stale,
                     pinned, slotless, edges, incoming, live, doomed, lost>>
  BY DEF Retire, Slice
<1>2. LiveRoots' = LiveRoots /\ Routine /\ Routine'
  BY <1>1 DEF LiveRoots, Routine
<1>3. Reachable' \subseteq Reachable
  BY <1>1, <1>2, ReachableKept DEF IInv, TypeOK
<1>4. HeapClosed'
  BY <1>1, <1>3 DEF IInv, HeapClosed
<1>5. Swept' = Swept
  BY <1>1 DEF Swept
<1>6. SweptAside'
  BY <1>1, <1>3, <1>5 DEF IInv, SweptAside
<1>7. NewbornYoung' /\ OldKept' /\ GarbageGone' /\ Traced' /\ Counted'
  BY <1>1 DEF NewbornYoung, OldKept, GarbageGone, Traced, Counted
<1>8. DoomedApart'
  BY <1>1, <1>2, <1>3 DEF IInv, DoomedApart
<1>9. QED
  BY <1>4, <1>6, <1>7, <1>8 DEF IInv

LEMMA ReleaseKeeps ==
  ASSUME IInv, TypeOK', NEW n \in Nodes, Release(n)
  PROVE  IInv'
<1>1. /\ phase = "Release" /\ lost = {} /\ n \in left /\ left' = left \ {n}
      /\ heap' = IF n \in live THEN heap ELSE heap \ {n}
      /\ pinned' = pinned \ {n}
      /\ UNCHANGED <<kids, regs, root, phase, major, stale,
                     slotless, edges, incoming, live, doomed, lost>>
  BY DEF Release, Slice
<1>2. Reachable' = Reachable /\ Routine /\ Routine'
  BY <1>1, SameReach DEF Routine
<1>3. n \notin live => n \notin Reachable /\ kids[n] = {}
  BY <1>1 DEF IInv, SweptAside, Swept
<1>4. HeapClosed'
  BY <1>1, <1>2, <1>3 DEF IInv, HeapClosed
<1>5. SweptAside'
  <2>1. Swept' \subseteq Swept
    BY <1>1 DEF Swept
  <2>2. QED
    BY <1>1, <1>2, <2>1 DEF IInv, SweptAside
<1>6. NewbornYoung' /\ OldKept' /\ GarbageGone' /\ Traced' /\ Counted'
  BY <1>1 DEF NewbornYoung, OldKept, GarbageGone, Traced, Counted
<1>7. DoomedApart'
  BY <1>1, <1>2 DEF IInv, DoomedApart
<1>8. QED
  BY <1>4, <1>5, <1>6, <1>7 DEF IInv

LEMMA EndKeeps ==
  ASSUME IInv, TypeOK', Finish \/ Abort
  PROVE  IInv'
<1>1. /\ Routine /\ phase' \in {"Done", "Idle"}
      /\ doomed' = {} \/ (doomed' = doomed /\ phase = "Release" /\ left = {})
      /\ phase' = "Done" => doomed' = doomed /\ phase = "Release" /\ left = {}
      /\ UNCHANGED <<heap, kids, regs, root, young, remembered, major, lost>>
  BY DEF Finish, Abort, Slice, Routine, program
<1>2. Reachable' = Reachable /\ ~Routine'
  BY <1>1, SameReach DEF Routine
<1>3. HeapClosed'
  BY <1>1, <1>2 DEF IInv, HeapClosed
<1>4. SweptAside' /\ NewbornYoung' /\ OldKept' /\ Traced' /\ Counted'
  BY <1>1 DEF SweptAside, Swept, NewbornYoung, OldKept, Traced, Counted
<1>5. DoomedApart'
  BY <1>1, <1>2 DEF IInv, DoomedApart
<1>6. GarbageGone'
  BY <1>1 DEF IInv, DoomedApart, GarbageGone
<1>7. QED
  BY <1>3, <1>4, <1>5, <1>6 DEF IInv

LEMMA FullKeeps ==
  ASSUME IInv, TypeOK', NEW m \in BOOLEAN, Full(m)
  PROVE  IInv'
<1>1. /\ phase' = "Done" /\ major' = m /\ doomed' = heap \ Reachable
      /\ heap' = FullLive(m)
      /\ kids' = [n \in Nodes |-> IF n \in FullLive(m) THEN kids[n] ELSE {}]
      /\ root' = [n \in Nodes |-> IF root[n] = "retired" THEN "none" ELSE root[n]]
      /\ regs' = regs
  BY DEF Full
<1>2. LiveRoots' = LiveRoots /\ ~Routine'
  BY <1>1 DEF LiveRoots, Routine
<1>3. Reachable' \subseteq Reachable
  BY <1>1, <1>2, ReachableKept DEF IInv
<1>4. Reachable \subseteq FullLive(m)
  BY FullKeepsReachable DEF IInv
<1>5. HeapClosed'
  BY <1>1, <1>3, <1>4 DEF HeapClosed
<1>6. SweptAside' /\ NewbornYoung' /\ OldKept' /\ Traced' /\ Counted'
  BY <1>1 DEF SweptAside, Swept, NewbornYoung, OldKept, Traced, Counted
<1>7. DoomedApart'
  BY <1>1, <1>2, <1>3 DEF DoomedApart
<1>8. GarbageGone'
  BY <1>1, FullReleasesGarbage DEF IInv, GarbageGone
<1>9. QED
  BY <1>5, <1>6, <1>7, <1>8 DEF IInv

LEMMA IInvInit == GCInit => IInv
<1> SUFFICES ASSUME GCInit PROVE IInv
  OBVIOUS
<1>1. TypeOK
  BY TypeInit
<1>2. Reachable = {}
  <2>1. InRegisters = {} /\ LiveRoots = {} /\ {} \in SUBSET Nodes
    BY DEF GCInit, InRegisters, LiveRoots
  <2>2. Reachable \subseteq {}
    BY <2>1, ReachableLeast
  <2>3. QED
    BY <2>2
<1>3. HeapClosed /\ DoomedApart
  BY <1>2 DEF GCInit, HeapClosed, DoomedApart, Routine
<1>4. SweptAside /\ NewbornYoung /\ OldKept /\ Traced /\ Counted /\ GarbageGone
  BY DEF GCInit, SweptAside, Swept, NewbornYoung, OldKept, Traced, Counted, GarbageGone
<1>5. QED
  BY <1>1, <1>3, <1>4 DEF IInv

LEMMA IInvStep ==
  ASSUME IInv, [GCNext]_gcVars
  PROVE  IInv'
<1>1. TypeOK /\ TypeOK' /\ HeapClosed
  BY TypeStep DEF IInv
<1>2. CASE ProgramNext
  BY <1>1, <1>2, ProgramStep, ProgramKeeps
<1>3. ASSUME NEW m \in BOOLEAN, Start(m) \/ Full(m) PROVE IInv'
  BY <1>1, <1>3, StartKeeps, FullKeeps
<1>4. CASE SliceNext
  <2>1. ASSUME NEW n \in Nodes,
               \/ Trace(n) \/ Classify(n) \/ Promote(n) \/ Remember(n)
               \/ Sweep(n) \/ Release(n)
        PROVE  IInv'
    BY <1>1, <2>1, TraceKeeps, ClassifyKeeps, AgeKeeps, SweepKeeps, ReleaseKeeps
  <2>2. QED
    BY <1>1, <1>4, <2>1, RootsKeep, GoKeeps, MarkKeeps, RetireKeeps, EndKeeps DEF SliceNext
<1>5. CASE Abort
  BY <1>1, <1>5, EndKeeps
<1>6. CASE UNCHANGED gcVars
  <2>1. UNCHANGED <<heap, kids, regs, root, young, remembered, phase, major, stale, pinned,
                    slotless, left, edges, incoming, live, doomed, lost>>
    BY <1>6 DEF gcVars, program, graph
  <2>2. /\ Reachable' = Reachable /\ Swept' = Swept /\ Tracing' = Tracing
        /\ Routine' = Routine
    BY <2>1, SameReach DEF Swept, Tracing, Routine
  <2>3. HeapClosed' /\ SweptAside' /\ DoomedApart'
    BY <2>1, <2>2 DEF IInv, HeapClosed, SweptAside, DoomedApart
  <2>4. NewbornYoung' /\ OldKept' /\ GarbageGone'
    BY <2>1 DEF IInv, NewbornYoung, OldKept, GarbageGone
  <2>5. \A n \in Nodes : Seen(n)' = Seen(n) /\ Recorded(n)' = Recorded(n)
    BY <2>1 DEF Seen, OldClean, Recorded
  <2>6. Traced' /\ Counted'
    BY <2>1, <2>2, <2>5 DEF IInv, Traced, Counted
  <2>7. QED
    BY <1>1, <2>3, <2>4, <2>6 DEF IInv
<1>7. QED
  BY <1>2, <1>3, <1>4, <1>5, <1>6 DEF GCNext

-----------------------------------------------------------------------------
(* The theorems. *)

LEMMA Invariant == GCSpec => []IInv
<1>1. IInv /\ [GCNext /\ Bounded']_gcVars => IInv'
  BY IInvStep
<1>2. QED
  BY IInvInit, <1>1, PTL DEF GCSpec

(* Every variable has its type. *)
THEOREM TypeCorrect == GCSpec => []TypeOK
<1>1. IInv => TypeOK
  BY DEF IInv
<1>2. QED
  BY Invariant, <1>1, PTL

(* A routine collection that was not told to start over classifies the     *)
(* graph as it is (class_gc.rs, the mutation epoch).                       *)
THEOREM SnapshotsAreTrue == GCSpec => []SnapshotTrue
<1>1. IInv => SnapshotTrue
  <2> SUFFICES ASSUME IInv, phase = "Classify", ~stale, NEW n \in pinned
               PROVE  edges[n] = Seen(n)
    BY DEF SnapshotTrue
  <2>1. n \in Nodes /\ n \in Tracing
    BY DEF IInv, TypeOK, Tracing
  <2>2. QED
    BY <2>1 DEF IInv, Traced
<1>2. QED
  BY Invariant, <1>1, PTL

(* A major collection that ends, routine or full, has released all that was *)
(* garbage when it began.                                                   *)
THEOREM GarbageIsReleased == GCSpec => []GarbageGone
<1>1. IInv => GarbageGone
  BY DEF IInv
<1>2. QED
  BY Invariant, <1>1, PTL

(* At no point would a full collection empty a node that the program can    *)
(* reach (collect_classes on pressure, collect at shutdown).                *)
THEOREM FullCollectionsAreSafe == GCSpec => []FullSweepsOnlyGarbage
<1>1. IInv => FullSweepsOnlyGarbage
  BY FullKeepsReachable DEF IInv, FullSweepsOnlyGarbage
<1>2. QED
  BY Invariant, <1>1, PTL

-----------------------------------------------------------------------------
(* What the sliced collection loses, it loses in its classification: run    *)
(* the program at any other time and nothing is lost.                       *)

UninterruptedSpec ==
    GCInit /\ [][GCNext /\ Bounded' /\ (phase = "Classify" => ~ProgramNext)]_gcVars

LiveKept ==
    /\ phase = "Classify" => \A n \in pinned \ left : HeldFromOutside(n) => n \in live
    /\ phase \in {"Promote", "Remember", "Sweep"} => Reachable \cap pinned \subseteq live
    /\ lost = {}

(* The nodes the trace has seen a node from. *)
TracedFrom(n) == {k \in Nodes : n \in edges[k]}

(* An owner more than the trace has counted, of whatever kind. *)
LEMMA OwnerOutside ==
  ASSUME TypeOK, Counted, phase = "Classify", ~stale, NEW n \in pinned,
         Count(TracedFrom(n)) \in Nat,
         \/ root[n] = "live" /\ Count(Parents(n)) >= Count(TracedFrom(n))
         \/ Count(Holders(n)) + Count(Parents(n)) > Count(TracedFrom(n))
  PROVE  HeldFromOutside(n)
<1>1. n \in Nodes /\ Count(Holders(n)) \in Nat /\ Count(Parents(n)) \in Nat
  BY Counts DEF TypeOK
<1>2. incoming[n] = (IF Recorded(n) THEN 1 ELSE 0) + Count(TracedFrom(n))
  BY <1>1 DEF Counted, TracedFrom
<1>3. References(n) = Count(Holders(n)) + Count(Parents(n))
          + (CASE root[n] = "live" -> 2 [] root[n] = "retired" -> 1 [] OTHER -> 0) + 2
  <2>1. References(n) = Count(Holders(n)) + Count(Parents(n))
          + (CASE root[n] = "live" -> 2 [] root[n] = "retired" -> 1 [] OTHER -> 0)
          + 1 + (IF n \in pinned THEN 1 ELSE 0)
    BY DEF References, Holders
  <2>2. QED
    BY <1>1, <2>1
<1>4. References(n) > incoming[n] + 1 + (IF n \in slotless THEN 0 ELSE 1)
  <2>1. root[n] \in {"none", "live", "retired"}
    BY <1>1 DEF TypeOK
  <2>2. QED
    BY <1>1, <1>2, <1>3, <2>1 DEF Recorded
<1>5. QED
  BY <1>4 DEF HeldFromOutside

(* When all nodes are classified as they are at one moment, what is marked  *)
(* is all that can be reached.                                              *)
LEMMA MarkReachesAll ==
  ASSUME IInv, LiveKept, Mark
  PROVE  Reachable \cap pinned \subseteq live'
<1>1. /\ phase = "Classify" /\ ~stale /\ left = {} /\ live' = Closure(live, edges)
      /\ TypeOK /\ Counted /\ HeapClosed
  BY DEF Mark, Slice, IInv
<1>2. \A n \in Nodes : edges[n] = IF n \in pinned THEN Seen(n) ELSE {}
  BY <1>1 DEF IInv, Traced, Tracing
<1>3. \A n \in Nodes : edges[n] \subseteq kids[n]
  BY <1>2 DEF Seen
<1>4. ASSUME NEW n \in pinned
      PROVE  /\ n \in Nodes /\ IsFiniteSet(Parents(n)) /\ TracedFrom(n) \subseteq Parents(n)
             /\ Count(Holders(n)) \in Nat /\ Count(Parents(n)) \in Nat
             /\ Count(TracedFrom(n)) \in Nat
             /\ Count(TracedFrom(n)) <= Count(Parents(n))
             /\ Count(TracedFrom(n)) = Count(Parents(n)) => TracedFrom(n) = Parents(n)
  <2>1. TracedFrom(n) \subseteq Parents(n)
    BY <1>1, <1>3 DEF TracedFrom, Parents, HeapClosed
  <2>2. n \in Nodes
    BY <1>1 DEF TypeOK
  <2>3. QED
    BY <1>1, <2>1, <2>2, Counts, MoreThanSeen
<1>5. ASSUME NEW n \in pinned, HeldFromOutside(n) PROVE n \in live
  BY <1>1, <1>5 DEF LiveKept
<1>6. /\ live \subseteq live' /\ live' \subseteq Nodes
      /\ \A k \in live' : edges[k] \subseteq live'
  BY <1>1, ClosureFacts DEF TypeOK
<1> DEFINE Kept == (Nodes \ pinned) \cup live'
<1>7. InRegisters \subseteq Kept
  <2>1. SUFFICES ASSUME NEW r \in Regs, NEW n, n = regs[r], n \in pinned
                 PROVE  n \in live
    BY <1>1, <1>6 DEF InRegisters, TypeOK
  <2>2. Count(Holders(n)) # 0
    BY <1>1, <2>1, Counts
  <2>3. Count(Holders(n)) + Count(Parents(n)) > Count(TracedFrom(n))
    BY <1>4, <2>1, <2>2
  <2>4. QED
    BY <1>1, <1>4, <1>5, <2>1, <2>3, OwnerOutside
<1>8. LiveRoots \subseteq Kept
  <2>1. ASSUME NEW n \in pinned, root[n] = "live" PROVE n \in live
    <3>1. Count(Parents(n)) >= Count(TracedFrom(n))
      BY <1>4
    <3>2. QED
      BY <1>1, <1>4, <1>5, <2>1, <3>1, OwnerOutside
  <2>2. QED
    BY <1>6, <2>1 DEF LiveRoots
<1>9. ASSUME NEW k \in Reachable \cap Kept, NEW n \in kids[k] PROVE n \in Reachable \cap Kept
  <2>1. n \in Reachable /\ n \in Nodes /\ k \in heap /\ k \in Nodes
    BY <1>1, <1>9, ReachableFacts DEF HeapClosed
  <2>2. CASE n \notin pinned
    BY <2>1, <2>2
  <2>3. CASE n \in edges[k]
    <3>1. k \in live'
      BY <1>2, <1>9, <2>1, <2>3
    <3>2. QED
      BY <1>6, <2>1, <2>3, <3>1
  <2>4. CASE n \in pinned /\ n \notin edges[k]
    <3>1. k \in Parents(n) /\ k \notin TracedFrom(n)
      BY <1>9, <2>1, <2>4 DEF Parents, TracedFrom
    <3>2. Count(TracedFrom(n)) # Count(Parents(n))
      BY <1>4, <2>4, <3>1
    <3>3. Count(Holders(n)) + Count(Parents(n)) > Count(TracedFrom(n))
      BY <1>4, <2>4, <3>2
    <3>4. QED
      BY <1>1, <1>4, <1>5, <1>6, <2>1, <2>4, <3>3, OwnerOutside
  <2>5. QED
    BY <2>2, <2>3, <2>4
<1>10. Reachable \subseteq Reachable \cap Kept
  <2>1. InRegisters \subseteq Reachable \cap Kept /\ LiveRoots \subseteq Reachable \cap Kept
    BY <1>1, <1>7, <1>8, ReachableFacts
  <2>2. Reachable \cap Kept \in SUBSET Nodes
    BY <1>6
  <2>3. QED
    BY <1>9, <2>1, <2>2, ReachableLeast
<1>11. QED
  BY <1>10

LEMMA LiveKeptStep ==
  ASSUME IInv, LiveKept, [GCNext /\ (phase = "Classify" => ~ProgramNext)]_gcVars
  PROVE  LiveKept'
<1>1. TypeOK /\ TypeOK' /\ HeapClosed
  BY IInvStep DEF IInv
<1>2. lost = {}
  BY DEF LiveKept
<1>3. CASE ProgramNext /\ phase # "Classify"
  <2>1. ProgramDoes
    BY <1>1, <1>3, ProgramStep
  <2>2. /\ UNCHANGED <<phase, pinned, live, lost>> /\ Added \cap pinned = {}
        /\ Reachable' \subseteq Reachable \cup Added
    BY <2>1 DEF ProgramDoes, graph
  <2>3. QED
    BY <1>3, <2>2 DEF LiveKept
<1>4. ASSUME NEW m \in BOOLEAN, Start(m) \/ Full(m) \/ Abort PROVE LiveKept'
  BY <1>2, <1>4 DEF Start, Full, Abort, LiveKept
<1>5. CASE Roots \/ Retire \/ Finish
  BY <1>2, <1>5 DEF Roots, Retire, Finish, LiveKept
<1>6. ASSUME NEW n \in Nodes, Trace(n) \/ Release(n) PROVE LiveKept'
  BY <1>2, <1>6 DEF Trace, Release, Slice, LiveKept
<1>7. CASE Go("Trace", "Classify") \/ Go("Promote", "Remember") \/ Go("Remember", "Sweep")
  <2>1. /\ left' = pinned /\ UNCHANGED <<kids, regs, root, pinned, live, lost>>
        /\ \/ phase' = "Classify"
           \/ phase \in {"Promote", "Remember"} /\ phase' \in {"Remember", "Sweep"}
    BY <1>7 DEF Go, Slice, program
  <2>2. Reachable' = Reachable
    BY <2>1, SameReach
  <2>3. QED
    BY <2>1, <2>2 DEF LiveKept
<1>8. ASSUME NEW n \in Nodes, Classify(n) PROVE LiveKept'
  <2>1. /\ phase = "Classify" /\ phase' = "Classify" /\ left' = left \ {n}
        /\ live' = IF HeldFromOutside(n) THEN live \cup {n} ELSE live
        /\ UNCHANGED <<heap, kids, regs, root, young, major, pinned, slotless, incoming, lost>>
    BY <1>8 DEF Classify, Slice, program
  <2>2. ASSUME NEW m PROVE HeldFromOutside(m)' <=> HeldFromOutside(m)
    BY <2>1 DEF HeldFromOutside, References, Parents
  <2>3. QED
    BY <2>1, <2>2 DEF LiveKept
<1>9. CASE Mark
  <2>1. Reachable \cap pinned \subseteq live'
    BY <1>9, MarkReachesAll
  <2>2. phase' = "Promote" /\ UNCHANGED <<kids, regs, root, pinned, lost>>
    BY <1>9 DEF Mark, program
  <2>3. QED
    BY <1>2, <2>1, <2>2, SameReach DEF LiveKept
<1>10. ASSUME NEW n \in Nodes, Promote(n) \/ Remember(n) PROVE LiveKept'
  <2>1. /\ phase \in {"Promote", "Remember"}
        /\ UNCHANGED <<kids, regs, root, phase, pinned, live, lost>>
    BY <1>10 DEF Promote, Remember, Slice
  <2>2. QED
    BY <2>1, SameReach DEF LiveKept
<1>11. ASSUME NEW n \in Nodes, Sweep(n) PROVE LiveKept'
  <2>1. /\ phase = "Sweep" /\ UNCHANGED <<regs, root, phase, pinned, live>>
        /\ kids' = IF n \in Emptied THEN [kids EXCEPT ![n] = {}] ELSE kids
        /\ lost' = lost \cup ({n} \cap Emptied \cap Reachable)
    BY <1>11 DEF Sweep, Slice
  <2>2. \A m \in Nodes : kids'[m] \subseteq kids[m]
    BY <1>1, <2>1 DEF TypeOK
  <2>3. Reachable' \subseteq Reachable
    BY <1>1, <2>1, <2>2, ReachableKept DEF LiveRoots
  <2>4. Emptied \cap Reachable = {}
    BY <2>1 DEF Emptied, LiveKept
  <2>5. QED
    BY <1>2, <2>1, <2>3, <2>4 DEF LiveKept
<1>12. CASE UNCHANGED gcVars
  <2>1. UNCHANGED <<heap, kids, regs, root, young, phase, major, pinned, slotless,
                    left, incoming, live, lost>>
    BY <1>12 DEF gcVars, program, graph
  <2>2. Reachable' = Reachable
    BY <2>1, SameReach
  <2>3. ASSUME NEW m PROVE HeldFromOutside(m)' <=> HeldFromOutside(m)
    BY <2>1 DEF HeldFromOutside, References, Parents
  <2>4. QED
    BY <2>1, <2>2, <2>3 DEF LiveKept
<1>13. CASE SliceNext
  BY <1>5, <1>6, <1>7, <1>8, <1>9, <1>10, <1>11, <1>13 DEF SliceNext
<1>14. QED
  BY <1>3, <1>4, <1>12, <1>13 DEF GCNext

(* A sliced collection loses nothing that the program can reach unless the  *)
(* program runs between the classification of its first and its last node:  *)
(* tracing, marking, ageing and sweeping may all be interrupted.            *)
THEOREM LossNeedsAnInterruption == UninterruptedSpec => []NothingLost
<1>1. GCInit => LiveKept
  BY DEF GCInit, LiveKept
<1>2. IInv /\ LiveKept /\ [GCNext /\ Bounded' /\ (phase = "Classify" => ~ProgramNext)]_gcVars
        => IInv' /\ LiveKept'
  BY IInvStep, LiveKeptStep
<1>3. LiveKept => NothingLost
  BY DEF LiveKept, NothingLost
<1>4. QED
  BY IInvInit, <1>1, <1>2, <1>3, PTL DEF UninterruptedSpec
=============================================================================
