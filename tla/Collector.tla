----------------------------- MODULE Collector -----------------------------
(* The collector of class_gc.rs, which finds garbage cycles of containers   *)
(* and class objects although every owner is counted by an Arc. A node that *)
(* has more owners than the collector can account for (other nodes, root    *)
(* records, the collector itself) is held from outside: by a register of    *)
(* the VM, or by an embedding. Routine collections run in slices of 128     *)
(* units between two instructions, full ones at once; both are minor or     *)
(* major. The heap's mutation epoch tells a slice that the program wrote to *)
(* something already traced: here it is the flag "stale".                   *)
(*                                                                          *)
(* One step stands for the units a phase spends on one node: the program    *)
(* may come in between two nodes, and while a node is traced or emptied a   *)
(* write to it makes the slice start over in any case.                      *)
EXTENDS Naturals, FiniteSets

CONSTANTS
    Nodes,      \* containers and class objects
    Arena,      \* those among them that are class objects, in class_objects
    Regs,       \* registers of the VM's frames
    None,       \* no node, not one of Nodes
    MaxRoots,   \* bound on the root records
    MaxEdges    \* bound on the references from node to node

ASSUME NodesAndRegisters ==
    /\ IsFiniteSet(Nodes) /\ IsFiniteSet(Regs)
    /\ Arena \subseteq Nodes /\ None \notin Nodes

VARIABLES
    heap,       \* nodes that exist: their cycle slot or the arena owns them
    kids,       \* the nodes a node refers to
    regs,       \* what the registers hold
    root,       \* the root record of a node: "none", "live" or "retired"
    young,      \* nodes of the young generation, the others are old
    remembered, \* old nodes written to since they were traced
    phase,      \* GcPhase of the routine collection, "Idle" or "Done"
    major,      \* what the present, or else the last, collection covers
    stale,      \* the mutation epoch is not the collection's
    pinned,     \* nodes of the collector's graph
    slotless,   \* those of them found by tracing, without their slot
    left,       \* nodes the phase has not come to
    edges,      \* the references the trace has seen
    incoming,   \* how many owners of a node they account for
    live,       \* nodes found live
    doomed,     \* nodes that were unreachable as the collection began
    lost        \* nodes emptied although the program could reach them

program == <<heap, kids, regs, root, young, remembered>>
graph == <<pinned, slotless, left, edges, incoming, live>>
gcVars == <<program, phase, major, stale, graph, doomed, lost>>

Count(S) == Cardinality(S)

(* The nodes that S leads to along the references of f: those in every set  *)
(* that holds S and does not lead out of itself.                            *)
Closure(S, f) ==
    {n \in Nodes : \A T \in SUBSET Nodes :
        S \subseteq T /\ (\A m \in T : f[m] \subseteq T) => n \in T}

InRegisters == {regs[r] : r \in Regs} \ {None}
LiveRoots == {n \in Nodes : root[n] = "live"}
Reachable == Closure(InRegisters \cup LiveRoots, kids)

Parents(n) == {m \in heap : n \in kids[m]}

(* strong_count: the registers, the other nodes, the root record and its    *)
(* handle, the slot (or the arena) and, in a collection, the graph.         *)
References(n) ==
    Count({r \in Regs : regs[r] = n}) + Count(Parents(n))
    + (CASE root[n] = "live" -> 2 [] root[n] = "retired" -> 1 [] OTHER -> 0)
    + 1 + (IF n \in pinned THEN 1 ELSE 0)

Routine == phase \notin {"Idle", "Done"}

GCInit ==
    /\ heap = {} /\ kids = [n \in Nodes |-> {}]
    /\ regs = [r \in Regs |-> None]
    /\ root = [n \in Nodes |-> "none"]
    /\ young = {} /\ remembered = {}
    /\ phase = "Idle" /\ major = FALSE /\ stale = FALSE
    /\ pinned = {} /\ slotless = {} /\ left = {}
    /\ edges = [n \in Nodes |-> {}] /\ incoming = [n \in Nodes |-> 0]
    /\ live = {} /\ doomed = {} /\ lost = {}

-----------------------------------------------------------------------------
(* The program, between two slices.                                         *)

(* A collection that has only registered nodes takes the new epoch as its   *)
(* own; later ones start over.                                              *)
Bumped == stale' = (Routine /\ (stale \/ phase # "Register"))

(* Nodes whose tracing flag is set.                                         *)
Tracing == IF phase = "Trace" THEN pinned \ left
           ELSE IF phase = "Register" THEN {} ELSE pinned

(* Wrong on purpose: writes to young nodes go unnoticed.                    *)
BrokenMutated(n) ==
    /\ IF n \in Arena \/ n \notin young
       THEN Bumped ELSE UNCHANGED stale
    /\ remembered' = IF n \in young THEN remembered ELSE remembered \cup {n}

(* mutated, and set_field of a class object.                                *)
Mutated(n) ==
    /\ IF n \in Arena \/ n \in Tracing \/ n \notin young
       THEN Bumped ELSE UNCHANGED stale
    /\ remembered' = IF n \in young THEN remembered ELSE remembered \cup {n}

Program == lost = {} /\ UNCHANGED <<phase, major, graph, lost>>

(* Another object: not one that a slot or the arena has given up while some *)
(* garbage, or the graph, still owns it.                                    *)
New(n, r, S) ==
    /\ Program
    /\ n \notin heap \cup pinned \cup UNION {kids[m] : m \in heap}
    /\ heap' = heap \cup {n}
    /\ kids' = [kids EXCEPT ![n] = S]
    /\ regs' = [regs EXCEPT ![r] = n]
    /\ young' = young \cup {n}
    /\ IF n \in Arena THEN Bumped ELSE UNCHANGED stale
    /\ doomed' = doomed \ {n}
    /\ UNCHANGED <<root, remembered>>

(* ArrayGet and its like: a read, without a barrier.                        *)
Get(from, r, n) ==
    /\ Program
    /\ regs[from] # None
    /\ n \in kids[regs[from]]
    /\ regs' = [regs EXCEPT ![r] = n]
    /\ UNCHANGED <<heap, kids, root, young, remembered, stale, doomed>>

Forget(r) ==
    /\ Program
    /\ regs[r] # None
    /\ regs' = [regs EXCEPT ![r] = None]
    /\ UNCHANGED <<heap, kids, root, young, remembered, stale, doomed>>

Put(to, r) ==
    /\ Program
    /\ regs[to] # None /\ regs[r] # None
    /\ regs[r] \notin kids[regs[to]]
    /\ kids' = [kids EXCEPT ![regs[to]] = @ \cup {regs[r]}]
    /\ Mutated(regs[to])
    /\ UNCHANGED <<heap, regs, root, young, doomed>>

RemoveChild(from, n) ==
    /\ Program
    /\ regs[from] # None
    /\ n \in kids[regs[from]]
    /\ kids' = [kids EXCEPT ![regs[from]] = @ \ {n}]
    /\ Mutated(regs[from])
    /\ UNCHANGED <<heap, regs, root, young, doomed>>

(* register_root, for a value of the VM or a child of a rooted one.         *)
Retain(n) ==
    /\ Program
    /\ n \in InRegisters \cup UNION {kids[m] : m \in LiveRoots}
    /\ root[n] = "none"
    /\ root' = [root EXCEPT ![n] = "live"]
    /\ Bumped
    /\ UNCHANGED <<heap, kids, regs, young, remembered, doomed>>

(* The last handle of a root is dropped: RootLease::drop.                   *)
DropRoot(n) ==
    /\ Program
    /\ root[n] = "live"
    /\ root' = [root EXCEPT ![n] = "retired"]
    /\ Bumped
    /\ UNCHANGED <<heap, kids, regs, young, remembered, doomed>>

-----------------------------------------------------------------------------
(* A routine collection, one node at a time.                                *)

Slice(p) == phase = p /\ ~stale /\ lost = {}

(* Phases Classes and Cycles: every node is pinned and nothing is read.     *)
Start(m) ==
    /\ ~Routine /\ heap # {} /\ lost = {}
    /\ phase' = "Register" /\ major' = m /\ stale' = FALSE
    /\ pinned' = heap /\ slotless' = {} /\ left' = heap
    /\ edges' = [n \in Nodes |-> {}] /\ incoming' = [n \in Nodes |-> 0]
    /\ live' = {}
    /\ doomed' = heap \ Reachable
    /\ UNCHANGED <<program, lost>>

Recorded(n) == root[n] # "none"

(* Phases Roots and RetiredRoots.                                           *)
Roots ==
    /\ Slice("Register")
    /\ phase' = "Trace"
    /\ live' = LiveRoots
    /\ incoming' = [n \in Nodes |-> IF Recorded(n) THEN 1 ELSE 0]
    /\ UNCHANGED <<program, major, stale, pinned, slotless, left, edges, doomed, lost>>

OldClean(n) == n \notin young /\ n \notin remembered

Seen(n) == IF ~major /\ OldClean(n) /\ n \notin slotless THEN {} ELSE kids[n]

Found(n) == Seen(n) \ pinned

Trace(n) ==
    /\ Slice("Trace") /\ n \in left
    /\ edges' = [edges EXCEPT ![n] = Seen(n)]
    /\ incoming' = [m \in Nodes |-> incoming[m] + IF m \in Seen(n) THEN 1 ELSE 0]
    /\ pinned' = pinned \cup Found(n)
    /\ slotless' = slotless \cup Found(n)
    /\ left' = (left \cup Found(n)) \ {n}
    /\ UNCHANGED <<program, phase, major, stale, live, doomed, lost>>

(* A phase that came to all its nodes hands them to the next.               *)
Go(from, to) ==
    /\ Slice(from) /\ left = {}
    /\ phase' = to /\ left' = pinned
    /\ UNCHANGED <<program, major, stale, pinned, slotless, edges, incoming, live, doomed, lost>>

(* Live whatever the trace says: in a minor collection what is not young,   *)
(* in any what has an owner that is not accounted for.                      *)
HeldFromOutside(n) ==
    \/ ~major /\ (n \in Arena \/ (n \notin young /\ n \notin slotless))
    \/ References(n) > incoming[n] + 1 + (IF n \in slotless THEN 0 ELSE 1)

Classify(n) ==
    /\ Slice("Classify") /\ n \in left
    /\ live' = IF HeldFromOutside(n) THEN live \cup {n} ELSE live
    /\ left' = left \ {n}
    /\ UNCHANGED <<program, phase, major, stale, pinned, slotless, edges, incoming, doomed, lost>>

Mark ==
    /\ Slice("Classify") /\ left = {}
    /\ phase' = "Promote" /\ left' = pinned
    /\ live' = Closure(live, edges)
    /\ UNCHANGED <<program, major, stale, pinned, slotless, edges, incoming, doomed, lost>>

Promote(n) ==
    /\ Slice("Promote") /\ n \in left
    /\ young' = IF n \in live /\ (n \in Arena \/ n \notin slotless)
                THEN young \ {n} ELSE young
    /\ left' = left \ {n}
    /\ UNCHANGED <<heap, kids, regs, root, remembered, phase, major, stale,
                   pinned, slotless, edges, incoming, live, doomed, lost>>

(* Phases Nursery and Remember.                                             *)
Remember(n) ==
    /\ Slice("Remember") /\ n \in left
    /\ remembered' =
         IF n \in live \ young /\ (n \in Arena \/ n \notin slotless)
         THEN IF slotless # {} \/ edges[n] \cap young # {}
              THEN remembered \cup {n} ELSE remembered \ {n}
         ELSE remembered
    /\ left' = left \ {n}
    /\ UNCHANGED <<heap, kids, regs, root, young, phase, major, stale,
                   pinned, slotless, edges, incoming, live, doomed, lost>>

Emptied == {n \in pinned \ live : major \/ n \in young}

Sweep(n) ==
    /\ Slice("Sweep") /\ n \in left
    /\ kids' = IF n \in Emptied THEN [kids EXCEPT ![n] = {}] ELSE kids
    /\ lost' = lost \cup ({n} \cap Emptied \cap Reachable)
    /\ left' = left \ {n}
    /\ UNCHANGED <<heap, regs, root, young, remembered, phase, major, stale,
                   pinned, slotless, edges, incoming, live, doomed>>

(* Phase RetireRoots.                                                       *)
Retire ==
    /\ Slice("Sweep") /\ left = {}
    /\ phase' = "Release" /\ left' = pinned
    /\ root' = [n \in Nodes |-> IF root[n] = "retired" THEN "none" ELSE root[n]]
    /\ UNCHANGED <<heap, kids, regs, young, remembered, major, stale,
                   pinned, slotless, edges, incoming, live, doomed, lost>>

(* The phases from CompactClasses to ReleaseNodes: the slot or the arena    *)
(* gives up what is not live, and the graph lets go of it.                  *)
Release(n) ==
    /\ Slice("Release") /\ n \in left
    /\ heap' = IF n \in live THEN heap ELSE heap \ {n}
    /\ young' = young \cap heap'
    /\ remembered' = remembered \cap heap'
    /\ pinned' = pinned \ {n}
    /\ left' = left \ {n}
    /\ UNCHANGED <<kids, regs, root, phase, major, stale,
                   slotless, edges, incoming, live, doomed, lost>>

Cleared ==
    /\ stale' = FALSE /\ pinned' = {} /\ slotless' = {} /\ left' = {}
    /\ edges' = [n \in Nodes |-> {}] /\ incoming' = [n \in Nodes |-> 0]
    /\ live' = {}

Finish ==
    /\ Slice("Release") /\ left = {}
    /\ phase' = "Done" /\ Cleared
    /\ UNCHANGED <<program, major, doomed, lost>>

(* The epoch has moved, or a slice ran out of its budget or of memory: the  *)
(* graph is let go of, and what it was to release stays where it is.        *)
Abort ==
    /\ Routine /\ lost = {}
    /\ phase' = "Idle" /\ Cleared
    /\ doomed' = {}
    /\ UNCHANGED <<program, major, lost>>

-----------------------------------------------------------------------------
(* A full collection, at once: collect_classes on pressure and collect at   *)
(* shutdown. It traces anew and drops the routine collection's graph first. *)

FullSeen(m) == [n \in Nodes |-> IF ~m /\ OldClean(n) THEN {} ELSE kids[n]]

(* Wrong on purpose: one owner too many is taken for the collector's.       *)
BrokenFullHeld(m, n) ==
    \/ ~m /\ (n \in Arena \/ n \notin young)
    \/ Count({r \in Regs : regs[r] = n}) + Count(Parents(n))
       > 1 + Count({k \in heap : n \in FullSeen(m)[k]})

(* Wrong on purpose: what a dropped root recorded still counts as a root.   *)
BrokenRetiredHeld(m, n) ==
    \/ root[n] # "none"
    \/ ~m /\ (n \in Arena \/ n \notin young)
    \/ Count({r \in Regs : regs[r] = n}) + Count(Parents(n))
       > Count({k \in heap : n \in FullSeen(m)[k]})

(* The owners but for the record, the slot and the graph.                   *)
FullHeld(m, n) ==
    \/ root[n] = "live"
    \/ ~m /\ (n \in Arena \/ n \notin young)
    \/ Count({r \in Regs : regs[r] = n}) + Count(Parents(n))
       > Count({k \in heap : n \in FullSeen(m)[k]})

FullLive(m) == Closure({n \in heap : FullHeld(m, n)}, FullSeen(m))

(* Everything live is old afterwards, and none of it refers to young nodes. *)
Full(m) ==
    /\ heap # {} /\ lost = {}
    /\ phase' = "Done" /\ major' = m /\ Cleared
    /\ doomed' = heap \ Reachable
    /\ heap' = FullLive(m)
    /\ kids' = [n \in Nodes |-> IF n \in FullLive(m) THEN kids[n] ELSE {}]
    /\ young' = {} /\ remembered' = {}
    /\ root' = [n \in Nodes |-> IF root[n] = "retired" THEN "none" ELSE root[n]]
    /\ UNCHANGED <<regs, lost>>

-----------------------------------------------------------------------------
ProgramNext ==
    \/ \E n \in Nodes, r \in Regs : \E S \in {{}} \cup {{k} : k \in InRegisters} : New(n, r, S)
    \/ \E from, r \in Regs, n \in Nodes : Get(from, r, n)
    \/ \E r \in Regs : Forget(r)
    \/ \E to, r \in Regs : Put(to, r)
    \/ \E from \in Regs, n \in Nodes : RemoveChild(from, n)
    \/ \E n \in Nodes : Retain(n)
    \/ \E n \in Nodes : DropRoot(n)

SliceNext ==
    \/ Roots
    \/ \E n \in Nodes : Trace(n)
    \/ Go("Trace", "Classify")
    \/ \E n \in Nodes : Classify(n)
    \/ Mark
    \/ \E n \in Nodes : Promote(n)
    \/ Go("Promote", "Remember")
    \/ \E n \in Nodes : Remember(n)
    \/ Go("Remember", "Sweep")
    \/ \E n \in Nodes : Sweep(n)
    \/ Retire
    \/ \E n \in Nodes : Release(n)
    \/ Finish

GCNext ==
    \/ ProgramNext
    \/ \E m \in BOOLEAN : Start(m)
    \/ SliceNext
    \/ Abort
    \/ \E m \in BOOLEAN : Full(m)

(* The bounds.                                                              *)
Bounded ==
    /\ Count({n \in Nodes : root[n] # "none"}) <= MaxRoots
    /\ Count({e \in Nodes \X Nodes : e[2] \in kids[e[1]]}) <= MaxEdges

GCSpec == GCInit /\ [][GCNext /\ Bounded']_gcVars

-----------------------------------------------------------------------------
(* Properties.                                                              *)

(* What the specification says of the collector, and the comment at its     *)
(* classification that every owner it has not traced is a root: nothing     *)
(* that the program can reach is emptied. The owners of the nodes are read  *)
(* one after the other, over several slices, and a read moves a reference   *)
(* from a container to a register without a trace of it.                    *)
NothingLost == lost = {}

(* A routine collection that was not told to start over classifies the      *)
(* graph as it is: a write to anything traced has been noticed, although    *)
(* the program ran between the slices.                                      *)
SnapshotTrue ==
    phase = "Classify" /\ ~stale => \A n \in pinned : edges[n] = Seen(n)

(* A major collection that ends has released everything that was garbage    *)
(* when it began: cycles, cycles held by the record of a dropped root, and  *)
(* what a sliced collection saw while the program went on.                  *)
GarbageGone == phase = "Done" /\ major => doomed \cap heap = {}

(* At no point would a full collection, minor or major, empty a node that   *)
(* the program can reach: it counts all the owners at one moment, and a     *)
(* clean old node refers to no young one that only it holds.                *)
FullSweepsOnlyGarbage == \A m \in BOOLEAN : Reachable \subseteq FullLive(m)
=============================================================================
