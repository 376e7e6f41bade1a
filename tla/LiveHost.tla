------------------------------ MODULE LiveHost ------------------------------
(* A program kept alive between calls: its registered names are observed    *)
(* and inspected from outside, and while it is suspended observations wait  *)
(* in a queue with a limit on its bytes.  One instance; a deleted one may   *)
(* be started anew.  The VM is the observations it has taken.               *)
EXTENDS Naturals, Sequences, FiniteSets

CONSTANTS
    Names,         \* registered names, some of them roots
    Roots,
    Depends,       \* Depends[r]: the names a root's observation recomputes
    Sizes,         \* bytes of an observation
    MaxQueueBytes, \* MAX_QUEUE_BYTES, and what the heap gives
    MaxAccepted    \* bound on the observations of one instance

VARIABLES
    state,       \* LiveInstance::state, or "none" without an instance
    queue,       \* LiveInstance::queue: numbers of observations with their bytes
    queueBytes,  \* LiveInstance::queue_bytes
    cache,       \* LiveInstance::inspections: revision, partial, and what it shows
    applied,     \* the observations the VM has published, with the root of each
    roots,       \* the roots of the observations that were accepted
    answers      \* whether they went well, told in this order

ASSUME LiveConstants ==
    /\ Roots \subseteq Names /\ Depends \in [Roots -> SUBSET Names]
    /\ Sizes \subseteq Nat /\ MaxQueueBytes \in Nat

instance == <<state, queue, queueBytes, cache>>
LHvars == <<instance, applied, roots, answers>>

(* What the VM holds under a name: the observations that reached it, each   *)
(* with its number.  A node's revision is that of the last one.             *)
Reaching(held, n) == {i \in 1 .. Len(held) : n \in Depends[held[i].root]}
VMShows(held, n) == {held[i] : i \in Reaching(held, n)}
RevisionOf(held, n) ==
    IF Reaching(held, n) = {} THEN 0
    ELSE CHOOSE i \in Reaching(held, n) : \A j \in Reaching(held, n) : j <= i

NoEntry == [revision |-> 0, partial |-> TRUE, shows |-> {}]
Entry(held, n) == [revision |-> RevisionOf(held, n), partial |-> FALSE, shows |-> VMShows(held, n)]
PartialEntry(held, n) == [revision |-> RevisionOf(held, n), partial |-> TRUE, shows |-> {}]

LHInit ==
    /\ state = "none" /\ queue = <<>> /\ queueBytes = 0
    /\ cache = [n \in Names |-> NoEntry]
    /\ applied = <<>> /\ roots = <<>> /\ answers = <<>>

(* refresh_inspections stops at the first name that fails, `broken`, which  *)
(* it leaves partial; those before it, in any order, are made current.      *)
Stale(c, held, n) == c[n].revision # RevisionOf(held, n) \/ c[n].partial
Refreshed(c, held, before, broken) ==
    [n \in Names |-> CASE n \in broken -> PartialEntry(held, n)
                       [] n \in before /\ Stale(c, held, n) -> Entry(held, n)
                       [] OTHER -> c[n]]

(* One refresh: everything, or some names and then one that failed.         *)
Refreshes(c, held) ==
    {[cache |-> Refreshed(c, held, Names, {}), failed |-> FALSE]} \cup
    {[cache |-> Refreshed(c, held, b[1], {b[2]}), failed |-> TRUE] :
        b \in {p \in (SUBSET Names) \X Names : p[2] \notin p[1] /\ Stale(c, held, p[2])}}

StartLive ==
    /\ state = "none" /\ state' = "Quiescent"
    /\ cache' = Refreshed(cache, <<>>, Names, {})
    /\ UNCHANGED <<queue, queueBytes, applied, roots, answers>>

DeleteLive ==
    /\ state # "none" /\ state' = "none"
    /\ queue' = <<>> /\ queueBytes' = 0
    /\ cache' = [n \in Names |-> NoEntry]
    /\ applied' = <<>> /\ roots' = <<>> /\ answers' = <<>>

Alive == state \in {"Quiescent", "Suspended"}

-----------------------------------------------------------------------------
(* apply: what one observation leaves of the VM, the cache and the state.   *)

Situation ==
    [applied |-> applied, cache |-> cache, state |-> state, answers |-> answers,
     queue |-> queue, queueBytes |-> queueBytes]

(* Wrong on purpose: an observation with an inspection that failed is said  *)
(* to have failed.                                                          *)
BrokenAnswer(published, inspected) == published /\ inspected

Answer(published, inspected) == published

(* Where the evidence does not decode, or the VM refuses it, nothing is     *)
(* published; a terminal error fails the instance, after publishing too.    *)
Unpublished(s, st) ==
    [s EXCEPT !.answers = Append(@, Answer(FALSE, TRUE)), !.state = st]

Published(s, held, r, st) ==
    [s EXCEPT !.applied = held, !.cache = r.cache, !.state = st,
              !.answers = Append(@, Answer(TRUE, ~r.failed))]

Applied(s, id, root) ==
    {Unpublished(s, st) : st \in {"Quiescent", "Failed"}} \cup
    LET held == Append(s.applied, [id |-> id, root |-> root])
    IN  UNION {{Published(s, held, r, st) :
                   st \in IF r.failed THEN {"Quiescent", "Failed"} ELSE {"Quiescent"}} :
               r \in Refreshes(s.cache, held)}

Becomes(s) ==
    /\ applied' = s.applied /\ cache' = s.cache
    /\ state' = s.state /\ answers' = s.answers
    /\ queue' = s.queue /\ queueBytes' = s.queueBytes

Accepts(root) == Len(roots) < MaxAccepted /\ roots' = Append(roots, root)

ObserveLive(root) ==
    /\ state = "Quiescent" /\ Accepts(root)
    /\ \E s \in Applied(Situation, Len(roots) + 1, root) : Becomes(s)

(* One too many for the limit is refused, and not accepted.                 *)
ObserveSuspended(root, bytes) ==
    /\ state = "Suspended" /\ Accepts(root)
    /\ queueBytes + bytes <= MaxQueueBytes
    /\ queue' = Append(queue, [id |-> Len(roots) + 1, bytes |-> bytes])
    /\ queueBytes' = queueBytes + bytes
    /\ UNCHANGED <<state, cache, applied, answers>>

PauseLive == Alive /\ state' = "Suspended" /\
    UNCHANGED <<queue, queueBytes, cache, applied, roots, answers>>

(* resume_live takes the queue from its front, until one fails the instance.*)
Popped(s) ==
    [s EXCEPT !.queue = Tail(@), !.queueBytes = @ - Head(s.queue).bytes]

Taken(s) ==
    IF s.state = "Failed" \/ s.queue = <<>> THEN {s}
    ELSE Applied(Popped(s), Head(s.queue).id, roots[Head(s.queue).id])

Drained[k \in 0 .. Len(queue)] ==
    IF k = 0 THEN {[Situation EXCEPT !.state = "Quiescent"]}
    ELSE UNION {Taken(s) : s \in Drained[k - 1]}

ResumeLive ==
    /\ Alive
    /\ \E s \in Drained[Len(queue)] : Becomes(s)
    /\ UNCHANGED roots

(* Wrong on purpose: what is cached is shown, of whatever revision.         *)
BrokenInspection(n) == cache[n]

(* inspect_live of an instance that failed shows what is cached for the     *)
(* current revision, or that there is nothing.                              *)
Inspection(n) ==
    IF cache[n].revision = RevisionOf(applied, n) THEN cache[n] ELSE PartialEntry(applied, n)

(* One that is alive is evaluated, which may fail it.                       *)
InspectLive(n) ==
    /\ Alive
    /\ \/ cache' = [cache EXCEPT ![n] = Entry(applied, n)] /\ UNCHANGED state
       \/ state' = "Failed" /\ UNCHANGED cache
    /\ UNCHANGED <<queue, queueBytes, applied, roots, answers>>

LHNext ==
    \/ StartLive \/ DeleteLive \/ PauseLive \/ ResumeLive
    \/ \E r \in Roots : ObserveLive(r)
    \/ \E r \in Roots, bytes \in Sizes : ObserveSuspended(r, bytes)
    \/ \E n \in Names : InspectLive(n)

LHSpec == LHInit /\ [][LHNext]_LHvars

-----------------------------------------------------------------------------
(* Properties.                                                              *)

(* The bytes of the first observations of a queue.                          *)
Bytes(q) ==
    LET total[i \in 0 .. Len(q)] == IF i = 0 THEN 0 ELSE total[i - 1] + q[i].bytes
    IN  total

(* Observations are told about in the order they were accepted, each once,  *)
(* over pauses, resumes and failures; those not told about are queued, in   *)
(* their order; the VM holds exactly those that were said to go well; and   *)
(* the bytes counted against the limit are those of the queue, whatever     *)
(* part of it a failing resume has taken (observe_live, resume_live).       *)
ObservationsInOrder ==
    /\ \A i \in 1 .. Len(queue) : queue[i].id = Len(answers) + i
    /\ Len(roots) = Len(answers) + Len(queue)
    /\ {applied[i] : i \in 1 .. Len(applied)} =
           {[id |-> i, root |-> roots[i]] : i \in {j \in 1 .. Len(answers) : answers[j]}}
    /\ \A i, j \in 1 .. Len(applied) : i < j => applied[i].id < applied[j].id
    /\ queueBytes = Bytes(queue)[Len(queue)]
    /\ queueBytes <= MaxQueueBytes
    /\ queue # <<>> => state \in {"Suspended", "Failed"}

(* An instance that failed may be inspected still: what it shows as whole   *)
(* is what the VM holds now, though the refresh stopped at some name.       *)
FailedShowsCurrent ==
    state = "Failed" => \A n \in Names :
        Inspection(n).partial \/ Inspection(n).shows = VMShows(applied, n)
=============================================================================
