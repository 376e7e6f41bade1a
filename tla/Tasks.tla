------------------------------- MODULE Tasks -------------------------------
(***************************************************************************)
(* Tasks of the Lana VM: the scheduler, FORK, JOIN, JOIN_TIMEOUT, CANCEL   *)
(* and task groups of vm/rust/lana-vm/src/vm.rs.                           *)
(*                                                                         *)
(* The root program runs on Main, the tasks it and its tasks fork on the   *)
(* Workers.  A VM that joins a task helps: while the task is not complete  *)
(* it takes whatever task is first in the queue and runs it on its own     *)
(* thread, on top of its own stack.  So a thread runs a stack of VMs, of   *)
(* which only the last makes progress.                                     *)
(*                                                                         *)
(* What a program does is open: between two instructions a VM takes any of *)
(* the steps below.  Every failure ends the VM that meets it, there is no  *)
(* way to catch one.  A VM joins a handle once (joining it again returns   *)
(* the saved result) and JOIN_ALL is a series of JOINs.  One Shared        *)
(* Information stands for all: only its revision matters here, and the     *)
(* waits for it that name no timeout.                                      *)
(***************************************************************************)
EXTENDS Naturals, Sequences, FiniteSets, SequencesExt

CONSTANTS Main, Workers, \* threads, Main is not one of the Workers
          TaskLimit,     \* configured_task_limit
          MaxTasks,      \* bound on the tasks ever forked
          MaxGroups,     \* bound on the groups one VM opens
          MaxRevision    \* bound on the observations of Shared Information

ASSUME Bounds ==
    TaskLimit \in Nat /\ MaxTasks \in Nat /\ MaxGroups \in Nat /\ MaxRevision \in Nat

Threads == {Main} \cup Workers
Root == 0
TaskIds == 1 .. MaxTasks
Programs == {Root} \cup TaskIds

VARIABLES
    pc,       \* what each VM is at: see TypeOK
    target,   \* the task it joins
    groups,   \* the task groups it has open, innermost last
    made,     \* the number of groups it opened
    todo,     \* the tasks of the group it closes that it has yet to join
    closing,  \* it is closing a group
    bad,      \* a task of the group it closes failed
    queue, born, parent, group, live, stopping, \* the scheduler
    cancelled, status, joined,                  \* the task handles
    stack,    \* the Programs each thread runs, the one that makes progress last
    sleeping, \* workers waiting for the queue
    exited,   \* workers that are gone
    revision  \* of the Shared Information

interpreters == <<target, groups, made, todo, closing, bad>>
scheduler == <<queue, born, parent, group, live, stopping>>
handles == <<cancelled, status, joined>>
threads == <<stack, sleeping, exited>>
vars == <<pc, interpreters, scheduler, handles, threads, revision>>

Completed(t) == status[t] # "none"

(* The tasks a VM forked and has not joined: its own list, and together    *)
(* the scheduler's list of all tasks.                                      *)
Registered == (1 .. born) \ joined
TasksOf(v) == {t \in Registered : parent[t] = v}
CurrentGroup(v) == IF groups[v] = <<>> THEN 0 ELSE Last(groups[v])

At(th, v, where) == v = Last(stack[th]) /\ pc[v] = where

(* The dispatch loop looks at the flag before every instruction. *)
Running(th, v) == At(th, v, "run") /\ ~cancelled[v]

Goes(v, where) == pc' = [pc EXCEPT ![v] = where]

-----------------------------------------------------------------------------
Init ==
    /\ pc = [v \in Programs |-> IF v = Root THEN "run" ELSE "off"]
    /\ target = [v \in Programs |-> Root]
    /\ groups = [v \in Programs |-> <<>>] /\ made = [v \in Programs |-> 0]
    /\ todo = [v \in Programs |-> {}]
    /\ closing = [v \in Programs |-> FALSE] /\ bad = [v \in Programs |-> FALSE]
    /\ queue = <<>> /\ born = 0 /\ live = 0 /\ stopping = FALSE
    /\ parent = [t \in TaskIds |-> Root] /\ group = [t \in TaskIds |-> 0]
    /\ cancelled = [v \in Programs |-> FALSE] /\ status = [v \in Programs |-> "none"]
    /\ joined = {}
    /\ stack = [th \in Threads |-> IF th = Main THEN <<Root>> ELSE <<>>]
    /\ sleeping = {} /\ exited = {}
    /\ revision = 0

(* The end of a VM's run.  A task publishes its status and wakes whoever   *)
(* joins it (run_task); the end of the root shuts the scheduler down,      *)
(* which cancels every task and wakes the workers.                         *)
Ends(th, v, outcome) ==
    /\ stack' = [stack EXCEPT ![th] = Front(@)]
    /\ status' = [status EXCEPT ![v] = outcome]
    /\ pc' = [u \in Programs |->
                 IF u = v THEN "ended"
                 ELSE IF pc[u] = "asleep" /\ target[u] = v THEN "check"
                 ELSE pc[u]]
    /\ IF v = Root
         THEN /\ stopping' = TRUE
              /\ cancelled' = [u \in Programs |-> u \in Registered \/ cancelled[u]]
              /\ sleeping' = {}
         ELSE UNCHANGED <<stopping, cancelled, sleeping>>

Return(th, v) ==
    /\ Running(th, v)
    /\ Ends(th, v, "ok")
    /\ UNCHANGED <<interpreters, queue, born, parent, group, live, joined,
                   exited, revision>>

Fail(th, v) ==
    /\ Running(th, v)
    /\ Ends(th, v, "error")
    /\ UNCHANGED <<interpreters, queue, born, parent, group, live, joined,
                   exited, revision>>

Interrupted(th, v) ==
    /\ At(th, v, "run") /\ cancelled[v]
    /\ Ends(th, v, "cancelled")
    /\ UNCHANGED <<interpreters, queue, born, parent, group, live, joined,
                   exited, revision>>

-----------------------------------------------------------------------------
(* FORK: start_task takes a slot, builds the child outside the lock and    *)
(* queues it, unless the program was told to stop meanwhile.               *)

Forking == {v \in Programs : pc[v] = "forking"}

SlotFree == live < TaskLimit

Reserve(th, v) ==
    /\ Running(th, v)
    /\ ~stopping /\ SlotFree
    /\ born + Cardinality(Forking) < MaxTasks
    /\ live' = live + 1
    /\ Goes(v, "forking")
    /\ UNCHANGED <<interpreters, queue, born, parent, group, stopping, handles,
                   threads, revision>>

ForkRefused(th, v) ==
    /\ Running(th, v)
    /\ stopping \/ ~SlotFree
    /\ Ends(th, v, "error")
    /\ UNCHANGED <<interpreters, queue, born, parent, group, live, joined,
                   exited, revision>>

MayQueue(v) == ~cancelled[v] /\ ~stopping
(* Wrong on purpose: does not look again before it queues the child. *)
BrokenEnqueues(v) == TRUE
Enqueues(v) == MayQueue(v)

(* Building the child failed, or the second look at the flags refuses it:  *)
(* the slot is given back.                                                 *)
ForkFails(th, v) ==
    /\ At(th, v, "forking")
    /\ live' = live - 1
    /\ Ends(th, v, IF cancelled[v] THEN "cancelled" ELSE "error")
    /\ UNCHANGED <<interpreters, queue, born, parent, group, joined, exited,
                   revision>>

Enqueue(th, v) ==
    /\ At(th, v, "forking")
    /\ Enqueues(v)
    /\ born' = born + 1
    /\ parent' = [parent EXCEPT ![born'] = v]
    /\ group' = [group EXCEPT ![born'] = CurrentGroup(v)]
    /\ queue' = Append(queue, born')
    /\ IF sleeping = {} THEN sleeping' = {}
       ELSE \E w \in sleeping : sleeping' = sleeping \ {w}
    /\ Goes(v, "run")
    /\ UNCHANGED <<interpreters, live, stopping, handles, stack, exited, revision>>

-----------------------------------------------------------------------------
(* JOIN: wait_task with no timeout.  It looks at the task, takes the first *)
(* task of the queue and runs it, or, when the queue is empty, looks again *)
(* under the task's lock and sleeps until run_task notifies it.            *)

Join(th, v, t) ==
    /\ Running(th, v)
    /\ t \in TasksOf(v)
    /\ target' = [target EXCEPT ![v] = t]
    /\ Goes(v, "check")
    /\ UNCHANGED <<groups, made, todo, closing, bad, scheduler, handles,
                   threads, revision>>

NotYet(th, v) ==
    /\ At(th, v, "check") /\ ~Completed(target[v])
    /\ Goes(v, "help")
    /\ UNCHANGED <<interpreters, scheduler, handles, threads, revision>>

(* Wrong on purpose: waits for a worker to run what is queued. *)
BrokenMayHelp == FALSE
MayHelp == queue # <<>>

Help(th, v) ==
    /\ At(th, v, "help") /\ MayHelp
    /\ stack' = [stack EXCEPT ![th] = Append(@, Head(queue))]
    /\ queue' = Tail(queue)
    /\ pc' = [pc EXCEPT ![v] = "check", ![Head(queue)] = "run"]
    /\ UNCHANGED <<interpreters, born, parent, group, live, stopping, handles,
                   sleeping, exited, revision>>

NothingToHelp(th, v) ==
    /\ At(th, v, "help") /\ ~MayHelp
    /\ Goes(v, "drowsy")
    /\ UNCHANGED <<interpreters, scheduler, handles, threads, revision>>

(* Wrong on purpose: sleeps without looking again. *)
BrokenWakeful(v) == FALSE
Wakeful(v) == Completed(target[v])

FallsAsleep(th, v) ==
    /\ At(th, v, "drowsy")
    /\ Goes(v, IF Wakeful(v) THEN "check" ELSE "asleep")
    /\ UNCHANGED <<interpreters, scheduler, handles, threads, revision>>

(* Where a VM goes on after a join: its program, or the rest of the group. *)
Onward(v) == IF closing[v] THEN "closing" ELSE "run"

(* Wrong on purpose: the slot is not given back. *)
BrokenAfterJoin == live
AfterJoin == IF live > 0 THEN live - 1 ELSE 0

JoinedOk(th, v) ==
    /\ At(th, v, "check") /\ status[target[v]] = "ok"
    /\ joined' = joined \cup {target[v]}
    /\ live' = AfterJoin
    /\ target' = [target EXCEPT ![v] = Root]
    /\ Goes(v, Onward(v))
    /\ UNCHANGED <<groups, made, todo, closing, bad, queue, born, parent, group,
                   stopping, cancelled, status, threads, revision>>

(* The task failed or was cancelled, or its result could not be copied.    *)
(* JOIN fails with it and the task is not joined: it keeps its slot.       *)
JoinFailed(th, v) ==
    /\ At(th, v, "check") /\ ~closing[v] /\ Completed(target[v])
    /\ Ends(th, v, IF status[target[v]] = "ok" THEN "error" ELSE status[target[v]])
    /\ UNCHANGED <<interpreters, queue, born, parent, group, live, joined,
                   exited, revision>>

(* JOIN_TIMEOUT does not help, and fails when the time is over. *)
JoinTimeout(th, v, t) ==
    /\ Running(th, v)
    /\ t \in TasksOf(v)
    /\ target' = [target EXCEPT ![v] = t]
    /\ Goes(v, "timed")
    /\ UNCHANGED <<groups, made, todo, closing, bad, scheduler, handles,
                   threads, revision>>

InTime(th, v) ==
    /\ At(th, v, "timed") /\ Completed(target[v])
    /\ Goes(v, "check")
    /\ UNCHANGED <<interpreters, scheduler, handles, threads, revision>>

TimesOut(th, v) ==
    /\ At(th, v, "timed") /\ ~Completed(target[v])
    /\ Ends(th, v, "error")
    /\ UNCHANGED <<interpreters, queue, born, parent, group, live, joined,
                   exited, revision>>

(* CANCEL only raises the flag: a VM that sleeps is not woken. *)
Cancel(th, v, t) ==
    /\ Running(th, v)
    /\ t \in TasksOf(v) /\ ~cancelled[t]
    /\ cancelled' = [cancelled EXCEPT ![t] = TRUE]
    /\ UNCHANGED <<pc, interpreters, scheduler, status, joined, threads, revision>>

-----------------------------------------------------------------------------
(* TASKGROUP_ENTER and TASKGROUP_EXIT.  close_task_group cancels the       *)
(* group's tasks that are not complete and joins them in turn; a cancelled *)
(* task is forgiven, another failure is reported once all are complete.    *)

TaskgroupEnter(th, v) ==
    /\ Running(th, v)
    /\ made[v] < MaxGroups
    /\ made' = [made EXCEPT ![v] = @ + 1]
    /\ groups' = [groups EXCEPT ![v] = Append(@, made'[v])]
    /\ UNCHANGED <<pc, target, todo, closing, bad, scheduler, handles, threads,
                   revision>>

(* Wrong on purpose: does not wait for the tasks it cancels. *)
BrokenToClose(v, g) == {t \in TasksOf(v) : group[t] = g /\ Completed(t)}
ToClose(v, g) == {t \in TasksOf(v) : group[t] = g}

TaskgroupExit(th, v) ==
    /\ Running(th, v)
    /\ groups[v] # <<>>
    /\ LET g == CurrentGroup(v)
       IN  /\ todo' = [todo EXCEPT ![v] = ToClose(v, g)]
           /\ cancelled' = [u \in Programs |->
                 \/ cancelled[u]
                 \/ u \in TasksOf(v) /\ group[u] = g /\ ~Completed(u)]
    /\ groups' = [groups EXCEPT ![v] = Front(@)]
    /\ closing' = [closing EXCEPT ![v] = TRUE]
    /\ Goes(v, "closing")
    /\ UNCHANGED <<target, made, bad, scheduler, status, joined, threads,
                   revision>>

CloseNext(th, v) ==
    /\ At(th, v, "closing") /\ todo[v] # {}
    /\ \E t \in todo[v] :
         /\ \A u \in todo[v] : t <= u
         /\ target' = [target EXCEPT ![v] = t]
         /\ todo' = [todo EXCEPT ![v] = @ \ {t}]
    /\ Goes(v, "check")
    /\ UNCHANGED <<groups, made, closing, bad, scheduler, handles, threads,
                   revision>>

CloseTaskFailed(th, v) ==
    /\ At(th, v, "check") /\ closing[v] /\ Completed(target[v])
    /\ bad' = [bad EXCEPT ![v] = @ \/ status[target[v]] # "cancelled"]
    /\ Goes(v, "closing")
    /\ UNCHANGED <<target, groups, made, todo, closing, scheduler, handles,
                   threads, revision>>

Closed(th, v) ==
    /\ At(th, v, "closing") /\ todo[v] = {} /\ ~bad[v]
    /\ closing' = [closing EXCEPT ![v] = FALSE]
    /\ Goes(v, "run")
    /\ UNCHANGED <<target, groups, made, todo, bad, scheduler, handles, threads,
                   revision>>

ClosedWithError(th, v) ==
    /\ At(th, v, "closing") /\ todo[v] = {} /\ bad[v]
    /\ closing' = [closing EXCEPT ![v] = FALSE]
    /\ Ends(th, v, "error")
    /\ UNCHANGED <<target, groups, made, todo, bad, queue, born, parent, group,
                   live, joined, exited, revision>>

-----------------------------------------------------------------------------
(* shared_wait with timeout 0 sleeps until the revision moves; an          *)
(* observation wakes every VM that does.                                   *)

SharedWait(th, v) ==
    /\ Running(th, v)
    /\ Goes(v, "shared")
    /\ UNCHANGED <<interpreters, scheduler, handles, threads, revision>>

Observe(th, v) ==
    /\ Running(th, v)
    /\ revision < MaxRevision
    /\ revision' = revision + 1
    /\ pc' = [u \in Programs |-> IF pc[u] = "shared" THEN "run" ELSE pc[u]]
    /\ UNCHANGED <<interpreters, scheduler, handles, threads>>

-----------------------------------------------------------------------------
(* worker_loop. *)

Idle(w) == stack[w] = <<>> /\ w \notin sleeping \cup exited

(* Wrong on purpose: the task stays in the queue. *)
BrokenAfterTake == queue
AfterTake == Tail(queue)

Take(w) ==
    /\ Idle(w) /\ queue # <<>>
    /\ stack' = [stack EXCEPT ![w] = <<Head(queue)>>]
    /\ queue' = AfterTake
    /\ Goes(Head(queue), "run")
    /\ UNCHANGED <<interpreters, born, parent, group, live, stopping, handles,
                   sleeping, exited, revision>>

WorkerSleeps(w) ==
    /\ Idle(w) /\ queue = <<>> /\ ~stopping
    /\ sleeping' = sleeping \cup {w}
    /\ UNCHANGED <<pc, interpreters, scheduler, handles, stack, exited, revision>>

WorkerExits(w) ==
    /\ Idle(w) /\ queue = <<>> /\ stopping
    /\ exited' = exited \cup {w}
    /\ UNCHANGED <<pc, interpreters, scheduler, handles, stack, sleeping, revision>>

-----------------------------------------------------------------------------
Program(th, v) ==
    \/ Return(th, v) \/ Fail(th, v) \/ Interrupted(th, v)
    \/ Reserve(th, v) \/ ForkRefused(th, v) \/ ForkFails(th, v) \/ Enqueue(th, v)
    \/ \E t \in TaskIds : Join(th, v, t) \/ JoinTimeout(th, v, t) \/ Cancel(th, v, t)
    \/ NotYet(th, v) \/ Help(th, v) \/ NothingToHelp(th, v) \/ FallsAsleep(th, v)
    \/ JoinedOk(th, v) \/ JoinFailed(th, v) \/ InTime(th, v) \/ TimesOut(th, v)
    \/ TaskgroupEnter(th, v) \/ TaskgroupExit(th, v) \/ CloseNext(th, v)
    \/ CloseTaskFailed(th, v) \/ Closed(th, v) \/ ClosedWithError(th, v)
    \/ SharedWait(th, v) \/ Observe(th, v)

Worker(w) == Take(w) \/ WorkerSleeps(w) \/ WorkerExits(w)

Step(th) ==
    \/ stack[th] # <<>> /\ Program(th, Last(stack[th]))
    \/ th \in Workers /\ Worker(th)

Next == \E th \in Threads : Step(th)

(* Every thread that can run does so in the end: threads of the operating  *)
(* system.  The bounds, like the VM's instruction limit, end every         *)
(* program.                                                                *)
Fairness == \A th \in Threads : WF_vars(Step(th))
Spec == Init /\ [][Next]_vars /\ Fairness

-----------------------------------------------------------------------------
(* Properties. *)

Locations == {"off", "run", "forking", "check", "help", "drowsy", "asleep", "timed",
              "closing", "shared", "ended"}

TypeOK ==
    /\ pc \in [Programs -> Locations]
    /\ target \in [Programs -> Programs] /\ made \in [Programs -> 0 .. MaxGroups]
    /\ todo \in [Programs -> SUBSET TaskIds]
    /\ closing \in [Programs -> BOOLEAN] /\ bad \in [Programs -> BOOLEAN]
    /\ groups \in [Programs -> Seq(1 .. MaxGroups)]
    /\ queue \in Seq(TaskIds) /\ born \in 0 .. MaxTasks
    /\ parent \in [TaskIds -> Programs] /\ group \in [TaskIds -> 0 .. MaxGroups]
    /\ live \in 0 .. TaskLimit /\ stopping \in BOOLEAN
    /\ cancelled \in [Programs -> BOOLEAN]
    /\ status \in [Programs -> {"none", "ok", "cancelled", "error"}]
    /\ joined \subseteq TaskIds
    /\ stack \in [Threads -> Seq(Programs)]
    /\ sleeping \subseteq Workers /\ exited \subseteq Workers
    /\ revision \in 0 .. MaxRevision

(* A task is in one place until it completes: not yet queued, in the       *)
(* queue, or on one thread's stack; a completed one is nowhere.  So no     *)
(* task runs twice, helpers and workers competing for the queue.           *)
RunsOnce ==
    \A t \in 1 .. born :
        Cardinality({i \in DOMAIN queue : queue[i] = t})
          + Cardinality({p \in Threads \X (1 .. MaxTasks + 1) :
                /\ p[2] \in DOMAIN stack[p[1]]
                /\ stack[p[1]][p[2]] = t})
        = IF Completed(t) THEN 0 ELSE 1

(* The slots in use are those of the tasks that were not joined            *)
(* successfully, and of the forks under way: whatever fails, no slot is    *)
(* given back twice or lost to a fork that did not happen (start_task).    *)
SlotsCounted == live = Cardinality(Registered) + Cardinality(Forking)

(* When the root has ended, every task that is not complete was told to    *)
(* stop, the ones whose fork raced with the shutdown included              *)
(* (Scheduler::shutdown, start_task).                                      *)
AllToldToStop == stopping => \A t \in Registered : cancelled[t] \/ Completed(t)

(* Structured concurrency: a program that went on after TASKGROUP_EXIT     *)
(* left no task of the group unfinished (close_task_group).                *)
GroupsFinish ==
    \A t \in 1 .. born :
        LET v == parent[t]
        IN  group[t] # 0 /\ ~closing[v] => Completed(t) \/ Contains(groups[v], group[t])

(* No join deadlocks, whatever is forked, joined and helped and however    *)
(* few workers there are: the program ends and the workers exit, unless    *)
(* some VM sleeps in a shared_wait (run, wait_task, worker_loop).          *)
Finished == pc[Root] = "ended" /\ exited = Workers
EndsUnlessShared == <>(Finished \/ \E v \in Programs : pc[v] = "shared")

(* Not true of the code.  Once the root has ended the scheduler's shutdown *)
(* stops every task and the program ends.                                  *)
ShutdownEnds == stopping ~> Finished
=============================================================================
