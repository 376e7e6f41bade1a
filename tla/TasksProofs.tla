---------------------------- MODULE TasksProofs ----------------------------
(***************************************************************************)
(* Theorems about Tasks, for any number of workers, tasks and groups.      *)
(*                                                                         *)
(* The invariant says where a task is (Places), that the tasks start in    *)
(* the order they were forked in and so lie on a thread's stack in that    *)
(* order (Order), what a VM that joins waits for (Waits, Sleepers), that   *)
(* the slots are those of the tasks and forks there are (Slots), and which *)
(* tasks of a group are still to be waited for (Groups).                   *)
(***************************************************************************)
EXTENDS Tasks, TLAPS, FiniteSetTheorems, SequenceTheorems, WellFoundedInduction

(* A VM that is on a stack. *)
Alive == {v \in Programs : pc[v] \notin {"off", "ended"}}

(* A forked task is off until it is taken from the queue, then on exactly one *)
(* thread's stack, and ended when it has a status.                            *)
Places ==
    /\ pc[Root] # "off"
    /\ \A t \in TaskIds :
          pc[t] = "off" <=> (born < t \/ \E i \in 1 .. Len(queue) : queue[i] = t)
    /\ \A i \in 1 .. Len(queue) : queue[i] <= born
    /\ \A v \in Programs : status[v] # "none" <=> pc[v] = "ended"
    /\ \A v \in Alive : \E th \in Threads : \E i \in 1 .. Len(stack[th]) : stack[th][i] = v
    /\ \A th \in Threads : \A i \in 1 .. Len(stack[th]) : stack[th][i] \in Alive
    /\ \A th, oth \in Threads :
          \A i \in 1 .. Len(stack[th]), j \in 1 .. Len(stack[oth]) :
              stack[th][i] = stack[oth][j] => th = oth

(* The queue is served in the order of the forks, so a VM is on a stack below *)
(* the ones forked after it, and its children come after it.                  *)
Order ==
    /\ \A i, j \in 1 .. Len(queue) : i < j => queue[i] < queue[j]
    /\ \A th \in Threads : \A i, j \in 1 .. Len(stack[th]) :
          i < j => stack[th][i] < stack[th][j]
    /\ \A i \in 1 .. Len(queue), v \in Programs :
          pc[v] # "off" => v < queue[i]
    /\ \A t \in 1 .. born : parent[t] < t

(* What a VM is at that has a task to join.                                   *)
Joining == {"check", "help", "drowsy", "asleep", "timed"}

(* A VM joins a task of its own that it has not joined, and while it closes a *)
(* group so are those left to join.                                           *)
Waits ==
    \A v \in Programs :
        /\ pc[v] \in Joining => target[v] \in TasksOf(v) \ todo[v]
        /\ todo[v] \subseteq TasksOf(v)
        /\ IF closing[v] THEN pc[v] \in (Joining \ {"timed"}) \cup {"closing"}
           ELSE todo[v] = {} /\ pc[v] # "closing"

(* A VM that sleeps in a join, or is about to, waits for a task that has   *)
(* started, and one that sleeps for a task that is not complete: no        *)
(* wake-up is lost.                                                        *)
Sleepers ==
    \A v \in Programs :
        /\ pc[v] \in {"drowsy", "asleep"} => pc[target[v]] # "off"
        /\ pc[v] = "asleep" => ~Completed(target[v])

(* Only complete tasks have been joined, and there is a number left for each  *)
(* fork under way.                                                            *)
Slots ==
    /\ joined \subseteq 1 .. born
    /\ \A t \in joined : Completed(t)
    /\ born + Cardinality(Forking) <= MaxTasks
    /\ SlotsCounted

(* The task t of a group of v is still waited for: the group is open, or v *)
(* is closing it and joins t now or later.                                 *)
Awaited(v, t) ==
    \/ \E i \in 1 .. Len(groups[v]) : groups[v][i] = group[t]
    \/ /\ closing[v]
       /\ t \in todo[v] \/ (pc[v] \in Joining /\ t = target[v])

Groups == \A t \in 1 .. born : group[t] # 0 /\ ~Completed(t) => Awaited(parent[t], t)

Inv == TypeOK /\ Places /\ Order /\ Waits /\ Sleepers /\ Slots /\ AllToldToStop /\ Groups

(* No join deadlocks, as far as a state can say it: while a VM sleeps in a *)
(* join some thread runs a younger VM that does not (wait_task).           *)
SomeoneAwake ==
    \A v \in Programs : pc[v] = "asleep" =>
       \E th \in Threads :
          stack[th] # <<>> /\ v < Last(stack[th]) /\ pc[Last(stack[th])] # "asleep"

-----------------------------------------------------------------------------
(* What a step does to the places of the tasks, and to their order. *)

(* The VMs that move stay on their stacks. *)
Moves ==
    /\ pc' \in [Programs -> Locations]
    /\ \A u \in Programs :
          pc'[u] = pc[u] \/ (u \in Alive /\ pc'[u] \notin {"off", "ended"})
    /\ UNCHANGED <<stack, queue, born, parent, status>>

(* The VM that runs on th ends. *)
Leaves(th, v) ==
    /\ v \in Alive
    /\ \E outcome \in {"ok", "cancelled", "error"} : Ends(th, v, outcome)
    /\ UNCHANGED <<queue, born, parent>>

LEMMA OnTop ==
    ASSUME TypeOK, NEW th \in Threads, stack[th] # <<>>
    PROVE  /\ Len(stack[th]) \in Nat \ {0}
           /\ Last(stack[th]) = stack[th][Len(stack[th])]
           /\ Last(stack[th]) \in Programs
BY DEF TypeOK, Last

LEMMA Kinds ==
    ASSUME TypeOK, Waits, NEW th \in Threads, NEW v \in Programs, Program(th, v)
    PROVE  Moves \/ Leaves(th, v) \/ Enqueue(th, v) \/ Help(th, v)
<1>1. CASE Return(th, v)
  BY <1>1 DEF Return, Running, At, Leaves, Alive
<1>2. CASE Fail(th, v)
  BY <1>2 DEF Fail, Running, At, Leaves, Alive
<1>3. CASE Interrupted(th, v)
  BY <1>3 DEF Interrupted, Running, At, Leaves, Alive
<1>4. CASE Reserve(th, v)
  BY <1>4 DEF Reserve, Running, At, Goes, Moves, Alive, TypeOK, Locations, handles,
        threads
<1>5. CASE ForkRefused(th, v)
  BY <1>5 DEF ForkRefused, Running, At, Leaves, Alive
<1>6. CASE ForkFails(th, v)
  BY <1>6 DEF ForkFails, At, Leaves, Alive
<1>7. CASE \E t \in TaskIds : Join(th, v, t)
  BY <1>7 DEF Join, Running, At, Goes, Moves, Alive, TypeOK, Locations, scheduler,
        handles, threads
<1>8. CASE \E t \in TaskIds : JoinTimeout(th, v, t)
  BY <1>8 DEF JoinTimeout, Running, At, Goes, Moves, Alive, TypeOK, Locations,
        scheduler, handles, threads
<1>9. CASE \E t \in TaskIds : Cancel(th, v, t)
  BY <1>9 DEF Cancel, Moves, TypeOK, scheduler, threads
<1>10. CASE NotYet(th, v)
  BY <1>10 DEF NotYet, At, Goes, Moves, Alive, TypeOK, Locations, scheduler, handles,
        threads
<1>11. CASE NothingToHelp(th, v)
  BY <1>11 DEF NothingToHelp, At, Goes, Moves, Alive, TypeOK, Locations, scheduler,
        handles, threads
<1>12. CASE FallsAsleep(th, v)
  BY <1>12 DEF FallsAsleep, At, Goes, Moves, Alive, TypeOK, Locations, scheduler,
        handles, threads
<1>13. CASE JoinedOk(th, v)
  BY <1>13 DEF JoinedOk, At, Goes, Onward, Moves, Alive, TypeOK, Locations, threads
<1>14. CASE JoinFailed(th, v)
  <2>1. target[v] \in Programs
    BY DEF TypeOK
  <2>2. status[target[v]] \in {"none", "ok", "cancelled", "error"}
    BY <2>1 DEF TypeOK
  <2>3. (IF status[target[v]] = "ok" THEN "error" ELSE status[target[v]]) \in {"ok", "cancelled", "error"}
    BY <1>14, <2>2 DEF JoinFailed, Completed
  <2>4. QED
    BY <1>14, <2>3 DEF JoinFailed, At, Leaves, Alive
<1>15. CASE InTime(th, v)
  BY <1>15 DEF InTime, At, Goes, Moves, Alive, TypeOK, Locations, scheduler, handles,
        threads
<1>16. CASE TimesOut(th, v)
  BY <1>16 DEF TimesOut, At, Leaves, Alive
<1>17. CASE TaskgroupEnter(th, v)
  BY <1>17 DEF TaskgroupEnter, Moves, TypeOK, scheduler, handles, threads
<1>18. CASE TaskgroupExit(th, v)
  BY <1>18 DEF TaskgroupExit, Running, At, Goes, Moves, Alive, TypeOK, Locations,
        scheduler, threads
<1>19. CASE CloseNext(th, v)
  BY <1>19 DEF CloseNext, At, Goes, Moves, Alive, TypeOK, Locations, scheduler, handles,
        threads
<1>20. CASE CloseTaskFailed(th, v)
  BY <1>20 DEF CloseTaskFailed, At, Goes, Moves, Alive, TypeOK, Locations, scheduler,
        handles, threads
<1>21. CASE Closed(th, v)
  BY <1>21 DEF Closed, At, Goes, Moves, Alive, TypeOK, Locations, scheduler, handles,
        threads
<1>22. CASE ClosedWithError(th, v)
  BY <1>22 DEF ClosedWithError, At, Leaves, Alive
<1>23. CASE SharedWait(th, v)
  BY <1>23 DEF SharedWait, Running, At, Goes, Moves, Alive, TypeOK, Locations,
        scheduler, handles, threads
<1>24. CASE Observe(th, v)
  BY <1>24 DEF Observe, Moves, Alive, TypeOK, Locations, scheduler, handles, threads
<1>25. QED
  BY <1>1, <1>2, <1>3, <1>4, <1>5, <1>6, <1>7, <1>8, <1>9, <1>10, <1>11, <1>12,
     <1>13, <1>14, <1>15, <1>16, <1>17, <1>18, <1>19, <1>20, <1>21, <1>22, <1>23,
     <1>24 DEF Program

LEMMA MovesKeepPlaces ==
    ASSUME TypeOK, Places, Order, Moves
    PROVE  Places' /\ Order'
<1>1. Alive' = Alive
  BY DEF Moves, Alive
<1>2. \A u \in Programs : (pc'[u] = "off" <=> pc[u] = "off") /\ (pc'[u] = "ended" <=> pc[u] = "ended")
  BY DEF Moves, Alive
<1>3. Root \in Programs /\ TaskIds \subseteq Programs
  BY DEF Programs
<1>4. UNCHANGED <<stack, queue, born, parent, status>>
  BY DEF Moves
<1>5. Places'
  BY <1>1, <1>2, <1>3, <1>4 DEF Places
<1>6. Order'
  BY <1>2, <1>4 DEF Order
<1>7. QED
  BY <1>5, <1>6

(* The thread that goes on with the rest of its stack. *)
LEMMA Popped ==
    ASSUME NEW S, NEW s \in Seq(S), s # <<>>
    PROVE  /\ Front(s) \in Seq(S) /\ Len(Front(s)) = Len(s) - 1
           /\ \A i \in 1 .. Len(Front(s)) : Front(s)[i] = s[i]
<1> DEFINE n == Len(s) - 1
<1>1. n \in Int /\ n >= 0
  OBVIOUS
<1>2. \A i \in 1 .. n : s[i] \in S
  OBVIOUS
<1> HIDE DEF n
<1>3. /\ SubSeq(s, 1, n) \in Seq(S)
      /\ Len(SubSeq(s, 1, n)) = n
      /\ \A i \in 1 .. n : SubSeq(s, 1, n)[i] = s[i]
  BY <1>1, <1>2, SubSeqProperties
<1>4. QED
  BY <1>3 DEF n, Front

LEMMA LeavesKeepsPlaces ==
    ASSUME TypeOK, Places, Order, NEW th \in Threads, stack[th] # <<>>,
           NEW v \in Programs, v = Last(stack[th]), Leaves(th, v)
    PROVE  Places' /\ Order'
<1> DEFINE n == Len(stack[th])
<1>1. n \in Nat \ {0} /\ stack[th][n] = v
  BY OnTop
<1>2. PICK outcome \in {"ok", "cancelled", "error"} : Ends(th, v, outcome)
  BY DEF Leaves
<1>3. /\ UNCHANGED <<queue, born, parent>>
      /\ pc' = [u \in Programs |->
                 IF u = v THEN "ended"
                 ELSE IF pc[u] = "asleep" /\ target[u] = v THEN "check"
                 ELSE pc[u]]
      /\ status' = [status EXCEPT ![v] = outcome]
      /\ stack' = [stack EXCEPT ![th] = Front(@)]
  BY <1>2 DEF Leaves, Ends
<1>4. /\ stack[th] \in Seq(Programs) /\ stack'[th] = Front(stack[th])
      /\ \A oth \in Threads : oth # th => stack'[oth] = stack[oth]
  BY <1>3 DEF TypeOK
<1>5. /\ Len(stack'[th]) = n - 1
      /\ \A i \in 1 .. n - 1 : stack'[th][i] = stack[th][i]
  BY <1>4, Popped
<1>6. Alive' = Alive \ {v}
  BY <1>3 DEF Alive
<1>7. ASSUME NEW oth \in Threads, NEW i \in 1 .. Len(stack'[oth])
      PROVE  /\ i \in 1 .. Len(stack[oth]) /\ stack'[oth][i] = stack[oth][i]
             /\ stack[oth][i] # v
  <2>1. CASE oth # th
    <3>1. i \in 1 .. Len(stack[oth]) /\ stack'[oth][i] = stack[oth][i]
      BY <1>4, <2>1
    <3>2. n \in 1 .. Len(stack[th])
      BY <1>1
    <3>3. QED
      BY <1>1, <2>1, <3>1, <3>2 DEF Places
  <2>2. CASE oth = th
    <3>1. i \in 1 .. n - 1 /\ i \in 1 .. n /\ n \in 1 .. n /\ i < n
      BY <1>1, <1>5, <2>2
    <3>2. stack[th][i] < v
      BY <1>1, <3>1 DEF Order
    <3>3. stack[th][i] \in Nat
      BY <1>4, <3>1 DEF Programs, Root, TaskIds
    <3>4. QED
      BY <1>5, <2>2, <3>1, <3>2, <3>3
  <2>3. QED
    BY <2>1, <2>2
<1>8. ASSUME NEW u \in Alive'
      PROVE  \E oth \in Threads : \E i \in 1 .. Len(stack'[oth]) : stack'[oth][i] = u
  <2>1. u \in Alive /\ u # v
    BY <1>6
  <2>2. PICK oth \in Threads : \E i \in 1 .. Len(stack[oth]) : stack[oth][i] = u
    BY <2>1 DEF Places
  <2>3. PICK i \in 1 .. Len(stack[oth]) : stack[oth][i] = u
    BY <2>2
  <2>4. CASE oth # th
    BY <1>4, <2>3, <2>4
  <2>5. CASE oth = th
    <3>1. i \in 1 .. n - 1
      BY <1>1, <2>1, <2>3, <2>5
    <3>2. QED
      BY <1>5, <2>3, <2>5, <3>1
  <2>6. QED
    BY <2>4, <2>5
<1>9. \A u \in Programs : status'[u] # "none" <=> pc'[u] = "ended"
  <2> TAKE u \in Programs
  <2>1. status'[u] = IF u = v THEN outcome ELSE status[u]
    BY <1>3 DEF TypeOK
  <2>2. pc'[u] = "ended" <=> (u = v \/ pc[u] = "ended")
    BY <1>3
  <2>3. QED
    BY <2>1, <2>2 DEF Places
<1>10. \A u \in Programs : pc'[u] = "off" <=> pc[u] = "off"
  BY <1>3 DEF Leaves, Alive
<1>11. Places'
  <2>1. Root \in Programs /\ TaskIds \subseteq Programs
    BY DEF Programs
  <2>2. pc'[Root] # "off"
    BY <2>1, <1>10 DEF Places
  <2>3. \A t \in TaskIds :
          pc'[t] = "off" <=> (born' < t \/ \E i \in 1 .. Len(queue') : queue'[i] = t)
    BY <2>1, <1>3, <1>10 DEF Places
  <2>4. \A i \in 1 .. Len(queue') : queue'[i] <= born'
    BY <1>3 DEF Places
  <2>5. \A oth \in Threads : \A i \in 1 .. Len(stack'[oth]) : stack'[oth][i] \in Alive'
    BY <1>6, <1>7 DEF Places
  <2>6. \A a, b \in Threads :
          \A i \in 1 .. Len(stack'[a]), j \in 1 .. Len(stack'[b]) :
              stack'[a][i] = stack'[b][j] => a = b
    BY <1>7 DEF Places
  <2>7. QED
    BY <2>2, <2>3, <2>4, <1>9, <1>8, <2>5, <2>6 DEF Places
<1>12. Order'
  <2>1. \A oth \in Threads : \A i, j \in 1 .. Len(stack'[oth]) :
          i < j => stack'[oth][i] < stack'[oth][j]
    BY <1>7 DEF Order
  <2>2. QED
    BY <2>1, <1>3, <1>10 DEF Order
<1>13. QED
  BY <1>11, <1>12

(* The task at the head of the queue starts, on top of what th runs. *)
Starts(th) ==
    /\ queue # <<>> /\ queue' = Tail(queue)
    /\ stack' = [stack EXCEPT ![th] = Append(@, Head(queue))]
    /\ pc'[Head(queue)] = "run"
    /\ \A u \in Programs : u # Head(queue) =>
          (pc'[u] = pc[u] \/ (u \in Alive /\ pc'[u] \notin {"off", "ended"}))
    /\ UNCHANGED <<born, parent, status>>

LEMMA StartKeepsPlaces ==
    ASSUME TypeOK, Places, Order, NEW th \in Threads, Starts(th)
    PROVE  Places' /\ Order'
<1> DEFINE q == Head(queue)
           m == Len(queue)
           n == Len(stack[th])
<1>1. /\ m \in Nat \ {0} /\ q = queue[1] /\ q \in TaskIds
      /\ Len(queue') = m - 1 /\ \A i \in 1 .. m - 1 : queue'[i] = queue[i + 1]
  BY DEF TypeOK, Starts
<1>2. TaskIds \subseteq Programs /\ Programs \subseteq Nat /\ Root \in Programs /\ Root \notin TaskIds
  BY DEF Programs, TaskIds, Root
<1>3. pc[q] = "off" /\ q <= born
  <2>1. 1 \in 1 .. m
    BY <1>1
  <2>2. QED
    BY <1>1, <2>1 DEF Places
<1>4. /\ n \in Nat /\ stack[th] \in Seq(Programs) /\ Len(stack'[th]) = n + 1
      /\ stack'[th][n + 1] = q /\ \A i \in 1 .. n : stack'[th][i] = stack[th][i]
      /\ \A oth \in Threads : oth # th => stack'[oth] = stack[oth]
  BY DEF TypeOK, Starts
<1>5. /\ \A u \in Programs : u # q => (pc'[u] = "off" <=> pc[u] = "off")
      /\ \A u \in Programs : u # q => (pc'[u] = "ended" <=> pc[u] = "ended")
      /\ pc'[q] = "run"
  BY DEF Starts, Alive
<1>6. Alive' = Alive \cup {q}
  BY <1>1, <1>2, <1>5 DEF Alive
<1>7. UNCHANGED <<born, parent, status>>
  BY DEF Starts
<1> HIDE DEF q, m, n
<1>8. q \notin Alive
  BY <1>3 DEF Alive
<1>9. ASSUME NEW oth \in Threads, NEW i \in 1 .. Len(stack'[oth])
      PROVE  \/ i \in 1 .. Len(stack[oth]) /\ stack'[oth][i] = stack[oth][i]
             \/ oth = th /\ i = n + 1 /\ stack'[oth][i] = q
  <2>1. CASE oth # th
    BY <1>4, <2>1
  <2>2. CASE oth = th
    BY <1>4, <2>2 DEF n
  <2>3. QED
    BY <2>1, <2>2
<1>10. ASSUME NEW t \in TaskIds
       PROVE  (\E i \in 1 .. Len(queue') : queue'[i] = t) <=>
              (t # q /\ \E i \in 1 .. m : queue[i] = t)
  <2>1. ASSUME NEW i \in 1 .. m - 1 PROVE queue'[i] = queue[i + 1] /\ queue[i + 1] # q
    <3>1. 1 \in 1 .. m /\ i + 1 \in 1 .. m /\ 1 < i + 1
      BY <1>1
    <3>2. queue[1] < queue[i + 1]
      BY <3>1 DEF Order, m
    <3>3. queue[1] \in Nat
      BY <1>1, <1>2
    <3>4. QED
      BY <1>1, <3>2, <3>3
  <2>2. ASSUME NEW i \in 1 .. m, queue[i] # q PROVE i - 1 \in 1 .. m - 1 /\ queue'[i - 1] = queue[i]
    <3>1. i # 1
      BY <1>1, <2>2
    <3>2. i - 1 \in 1 .. m - 1 /\ (i - 1) + 1 = i
      BY <1>1, <3>1
    <3>3. QED
      BY <1>1, <3>2
  <2>3. ASSUME NEW i \in 1 .. m - 1 PROVE i + 1 \in 1 .. m
    BY <1>1, <2>3
  <2>4. QED
    BY <1>1, <2>1, <2>2, <2>3
<1>11. Places'
  <2>1. pc'[Root] # "off"
    BY <1>1, <1>2, <1>5 DEF Places
  <2>2. ASSUME NEW t \in TaskIds
        PROVE  pc'[t] = "off" <=> (born' < t \/ \E i \in 1 .. Len(queue') : queue'[i] = t)
    <3>1. CASE t = q
      <4>1. ~(born' < t)
        BY <1>1, <1>2, <1>3, <1>7, <3>1 DEF TypeOK, TaskIds
      <4>2. QED
        BY <1>5, <1>10, <3>1, <4>1
    <3>2. CASE t # q
      BY <1>2, <1>5, <1>7, <1>10, <3>2 DEF Places, m
    <3>3. QED
      BY <3>1, <3>2
  <2>3. \A i \in 1 .. Len(queue') : queue'[i] <= born'
    <3> TAKE i \in 1 .. Len(queue')
    <3>1. i + 1 \in 1 .. m /\ queue'[i] = queue[i + 1]
      BY <1>1
    <3>2. QED
      BY <1>7, <3>1 DEF Places, m
  <2>4. \A u \in Programs : status'[u] # "none" <=> pc'[u] = "ended"
    BY <1>3, <1>5, <1>7 DEF Places
  <2>5. ASSUME NEW u \in Alive'
        PROVE  \E oth \in Threads : \E i \in 1 .. Len(stack'[oth]) : stack'[oth][i] = u
    <3>1. CASE u = q
      BY <1>4, <3>1
    <3>2. CASE u # q
      <4>1. PICK oth \in Threads : \E i \in 1 .. Len(stack[oth]) : stack[oth][i] = u
        BY <1>6, <3>2 DEF Places
      <4>2. PICK i \in 1 .. Len(stack[oth]) : stack[oth][i] = u
        BY <4>1
      <4>3. i \in 1 .. Len(stack'[oth]) /\ stack'[oth][i] = u
        BY <1>4, <4>2 DEF n
      <4>4. QED
        BY <4>3
    <3>3. QED
      BY <3>1, <3>2
  <2>6. \A oth \in Threads : \A i \in 1 .. Len(stack'[oth]) : stack'[oth][i] \in Alive'
    BY <1>6, <1>9 DEF Places
  <2>7. ASSUME NEW a \in Threads, NEW b \in Threads,
               NEW i \in 1 .. Len(stack'[a]), NEW j \in 1 .. Len(stack'[b]),
               stack'[a][i] = stack'[b][j]
        PROVE  a = b
    <3>1. \A c \in Threads : \A k \in 1 .. Len(stack[c]) : stack[c][k] # q
      BY <1>8 DEF Places
    <3>2. CASE stack'[a][i] = q
      BY <1>9, <2>7, <3>1, <3>2
    <3>3. CASE stack'[a][i] # q
      <4>1. /\ i \in 1 .. Len(stack[a]) /\ stack'[a][i] = stack[a][i]
            /\ j \in 1 .. Len(stack[b]) /\ stack'[b][j] = stack[b][j]
        BY <1>9, <2>7, <3>3
      <4>2. stack[a][i] = stack[b][j]
        BY <2>7, <4>1
      <4>3. QED
        BY <4>1, <4>2 DEF Places
    <3>4. QED
      BY <3>2, <3>3
  <2>8. QED
    BY <2>1, <2>2, <2>3, <2>4, <2>5, <2>6, <2>7 DEF Places
<1>12. Order'
  <2>1. \A i, j \in 1 .. Len(queue') : i < j => queue'[i] < queue'[j]
    <3> TAKE i, j \in 1 .. Len(queue')
    <3>1. i + 1 \in 1 .. m /\ j + 1 \in 1 .. m /\ queue'[i] = queue[i + 1] /\ queue'[j] = queue[j + 1]
      BY <1>1
    <3>2. i < j => i + 1 < j + 1
      BY <1>1
    <3>3. QED
      BY <3>1, <3>2 DEF Order, m
  <2>2. ASSUME NEW u \in Programs, pc[u] # "off" PROVE u < q
    <3>1. 1 \in 1 .. Len(queue)
      BY <1>1 DEF m
    <3>2. QED
      BY <1>1, <2>2, <3>1 DEF Order
  <2>3. ASSUME NEW oth \in Threads, NEW i \in 1 .. Len(stack'[oth]), NEW j \in 1 .. Len(stack'[oth]), i < j
        PROVE  stack'[oth][i] < stack'[oth][j]
    <3>1. CASE j \in 1 .. Len(stack[oth]) /\ stack'[oth][j] = stack[oth][j]
      <4>1. i \in 1 .. Len(stack[oth]) /\ (i # n + 1 \/ oth # th)
        BY <1>4, <2>3, <3>1 DEF n
      <4>2. QED
        BY <1>4, <1>9, <2>3, <3>1, <4>1 DEF Order, n
    <3>2. CASE oth = th /\ j = n + 1 /\ stack'[oth][j] = q
      <4>1. i \in 1 .. n /\ stack'[oth][i] = stack[oth][i]
        BY <1>4, <2>3, <3>2
      <4>2. stack[oth][i] \in Alive
        BY <3>2, <4>1 DEF Places, n
      <4>3. QED
        BY <2>2, <3>2, <4>1, <4>2 DEF Alive
    <3>3. QED
      BY <1>9, <3>1, <3>2
  <2>4. ASSUME NEW i \in 1 .. Len(queue'), NEW u \in Programs, pc'[u] # "off" PROVE u < queue'[i]
    <3>1. i + 1 \in 1 .. Len(queue) /\ queue'[i] = queue[i + 1] /\ 1 \in 1 .. Len(queue) /\ 1 < i + 1
      BY <1>1 DEF m
    <3>2. CASE u = q
      BY <1>1, <3>1, <3>2 DEF Order
    <3>3. CASE u # q
      BY <1>5, <2>4, <3>1, <3>3 DEF Order
    <3>4. QED
      BY <3>2, <3>3
  <2>5. QED
    BY <1>7, <2>1, <2>3, <2>4 DEF Order
<1>13. QED
  BY <1>11, <1>12

LEMMA EnqueueKeepsPlaces ==
    ASSUME TypeOK, Places, Order, NEW th \in Threads, NEW v \in Programs,
           Enqueue(th, v), born + 1 \in TaskIds
    PROVE  Places' /\ Order'
<1> DEFINE b == born + 1
           m == Len(queue)
<1>1. /\ m \in Nat /\ Len(queue') = m + 1 /\ queue'[m + 1] = b
      /\ \A i \in 1 .. m : queue'[i] = queue[i] /\ queue[i] \in TaskIds
  BY DEF TypeOK, Enqueue
<1>2. TaskIds \subseteq Programs /\ Programs \subseteq Nat /\ Root \in Programs /\ Root \notin TaskIds
  BY DEF Programs, TaskIds, Root
<1>3. born \in Nat /\ born' = b /\ b \in Nat /\ b \in TaskIds
  BY <1>2 DEF TypeOK, Enqueue
<1>4. /\ UNCHANGED <<stack, status>>
      /\ parent' = [parent EXCEPT ![b] = v]
      /\ pc[v] = "forking" /\ pc' = [pc EXCEPT ![v] = "run"]
  BY DEF Enqueue, At, Goes, handles
<1>5. /\ Alive' = Alive
      /\ \A u \in Programs : (pc'[u] = "off" <=> pc[u] = "off") /\ (pc'[u] = "ended" <=> pc[u] = "ended")
  BY <1>4 DEF Alive, TypeOK
<1>6. ASSUME NEW u \in Programs, pc[u] # "off" PROVE u <= born
  BY <1>2, <1>3, <1>6 DEF Places, Programs, Root
<1> HIDE DEF b, m
<1>7. ASSUME NEW i \in 1 .. m + 1
      PROVE  \/ i \in 1 .. m /\ queue'[i] = queue[i]
             \/ i = m + 1 /\ queue'[i] = b
  <2>1. i \in 1 .. m \/ i = m + 1
    BY <1>1
  <2>2. QED
    BY <1>1, <2>1
<1>8. Places'
  <2>1. ASSUME NEW t \in TaskIds
        PROVE  (born < t \/ \E i \in 1 .. m : queue[i] = t) <=>
               (b < t \/ \E i \in 1 .. m + 1 : queue'[i] = t)
    <3>1. born < t <=> (b < t \/ t = b)
      BY <1>2, <1>3 DEF b
    <3>2. (\E i \in 1 .. m + 1 : queue'[i] = t) <=> (t = b \/ \E i \in 1 .. m : queue[i] = t)
      BY <1>1, <1>7
    <3>3. QED
      BY <3>1, <3>2
  <2>2. \A t \in TaskIds :
          pc'[t] = "off" <=> (born' < t \/ \E i \in 1 .. Len(queue') : queue'[i] = t)
    BY <1>1, <1>2, <1>3, <1>5, <2>1 DEF Places, m
  <2>3. \A i \in 1 .. Len(queue') : queue'[i] <= born'
    <3> TAKE i \in 1 .. Len(queue')
    <3>1. CASE i \in 1 .. m /\ queue'[i] = queue[i]
      <4>1. queue[i] <= born /\ queue[i] \in Nat
        BY <1>1, <1>2, <3>1 DEF Places, m
      <4>2. QED
        BY <1>3, <3>1, <4>1 DEF b
    <3>2. CASE i = m + 1 /\ queue'[i] = b
      BY <1>3, <3>2
    <3>3. QED
      BY <1>1, <1>7, <3>1, <3>2
  <2>4. QED
    BY <1>2, <1>4, <1>5, <2>2, <2>3 DEF Places
<1>9. Order'
  <2>1. ASSUME NEW i \in 1 .. Len(queue'), NEW j \in 1 .. Len(queue'), i < j
        PROVE  queue'[i] < queue'[j]
    <3>1. i \in 1 .. m /\ queue'[i] = queue[i]
      BY <1>1, <2>1
    <3>2. CASE j \in 1 .. m
      BY <1>1, <2>1, <3>1, <3>2 DEF Order, m
    <3>3. CASE j = m + 1
      <4>1. queue[i] <= born /\ queue[i] \in Nat
        BY <1>1, <1>2, <3>1 DEF Places, m
      <4>2. QED
        BY <1>1, <1>3, <3>1, <3>3, <4>1 DEF b
    <3>4. QED
      BY <1>1, <3>2, <3>3
  <2>2. ASSUME NEW i \in 1 .. Len(queue'), NEW u \in Programs, pc'[u] # "off" PROVE u < queue'[i]
    <3>1. CASE i \in 1 .. m /\ queue'[i] = queue[i]
      BY <1>5, <2>2, <3>1 DEF Order, m
    <3>2. CASE i = m + 1 /\ queue'[i] = b
      BY <1>2, <1>3, <1>5, <1>6, <2>2, <3>2 DEF b
    <3>3. QED
      BY <1>1, <1>7, <3>1, <3>2
  <2>3. ASSUME NEW t \in 1 .. born' PROVE parent'[t] < t
    <3>1. CASE t = b
      <4>1. parent'[t] = v
        BY <1>3, <1>4, <3>1 DEF TypeOK
      <4>2. QED
        BY <1>2, <1>3, <1>4, <1>6, <3>1, <4>1 DEF b
    <3>2. CASE t # b
      <4>1. t \in 1 .. born /\ t \in TaskIds
        BY <1>3, <2>3, <3>2, Bounds DEF b, TaskIds
      <4>2. parent'[t] = parent[t]
        BY <1>4, <3>2, <4>1 DEF TypeOK
      <4>3. QED
        BY <4>1, <4>2 DEF Order
    <3>3. QED
      BY <3>1, <3>2
  <2>4. QED
    BY <1>4, <2>1, <2>2, <2>3 DEF Order
<1>10. QED
  BY <1>8, <1>9

LEMMA ForkingFinite ==
    /\ IsFiniteSet(Programs) /\ IsFiniteSet(Forking) /\ Cardinality(Forking) \in Nat
    /\ \A v \in Forking : Cardinality(Forking \ {v}) = Cardinality(Forking) - 1
                           /\ Cardinality(Forking) >= 1
<1>1. IsFiniteSet(TaskIds)
  BY Bounds, FS_Interval DEF TaskIds
<1>2. Programs = TaskIds \cup {Root}
  BY DEF Programs
<1>3. IsFiniteSet(Programs)
  BY <1>1, <1>2, FS_AddElement
<1>4. IsFiniteSet(Forking)
  BY <1>3, FS_Subset DEF Forking
<1>5. Cardinality(Forking) \in Nat
  BY <1>4, FS_CardinalityType
<1>6. ASSUME NEW v \in Forking
      PROVE  Cardinality(Forking \ {v}) = Cardinality(Forking) - 1 /\ Cardinality(Forking) >= 1
  <2>1. Cardinality(Forking \ {v}) = Cardinality(Forking) - 1
    BY <1>4, FS_RemoveElement
  <2>2. Cardinality(Forking) # 0
    BY <1>4, FS_EmptySet
  <2>3. QED
    BY <1>5, <2>1, <2>2
<1>7. QED
  BY <1>3, <1>4, <1>5, <1>6

(* A fork under way has a number to give to its task. *)
LEMMA RoomToFork ==
    ASSUME TypeOK, Slots, NEW v \in Programs, pc[v] = "forking"
    PROVE  born + 1 \in TaskIds
<1>1. Cardinality(Forking) \in Nat /\ Cardinality(Forking) >= 1
  BY ForkingFinite DEF Forking
<1>2. QED
  BY <1>1, Bounds DEF Slots, TypeOK, TaskIds

LEMMA StepKeepsPlaces ==
    ASSUME TypeOK, Places, Order, Waits, Slots, NEW th \in Threads, Step(th)
    PROVE  Places' /\ Order'
<1>1. CASE stack[th] # <<>> /\ Program(th, Last(stack[th]))
  <2> DEFINE v == Last(stack[th])
  <2>1. v \in Programs
    BY <1>1, OnTop
  <2>2. Moves \/ Leaves(th, v) \/ Enqueue(th, v) \/ Help(th, v)
    BY <1>1, <2>1, Kinds
  <2>3. CASE Moves
    BY <2>3, MovesKeepPlaces
  <2>4. CASE Leaves(th, v)
    BY <1>1, <2>1, <2>4, LeavesKeepsPlaces
  <2>5. CASE Enqueue(th, v)
    <3>1. born + 1 \in TaskIds
      BY <2>1, <2>5, RoomToFork DEF Enqueue, At
    <3>2. QED
      BY <2>1, <2>5, <3>1, EnqueueKeepsPlaces
  <2>6. CASE Help(th, v)
    <3>1. queue # <<>> /\ pc[v] = "help"
      BY <2>6 DEF Help, MayHelp, At
    <3>2. Head(queue) \in TaskIds /\ Head(queue) = queue[1] /\ 1 \in 1 .. Len(queue)
      BY <3>1 DEF TypeOK
    <3>3. pc[Head(queue)] = "off" /\ Head(queue) \in Programs
      BY <3>2 DEF Places, Programs
    <3>4. pc' = [pc EXCEPT ![v] = "check", ![Head(queue)] = "run"]
      BY <2>6 DEF Help
    <3>5. Head(queue) # v
      BY <3>1, <3>3
    <3> HIDE DEF v
    <3>6. /\ pc'[Head(queue)] = "run"
          /\ \A u \in Programs : u # Head(queue) => pc'[u] = IF u = v THEN "check" ELSE pc[u]
      BY <2>1, <3>3, <3>4, <3>5 DEF TypeOK
    <3>7. v \in Alive
      BY <2>1, <3>1 DEF Alive
    <3>8. /\ queue' = Tail(queue) /\ UNCHANGED <<born, parent, status>>
          /\ stack' = [stack EXCEPT ![th] = Append(@, Head(queue))]
      BY <2>6 DEF Help, handles
    <3>9. Starts(th)
      BY <3>1, <3>6, <3>7, <3>8 DEF Starts
    <3>10. QED
      BY <3>9, StartKeepsPlaces
  <2>7. QED
    BY <2>2, <2>3, <2>4, <2>5, <2>6
<1>2. CASE Take(th)
  <2>1. queue # <<>> /\ stack[th] = <<>>
    BY <1>2 DEF Take, Idle
  <2>2. Head(queue) \in TaskIds
    BY <2>1 DEF TypeOK
  <2>3. stack' = [stack EXCEPT ![th] = Append(@, Head(queue))]
    <3>1. Append(stack[th], Head(queue)) = <<Head(queue)>>
      BY <2>1
    <3>2. stack' = [stack EXCEPT ![th] = <<Head(queue)>>]
      BY <1>2 DEF Take
    <3>3. QED
      BY <3>1, <3>2
  <2>4. Head(queue) \in Programs
    BY <2>2 DEF Programs
  <2>5. pc' = [pc EXCEPT ![Head(queue)] = "run"]
    BY <1>2 DEF Take, Goes
  <2>6. /\ pc'[Head(queue)] = "run"
        /\ \A u \in Programs : u # Head(queue) => pc'[u] = pc[u]
    BY <2>4, <2>5 DEF TypeOK
  <2>7. Starts(th)
    BY <1>2, <2>1, <2>3, <2>6 DEF Starts, Take, AfterTake, handles
  <2>8. QED
    BY <2>7, StartKeepsPlaces
<1>3. CASE WorkerSleeps(th) \/ WorkerExits(th)
  <2>1. UNCHANGED <<pc, stack, queue, born, parent, status>>
    BY <1>3 DEF WorkerSleeps, WorkerExits, scheduler, handles
  <2>2. Moves
    BY <2>1 DEF Moves, TypeOK
  <2>3. QED
    BY <2>2, MovesKeepPlaces
<1>4. QED
  BY <1>1, <1>2, <1>3 DEF Step, Worker

-----------------------------------------------------------------------------
(* What a step does to the slots and the flags. *)

(* No task is forked, joined or completed. *)
Quiet ==
    /\ \A u \in Programs : pc'[u] = "forking" <=> pc[u] = "forking"
    /\ \A u \in Programs : cancelled[u] => cancelled'[u]
    /\ UNCHANGED <<born, parent, group, live, stopping, status, joined>>

(* A VM ends that has no fork under way. *)
Quits(th, v) ==
    /\ pc[v] # "forking"
    /\ \E outcome \in {"ok", "cancelled", "error"} : Ends(th, v, outcome)
    /\ UNCHANGED <<born, parent, group, live, joined>>

LEMMA Effects ==
    ASSUME TypeOK, Places, NEW th \in Threads, Step(th)
    PROVE  \/ Quiet
           \/ \E v \in Programs :
                 \/ Quits(th, v) \/ Reserve(th, v) \/ ForkFails(th, v)
                 \/ Enqueue(th, v) \/ JoinedOk(th, v)
<1> DEFINE v == Last(stack[th])
<1>1. CASE stack[th] # <<>> /\ Program(th, v)
  <2>1. v \in Programs
    BY <1>1, OnTop
  <2> SUFFICES ASSUME ~(Reserve(th, v) \/ ForkFails(th, v) \/ Enqueue(th, v) \/ JoinedOk(th, v))
               PROVE  Quiet \/ Quits(th, v)
    BY <2>1
  <2> HIDE DEF v
  <2>2. CASE Return(th, v)
    BY <2>2 DEF Return, Running, At, Quits
  <2>3. CASE Fail(th, v)
    BY <2>3 DEF Fail, Running, At, Quits
  <2>4. CASE Interrupted(th, v)
    BY <2>4 DEF Interrupted, Running, At, Quits
  <2>5. CASE ForkRefused(th, v)
    BY <2>5 DEF ForkRefused, Running, At, Quits
  <2>6. CASE \E t \in TaskIds : Join(th, v, t)
    BY <2>1, <2>6 DEF Join, Running, At, Goes, Onward, Quiet, TypeOK, scheduler,
          handles, threads
  <2>7. CASE \E t \in TaskIds : JoinTimeout(th, v, t)
    BY <2>1, <2>7 DEF JoinTimeout, Running, At, Goes, Onward, Quiet, TypeOK, scheduler,
          handles, threads
  <2>8. CASE \E t \in TaskIds : Cancel(th, v, t)
    BY <2>1, <2>8 DEF Cancel, Running, At, Goes, Onward, Quiet, TypeOK, scheduler,
          handles, threads
  <2>9. CASE NotYet(th, v)
    BY <2>1, <2>9 DEF NotYet, Running, At, Goes, Onward, Quiet, TypeOK, scheduler,
          handles, threads
  <2>10. CASE Help(th, v)
    <3>1. Head(queue) = queue[1] /\ 1 \in 1 .. Len(queue) /\ Head(queue) \in TaskIds
      BY <2>10 DEF Help, MayHelp, TypeOK
    <3>2. pc[Head(queue)] = "off"
      BY <3>1 DEF Places
    <3>3. QED
      BY <2>1, <2>10, <3>1, <3>2 DEF Help, At, Quiet, TypeOK, scheduler, handles, threads
  <2>11. CASE NothingToHelp(th, v)
    BY <2>1, <2>11 DEF NothingToHelp, Running, At, Goes, Onward, Quiet, TypeOK,
          scheduler, handles, threads
  <2>12. CASE FallsAsleep(th, v)
    BY <2>1, <2>12 DEF FallsAsleep, Running, At, Goes, Onward, Quiet, TypeOK, scheduler,
          handles, threads
  <2>13. CASE JoinFailed(th, v)
    <3>1. status[target[v]] \in {"none", "ok", "cancelled", "error"}
      BY <2>1 DEF TypeOK
    <3>2. (IF status[target[v]] = "ok" THEN "error" ELSE status[target[v]]) \in {"ok", "cancelled", "error"}
      BY <2>13, <3>1 DEF JoinFailed, Completed
    <3>3. QED
      BY <2>13, <3>2 DEF JoinFailed, At, Quits
  <2>14. CASE InTime(th, v)
    BY <2>1, <2>14 DEF InTime, Running, At, Goes, Onward, Quiet, TypeOK, scheduler,
          handles, threads
  <2>15. CASE TimesOut(th, v)
    BY <2>15 DEF TimesOut, Running, At, Quits
  <2>16. CASE TaskgroupEnter(th, v)
    BY <2>1, <2>16 DEF TaskgroupEnter, Running, At, Goes, Onward, Quiet, TypeOK,
          scheduler, handles, threads
  <2>17. CASE TaskgroupExit(th, v)
    BY <2>1, <2>17 DEF TaskgroupExit, Running, At, Goes, Onward, Quiet, TypeOK,
          scheduler, handles, threads
  <2>18. CASE CloseNext(th, v)
    BY <2>1, <2>18 DEF CloseNext, Running, At, Goes, Onward, Quiet, TypeOK, scheduler,
          handles, threads
  <2>19. CASE CloseTaskFailed(th, v)
    BY <2>1, <2>19 DEF CloseTaskFailed, Running, At, Goes, Onward, Quiet, TypeOK,
          scheduler, handles, threads
  <2>20. CASE Closed(th, v)
    BY <2>1, <2>20 DEF Closed, Running, At, Goes, Onward, Quiet, TypeOK, scheduler,
          handles, threads
  <2>21. CASE ClosedWithError(th, v)
    BY <2>21 DEF ClosedWithError, Running, At, Quits
  <2>22. CASE SharedWait(th, v)
    BY <2>1, <2>22 DEF SharedWait, Running, At, Goes, Onward, Quiet, TypeOK, scheduler,
          handles, threads
  <2>23. CASE Observe(th, v)
    BY <2>1, <2>23 DEF Observe, Running, At, Goes, Onward, Quiet, TypeOK, scheduler,
          handles, threads
  <2>24. QED
    BY <1>1, <2>1, <2>2, <2>3, <2>4, <2>5, <2>6, <2>7, <2>8, <2>9, <2>10, <2>11,
       <2>12, <2>13, <2>14, <2>15, <2>16, <2>17, <2>18, <2>19, <2>20, <2>21,
       <2>22, <2>23 DEF Program
<1>2. CASE Take(th)
  <2>1. Head(queue) = queue[1] /\ 1 \in 1 .. Len(queue) /\ Head(queue) \in TaskIds
    BY <1>2 DEF Take, TypeOK
  <2>2. pc[Head(queue)] = "off"
    BY <2>1 DEF Places
  <2>3. QED
    BY <1>2, <2>1, <2>2 DEF Take, Goes, Quiet, TypeOK, scheduler, handles, threads
<1>3. CASE WorkerSleeps(th) \/ WorkerExits(th)
  BY <1>3 DEF WorkerSleeps, WorkerExits, Quiet, scheduler, handles, threads
<1>4. QED
  BY <1>1, <1>2, <1>3 DEF Step, Worker

LEMMA StepKeepsSlots ==
    ASSUME TypeOK, Places, Waits, Slots, NEW th \in Threads, Step(th)
    PROVE  Slots'
<1>1. /\ born \in Nat /\ live \in Nat /\ IsFiniteSet(1 .. born) /\ IsFiniteSet(Registered)
      /\ Cardinality(Registered) \in Nat
  <2>1. born \in Nat /\ live \in Nat
    BY DEF TypeOK
  <2>2. IsFiniteSet(1 .. born)
    BY <2>1, FS_Interval
  <2>3. IsFiniteSet(Registered)
    BY <2>2, FS_Subset DEF Registered
  <2>4. QED
    BY <2>1, <2>2, <2>3, FS_CardinalityType
<1>2. CASE Quiet
  <2>1. Forking' = Forking /\ Registered' = Registered
    BY <1>2 DEF Quiet, Forking, Registered
  <2>2. UNCHANGED <<born, live, status, joined>>
    BY <1>2 DEF Quiet
  <2>3. QED
    BY <2>1, <2>2 DEF Slots, SlotsCounted, Completed
<1>3. ASSUME NEW v \in Programs, Quits(th, v) PROVE Slots'
  <2>1. UNCHANGED <<born, live, joined>>
    BY <1>3 DEF Quits
  <2>2. Forking' = Forking /\ Registered' = Registered
    BY <1>3, <2>1 DEF Quits, Ends, Forking, Registered
  <2>3. \A t \in Programs : Completed(t) => Completed(t)'
    BY <1>3 DEF Quits, Ends, Completed, TypeOK
  <2>4. 1 .. born \subseteq Programs
    BY Bounds DEF TypeOK, Programs, TaskIds
  <2>5. QED
    BY <2>1, <2>2, <2>3, <2>4 DEF Slots, SlotsCounted
<1>4. ASSUME NEW v \in Programs, Reserve(th, v) PROVE Slots'
  <2>1. UNCHANGED <<born, joined, status>> /\ live' = live + 1
    BY <1>4 DEF Reserve, handles
  <2>2. v \notin Forking /\ Forking' = Forking \cup {v} /\ Registered' = Registered
    BY <1>4 DEF Reserve, Running, At, Goes, Forking, Registered, TypeOK, handles
  <2>3. Cardinality(Forking') = Cardinality(Forking) + 1
    BY <2>2, ForkingFinite, FS_AddElement
  <2>4. born + Cardinality(Forking) < MaxTasks
    BY <1>4 DEF Reserve
  <2>5. born' + Cardinality(Forking') <= MaxTasks
    BY <1>1, <2>1, <2>3, <2>4, ForkingFinite, Bounds
  <2>6. SlotsCounted'
    BY <1>1, <2>1, <2>2, <2>3, ForkingFinite DEF Slots, SlotsCounted
  <2>7. QED
    BY <2>1, <2>5, <2>6 DEF Slots, Completed
<1>5. ASSUME NEW v \in Programs, ForkFails(th, v) PROVE Slots'
  <2>1. UNCHANGED <<born, joined>> /\ live' = live - 1
    BY <1>5 DEF ForkFails
  <2>2. PICK outcome \in {"cancelled", "error"} : Ends(th, v, outcome)
    BY <1>5 DEF ForkFails
  <2>3. v \in Forking /\ Forking' = Forking \ {v} /\ Registered' = Registered
    BY <1>5, <2>1, <2>2 DEF ForkFails, At, Ends, Forking, Registered
  <2>4. Cardinality(Forking') = Cardinality(Forking) - 1
    BY <2>3, ForkingFinite
  <2>5. \A t \in Programs : Completed(t) => Completed(t)'
    BY <2>2 DEF Ends, Completed, TypeOK
  <2>6. 1 .. born \subseteq Programs
    BY Bounds DEF TypeOK, Programs, TaskIds
  <2>7. born' + Cardinality(Forking') <= MaxTasks
    BY <1>1, <2>1, <2>4, ForkingFinite, Bounds DEF Slots
  <2>8. SlotsCounted'
    BY <1>1, <2>1, <2>3, <2>4, ForkingFinite DEF Slots, SlotsCounted
  <2>9. QED
    BY <2>1, <2>5, <2>6, <2>7, <2>8 DEF Slots
<1>6. ASSUME NEW v \in Programs, Enqueue(th, v) PROVE Slots'
  <2>1. UNCHANGED <<joined, status, live>> /\ born' = born + 1
    BY <1>6 DEF Enqueue, handles
  <2>2. v \in Forking /\ Forking' = Forking \ {v}
    BY <1>6 DEF Enqueue, At, Goes, Forking, TypeOK
  <2>3. Cardinality(Forking') = Cardinality(Forking) - 1
    BY <2>2, ForkingFinite
  <2>4. born + 1 \notin Registered /\ Registered' = Registered \cup {born + 1}
    BY <1>1, <2>1 DEF Registered, Slots
  <2>5. Cardinality(Registered') = Cardinality(Registered) + 1
    BY <1>1, <2>4, FS_AddElement
  <2>6. born' + Cardinality(Forking') <= MaxTasks
    BY <1>1, <2>1, <2>3, ForkingFinite, Bounds DEF Slots
  <2>7. SlotsCounted'
    BY <1>1, <2>1, <2>3, <2>5, ForkingFinite DEF Slots, SlotsCounted
  <2>8. joined' \subseteq 1 .. born' /\ \A t \in joined' : Completed(t)'
    BY <1>1, <2>1 DEF Slots, Completed
  <2>9. QED
    BY <2>6, <2>7, <2>8 DEF Slots
<1>7. ASSUME NEW v \in Programs, JoinedOk(th, v) PROVE Slots'
  <2> DEFINE t == target[v]
  <2>1. /\ UNCHANGED <<born, status>> /\ joined' = joined \cup {t} /\ live' = AfterJoin
        /\ pc[v] = "check" /\ Completed(t)
    BY <1>7 DEF JoinedOk, At, Completed
  <2>2. t \in Registered
    BY <1>7, <2>1 DEF Waits, Joining, TasksOf
  <2> HIDE DEF t
  <2>3. Registered' = Registered \ {t}
    BY <2>1 DEF Registered
  <2>4. Cardinality(Registered') = Cardinality(Registered) - 1 /\ Cardinality(Registered) >= 1
    <3>1. Cardinality(Registered') = Cardinality(Registered) - 1
      BY <1>1, <2>2, <2>3, FS_RemoveElement
    <3>2. Cardinality(Registered) # 0
      BY <1>1, <2>2, FS_EmptySet
    <3>3. QED
      BY <1>1, <3>1, <3>2
  <2>5. Forking' = Forking
    BY <1>7 DEF JoinedOk, At, Goes, Onward, Forking, TypeOK
  <2>6. live' = live - 1
    BY <1>1, <2>1, <2>4, ForkingFinite DEF Slots, SlotsCounted, AfterJoin
  <2>7. SlotsCounted'
    BY <1>1, <2>4, <2>5, <2>6, ForkingFinite DEF Slots, SlotsCounted
  <2>8. joined' \subseteq 1 .. born' /\ \A u \in joined' : Completed(u)'
    BY <2>1, <2>2 DEF Slots, Completed, Registered
  <2>9. QED
    BY <2>1, <2>5, <2>7, <2>8 DEF Slots
<1>8. QED
  BY <1>2, <1>3, <1>4, <1>5, <1>6, <1>7, Effects

LEMMA StepTellsToStop ==
    ASSUME TypeOK, Places, AllToldToStop, NEW th \in Threads, Step(th)
    PROVE  AllToldToStop'
<1>1. TaskIds \subseteq Programs /\ 1 .. born \subseteq TaskIds
  BY Bounds DEF TypeOK, Programs, TaskIds
<1>2. CASE Quiet
  <2>1. Registered' = Registered /\ \A t \in Programs : Completed(t) => Completed(t)'
    BY <1>2 DEF Quiet, Registered, Completed
  <2>2. QED
    BY <1>1, <1>2, <2>1 DEF Quiet, AllToldToStop, Registered
<1>3. ASSUME NEW v \in Programs, NEW outcome \in {"ok", "cancelled", "error"}, Ends(th, v, outcome),
             UNCHANGED <<born, joined>>
      PROVE  AllToldToStop'
  <2>1. Registered' = Registered /\ Registered \subseteq Programs
    BY <1>1, <1>3 DEF Registered
  <2>2. \A t \in Programs : Completed(t) => Completed(t)'
    BY <1>3 DEF Ends, Completed, TypeOK
  <2>3. CASE v = Root
    BY <1>3, <2>1, <2>3 DEF Ends, AllToldToStop
  <2>4. CASE v # Root
    BY <1>3, <2>1, <2>2, <2>4 DEF Ends, AllToldToStop
  <2>5. QED
    BY <2>3, <2>4
<1>4. ASSUME NEW v \in Programs, Quits(th, v) PROVE AllToldToStop'
  BY <1>3, <1>4 DEF Quits
<1>5. ASSUME NEW v \in Programs, ForkFails(th, v) PROVE AllToldToStop'
  BY <1>3, <1>5 DEF ForkFails
<1>6. ASSUME NEW v \in Programs, Reserve(th, v) PROVE AllToldToStop'
  BY <1>6 DEF Reserve, AllToldToStop, handles
<1>7. ASSUME NEW v \in Programs, Enqueue(th, v) PROVE AllToldToStop'
  BY <1>7 DEF Enqueue, Enqueues, MayQueue, AllToldToStop
<1>8. ASSUME NEW v \in Programs, JoinedOk(th, v) PROVE AllToldToStop'
  BY <1>8 DEF JoinedOk, AllToldToStop, Registered, Completed
<1>9. QED
  BY <1>2, <1>4, <1>5, <1>6, <1>7, <1>8, Effects
-----------------------------------------------------------------------------
(* What each VM waits for. *)

(* The VM v goes on, and nobody else is affected but by a wake-up or by    *)
(* the start of a task.                                                    *)
LEMMA WaitsOfOne ==
    ASSUME Waits, NEW v \in Programs,
           \A u \in Programs \ {v} :
              /\ target'[u] = target[u] /\ todo'[u] = todo[u] /\ closing'[u] = closing[u]
              /\ \/ pc'[u] = pc[u]
                 \/ pc[u] = "asleep" /\ pc'[u] = "check"
                 \/ pc[u] \in {"shared", "off"} /\ pc'[u] = "run"
              /\ TasksOf(u) \subseteq TasksOf(u)',
           pc'[v] \in Joining => target'[v] \in TasksOf(v)' \ todo'[v],
           todo'[v] \subseteq TasksOf(v)',
           IF closing'[v] THEN pc'[v] \in (Joining \ {"timed"}) \cup {"closing"}
           ELSE todo'[v] = {} /\ pc'[v] # "closing"
    PROVE  Waits'
<1>1. ASSUME NEW u \in Programs, u # v
      PROVE  /\ pc'[u] \in Joining => target'[u] \in TasksOf(u)' \ todo'[u]
             /\ todo'[u] \subseteq TasksOf(u)'
             /\ IF closing'[u] THEN pc'[u] \in (Joining \ {"timed"}) \cup {"closing"}
                ELSE todo'[u] = {} /\ pc'[u] # "closing"
  <2>1. /\ target'[u] = target[u] /\ todo'[u] = todo[u] /\ closing'[u] = closing[u]
        /\ TasksOf(u) \subseteq TasksOf(u)'
    BY <1>1
  <2>2. /\ pc[u] \in Joining => target[u] \in TasksOf(u) \ todo[u]
        /\ todo[u] \subseteq TasksOf(u)
        /\ IF closing[u] THEN pc[u] \in (Joining \ {"timed"}) \cup {"closing"}
           ELSE todo[u] = {} /\ pc[u] # "closing"
    BY DEF Waits
  <2>3. CASE pc'[u] = pc[u]
    BY <2>1, <2>2, <2>3
  <2>4. CASE pc[u] = "asleep" /\ pc'[u] = "check"
    BY <2>1, <2>2, <2>4 DEF Joining
  <2>5. CASE pc[u] \in {"shared", "off"} /\ pc'[u] = "run"
    BY <2>1, <2>2, <2>5 DEF Joining
  <2>6. QED
    BY <1>1, <2>3, <2>4, <2>5
<1>2. QED
  BY <1>1 DEF Waits

LEMMA StepKeepsWaits ==
    ASSUME TypeOK, Places, Waits, Slots, NEW th \in Threads, Step(th)
    PROVE  Waits'
<1>1. ASSUME NEW v \in Programs, Program(th, v) PROVE Waits'
  <2>1. v \in Programs
    OBVIOUS
  <2>2. /\ pc[v] \in Joining => target[v] \in TasksOf(v) \ todo[v]
        /\ todo[v] \subseteq TasksOf(v)
        /\ IF closing[v] THEN pc[v] \in (Joining \ {"timed"}) \cup {"closing"}
           ELSE todo[v] = {} /\ pc[v] # "closing"
    BY <2>1 DEF Waits
  <2>3. \A u \in Programs : TasksOf(u)' = TasksOf(u) \/ Enqueue(th, v) \/ JoinedOk(th, v)
    <3>1. UNCHANGED <<born, joined, parent>> \/ Enqueue(th, v) \/ JoinedOk(th, v)
      BY <1>1 DEF Program, Return, Fail, Interrupted, Reserve, ForkRefused,
         ForkFails, Join, JoinTimeout, Cancel, NotYet, Help, NothingToHelp,
         FallsAsleep, JoinFailed, InTime, TimesOut, TaskgroupEnter,
         TaskgroupExit, CloseNext, CloseTaskFailed, Closed, ClosedWithError,
         SharedWait, Observe, scheduler, handles
    <3>2. QED
      BY <3>1 DEF TasksOf, Registered
  <2>4. CASE Return(th, v)
    <3>1. \A u \in Programs : TasksOf(u)' = TasksOf(u)
      BY <2>4 DEF Return, TasksOf, Registered
    <3>2. /\ UNCHANGED <<target, todo>>
          /\ \A u \in Programs \ {v} : closing'[u] = closing[u]
      BY <2>4 DEF Return, interpreters
    <3>3. /\ pc'[v] = "ended"
          /\ \A u \in Programs \ {v} : pc'[u] = pc[u] \/ (pc[u] = "asleep" /\ pc'[u] = "check")
      BY <2>1, <2>4 DEF Return, Ends
    <3>4. closing'[v] = FALSE /\ todo[v] = {}
      BY <2>1, <2>2, <2>4 DEF Return, Running, At, TypeOK, Joining, interpreters
    <3>5. QED
      BY <2>1, <2>2, <3>1, <3>2, <3>3, <3>4, WaitsOfOne DEF Joining
  <2>5. CASE Fail(th, v)
    <3>1. \A u \in Programs : TasksOf(u)' = TasksOf(u)
      BY <2>5 DEF Fail, TasksOf, Registered
    <3>2. /\ UNCHANGED <<target, todo>>
          /\ \A u \in Programs \ {v} : closing'[u] = closing[u]
      BY <2>5 DEF Fail, interpreters
    <3>3. /\ pc'[v] = "ended"
          /\ \A u \in Programs \ {v} : pc'[u] = pc[u] \/ (pc[u] = "asleep" /\ pc'[u] = "check")
      BY <2>1, <2>5 DEF Fail, Ends
    <3>4. closing'[v] = FALSE /\ todo[v] = {}
      BY <2>1, <2>2, <2>5 DEF Fail, Running, At, TypeOK, Joining, interpreters
    <3>5. QED
      BY <2>1, <2>2, <3>1, <3>2, <3>3, <3>4, WaitsOfOne DEF Joining
  <2>6. CASE Interrupted(th, v)
    <3>1. \A u \in Programs : TasksOf(u)' = TasksOf(u)
      BY <2>6 DEF Interrupted, TasksOf, Registered
    <3>2. /\ UNCHANGED <<target, todo>>
          /\ \A u \in Programs \ {v} : closing'[u] = closing[u]
      BY <2>6 DEF Interrupted, interpreters
    <3>3. /\ pc'[v] = "ended"
          /\ \A u \in Programs \ {v} : pc'[u] = pc[u] \/ (pc[u] = "asleep" /\ pc'[u] = "check")
      BY <2>1, <2>6 DEF Interrupted, Ends
    <3>4. closing'[v] = FALSE /\ todo[v] = {}
      BY <2>1, <2>2, <2>6 DEF Interrupted, Running, At, TypeOK, Joining, interpreters
    <3>5. QED
      BY <2>1, <2>2, <3>1, <3>2, <3>3, <3>4, WaitsOfOne DEF Joining
  <2>7. CASE Reserve(th, v)
    <3>1. \A u \in Programs : TasksOf(u)' = TasksOf(u)
      BY <2>7 DEF Reserve, TasksOf, Registered, scheduler, handles
    <3>2. \A u \in Programs \ {v} : /\ target'[u] = target[u] /\ todo'[u] = todo[u]
                                    /\ closing'[u] = closing[u] /\ pc'[u] = pc[u]
      BY <2>1, <2>7 DEF Reserve, Goes, TypeOK, interpreters
    <3>3. /\ pc'[v] \in Joining => target'[v] \in TasksOf(v) \ todo'[v]
          /\ todo'[v] \subseteq TasksOf(v)
          /\ IF closing'[v] THEN pc'[v] \in (Joining \ {"timed"}) \cup {"closing"}
             ELSE todo'[v] = {} /\ pc'[v] # "closing"
      BY <2>1, <2>2, <2>7 DEF Reserve, Running, At, Goes, TypeOK, interpreters, Joining
    <3>4. QED
      BY <2>1, <3>1, <3>2, <3>3, WaitsOfOne
  <2>8. CASE ForkRefused(th, v)
    <3>1. \A u \in Programs : TasksOf(u)' = TasksOf(u)
      BY <2>8 DEF ForkRefused, TasksOf, Registered
    <3>2. /\ UNCHANGED <<target, todo>>
          /\ \A u \in Programs \ {v} : closing'[u] = closing[u]
      BY <2>8 DEF ForkRefused, interpreters
    <3>3. /\ pc'[v] = "ended"
          /\ \A u \in Programs \ {v} : pc'[u] = pc[u] \/ (pc[u] = "asleep" /\ pc'[u] = "check")
      BY <2>1, <2>8 DEF ForkRefused, Ends
    <3>4. closing'[v] = FALSE /\ todo[v] = {}
      BY <2>1, <2>2, <2>8 DEF ForkRefused, Running, At, TypeOK, Joining, interpreters
    <3>5. QED
      BY <2>1, <2>2, <3>1, <3>2, <3>3, <3>4, WaitsOfOne DEF Joining
  <2>9. CASE ForkFails(th, v)
    <3>1. \A u \in Programs : TasksOf(u)' = TasksOf(u)
      BY <2>9 DEF ForkFails, TasksOf, Registered
    <3>2. /\ UNCHANGED <<target, todo>>
          /\ \A u \in Programs \ {v} : closing'[u] = closing[u]
      BY <2>9 DEF ForkFails, interpreters
    <3>3. /\ pc'[v] = "ended"
          /\ \A u \in Programs \ {v} : pc'[u] = pc[u] \/ (pc[u] = "asleep" /\ pc'[u] = "check")
      BY <2>1, <2>9 DEF ForkFails, Ends
    <3>4. closing'[v] = FALSE /\ todo[v] = {}
      BY <2>1, <2>2, <2>9 DEF ForkFails, Running, At, TypeOK, Joining, interpreters
    <3>5. QED
      BY <2>1, <2>2, <3>1, <3>2, <3>3, <3>4, WaitsOfOne DEF Joining
  <2>10. CASE Enqueue(th, v)
    <3>1. UNCHANGED <<target, todo, closing>> /\ pc[v] = "forking" /\ pc' = [pc EXCEPT ![v] = "run"]
      BY <2>10 DEF Enqueue, At, Goes, interpreters
    <3>2. \A u \in Programs : TasksOf(u) \subseteq TasksOf(u)'
      <4>1. /\ born' = born + 1 /\ joined' = joined /\ parent' = [parent EXCEPT ![born + 1] = v]
            /\ born \in Nat
        BY <2>10 DEF Enqueue, handles, TypeOK
      <4>2. \A t \in 1 .. born : t \in 1 .. born' /\ t # born + 1 /\ t \in TaskIds
        BY <4>1, Bounds DEF TypeOK, TaskIds
      <4>3. \A t \in 1 .. born : parent'[t] = parent[t]
        BY <4>1, <4>2 DEF TypeOK
      <4>4. QED
        BY <4>1, <4>2, <4>3 DEF TasksOf, Registered
    <3>3. pc'[v] = "run" /\ \A u \in Programs \ {v} : pc'[u] = pc[u]
      BY <2>1, <3>1 DEF TypeOK
    <3>4. QED
      BY <2>1, <2>2, <3>1, <3>2, <3>3, WaitsOfOne DEF Joining
  <2>11. CASE \E t \in TaskIds : Join(th, v, t)
    <3>1. \A u \in Programs : TasksOf(u)' = TasksOf(u)
      BY <2>11 DEF Join, TasksOf, Registered, scheduler, handles
    <3>2. \A u \in Programs \ {v} : /\ target'[u] = target[u] /\ todo'[u] = todo[u]
                                    /\ closing'[u] = closing[u] /\ pc'[u] = pc[u]
      BY <2>1, <2>11 DEF Join, Goes, TypeOK, interpreters
    <3>3. /\ pc'[v] \in Joining => target'[v] \in TasksOf(v) \ todo'[v]
          /\ todo'[v] \subseteq TasksOf(v)
          /\ IF closing'[v] THEN pc'[v] \in (Joining \ {"timed"}) \cup {"closing"}
             ELSE todo'[v] = {} /\ pc'[v] # "closing"
      BY <2>1, <2>2, <2>11 DEF Join, Running, At, Goes, TypeOK, interpreters, Joining
    <3>4. QED
      BY <2>1, <3>1, <3>2, <3>3, WaitsOfOne
  <2>12. CASE \E t \in TaskIds : JoinTimeout(th, v, t)
    <3>1. \A u \in Programs : TasksOf(u)' = TasksOf(u)
      BY <2>12 DEF JoinTimeout, TasksOf, Registered, scheduler, handles
    <3>2. \A u \in Programs \ {v} : /\ target'[u] = target[u] /\ todo'[u] = todo[u]
                                    /\ closing'[u] = closing[u] /\ pc'[u] = pc[u]
      BY <2>1, <2>12 DEF JoinTimeout, Goes, TypeOK, interpreters
    <3>3. /\ pc'[v] \in Joining => target'[v] \in TasksOf(v) \ todo'[v]
          /\ todo'[v] \subseteq TasksOf(v)
          /\ IF closing'[v] THEN pc'[v] \in (Joining \ {"timed"}) \cup {"closing"}
             ELSE todo'[v] = {} /\ pc'[v] # "closing"
      BY <2>1, <2>2, <2>12 DEF JoinTimeout, Running, At, Goes, TypeOK, interpreters,
            Joining
    <3>4. QED
      BY <2>1, <3>1, <3>2, <3>3, WaitsOfOne
  <2>13. CASE \E t \in TaskIds : Cancel(th, v, t)
    <3>1. \A u \in Programs : TasksOf(u)' = TasksOf(u)
      BY <2>13 DEF Cancel, TasksOf, Registered, scheduler, handles
    <3>2. \A u \in Programs \ {v} : /\ target'[u] = target[u] /\ todo'[u] = todo[u]
                                    /\ closing'[u] = closing[u] /\ pc'[u] = pc[u]
      BY <2>1, <2>13 DEF Cancel, Goes, TypeOK, interpreters
    <3>3. /\ pc'[v] \in Joining => target'[v] \in TasksOf(v) \ todo'[v]
          /\ todo'[v] \subseteq TasksOf(v)
          /\ IF closing'[v] THEN pc'[v] \in (Joining \ {"timed"}) \cup {"closing"}
             ELSE todo'[v] = {} /\ pc'[v] # "closing"
      BY <2>1, <2>2, <2>13 DEF Cancel, Running, At, Goes, TypeOK, interpreters, Joining
    <3>4. QED
      BY <2>1, <3>1, <3>2, <3>3, WaitsOfOne
  <2>14. CASE NotYet(th, v)
    <3>1. \A u \in Programs : TasksOf(u)' = TasksOf(u)
      BY <2>14 DEF NotYet, TasksOf, Registered, scheduler, handles
    <3>2. \A u \in Programs \ {v} : /\ target'[u] = target[u] /\ todo'[u] = todo[u]
                                    /\ closing'[u] = closing[u] /\ pc'[u] = pc[u]
      BY <2>1, <2>14 DEF NotYet, Goes, TypeOK, interpreters
    <3>3. /\ pc'[v] \in Joining => target'[v] \in TasksOf(v) \ todo'[v]
          /\ todo'[v] \subseteq TasksOf(v)
          /\ IF closing'[v] THEN pc'[v] \in (Joining \ {"timed"}) \cup {"closing"}
             ELSE todo'[v] = {} /\ pc'[v] # "closing"
      BY <2>1, <2>2, <2>14 DEF NotYet, Running, At, Goes, TypeOK, interpreters, Joining
    <3>4. QED
      BY <2>1, <3>1, <3>2, <3>3, WaitsOfOne
  <2>15. CASE Help(th, v)
    <3>1. Head(queue) = queue[1] /\ 1 \in 1 .. Len(queue) /\ Head(queue) \in TaskIds
      BY <2>15 DEF Help, MayHelp, TypeOK
    <3>2. pc[Head(queue)] = "off" /\ pc[v] = "help"
      BY <2>15, <3>1 DEF Help, At, Places
    <3>3. pc' = [pc EXCEPT ![v] = "check", ![Head(queue)] = "run"] /\ UNCHANGED interpreters
      BY <2>15 DEF Help
    <3>4. /\ pc'[v] = "check"
          /\ \A u \in Programs \ {v} : pc'[u] = pc[u] \/ (pc[u] = "off" /\ pc'[u] = "run")
      BY <2>1, <3>2, <3>3 DEF TypeOK
    <3>5. \A u \in Programs : TasksOf(u)' = TasksOf(u)
      BY <2>15 DEF Help, TasksOf, Registered, handles
    <3>6. QED
      BY <2>1, <2>2, <3>2, <3>3, <3>4, <3>5, WaitsOfOne DEF interpreters, Joining
  <2>16. CASE NothingToHelp(th, v)
    <3>1. \A u \in Programs : TasksOf(u)' = TasksOf(u)
      BY <2>16 DEF NothingToHelp, TasksOf, Registered, scheduler, handles
    <3>2. \A u \in Programs \ {v} : /\ target'[u] = target[u] /\ todo'[u] = todo[u]
                                    /\ closing'[u] = closing[u] /\ pc'[u] = pc[u]
      BY <2>1, <2>16 DEF NothingToHelp, Goes, TypeOK, interpreters
    <3>3. /\ pc'[v] \in Joining => target'[v] \in TasksOf(v) \ todo'[v]
          /\ todo'[v] \subseteq TasksOf(v)
          /\ IF closing'[v] THEN pc'[v] \in (Joining \ {"timed"}) \cup {"closing"}
             ELSE todo'[v] = {} /\ pc'[v] # "closing"
      BY <2>1, <2>2, <2>16 DEF NothingToHelp, Running, At, Goes, TypeOK, interpreters,
            Joining
    <3>4. QED
      BY <2>1, <3>1, <3>2, <3>3, WaitsOfOne
  <2>17. CASE FallsAsleep(th, v)
    <3>1. \A u \in Programs : TasksOf(u)' = TasksOf(u)
      BY <2>17 DEF FallsAsleep, TasksOf, Registered, scheduler, handles
    <3>2. \A u \in Programs \ {v} : /\ target'[u] = target[u] /\ todo'[u] = todo[u]
                                    /\ closing'[u] = closing[u] /\ pc'[u] = pc[u]
      BY <2>1, <2>17 DEF FallsAsleep, Goes, TypeOK, interpreters
    <3>3. /\ pc'[v] \in Joining => target'[v] \in TasksOf(v) \ todo'[v]
          /\ todo'[v] \subseteq TasksOf(v)
          /\ IF closing'[v] THEN pc'[v] \in (Joining \ {"timed"}) \cup {"closing"}
             ELSE todo'[v] = {} /\ pc'[v] # "closing"
      BY <2>1, <2>2, <2>17 DEF FallsAsleep, Running, At, Goes, TypeOK, interpreters,
            Joining
    <3>4. QED
      BY <2>1, <3>1, <3>2, <3>3, WaitsOfOne
  <2>18. CASE JoinedOk(th, v)
    <3>1. /\ UNCHANGED <<todo, closing, born, parent>> /\ joined' = joined \cup {target[v]}
          /\ target' = [target EXCEPT ![v] = Root]
          /\ pc[v] = "check" /\ pc' = [pc EXCEPT ![v] = Onward(v)]
      BY <2>18 DEF JoinedOk, At, Goes
    <3>2. target[v] \in TasksOf(v) \ todo[v]
      BY <2>2, <3>1 DEF Joining
    <3>3. ASSUME NEW u \in Programs, u # v PROVE TasksOf(u) \subseteq TasksOf(u)'
      BY <3>1, <3>2, <3>3 DEF TasksOf, Registered
    <3>4. todo[v] \subseteq TasksOf(v)'
      <4>1. ASSUME NEW t \in todo[v] PROVE t \in TasksOf(v)'
        <5>1. t \in TasksOf(v) /\ t # target[v]
          BY <2>2, <3>2, <4>1
        <5>2. QED
          BY <3>1, <5>1 DEF TasksOf, Registered
      <4>2. QED
        BY <4>1
    <3>5. /\ pc'[v] = IF closing[v] THEN "closing" ELSE "run"
          /\ \A u \in Programs \ {v} : pc'[u] = pc[u] /\ target'[u] = target[u]
      BY <2>1, <3>1 DEF TypeOK, Onward
    <3>6. /\ pc'[v] \notin Joining /\ todo'[v] = todo[v] /\ closing'[v] = closing[v]
          /\ IF closing[v] THEN pc'[v] = "closing" ELSE todo[v] = {} /\ pc'[v] = "run"
      BY <2>2, <3>1, <3>5 DEF Joining
    <3>7. \A u \in Programs \ {v} :
             /\ target'[u] = target[u] /\ todo'[u] = todo[u] /\ closing'[u] = closing[u]
             /\ pc'[u] = pc[u] /\ TasksOf(u) \subseteq TasksOf(u)'
      BY <3>1, <3>3, <3>5
    <3>8. todo'[v] \subseteq TasksOf(v)'
      BY <3>1, <3>4
    <3>9. QED
      BY <2>1, <3>6, <3>7, <3>8, WaitsOfOne
  <2>19. CASE JoinFailed(th, v)
    <3>1. \A u \in Programs : TasksOf(u)' = TasksOf(u)
      BY <2>19 DEF JoinFailed, TasksOf, Registered
    <3>2. /\ UNCHANGED <<target, todo>>
          /\ \A u \in Programs \ {v} : closing'[u] = closing[u]
      BY <2>19 DEF JoinFailed, interpreters
    <3>3. /\ pc'[v] = "ended"
          /\ \A u \in Programs \ {v} : pc'[u] = pc[u] \/ (pc[u] = "asleep" /\ pc'[u] = "check")
      BY <2>1, <2>19 DEF JoinFailed, Ends
    <3>4. closing'[v] = FALSE /\ todo[v] = {}
      BY <2>1, <2>2, <2>19 DEF JoinFailed, Running, At, TypeOK, Joining, interpreters
    <3>5. QED
      BY <2>1, <2>2, <3>1, <3>2, <3>3, <3>4, WaitsOfOne DEF Joining
  <2>20. CASE InTime(th, v)
    <3>1. \A u \in Programs : TasksOf(u)' = TasksOf(u)
      BY <2>20 DEF InTime, TasksOf, Registered, scheduler, handles
    <3>2. \A u \in Programs \ {v} : /\ target'[u] = target[u] /\ todo'[u] = todo[u]
                                    /\ closing'[u] = closing[u] /\ pc'[u] = pc[u]
      BY <2>1, <2>20 DEF InTime, Goes, TypeOK, interpreters
    <3>3. /\ pc'[v] \in Joining => target'[v] \in TasksOf(v) \ todo'[v]
          /\ todo'[v] \subseteq TasksOf(v)
          /\ IF closing'[v] THEN pc'[v] \in (Joining \ {"timed"}) \cup {"closing"}
             ELSE todo'[v] = {} /\ pc'[v] # "closing"
      BY <2>1, <2>2, <2>20 DEF InTime, Running, At, Goes, TypeOK, interpreters, Joining
    <3>4. QED
      BY <2>1, <3>1, <3>2, <3>3, WaitsOfOne
  <2>21. CASE TimesOut(th, v)
    <3>1. \A u \in Programs : TasksOf(u)' = TasksOf(u)
      BY <2>21 DEF TimesOut, TasksOf, Registered
    <3>2. /\ UNCHANGED <<target, todo>>
          /\ \A u \in Programs \ {v} : closing'[u] = closing[u]
      BY <2>21 DEF TimesOut, interpreters
    <3>3. /\ pc'[v] = "ended"
          /\ \A u \in Programs \ {v} : pc'[u] = pc[u] \/ (pc[u] = "asleep" /\ pc'[u] = "check")
      BY <2>1, <2>21 DEF TimesOut, Ends
    <3>4. closing'[v] = FALSE /\ todo[v] = {}
      BY <2>1, <2>2, <2>21 DEF TimesOut, Running, At, TypeOK, Joining, interpreters
    <3>5. QED
      BY <2>1, <2>2, <3>1, <3>2, <3>3, <3>4, WaitsOfOne DEF Joining
  <2>22. CASE TaskgroupEnter(th, v)
    <3>1. \A u \in Programs : TasksOf(u)' = TasksOf(u)
      BY <2>22 DEF TaskgroupEnter, TasksOf, Registered, scheduler, handles
    <3>2. \A u \in Programs \ {v} : /\ target'[u] = target[u] /\ todo'[u] = todo[u]
                                    /\ closing'[u] = closing[u] /\ pc'[u] = pc[u]
      BY <2>1, <2>22 DEF TaskgroupEnter, Goes, TypeOK, interpreters
    <3>3. /\ pc'[v] \in Joining => target'[v] \in TasksOf(v) \ todo'[v]
          /\ todo'[v] \subseteq TasksOf(v)
          /\ IF closing'[v] THEN pc'[v] \in (Joining \ {"timed"}) \cup {"closing"}
             ELSE todo'[v] = {} /\ pc'[v] # "closing"
      BY <2>1, <2>2, <2>22 DEF TaskgroupEnter, Running, At, Goes, TypeOK, interpreters,
            Joining
    <3>4. QED
      BY <2>1, <3>1, <3>2, <3>3, WaitsOfOne
  <2>23. CASE TaskgroupExit(th, v)
    <3>1. \A u \in Programs : TasksOf(u)' = TasksOf(u)
      BY <2>23 DEF TaskgroupExit, TasksOf, Registered, scheduler, handles
    <3>2. \A u \in Programs \ {v} : /\ target'[u] = target[u] /\ todo'[u] = todo[u]
                                    /\ closing'[u] = closing[u] /\ pc'[u] = pc[u]
      BY <2>1, <2>23 DEF TaskgroupExit, Goes, TypeOK, interpreters
    <3>3. /\ pc'[v] \in Joining => target'[v] \in TasksOf(v) \ todo'[v]
          /\ todo'[v] \subseteq TasksOf(v)
          /\ IF closing'[v] THEN pc'[v] \in (Joining \ {"timed"}) \cup {"closing"}
             ELSE todo'[v] = {} /\ pc'[v] # "closing"
      BY <2>1, <2>2, <2>23 DEF TaskgroupExit, Running, At, Goes, TypeOK, interpreters,
            Joining, ToClose
    <3>4. QED
      BY <2>1, <3>1, <3>2, <3>3, WaitsOfOne
  <2>24. CASE CloseNext(th, v)
    <3>1. \A u \in Programs : TasksOf(u)' = TasksOf(u)
      BY <2>24 DEF CloseNext, TasksOf, Registered, scheduler, handles
    <3>2. \A u \in Programs \ {v} : /\ target'[u] = target[u] /\ todo'[u] = todo[u]
                                    /\ closing'[u] = closing[u] /\ pc'[u] = pc[u]
      BY <2>1, <2>24 DEF CloseNext, Goes, TypeOK, interpreters
    <3>3. /\ pc'[v] \in Joining => target'[v] \in TasksOf(v) \ todo'[v]
          /\ todo'[v] \subseteq TasksOf(v)
          /\ IF closing'[v] THEN pc'[v] \in (Joining \ {"timed"}) \cup {"closing"}
             ELSE todo'[v] = {} /\ pc'[v] # "closing"
      BY <2>1, <2>2, <2>24 DEF CloseNext, Running, At, Goes, TypeOK, interpreters, Joining
    <3>4. QED
      BY <2>1, <3>1, <3>2, <3>3, WaitsOfOne
  <2>25. CASE CloseTaskFailed(th, v)
    <3>1. \A u \in Programs : TasksOf(u)' = TasksOf(u)
      BY <2>25 DEF CloseTaskFailed, TasksOf, Registered, scheduler, handles
    <3>2. \A u \in Programs \ {v} : /\ target'[u] = target[u] /\ todo'[u] = todo[u]
                                    /\ closing'[u] = closing[u] /\ pc'[u] = pc[u]
      BY <2>1, <2>25 DEF CloseTaskFailed, Goes, TypeOK, interpreters
    <3>3. /\ pc'[v] \in Joining => target'[v] \in TasksOf(v) \ todo'[v]
          /\ todo'[v] \subseteq TasksOf(v)
          /\ IF closing'[v] THEN pc'[v] \in (Joining \ {"timed"}) \cup {"closing"}
             ELSE todo'[v] = {} /\ pc'[v] # "closing"
      BY <2>1, <2>2, <2>25 DEF CloseTaskFailed, Running, At, Goes, TypeOK, interpreters,
            Joining
    <3>4. QED
      BY <2>1, <3>1, <3>2, <3>3, WaitsOfOne
  <2>26. CASE Closed(th, v)
    <3>1. \A u \in Programs : TasksOf(u)' = TasksOf(u)
      BY <2>26 DEF Closed, TasksOf, Registered, scheduler, handles
    <3>2. \A u \in Programs \ {v} : /\ target'[u] = target[u] /\ todo'[u] = todo[u]
                                    /\ closing'[u] = closing[u] /\ pc'[u] = pc[u]
      BY <2>1, <2>26 DEF Closed, Goes, TypeOK, interpreters
    <3>3. /\ pc'[v] \in Joining => target'[v] \in TasksOf(v) \ todo'[v]
          /\ todo'[v] \subseteq TasksOf(v)
          /\ IF closing'[v] THEN pc'[v] \in (Joining \ {"timed"}) \cup {"closing"}
             ELSE todo'[v] = {} /\ pc'[v] # "closing"
      BY <2>1, <2>2, <2>26 DEF Closed, Running, At, Goes, TypeOK, interpreters, Joining
    <3>4. QED
      BY <2>1, <3>1, <3>2, <3>3, WaitsOfOne
  <2>27. CASE ClosedWithError(th, v)
    <3>1. \A u \in Programs : TasksOf(u)' = TasksOf(u)
      BY <2>27 DEF ClosedWithError, TasksOf, Registered
    <3>2. /\ UNCHANGED <<target, todo>>
          /\ \A u \in Programs \ {v} : closing'[u] = closing[u]
      BY <2>27 DEF ClosedWithError
    <3>3. /\ pc'[v] = "ended"
          /\ \A u \in Programs \ {v} : pc'[u] = pc[u] \/ (pc[u] = "asleep" /\ pc'[u] = "check")
      BY <2>1, <2>27 DEF ClosedWithError, Ends
    <3>4. closing'[v] = FALSE /\ todo[v] = {}
      BY <2>1, <2>2, <2>27 DEF ClosedWithError, Running, At, TypeOK, Joining
    <3>5. QED
      BY <2>1, <2>2, <3>1, <3>2, <3>3, <3>4, WaitsOfOne DEF Joining
  <2>28. CASE SharedWait(th, v)
    <3>1. \A u \in Programs : TasksOf(u)' = TasksOf(u)
      BY <2>28 DEF SharedWait, TasksOf, Registered, scheduler, handles
    <3>2. \A u \in Programs \ {v} : /\ target'[u] = target[u] /\ todo'[u] = todo[u]
                                    /\ closing'[u] = closing[u] /\ pc'[u] = pc[u]
      BY <2>1, <2>28 DEF SharedWait, Goes, TypeOK, interpreters
    <3>3. /\ pc'[v] \in Joining => target'[v] \in TasksOf(v) \ todo'[v]
          /\ todo'[v] \subseteq TasksOf(v)
          /\ IF closing'[v] THEN pc'[v] \in (Joining \ {"timed"}) \cup {"closing"}
             ELSE todo'[v] = {} /\ pc'[v] # "closing"
      BY <2>1, <2>2, <2>28 DEF SharedWait, Running, At, Goes, TypeOK, interpreters,
            Joining
    <3>4. QED
      BY <2>1, <3>1, <3>2, <3>3, WaitsOfOne
  <2>29. CASE Observe(th, v)
    <3>1. /\ \A u \in Programs : pc'[u] = pc[u] \/ (pc[u] = "shared" /\ pc'[u] = "run")
          /\ UNCHANGED <<target, todo, closing>> /\ pc[v] = "run" /\ pc'[v] = "run"
      BY <2>1, <2>29 DEF Observe, Running, At, interpreters
    <3>2. \A u \in Programs : TasksOf(u)' = TasksOf(u)
      BY <2>29 DEF Observe, TasksOf, Registered, scheduler, handles
    <3>3. QED
      BY <2>1, <2>2, <3>1, <3>2, WaitsOfOne DEF Joining
  <2>30. QED
    BY <1>1, <2>4, <2>5, <2>6, <2>7, <2>8, <2>9, <2>10, <2>11, <2>12, <2>13,
       <2>14, <2>15, <2>16, <2>17, <2>18, <2>19, <2>20, <2>21, <2>22, <2>23,
       <2>24, <2>25, <2>26, <2>27, <2>28, <2>29 DEF Program
<1>2. CASE Take(th)
  <2>1. Head(queue) = queue[1] /\ 1 \in 1 .. Len(queue) /\ Head(queue) \in TaskIds
    BY <1>2 DEF Take, TypeOK
  <2>2. pc[Head(queue)] = "off" /\ Head(queue) \in Programs
    BY <2>1 DEF Places, Programs
  <2>3. pc' = [pc EXCEPT ![Head(queue)] = "run"] /\ UNCHANGED interpreters
    BY <1>2 DEF Take, Goes
  <2>4. \A u \in Programs : pc'[u] = pc[u] \/ (pc[u] = "off" /\ pc'[u] = "run")
    BY <2>2, <2>3 DEF TypeOK
  <2>5. \A u \in Programs : TasksOf(u)' = TasksOf(u)
    BY <1>2 DEF Take, TasksOf, Registered, handles
  <2>6. pc'[Root] = pc[Root] /\ Root \in Programs
    BY <2>4 DEF Places, Programs
  <2>7. /\ pc[Root] \in Joining => target[Root] \in TasksOf(Root) \ todo[Root]
        /\ todo[Root] \subseteq TasksOf(Root)
        /\ IF closing[Root] THEN pc[Root] \in (Joining \ {"timed"}) \cup {"closing"}
           ELSE todo[Root] = {} /\ pc[Root] # "closing"
    BY <2>6 DEF Waits
  <2>8. QED
    BY <2>3, <2>4, <2>5, <2>6, <2>7, WaitsOfOne DEF interpreters
<1>3. CASE WorkerSleeps(th) \/ WorkerExits(th)
  <2>1. UNCHANGED <<pc, target, todo, closing, born, joined, parent>>
    BY <1>3 DEF WorkerSleeps, WorkerExits, interpreters, scheduler, handles
  <2>2. QED
    BY <2>1 DEF Waits, TasksOf, Registered
<1>4. QED
  BY <1>1, <1>2, <1>3, OnTop DEF Step, Worker

LEMMA SleepersOfOne ==
    ASSUME Sleepers,
           \A u \in Programs : pc'[u] = "off" => pc[u] = "off",
           \A u \in Programs : \/ pc'[u] = pc[u] /\ target'[u] = target[u] /\ target[u] \in Programs
                              \/ pc'[u] \notin {"drowsy", "asleep"},
           UNCHANGED status
    PROVE  Sleepers'
BY DEF Sleepers, Completed

LEMMA EndsKeepsSleepers ==
    ASSUME TypeOK, Sleepers, NEW th, NEW v \in Programs, NEW outcome, Ends(th, v, outcome),
           pc[v] # "off", UNCHANGED target
    PROVE  Sleepers'
<1>1. ASSUME NEW u \in Programs, pc'[u] \in {"drowsy", "asleep"}
      PROVE  pc[u] = pc'[u] /\ (pc[u] = "asleep" => target[u] # v)
  BY <1>1 DEF Ends
<1>2. \A u \in Programs : /\ target'[u] = target[u] /\ target[u] \in Programs
                         /\ (pc'[u] = "off" => pc[u] = "off")
                         /\ (u # v => status'[u] = status[u])
  BY DEF TypeOK, Ends
<1>3. QED
  BY <1>1, <1>2 DEF Sleepers, Completed

LEMMA StepKeepsSleepers ==
    ASSUME TypeOK, Places, Waits, Sleepers, NEW th \in Threads, Step(th)
    PROVE  Sleepers'
<1>1. ASSUME NEW v \in Programs, Program(th, v) PROVE Sleepers'
  <2>1. CASE Return(th, v)
    BY <2>1, EndsKeepsSleepers DEF Return, Running, At, interpreters
  <2>2. CASE Fail(th, v)
    BY <2>2, EndsKeepsSleepers DEF Fail, Running, At, interpreters
  <2>3. CASE Interrupted(th, v)
    BY <2>3, EndsKeepsSleepers DEF Interrupted, Running, At, interpreters
  <2>4. CASE Reserve(th, v)
    BY <2>4, SleepersOfOne DEF Reserve, At, Running, Goes, Onward, TypeOK,
       interpreters, handles
  <2>5. CASE ForkRefused(th, v)
    BY <2>5, EndsKeepsSleepers DEF ForkRefused, Running, At, interpreters
  <2>6. CASE ForkFails(th, v)
    BY <2>6, EndsKeepsSleepers DEF ForkFails, Running, At, interpreters
  <2>7. CASE Enqueue(th, v)
    BY <2>7, SleepersOfOne DEF Enqueue, At, Running, Goes, Onward, TypeOK,
       interpreters, handles
  <2>8. CASE \E t \in TaskIds : Join(th, v, t)
    BY <2>8, SleepersOfOne DEF Join, At, Running, Goes, Onward, TypeOK,
       interpreters, handles
  <2>9. CASE \E t \in TaskIds : JoinTimeout(th, v, t)
    BY <2>9, SleepersOfOne DEF JoinTimeout, At, Running, Goes, Onward, TypeOK,
       interpreters, handles
  <2>10. CASE \E t \in TaskIds : Cancel(th, v, t)
    BY <2>10, SleepersOfOne DEF Cancel, At, Running, Goes, Onward, TypeOK,
       interpreters, handles
  <2>11. CASE NotYet(th, v)
    BY <2>11, SleepersOfOne DEF NotYet, At, Running, Goes, Onward, TypeOK,
       interpreters, handles
  <2>12. CASE Help(th, v)
    <3>1. Head(queue) = queue[1] /\ 1 \in 1 .. Len(queue) /\ Head(queue) \in TaskIds
      BY <2>12 DEF Help, MayHelp, TypeOK
    <3>2. UNCHANGED <<target, status>> /\ pc' = [pc EXCEPT ![v] = "check", ![Head(queue)] = "run"]
      BY <2>12 DEF Help, interpreters, handles
    <3>3. \A u \in Programs : pc'[u] = pc[u] \/ pc'[u] \in {"check", "run"}
      BY <3>2 DEF TypeOK
    <3>4. QED
      BY <3>2, <3>3, SleepersOfOne DEF TypeOK
  <2>13. CASE NothingToHelp(th, v)
    <3>1. queue = <<>> /\ pc[v] = "help" /\ pc' = [pc EXCEPT ![v] = "drowsy"]
          /\ UNCHANGED <<target, status>>
      BY <2>13 DEF NothingToHelp, MayHelp, At, Goes, interpreters, handles
    <3>2. target[v] \in 1 .. born /\ target[v] \in TaskIds
      BY <3>1, Bounds DEF Waits, Joining, TasksOf, Registered, TypeOK, TaskIds
    <3>3. pc[target[v]] # "off"
      BY <3>1, <3>2, Bounds DEF Places, TaskIds, TypeOK
    <3>4. /\ pc'[v] = "drowsy" /\ \A u \in Programs : u # v => pc'[u] = pc[u]
          /\ \A u \in Programs : target[u] \in Programs
      BY <3>1 DEF TypeOK
    <3>5. QED
      BY <3>1, <3>3, <3>4 DEF Sleepers, Completed
  <2>14. CASE FallsAsleep(th, v)
    <3>1. /\ pc[v] = "drowsy" /\ UNCHANGED <<target, status>>
          /\ pc' = [pc EXCEPT ![v] = IF Completed(target[v]) THEN "check" ELSE "asleep"]
      BY <2>14 DEF FallsAsleep, Wakeful, At, Goes, interpreters, handles
    <3>2. /\ pc'[v] = IF Completed(target[v]) THEN "check" ELSE "asleep"
          /\ \A u \in Programs : u # v => pc'[u] = pc[u]
          /\ \A u \in Programs : target[u] \in Programs
      BY <3>1 DEF TypeOK
    <3>3. \A u \in Programs : pc'[u] = "off" => pc[u] = "off"
      BY <3>2
    <3>4. QED
      BY <3>1, <3>2, <3>3 DEF Sleepers, Completed
  <2>15. CASE JoinedOk(th, v)
    BY <2>15, SleepersOfOne DEF JoinedOk, At, Running, Goes, Onward, TypeOK,
       interpreters, handles
  <2>16. CASE JoinFailed(th, v)
    BY <2>16, EndsKeepsSleepers DEF JoinFailed, Running, At, interpreters
  <2>17. CASE InTime(th, v)
    BY <2>17, SleepersOfOne DEF InTime, At, Running, Goes, Onward, TypeOK,
       interpreters, handles
  <2>18. CASE TimesOut(th, v)
    BY <2>18, EndsKeepsSleepers DEF TimesOut, Running, At, interpreters
  <2>19. CASE TaskgroupEnter(th, v)
    BY <2>19, SleepersOfOne DEF TaskgroupEnter, At, Running, Goes, Onward,
       TypeOK, interpreters, handles
  <2>20. CASE TaskgroupExit(th, v)
    BY <2>20, SleepersOfOne DEF TaskgroupExit, At, Running, Goes, Onward,
       TypeOK, interpreters, handles
  <2>21. CASE CloseNext(th, v)
    BY <2>21, SleepersOfOne DEF CloseNext, At, Running, Goes, Onward, TypeOK,
       interpreters, handles
  <2>22. CASE CloseTaskFailed(th, v)
    BY <2>22, SleepersOfOne DEF CloseTaskFailed, At, Running, Goes, Onward,
       TypeOK, interpreters, handles
  <2>23. CASE Closed(th, v)
    BY <2>23, SleepersOfOne DEF Closed, At, Running, Goes, Onward, TypeOK,
       interpreters, handles
  <2>24. CASE ClosedWithError(th, v)
    BY <2>24, EndsKeepsSleepers DEF ClosedWithError, Running, At
  <2>25. CASE SharedWait(th, v)
    BY <2>25, SleepersOfOne DEF SharedWait, At, Running, Goes, Onward, TypeOK,
       interpreters, handles
  <2>26. CASE Observe(th, v)
    <3>1. UNCHANGED <<target, status>> /\ \A u \in Programs : pc'[u] = pc[u] \/ pc'[u] = "run"
      BY <2>26 DEF Observe, interpreters, handles
    <3>2. QED
      BY <3>1, SleepersOfOne DEF TypeOK
  <2>27. QED
    BY <1>1, <2>1, <2>2, <2>3, <2>4, <2>5, <2>6, <2>7, <2>8, <2>9, <2>10,
       <2>11, <2>12, <2>13, <2>14, <2>15, <2>16, <2>17, <2>18, <2>19, <2>20,
       <2>21, <2>22, <2>23, <2>24, <2>25, <2>26 DEF Program
<1>2. CASE Take(th)
  <2>1. UNCHANGED <<target, status>> /\ pc' = [pc EXCEPT ![Head(queue)] = "run"]
    BY <1>2 DEF Take, Goes, interpreters, handles
  <2>2. \A u \in Programs : pc'[u] = pc[u] \/ pc'[u] = "run"
    BY <2>1 DEF TypeOK
  <2>3. QED
    BY <2>1, <2>2, SleepersOfOne DEF TypeOK
<1>3. CASE WorkerSleeps(th) \/ WorkerExits(th)
  BY <1>3 DEF WorkerSleeps, WorkerExits, Sleepers, Completed, interpreters, handles
<1>4. QED
  BY <1>1, <1>2, <1>3, OnTop DEF Step, Worker

-----------------------------------------------------------------------------
(* Which tasks of a group are still waited for. *)

LEMMA GroupsOfOne ==
    ASSUME TypeOK, Groups, NEW v \in Programs, UNCHANGED <<born, parent, group>>,
           \A u \in Programs \ {v} :
              /\ target'[u] = target[u] /\ todo'[u] = todo[u] /\ closing'[u] = closing[u]
              /\ groups'[u] = groups[u] /\ (pc[u] \in Joining => pc'[u] \in Joining),
           \A t \in 1 .. born : Completed(t) => Completed(t)',
           \A t \in 1 .. born :
              parent[t] = v /\ Awaited(v, t) => Completed(t)' \/ Awaited(v, t)'
    PROVE  Groups'
<1>1. ASSUME NEW t \in 1 .. born, group[t] # 0, ~Completed(t)' PROVE Awaited(parent[t], t)'
  <2>1. parent[t] \in Programs
    <3>1. parent \in [TaskIds -> Programs] /\ born \in 0 .. MaxTasks
      BY DEF TypeOK
    <3>2. QED
      BY <3>1, Bounds DEF TaskIds
  <2>2. Awaited(parent[t], t)
    BY <1>1 DEF Groups
  <2>3. parent'[t] = parent[t]
    OBVIOUS
  <2>4. CASE parent[t] = v
    BY <1>1, <2>2, <2>3, <2>4 DEF Awaited
  <2>5. CASE parent[t] # v
    BY <2>1, <2>2, <2>3, <2>5 DEF Awaited
  <2>6. QED
    BY <2>4, <2>5
<1>2. QED
  BY <1>1 DEF Groups

LEMMA EndsKeepsGroups ==
    ASSUME TypeOK, Waits, Groups, NEW th, NEW v \in Programs,
           NEW outcome \in {"ok", "cancelled", "error"}, Ends(th, v, outcome),
           todo[v] = {}, pc[v] \notin Joining \/ ~closing[v],
           \A u \in Programs \ {v} : closing'[u] = closing[u],
           UNCHANGED <<target, todo, groups, born, parent, group>>
    PROVE  Groups'
<1>1. \A u \in Programs \ {v} : pc[u] \in Joining => pc'[u] \in Joining
  BY DEF Ends, Joining
<1>2. \A t \in Programs : Completed(t) => Completed(t)'
  BY DEF Ends, Completed, TypeOK
<1>3. 1 .. born \subseteq Programs
  BY Bounds DEF TypeOK, Programs, TaskIds
<1>4. ASSUME NEW t \in 1 .. born, Awaited(v, t) PROVE Awaited(v, t)'
  BY <1>4 DEF Awaited
<1>5. QED
  BY <1>1, <1>2, <1>3, <1>4, GroupsOfOne

LEMMA StepKeepsGroups ==
    ASSUME TypeOK, Places, Waits, Slots, Groups, NEW th \in Threads, Step(th)
    PROVE  Groups'
<1>1. ASSUME NEW v \in Programs, Program(th, v) PROVE Groups'
  <2>1. /\ pc[v] \in Joining => target[v] \in TasksOf(v) \ todo[v]
        /\ todo[v] \subseteq TasksOf(v)
        /\ IF closing[v] THEN pc[v] \in (Joining \ {"timed"}) \cup {"closing"}
           ELSE todo[v] = {} /\ pc[v] # "closing"
    BY DEF Waits
  <2>2. CASE Return(th, v)
    BY <2>1, <2>2, EndsKeepsGroups DEF Return, Running, At, interpreters,
       Joining
  <2>3. CASE Fail(th, v)
    BY <2>1, <2>3, EndsKeepsGroups DEF Fail, Running, At, interpreters,
       Joining
  <2>4. CASE Interrupted(th, v)
    BY <2>1, <2>4, EndsKeepsGroups DEF Interrupted, Running, At, interpreters,
       Joining
  <2>5. CASE Reserve(th, v)
    <3>1. UNCHANGED <<born, parent, group, status>>
      BY <2>5 DEF Reserve, scheduler, handles
    <3>2. \A u \in Programs \ {v} : /\ target'[u] = target[u] /\ todo'[u] = todo[u]
                                    /\ closing'[u] = closing[u] /\ groups'[u] = groups[u]
                                    /\ pc'[u] = pc[u]
      BY <2>5 DEF Reserve, Goes, TypeOK, interpreters
    <3>3. ASSUME NEW t \in 1 .. born, parent[t] = v, Awaited(v, t)
          PROVE  Completed(t)' \/ Awaited(v, t)'
      BY <2>1, <2>5, <3>1, <3>3 DEF Reserve, Running, At, Goes, Awaited,
         TypeOK, Joining, interpreters, Completed
    <3>4. QED
      BY <3>1, <3>2, <3>3, GroupsOfOne DEF Completed
  <2>6. CASE ForkRefused(th, v)
    BY <2>1, <2>6, EndsKeepsGroups DEF ForkRefused, Running, At, interpreters,
       Joining
  <2>7. CASE ForkFails(th, v)
    BY <2>1, <2>7, EndsKeepsGroups DEF ForkFails, Running, At, interpreters,
       Joining
  <2>8. CASE Enqueue(th, v)
    <3>1. /\ UNCHANGED <<target, todo, closing, groups, status>> /\ ~closing[v]
          /\ pc[v] = "forking" /\ pc' = [pc EXCEPT ![v] = "run"]
          /\ born' = born + 1 /\ parent' = [parent EXCEPT ![born + 1] = v]
          /\ group' = [group EXCEPT ![born + 1] = CurrentGroup(v)]
      BY <2>1, <2>8 DEF Enqueue, At, Goes, interpreters, handles, Joining
    <3>2. born + 1 \in TaskIds
      BY <3>1, RoomToFork
    <3>3. born + 1 \in TaskIds /\ born \in Nat /\ \A t \in 1 .. born : t \in TaskIds /\ t # born + 1
      BY <3>2, Bounds DEF TypeOK, TaskIds
    <3>4. ASSUME NEW t \in 1 .. born, group'[t] # 0, ~Completed(t)' PROVE Awaited(parent[t], t)'
      <4>1. /\ group'[t] = group[t] /\ parent'[t] = parent[t]
            /\ Awaited(parent[t], t) /\ parent[t] \in Programs
        BY <3>1, <3>3, <3>4 DEF TypeOK, Groups, Completed
      <4>2. CASE parent[t] = v
        BY <3>1, <4>1, <4>2 DEF Awaited
      <4>3. CASE parent[t] # v
        <5>1. pc'[parent[t]] = pc[parent[t]]
          BY <3>1, <4>1, <4>3 DEF TypeOK
        <5>2. QED
          BY <3>1, <4>1, <5>1 DEF Awaited
      <4>4. QED
        BY <4>2, <4>3
    <3>5. ASSUME NEW b \in TaskIds, b = born + 1, group'[b] # 0 PROVE Awaited(v, b)'
      <4>1. group'[b] = CurrentGroup(v)
        BY <3>1, <3>3, <3>5 DEF TypeOK
      <4>2. groups[v] # <<>> /\ group'[b] = groups[v][Len(groups[v])]
        BY <3>5, <4>1 DEF CurrentGroup, Last
      <4>3. Len(groups[v]) \in 1 .. Len(groups[v]) /\ groups'[v] = groups[v]
        BY <3>1, <4>2 DEF TypeOK
      <4>4. QED
        BY <3>1, <4>2, <4>3 DEF Awaited
    <3>6. parent'[born + 1] = v /\ \A t \in 1 .. born : parent'[t] = parent[t]
      BY <3>1, <3>3 DEF TypeOK
    <3>7. QED
      <4>1. ASSUME NEW t \in 1 .. born', group'[t] # 0, ~Completed(t)', t \notin 1 .. born
            PROVE  Awaited(parent[t], t)'
        <5>1. t = born + 1 /\ t \in TaskIds
          BY <3>1, <3>3, <4>1
        <5>2. Awaited(v, t)' /\ parent'[t] = v
          BY <3>5, <3>6, <4>1, <5>1
        <5>3. QED
          BY <5>2 DEF Awaited
      <4>2. QED
        BY <3>4, <4>1 DEF Groups
  <2>9. CASE \E t \in TaskIds : Join(th, v, t)
    <3>1. UNCHANGED <<born, parent, group, status>>
      BY <2>9 DEF Join, scheduler, handles
    <3>2. \A u \in Programs \ {v} : /\ target'[u] = target[u] /\ todo'[u] = todo[u]
                                    /\ closing'[u] = closing[u] /\ groups'[u] = groups[u]
                                    /\ pc'[u] = pc[u]
      BY <2>9 DEF Join, Goes, TypeOK, interpreters
    <3>3. ASSUME NEW t \in 1 .. born, parent[t] = v, Awaited(v, t)
          PROVE  Completed(t)' \/ Awaited(v, t)'
      BY <2>1, <2>9, <3>1, <3>3 DEF Join, Running, At, Goes, Awaited, TypeOK,
         Joining, interpreters, Completed
    <3>4. QED
      BY <3>1, <3>2, <3>3, GroupsOfOne DEF Completed
  <2>10. CASE \E t \in TaskIds : JoinTimeout(th, v, t)
    <3>1. UNCHANGED <<born, parent, group, status>>
      BY <2>10 DEF JoinTimeout, scheduler, handles
    <3>2. \A u \in Programs \ {v} : /\ target'[u] = target[u] /\ todo'[u] = todo[u]
                                    /\ closing'[u] = closing[u] /\ groups'[u] = groups[u]
                                    /\ pc'[u] = pc[u]
      BY <2>10 DEF JoinTimeout, Goes, TypeOK, interpreters
    <3>3. ASSUME NEW t \in 1 .. born, parent[t] = v, Awaited(v, t)
          PROVE  Completed(t)' \/ Awaited(v, t)'
      BY <2>1, <2>10, <3>1, <3>3 DEF JoinTimeout, Running, At, Goes, Awaited,
         TypeOK, Joining, interpreters, Completed
    <3>4. QED
      BY <3>1, <3>2, <3>3, GroupsOfOne DEF Completed
  <2>11. CASE \E t \in TaskIds : Cancel(th, v, t)
    <3>1. UNCHANGED <<born, parent, group, status>>
      BY <2>11 DEF Cancel, scheduler, handles
    <3>2. \A u \in Programs \ {v} : /\ target'[u] = target[u] /\ todo'[u] = todo[u]
                                    /\ closing'[u] = closing[u] /\ groups'[u] = groups[u]
                                    /\ pc'[u] = pc[u]
      BY <2>11 DEF Cancel, Goes, TypeOK, interpreters
    <3>3. ASSUME NEW t \in 1 .. born, parent[t] = v, Awaited(v, t)
          PROVE  Completed(t)' \/ Awaited(v, t)'
      BY <2>1, <2>11, <3>1, <3>3 DEF Cancel, Running, At, Goes, Awaited,
         TypeOK, Joining, interpreters, Completed
    <3>4. QED
      BY <3>1, <3>2, <3>3, GroupsOfOne DEF Completed
  <2>12. CASE NotYet(th, v)
    <3>1. UNCHANGED <<born, parent, group, status>>
      BY <2>12 DEF NotYet, scheduler, handles
    <3>2. \A u \in Programs \ {v} : /\ target'[u] = target[u] /\ todo'[u] = todo[u]
                                    /\ closing'[u] = closing[u] /\ groups'[u] = groups[u]
                                    /\ pc'[u] = pc[u]
      BY <2>12 DEF NotYet, Goes, TypeOK, interpreters
    <3>3. ASSUME NEW t \in 1 .. born, parent[t] = v, Awaited(v, t)
          PROVE  Completed(t)' \/ Awaited(v, t)'
      BY <2>1, <2>12, <3>1, <3>3 DEF NotYet, Running, At, Goes, Awaited,
         TypeOK, Joining, interpreters, Completed
    <3>4. QED
      BY <3>1, <3>2, <3>3, GroupsOfOne DEF Completed
  <2>13. CASE Help(th, v)
    <3>1. UNCHANGED <<born, parent, group, status>>
      BY <2>13 DEF Help, scheduler, handles
    <3>2. Head(queue) = queue[1] /\ 1 \in 1 .. Len(queue) /\ Head(queue) \in TaskIds
      BY <2>13 DEF Help, MayHelp, TypeOK
    <3>3. pc[Head(queue)] = "off" /\ Head(queue) # v /\ Head(queue) \in Programs
      BY <2>13, <3>2 DEF Help, At, Places, Programs
    <3>4. pc' = [pc EXCEPT ![v] = "check", ![Head(queue)] = "run"] /\ UNCHANGED interpreters
      BY <2>13 DEF Help
    <3>5. pc'[v] = "check" /\ \A u \in Programs : pc[u] \in Joining => pc'[u] \in Joining
      BY <3>3, <3>4 DEF TypeOK, Joining
    <3>6. QED
      BY <3>1, <3>4, <3>5, GroupsOfOne DEF Awaited, Completed, interpreters, Joining
  <2>14. CASE NothingToHelp(th, v)
    <3>1. UNCHANGED <<born, parent, group, status>>
      BY <2>14 DEF NothingToHelp, scheduler, handles
    <3>2. \A u \in Programs \ {v} : /\ target'[u] = target[u] /\ todo'[u] = todo[u]
                                    /\ closing'[u] = closing[u] /\ groups'[u] = groups[u]
                                    /\ pc'[u] = pc[u]
      BY <2>14 DEF NothingToHelp, Goes, TypeOK, interpreters
    <3>3. ASSUME NEW t \in 1 .. born, parent[t] = v, Awaited(v, t)
          PROVE  Completed(t)' \/ Awaited(v, t)'
      BY <2>1, <2>14, <3>1, <3>3 DEF NothingToHelp, Running, At, Goes,
         Awaited, TypeOK, Joining, interpreters, Completed
    <3>4. QED
      BY <3>1, <3>2, <3>3, GroupsOfOne DEF Completed
  <2>15. CASE FallsAsleep(th, v)
    <3>1. UNCHANGED <<born, parent, group, status>>
      BY <2>15 DEF FallsAsleep, scheduler, handles
    <3>2. \A u \in Programs \ {v} : /\ target'[u] = target[u] /\ todo'[u] = todo[u]
                                    /\ closing'[u] = closing[u] /\ groups'[u] = groups[u]
                                    /\ pc'[u] = pc[u]
      BY <2>15 DEF FallsAsleep, Goes, TypeOK, interpreters
    <3>3. ASSUME NEW t \in 1 .. born, parent[t] = v, Awaited(v, t)
          PROVE  Completed(t)' \/ Awaited(v, t)'
      BY <2>1, <2>15, <3>1, <3>3 DEF FallsAsleep, Running, At, Goes, Awaited,
         TypeOK, Joining, interpreters, Completed
    <3>4. QED
      BY <3>1, <3>2, <3>3, GroupsOfOne DEF Completed
  <2>16. CASE JoinedOk(th, v)
    <3>1. UNCHANGED <<born, parent, group, status>>
      BY <2>16 DEF JoinedOk, scheduler, handles
    <3>2. \A u \in Programs \ {v} : /\ target'[u] = target[u] /\ todo'[u] = todo[u]
                                    /\ closing'[u] = closing[u] /\ groups'[u] = groups[u]
                                    /\ pc'[u] = pc[u]
      BY <2>16 DEF JoinedOk, Goes, TypeOK, interpreters
    <3>3. ASSUME NEW t \in 1 .. born, parent[t] = v, Awaited(v, t)
          PROVE  Completed(t)' \/ Awaited(v, t)'
      BY <2>1, <2>16, <3>1, <3>3 DEF JoinedOk, Running, At, Goes, Awaited,
         TypeOK, Joining, interpreters, Completed, Onward
    <3>4. QED
      BY <3>1, <3>2, <3>3, GroupsOfOne DEF Completed
  <2>17. CASE JoinFailed(th, v)
    <3>1. (IF status[target[v]] = "ok" THEN "error" ELSE status[target[v]]) \in {"ok", "cancelled", "error"}
      BY <2>17 DEF JoinFailed, Completed, TypeOK
    <3>2. QED
      BY <2>1, <2>17, <3>1, EndsKeepsGroups DEF JoinFailed, At, interpreters
  <2>18. CASE InTime(th, v)
    <3>1. UNCHANGED <<born, parent, group, status>>
      BY <2>18 DEF InTime, scheduler, handles
    <3>2. \A u \in Programs \ {v} : /\ target'[u] = target[u] /\ todo'[u] = todo[u]
                                    /\ closing'[u] = closing[u] /\ groups'[u] = groups[u]
                                    /\ pc'[u] = pc[u]
      BY <2>18 DEF InTime, Goes, TypeOK, interpreters
    <3>3. ASSUME NEW t \in 1 .. born, parent[t] = v, Awaited(v, t)
          PROVE  Completed(t)' \/ Awaited(v, t)'
      BY <2>1, <2>18, <3>1, <3>3 DEF InTime, Running, At, Goes, Awaited,
         TypeOK, Joining, interpreters, Completed
    <3>4. QED
      BY <3>1, <3>2, <3>3, GroupsOfOne DEF Completed
  <2>19. CASE TimesOut(th, v)
    BY <2>1, <2>19, EndsKeepsGroups DEF TimesOut, Running, At, interpreters,
       Joining
  <2>20. CASE TaskgroupEnter(th, v)
    <3>1. UNCHANGED <<born, parent, group, status>>
      BY <2>20 DEF TaskgroupEnter, scheduler, handles
    <3>2. \A u \in Programs \ {v} : /\ target'[u] = target[u] /\ todo'[u] = todo[u]
                                    /\ closing'[u] = closing[u] /\ groups'[u] = groups[u]
                                    /\ pc'[u] = pc[u]
      BY <2>20 DEF TaskgroupEnter, Goes, TypeOK, interpreters
    <3>3. ASSUME NEW t \in 1 .. born, parent[t] = v, Awaited(v, t)
          PROVE  Completed(t)' \/ Awaited(v, t)'
      <4>1. /\ groups[v] \in Seq(1 .. MaxGroups) /\ groups'[v] = Append(groups[v], made'[v])
            /\ ~closing[v]
        BY <2>1, <2>20 DEF TaskgroupEnter, Running, At, TypeOK, Joining
      <4>2. PICK i \in 1 .. Len(groups[v]) : groups[v][i] = group[t]
        BY <3>3, <4>1 DEF Awaited
      <4>3. i \in 1 .. Len(groups'[v]) /\ groups'[v][i] = group'[t]
        BY <3>1, <4>1, <4>2
      <4>4. QED
        BY <4>3 DEF Awaited
    <3>4. QED
      BY <3>1, <3>2, <3>3, GroupsOfOne DEF Completed
  <2>21. CASE TaskgroupExit(th, v)
    <3>1. UNCHANGED <<born, parent, group, status>>
      BY <2>21 DEF TaskgroupExit, scheduler, handles
    <3>2. \A u \in Programs \ {v} : /\ target'[u] = target[u] /\ todo'[u] = todo[u]
                                    /\ closing'[u] = closing[u] /\ groups'[u] = groups[u]
                                    /\ pc'[u] = pc[u]
      BY <2>21 DEF TaskgroupExit, Goes, TypeOK, interpreters
    <3>3. ASSUME NEW t \in 1 .. born, parent[t] = v, Awaited(v, t)
          PROVE  Completed(t)' \/ Awaited(v, t)'
      <4> DEFINE n == Len(groups[v])
                 g == groups[v][n]
      <4>1. /\ groups[v] # <<>> /\ groups' = [groups EXCEPT ![v] = Front(@)]
            /\ todo' = [todo EXCEPT ![v] = ToClose(v, CurrentGroup(v))]
            /\ closing' = [closing EXCEPT ![v] = TRUE] /\ ~closing[v]
        BY <2>1, <2>21 DEF TaskgroupExit, Running, At, Joining
      <4>2. /\ groups'[v] = Front(groups[v]) /\ closing'[v] = TRUE
            /\ todo'[v] = {u \in TasksOf(v) : group[u] = g}
        BY <4>1 DEF TypeOK, CurrentGroup, ToClose, Last
      <4>3. groups[v] \in Seq(1 .. MaxGroups)
        BY DEF TypeOK
      <4>4. /\ n \in Nat \ {0} /\ Len(groups'[v]) = n - 1
            /\ \A i \in 1 .. n - 1 : groups'[v][i] = groups[v][i]
        BY <4>3, <4>1, <4>2, Popped
      <4>5. PICK i \in 1 .. n : groups[v][i] = group[t]
        BY <3>3, <4>1 DEF Awaited
      <4>6. CASE i < n
        BY <3>1, <4>4, <4>5, <4>6 DEF Awaited
      <4>7. CASE i = n
        <5>1. CASE t \in joined
          BY <3>1, <5>1 DEF Slots, Completed
        <5>2. CASE t \notin joined
          BY <3>3, <3>1, <4>2, <4>5, <4>7, <5>2 DEF Awaited, TasksOf, Registered
        <5>3. QED
          BY <5>1, <5>2
      <4>8. QED
        BY <4>4, <4>5, <4>6, <4>7
    <3>4. QED
      BY <3>1, <3>2, <3>3, GroupsOfOne DEF Completed
  <2>22. CASE CloseNext(th, v)
    <3>1. UNCHANGED <<born, parent, group, status>>
      BY <2>22 DEF CloseNext, scheduler, handles
    <3>2. \A u \in Programs \ {v} : /\ target'[u] = target[u] /\ todo'[u] = todo[u]
                                    /\ closing'[u] = closing[u] /\ groups'[u] = groups[u]
                                    /\ pc'[u] = pc[u]
      BY <2>22 DEF CloseNext, Goes, TypeOK, interpreters
    <3>3. ASSUME NEW t \in 1 .. born, parent[t] = v, Awaited(v, t)
          PROVE  Completed(t)' \/ Awaited(v, t)'
      BY <2>1, <2>22, <3>1, <3>3 DEF CloseNext, Running, At, Goes, Awaited,
         TypeOK, Joining, interpreters, Completed
    <3>4. QED
      BY <3>1, <3>2, <3>3, GroupsOfOne DEF Completed
  <2>23. CASE CloseTaskFailed(th, v)
    <3>1. UNCHANGED <<born, parent, group, status>>
      BY <2>23 DEF CloseTaskFailed, scheduler, handles
    <3>2. \A u \in Programs \ {v} : /\ target'[u] = target[u] /\ todo'[u] = todo[u]
                                    /\ closing'[u] = closing[u] /\ groups'[u] = groups[u]
                                    /\ pc'[u] = pc[u]
      BY <2>23 DEF CloseTaskFailed, Goes, TypeOK, interpreters
    <3>3. ASSUME NEW t \in 1 .. born, parent[t] = v, Awaited(v, t)
          PROVE  Completed(t)' \/ Awaited(v, t)'
      BY <2>1, <2>23, <3>1, <3>3 DEF CloseTaskFailed, Running, At, Goes,
         Awaited, TypeOK, Joining, interpreters, Completed
    <3>4. QED
      BY <3>1, <3>2, <3>3, GroupsOfOne DEF Completed
  <2>24. CASE Closed(th, v)
    <3>1. UNCHANGED <<born, parent, group, status>>
      BY <2>24 DEF Closed, scheduler, handles
    <3>2. \A u \in Programs \ {v} : /\ target'[u] = target[u] /\ todo'[u] = todo[u]
                                    /\ closing'[u] = closing[u] /\ groups'[u] = groups[u]
                                    /\ pc'[u] = pc[u]
      BY <2>24 DEF Closed, Goes, TypeOK, interpreters
    <3>3. ASSUME NEW t \in 1 .. born, parent[t] = v, Awaited(v, t)
          PROVE  Completed(t)' \/ Awaited(v, t)'
      BY <2>1, <2>24, <3>1, <3>3 DEF Closed, Running, At, Goes, Awaited,
         TypeOK, Joining, interpreters, Completed
    <3>4. QED
      BY <3>1, <3>2, <3>3, GroupsOfOne DEF Completed
  <2>25. CASE ClosedWithError(th, v)
    BY <2>1, <2>25, EndsKeepsGroups DEF ClosedWithError, Running, At, TypeOK,
       Joining
  <2>26. CASE SharedWait(th, v)
    <3>1. UNCHANGED <<born, parent, group, status>>
      BY <2>26 DEF SharedWait, scheduler, handles
    <3>2. \A u \in Programs \ {v} : /\ target'[u] = target[u] /\ todo'[u] = todo[u]
                                    /\ closing'[u] = closing[u] /\ groups'[u] = groups[u]
                                    /\ pc'[u] = pc[u]
      BY <2>26 DEF SharedWait, Goes, TypeOK, interpreters
    <3>3. ASSUME NEW t \in 1 .. born, parent[t] = v, Awaited(v, t)
          PROVE  Completed(t)' \/ Awaited(v, t)'
      BY <2>1, <2>26, <3>1, <3>3 DEF SharedWait, Running, At, Goes, Awaited,
         TypeOK, Joining, interpreters, Completed
    <3>4. QED
      BY <3>1, <3>2, <3>3, GroupsOfOne DEF Completed
  <2>27. CASE Observe(th, v)
    <3>1. UNCHANGED <<born, parent, group, status>>
      BY <2>27 DEF Observe, scheduler, handles
    <3>2. UNCHANGED interpreters /\ \A u \in Programs : pc[u] \in Joining => pc'[u] \in Joining
      BY <2>27 DEF Observe, Joining
    <3>3. QED
      BY <3>1, <3>2, GroupsOfOne DEF Awaited, Completed, interpreters
  <2>28. QED
    BY <1>1, <2>2, <2>3, <2>4, <2>5, <2>6, <2>7, <2>8, <2>9, <2>10, <2>11,
       <2>12, <2>13, <2>14, <2>15, <2>16, <2>17, <2>18, <2>19, <2>20, <2>21,
       <2>22, <2>23, <2>24, <2>25, <2>26, <2>27 DEF Program
<1>2. CASE Take(th)
  <2>1. Head(queue) = queue[1] /\ 1 \in 1 .. Len(queue) /\ Head(queue) \in TaskIds
    BY <1>2 DEF Take, TypeOK
  <2>2. pc[Head(queue)] = "off" /\ Head(queue) \in Programs
    BY <2>1 DEF Places, Programs
  <2>3. pc' = [pc EXCEPT ![Head(queue)] = "run"] /\ UNCHANGED <<interpreters, born, parent, group, status>>
    BY <1>2 DEF Take, Goes, handles
  <2>4. \A u \in Programs : pc[u] \in Joining => pc'[u] \in Joining
    BY <2>2, <2>3 DEF TypeOK, Joining
  <2>5. Root \in Programs
    BY DEF Programs
  <2>6. QED
    BY <2>3, <2>4, <2>5, GroupsOfOne DEF Awaited, Completed, interpreters
<1>3. CASE WorkerSleeps(th) \/ WorkerExits(th)
  BY <1>3 DEF WorkerSleeps, WorkerExits, Groups, Awaited, Completed, interpreters,
        scheduler, handles
<1>4. QED
  BY <1>1, <1>2, <1>3, OnTop DEF Step, Worker

-----------------------------------------------------------------------------
(* Types. *)

LEMMA EndsTypes ==
    ASSUME TypeOK, NEW th \in Threads, stack[th] # <<>>, NEW v \in Programs,
           NEW outcome \in {"ok", "cancelled", "error"}, Ends(th, v, outcome)
    PROVE  /\ pc' \in [Programs -> Locations]
           /\ status' \in [Programs -> {"none", "ok", "cancelled", "error"}]
           /\ stack' \in [Threads -> Seq(Programs)]
           /\ stopping' \in BOOLEAN /\ cancelled' \in [Programs -> BOOLEAN]
           /\ sleeping' \subseteq Workers
<1>1. pc' \in [Programs -> Locations]
  BY DEF TypeOK, Ends, Locations
<1>2. status' \in [Programs -> {"none", "ok", "cancelled", "error"}]
  BY DEF TypeOK, Ends
<1>3. stack' \in [Threads -> Seq(Programs)]
  <2>1. stack[th] \in Seq(Programs)
    BY DEF TypeOK
  <2>2. Front(stack[th]) \in Seq(Programs)
    BY <2>1, Popped
  <2>3. QED
    BY <2>2 DEF TypeOK, Ends
<1>4. cancelled' \in [Programs -> BOOLEAN]
  <2>1. CASE v = Root
    <3>1. cancelled' = [u \in Programs |-> u \in Registered \/ cancelled[u]]
      BY <2>1 DEF Ends
    <3>2. QED
      BY <3>1
  <2>2. CASE v # Root
    BY <2>2 DEF TypeOK, Ends
  <2>3. QED
    BY <2>1, <2>2
<1>5. stopping' \in BOOLEAN /\ sleeping' \subseteq Workers
  BY DEF TypeOK, Ends
<1>6. QED
  BY <1>1, <1>2, <1>3, <1>4, <1>5

LEMMA StepTypes ==
    ASSUME TypeOK, Places, Waits, Slots, NEW th \in Threads, Step(th)
    PROVE  TypeOK'
<1>1. ASSUME NEW v \in Programs, stack[th] # <<>>, Program(th, v) PROVE TypeOK'
  <2>1. CASE Return(th, v)
    BY <1>1, <2>1, EndsTypes DEF Return, TypeOK, interpreters
  <2>2. CASE Fail(th, v)
    BY <1>1, <2>2, EndsTypes DEF Fail, TypeOK, interpreters
  <2>3. CASE Interrupted(th, v)
    BY <1>1, <2>3, EndsTypes DEF Interrupted, TypeOK, interpreters
  <2>4. CASE Reserve(th, v)
    BY <2>4, Bounds DEF Reserve, Running, At, Goes, Onward, TypeOK, Locations,
       interpreters, scheduler, handles, threads, SlotFree
  <2>5. CASE ForkRefused(th, v)
    BY <1>1, <2>5, EndsTypes DEF ForkRefused, TypeOK, interpreters
  <2>6. CASE ForkFails(th, v)
    <3>1. live' = live - 1 /\ v \in Forking
      BY <2>6 DEF ForkFails, At, Forking
    <3>2. Registered \subseteq 1 .. born /\ born \in Nat
      BY DEF Registered, TypeOK
    <3>3. Cardinality(Registered) \in Nat /\ Cardinality(Forking) \in Nat /\ Cardinality(Forking) >= 1
      <4>1. IsFiniteSet(Registered)
        <5>1. IsFiniteSet(1 .. born)
          BY <3>2, FS_Interval
        <5>2. QED
          BY <3>2, <5>1, FS_Subset
      <4>2. QED
        BY <3>1, <4>1, ForkingFinite, FS_CardinalityType
    <3>4. live' \in 0 .. TaskLimit
      BY <3>1, <3>3, Bounds DEF Slots, SlotsCounted, TypeOK
    <3>5. QED
      BY <1>1, <2>6, <3>4, EndsTypes DEF ForkFails, TypeOK, interpreters
  <2>7. CASE Enqueue(th, v)
    <3>1. born + 1 \in TaskIds
      BY <2>7, RoomToFork DEF Enqueue, At
    <3>2. CurrentGroup(v) \in 0 .. MaxGroups
      <4>1. groups[v] \in Seq(1 .. MaxGroups)
        BY DEF TypeOK
      <4>2. CASE groups[v] = <<>>
        BY <4>2, Bounds DEF CurrentGroup
      <4>3. CASE groups[v] # <<>>
        <5>1. Len(groups[v]) \in 1 .. Len(groups[v])
          BY <4>1, <4>3
        <5>2. groups[v][Len(groups[v])] \in 1 .. MaxGroups
          BY <4>1, <5>1, ElementOfSeq
        <5>3. QED
          BY <4>3, <5>2, Bounds DEF CurrentGroup, Last
      <4>4. QED
        BY <4>2, <4>3
    <3>3. pc' \in [Programs -> Locations]
      BY <2>7 DEF Enqueue, Goes, TypeOK, Locations
    <3>4. born' \in 0 .. MaxTasks
      BY <2>7, <3>1, Bounds DEF Enqueue, TypeOK, TaskIds
    <3>5. /\ parent' \in [TaskIds -> Programs] /\ group' \in [TaskIds -> 0 .. MaxGroups]
          /\ queue' \in Seq(TaskIds)
      BY <2>7, <3>1, <3>2 DEF Enqueue, TypeOK
    <3>6. sleeping' \subseteq Workers
      BY <2>7 DEF Enqueue, TypeOK
    <3>7. QED
      BY <2>7, <3>3, <3>4, <3>5, <3>6 DEF Enqueue, TypeOK, interpreters, handles
  <2>8. CASE \E t \in TaskIds : Join(th, v, t)
    <3>1. target' \in [Programs -> Programs]
      BY <2>8 DEF Join, TypeOK, Programs
    <3>2. pc' \in [Programs -> Locations]
      BY <2>8 DEF Join, Goes, TypeOK, Locations
    <3>3. UNCHANGED <<groups, made, todo, closing, bad, scheduler, handles, threads, revision>>
      BY <2>8 DEF Join
    <3>4. QED
      BY <3>1, <3>2, <3>3 DEF TypeOK, scheduler, handles, threads
  <2>9. CASE \E t \in TaskIds : JoinTimeout(th, v, t)
    <3>1. target' \in [Programs -> Programs]
      BY <2>9 DEF JoinTimeout, TypeOK, Programs
    <3>2. pc' \in [Programs -> Locations]
      BY <2>9 DEF JoinTimeout, Goes, TypeOK, Locations
    <3>3. UNCHANGED <<groups, made, todo, closing, bad, scheduler, handles, threads, revision>>
      BY <2>9 DEF JoinTimeout
    <3>4. QED
      BY <3>1, <3>2, <3>3 DEF TypeOK, scheduler, handles, threads
  <2>10. CASE \E t \in TaskIds : Cancel(th, v, t)
    <3>1. cancelled' \in [Programs -> BOOLEAN]
      BY <2>10 DEF Cancel, TypeOK
    <3>2. UNCHANGED <<pc, interpreters, scheduler, status, joined, threads, revision>>
      BY <2>10 DEF Cancel
    <3>3. QED
      BY <3>1, <3>2 DEF TypeOK, interpreters, scheduler, threads
  <2>11. CASE NotYet(th, v)
    BY <2>11 DEF NotYet, Running, At, Goes, Onward, TypeOK, Locations,
       interpreters, scheduler, handles, threads
  <2>12. CASE Help(th, v)
    <3>1. Head(queue) \in TaskIds /\ Tail(queue) \in Seq(TaskIds) /\ Head(queue) \in Programs
      BY <2>12 DEF Help, MayHelp, TypeOK, Programs
    <3>2. stack' \in [Threads -> Seq(Programs)]
      BY <2>12, <3>1 DEF Help, TypeOK
    <3>3. pc' \in [Programs -> Locations]
      BY <2>12, <3>1 DEF Help, TypeOK, Locations
    <3>4. QED
      BY <2>12, <3>1, <3>2, <3>3 DEF Help, TypeOK, interpreters, handles
  <2>13. CASE NothingToHelp(th, v)
    BY <2>13 DEF NothingToHelp, Running, At, Goes, Onward, TypeOK, Locations,
       interpreters, scheduler, handles, threads
  <2>14. CASE FallsAsleep(th, v)
    BY <2>14 DEF FallsAsleep, Running, At, Goes, Onward, TypeOK, Locations,
       interpreters, scheduler, handles, threads
  <2>15. CASE JoinedOk(th, v)
    <3>1. target[v] \in TaskIds /\ Root \in Programs
      BY <2>15, Bounds DEF JoinedOk, At, Waits, Joining, TasksOf, Registered, TypeOK,
            TaskIds, Programs
    <3>2. live' \in 0 .. TaskLimit
      BY <2>15, Bounds DEF JoinedOk, AfterJoin, TypeOK
    <3>3. QED
      BY <2>15, <3>1, <3>2 DEF JoinedOk, Goes, Onward, TypeOK, Locations, threads
  <2>16. CASE JoinFailed(th, v)
    <3>1. (IF status[target[v]] = "ok" THEN "error" ELSE status[target[v]]) \in {"ok", "cancelled", "error"}
      BY <2>16 DEF JoinFailed, Completed, TypeOK
    <3>2. PICK outcome \in {"ok", "cancelled", "error"} : Ends(th, v, outcome)
      BY <2>16, <3>1 DEF JoinFailed
    <3>3. UNCHANGED <<interpreters, queue, born, parent, group, live, joined, exited, revision>>
      BY <2>16 DEF JoinFailed
    <3>4. /\ pc' \in [Programs -> Locations]
          /\ status' \in [Programs -> {"none", "ok", "cancelled", "error"}]
          /\ stack' \in [Threads -> Seq(Programs)]
          /\ stopping' \in BOOLEAN /\ cancelled' \in [Programs -> BOOLEAN]
          /\ sleeping' \subseteq Workers
      BY <1>1, <3>2, EndsTypes
    <3>5. QED
      BY <3>3, <3>4 DEF TypeOK, interpreters
  <2>17. CASE InTime(th, v)
    BY <2>17 DEF InTime, Running, At, Goes, Onward, TypeOK, Locations,
       interpreters, scheduler, handles, threads
  <2>18. CASE TimesOut(th, v)
    BY <1>1, <2>18, EndsTypes DEF TimesOut, TypeOK, interpreters
  <2>19. CASE TaskgroupEnter(th, v)
    <3>1. /\ made' = [made EXCEPT ![v] = made[v] + 1] /\ made[v] + 1 \in 1 .. MaxGroups
      BY <2>19, Bounds DEF TaskgroupEnter, TypeOK
    <3>2. made' \in [Programs -> 0 .. MaxGroups] /\ made'[v] \in 1 .. MaxGroups
      BY <3>1, Bounds DEF TypeOK
    <3>3. groups' \in [Programs -> Seq(1 .. MaxGroups)]
      BY <2>19, <3>2 DEF TaskgroupEnter, TypeOK
    <3>4. QED
      BY <2>19, <3>2, <3>3 DEF TaskgroupEnter, TypeOK, scheduler, handles, threads
  <2>20. CASE TaskgroupExit(th, v)
    <3>1. ToClose(v, CurrentGroup(v)) \subseteq TaskIds
      BY Bounds DEF ToClose, TasksOf, Registered, TypeOK, TaskIds
    <3>2. todo' \in [Programs -> SUBSET TaskIds]
      BY <2>20, <3>1 DEF TaskgroupExit, TypeOK
    <3>3. groups' \in [Programs -> Seq(1 .. MaxGroups)]
      <4>1. groups[v] \in Seq(1 .. MaxGroups) /\ groups[v] # <<>>
        BY <2>20 DEF TaskgroupExit, TypeOK
      <4>2. Front(groups[v]) \in Seq(1 .. MaxGroups)
        BY <4>1, Popped
      <4>3. QED
        BY <2>20, <4>2 DEF TaskgroupExit, TypeOK
    <3>4. cancelled' \in [Programs -> BOOLEAN]
      BY <2>20 DEF TaskgroupExit
    <3>5. QED
      BY <2>20, <3>2, <3>3, <3>4 DEF TaskgroupExit, Goes, TypeOK, Locations, scheduler,
            threads
  <2>21. CASE CloseNext(th, v)
    <3>1. PICK t \in todo[v] : /\ target' = [target EXCEPT ![v] = t]
                              /\ todo' = [todo EXCEPT ![v] = @ \ {t}]
      BY <2>21 DEF CloseNext
    <3>2. t \in TaskIds /\ t \in Programs
      BY <3>1 DEF TypeOK, Programs
    <3>3. target' \in [Programs -> Programs] /\ todo' \in [Programs -> SUBSET TaskIds]
      BY <3>1, <3>2 DEF TypeOK
    <3>4. QED
      BY <2>21, <3>3 DEF CloseNext, Goes, TypeOK, Locations, scheduler, handles, threads
  <2>22. CASE CloseTaskFailed(th, v)
    BY <2>22 DEF CloseTaskFailed, Running, At, Goes, Onward, TypeOK,
       Locations, interpreters, scheduler, handles, threads
  <2>23. CASE Closed(th, v)
    BY <2>23 DEF Closed, Running, At, Goes, Onward, TypeOK, Locations,
       interpreters, scheduler, handles, threads
  <2>24. CASE ClosedWithError(th, v)
    BY <1>1, <2>24, EndsTypes DEF ClosedWithError, TypeOK, interpreters
  <2>25. CASE SharedWait(th, v)
    BY <2>25 DEF SharedWait, Running, At, Goes, Onward, TypeOK, Locations,
       interpreters, scheduler, handles, threads
  <2>26. CASE Observe(th, v)
    <3>1. pc' \in [Programs -> Locations]
      BY <2>26 DEF Observe, TypeOK, Locations
    <3>2. revision' \in 0 .. MaxRevision
      BY <2>26, Bounds DEF Observe, TypeOK
    <3>3. QED
      BY <2>26, <3>1, <3>2 DEF Observe, TypeOK, interpreters, scheduler, handles, threads
  <2>27. QED
    BY <1>1, <2>1, <2>2, <2>3, <2>4, <2>5, <2>6, <2>7, <2>8, <2>9, <2>10,
       <2>11, <2>12, <2>13, <2>14, <2>15, <2>16, <2>17, <2>18, <2>19, <2>20,
       <2>21, <2>22, <2>23, <2>24, <2>25, <2>26 DEF Program
<1>2. ASSUME th \in Workers, Take(th) PROVE TypeOK'
  <2>1. Head(queue) \in TaskIds /\ Tail(queue) \in Seq(TaskIds) /\ Head(queue) \in Programs
    BY <1>2 DEF Take, TypeOK, Programs
  <2>2. stack' \in [Threads -> Seq(Programs)]
    BY <1>2, <2>1 DEF Take, TypeOK
  <2>3. pc' \in [Programs -> Locations]
    BY <1>2, <2>1 DEF Take, Goes, TypeOK, Locations
  <2>4. QED
    BY <1>2, <2>1, <2>2, <2>3 DEF Take, AfterTake, TypeOK, interpreters, handles
<1>3. ASSUME th \in Workers, WorkerSleeps(th) \/ WorkerExits(th) PROVE TypeOK'
  BY <1>3 DEF WorkerSleeps, WorkerExits, TypeOK, interpreters, scheduler, handles
<1>4. QED
  BY <1>1, <1>2, <1>3, OnTop DEF Step, Worker

-----------------------------------------------------------------------------
(* The invariant. *)

LEMMA Initially == Init => Inv
<1> SUFFICES ASSUME Init PROVE Inv
  OBVIOUS
<1>1. Root \in Programs /\ Root \notin TaskIds /\ TaskIds \subseteq Programs
  BY DEF Programs, TaskIds, Root
<1>2. /\ pc = [v \in Programs |-> IF v = Root THEN "run" ELSE "off"]
      /\ status = [v \in Programs |-> "none"]
      /\ queue = <<>> /\ born = 0 /\ live = 0 /\ joined = {}
      /\ stack = [th \in Threads |-> IF th = Main THEN <<Root>> ELSE <<>>]
  BY DEF Init
<1>3. TypeOK
  <2>1. /\ pc \in [Programs -> Locations] /\ status \in [Programs -> {"none", "ok", "cancelled", "error"}]
    BY <1>2 DEF Locations
  <2>2. stack \in [Threads -> Seq(Programs)]
    BY <1>1, <1>2
  <2>3. queue \in Seq(TaskIds) /\ born \in 0 .. MaxTasks /\ live \in 0 .. TaskLimit
    BY <1>2, Bounds
  <2>4. groups \in [Programs -> Seq(1 .. MaxGroups)]
    BY DEF Init
  <2>5. /\ parent \in [TaskIds -> Programs] /\ group \in [TaskIds -> 0 .. MaxGroups]
        /\ made \in [Programs -> 0 .. MaxGroups] /\ target \in [Programs -> Programs]
        /\ revision \in 0 .. MaxRevision
    BY <1>1, Bounds DEF Init
  <2>6. QED
    BY <2>1, <2>2, <2>3, <2>4, <2>5 DEF Init, TypeOK
<1>4. \A th \in Threads : \A i \in 1 .. Len(stack[th]) : th = Main /\ i = 1 /\ stack[th][i] = Root
  BY <1>2
<1>5. Places
  <2>1. Alive = {Root}
    BY <1>1, <1>2 DEF Alive
  <2>2. Main \in Threads /\ 1 \in 1 .. Len(stack[Main]) /\ stack[Main][1] = Root
    BY <1>2 DEF Threads
  <2>3. \A t \in TaskIds : pc[t] = "off" /\ born < t
    BY <1>1, <1>2 DEF TaskIds
  <2>4. pc[Root] # "off" /\ \A v \in Programs : status[v] # "none" <=> pc[v] = "ended"
    BY <1>1, <1>2
  <2>5. \A i \in 1 .. Len(queue) : queue[i] <= born
    BY <1>2
  <2>6. \A v \in Alive : \E th \in Threads : \E i \in 1 .. Len(stack[th]) : stack[th][i] = v
    BY <2>1, <2>2
  <2>7. QED
    BY <1>4, <2>1, <2>3, <2>4, <2>5, <2>6 DEF Places
<1>6. Order
  BY <1>2, <1>4 DEF Order
<1>7. Waits /\ Sleepers
  BY <1>1, <1>2 DEF Init, Waits, Sleepers, Joining
<1>8. Registered = {} /\ Forking = {}
  BY <1>2 DEF Registered, Forking
<1>9. Cardinality(Registered) = 0 /\ Cardinality(Forking) = 0
  BY <1>8, FS_EmptySet
<1>10. Slots
  BY <1>2, <1>9, Bounds DEF Slots, SlotsCounted
<1>11. AllToldToStop /\ Groups
  BY <1>2 DEF Init, AllToldToStop, Groups
<1>12. QED
  BY <1>3, <1>5, <1>6, <1>7, <1>10, <1>11 DEF Inv

LEMMA StepKeepsInv == Inv /\ [Next]_vars => Inv'
<1> SUFFICES ASSUME Inv, [Next]_vars PROVE Inv'
  OBVIOUS
<1>1. ASSUME NEW th \in Threads, Step(th) PROVE Inv'
  BY <1>1, StepTypes, StepKeepsPlaces, StepKeepsWaits, StepKeepsSleepers,
     StepKeepsSlots, StepTellsToStop, StepKeepsGroups DEF Inv
<1>2. CASE UNCHANGED vars
  <2>1. TypeOK'
    BY <1>2 DEF Inv, TypeOK, vars, interpreters, scheduler, handles, threads
  <2>2. Places' /\ Order'
    BY <1>2 DEF Inv, Places, Order, Alive, vars, interpreters, scheduler, handles, threads
  <2>3. Waits' /\ Sleepers'
    BY <1>2 DEF Inv, Waits, Sleepers, TasksOf, Registered, Completed, vars,
                interpreters, scheduler, handles, threads
  <2>4. Slots' /\ AllToldToStop'
    BY <1>2 DEF Inv, Slots, SlotsCounted, AllToldToStop, Forking, Registered, Completed,
                vars, interpreters, scheduler, handles, threads
  <2>5. Groups'
    BY <1>2 DEF Inv, Groups, Awaited, Completed, vars, interpreters, scheduler, handles,
          threads
  <2>6. QED
    BY <2>1, <2>2, <2>3, <2>4, <2>5 DEF Inv
<1>3. QED
  BY <1>1, <1>2 DEF Next

LEMMA Invariant == Spec => []Inv
<1>1. QED
  BY Initially, StepKeepsInv, PTL DEF Spec

-----------------------------------------------------------------------------
(* What follows from it. *)

(* Every variable has its type: no more than MaxTasks tasks and TaskLimit  *)
(* slots are ever taken (start_task).                                      *)
THEOREM TypeCorrect == Spec => []TypeOK
<1>1. Inv => TypeOK
  BY DEF Inv
<1>2. QED
  BY <1>1, Invariant, PTL

(* The scheduler's counter of live tasks is exact whatever fails, is       *)
(* cancelled or times out (start_task, wait_task).                         *)
THEOREM SlotsAreCounted == Spec => []SlotsCounted
<1>1. Inv => SlotsCounted
  BY DEF Inv, Slots
<1>2. QED
  BY <1>1, Invariant, PTL

(* The shutdown reaches every task, those whose fork raced with it too     *)
(* (Scheduler::shutdown, start_task).                                      *)
THEOREM ShutdownReachesAll == Spec => []AllToldToStop
<1>1. Inv => AllToldToStop
  BY DEF Inv
<1>2. QED
  BY <1>1, Invariant, PTL

(* A VM that has left a task group left none of its tasks unfinished       *)
(* (close_task_group).                                                     *)
THEOREM GroupsAreFinished == Spec => []GroupsFinish
<1>1. ASSUME Inv PROVE GroupsFinish
  <2> SUFFICES ASSUME NEW t \in 1 .. born, group[t] # 0, ~closing[parent[t]], ~Completed(t)
               PROVE  Contains(groups[parent[t]], group[t])
    BY DEF GroupsFinish
  <2>1. Awaited(parent[t], t)
    BY <1>1 DEF Inv, Groups
  <2>2. QED
    BY <2>1 DEF Awaited, Contains
<1>2. QED
  BY <1>1, Invariant, PTL

(* The VMs on a stack are distinct, so a stack is no longer than there are *)
(* VMs.                                                                    *)
LEMMA StacksBounded ==
    ASSUME TypeOK, Order, NEW th \in Threads
    PROVE  Len(stack[th]) <= MaxTasks + 1
<1> DEFINE n == Len(stack[th])
<1>1. n \in Nat /\ stack[th] \in [1 .. n -> Programs] /\ Programs \subseteq Nat
  <2>1. stack[th] \in Seq(Programs)
    BY DEF TypeOK
  <2>2. QED
    BY <2>1 DEF Programs, Root, TaskIds
<1>2. Cardinality(1 .. n) = n /\ IsFiniteSet(1 .. n)
  BY <1>1, FS_Interval
<1>3. Programs = 0 .. MaxTasks
  BY Bounds DEF Programs, Root, TaskIds
<1>4. Cardinality(Programs) = MaxTasks + 1 /\ IsFiniteSet(Programs)
  BY <1>3, FS_Interval, Bounds
<1>5. ASSUME NEW i \in 1 .. n, NEW j \in 1 .. n, i # j PROVE stack[th][i] # stack[th][j]
  <2>1. i \in Nat /\ j \in Nat /\ (i < j \/ j < i)
    BY <1>1, <1>5
  <2>2. stack[th][i] \in Nat /\ stack[th][j] \in Nat
    BY <1>1
  <2>3. QED
    BY <2>1, <2>2 DEF Order
<1> HIDE DEF n
<1>6. ~(Cardinality(Programs) < Cardinality(1 .. n))
  BY <1>1, <1>2, <1>4, <1>5, FS_PigeonHole
<1>7. n <= MaxTasks + 1
  BY <1>1, <1>2, <1>4, <1>6, Bounds
<1>8. QED
  BY <1>7 DEF n

(* A task is queued, or runs on one thread, or is complete: helpers and    *)
(* workers never run one twice, nor does one get lost (wait_task,          *)
(* worker_loop).                                                           *)
THEOREM TasksRunOnce == Spec => []RunsOnce
<1>1. ASSUME Inv, NEW t \in 1 .. born
      PROVE  Cardinality({i \in DOMAIN queue : queue[i] = t})
               + Cardinality({p \in Threads \X (1 .. MaxTasks + 1) :
                     /\ p[2] \in DOMAIN stack[p[1]]
                     /\ stack[p[1]][p[2]] = t})
             = IF Completed(t) THEN 0 ELSE 1
  <2> DEFINE Waiting == {i \in DOMAIN queue : queue[i] = t}
             Runs == {p \in Threads \X (1 .. MaxTasks + 1) :
                             /\ p[2] \in DOMAIN stack[p[1]]
                             /\ stack[p[1]][p[2]] = t}
  <2> SUFFICES Cardinality(Waiting) + Cardinality(Runs) = IF Completed(t) THEN 0 ELSE 1
    OBVIOUS
  <2>1. TypeOK /\ Places /\ Order
    BY <1>1 DEF Inv
  <2>2. t \in TaskIds /\ t \in Programs /\ ~(born < t) /\ Programs \subseteq Nat
    BY <2>1, Bounds DEF TypeOK, TaskIds, Programs, Root
  <2>3. /\ DOMAIN queue = 1 .. Len(queue) /\ \A i \in 1 .. Len(queue) : queue[i] \in Nat
        /\ \A th \in Threads : /\ DOMAIN stack[th] = 1 .. Len(stack[th])
                              /\ \A i \in 1 .. Len(stack[th]) : stack[th][i] \in Nat
                              /\ Len(stack[th]) \in Nat
    <3>1. queue \in Seq(TaskIds) /\ \A th \in Threads : stack[th] \in Seq(Programs)
      BY <2>1 DEF TypeOK
    <3>2. TaskIds \subseteq Programs
      BY DEF Programs
    <3>3. \A i \in 1 .. Len(queue) : queue[i] \in Programs
      BY <3>1, <3>2
    <3>4. \A th \in Threads : \A i \in 1 .. Len(stack[th]) : stack[th][i] \in Programs
      BY <3>1
    <3>5. /\ DOMAIN queue = 1 .. Len(queue)
          /\ \A th \in Threads : DOMAIN stack[th] = 1 .. Len(stack[th]) /\ Len(stack[th]) \in Nat
      BY <3>1
    <3>6. QED
      BY <2>2, <3>3, <3>4, <3>5
  <2>4. Cardinality({}) = 0 /\ \A x : Cardinality({x}) = 1
    BY FS_EmptySet, FS_Singleton
  <2>5. CASE pc[t] = "off"
    <3>1. PICK i \in 1 .. Len(queue) : queue[i] = t
      BY <2>1, <2>2, <2>5 DEF Places
    <3>2. \A j \in 1 .. Len(queue) : queue[j] = t => j = i
      <4>1. ASSUME NEW j \in 1 .. Len(queue), queue[j] = t, j # i PROVE FALSE
        <5>1. i < j \/ j < i
          BY <2>3, <4>1
        <5>2. QED
          BY <2>1, <2>3, <3>1, <4>1, <5>1 DEF Order
      <4>2. QED
        BY <4>1
    <3>3. Waiting = {i}
      BY <2>3, <3>1, <3>2
    <3>4. Runs = {}
      <4>1. \A th \in Threads : \A k \in 1 .. Len(stack[th]) : stack[th][k] # t
        BY <2>1, <2>5 DEF Places, Alive
      <4>2. QED
        BY <2>3, <4>1
    <3>5. ~Completed(t)
      BY <2>1, <2>2, <2>5 DEF Places, Completed
    <3>6. Cardinality(Waiting) = 1 /\ Cardinality(Runs) = 0
      BY <2>4, <3>3, <3>4
    <3> HIDE DEF Waiting, Runs
    <3>7. QED
      BY <3>5, <3>6
  <2>6. CASE pc[t] # "off"
    <3>1. Waiting = {}
      BY <2>1, <2>2, <2>3, <2>6 DEF Places
    <3>2. CASE pc[t] = "ended"
      <4>1. \A th \in Threads : \A k \in 1 .. Len(stack[th]) : stack[th][k] # t
        BY <2>1, <3>2 DEF Places, Alive
      <4>2. Runs = {}
        BY <2>3, <4>1
      <4>3. Completed(t)
        BY <2>1, <2>2, <3>2 DEF Places, Completed
      <4>4. Cardinality(Waiting) = 0 /\ Cardinality(Runs) = 0
        BY <2>4, <3>1, <4>2
      <4> HIDE DEF Waiting, Runs
      <4>5. QED
        BY <4>3, <4>4
    <3>3. CASE pc[t] # "ended"
      <4>1. t \in Alive
        BY <2>2, <2>6, <3>3 DEF Alive
      <4>2. PICK th \in Threads : \E k \in 1 .. Len(stack[th]) : stack[th][k] = t
        BY <2>1, <4>1 DEF Places
      <4>3. PICK k \in 1 .. Len(stack[th]) : stack[th][k] = t
        BY <4>2
      <4>4. k \in 1 .. MaxTasks + 1
        BY <2>1, <2>3, <4>3, StacksBounded, Bounds
      <4>5. ASSUME NEW oth \in Threads, NEW j \in 1 .. Len(stack[oth]), stack[oth][j] = t
            PROVE  oth = th /\ j = k
        <5>1. oth = th
          BY <2>1, <4>3, <4>5 DEF Places
        <5>2. ASSUME j # k PROVE FALSE
          <6>1. j < k \/ k < j
            BY <2>3, <4>3, <5>1, <5>2
          <6>2. QED
            BY <2>1, <2>3, <4>3, <4>5, <5>1, <6>1 DEF Order
        <5>3. QED
          BY <5>1, <5>2
      <4>6. Runs = {<<th, k>>}
        <5>1. <<th, k>> \in Runs
          BY <2>3, <4>3, <4>4
        <5>2. ASSUME NEW p \in Runs PROVE p = <<th, k>>
          <6>1. /\ p[1] \in Threads /\ p[2] \in 1 .. Len(stack[p[1]]) /\ stack[p[1]][p[2]] = t
                /\ p = <<p[1], p[2]>>
            BY <2>3
          <6>2. QED
            BY <4>5, <6>1
        <5>3. QED
          BY <5>1, <5>2
      <4>7. ~Completed(t)
        BY <2>1, <2>2, <3>3 DEF Places, Completed
      <4>8. Cardinality(Waiting) = 0 /\ Cardinality(Runs) = 1
        BY <2>4, <3>1, <4>6
      <4> HIDE DEF Waiting, Runs
      <4>9. QED
        BY <4>7, <4>8
    <3>4. QED
      BY <3>2, <3>3
  <2>7. QED
    BY <2>5, <2>6
<1>2. Inv => RunsOnce
  BY <1>1 DEF RunsOnce
<1>3. QED
  BY <1>2, Invariant, PTL

(* The task a sleeper waits for has started and is not complete, so it is  *)
(* on some thread's stack, and what runs there is no older than the task.  *)
LEMMA SleeperWaitsForYounger ==
    ASSUME Inv, NEW v \in Programs, pc[v] = "asleep"
    PROVE  \E th \in Threads : stack[th] # <<>> /\ v < Last(stack[th])
<1> DEFINE t == target[v]
<1>1. TypeOK /\ Places /\ Order /\ Waits /\ Sleepers
  BY DEF Inv
<1>2. t \in 1 .. born /\ parent[t] = v
  BY <1>1 DEF Waits, Joining, TasksOf, Registered
<1>3. t \in Programs /\ Programs \subseteq Nat
  <2>1. born \in 0 .. MaxTasks
    BY <1>1 DEF TypeOK
  <2>2. QED
    BY <1>2, <2>1, Bounds DEF TaskIds, Programs, Root
<1>4. v < t
  BY <1>1, <1>2 DEF Order
<1>5. t \in Alive
  BY <1>1, <1>3 DEF Sleepers, Places, Alive, Completed
<1>6. PICK th \in Threads : \E i \in 1 .. Len(stack[th]) : stack[th][i] = t
  BY <1>1, <1>5 DEF Places
<1>7. PICK i \in 1 .. Len(stack[th]) : stack[th][i] = t
  BY <1>6
<1>8. /\ stack[th] # <<>> /\ Last(stack[th]) = stack[th][Len(stack[th])]
      /\ Last(stack[th]) \in Programs /\ Len(stack[th]) \in Nat
  <2>1. stack[th] \in Seq(Programs)
    BY <1>1 DEF TypeOK
  <2>2. stack[th] # <<>>
    BY <1>7, <2>1
  <2>3. QED
    BY <1>1, <2>2, OnTop
<1> HIDE DEF t
<1>9. t \in Nat /\ Last(stack[th]) \in Nat /\ v \in Nat
  BY <1>3, <1>8
<1>10. t <= Last(stack[th])
  <2>1. CASE i = Len(stack[th])
    BY <1>7, <1>8, <1>9, <2>1
  <2>2. CASE i # Len(stack[th])
    <3>1. i < Len(stack[th]) /\ Len(stack[th]) \in 1 .. Len(stack[th])
      BY <1>7, <1>8, <2>2
    <3>2. stack[th][i] < stack[th][Len(stack[th])]
      BY <1>1, <3>1 DEF Order
    <3>3. QED
      BY <1>7, <1>8, <1>9, <3>2
  <2>3. QED
    BY <2>1, <2>2
<1>11. v < Last(stack[th])
  BY <1>4, <1>9, <1>10
<1>12. QED
  BY <1>8, <1>11

LEMMA Largest ==
    ASSUME NEW S, S \subseteq 0 .. MaxTasks, S # {}
    PROVE  \E m \in S : \A x \in S : x <= m
<1> DEFINE T == {k \in Nat : \E x \in S : k = MaxTasks - x}
<1>1. T # {} /\ T \subseteq Nat
  <2>1. PICK x \in S : TRUE
    OBVIOUS
  <2>2. x \in 0 .. MaxTasks /\ MaxTasks - x \in Nat
    BY <2>1, Bounds
  <2>3. MaxTasks - x \in T
    BY <2>2
  <2>4. QED
    BY <2>3
<1>2. PICK k \in T : \A y \in T : ~(<<y, k>> \in OpToRel(<, Nat))
  BY <1>1, NatLessThanWellFounded, WFMin
<1>3. PICK m \in S : k = MaxTasks - m
  BY <1>2
<1>4. ASSUME NEW x \in S PROVE x <= m
  <2>1. MaxTasks - x \in T /\ x \in Nat /\ m \in Nat
    BY Bounds
  <2>2. ~(MaxTasks - x < k)
    BY <1>2, <2>1 DEF OpToRel
  <2>3. QED
    BY <1>3, <2>1, <2>2, Bounds
<1>5. QED
  BY <1>4

(* No cycle of joins can form, however tasks are forked, joined and helped *)
(* and however few workers there are: the youngest VM asleep waits for one *)
(* that is awake (wait_task, worker_loop).                                 *)
THEOREM NoCycleOfJoins == Spec => []SomeoneAwake
<1>1. ASSUME Inv, NEW v \in Programs, pc[v] = "asleep"
      PROVE  \E th \in Threads :
                stack[th] # <<>> /\ v < Last(stack[th]) /\ pc[Last(stack[th])] # "asleep"
  <2> DEFINE Asleep == {u \in Programs : pc[u] = "asleep" /\ v <= u}
  <2>1. Programs = 0 .. MaxTasks
    BY Bounds DEF Programs, Root, TaskIds
  <2>2. Asleep \subseteq 0 .. MaxTasks /\ v \in Asleep
    BY <1>1, <2>1
  <2>3. PICK m \in Asleep : \A u \in Asleep : u <= m
    <3> HIDE DEF Asleep
    <3>1. QED
      BY <2>2, Largest
  <2>4. m \in Programs /\ pc[m] = "asleep" /\ v <= m
    BY <2>3
  <2>5. PICK th \in Threads : stack[th] # <<>> /\ m < Last(stack[th])
    BY <1>1, <2>4, SleeperWaitsForYounger
  <2>6. Last(stack[th]) \in Programs
    BY <1>1, <2>5, OnTop DEF Inv
  <2>7. v < Last(stack[th]) /\ ~(Last(stack[th]) <= m)
    BY <2>1, <2>4, <2>5, <2>6
  <2>8. pc[Last(stack[th])] # "asleep"
    BY <2>1, <2>3, <2>6, <2>7
  <2>9. QED
    BY <2>5, <2>7, <2>8
<1>2. Inv => SomeoneAwake
  BY <1>1 DEF SomeoneAwake
<1>3. QED
  BY <1>2, Invariant, PTL
=============================================================================
