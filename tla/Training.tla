------------------------------ MODULE Training ------------------------------
(* Training runs in one VM (vm.rs): train, update, resume and the step that *)
(* an observation of live training data takes.  Numbers are symbolic: the   *)
(* gradient is named by the parameters and the points it was taken at, the  *)
(* optimizer's state by the gradients it has seen, and the parameters by    *)
(* the whole chain of steps behind them, so that two of them are equal only *)
(* if the same arithmetic was done in the same order.  A host call that     *)
(* fails returns no run.  The optimizer is one that has a state, adam's or  *)
(* a momentum's; without one there is less to lose.  Left out: programs     *)
(* that write into the history of a run, which its steps field shares with  *)
(* them.                                                                    *)
EXTENDS Naturals, SequencesExt

CONSTANTS
    Points,        \* the pairs [x, target] of a dataset
    BatchSizes,    \* the last argument of train
    Epochs,        \* the epochs of a training
    MaxPoints, MaxSteps, MaxResults \* bounds

ASSUME TrainingConstants == Epochs \subseteq Nat /\ BatchSizes \subseteq Nat

VARIABLES
    data,      \* the array that holds the dataset; the program can write it
    results,   \* the training results made so far
    node       \* the result a TRAIN node has now, 0 for no such node

TRvars == <<data, results, node>>

(* A result: how it was made, from which other one and at which step.      *)
(* over is history, for the properties: what the dataset held then.        *)
Result(steps, size, made, from, at) ==
    [steps |-> steps, batch_size |-> size,
     made |-> made, from |-> from, at |-> at, over |-> data]

TRInit == data = <<>> /\ results = <<>> /\ node = 0

-----------------------------------------------------------------------------
(* The steps of an optimizer.                                              *)

Initial == <<>>

ParamsOf(steps) == IF steps = <<>> THEN Initial ELSE Last(steps).parameters
StateOf(steps) == IF steps = <<>> THEN <<>> ELSE Last(steps).optimizer_state

NextState(state, gradient) == Append(state, gradient)

(* One step: the gradient at the parameters, the state, the parameters.    *)
OptimizerStep(params, state, todo) ==
    LET gradient == <<params, todo.points>>
        next == NextState(state, gradient)
    IN  [epoch |-> todo.epoch, batch |-> todo.batch, gradient |-> gradient,
         optimizer_state |-> next, parameters |-> <<gradient, next>>]

(* The steps for todo, from these parameters and this state on.            *)
StepsFrom(params, state, steps, todo) ==
    LET after[i \in 0..Len(todo)] ==
            IF i = 0 THEN steps
            ELSE IF i = 1 THEN Append(steps, OptimizerStep(params, state, todo[1]))
            ELSE Append(after[i - 1],
                        OptimizerStep(ParamsOf(after[i - 1]), StateOf(after[i - 1]), todo[i]))
    IN  after[Len(todo)]

(* The size of a batch, and the batch of step j of a run over points.      *)
Effective(points, size) ==
    IF size = 0 \/ size > Len(points) THEN Len(points) ELSE size

PerEpoch(points, size) == (Len(points) + size - 1) \div size

BatchAt(points, size, j) ==
    LET batch == j % PerEpoch(points, size)
        end == (batch + 1) * size
    IN  [epoch |-> j \div PerEpoch(points, size), batch |-> batch,
         points |-> SubSeq(points, batch * size + 1,
                           IF end > Len(points) THEN Len(points) ELSE end)]

(* The batches of the steps first..total - 1.                              *)
BatchesFrom(points, size, first, total) ==
    [i \in 1..(total - first) |-> BatchAt(points, size, first + i - 1)]

-----------------------------------------------------------------------------
(* The host calls.                                                         *)

Room(steps) == Len(results) < MaxResults /\ steps <= MaxSteps

Keep(result) == results' = Append(results, result)

(* host_train.  The parameters of a run over live data are a TRAIN node of *)
(* their own, which has the run as its contents.                           *)
Train(epochs, size, live) ==
    LET batch == Effective(data, size)
        total == epochs * PerEpoch(data, batch)
    IN  /\ data # <<>> /\ Room(total)
        /\ Keep(Result(StepsFrom(Initial, <<>>, <<>>,
                                 BatchesFrom(data, batch, 0, total)),
                       batch, "train", 0, 0))
        /\ IF live THEN node = 0 /\ node' = Len(results) + 1 ELSE UNCHANGED node
        /\ UNCHANGED data

(* incremental_train: full-batch steps over other points, with the         *)
(* parameters and the optimizer state of the last step, whose run and      *)
(* dataset stay as they are.                                               *)
Extended(r, points, count) ==
    LET prior == results[r].steps
    IN  StepsFrom(ParamsOf(prior), StateOf(prior), prior,
                  [i \in 1..count |->
                      [epoch |-> Len(prior) + i - 1, batch |-> 0, points |-> points]])

Extend(r, points, count) ==
    /\ points # <<>> /\ Room(Len(results[r].steps) + count)
    /\ Keep([results[r] EXCEPT !.steps = Extended(r, points, count),
                               !.made = "update", !.from = r,
                               !.at = Len(results[r].steps)])

(* host_update, of the result a value was made with.                       *)
Update(r, points, count) == Extend(r, points, count) /\ UNCHANGED <<data, node>>

(* reactive_observe of the training data: the TRAIN node takes one step    *)
(* over the one point observed.                                            *)
ObserveData(x) ==
    /\ node # 0
    /\ Extend(node, <<x>>, 1)
    /\ node' = Len(results) + 1
    /\ UNCHANGED data

(* Wrong on purpose: takes the optimizer's state from the end of the run.  *)
BrokenResumed(r, i) ==
    LET prior == results[r].steps
        size == Effective(data, results[r].batch_size)
        kept == SubSeq(prior, 1, i + 1)
    IN  StepsFrom(ParamsOf(kept), StateOf(prior), kept,
                  BatchesFrom(data, size, i + 1, Len(prior)))

(* The steps up to i as they are, and those after it again, from the       *)
(* dataset of the run as the array has it now.                             *)
Resumed(r, i) ==
    LET prior == results[r].steps
        size == Effective(data, results[r].batch_size)
        kept == SubSeq(prior, 1, i + 1)
    IN  StepsFrom(ParamsOf(kept), StateOf(kept), kept,
                  BatchesFrom(data, size, i + 1, Len(prior)))

(* host_resume. *)
ResumeRun(r, i) ==
    /\ Len(results) < MaxResults
    /\ i < Len(results[r].steps)
    /\ Keep([results[r] EXCEPT !.steps = Resumed(r, i), !.made = "resume",
                               !.from = r, !.at = i + 1, !.over = data])
    /\ UNCHANGED <<data, node>>

(* array_push and ArraySet on the dataset's array, which the runs over it  *)
(* share.                                                                  *)
Write(points) == data' = points /\ UNCHANGED <<results, node>>

Push(x) == Len(data) < MaxPoints /\ Write(Append(data, x))

Set(i, x) == data[i] # x /\ Write([data EXCEPT ![i] = x])

TRNext ==
    \/ \E x \in Points : Push(x) \/ ObserveData(x)
    \/ \E i \in DOMAIN data, x \in Points : Set(i, x)
    \/ \E e \in Epochs, s \in BatchSizes, l \in BOOLEAN :
          Train(e, s, l)
    \/ \E r \in DOMAIN results :
          \/ \E x \in Points : Update(r, <<x>>, 1)
          \/ Update(r, data, 2)
          \/ \E i \in 0..(MaxSteps - 1) : ResumeRun(r, i)

TRSpec == TRInit /\ [][TRNext]_TRvars

-----------------------------------------------------------------------------
(* Properties.                                                             *)

(* The points that a resumption takes for step k: not those that the step  *)
(* was over, but the dataset's, in the place of k, as they are by then.    *)
Retaken(run, k) ==
    BatchAt(run.over, Effective(run.over, run.batch_size), k - 1).points

Continues(run, other) ==
    /\ Len(run.steps) = Len(other.steps)
    /\ \A k \in DOMAIN run.steps :
          (run.steps[k].parameters = other.steps[k].parameters)
          <=> \A m \in (run.at + 1) .. k : other.steps[m].gradient[2] = Retaken(run, m)
    /\ other.made = "train" /\ other.over = run.over => run.steps = other.steps

(* "The continuation is byte-identical to the original run's" (LIP-014,    *)
(* host_resume): as far as the original's later steps were over the points *)
(* that are retaken for them, and not a step further.  So it is after a    *)
(* training whose dataset nobody wrote to since; it is not, against the    *)
(* LIP, once an update or an observation made a later step from other      *)
(* points, or a write changed those of a batch.                            *)
ResumesAgree ==
    \A r \in DOMAIN results :
        results[r].made = "resume" => Continues(results[r], results[results[r].from])

(* However a run came about, its steps are what one optimizer would have   *)
(* done with its batches in their order, without any update, observation   *)
(* or resumption in between; and what was kept of the other run is its     *)
(* history (host_train, incremental_train, host_resume).                   *)
OneOptimizer ==
    \A r \in DOMAIN results :
        /\ results[r].steps =
             StepsFrom(Initial, <<>>, <<>>,
                       [k \in DOMAIN results[r].steps |->
                           [epoch |-> results[r].steps[k].epoch,
                            batch |-> results[r].steps[k].batch,
                            points |-> results[r].steps[k].gradient[2]]])
        /\ results[r].from # 0 =>
             IsPrefix(SubSeq(results[r].steps, 1, results[r].at),
                      results[results[r].from].steps)

RunsReplay == ResumesAgree /\ OneOptimizer
=============================================================================
