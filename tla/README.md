# Lana: a verification project

Lana is a language whose programs compute with uncertain values and keep what they
decide in a durable store. This directory holds TLA+ models of the parts of the
Rust implementation where concurrency, crashes, retries and the bookkeeping of
uncertainty decide whether it is right, TLC configurations that check them on small
instances, and TLAPS proofs of the properties that matter most, for every value of the
constants.

Everything is translated from the code under `src/`; `PROJECT.json` maps each
definition to the lines it stands for. In the following *runtime* is
`src/runtime/rust/lana-runtime/src`, *vm* is `src/vm/rust/lana-vm/src` and *cli* is
`src/tools/rust/lana-cli/src`.

| module | models | run |
|---|---|---|
| `RevisionedStore` | what the store promises, without a disk | (as a property) |
| `Store`, `MCStore` | the file-backed store | `services`, two violations |
| `Execution` | webhooks, at most once | `services` |
| `FutureMessages` | the durable inbox | `services` |
| `StoreHost` | the program's one store handle | (under the next three) |
| `Datasets` | sources, batches, queries and their snapshots | `services` |
| `Learned` | rules and trees, their versions and corrections | `services` |
| `Records` | ledger events, decisions, effect attempts | `services` |
| `LiveHost` | a program kept alive between calls | `services` |
| `Tasks`, `MCTasks` | fork, join, groups, workers, shutdown | `tasks`, one violation |
| `SharedHistory` | what Shared Information promises | (as a property) |
| `SharedInformation`, `MCSharedInformation` | observe, read, wait, revoke | `machine`, `tasks`, one violation |
| `Collector` | the collector of cycles | `machine`, one violation |
| `Reactive` | live information and its recomputation | `machine`, one violation |
| `EventLoop` | async functions, race and all | `machine` |
| `Paths` | branches on what is not known | `values`, one violation |
| `Training` | training runs and what they resume from | `values` |
| `Possibilities` | arithmetic on alternatives and path sets | `values`, one violation |
| `Joints` | joint laws, kernels, networks, inference | `values` |
| `Tensors` | views, broadcasting, gradients | `values` |

`MCServices`, `MCMachine` and `MCValues` put the modules of one side beside each other;
`StoreProofs`, `HostProofs`, `ServicesProofs`, `SharedInformationProofs`, `TasksProofs`,
`CollectorProofs`, `ReactiveProofs` and `EventLoopProofs` hold the proofs.

## 1. The system and its parts

A program is compiled to a chunk (`src/compiler`, in Lana itself), verified
(*bytecode*) and run by a VM. The VM forks tasks, each a VM of its own on a pool of
threads, and shares evidence among them through Shared Information. It calls the
runtime through numbered host calls: the runtime keeps one store per VM, and the
ledger, the inbox, the webhook receipts, the datasets and the rule sets are records in
that store. So there are three cores: one is concurrent (tasks, Shared Information), one
durable (the store and what stands on it), and one is the machine itself, where an
instruction on an uncertain value, a live value or a future is a small protocol of its
own. They meet in the host call: tasks do not share a store handle.

| part | state | operations | hard about it | what makes it correct | status |
|---|---|---|---|---|---|
| Store (*runtime* `store.rs`, `atomic_file.rs`) | journal, manifest, snapshot files; index, staged batch, revisions in memory | open, put, delete, commit, close, snapshot, compact, get, get_at | crashes and power loss at every file operation; uncertain outcomes | what was acknowledged is found again, or the store says it is damaged; nothing else is ever found | modelled |
| Webhook execution (`execution.rs`) | a receipt per plan, in the store | execute | a crash around the one POST; a timeout that hides an effect | one POST per plan; receipts tell the truth | modelled |
| Future messages (`future_messages.rs`) | a record per message under its status's key | create, check, acknowledge, cancel, inspect, receive | several commits in one call, any of which may fail | one status per message, never backwards, exact receipts | modelled |
| Store host (`host_calls.rs`) | the VM's handle and its staged writes | store_open, store_put, store_commit, commit_if | which handle a VM keeps when a commit fails; staged leftovers | a failed handle can be replaced; leftovers do no harm | modelled |
| Dataset history (`host_calls.rs`) | sources, batches, snapshots, receipts | source, query, apply, snapshot | expected revisions, retries, uncertain commits | a batch once; snapshots stay as they were | modelled |
| Rules and trees (`rules.rs`, `trees.rs`) | versions, the active pointer, receipts | save, counterexample, rollback | the same commit discipline; what was held out | the active version is a valid one, measured on what it has not seen | partly |
| Ledger, effect records (`ledger.rs`, `effects.rs`) | events in a journal and in the store | append, query, attempt | two commits that can part; staged leftovers | no event twice, changed or half | modelled |
| Live host (`live.rs`) | instances with a bounded queue | observe, suspend, resume, inspect | a resume that stops in the middle | nothing lost, order kept, limit kept | modelled |
| Task scheduler (*vm* `vm.rs`, `value.rs`) | queue, task handles, groups, worker pool | FORK, JOIN, JOIN_TIMEOUT, CANCEL, TASKGROUP_ENTER, TASKGROUP_EXIT, shutdown | helping on one's own stack, races of fork and shutdown, lost wake-ups | each task runs once, groups finish, joins end, slots are counted | modelled |
| Shared Information (`vm.rs`) | observations, the current commit, capabilities | create, observe, snapshot, at, wait, grant, revoke | optimistic commit with the work outside the lock; revocation in the middle | one history; nothing without authority; no lost wake-up | modelled |
| Collector (`class_gc.rs`, `heap.rs`) | nodes, roots, phases of a sliced collection | allocate, write, collect in slices or at once | the program runs between two slices | nothing reachable is emptied, garbage goes | partly |
| Reactive graph (`vm.rs`) | nodes, revisions, histories | observe, recompute, derive | all-or-nothing recomputation | histories agree at every revision | partly |
| Event loop (`vm.rs`) | queue of futures, their frames | ASYNC, AWAIT, race, all, sleep, run_async | who wakes whom, loops within loops | nobody whose wait is over sleeps on | modelled |
| Paths, possibilities, joints (`vm.rs`) | alternatives, dependencies, laws | PATH_SPLIT, PATH_JOIN, lifted operations, inference | which alternatives belong together | a value has in each world the outcome a program without uncertainty has | partly |
| Training (`vm.rs`) | runs, their steps | train, update, resume, observe | resuming a run that was updated or whose dataset was written to | a run can be replayed; how far a resumption reproduces | modelled |
| Tensors (`tensor.rs`, `vm.rs`) | layouts over shared buffers, derivations | the tensor operations, grad | strides, broadcasting, accumulation | elements and derivatives are those meant | partly |
| Compiler (`src/compiler`) | | `if` to PATH_SPLIT and PATH_JOIN | | as for paths | partly |
| Policy and claims, heap counters, bytecode, codecs, adapters, HTTP, command line, library | | | | | section 6 |

**How they interact.** The VM calls the runtime (`host_calls.rs` `dispatch`); a
runtime part takes the VM's store handle, refuses if the program has something staged
(`ensure_clean`), stages its own records and commits. On a failed commit the inbox and
`execute` close the store; the others may leave the closed handle in its slot. Tasks and
Shared Information interact through the cancel flag and through sleeps: `shared_wait`
puts a VM's thread to sleep on the Information's own condition variable, about which the
scheduler knows nothing. An observation of live information recomputes what the frames
hold, but not what a suspended frame of the event loop or of a generator holds.

**Hard behaviours.** `PROJECT.json` lists the hazards, each at its line, with the
properties that answer it or the reason why none does.

**Composition of runs.** A run has a number of *parts*: a variable `part`, chosen at the
start, says which module takes the steps, and the variables of the others keep their
initial values. So one run is several model checks, each as if it were alone. Four runs
end without an error: `services`, `machine`, `values` and `tasks`.

## 2. The durable core

### Store

`Store` has the variables of `struct Store` (`open` is `journal.is_some()`), the files
(`journal`: complete records and perhaps a torn one; `dir`: the manifest's fields and
the snapshots), and what a power loss may bring back instead (`journalAlt`,
`dirAlt`: every state the file had since its last sync). Three variables observe:
`hist` is what callers were told was committed, `doubt` the contents of a commit whose
outcome was reported uncertain, `synced` the last revision a journal sync covered.

Each operation is one action per outcome. `Open` is `open_with_outcome`: the journal is
replayed (`ReplayAccepts`, `Recovered`), the torn tail cut, the manifest rewritten.
`store_commit` is `Commit`, or `CommitRolledBack` (append failed and was undone),
`CommitTorn`, `CommitUnsynced` and `CommitUnpublished` (uncertain, by how far it got);
`TakeSnapshot`, `Compact` and the rest alike. A process that dies within an operation
leaves the same files as the uncertain failure at that step, so these actions stand for
process deaths as well; `PowerLoss` replaces files by older contents and needs the
handle gone.

Assumed of the file system: an unsynced append leaves a prefix; renames within a
directory persist in order; a successful sync covers earlier failed ones.

Checked as part `store` of `services` (two keys of which one commit mentions one, one
value besides absence, three revisions, compaction that keeps nothing before the snapshot;
0.7 million states): `HandleShowsDisk`, `Durability`, `RefusalsExplained`, `NoSubstitution`, and that
`Store` implements `RevisionedStore` (`RefinesRevisionedStore`). Three revisions are enough
for a snapshot, a compaction and a commit on top, which is the longest chain of dependence
in the file formats: the manifest names one snapshot, and the journal's first record names
its predecessor. A compaction that keeps some revisions only moves the boundary; the two violating runs
include it, and the theorems hold for any. The keys are interchangeable (`KeySymmetry`); the view (`MCView`) drops the
memory of a handle that is gone, which nothing reads.

Two runs show where the code departs from its documents:

- `store_reopen` (`ReopensAfterClose`): compact at one revision, commit, take a
  snapshot: the journal's first record now follows neither revision 0 nor the snapshot,
  and replay refuses it as corrupt, with no failure at all.
- `store_power_loss` (`CommitSurvivesPowerLoss`): a record that was never synced is
  adopted by an open, pinned by a snapshot and lost by a power loss; the torn tail makes
  replay skip its comparison with the snapshot, the next commit leaves a gap, and the
  open after that refuses an acknowledged and synced commit.

`RefusalsExplained` states that these are the only ways to be refused, and
`NoSubstitution` that a wrong historical answer is at worst an absence: after a compaction,
a read exactly at the retention boundary is answered as if the key had held nothing.

### Webhooks and the inbox

`RevisionedStore` is the store without a disk: published versions, what the handle
shows, and at most one version in doubt that the next open settles. `Execution` and
`FutureMessages` take their store from it (`Store == INSTANCE RevisionedStore`), with
their own notion of a version; that `Store` implements it is checked and proved
(`StoreProofs!Refinement`), so what they rely on is what the files deliver.
There is one store directory: a program that opens another finds other receipts, and
so may post again; `src/docs/spec/SPEC.md:1276` makes the receipt store the host's. That
the program leaves the receipts' and the inbox's own keys alone is assumed: `store_put`
does not forbid it.

`Execution` is `execution.rs` `execute`. `CommitPending`, `Post` and `CommitOutcome`
are its three steps; `PendingFails` and `OutcomeFails` the commits that fail, rolled
back or in doubt, after which the code closes the store; `ProcessDies` the process dying
between any two steps. `Post` chooses what the receiver does and what of it comes back,
so that a timeout may hide an effect. The program around it stages and commits other
keys (`CommitStaged`). Checked with two plans and seven revisions, enough for both plans to
go through all their commits with three of the program's between them: `AtMostOnce`,
`ReceiptsTruthful`, `ReceiptsSettle`. `MaxPosts` = 2 lets a second post happen if the
guards did not prevent it.

`FutureMessages` is `future_messages.rs`. A version is the set of records; `Create`,
`Acknowledge` and `Cancel` are one commit each and `check` is `Check`, which settles
all receipts, and then one `Release` for each message, with a death or a failed release
possible in between. (Its specification carries `FM` in its names because it shares a run
with the others.)
Payload, condition and provenance are one value, and which messages match is left open.
A release moves the record with `Moved`, the put and the delete of `commit` in one. Checked
with three ids, two specifications, at most two pending messages and six revisions: a check
of two messages with a create before and a settlement after fits, and the limit is met.
`OneRecordPerId`, `ReceiptsExact`, `NeverBack`.

### The store host and what programs keep

`StoreHost` is the program's side of the store: a slot that holds no handle, an open one or
a closed one, what is staged (`mutations`), the committed versions (`history`), and a
version in doubt (`uncertain`). A commit that fails leaves the handle closed in its slot (`CommitLeft`) or takes it out (`CommitClosed`),
depending on the host call; a rolled back commit leaves what it staged, to be committed with
whatever comes next. Three modules stand on it, each with its own keys.

- `Datasets`: sources of rows, batches that change them and queries that keep a snapshot of
  their result. `SnapshotsFresh`: in every revision the snapshot that a query names is what
  its sources hold in that revision. `BatchesOnce`: a source changes exactly with a new
  receipt, by the change and in the revision that it names. Two sources, one query over both,
  two batches, two programs, two calculations, five revisions.
- `Learned`: rules that counterexamples correct, and trees. `HoldoutHeldOut`: what a rule
  was once measured on is never trained on, over corrections and rollbacks. `ActiveValidated`:
  predictions come from a version that passed its validation. Three examples, three versions.
- `Records`: the ledger, decisions, attempts at effects. `RecordsKept`: an event has the
  number of its revision, is in both journals and is never changed or lost, although the
  check against what is there does not see what is staged. `EffectAtMostOnce`: the executor
  is called at most once for an attempt, and a record that says how it went says what the
  executor answered.

`LiveHost` is one instance of a program kept alive, with a queue for observations that
arrive while it is suspended. `ObservationsInOrder`: each is answered once, in order, over
pauses, resumes that stop in the middle and failures, and the bytes counted against the
limit are those of the queue. `FailedShowsCurrent`: an inspection of a failed instance shows
as whole only what the VM holds now. Three names of which two are roots, observations of one
and two bytes, a queue of three, four observations.

## 3. The concurrent core

### Tasks

Threads (`Main` and the workers) run stacks of VMs, because a VM that joins helps:
`wait_task` runs the first task in the queue on its own thread. The interpreter of a
program is open: between two instructions a VM takes any step of `Program`. `Reserve`,
`Enqueue` and `ForkFails` are the two halves of `start_task` around the unlocked
import of values; `NotYet`, `Help`, `NothingToHelp`, `FallsAsleep` and `JoinedOk`,
`JoinFailed`, `InTime`, `TimesOut` are the loop of `wait_task`, cut where the code
gives up a lock; `CloseNext` to `ClosedWithError` are `close_task_group`; `Take`,
`WorkerSleeps`, `WorkerExits` are `worker_loop`; `Ends` is the end of `run_task`, and
for the root also `Scheduler::shutdown`.

Part `tasks` of the run `tasks` has two tasks, two slots, a group for each VM, one worker and
one observation; part `help` has three tasks over two slots and no groups, so that threads
help two deep, which is where helping could deadlock (`Limited` says what a part leaves
out). One worker is the worst case for joins, since more workers only take work off the
helping stacks. `RunsOnce`, `SlotsCounted`, `AllToldToStop`, `GroupsFinish` and, under
fairness, `EndsUnlessShared` as `NoJoinDeadlocks`. The safety of all four is proved for any
number of workers, tasks and groups.
`SlotsCounted` states exactly what the code does: no slot is given back twice or lost to a
fork that did not happen; a task whose join failed, or that was cancelled with its group,
keeps its slot for good (section 7).

Fairness is weak fairness of each thread's next step: they are threads of the
operating system. That programs end is no assumption about programs in general: the
bounds end them, as the VM's instruction limit does.

`tasks_shutdown` (`ShutdownEnds`): a task asleep in `shared_wait` without a timeout is
never woken by the shutdown, so the program never exits.

### Shared Information

`SharedInformation` has the state under the lock (`observations`, `versions`,
`revision`, capabilities, epoch) and each VM's place in its call. `ReadBase` is the
first lock section of `shared_information_observe`; the replay happens between it and
`Publish`, `StartsOver`, `ObserveRefused` or `LastAttempt`, which are the second. A
value is the sequence of the observations it was conditioned on, in order; whether
conditioning succeeds is open (`BuildFails`). `shared_wait` may fall asleep, be woken,
time out, be refused or be cancelled. `OtherCommit` is the counter of revisions that
all Informations of the process share.

Part `shared` of `machine` has two VMs, two times, two kinds of evidence, two attempts, two
revisions: `OneEvidencePerTime`, `ReplayComplete`, the action property
`OnlyWithAuthority`, and that it all implements `SharedHistory` (`ImplementsHistory`), where
accepting evidence and reading are single steps. Two VMs are the least that can race; two
times let evidence come late; two pieces of evidence let it contradict; two attempts let an
observer lose once and then win or give up. A third VM adds only more of the same races,
each of which is between one that builds and one that publishes; the theorems are for any
number. Part `shared` of `tasks` checks `WaitersGoOn`, under weak fairness of the VM that
is in a call, as `NoWakeUpLost`: it has a thread of its own.

`shared_cancel` (`CancelledPublishesNothing`): a VM that is cancelled while it builds
still publishes.

## 4. The machine

### Collector, reactive graph, event loop

`Collector` is `class_gc.rs`: every owner is counted, and the collector finds cycles by
comparing a node's count with the edges it knows. Routine collections run in slices between
two instructions; the flag `stale` stands for the heap's mutation epoch. `SnapshotTrue`: what
a collection that was not told to start over classifies by is how the graph is.
`GarbageGone`: a major collection releases all that was garbage when it began.
`FullSweepsOnlyGarbage`: at no point would a full collection empty what the program can
reach. Two containers, one of them young, one register, one root record, two edges. `gc_lost`
(`NothingLost`) shows that a sliced one may: a read moves a reference from a container to a
register, which is no write, between the reading of two nodes' owners. It needs that
interruption: `LossNeedsAnInterruption` (section 5). A new object is none that a slot has given up
while some garbage or the collector's graph still owns it.

`Reactive` is live information: roots, what is derived from them and the transaction that
recomputes it. A value stands for the expression it came from. `HistoryAgrees`: at every
revision since it was made a derived value was what its operation made of its operands'
contents at that revision, over observations that fail and are rolled back.
`reactive_suspended` (`DerivedCurrent`): a derived value held only by a suspended generator
or future is not recomputed; without such frames nothing goes stale (`NothingGoesStale`,
section 5). Two roots, two derived values, two places and one observation in `machine`, which
has no suspended frame; one root, one derived value, one suspended frame and two observations
in `reactive_suspended`.

`EventLoop` has the loop's queue, its frames, who awaits whom, and loops within loops
(`run_async`). A body is the list of what it waits for. `NobodyLeftAsleep`: when nothing is
ready, of all that the loop waits for, directly or through a race or an all, nobody whose
wait is over is asleep. Two async functions, two composites, one step each.

### What is not known

`Paths` compiles a small program as the compiler does and runs it as the VM does:
PATH_SPLIT runs one side, then the other from a copy of the frames, and PATH_JOIN joins what
they left. `PathsFaithful`: what the program leaves is, in each world (a truth value for each
condition), what the program means there (`Means`). All programs of the grammar in the
module, over two conditions, two calls deep. With returns inside branches `paths_return`
violates it: a return ends the run before the other side was looked at.

`Possibilities` is arithmetic on alternatives. What a value means is kept beside it: its
outcome in each world, a world being a choice of alternative for each dependency.
`AlternativesReal`: the alternatives a value has are those of some world, and each world's
outcome is among them, where values are told apart by one dependency or one condition. The
flag `meaning.exact` is dropped where the code itself gives up: path sets mixed with
possibilities, two path sets on one dependency with different conditions, and values
conditioned to different subsets. `silent_product` (`NoSilentProduct`): a path set and a
possibility of another dependency are combined pairwise. `MaxValues` counts values and
dependencies together.

`Joints` builds joints from supports or marginals, projects, renames, conditions and samples
them, and makes networks of finite kernels. The law a value stands for is kept beside it.
`LawsExact`: every joint, and every answer to a query, has the law that its operations mean.
Kernels are built before values, and one register holds the value worked on, since every
operation takes one joint. Five operations are two kernels, a build, a network and an
inference. Exceptions, where the code means something else: section 7.

### Numbers

`Training` has runs as the chain of steps behind their parameters, and keeps beside each what
its dataset held when it was made (`over`). `RunsReplay` has two parts. `OneOptimizer`: a run,
trained, updated, live or resumed, has the steps that one optimizer would have made over its
batches without an interruption. `ResumesAgree`, of every resumed run, whatever it resumes:
after a step its parameters are those of the other run if and only if the steps since the
resumption were over the points that `host_resume` takes for them again, which are the
training dataset's, as the array has them by then. `LIP-014.md:50` promises the same
continuation for every run; the equivalence says where the code keeps it (after a training
whose dataset nobody wrote to) and where not (section 7). Up to three points, three steps,
three results, one and two epochs: a training, an update, an observation or a write, and a
resumption of what came of it, and a resumption of a resumption.

`Tensors` has tensors as layouts over shared buffers, with the derivation that recording
builds, and beside it what is meant: an element at each coordinate with its derivatives.
Numbers are taken modulo a prime, where division is exact. `TensorsExact` and
`GradientsExact`. Each operation goes on from the last result, two operations, three inputs
that have strides, an offset, a transposition and a batch. The flag `whole` says that every
operation on the way recorded itself, `meant` that no operation was one that the code
computes otherwise than written (section 7). Transcendental operations, element types and
devices are left out.

## 5. Proofs

All theorems hold for every value of the constants that satisfies the `ASSUME`s of the
module: bounds are natural numbers, times and ids are numbers, marker values differ from real
ones. No library or system is assumed correct beyond the store's assumptions above.

- **Store** (`StoreProofs`): `TypeCorrect`, `HandleAndDiskAgree`, `RecoveryIsDurable`,
  `Refinement`, `RefusalsAreExplained`, `HistoryNotSubstituted`. `Durability` is not inductive: whether a file opens depends on the
  manifest, and a manifest may be undone later. `Inv` therefore speaks of every pair of
  a journal and a directory that a power loss may leave, whether or not they open
  together: each is bounded by what callers were told (`JournalsBounded`,
  `DirsBounded`), and a pair that holds at least that much holds exactly that, or the
  one commit in doubt on top (`DiskTruthful`). The open handle ties memory to disk
  (`HandleFollowsHistory`). What may be refused needs three more facts of every such pair
  (`FullInv`): a journal with records reaches the last journal sync, and one without leaves it to
  every snapshot (`SyncedKept`); each record takes the version before it to its own, the one in
  doubt included (`RecordsTrue`); no retention boundary is past its manifest's revision
  (`BoundariesPublished`). A historical read is then right because records without a gap are
  numbered in turn (`Chain`), and over records that do not mention it a key keeps its value
  (`Carried`); with no induction to be had, both are shown by the first record that would be wrong.
- **Shared Information** (`SharedInformationProofs`): `TypeCorrect`, `EvidenceAgrees`,
  `ReplayIsComplete`, `Authority`, `Refinement`. The optimistic commit is right because
  observations only grow: what a VM that builds holds is a prefix of them without its
  own time (`BasesHold`), so an unchanged count is as good as an unchanged list. That
  the replay has an order at all is carried as `Orderable` and shown by inserting the
  new observation into the old order, since induction over sequences is not available.
- **Execution** (`HostProofs`): `ReceiptsTyped`, `PostedAtMostOnce`,
  `ReceiptsTellTheTruth`, `ReceiptsAdvance`, `UsesTheStore`. The version in doubt counts
  as much as the certain one: both are `Supported` by what happened, and the doubtful one is
  one step ahead (`Advances`). The call under way has its receipt Pending, and no post
  before it sends.
- **Future messages** (`HostProofs`): `MessagesTyped`, `NeverUnderTwoStatuses`,
  `ReceiptsNameTheirRevision`, `MessagesOnlyAdvance`, `MessagesUseTheStore`. `Follows` is what every version that may come
  next satisfies: one record per id, nobody lost or taken back, and a record that is
  not carried over took on its status just now and says so. `PreparedOK` ties a running
  check to the store: its k-th transition is still that of a pending message, k commits
  ahead, which the clean store and the single handle guarantee.
- **Live host** (`HostProofs`): `LiveHostInvariant`, `ObservationsStayInOrder`,
  `FailedInstancesShowTheTruth`, for any names, dependencies, sizes and limit. One observation
  after the other leaves the queue, so what is to hold in between is said of a *situation*
  (`LiveGood`), the state as it is after k of them: the answers so far, then the queue, are the
  observations in the order they were made; what was applied is what was answered so; the
  bytes are those of what is left. `CacheTrue` asks it of any instance, not only of a
  failed one: no entry is of a revision still to come, or an observation could make a stale one
  look current; and an entry of the present revision is partial or shows what the VM holds. It
  survives a refresh that stops at any name.
- **Event loop** (`EventLoopProofs`): `EventLoopInvariant`, `NobodyIsLeftAsleep`, for any
  finite sets of futures, any program and any bounds. Futures are named before anyone starts
  them, so a body may wait for one that the loop has never heard of. The invariant is therefore
  about some set of futures (`Touched`): it holds all that is ready, complete, awaited or on
  the stack, and of each member that has started also what it waits for. A member that is
  asleep is registered with one that is not complete, and a composite with all of its inputs
  that are not. A step disturbs that for few futures only, and each action names them; for all
  others `Calm` is enough. What is behind a future lies in that set, for `Behind` grows from a
  member by what members wait for.
- **Tasks** (`TasksProofs`): `TypeCorrect`, `TasksRunOnce`, `SlotsAreCounted`,
  `ShutdownReachesAll`, `GroupsAreFinished` and `NoCycleOfJoins`, from `Bounds` alone. A task
  is in one place (`Places`: off until taken from the queue, then on one stack, ended when it
  has a status), which needs the registers of the join it is in as well (`Waits`). For a
  closed group `Groups` says of each task of a group who still waits for it; the task that is
  being joined right now is in no register but `target`. That joins cannot wait in a
  circle rests on `Order`: the queue is served in the order of the forks, so what lies on a
  stack is in that order, also where a thread helps; a task is younger than its parent; and
  nobody sleeps for a task still in the queue (`Sleepers`), which is on the stack of some
  thread. So the youngest VM that sleeps waits for a younger one, and the top of that stack is
  younger still. That it then ends is liveness, and model-checked.
- **Records, learned tasks, datasets** (`ServicesProofs`): `RecordsAreKept`,
  `EffectsAtMostOnce`, `HoldoutsStayOut`, `OnlyValidatedServes`, `SnapshotsAreFresh`,
  `BatchesApplyOnce`, `RecordsUseTheStore`, `LearnedUsesTheStore`, for any keys of the three and with no assumption on the constants. A commit
  has the same outcomes for all of them (`CommitKeeps`), and an uncertain one may take effect
  at the next open, so what is staged and what is in doubt must each be fit to be the next
  version. For records that is `Stageable` and `MayFollow`: an event only under the next
  number and said in the journal, a decision only while there is none, an attempt only as the
  executor answered; versions then only grow (`Grows`). The check that an attempt is not
  recorded covers what is committed, which suffices because the executor runs only after
  the Pending record is (`ExecutedOnce`). A learned record carries the facts about all its
  versions (`GoodRecords`), a rollback included. For datasets, `Fresh` adds that the sources of a
  recorded query exist, so that a source created later is none of them, and that its snapshot
  is no later than its version, so that no later one overwrites it; that the process's own
  copies (`bound`) are never believed without the disk is why the invariant need not mention them.
  `StoreHost` has a store of its own description; that records and learned tasks stand on
  `RevisionedStore` as well is a refinement (`HostStore`): the handle is available if its slot is
  open, and a closed one in its slot, or what a rolled back commit leaves staged, are nothing of
  the abstract store's (`HostRefines`). Datasets make the same moves, but the theorem needs one
  set of versions given beforehand, and their invariant says only that there is some.
- **Collector** (`CollectorProofs`): `TypeCorrect`, `SnapshotsAreTrue`, `GarbageIsReleased`,
  `FullCollectionsAreSafe`, for any finite heap, arena and registers. `Reachable` is the
  least set that holds the registers and the live roots and is closed under references, so
  what holds of it is shown by a set closed likewise. What can be reached exists and what was
  given up leads nowhere (`HeapClosed`), which the slices that release nodes respect because
  a node they have done with is out of reach and empty, or the program has lost one already
  (`SweptAside`). What the trace has seen is so (`Traced`) and is what it has counted
  (`Counted`); the program, which may come in between, only moves what it can reach
  (`ProgramDoes`), so garbage stays apart (`DoomedApart`), all its owners are garbage, and none
  is left over that would make it a root. `LossNeedsAnInterruption` is the other side of
  `gc_lost`: if the program does not run between the classification of the first and of
  the last node (`UninterruptedSpec`), then `NothingLost` holds, although it runs between all
  other slices: what is reached is live as the marking ends (`LiveKept`), and stays so.
- **Reactive graph** (`ReactiveProofs`): `HistoriesAgree`, `NothingGoesStale`, for any finite
  roots and derived values and any places, with the hypothesis that no suspended generator or
  future holds a live value (`Suspended = {}`). Without it both are false of the code, which
  is what `reactive_suspended` shows. `HistoryAgrees` is not inductive, since it is silent
  during an observation and forgets what is reached only through another value: `Agreed` says it
  at all times of everything in `Collected`, the least set that holds what the places hold
  and is closed under inputs. `Recomputed` says that what is staged for a node is its
  operation's result of what its operands are to have, whether they are staged, published
  already or not affected, so it does not matter how far the publication has come; the order
  of the list (`OperandsBefore`) is what makes it true when a node is staged. Publication
  files the old contents under their own revision, so no earlier revision changes
  (`Superseded`); at the end the new one agrees because everything listed has its staged contents.

- **Training** (`ReactiveProofs`): `TrainingInvariant`, `RunsCanBeReplayed`, for any points,
  epochs and batch sizes. `RunsReplay` compares whole runs, and is not inductive: to extend a
  run one must know that its own parameters and optimizer state come from its last step. So
  `Chained` says that each step is the optimizer's next after the one before it, which an
  update, an observation and the steps after a resumption prolong (`Continued`) and the steps
  that a resumption keeps inherit (`Shortened`). Two chains with the same batches are the same
  (`SameSteps`): this gives the replay. They have the same parameters after a step if and only
  if they are over the same points up to it (`SameParameters`, since the parameters are named by
  what they were computed from). `Planned` and `Descends` say which points these are: a
  trained run has its dataset's batches in their order, a resumed one those of the dataset as
  it is at the resumption, from there on. This gives how far a resumption reproduces, without
  a hypothesis on how the run came about; a write to the dataset leaves all runs alone.

The type correctness of `Store`, `FutureMessages`, `Tasks` and `Collector` is proved and no run repeats it.

**Only model-checked.** Everything about the other modules: all of section 4 but the
collector, the reactive graph, the event loop and training. Liveness (`EndsUnlessShared`,
`WaitersGoOn`): the prover does not reach fairness. The violations are counterexamples that
TLC finds.

**Out of the prover's reach** are liveness and `ENABLED`, induction over data with the
library's theorems, and what `RECURSIVE` operators compute; `Paths`, `Possibilities` and
`Tensors` have such operators, because programs, values and derivations are trees, and so no
theorems. A recursive function over the numbers up to a bound (`Drained`, `Enqueued`,
`Behind`, and the steps of a run, `StepsFrom`) can be reasoned about: a number at which a statement fails has a least one below
it (`UpTo`), which shows that the function exists as defined (`AfterExists`, `StepsExist`) and
then what it computes. The laws of `Joints` are sums over supports, by folds: what a fold over
a set yields does not depend on the order only by an induction the provers do not do, so
`LawsExact` stays with TLC.

## 6. Not modelled

- Policy and claims: pure evaluation of a table of rules; a candidate for a function checked
  against a reference definition.
- Heap counters: charge and release; the collector's use of the heap is in `Collector`.
- Bytecode: assembler, verifier and loader; pure functions over bytes.
- What rule and tree learning finds, what a query computes, what conditions match: data, left
  open where the modules above use them.
- Most plain instructions, entropies, transcendental functions, element types, devices.
- Codecs and digests, adapters and extraction, HTTP, the command line, the language server:
  conversions, input and output.
- Locks of the store directory, and its value codec.

## 7. Findings

Eight runs each show one: `store_reopen`, `store_power_loss`, `tasks_shutdown`, `shared_cancel`, `gc_lost`, `reactive_suspended`, `paths_return`,
`silent_product`. `PROJECT.json` quotes the sentence of the documents, comments or tests that
the code does not keep. More came up while reading; the modules say what the code does, and
their properties leave these cases out by name:

- After a compaction a read at the retention boundary is answered as if the key had held
  nothing, although compacted history "returns its own error" (`src/docs/spec/VM.md:114`);
  `NoSubstitution` allows an absence, and nothing else.
- After a failed commit of `execute` or `store_commit` the host keeps the closed handle, and
  `store_open` answers Conflict to the reopening that `SPEC.md:543` asks for; only a new
  process can reopen (`host_calls.rs:696`). `StoreHost` has the closed slot.
- A number minus or divided by a tensor is computed with its operands swapped
  (`lift_binary_raw`, `vm.rs:13616`). `Tensors` does the same, and drops `meant`.
- Arithmetic of a tensor with a number, of numbers after a sum, indexing, max and min record no
  operation; the backward pass stops there and the gradient is zero, although
  `LIP-011.md:61` has the compiler refuse a `grad` over what has no derivative. `Tensors` drops
  `whole`. The gradient of a vector times a batch of matrices has the wrong shape.
- Resuming a run recomputes its later steps from the dataset it was trained on, in that
  dataset's batches (`vm.rs:5241`, `host_resume`). For a run that was extended by `update` or by
  an observation, or whose dataset's array was written to since, the continuation is another
  one, although "the continuation is byte-identical to the original run's steps `i+1..`"
  (`LIP-014.md:51`, also `:61` and the comment at `vm.rs:5189`). The optimizer's state is
  restored. `ResumesAgree` says exactly when the two differ: train over one point, update
  with another, resume at step 0.
- A join of a task that failed or was cancelled returns before the task's slot is given back
  (`vm.rs:2386`), so the slots of such tasks are lost to later forks. `SlotsCounted` counts
  them as taken.
- Renaming a conditional joint builds an independent one that supports everything
  (`vm.rs:13094`, against `SPEC.md:421`): its meaning in `Joints` is `NoLaw`. Conditioning an
  independent joint on possible evidence for a marginal that is a distribution is refused
  (`SPEC.md:417`), and sampling returns such a marginal unsampled. Resolving an independent
  joint returns a marginal that is a possibility as it is (`joint_value_is_definite`,
  `vm.rs:21169`), instead of `LANA_ERR_UNRESOLVED_VALUE` for a law without a singleton support
  (`SPEC.md:420`); `LawsExact` leaves such draws and answers out (`definite`).
- A loser of `future_race` is not cancelled as `LIP-024.md:48` has it; path sets of one
  dependency under different conditions are zipped (`SPEC.md:436`).

## 8. Plan

1. Datasets on `RevisionedStore` too, with the set of versions that their rows may have.
2. `Joints` with sums over enumerated supports, as recursive functions, in place of folds, and
   proofs as for training runs.
3. Pure parts as operators against a reference definition: policy's first match, the
   verifier, rule learning.

## 9. Running it

    tlc -workers 2 -config MCServices.cfg MCServices.tla
    tlc -workers 2 -config MCMachine.cfg MCMachine.tla
    tlc -workers 2 -config MCValues.cfg MCValues.tla
    tlc -workers 2 -config MCTasks.cfg MCTasks.tla
    tlapm TasksProofs.tla
    tlapm HostProofs.tla
    tlapm EventLoopProofs.tla
    tlapm ReactiveProofs.tla

Each `.cfg` belongs to the module named in `PROJECT.json`: `MCStoreReopen` and
`MCStorePowerLoss` to `MCStore`, `TasksShutdown` to `Tasks`, `MCSharedCancel` to
`MCSharedInformation`, `CollectorLost`, `ReactiveSuspended` and `PathsReturn` to the module
they are named after, `MCSilentProduct` to `MCValues`. These end in a counterexample; the
four above end without an error in at most four minutes. Deadlock is checked for the store
and the services, which can always be called again; in the others programs end, or reach
their bounds, and the machine rightly stops. The longest proof, `TasksProofs`, takes two
minutes.

Definitions named `Broken...` are plausible mistakes in the definition below them; no
action uses them. Putting one in place of the right definition makes TLC violate the
property that `PROJECT.json` lists with it.
