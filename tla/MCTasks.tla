------------------------------ MODULE MCTasks ------------------------------
(* The waits of the VM's threads on small instances: two tasks and all     *)
(* that Tasks has ("tasks"); three tasks without groups and observations,  *)
(* so that a thread helps several deep ("help"); and the waiters of        *)
(* SharedInformation ("shared").  part, chosen at the start, says which of *)
(* the three runs; the variables of the others keep their initial values.  *)
EXTENDS Tasks

CONSTANTS VMs, Evidence
VARIABLES
    part, observations, versions, commits, counter, accepted, capabilities,
    revoked, epoch, at, call, flagged, answer

SI == INSTANCE SharedInformation WITH
    Times <- {1}, Granted <- <<"read", "observe">>, Attempts <- 2,
    MaxRevision <- 1, MaxTokens <- 4, MaxEpoch <- 3,
    revision <- commits, pc <- at, cancelled <- flagged

shared == <<observations, versions, commits, counter, accepted, capabilities,
            revoked, epoch, at, call, flagged, answer>>

MCInit == part \in {"tasks", "help", "shared"} /\ Init /\ SI!Init

(* What a part leaves out of Tasks. *)
Limited ==
    /\ part = "tasks" => born' + Cardinality(Forking') <= 2
    /\ part = "help" => made' = made /\ revision' = revision

TaskStep(th) ==
    part \in {"tasks", "help"} /\ Step(th) /\ Limited /\ UNCHANGED <<part, shared>>
SharedStep == part = "shared" /\ SI!Next /\ UNCHANGED <<part, vars>>
SharedGoes(v) == part = "shared" /\ SI!Goes(v) /\ UNCHANGED <<part, vars>>

MCNext == SharedStep \/ \E th \in Threads : TaskStep(th)

MCFairness ==
    /\ \A th \in Threads : WF_vars(TaskStep(th))
    /\ \A v \in VMs : WF_shared(SharedGoes(v))

MCSpec == MCInit /\ [][MCNext]_<<part, vars, shared>> /\ MCFairness

-----------------------------------------------------------------------------
(* The properties of the modules.  Safety is that of Tasks.                *)

(* Tasks!EndsUnlessShared: no join deadlocks, whatever is forked, joined   *)
(* and helped (run, wait_task, worker_loop).                               *)
NoJoinDeadlocks == part # "shared" => EndsUnlessShared

(* SharedInformation!WaitersGoOn: no wake-up is lost, of an observation or *)
(* of a revocation (shared_information_wait).                              *)
NoWakeUpLost == part = "shared" => SI!WaitersGoOn
=============================================================================
