----------------------------- MODULE MCServices ----------------------------
(* The store and the services of the runtime over it on small instances,   *)
(* side by side: Store, FutureMessages, Execution, Datasets, Learned,      *)
(* Records and LiveHost.  part, chosen at the start, says which of them    *)
(* runs; the variables of the others keep their initial values.  Datasets, *)
(* Learned and Records share those of StoreHost.                           *)
EXTENDS MCStore, FutureMessages, Execution, Datasets, Learned, Records, LiveHost

MCInputs == "u" :> {"s", "t"}

MCDepends == "r" :> {"r", "d"} @@ "q" :> {"q", "d"}

VARIABLE part

host == <<slot, mutations, history, uncertain, program, bound, events, running,
          executed>>

(* Execution and Datasets have several initial states of their own. *)
AnyPlan == CHOOSE p \in Plans : TRUE

MCInit ==
    /\ part \in {"store", "messages", "execution", "datasets", "learned", "records",
                "live"}
    /\ Init /\ FMInit /\ RCInit /\ LHInit
    /\ EXInit /\ (part = "execution" \/ plan = AnyPlan)
    /\ DSInit /\ (part = "datasets" \/ program = "p1")

StoreStep ==
    part = "store" /\ Next /\ UNCHANGED <<part, fmVars, exVars, host, LHvars>>
MessagesStep ==
    part = "messages" /\ FMNext /\ UNCHANGED <<part, vars, exVars, host, LHvars>>
ExecutionStep ==
    part = "execution" /\ EXNext /\ UNCHANGED <<part, vars, fmVars, host, LHvars>>
DatasetsStep ==
    /\ part = "datasets" /\ DSNext
    /\ UNCHANGED <<part, vars, fmVars, exVars, events, running, executed, LHvars>>
LearnedStep ==
    /\ part = "learned" /\ LRNext
    /\ UNCHANGED <<part, vars, fmVars, exVars, program, bound, events, running,
                   executed, LHvars>>
RecordsStep ==
    /\ part = "records" /\ RCNext
    /\ UNCHANGED <<part, vars, fmVars, exVars, program, bound, LHvars>>
LiveStep ==
    part = "live" /\ LHNext /\ UNCHANGED <<part, vars, fmVars, exVars, host>>

MCNext ==
    \/ StoreStep \/ MessagesStep \/ ExecutionStep \/ DatasetsStep
    \/ LearnedStep \/ RecordsStep \/ LiveStep

MCSpec == MCInit /\ [][MCNext]_<<part, vars, fmVars, exVars, host, LHvars>>

(* The variables of the other parts do not change. *)
MCView ==
    CASE part = "store" -> <<part, LiveState>>
      [] part = "messages" -> <<part, fmVars>>
      [] part = "execution" -> <<part, exVars>>
      [] part = "live" -> <<part, LHvars>>
      [] OTHER -> <<part, host>>

=============================================================================
