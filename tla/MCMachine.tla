----------------------------- MODULE MCMachine -----------------------------
(* Parts of the VM on small instances, side by side: SharedInformation,    *)
(* Collector, Reactive and EventLoop.  part, chosen at the start, says     *)
(* which of them runs; the variables of the others keep their initial      *)
(* values.                                                                 *)
EXTENDS SharedInformation, Collector, Reactive, EventLoop, TLC

MCGranted == <<"read", "observe">>

VARIABLE part

Interchangeable == Permutations(VMs) \cup Permutations(Evidence)

MCInit ==
    /\ part \in {"shared", "collector", "reactive", "eventloop"}
    /\ Init /\ GCInit /\ RXInit /\ ELInit

SharedStep ==
    part = "shared" /\ Next /\ UNCHANGED <<part, gcVars, RXvars, ELvars>>
CollectorStep ==
    /\ part = "collector" /\ GCNext /\ Bounded'
    /\ UNCHANGED <<part, vars, RXvars, ELvars>>
ReactiveStep ==
    part = "reactive" /\ RXNext /\ UNCHANGED <<part, vars, gcVars, ELvars>>
EventLoopStep ==
    part = "eventloop" /\ ELNext /\ UNCHANGED <<part, vars, gcVars, RXvars>>

MCNext == SharedStep \/ CollectorStep \/ ReactiveStep \/ EventLoopStep

MCSpec == MCInit /\ [][MCNext]_<<part, vars, gcVars, RXvars, ELvars>>

=============================================================================
