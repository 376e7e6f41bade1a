------------------------ MODULE MCSharedInformation ------------------------
(* Shared Information alone, on the small instance that shows what a       *)
(* cancelled VM publishes (MCSharedCancel.cfg); MCMachine and MCTasks      *)
(* check it beside other modules.                                          *)
EXTENDS SharedInformation

MCGranted == <<"read", "observe">>
=============================================================================
