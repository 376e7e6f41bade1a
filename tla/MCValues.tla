------------------------------ MODULE MCValues ------------------------------
(* The values of the VM on small instances, side by side: Paths, Training, *)
(* Possibilities, Joints and Tensors.  part, chosen at the start, says     *)
(* which of them runs; the variables of the others keep their initial      *)
(* values.                                                                 *)
EXTENDS Possibilities, Joints, Training, TLC

MCSupports == {<<Number(1), Number(2), Number(1)>>, <<Number(1), Number(2), Number(3)>>}
MCLaws == {<<1, 3>>, <<1, 2, 1>>}

VARIABLES
    part,
    program, input, chunk, frames, ip, pending, count, status, result, printed,
    tensors

paths == <<program, input, chunk, frames, ip, pending, count, status, result,
           printed>>

Interchangeable == Permutations(Points)

Buffer(shape, strides, offset, items) ==
    [shape |-> shape, strides |-> strides, offset |-> offset, data |-> items]

PA == INSTANCE Paths WITH
    Conditions <- {"p", "q"}, PathLimit <- 2, MayReturn <- FALSE

TS == INSTANCE Tensors WITH
    registers <- tensors, Prime <- 11, MaxOperations <- 2,
    Inputs <- {<<Buffer(<<2>>, <<2>>, 1, <<0, 1, 9, 5>>),
                 Buffer(<<2, 2>>, <<2, 1>>, 0, <<1, 0, 0, 1>>)>>,
               <<Buffer(<<2, 2>>, <<1, 2>>, 0, <<1, 10, 2, 0>>),
                 Buffer(<<1, 2>>, <<2, 1>>, 0, <<3, 2>>)>>,
               <<Buffer(<<1, 2>>, <<2, 1>>, 0, <<4, 7>>),
                 Buffer(<<2, 1, 1>>, <<1, 1, 1>>, 0, <<1, 10>>)>>},
    Shapes <- {<<4>>, <<1, 2>>},
    Positions <- {<<-1>>, <<1, 9>>}

MCTables ==
    {<<<<<<1>>, 3>>, <<<<0>>, 1>>>>,
     <<<<<<1, 0>>, 1>>, <<<<0, 0>>, 2>>, <<<<1, 0>>, 1>>>>,
     <<<<<<1, 0>>, 2>>, <<<<1, 1>>, 1>>, <<<<0, 1>>, 1>>>>}
MCMarginals == {<<<<0, 4>>>>, <<<<1, 3>>, <<0, 1>>>>}
MCShapes == {<<<<<<1, 0>>>>, <<1, 0>>>>, <<<<<<1, 0>>, <<0, 1>>>>, <<0, 1>>>>}
MCChance ==
    [tuple \in [1 .. 1 -> {0, 1}] \cup [1 .. 2 -> {0, 1}] |->
        LET no == CASE tuple = <<0>> -> 3
                    [] tuple = <<1>> -> 0
                    [] OTHER -> 2 * tuple[1] + tuple[2]
        IN  [x \in {0, 1} |-> IF x = 0 THEN no ELSE 4 - no]]

(* The programs that Paths runs are chosen in its turn only. *)
NoProgram ==
    /\ program = <<>> /\ input = <<>> /\ chunk = <<>> /\ frames = <<>> /\ ip = 1
    /\ pending = <<>> /\ count = 1 /\ status = "none" /\ result = 0 /\ printed = 0

MCInit ==
    /\ part \in {"paths", "training", "possibilities", "joints", "tensors"}
    /\ TRInit /\ PBInit /\ JTInit
    /\ IF part = "paths" THEN PA!PAInit ELSE NoProgram
    /\ IF part = "tensors" THEN TS!TNInit ELSE tensors = <<>>

PathsStep ==
    part = "paths" /\ PA!PANext /\ UNCHANGED <<part, TRvars, PBvars, JTvars, tensors>>
TrainingStep ==
    part = "training" /\ TRNext /\ UNCHANGED <<part, paths, PBvars, JTvars, tensors>>
PossibilitiesStep ==
    part = "possibilities" /\ PBNext /\ UNCHANGED <<part, paths, TRvars, JTvars, tensors>>
JointsStep ==
    part = "joints" /\ JTNext /\ UNCHANGED <<part, paths, TRvars, PBvars, tensors>>
TensorsStep ==
    part = "tensors" /\ TS!TNNext /\ UNCHANGED <<part, paths, TRvars, PBvars, JTvars>>

MCNext ==
    PathsStep \/ TrainingStep \/ PossibilitiesStep \/ JointsStep \/ TensorsStep

MCSpec == MCInit /\ [][MCNext]_<<part, paths, TRvars, PBvars, JTvars, tensors>>

-----------------------------------------------------------------------------
(* The properties of the modules, for these instances.  Those of           *)
(* Possibilities, Joints and Training are their own.                       *)

(* Paths!PathsFaithful: a program over unresolved Booleans ends with what  *)
(* its worlds end with (path_split, path_join).                            *)
PathsFaithful == part = "paths" => PA!PathsFaithful

(* Tensors!TensorsExact: every element of a tensor is the one its          *)
(* operations mean, whatever its layout (tensor.rs).                       *)
TensorsExact == part = "tensors" => TS!TensorsExact

(* Tensors!GradientsExact: the backward pass sums the derivatives over     *)
(* every path of the derivation (ad_backward).                             *)
GradientsExact == part = "tensors" => TS!GradientsExact
=============================================================================
