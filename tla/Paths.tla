------------------------------- MODULE Paths -------------------------------
(* A branch on a Boolean that is not known: the compiler splits the path,   *)
(* the VM runs one side, then the other from a copy of the frames, and      *)
(* joins what they left in the registers.  A program has one variable in    *)
(* each frame, may call one function, and is compiled before it is run.     *)
EXTENDS Naturals, Sequences

CONSTANTS
    Conditions, \* the Booleans a branch is on, held in registers
    PathLimit,  \* Vm::path_limit
    MayReturn   \* whether a branch may return from its function

VARIABLES
    program,  \* the statements of the program and of its function
    input,    \* what is known of each condition: "true", "false" or "either"
    chunk,    \* the code, and where the function starts in it
    frames,   \* Vm::frames: the variable, and where to go on in the caller
    ip,
    pending,  \* Vm::path_execution
    count,    \* Vm::active_path_count
    status,   \* "running", "ended", or "refused" with an error
    result,
    printed   \* what was printed

PAvars == <<program, input, chunk, frames, ip, pending, count, status, result, printed>>

-----------------------------------------------------------------------------
(* Statements, and what they mean.                                          *)

Set(n) == [kind |-> "set", value |-> n]
Show == [kind |-> "print"]
Call == [kind |-> "call"]
Return == [kind |-> "return"]
If(c, yes, no) == [kind |-> "if", on |-> c, yes |-> yes, no |-> no]

Plain == {Set(1), Call} \cup (IF MayReturn THEN {Return} ELSE {})
Short == {<<>>} \cup {<<s>> : s \in Plain}
Branches == {If(c, yes, no) : c \in Conditions, yes, no \in Short}
Nested == {If(c, <<inner>>, <<Set(2)>>) : c \in Conditions, inner \in Branches}
Bodies == {<<Set(3)>>, <<Show>>} \cup
          {<<If(c, <<Set(4)>> \o s, <<Set(5)>>)>> : c \in Conditions, s \in {t \in Short : MayReturn}}
          \cup {<<If(c, <<Set(4)>>, <<Set(5)>>)>> : c \in Conditions}
Programs ==
    {[main |-> <<s>> \o t, function |-> f] :
        s \in Branches \cup Nested, t \in {<<>>, <<Call>>, <<Show>>} \cup {<<b>> : b \in Branches},
        f \in Bodies}

NotReturned == <<"number", 0>>

(* What a run does where every condition is known: the variable, whether it *)
(* has returned, and what it printed.                                       *)
RECURSIVE Means(_, _, _, _)
Means(block, from, known, function) ==
    IF block = <<>> \/ from.returned THEN from
    ELSE LET s == Head(block)
             called == Means(function, [variable |-> <<"number", 0>>, returned |-> FALSE,
                                        prints |-> from.prints], known, <<>>)
             next == CASE s.kind = "set" -> [from EXCEPT !.variable = <<"number", s.value>>]
                       [] s.kind = "print" -> [from EXCEPT !.prints = @ + 1]
                       [] s.kind = "return" -> [from EXCEPT !.returned = TRUE]
                       [] s.kind = "call" -> [from EXCEPT !.variable = called.variable,
                                                          !.prints = called.prints]
                       [] s.kind = "if" -> Means(IF known[s.on] THEN s.yes ELSE s.no,
                                                 from, known, function)
         IN  Means(Tail(block), next, known, function)

Start == [variable |-> <<"number", 0>>, returned |-> FALSE, prints |-> 0]

(* What each condition may be.                                              *)
Worlds == {w \in [Conditions -> BOOLEAN] :
    \A c \in Conditions : input[c] = "either" \/ (input[c] = "true") = w[c]}
Meant(world) == Means(program.main, Start, world, program.function)

-----------------------------------------------------------------------------
(* The compiler.                                                            *)

Instruction(op, on, to) == [op |-> op, on |-> on, to |-> to]

(* emit_if and emit_statements, of a block that starts at an address.       *)
RECURSIVE Emitted(_, _)
EmitIf(s, at) ==
    LET yes == Emitted(s.yes, at + 1)
        otherwise == at + Len(yes) + 2
        no == Emitted(s.no, otherwise)
        end == otherwise + Len(no)
    IN  <<Instruction("PATH_SPLIT", s.on, otherwise)>> \o yes
        \o <<Instruction("JUMP", "", end)>> \o no \o <<Instruction("PATH_JOIN", "", 0)>>
EmitStatement(s, at) ==
    CASE s.kind = "if" -> EmitIf(s, at)
      [] s.kind = "set" -> <<Instruction("LOAD_CONST", "", s.value)>>
      [] s.kind = "print" -> <<Instruction("PRINT", "", 0)>>
      [] s.kind = "call" -> <<Instruction("CALL", "", 0)>>
      [] s.kind = "return" -> <<Instruction("RETURN", "", 0)>>
Emitted(block, at) ==
    IF block = <<>> THEN <<>>
    ELSE LET first == EmitStatement(Head(block), at)
         IN  first \o Emitted(Tail(block), at + Len(first))

Compiled(p) ==
    LET main == Emitted(p.main, 1) \o <<Instruction("RETURN", "", 0)>>
        entry == Len(main) + 1
    IN  [code |-> main \o Emitted(p.function, entry) \o <<Instruction("RETURN", "", 0)>>,
         entry |-> entry]

-----------------------------------------------------------------------------
(* The VM.                                                                  *)

Frame(back) == [variable |-> <<"number", 0>>, back |-> back]

PAInit ==
    /\ program \in Programs
    /\ input \in [Conditions -> {"true", "false", "either"}]
    /\ chunk = Compiled(program)
    /\ frames = <<Frame(0)>> /\ ip = 1
    /\ pending = <<>> /\ count = 1
    /\ status = "running" /\ result = NotReturned /\ printed = 0

Top == Len(frames)
At(op) == status = "running" /\ chunk.code[ip].op = op
Operand == chunk.code[ip].to
Fixed == UNCHANGED <<program, input, chunk>>
Refused ==
    /\ status' = "refused"
    /\ UNCHANGED <<frames, ip, pending, count, result, printed>>

LoadConst ==
    /\ At("LOAD_CONST") /\ ip' = ip + 1
    /\ frames' = [frames EXCEPT ![Top].variable = <<"number", Operand>>]
    /\ UNCHANGED <<pending, count, status, result, printed>> /\ Fixed

Jump ==
    /\ At("JUMP") /\ ip' = Operand
    /\ UNCHANGED <<frames, pending, count, status, result, printed>> /\ Fixed

CallFunction ==
    /\ At("CALL") /\ ip' = chunk.entry
    /\ frames' = Append(frames, Frame(ip + 1))
    /\ Len(frames) = 1 \* the function of these programs calls nothing
    /\ UNCHANGED <<pending, count, status, result, printed>> /\ Fixed

(* The entry frame's return ends the run, whatever is pending.              *)
ReturnFrom ==
    /\ At("RETURN")
    /\ IF Top = 1
       THEN /\ status' = "ended" /\ result' = frames[1].variable
            /\ UNCHANGED <<frames, ip>>
       ELSE /\ ip' = frames[Top].back
            /\ frames' = <<[frames[1] EXCEPT !.variable = frames[Top].variable]>>
            /\ UNCHANGED <<status, result>>
    /\ UNCHANGED <<pending, count, printed>> /\ Fixed

(* PRINT, as every instruction with an effect, is refused while split.      *)
Effects == count = 1

PrintLine ==
    /\ At("PRINT")
    /\ IF Effects
       THEN /\ printed' = printed + 1 /\ ip' = ip + 1
            /\ UNCHANGED <<frames, pending, count, status, result>>
       ELSE Refused
    /\ Fixed

Definite == [split |-> FALSE]

(* Wrong on purpose: a condition that is known needs no entry.              *)
BrokenKnown(execution) == pending

Known(execution) == Append(pending, execution)

PathSplit ==
    /\ At("PATH_SPLIT")
    /\ LET known == input[chunk.code[ip].on]
       IN  CASE known # "either" ->
                  /\ ip' = IF known = "true" THEN ip + 1 ELSE Operand
                  /\ pending' = Known(Definite)
                  /\ UNCHANGED <<frames, count, status, result, printed>>
             [] known = "either" /\ count > PathLimit \div 2 -> Refused
             [] OTHER ->
                  /\ pending' = Append(pending,
                        [split |-> TRUE, on |-> chunk.code[ip].on, no |-> frames,
                         address |-> Operand, running |-> "true", yes |-> <<>>,
                         previous |-> count])
                  /\ count' = count * 2 /\ ip' = ip + 1
                  /\ UNCHANGED <<frames, status, result, printed>>
    /\ Fixed

(* What the sides left in a register, guarded where it differs.             *)
Joined(c, yes, no) == IF yes = no THEN yes ELSE <<"paths", c, yes, no>>

Merged(e) ==
    [i \in 1 .. Top |-> [frames[i] EXCEPT !.variable = Joined(e.on, e.yes[i].variable, @)]]

PathJoin ==
    /\ At("PATH_JOIN")
    /\ IF pending = <<>> \/ ~pending[Len(pending)].split
       THEN /\ pending' = SubSeq(pending, 1, Len(pending) - 1)
            /\ ip' = ip + 1
            /\ UNCHANGED <<frames, count, status, result, printed>>
       ELSE LET e == pending[Len(pending)]
            IN  CASE e.running = "true" ->
                       /\ frames' = e.no /\ ip' = e.address
                       /\ pending' = [pending EXCEPT ![Len(pending)].running = "false",
                                                     ![Len(pending)].yes = frames]
                       /\ UNCHANGED <<count, status, result, printed>>
                  [] e.running = "false" /\ (Top # Len(e.no) \/ Top > Len(e.yes)) -> Refused
                  [] OTHER ->
                       /\ frames' = Merged(e) /\ count' = e.previous /\ ip' = ip + 1
                       /\ pending' = SubSeq(pending, 1, Len(pending) - 1)
                       /\ UNCHANGED <<status, result, printed>>
    /\ Fixed

PANext == LoadConst \/ Jump \/ CallFunction \/ ReturnFrom \/ PrintLine \/ PathSplit \/ PathJoin

PASpec == PAInit /\ [][PANext]_PAvars

-----------------------------------------------------------------------------
(* Properties.                                                              *)

RECURSIVE In(_, _)
In(value, world) ==
    IF value[1] = "number" THEN value
    ELSE In(value[IF world[value[2]] THEN 3 ELSE 4], world)

(* A run that ends returns, for every way the unknown conditions may turn   *)
(* out, what the program returns where they are known to be so: PATH_SPLIT  *)
(* runs both sides and PATH_JOIN keeps each under its guard, over nested    *)
(* branches, calls, and conditions that were known or used before.  And it  *)
(* prints what the program prints there: once, for all sides, never on one  *)
(* side of a split or again when the other is run.                          *)
PathsFaithful ==
    status = "ended" => \A w \in Worlds :
        In(result, w) = Meant(w).variable /\ printed = Meant(w).prints
=============================================================================
