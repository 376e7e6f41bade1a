----------------------------- MODULE EventLoop -----------------------------
(* The event loop of one VM: async functions make futures whose frames are  *)
(* pushed when the loop comes to them and popped when they wait; race and   *)
(* all make composite futures, which are polled. A body is the list of the  *)
(* futures it waits for, or runs with a loop of its own (run_async).        *)
EXTENDS Naturals, Sequences, SequencesExt, FiniteSets

CONSTANTS
    Asyncs,       \* futures of async functions
    Composites,   \* others, made by future_race, future_all and sleep
    Steps,        \* kinds of steps in a body: "await", "run"
    MaxSteps,     \* bound on the steps of a body
    MaxFrames,    \* LANA_MAX_CALL_FRAMES
    MaxWaits,     \* bound on the entries of an awaiters list
    MaxRuns       \* bound on what the main program does

ASSUME LoopConstants ==
    IsFiniteSet(Asyncs \cup Composites) /\ Asyncs \cap Composites = {}

VARIABLES
    bodies,     \* the program: the steps of each async function
    combined,   \* kind and inputs of a composite, "none" before it is made
    ready,      \* ready_futures, each future at most once
    exhausted,  \* futures that are complete, in the order they became so
    saved,      \* the step a future goes on with
    awaiters,   \* who is woken by a future
    result,     \* the places of the inputs whose results a composite took
    frames,     \* frames and loops, a loop above the frame that runs it
    runs        \* what the main program has done so far

ELvars == <<bodies, combined, ready, exhausted, saved, awaiters, result, frames, runs>>

Futures == Asyncs \cup Composites
Exists(f) == f \in Asyncs \/ (f \in Composites /\ combined[f].kind # "none")
Done(f) == \E i \in 1..Len(exhausted) : exhausted[i] = f

ELInit ==
    /\ bodies = [f \in Asyncs |-> <<>>]
    /\ combined = [c \in Composites |-> [kind |-> "none", inputs |-> <<>>]]
    /\ ready = <<>> /\ exhausted = <<>>
    /\ saved = [f \in Futures |-> 1]
    /\ awaiters = [f \in Futures |-> <<>>]
    /\ result = [c \in Composites |-> {}]
    /\ frames = <<>> /\ runs = 0

Bodies == UNION {[1..n -> Steps \X Futures] : n \in 0..MaxSteps}

(* Any program.                                                             *)
Load ==
    /\ runs = 0
    /\ bodies' \in [Asyncs -> Bodies]
    /\ runs' = 1
    /\ UNCHANGED <<combined, ready, exhausted, saved, awaiters, result, frames>>

(* enqueue_future, for the futures of a list in turn.                       *)
Enqueued(queue, list, done) ==
    LET after[i \in 0..Len(list)] ==
            IF i = 0 THEN queue
            ELSE IF list[i] \in done \/ Contains(after[i - 1], list[i]) THEN after[i - 1]
            ELSE Append(after[i - 1], list[i])
    IN  after[Len(list)]

DoneNow == ToSet(exhausted)

-----------------------------------------------------------------------------
(* The main program.                                                        *)

Main == frames = <<>> /\ runs \in 1..MaxRuns

PlacesOf(inputs, f) == {i \in DOMAIN inputs : inputs[i] = f}

(* future_race, future_all, and sleep, which has no inputs.                 *)
Combine(c, kind, inputs) ==
    /\ Main /\ runs' = runs + 1
    /\ ~Exists(c) /\ \A f \in ToSet(inputs) : Exists(f)
    /\ combined' = [combined EXCEPT ![c] = [kind |-> kind, inputs |-> inputs]]
    /\ awaiters' = [f \in Futures |->
                        awaiters[f] \o [i \in 1..Cardinality(PlacesOf(inputs, f)) |-> c]]
    /\ ready' = Enqueued(ready, Append(inputs, c), DoneNow)
    /\ UNCHANGED <<bodies, exhausted, saved, result, frames>>

Loop(f) == [loop |-> TRUE, of |-> f, at |-> 0]
Frame(f) == [loop |-> FALSE, of |-> f, at |-> saved[f]]

Run(f) ==
    /\ Main /\ runs' = runs + 1
    /\ Exists(f)
    /\ ready' = Enqueued(ready, <<f>>, DoneNow)
    /\ frames' = <<Loop(f)>>
    /\ UNCHANGED <<bodies, combined, exhausted, saved, awaiters, result>>

-----------------------------------------------------------------------------
(* A frame.                                                                 *)

Running == frames # <<>> /\ ~Last(frames).loop
Self == Last(frames).of
Ip == Last(frames).at
Step == bodies[Self][Ip]

(* To the next step of the frame on top.                                    *)
Onward(stack) == [stack EXCEPT ![Len(stack)].at = @ + 1]

AwaitDone ==
    /\ Running /\ Ip <= Len(bodies[Self])
    /\ Step[1] = "await" /\ Done(Step[2])
    /\ frames' = Onward(frames)
    /\ UNCHANGED <<bodies, combined, ready, exhausted, saved, awaiters, result, runs>>

(* The instruction is done again when the future is resumed, and registers  *)
(* again: two futures that wait for each other do so without end.           *)
Await ==
    /\ Running /\ Ip <= Len(bodies[Self])
    /\ Step[1] = "await" /\ Exists(Step[2]) /\ ~Done(Step[2])
    /\ Len(awaiters[Step[2]]) < MaxWaits
    /\ saved' = [saved EXCEPT ![Self] = Ip]
    /\ awaiters' = [awaiters EXCEPT ![Step[2]] = Append(@, Self)]
    /\ ready' = Enqueued(ready, <<Step[2]>>, DoneNow)
    /\ frames' = Front(frames)
    /\ UNCHANGED <<bodies, combined, exhausted, result, runs>>

RunNested ==
    /\ Running /\ Ip <= Len(bodies[Self])
    /\ Step[1] = "run" /\ Exists(Step[2])
    /\ Len(frames) < MaxFrames
    /\ ready' = Enqueued(ready, <<Step[2]>>, DoneNow)
    /\ frames' = Append(frames, Loop(Step[2]))
    /\ UNCHANGED <<bodies, combined, exhausted, saved, awaiters, result, runs>>

(* Wrong on purpose: only who waited first is woken.                        *)
BrokenAwakened(f) == IF awaiters[f] = <<>> THEN <<>> ELSE <<Head(awaiters[f])>>

Awakened(f) == awaiters[f]

Complete(f) ==
    /\ exhausted' = IF Done(f) THEN exhausted ELSE Append(exhausted, f)
    /\ ready' = Enqueued(ready, Awakened(f), DoneNow \cup {f})
    /\ awaiters' = [awaiters EXCEPT ![f] = <<>>]

Return ==
    /\ Running /\ Ip > Len(bodies[Self])
    /\ Complete(Self)
    /\ frames' = Front(frames)
    /\ UNCHANGED <<bodies, combined, saved, result, runs>>

-----------------------------------------------------------------------------
(* A loop.                                                                  *)

Looping == frames # <<>> /\ Last(frames).loop
Popped == Looping /\ ready # <<>>

Skip ==
    /\ Popped /\ Done(Head(ready))
    /\ ready' = Tail(ready)
    /\ UNCHANGED <<bodies, combined, exhausted, saved, awaiters, result, frames, runs>>

ResumeFuture ==
    /\ Popped /\ Head(ready) \in Asyncs /\ ~Done(Head(ready))
    /\ Len(frames) < MaxFrames
    /\ frames' = Append(frames, Frame(Head(ready)))
    /\ ready' = Tail(ready)
    /\ UNCHANGED <<bodies, combined, exhausted, saved, awaiters, result, runs>>

(* An all, or a sleep, is complete with the last of its inputs; a race with *)
(* any, and it takes the first complete one in the order of its inputs.     *)
InputsOf(c) == combined[c].inputs
DoneInputs(c) == {i \in DOMAIN InputsOf(c) : Done(InputsOf(c)[i])}

PollDone(c) ==
    IF combined[c].kind = "race" THEN DoneInputs(c) # {} ELSE DoneInputs(c) = DOMAIN InputsOf(c)

Takes(c) ==
    IF combined[c].kind = "race" THEN {i \in DoneInputs(c) : \A j \in DoneInputs(c) : i <= j}
    ELSE DoneInputs(c)

Poll ==
    /\ Popped /\ Head(ready) \in Composites /\ ~Done(Head(ready))
    /\ LET c == Head(ready)
       IN  IF PollDone(c)
           THEN /\ exhausted' = Append(exhausted, c)
                /\ ready' = Enqueued(Tail(ready), Awakened(c), DoneNow \cup {c})
                /\ awaiters' = [awaiters EXCEPT ![c] = <<>>]
                /\ result' = [result EXCEPT ![c] = Takes(c)]
           ELSE /\ ready' = Tail(ready)
                /\ UNCHANGED <<exhausted, awaiters, result>>
    /\ UNCHANGED <<bodies, combined, saved, frames, runs>>

(* Nothing is ready: run_async returns to its frame, with what is in the    *)
(* future's first register.                                                 *)
EndLoop ==
    /\ Looping /\ ready = <<>>
    /\ frames' = IF Len(frames) = 1 THEN <<>> ELSE Onward(Front(frames))
    /\ UNCHANGED <<bodies, combined, ready, exhausted, saved, awaiters, result, runs>>

ELNext ==
    \/ Load
    \/ \E c \in Composites, kind \in {"race", "all"}, a, b \in Futures : Combine(c, kind, <<a, b>>)
    \/ \E c \in Composites : Combine(c, "sleep", <<>>)
    \/ \E f \in Futures : Run(f)
    \/ AwaitDone \/ Await \/ RunNested \/ Return
    \/ Skip \/ ResumeFuture \/ Poll \/ EndLoop

ELSpec == ELInit /\ [][ELNext]_ELvars

-----------------------------------------------------------------------------
(* Properties.                                                              *)

(* What a future waits for, directly or through others, and whether it must *)
(* go on waiting.                                                           *)
WaitsFor(f) ==
    IF f \in Composites THEN ToSet(combined[f].inputs)
    ELSE {bodies[f][i][2] : i \in {saved[f]} \cap DOMAIN bodies[f]}

Behind(f) ==
    LET grow[i \in 0..Cardinality(Futures)] ==
            IF i = 0 THEN {f} ELSE grow[i - 1] \cup UNION {WaitsFor(g) : g \in grow[i - 1]}
    IN  grow[Cardinality(Futures)]

Entered(f) == \E i \in 1..Len(frames) : ~frames[i].loop /\ frames[i].of = f

Blocked(f) ==
    \/ Entered(f)
    \/ IF f \in Composites THEN ~PollDone(f) ELSE \E g \in WaitsFor(f) : ~Done(g)

(* run_async comes back with a future that is complete, unless it waits for *)
(* itself: of all that a body waits for, alone or through a race or an all, *)
(* and of everyone who waits for one future, nobody whose wait is over is   *)
(* left asleep when nothing is ready, although the loop wakes a future by   *)
(* name, and once.                                                          *)
NobodyLeftAsleep ==
    Looping /\ ready = <<>> =>
        \A f \in Behind(Last(frames).of) : Done(f) \/ Blocked(f)
=============================================================================
