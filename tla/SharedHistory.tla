--------------------------- MODULE SharedHistory ---------------------------
(***************************************************************************)
(* What Shared Information promises: one history of evidence, at most one  *)
(* piece per effective time.  Accepting evidence is one step, which makes  *)
(* a new revision, and every read answers with all that was accepted by    *)
(* then, up to the time it asks for and in the order of the times.         *)
(***************************************************************************)
EXTENDS Naturals, Sequences, Functions

CONSTANTS Times, Evidence

VARIABLES history,  \* the accepted evidence, [time, evidence]
          revision,
          answer    \* what the last read answered

vars == <<history, revision, answer>>

Orders(s, S) ==
    /\ Range(s) = S
    /\ \A i, j \in DOMAIN s : i < j => s[i].time < s[j].time

Init == history = {} /\ revision = 0 /\ answer = <<>>

(* Evidence is accepted that does not contradict what is there. *)
Accept(x) ==
    /\ \A y \in history : y.time # x.time
    /\ history' = history \cup {x}
    /\ revision' > revision
    /\ UNCHANGED answer

Read ==
    /\ \/ Orders(answer', history)
       \/ \E t \in Times : Orders(answer', {x \in history : x.time <= t})
    /\ UNCHANGED <<history, revision>>

Next ==
    \/ \E x \in [time : Times, evidence : Evidence] : Accept(x)
    \/ Read

Spec == Init /\ [][Next]_vars
=============================================================================
