------------------------------ MODULE MCStore ------------------------------
(* Store on a small instance; keys are interchangeable. *)
EXTENDS Store, TLC

KeySymmetry == Permutations(Keys)

(* What a handle that is gone last held is read by nobody, and no action   *)
(* or property reads failure: states that differ only there are the same.  *)
LiveState ==
    <<open, IF open THEN <<index, staged, revisions, current, snapshot,
                           retention, offset>> ELSE <<>>, files, observers>>
=============================================================================
