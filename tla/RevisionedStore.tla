-------------------------- MODULE RevisionedStore --------------------------
(***************************************************************************)
(* What the Lana store promises its callers, without a disk.               *)
(*                                                                         *)
(* A store is a growing list of published versions.  While a handle is     *)
(* open it shows the last one.  A commit publishes the next version, or    *)
(* fails and leaves the store as it was, or fails with an uncertain        *)
(* outcome: then the handle is gone and the version stays in doubt until   *)
(* a fresh open, which settles once and for all whether it was published.  *)
(* A handle may be lost at any moment.  Nothing ever removes or changes a  *)
(* published version.                                                      *)
(***************************************************************************)
EXTENDS Naturals, Sequences

CONSTANTS Versions,  \* what one version can hold
          Initially  \* what a store that was never written holds

VARIABLES available, \* a handle is open
          published, \* the versions published so far, oldest first
          shown,     \* what the open handle shows
          unsettled  \* versions whose publication is in doubt

absVars == <<available, published, shown, unsettled>>

Latest(vs) == IF vs = <<>> THEN Initially ELSE vs[Len(vs)]

AbsInit ==
    /\ available = FALSE
    /\ published = <<>>
    /\ shown = Initially
    /\ unsettled = {}

(* The only way to see anything: the handle shows the latest version, and  *)
(* a version in doubt is settled before the handle is handed out.          *)
Attach ==
    /\ ~available
    /\ available' = TRUE
    /\ \/ published' = published
       \/ \E v \in unsettled : published' = Append(published, v)
    /\ shown' = Latest(published')
    /\ unsettled' = {}

PublishVersion(v) ==
    /\ available
    /\ published' = Append(published, v)
    /\ shown' = v
    /\ UNCHANGED <<available, unsettled>>

Publish == \E v \in Versions : PublishVersion(v)

(* The handle is lost: closed, crashed, or failed with an uncertain        *)
(* outcome that leaves at most one version in doubt.  What a handle that   *)
(* is gone last showed is of no interest.                                  *)
DetachInDoubt(vs) ==
    /\ available
    /\ available' = FALSE
    /\ published' = published
    /\ shown' \in Versions
    /\ unsettled' = vs

Detach == DetachInDoubt({}) \/ \E v \in Versions : DetachInDoubt({v})

AbsNext == Attach \/ Publish \/ Detach

AbsSpec == AbsInit /\ [][AbsNext]_absVars
=============================================================================
