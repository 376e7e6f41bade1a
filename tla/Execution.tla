----------------------------- MODULE Execution -----------------------------
(***************************************************************************)
(* Authorized webhooks of the Lana runtime: execute in                     *)
(* runtime/rust/lana-runtime/src/execution.rs, on the abstract store that  *)
(* module Store is proved to implement.                                    *)
(*                                                                         *)
(* execute commits a Pending receipt, makes one POST and commits what came *)
(* of it.  The store's handle may be lost at any step: a commit fails, is  *)
(* rolled back or stays uncertain, and execute then closes the store; or   *)
(* the process dies.  A version is what the store holds of the receipts,   *)
(* one per execution identity (capability and plan digest).  The program   *)
(* may stage and commit other keys; that it leaves the receipts' keys      *)
(* alone is assumed.  Authority is checked before anything else and        *)
(* changes nothing: only authorized calls appear.                          *)
(***************************************************************************)
EXTENDS Naturals, Sequences

CONSTANTS Plans,       \* execution identities
          MaxCommits, \* bound on the store's revisions
          MaxPosts     \* bound on the posts of one plan

Settled == {"Succeeded", "Failed", "Unknown"}
Receipts == [Plans -> {"none", "Pending"} \cup Settled]
NoReceipts == [p \in Plans |-> "none"]

VARIABLES
    attached, commits, view, unsure, \* the store: RevisionedStore
    changed, \* the program has something staged
    pc,      \* "idle", "sending" or "recording"
    plan, status, \* of the execution under way
    posts,   \* observer: the posts made for each plan
    remote   \* observer: what the receiver made of them

kept == <<attached, commits, view, unsure>>
execution == <<pc, plan, status>>
outside == <<posts, remote>>
exVars == <<kept, changed, execution, outside>>

Registry == INSTANCE RevisionedStore WITH
    Versions <- Receipts, Initially <- NoReceipts,
    available <- attached, published <- commits, shown <- view, unsettled <- unsure

EXInit ==
    /\ Registry!AbsInit
    /\ changed = FALSE
    /\ pc = "idle" /\ plan \in Plans /\ status = "Unknown"
    /\ posts = [p \in Plans |-> 0]
    /\ remote = [p \in Plans |-> "untouched"]

RoomToCommit == Len(commits) < MaxCommits

(* The handle is gone, and with it the call under way. *)
HandleGone(doubt) ==
    /\ view' = view /\ Registry!DetachInDoubt(doubt)
    /\ changed' = FALSE
    /\ pc' = "idle"
    /\ UNCHANGED <<plan, status, outside>>

-----------------------------------------------------------------------------
(* The program around it. *)

ReopenStore ==
    /\ Registry!Attach
    /\ UNCHANGED <<changed, execution, outside>>

StageOther ==
    /\ attached /\ pc = "idle" /\ ~changed
    /\ changed' = TRUE
    /\ UNCHANGED <<kept, execution, outside>>

CommitStaged ==
    /\ attached /\ pc = "idle" /\ changed /\ RoomToCommit
    /\ Registry!PublishVersion(view)
    /\ changed' = FALSE
    /\ UNCHANGED <<execution, outside>>

(* Rolled back, it changes nothing here; uncertain, it loses the handle. *)
CommitStagedUncertain ==
    /\ attached /\ pc = "idle" /\ changed /\ RoomToCommit
    /\ HandleGone({view})

(* The process dies, at whatever step, or closes the store. *)
ProcessDies == HandleGone({})

-----------------------------------------------------------------------------
(* execute. *)

(* Wrong on purpose: what did not succeed may be tried again. *)
BrokenNew(p) == view[p] # "Succeeded"
New(p) == view[p] = "none"
Admitted(p) == attached /\ ~changed /\ pc = "idle" /\ New(p) /\ RoomToCommit

(* Wrong on purpose: posts on a receipt that is not in the store. *)
BrokenPending(p) == view
Pending(p) == [view EXCEPT ![p] = "Pending"]

CommitPending(p) ==
    /\ Admitted(p)
    /\ Registry!PublishVersion(Pending(p))
    /\ pc' = "sending" /\ plan' = p
    /\ UNCHANGED <<changed, status, outside>>

(* Nothing is sent; the commit is rolled back or uncertain. *)
PendingFails(p) ==
    /\ Admitted(p)
    /\ HandleGone({}) \/ HandleGone({Pending(p)})

Reported(answer) ==
    CASE answer = "2xx" -> "Succeeded"
      [] answer = "other" -> "Failed"
      [] answer = "none" -> "Unknown"

(* The receiver acts or not, and its answer comes back or not. *)
Post ==
    /\ pc = "sending" /\ posts[plan] < MaxPosts
    /\ posts' = [posts EXCEPT ![plan] = @ + 1]
    /\ \E answer \in {"2xx", "other", "none"} :
         /\ status' = Reported(answer)
         /\ \E e \in CASE answer = "2xx" -> {"accepted"}
                       [] answer = "other" -> {"refused"}
                       [] answer = "none" -> {"untouched", "accepted", "refused"} :
              remote' = [remote EXCEPT ![plan] = e]
    /\ pc' = "recording"
    /\ UNCHANGED <<kept, changed, plan>>

Outcome == [view EXCEPT ![plan] = status]

CommitOutcome ==
    /\ pc = "recording" /\ RoomToCommit
    /\ Registry!PublishVersion(Outcome)
    /\ pc' = "idle"
    /\ UNCHANGED <<changed, plan, status, outside>>

OutcomeFails ==
    /\ pc = "recording" /\ RoomToCommit
    /\ HandleGone({}) \/ HandleGone({Outcome})

-----------------------------------------------------------------------------
EXNext ==
    \/ ReopenStore \/ StageOther \/ CommitStaged \/ CommitStagedUncertain \/ ProcessDies
    \/ \E p \in Plans : CommitPending(p) \/ PendingFails(p)
    \/ Post \/ CommitOutcome \/ OutcomeFails

EXSpec == EXInit /\ [][EXNext]_exVars

-----------------------------------------------------------------------------
(* Properties. *)

EXTypeOK ==
    /\ attached \in BOOLEAN /\ commits \in Seq(Receipts)
    /\ view \in Receipts /\ unsure \subseteq Receipts
    /\ changed \in BOOLEAN
    /\ pc \in {"idle", "sending", "recording"}
    /\ plan \in Plans /\ status \in Settled
    /\ posts \in [Plans -> Nat]
    /\ remote \in [Plans -> {"untouched", "accepted", "refused"}]

(* One execution identity is posted at most once, over all the process     *)
(* deaths, failed and uncertain commits and reopened stores there are      *)
(* (execute: "at most one transport attempt for a committed plan").        *)
AtMostOnce == \A p \in Plans : posts[p] <= 1

(* What the store holds is never more than what happened, nor does it      *)
(* forget that a post was made: a plan without a receipt was not posted, a *)
(* receipt Succeeded or Failed is the receiver's word (execute, "must be   *)
(* reopened and reconciled by execution ID before any retry").             *)
ReceiptsTruthful ==
    LET held == Registry!Latest(commits)
    IN  \A p \in Plans :
            /\ held[p] = "none" => posts[p] = 0
            /\ held[p] = "Succeeded" => remote[p] = "accepted"
            /\ held[p] = "Failed" => remote[p] = "refused"

(* A receipt goes from none to Pending to one outcome and then never       *)
(* changes, also when an outcome that was in doubt turns up on reopening.  *)
ReceiptsSettle ==
    [][\A p \in Plans :
          LET before == Registry!Latest(commits)[p]
              after == Registry!Latest(commits')[p]
          IN  \/ after = before
              \/ before = "none" /\ after = "Pending"
              \/ before = "Pending" /\ after \in Settled]_exVars
=============================================================================
