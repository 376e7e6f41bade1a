--------------------------- MODULE FutureMessages ---------------------------
(***************************************************************************)
(* The durable inbox of the Lana runtime,                                  *)
(* runtime/rust/lana-runtime/src/future_messages.rs, on the abstract store *)
(* that module Store is proved to implement.                               *)
(*                                                                         *)
(* A message is one record under the key <status>/<id>; a transition puts  *)
(* the record under its new status and deletes the old key in one commit.  *)
(* check settles first which messages match, with the revision each        *)
(* receipt will name, then commits one transition after the other.  The    *)
(* store may fail at any of them: then it is closed, and what was          *)
(* committed stays.                                                        *)
(*                                                                         *)
(* Which messages match a context at a time is left open.  A version is    *)
(* the set of records the store holds; other keys are left out, their      *)
(* commits are not.                                                        *)
(***************************************************************************)
EXTENDS Naturals, Sequences, FiniteSets

CONSTANTS Ids,        \* of messages; they are ordered
          Specs,      \* payload, condition and provenance of a message
          MaxPending, \* MAX_PENDING: 1024 in the code
          MaxMessageRevisions \* bound on the store's revisions

ASSUME Bounds ==
    Ids \subseteq Nat /\ MaxPending \in Nat /\ MaxMessageRevisions \in Nat

Statuses == {"pending", "ready", "acknowledged", "cancelled"}
Receipt == [status : Statuses, revision : Nat]
Message == [id : Ids, status : Statuses, spec : Specs, receipts : Seq(Receipt)]

VARIABLES
    available, published, shown, unsettled, \* the store: RevisionedStore
    dirty,   \* the program has something staged
    prepared \* what the check under way has yet to commit

store == <<available, published, shown, unsettled>>
fmVars == <<store, dirty, prepared>>

Store == INSTANCE RevisionedStore WITH
    Versions <- SUBSET Message, Initially <- {}

FMInit == Store!AbsInit /\ dirty = FALSE /\ prepared = <<>>

-----------------------------------------------------------------------------
(* Records and keys. *)

Found(i) == {m \in shown : m.id = i}
WithStatus(s) == {m \in shown : m.status = s}
NextRevision == Len(published) + 1
Room == Len(published) < MaxMessageRevisions

(* changed: the new status, and a receipt that names the revision its      *)
(* commit is going to be.                                                  *)
Changed(m, s, revision) ==
    [id |-> m.id, status |-> s, spec |-> m.spec,
     receipts |-> Append(m.receipts, [status |-> s, revision |-> revision])]

(* commit: put the record under its new key, delete the old one. *)
(* Wrong on purpose: leaves the record under its old key. *)
BrokenMoved(old, new) == shown \cup {new}
Moved(old, new) == (shown \ old) \cup {new}

Ready == available /\ ~dirty /\ prepared = <<>> /\ Room

Commits(old, new) ==
    /\ Store!PublishVersion(Moved(old, new))
    /\ UNCHANGED dirty

(* The handle is gone, and with it the call under way.  A failed commit    *)
(* was rolled back or is in doubt; the inbox closes the store on both.     *)
Gone(doubt) ==
    /\ shown' = shown /\ Store!DetachInDoubt(doubt)
    /\ dirty' = FALSE /\ prepared' = <<>>

CommitFails(old, new) == Gone({}) \/ Gone({Moved(old, new)})

-----------------------------------------------------------------------------
(* The program around it. *)

Reopen == Store!Attach /\ UNCHANGED <<dirty, prepared>>

StageKey ==
    /\ available /\ ~dirty /\ prepared = <<>>
    /\ dirty' = TRUE
    /\ UNCHANGED <<store, prepared>>

CommitOther ==
    /\ available /\ dirty /\ Room
    /\ Store!PublishVersion(shown)
    /\ dirty' = FALSE
    /\ UNCHANGED prepared

(* Rolled back, it changes nothing here; uncertain, it loses the handle. *)
CommitOtherUncertain ==
    /\ available /\ dirty /\ Room
    /\ Gone({shown})

(* The process dies, between two commits of a check too. *)
Dies == Gone({})

-----------------------------------------------------------------------------
(* create: an id that is there already gets no second record. *)

Created(i, s) ==
    Changed([id |-> i, status |-> "pending", spec |-> s, receipts |-> <<>>],
            "pending", NextRevision)

(* Wrong on purpose: looks among the pending messages only. *)
BrokenUnused(i) == \A m \in WithStatus("pending") : m.id # i
Unused(i) == Found(i) = {}

BelowLimit == Cardinality(WithStatus("pending")) < MaxPending

Creates(i) == Ready /\ Unused(i) /\ BelowLimit

Create(i, s) ==
    /\ Creates(i)
    /\ Commits({}, Created(i, s))
    /\ UNCHANGED prepared

CreateFails(i, s) == Creates(i) /\ CommitFails({}, Created(i, s))

-----------------------------------------------------------------------------
(* check: matching messages are released in the order of their ids. *)

Sorted(matching) ==
    \A j, k \in DOMAIN matching : j < k => matching[j].id < matching[k].id

(* Wrong on purpose: every receipt names the first revision. *)
BrokenReceiptRevision(k) == NextRevision
ReceiptRevision(k) == NextRevision + k - 1

Check(matching) ==
    /\ Ready /\ Sorted(matching)
    /\ prepared' =
          [k \in DOMAIN matching |->
              [old |-> matching[k],
               new |-> Changed(matching[k], "ready", ReceiptRevision(k))]]
    /\ UNCHANGED <<store, dirty>>

Release ==
    /\ available /\ prepared # <<>> /\ Room
    /\ Commits({Head(prepared).old}, Head(prepared).new)
    /\ prepared' = Tail(prepared)

ReleaseFails ==
    /\ available /\ prepared # <<>> /\ Room
    /\ CommitFails({Head(prepared).old}, Head(prepared).new)

-----------------------------------------------------------------------------
(* acknowledge and cancel. *)

(* Wrong on purpose: takes back an acknowledgment. *)
BrokenAllowed(m, target) ==
    m.status # target /\ (target = "cancelled" \/ m.status = "ready")
Allowed(m, target) ==
    /\ m.status \in {"pending", "ready"}
    /\ target = "acknowledged" => m.status = "ready"

Transition(m, target) ==
    /\ Ready /\ Allowed(m, target)
    /\ Commits({m}, Changed(m, target, NextRevision))
    /\ UNCHANGED prepared

TransitionFails(m, target) ==
    /\ Ready /\ Allowed(m, target)
    /\ CommitFails({m}, Changed(m, target, NextRevision))

Acknowledge(m) == Transition(m, "acknowledged") \/ TransitionFails(m, "acknowledged")
Cancel(m) == Transition(m, "cancelled") \/ TransitionFails(m, "cancelled")

-----------------------------------------------------------------------------
FMNext ==
    \/ Reopen \/ StageKey \/ CommitOther \/ CommitOtherUncertain \/ Dies
    \/ \E i \in Ids, s \in Specs : Create(i, s) \/ CreateFails(i, s)
    \/ \E n \in 1 .. MaxPending : \E matching \in [1 .. n -> WithStatus("pending")] :
          Check(matching)
    \/ Release \/ ReleaseFails
    \/ \E m \in shown : Acknowledge(m) \/ Cancel(m)

FMSpec == FMInit /\ [][FMNext]_fmVars

-----------------------------------------------------------------------------
(* Properties. *)

IsVersion(v) ==
    \A m \in v :
        /\ m.id \in Ids /\ m.status \in Statuses /\ m.spec \in Specs
        /\ m.receipts \in Seq(Receipt)

FMTypeOK ==
    /\ available \in BOOLEAN /\ dirty \in BOOLEAN
    /\ \A r \in DOMAIN published : IsVersion(published[r])
    /\ IsVersion(shown) /\ \A v \in unsettled : IsVersion(v)
    /\ \A k \in DOMAIN prepared : IsVersion({prepared[k].old, prepared[k].new})
    /\ Cardinality(WithStatus("pending")) <= MaxPending

(* In every revision an id has one record: no crash or failed commit       *)
(* leaves a message under two statuses, which find would report as         *)
(* corruption (find, commit).                                              *)
OneRecordPerId ==
    \A r \in DOMAIN published : \A m, n \in published[r] : m.id = n.id => m = n

(* A receipt names exactly the revision in which its message took on that  *)
(* status, the receipts a check prepared in advance included, whatever was *)
(* committed or lost between (check: "exact revision").                    *)
Holds(r, i, s) == \E m \in published[r] : m.id = i /\ m.status = s
ReceiptsExact ==
    \A r \in DOMAIN published : \A m \in published[r] : \A k \in DOMAIN m.receipts :
        LET e == m.receipts[k]
        IN  /\ e.revision \in 1 .. r /\ Holds(e.revision, m.id, e.status)
            /\ e.revision > 1 => ~Holds(e.revision - 1, m.id, e.status)

(* A message never goes back: released once, then acknowledged or          *)
(* cancelled, and what is settled stays as it is; its specification never  *)
(* changes ("Cancellation cannot undo acknowledgment").                    *)
Successors(s) ==
    CASE s = "pending" -> {"pending", "ready", "cancelled"}
      [] s = "ready" -> {"ready", "acknowledged", "cancelled"}
      [] OTHER -> {s}
NeverBack ==
    [][\A m \in Store!Latest(published) : \E n \in Store!Latest(published') :
          n.id = m.id /\ n.spec = m.spec /\ n.status \in Successors(m.status)]_fmVars
=============================================================================
