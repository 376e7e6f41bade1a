------------------------------ MODULE Learned ------------------------------
(* Learned tasks in the store: rules that counterexamples correct, and      *)
(* trees.  A record keeps all its versions, with what each was trained on   *)
(* and what it was held against; what learning finds is left open.          *)
EXTENDS StoreHost, FiniteSets

CONSTANTS
    Tasks,     \* task identifiers
    Examples,  \* identifiers of rows
    Payloads,  \* digests of a counterexample and its holdout
    MaxVersions,
    MaxTaskRevisions \* bound on the store's revisions

LRvars == storeVars

Key(t) == <<"learned", t>>
Task(t) == Shown[Key(t)]
Learnt(t, kind) == Has(Key(t)) /\ Task(t).kind = kind

LRInit == SlotInit

Saves(t, record) == CommitMade(Only(Key(t), record)) \/ CommitClosed(Only(Key(t), record))

Version(train, holdout, ok) == [train |-> train, holdout |-> holdout, ok |-> ok]

(* validate: what a version is trained on and held against are apart; none  *)
(* is validated without a holdout.                                          *)
Learns(train, holdout, ok) ==
    train # {} /\ train \cap holdout = {} /\ (ok => holdout # {})

(* A version that did not pass its validation is kept, but not served.      *)
Appended(record, version) ==
    [record EXCEPT !.versions = Append(@, version),
                   !.active = IF version.ok THEN Len(record.versions) + 1 ELSE @]
Empty(kind) == [kind |-> kind, versions |-> <<>>, active |-> 0, receipts |-> NoKeys]

RulesSave(t, train, holdout, ok) ==
    /\ Clean(MaxTaskRevisions) /\ ~Has(Key(t)) /\ Learns(train, holdout, ok)
    /\ Saves(t, Appended(Empty("rule"), Version(train, holdout, ok)))

-----------------------------------------------------------------------------
(* rules_add_counterexample.                                                *)

(* Wrong on purpose: only what the latest version uses.                     *)
BrokenUsed(versions) == versions[Len(versions)].train \cup versions[Len(versions)].holdout

Used(versions) ==
    UNION {versions[i].train \cup versions[i].holdout : i \in DOMAIN versions}

(* A counterexample that has a receipt is answered with it or refused.  It  *)
(* is added to the training of the latest version, also after a rollback.   *)
AddCounterexample(t, e, payload, holdout, ok) ==
    /\ Clean(MaxTaskRevisions) /\ Learnt(t, "rule") /\ e \notin DOMAIN Task(t).receipts
    /\ LET versions == Task(t).versions
           latest == versions[Len(versions)]
           next == Version(latest.train \cup {e}, holdout, ok)
           receipt == Only(e, [payload |-> payload, version |-> Len(versions) + 1])
       IN  /\ Len(versions) < MaxVersions /\ Learns(next.train, holdout, ok)
           /\ e \notin Used(versions) /\ holdout \cap (Used(versions) \cup {e}) = {}
           /\ Saves(t, [Appended(Task(t), next) EXCEPT !.receipts = receipt ++ @])

(* Wrong on purpose: to any version.                                        *)
BrokenReturnable(record) == DOMAIN record.versions

(* rules_rollback, to a version that was validated and is not the latest.   *)
Returnable(record) ==
    {i \in 1 .. Len(record.versions) - 1 : record.versions[i].ok} \ {record.active}

Rollback(t, prior) ==
    /\ Clean(MaxTaskRevisions) /\ Learnt(t, "rule") /\ prior \in Returnable(Task(t))
    /\ Saves(t, [Task(t) EXCEPT !.active = prior])

(* trees_save: another tree for the task, trained from nothing.             *)
TreesSave(t, train, holdout, ok) ==
    /\ Clean(MaxTaskRevisions) /\ Learns(train, holdout, ok)
    /\ Has(Key(t)) => Learnt(t, "tree")
    /\ LET record == IF Has(Key(t)) THEN Task(t) ELSE Empty("tree")
       IN  /\ Len(record.versions) < MaxVersions
           /\ Saves(t, Appended(record, Version(train, holdout, ok)))

LRNext ==
    \/ StoreOpen \/ ProcessEnds \/ PutPlain \/ CommitPlain(MaxTaskRevisions)
    \/ \E t \in Tasks, train, holdout \in SUBSET Examples, ok \in BOOLEAN :
          RulesSave(t, train, holdout, ok) \/ TreesSave(t, train, holdout, ok)
    \/ \E t \in Tasks, e \in Examples, payload \in Payloads, holdout \in SUBSET Examples,
          ok \in BOOLEAN : AddCounterexample(t, e, payload, holdout, ok)
    \/ \E t \in Tasks : \E prior \in 1 .. MaxVersions : Rollback(t, prior)

LRSpec == LRInit /\ [][LRNext]_LRvars

-----------------------------------------------------------------------------
(* Properties.                                                              *)

RecordsIn(version) ==
    {version[Key(t)] : t \in {u \in Tasks : Key(u) \in DOMAIN version}}
SavedRecords == UNION {RecordsIn(history[r]) : r \in 1 .. Revision}

(* What a rule was once held against is never trained on by a later one,    *)
(* nor the other way round, over all corrections and rollbacks: each rule   *)
(* is measured on rows it has not seen.                                     *)
HoldoutHeldOut ==
    \A record \in SavedRecords : record.kind = "rule" =>
        \A i, j \in DOMAIN record.versions :
            record.versions[i].train \cap record.versions[j].holdout = {}

(* Predictions come from a version that passed its validation; a failed     *)
(* correction does not take the place of what a rollback chose, and every   *)
(* counterexample with a receipt is in the training of the latest version.  *)
ActiveValidated ==
    \A record \in SavedRecords :
        LET n == Len(record.versions)
        IN  /\ record.active # 0 => record.versions[record.active].ok
            /\ record.active = 0 => \A i \in 1 .. n : ~record.versions[i].ok
            /\ DOMAIN record.receipts \subseteq record.versions[n].train
=============================================================================
