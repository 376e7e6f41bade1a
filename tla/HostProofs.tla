-------------------------------- MODULE HostProofs --------------------------
(***************************************************************************)
(* Theorems about the host's services around a program: Execution, Future- *)
(* Messages and LiveHost, each for any values of its constants.            *)
(***************************************************************************)
EXTENDS Execution, FutureMessages, LiveHost, FiniteSetTheorems,
        WellFoundedInduction, TLAPS

-----------------------------------------------------------------------------
(* Execution, for any number of plans, posts and revisions.                *)
(*                                                                         *)
(* What is posted is governed by the receipt that the store would show,    *)
(* and after the handle is lost by the receipts it might show: the version *)
(* in doubt counts as much as the one that is certain.  CallInv says of    *)
(* both that they tell no more than what happened, and of the call under   *)
(* way that its plan is Pending and posted not at all, or once.            *)

Held == Registry!Latest(commits)

(* A version that claims no more than what happened. *)
Supported(v) ==
    \A p \in Plans :
        /\ v[p] = "none" => posts[p] = 0
        /\ v[p] = "Succeeded" => remote[p] = "accepted"
        /\ v[p] = "Failed" => remote[p] = "refused"

(* What one commit of execute may do to the receipts. *)
Advances(v, w) ==
    \A p \in Plans :
        \/ w[p] = v[p]
        \/ v[p] = "none" /\ w[p] = "Pending"
        \/ v[p] = "Pending" /\ w[p] \in Settled

(* The status to be recorded is the receiver's word. *)
Word ==
    /\ status = "Succeeded" => remote[plan] = "accepted"
    /\ status = "Failed" => remote[plan] = "refused"

UnderWay ==
    /\ pc # "idle" => attached /\ view[plan] = "Pending"
    /\ pc = "sending" => posts[plan] = 0
    /\ pc = "recording" => Word

CallInv ==
    /\ EXTypeOK
    /\ AtMostOnce
    /\ Supported(Held)
    /\ attached => view = Held /\ unsure = {}
    /\ \A v \in unsure : Supported(v) /\ Advances(Held, v)
    /\ UnderWay

-----------------------------------------------------------------------------
(* The version a commit appends is the latest from then on. *)
LEMMA LatestAppended ==
    ASSUME NEW s \in Seq(Receipts), NEW v \in Receipts
    PROVE  /\ Append(s, v) \in Seq(Receipts)
           /\ Registry!Latest(Append(s, v)) = v
           /\ Registry!Latest(s) \in Receipts
<1>1. Append(s, v) # <<>> /\ Append(s, v)[Len(Append(s, v))] = v
  OBVIOUS
<1>2. NoReceipts \in Receipts
  BY DEF NoReceipts, Receipts
<1>3. s # <<>> => s[Len(s)] \in Receipts
  OBVIOUS
<1>4. QED
  BY <1>1, <1>2, <1>3 DEF Registry!Latest

LEMMA CallInitially == EXInit => CallInv
<1>1. ASSUME EXInit PROVE CallInv
  <2>1. Held = NoReceipts
    BY <1>1 DEF EXInit, Held, Registry!AbsInit, Registry!Latest
  <2>2. EXTypeOK
    <3>1. NoReceipts \in Receipts
      BY DEF NoReceipts, Receipts
    <3>2. posts \in [Plans -> Nat]
      BY <1>1 DEF EXInit
    <3>3. commits \in Seq(Receipts) /\ view \in Receipts /\ unsure \subseteq Receipts
      BY <1>1, <3>1 DEF EXInit, Registry!AbsInit
    <3>4. QED
      BY <1>1, <3>2, <3>3 DEF EXInit, Registry!AbsInit, EXTypeOK, Settled
  <2>3. QED
    BY <1>1, <2>1, <2>2
    DEF EXInit, Registry!AbsInit, CallInv, AtMostOnce, Supported, NoReceipts, UnderWay
<1>2. QED
  BY <1>1

(* Losing the handle leaves the invariant, if the version in doubt is one  *)
(* the call under way may commit.                                          *)
LEMMA HandleLost ==
    ASSUME CallInv, NEW doubt, HandleGone(doubt),
           \A v \in doubt : v \in Receipts /\ Supported(v) /\ Advances(Held, v)
    PROVE  CallInv' /\ Held' = Held
<1>1. /\ attached' = FALSE /\ commits' = commits /\ view' = view
      /\ unsure' = doubt /\ changed' = FALSE /\ pc' = "idle"
      /\ plan' = plan /\ status' = status /\ posts' = posts /\ remote' = remote
  BY DEF HandleGone, Registry!DetachInDoubt, outside
<1>2. Held' = Held
  BY <1>1 DEF Held, Registry!Latest
<1>3. EXTypeOK'
  BY <1>1 DEF CallInv, EXTypeOK
<1>4. \A v : Supported(v) => Supported(v)'
  BY <1>1 DEF Supported
<1>5. QED
  BY <1>1, <1>2, <1>3, <1>4 DEF CallInv, AtMostOnce, UnderWay, Supported

(* Committing a version that is supported leaves the invariant of the      *)
(* store's part.                                                           *)
LEMMA Committed ==
    ASSUME CallInv, NEW v \in Receipts, Registry!PublishVersion(v), Supported(v),
           UNCHANGED outside
    PROVE  /\ commits' \in Seq(Receipts) /\ Held' = v /\ view' = v
           /\ attached /\ attached' = TRUE /\ unsure' = {}
           /\ Supported(Held)' /\ AtMostOnce'
<1>1. /\ attached /\ attached' = attached /\ unsure' = unsure
      /\ commits' = Append(commits, v) /\ view' = v
      /\ posts' = posts /\ remote' = remote
  BY DEF Registry!PublishVersion, outside
<1>2. commits' \in Seq(Receipts) /\ Held' = v
  BY <1>1, LatestAppended DEF CallInv, EXTypeOK, Held
<1>3. QED
  BY <1>1, <1>2 DEF CallInv, EXTypeOK, AtMostOnce, Supported

-----------------------------------------------------------------------------
(* One step: the invariant is kept and receipts only advance. *)
LEMMA CallStep ==
    ASSUME CallInv, [EXNext]_exVars
    PROVE  CallInv' /\ Advances(Held, Held')
<1>0. \A v : Advances(v, v)
  BY DEF Advances
<1>1. CASE ReopenStore
  <2>1. PICK v : (v \in unsure /\ commits' = Append(commits, v))
                 \/ (commits' = commits /\ v = Held)
    BY <1>1 DEF ReopenStore, Registry!Attach
  <2>2. /\ ~attached /\ attached' = TRUE /\ unsure' = {} /\ view' = Held'
        /\ changed' = changed /\ pc' = pc /\ plan' = plan /\ status' = status
        /\ posts' = posts /\ remote' = remote
    BY <1>1 DEF ReopenStore, Registry!Attach, Held, execution, outside
  <2>3. Supported(v) /\ Advances(Held, v) /\ v \in Receipts
    BY <1>0, <2>1, LatestAppended DEF CallInv, EXTypeOK, Held
  <2>4. Held' = v /\ commits' \in Seq(Receipts)
    BY <2>1, <2>3, LatestAppended DEF CallInv, EXTypeOK, Held
  <2>5. Supported(Held)'
    BY <2>2, <2>3, <2>4 DEF Supported
  <2>6. EXTypeOK'
    BY <2>2, <2>3, <2>4 DEF CallInv, EXTypeOK
  <2>7. QED
    BY <2>2, <2>3, <2>4, <2>5, <2>6 DEF CallInv, AtMostOnce, UnderWay
<1>2. CASE StageOther
  <2>1. UNCHANGED <<kept, execution, outside>> /\ changed' = TRUE
    BY <1>2 DEF StageOther
  <2>2. Held' = Held /\ EXTypeOK'
    BY <2>1 DEF CallInv, EXTypeOK, Held, Registry!Latest, kept, execution, outside
  <2>3. QED
    BY <1>0, <2>1, <2>2
    DEF CallInv, AtMostOnce, Supported, UnderWay, Word, kept, execution, outside
<1>3. CASE CommitStaged
  <2>1. /\ Registry!PublishVersion(view) /\ view = Held /\ view \in Receipts
        /\ Supported(view) /\ UNCHANGED outside
        /\ changed' = FALSE /\ pc' = pc /\ plan' = plan /\ status' = status
    BY <1>3 DEF CommitStaged, CallInv, EXTypeOK, execution
  <2>2. Held' = Held /\ view' = view
    BY <2>1, Committed
  <2>3. EXTypeOK'
    BY <2>1, Committed DEF CallInv, EXTypeOK, outside
  <2>4. QED
    BY <1>0, <2>1, <2>2, <2>3, Committed
    DEF CallInv, UnderWay, Word, outside
<1>4. CASE ProcessDies \/ CommitStagedUncertain
  <2>1. CASE ProcessDies
    BY <1>0, <2>1, HandleLost DEF ProcessDies
  <2>2. CASE CommitStagedUncertain
    <3>1. /\ HandleGone({view}) /\ view = Held /\ view \in Receipts
          /\ Supported(view) /\ Advances(Held, view)
      BY <1>0, <2>2 DEF CommitStagedUncertain, CallInv, EXTypeOK
    <3>2. QED
      BY <1>0, <3>1, HandleLost
  <2>3. QED
    BY <1>4, <2>1, <2>2
<1>5. ASSUME NEW p \in Plans, CommitPending(p) \/ PendingFails(p)
      PROVE  CallInv' /\ Advances(Held, Held')
  <2>1. attached /\ view = Held /\ view[p] = "none" /\ posts[p] = 0
    BY <1>5 DEF CommitPending, PendingFails, Admitted, New, CallInv, Supported
  <2>2. Pending(p) \in Receipts /\ Advances(Held, Pending(p))
    BY <2>1 DEF CallInv, EXTypeOK, Pending, Receipts, Advances
  <2>3. Supported(Pending(p))
    BY <2>1 DEF CallInv, EXTypeOK, Receipts, Supported, Pending
  <2>4. CASE CommitPending(p)
    <3>1. /\ Registry!PublishVersion(Pending(p)) /\ UNCHANGED outside
          /\ pc' = "sending" /\ plan' = p /\ changed' = changed /\ status' = status
      BY <2>4 DEF CommitPending
    <3>2. view'[plan'] = "Pending" /\ posts'[plan'] = 0
      BY <2>1, <2>2, <2>3, <3>1, Committed
      DEF CallInv, EXTypeOK, Pending, Receipts, outside
    <3>3. EXTypeOK'
      BY <2>2, <2>3, <3>1, Committed DEF CallInv, EXTypeOK, outside
    <3>4. /\ Held' = Pending(p) /\ view' = Held' /\ unsure' = {}
          /\ attached' = TRUE /\ Supported(Held)' /\ AtMostOnce'
      BY <2>2, <2>3, <3>1, Committed
    <3>5. UnderWay'
      BY <3>1, <3>2, <3>4 DEF UnderWay
    <3>6. QED
      BY <2>2, <3>3, <3>4, <3>5 DEF CallInv
  <2>5. CASE PendingFails(p)
    BY <1>0, <2>2, <2>3, <2>5, HandleLost DEF PendingFails
  <2>6. QED
    BY <1>5, <2>4, <2>5
<1>6. CASE Post
  <2>1. /\ pc = "sending" /\ posts[plan] = 0 /\ attached /\ view = Held
        /\ view[plan] = "Pending" /\ plan \in Plans
        /\ unsure = {}
    BY <1>6 DEF Post, CallInv, EXTypeOK, UnderWay
  <2>2. /\ posts' = [posts EXCEPT ![plan] = @ + 1]
        /\ pc' = "recording" /\ plan' = plan /\ changed' = changed
        /\ UNCHANGED kept
    BY <1>6 DEF Post
  <2>3. PICK answer \in {"2xx", "other", "none"} :
           /\ status' = Reported(answer)
           /\ \E e \in CASE answer = "2xx" -> {"accepted"}
                         [] answer = "other" -> {"refused"}
                         [] answer = "none" -> {"untouched", "accepted", "refused"} :
                remote' = [remote EXCEPT ![plan] = e]
    BY <1>6 DEF Post
  <2>4. PICK e : /\ e \in {"untouched", "accepted", "refused"}
                 /\ remote' = [remote EXCEPT ![plan] = e]
                 /\ status' = "Succeeded" => e = "accepted"
                 /\ status' = "Failed" => e = "refused"
                 /\ status' \in Settled
    BY <2>3 DEF Reported, Settled
  <2>5. Held' = Held /\ view' = view /\ attached' = attached /\ unsure' = unsure
    BY <2>2 DEF kept, Held, Registry!Latest
  <2>6. posts'[plan] = 1 /\ \A p \in Plans \ {plan} : posts'[p] = posts[p]
    BY <2>1, <2>2 DEF CallInv, EXTypeOK
  <2>7. remote'[plan] = e /\ \A p \in Plans \ {plan} : remote'[p] = remote[p]
    BY <2>1, <2>4 DEF CallInv, EXTypeOK
  <2>8. posts' \in [Plans -> Nat]
    BY <1>6, <2>1, <2>2 DEF Post, CallInv, EXTypeOK
  <2>9. EXTypeOK'
    BY <2>2, <2>4, <2>8 DEF CallInv, EXTypeOK, kept
  <2>10. AtMostOnce'
    BY <2>6 DEF CallInv, AtMostOnce
  <2>11. Supported(Held)'
    BY <2>1, <2>5, <2>6, <2>7 DEF CallInv, Supported
  <2>12. UnderWay'
    BY <2>1, <2>2, <2>4, <2>5, <2>7 DEF UnderWay, Word
  <2>13. QED
    BY <1>0, <2>1, <2>5, <2>9, <2>10, <2>11, <2>12 DEF CallInv
<1>7. CASE CommitOutcome \/ OutcomeFails
  <2>1. /\ pc = "recording" /\ attached /\ view = Held /\ view \in Receipts
        /\ view[plan] = "Pending" /\ Word /\ plan \in Plans /\ status \in Settled
    BY <1>7 DEF CommitOutcome, OutcomeFails, CallInv, EXTypeOK, UnderWay
  <2>2. Outcome \in Receipts /\ Advances(Held, Outcome)
    BY <2>1 DEF Outcome, Receipts, Advances
  <2>3. Supported(Outcome)
    BY <2>1 DEF CallInv, Receipts, Supported, Outcome, Word, Settled
  <2>4. CASE CommitOutcome
    <3>1. /\ Registry!PublishVersion(Outcome) /\ UNCHANGED outside
          /\ pc' = "idle" /\ plan' = plan /\ changed' = changed /\ status' = status
      BY <2>4 DEF CommitOutcome
    <3>2. EXTypeOK'
      BY <2>2, <2>3, <3>1, Committed DEF CallInv, EXTypeOK, outside
    <3>3. QED
      BY <2>2, <2>3, <3>1, <3>2, Committed DEF CallInv, UnderWay
  <2>5. CASE OutcomeFails
    BY <1>0, <2>2, <2>3, <2>5, HandleLost DEF OutcomeFails
  <2>6. QED
    BY <1>7, <2>4, <2>5
<1>8. CASE UNCHANGED exVars
  <2>1. Held' = Held /\ EXTypeOK'
    BY <1>8 DEF exVars, CallInv, EXTypeOK, Held, Registry!Latest, kept, execution, outside
  <2>2. QED
    BY <1>0, <1>8, <2>1
    DEF exVars, CallInv, AtMostOnce, Supported, UnderWay, Word, kept, execution, outside
<1>9. QED
  BY <1>1, <1>2, <1>3, <1>4, <1>5, <1>6, <1>7, <1>8 DEF EXNext

LEMMA CallInvariant == EXSpec => []CallInv
<1>1. CallInv /\ [EXNext]_exVars => CallInv'
  BY CallStep
<1>2. QED
  BY CallInitially, <1>1, PTL DEF EXSpec

-----------------------------------------------------------------------------
(* Every variable keeps its type, whatever fails and dies. *)
THEOREM ReceiptsTyped == EXSpec => []EXTypeOK
<1>1. CallInv => EXTypeOK
  BY DEF CallInv
<1>2. QED
  BY CallInvariant, <1>1, PTL

(* No plan is posted twice, over any number of crashes, uncertain commits  *)
(* and reopenings (execute).                                               *)
THEOREM PostedAtMostOnce == EXSpec => []AtMostOnce
<1>1. CallInv => AtMostOnce
  BY DEF CallInv
<1>2. QED
  BY CallInvariant, <1>1, PTL

(* The receipts the store holds tell no more than what happened and forget *)
(* no post (execute).                                                      *)
THEOREM ReceiptsTellTheTruth == EXSpec => []ReceiptsTruthful
<1>1. CallInv => ReceiptsTruthful
  BY DEF CallInv, Supported, Held, ReceiptsTruthful
<1>2. QED
  BY CallInvariant, <1>1, PTL

(* A receipt goes from none to Pending to one outcome, and stays.          *)
THEOREM ReceiptsAdvance == EXSpec => ReceiptsSettle
<1>1. CallInv /\ [EXNext]_exVars =>
        [\A p \in Plans :
          LET before == Registry!Latest(commits)[p]
              after == Registry!Latest(commits')[p]
          IN  \/ after = before
              \/ before = "none" /\ after = "Pending"
              \/ before = "Pending" /\ after \in Settled]_exVars
  <2>1. ASSUME CallInv, [EXNext]_exVars PROVE Advances(Held, Held')
    BY <2>1, CallStep
  <2>2. QED
    BY <2>1 DEF Advances, Held, Registry!Latest
<1>2. QED
  BY CallInvariant, <1>1, PTL DEF EXSpec, ReceiptsSettle

(* What execute does to the store is what the abstract store allows: the   *)
(* module stands on the interface that Store implements.                   *)
THEOREM UsesTheStore == EXSpec => Registry!AbsSpec
<1>1. EXInit => Registry!AbsInit
  BY DEF EXInit
<1>2. ASSUME CallInv, [EXNext]_exVars PROVE [Registry!AbsNext]_(Registry!absVars)
  <2>1. EXTypeOK /\ EXTypeOK'
    BY <1>2, CallStep DEF CallInv
  <2>2. ASSUME NEW v \in Receipts, Registry!PublishVersion(v)
        PROVE  Registry!AbsNext
    BY <2>2 DEF Registry!AbsNext, Registry!Publish
  <2>3. ASSUME NEW doubt, HandleGone(doubt), doubt = {} \/ \E v \in Receipts : doubt = {v}
        PROVE  Registry!AbsNext
    BY <2>3 DEF HandleGone, Registry!AbsNext, Registry!Detach
  <2>4. CASE ReopenStore
    BY <2>4 DEF ReopenStore, Registry!AbsNext
  <2>5. CASE StageOther \/ Post \/ UNCHANGED exVars
    BY <2>5 DEF StageOther, Post, exVars, kept, Registry!absVars
  <2>6. CASE CommitStaged
    BY <2>1, <2>2, <2>6 DEF CommitStaged, EXTypeOK
  <2>7. CASE ProcessDies \/ CommitStagedUncertain
    BY <2>1, <2>3, <2>7 DEF ProcessDies, CommitStagedUncertain, EXTypeOK
  <2>8. ASSUME NEW p \in Plans, CommitPending(p) \/ PendingFails(p)
        PROVE  Registry!AbsNext
    <3>1. Pending(p) \in Receipts
      BY <2>1 DEF EXTypeOK, Pending, Receipts
    <3>2. QED
      BY <2>2, <2>3, <2>8, <3>1 DEF CommitPending, PendingFails
  <2>9. CASE CommitOutcome \/ OutcomeFails
    <3>1. Outcome \in Receipts
      BY <2>1 DEF EXTypeOK, Outcome, Receipts
    <3>2. QED
      BY <2>2, <2>3, <2>9, <3>1 DEF CommitOutcome, OutcomeFails
  <2>10. QED
    BY <1>2, <2>4, <2>5, <2>6, <2>7, <2>8, <2>9 DEF EXNext
<1>3. QED
  BY <1>1, <1>2, CallInvariant, PTL DEF EXSpec, Registry!AbsSpec

-----------------------------------------------------------------------------
(* FutureMessages, for any messages, limits and revisions.                 *)
(*                                                                         *)
(* Everything is said of what may still become the next version: the one a *)
(* commit appends, and the one that is in doubt while no handle is open.   *)
(* Follows(v) is what every such version satisfies; MessagesInv says it of *)
(* the versions in doubt, and of the call under way that what check        *)
(* prepared still fits the store, k commits ahead.                         *)

Latest == Store!Latest(published)
PendingOf(v) == {m \in v : m.status = "pending"}
OnePer(v) == \A m, n \in v : m.id = n.id => m = n

(* No message is lost or goes back from one version to the next. *)
Forward(v, w) ==
    \A m \in v : \E n \in w :
        n.id = m.id /\ n.spec = m.spec /\ n.status \in Successors(m.status)

(* A record of the next version is carried over, or it took on its status  *)
(* in that very version and its last receipt says so.                      *)
Fresh(m, r) ==
    /\ \A n \in Latest : n.id = m.id => n.status # m.status
    /\ \E q \in Seq(Receipt) :
         /\ q = <<>> \/ \E n \in Latest : n.id = m.id /\ n.receipts = q
         /\ m.receipts = Append(q, [status |-> m.status, revision |-> r])

Follows(v) ==
    /\ v \in SUBSET Message
    /\ OnePer(v)
    /\ IsFiniteSet(PendingOf(v)) /\ Cardinality(PendingOf(v)) <= MaxPending
    /\ Forward(Latest, v)
    /\ \A m \in v : m \in Latest \/ Fresh(m, Len(published) + 1)

PreparedOK ==
    /\ prepared # <<>> => available /\ dirty = FALSE
    /\ prepared \in Seq([old : Message, new : Message])
    /\ \A k \in DOMAIN prepared :
         /\ prepared[k].old \in shown /\ prepared[k].old.status = "pending"
         /\ prepared[k].new = Changed(prepared[k].old, "ready", Len(published) + k)
    /\ \A j, k \in DOMAIN prepared :
         prepared[j].old.id = prepared[k].old.id => j = k

MessagesInv ==
    /\ available \in BOOLEAN /\ dirty \in BOOLEAN
    /\ published \in Seq(SUBSET Message) /\ shown \in SUBSET Message
    /\ OneRecordPerId /\ ReceiptsExact
    /\ IsFiniteSet(PendingOf(Latest)) /\ Cardinality(PendingOf(Latest)) <= MaxPending
    /\ IsFiniteSet(PendingOf(shown)) /\ Cardinality(PendingOf(shown)) <= MaxPending
    /\ available => shown = Latest /\ unsettled = {}
    /\ \A v \in unsettled : Follows(v)
    /\ PreparedOK

-----------------------------------------------------------------------------
(* Records. *)

LEMMA ChangedRecord ==
    ASSUME NEW m \in Message, NEW s \in Statuses, NEW r \in Nat
    PROVE  /\ Changed(m, s, r) \in Message
           /\ Changed(m, s, r).id = m.id /\ Changed(m, s, r).spec = m.spec
           /\ Changed(m, s, r).status = s
           /\ m.receipts \in Seq(Receipt)
           /\ Changed(m, s, r).receipts
                = Append(m.receipts, [status |-> s, revision |-> r])
<1>1. /\ m.receipts \in Seq(Receipt) /\ m.id \in Ids /\ m.spec \in Specs
      /\ m = [id |-> m.id, status |-> m.status, spec |-> m.spec, receipts |-> m.receipts]
  BY DEF Message
<1>2. [status |-> s, revision |-> r] \in Receipt
  BY DEF Receipt
<1>3. Append(m.receipts, [status |-> s, revision |-> r]) \in Seq(Receipt)
  BY <1>1, <1>2
<1>4. Changed(m, s, r) =
        [id |-> m.id, status |-> s, spec |-> m.spec,
         receipts |-> Append(m.receipts, [status |-> s, revision |-> r])]
  BY <1>1 DEF Changed
<1>5. QED
  BY <1>1, <1>3, <1>4 DEF Message

LEMMA LatestTypes ==
    ASSUME NEW s \in Seq(SUBSET Message), NEW v \in SUBSET Message
    PROVE  /\ Store!Latest(s) \in SUBSET Message
           /\ s = <<>> => Store!Latest(s) = {}
           /\ s # <<>> => Len(s) \in DOMAIN s /\ Store!Latest(s) = s[Len(s)]
           /\ Append(s, v) \in Seq(SUBSET Message)
           /\ Len(Append(s, v)) = Len(s) + 1
           /\ Append(s, v)[Len(s) + 1] = v
           /\ \A r \in DOMAIN s : r \in 1 .. Len(s) /\ Append(s, v)[r] = s[r]
           /\ DOMAIN Append(s, v) = 1 .. Len(s) + 1
           /\ DOMAIN s = 1 .. Len(s) /\ Len(s) \in Nat
           /\ Store!Latest(Append(s, v)) = v
<1>1. /\ Append(s, v) \in Seq(SUBSET Message) /\ Len(Append(s, v)) = Len(s) + 1
      /\ Append(s, v)[Len(s) + 1] = v /\ Len(s) \in Nat
      /\ DOMAIN s = 1 .. Len(s) /\ DOMAIN Append(s, v) = 1 .. Len(s) + 1
      /\ \A r \in DOMAIN s : Append(s, v)[r] = s[r]
      /\ Append(s, v) # <<>>
  OBVIOUS
<1>2. s # <<>> => Len(s) \in DOMAIN s /\ s[Len(s)] \in SUBSET Message
  OBVIOUS
<1>3. QED
  BY <1>1, <1>2 DEF Store!Latest

LEMMA LatestOnePer ==
    ASSUME MessagesInv
    PROVE  OnePer(Latest)
<1>1. CASE published = <<>>
  BY <1>1, LatestTypes DEF MessagesInv, Latest, OnePer
<1>2. CASE published # <<>>
  <2>1. PICK r \in DOMAIN published : Latest = published[r]
    BY <1>2, LatestTypes DEF MessagesInv, Latest
  <2>2. QED
    BY <2>1 DEF MessagesInv, OneRecordPerId, OnePer
<1>3. QED
  BY <1>1, <1>2

LEMMA MessagesInitially == FMInit => MessagesInv
<1>1. ASSUME FMInit PROVE MessagesInv
  <2>1. /\ available = FALSE /\ published = <<>> /\ shown = {} /\ unsettled = {}
        /\ dirty = FALSE /\ prepared = <<>>
    BY <1>1 DEF FMInit, Store!AbsInit
  <2>2. Latest = {} /\ PendingOf({}) = {}
    BY <2>1 DEF Latest, Store!Latest, PendingOf
  <2>3. IsFiniteSet({}) /\ Cardinality({}) <= MaxPending
    BY FS_EmptySet, Bounds
  <2>4. published \in Seq(SUBSET Message) /\ DOMAIN published = {} /\ PreparedOK
    BY <2>1 DEF PreparedOK
  <2>5. QED
    BY <2>1, <2>2, <2>3, <2>4 DEF MessagesInv, OneRecordPerId, ReceiptsExact
<1>2. QED
  BY <1>1

-----------------------------------------------------------------------------
(* The next version. *)

(* A record under a new status, its old key deleted: Follows. *)
LEMMA MovedFollows ==
    ASSUME MessagesInv, available, NEW m \in shown, NEW s \in Successors(m.status),
           s # m.status
    PROVE  Follows(Moved({m}, Changed(m, s, NextRevision)))
<1> DEFINE new == Changed(m, s, NextRevision)
           v == (shown \ {m}) \cup {new}
<1>1. /\ shown = Latest /\ shown \in SUBSET Message /\ m \in Message
      /\ NextRevision \in Nat /\ NextRevision = Len(published) + 1
  BY LatestTypes DEF MessagesInv, NextRevision
<1>2. s \in Statuses /\ s # "pending"
  BY <1>1 DEF Successors, Message, Statuses
<1>3. /\ new \in Message /\ new.id = m.id /\ new.spec = m.spec /\ new.status = s
      /\ m.receipts \in Seq(Receipt)
      /\ new.receipts = Append(m.receipts, [status |-> s, revision |-> NextRevision])
  BY <1>1, <1>2, ChangedRecord
<1> HIDE DEF new
<1>4. OnePer(shown)
  BY <1>1, LatestOnePer
<1>5. v \in SUBSET Message /\ OnePer(v)
  BY <1>1, <1>3, <1>4 DEF OnePer
<1>6. IsFiniteSet(PendingOf(v)) /\ Cardinality(PendingOf(v)) <= MaxPending
  <2>1. PendingOf(v) \in SUBSET PendingOf(shown)
    BY <1>2, <1>3 DEF PendingOf
  <2>2. QED
    <3>1. /\ IsFiniteSet(PendingOf(v))
          /\ Cardinality(PendingOf(v)) <= Cardinality(PendingOf(shown))
      BY <2>1, FS_Subset DEF MessagesInv
    <3>2. Cardinality(PendingOf(v)) \in Nat /\ Cardinality(PendingOf(shown)) \in Nat
      BY <3>1, FS_CardinalityType DEF MessagesInv
    <3>3. QED
      BY <3>1, <3>2, Bounds DEF MessagesInv
<1>7. Forward(Latest, v)
  <2>1. \A n \in shown \ {m} : n.status \in Successors(n.status)
    BY <1>1 DEF Message, Statuses, Successors
  <2>2. QED
    BY <1>1, <1>3, <2>1 DEF Forward
<1>8. Fresh(new, Len(published) + 1)
  BY <1>1, <1>3, <1>4 DEF Fresh, OnePer
<1>9. QED
  BY <1>1, <1>5, <1>6, <1>7, <1>8 DEF Follows, Moved, new

(* A new message under an id that has no record, below the limit. *)
LEMMA CreatedFollows ==
    ASSUME MessagesInv, NEW i \in Ids, NEW s \in Specs, Creates(i)
    PROVE  Follows(Moved({}, Created(i, s)))
<1> DEFINE blank == [id |-> i, status |-> "pending", spec |-> s, receipts |-> <<>>]
           new == Created(i, s)
           v == shown \cup {new}
<1>1. /\ shown = Latest /\ shown \in SUBSET Message /\ available
      /\ NextRevision \in Nat /\ NextRevision = Len(published) + 1
      /\ \A m \in shown : m.id # i
  BY LatestTypes DEF MessagesInv, Creates, Ready, Unused, Found, NextRevision
<1>2. blank \in Message /\ blank.receipts = <<>> /\ blank.id = i /\ "pending" \in Statuses
  BY DEF Message, Statuses
<1>3. new = Changed(blank, "pending", NextRevision)
  BY DEF Created
<1> HIDE DEF blank
<1>4. /\ new \in Message /\ new.id = i /\ new.status = "pending"
      /\ new.receipts = Append(<<>>, [status |-> "pending", revision |-> NextRevision])
  BY <1>1, <1>2, <1>3, ChangedRecord
<1> HIDE DEF new
<1>5. OnePer(shown)
  BY <1>1, LatestOnePer
<1>6. v \in SUBSET Message /\ OnePer(v)
  BY <1>1, <1>4, <1>5 DEF OnePer
<1>7. IsFiniteSet(PendingOf(v)) /\ Cardinality(PendingOf(v)) <= MaxPending
  <2>1. PendingOf(v) = PendingOf(shown) \cup {new}
    BY <1>4 DEF PendingOf
  <2>2. PendingOf(shown) = WithStatus("pending")
    BY DEF PendingOf, WithStatus
  <2>3. Cardinality(PendingOf(shown)) < MaxPending /\ IsFiniteSet(PendingOf(shown))
    BY <2>2 DEF Creates, BelowLimit, MessagesInv
  <2>4. Cardinality(PendingOf(shown)) \in Nat
    BY <2>3, FS_CardinalityType
  <2>5. /\ IsFiniteSet(PendingOf(v))
        /\ Cardinality(PendingOf(v)) =
             IF new \in PendingOf(shown) THEN Cardinality(PendingOf(shown))
             ELSE Cardinality(PendingOf(shown)) + 1
    BY <2>1, <2>3, FS_AddElement
  <2>6. QED
    BY <2>3, <2>4, <2>5, Bounds
<1>8. Forward(Latest, v)
  <2>1. \A n \in shown : n.status \in Successors(n.status)
    BY <1>1 DEF Message, Statuses, Successors
  <2>2. QED
    BY <1>1, <2>1 DEF Forward
<1>9. Fresh(new, Len(published) + 1)
  <2>1. <<>> \in Seq(Receipt)
    OBVIOUS
  <2>2. QED
    BY <1>1, <1>4, <2>1 DEF Fresh
<1>10. QED
  BY <1>1, <1>6, <1>7, <1>8, <1>9 DEF Follows, Moved, new

(* Publishing what is shown changes nothing. *)
LEMMA SameFollows ==
    ASSUME MessagesInv
    PROVE  Follows(Latest)
<1>1. Latest \in SUBSET Message
  BY LatestTypes DEF MessagesInv, Latest
<1>2. OnePer(Latest)
  BY LatestOnePer
<1>3. Forward(Latest, Latest)
  BY <1>1 DEF Forward, Message, Statuses, Successors
<1>4. QED
  BY <1>1, <1>2, <1>3 DEF Follows, MessagesInv

(* Appending a version that follows keeps the whole history right. *)
LEMMA Extended ==
    ASSUME MessagesInv, NEW v, Follows(v), published' = Append(published, v)
    PROVE  /\ published' \in Seq(SUBSET Message) /\ Latest' = v
           /\ OneRecordPerId' /\ ReceiptsExact'
<1> DEFINE h == published
           g == published'
<1>1. /\ h \in Seq(SUBSET Message) /\ v \in SUBSET Message
      /\ OnePer(v) /\ \A m \in v : m \in Latest \/ Fresh(m, Len(h) + 1)
  BY DEF MessagesInv, Follows
<1>2. /\ g \in Seq(SUBSET Message) /\ DOMAIN g = 1 .. Len(h) + 1
      /\ DOMAIN h = 1 .. Len(h) /\ Len(h) \in Nat
      /\ g[Len(h) + 1] = v /\ \A r \in 1 .. Len(h) : g[r] = h[r]
      /\ Latest' = v
  BY <1>1, LatestTypes DEF Latest
<1>3. \A r \in DOMAIN g : r = Len(h) + 1 \/ r \in DOMAIN h
  BY <1>2
<1>4. OneRecordPerId'
  BY <1>1, <1>2, <1>3 DEF MessagesInv, OneRecordPerId, OnePer
<1>5. \A e \in DOMAIN h : \A i, s : Holds(e, i, s)' <=> Holds(e, i, s)
  BY <1>2 DEF Holds
<1>6. \A e, i, s : e = Len(h) + 1 =>
         (Holds(e, i, s)' <=> \E m \in v : m.id = i /\ m.status = s)
  BY <1>2 DEF Holds
<1> DEFINE Right(e, r, i) ==
             /\ e.revision \in 1 .. r /\ Holds(e.revision, i, e.status)
             /\ e.revision > 1 => ~Holds(e.revision - 1, i, e.status)
<1>7. ASSUME NEW e, NEW i, NEW r \in DOMAIN h, Right(e, r, i)
      PROVE  /\ e.revision \in 1 .. r /\ Holds(e.revision, i, e.status)'
             /\ e.revision > 1 => ~Holds(e.revision - 1, i, e.status)'
  <2>1. PICK x : x = e.revision
    OBVIOUS
  <2>2. x \in DOMAIN h /\ (x > 1 => x - 1 \in DOMAIN h)
    BY <1>2, <1>7, <2>1
  <2>3. QED
    BY <1>5, <1>7, <2>1, <2>2
<1>8. ASSUME NEW m \in Latest, NEW k \in DOMAIN m.receipts
      PROVE  \E r \in DOMAIN h : Right(m.receipts[k], r, m.id)
  <2>1. PICK r \in DOMAIN h : Latest = h[r]
    BY <1>2, <1>8, LatestTypes DEF Latest
  <2>2. QED
    BY <1>8, <2>1 DEF MessagesInv, ReceiptsExact
<1> HIDE DEF Right
<1>9. ASSUME NEW m \in v, Fresh(m, Len(h) + 1), NEW k \in DOMAIN m.receipts
      PROVE  LET e == m.receipts[k]
             IN  /\ e.revision \in 1 .. Len(h) + 1 /\ Holds(e.revision, m.id, e.status)'
                 /\ e.revision > 1 => ~Holds(e.revision - 1, m.id, e.status)'
  <2>1. PICK q \in Seq(Receipt) :
           /\ q = <<>> \/ \E n \in Latest : n.id = m.id /\ n.receipts = q
           /\ m.receipts = Append(q, [status |-> m.status, revision |-> Len(h) + 1])
    BY <1>9 DEF Fresh
  <2>2. CASE k = Len(q) + 1
    <3>1. PICK e : e = m.receipts[k]
      OBVIOUS
    <3>2. e.status = m.status /\ e.revision = Len(h) + 1
      BY <2>1, <2>2, <3>1
    <3>3. Holds(e.revision, m.id, e.status)'
      BY <1>6, <1>9, <3>2
    <3>4. ASSUME e.revision > 1 PROVE ~Holds(e.revision - 1, m.id, e.status)'
      <4>1. PICK n \in DOMAIN h : n = e.revision - 1 /\ Latest = h[n]
        BY <1>1, <1>2, <3>2, <3>4, LatestTypes DEF Latest
      <4>2. ~Holds(n, m.id, e.status)
        BY <1>9, <3>2, <4>1 DEF Fresh, Holds
      <4>3. ~Holds(n, m.id, e.status)'
        BY <1>5, <4>1, <4>2
      <4>4. QED
        BY <4>1, <4>3
    <3>5. QED
      BY <1>2, <3>1, <3>2, <3>3, <3>4
  <2>3. CASE k # Len(q) + 1
    <3>1. k \in DOMAIN q /\ m.receipts[k] = q[k]
      BY <1>9, <2>1, <2>3
    <3>2. PICK n \in Latest : n.id = m.id /\ n.receipts = q
      BY <2>1, <3>1
    <3>3. PICK r \in DOMAIN h : Right(m.receipts[k], r, m.id)
      BY <1>8, <3>1, <3>2
    <3>4. QED
      BY <1>2, <1>7, <3>3
  <2>4. QED
    BY <2>2, <2>3
<1>10. ReceiptsExact'
  <2>1. ASSUME NEW r \in DOMAIN g, NEW m \in g[r], NEW k \in DOMAIN m.receipts
        PROVE  LET e == m.receipts[k]
               IN  /\ e.revision \in 1 .. r /\ Holds(e.revision, m.id, e.status)'
                   /\ e.revision > 1 => ~Holds(e.revision - 1, m.id, e.status)'
    <3>1. CASE r \in DOMAIN h
      <4>1. m \in h[r]
        BY <1>2, <3>1
      <4>2. Right(m.receipts[k], r, m.id)
        BY <3>1, <4>1, <2>1 DEF MessagesInv, ReceiptsExact, Right
      <4>3. QED
        BY <1>7, <3>1, <4>2
    <3>2. CASE r = Len(h) + 1 /\ m \in Latest
      <4>1. PICK x \in DOMAIN h : Right(m.receipts[k], x, m.id)
        BY <1>8, <2>1, <3>2
      <4>2. QED
        BY <1>2, <1>7, <3>2, <4>1
    <3>3. CASE r = Len(h) + 1 /\ m \notin Latest
      BY <1>1, <1>2, <1>9, <2>1, <3>3
    <3>4. QED
      BY <1>3, <3>1, <3>2, <3>3
  <2>2. QED
    BY <2>1 DEF ReceiptsExact
<1>11. QED
  BY <1>2, <1>4, <1>10

-----------------------------------------------------------------------------
(* What the store does, and the invariant. *)

LEMMA NothingPrepared ==
    ASSUME prepared' = <<>>
    PROVE  PreparedOK'
<1>1. prepared' \in Seq([old : Message, new : Message])' /\ DOMAIN prepared' = {}
  OBVIOUS
<1>2. QED
  BY <1>1 DEF PreparedOK

(* A commit that succeeds publishes a version that follows. *)
LEMMA Publishes ==
    ASSUME MessagesInv, NEW v, Follows(v), Store!PublishVersion(v),
           dirty' \in BOOLEAN, PreparedOK'
    PROVE  MessagesInv' /\ Forward(Latest, Latest')
<1>1. /\ published' = Append(published, v) /\ shown' = v
      /\ available' = available /\ unsettled' = unsettled /\ available
  BY DEF Store!PublishVersion
<1>2. /\ published' \in Seq(SUBSET Message) /\ Latest' = v
      /\ OneRecordPerId' /\ ReceiptsExact'
  BY <1>1, Extended
<1>3. unsettled' = {}
  BY <1>1 DEF MessagesInv
<1>4. /\ v \in SUBSET Message /\ IsFiniteSet(PendingOf(v))
      /\ Cardinality(PendingOf(v)) <= MaxPending /\ Forward(Latest, v)
  BY DEF Follows
<1>5. IsFiniteSet(PendingOf(Latest))' /\ (Cardinality(PendingOf(Latest)) <= MaxPending)'
  BY <1>2, <1>4 DEF PendingOf
<1>6. IsFiniteSet(PendingOf(shown))' /\ (Cardinality(PendingOf(shown)) <= MaxPending)'
  BY <1>1, <1>4 DEF PendingOf
<1>7. QED
  BY <1>1, <1>2, <1>3, <1>4, <1>5, <1>6 DEF MessagesInv

(* The handle goes, and what is in doubt follows. *)
LEMMA Loses ==
    ASSUME MessagesInv, NEW D, \A w \in D : Follows(w), Gone(D)
    PROVE  MessagesInv' /\ Forward(Latest, Latest')
<1>1. /\ published' = published /\ shown' = shown /\ available' = FALSE
      /\ unsettled' = D /\ dirty' = FALSE /\ prepared' = <<>>
  BY DEF Gone, Store!DetachInDoubt
<1>2. Latest' = Latest
  BY <1>1 DEF Latest
<1>3. \A w \in D : Follows(w)'
  BY <1>1, <1>2 DEF Follows, Fresh
<1>4. OneRecordPerId' /\ ReceiptsExact'
  BY <1>1 DEF MessagesInv, OneRecordPerId, ReceiptsExact, Holds
<1>5. PendingOf(Latest)' = PendingOf(Latest) /\ PendingOf(shown)' = PendingOf(shown)
  BY <1>1, <1>2 DEF PendingOf
<1>6. PreparedOK'
  BY <1>1, NothingPrepared
<1>7. Forward(Latest, Latest')
  BY <1>2, SameFollows DEF Follows
<1>8. QED
  BY <1>1, <1>3, <1>4, <1>5, <1>6, <1>7 DEF MessagesInv

LEMMA CommitMayFail ==
    ASSUME MessagesInv, NEW old, NEW new, Follows(Moved(old, new)), CommitFails(old, new)
    PROVE  MessagesInv' /\ Forward(Latest, Latest')
<1>1. CASE Gone({})
  BY <1>1, Loses
<1>2. CASE Gone({Moved(old, new)})
  BY <1>2, Loses
<1>3. QED
  BY <1>1, <1>2 DEF CommitFails

(* Steps that touch neither the store nor what the inbox has prepared. *)
LEMMA StoreRests ==
    ASSUME MessagesInv, UNCHANGED store, dirty' \in BOOLEAN, PreparedOK'
    PROVE  MessagesInv' /\ Forward(Latest, Latest')
<1>1. /\ published' = published /\ shown' = shown /\ available' = available
      /\ unsettled' = unsettled
  BY DEF store
<1>2. Latest' = Latest
  BY <1>1 DEF Latest
<1>3. \A w \in unsettled' : Follows(w)'
  BY <1>1, <1>2 DEF MessagesInv, Follows, Fresh
<1>4. OneRecordPerId' /\ ReceiptsExact'
  BY <1>1 DEF MessagesInv, OneRecordPerId, ReceiptsExact, Holds
<1>5. PendingOf(Latest)' = PendingOf(Latest) /\ PendingOf(shown)' = PendingOf(shown)
  BY <1>1, <1>2 DEF PendingOf
<1>6. Forward(Latest, Latest')
  BY <1>2, SameFollows DEF Follows
<1>7. QED
  BY <1>1, <1>2, <1>3, <1>4, <1>5, <1>6 DEF MessagesInv

LEMMA Reopens ==
    ASSUME MessagesInv, Reopen
    PROVE  MessagesInv' /\ Forward(Latest, Latest')
<1>1. /\ ~available /\ available' = TRUE /\ shown' = Latest' /\ unsettled' = {}
      /\ dirty' = dirty /\ prepared' = prepared
  BY DEF Reopen, Store!Attach, Latest
<1>2. prepared' = <<>>
  BY <1>1 DEF MessagesInv, PreparedOK
<1>3. PreparedOK'
  BY <1>2, NothingPrepared
<1>4. CASE published' = published
  <2>1. Latest' = Latest
    BY <1>4 DEF Latest
  <2>2. OneRecordPerId' /\ ReceiptsExact'
    BY <1>4 DEF MessagesInv, OneRecordPerId, ReceiptsExact, Holds
  <2>3. Latest \in SUBSET Message /\ Forward(Latest, Latest')
    BY <2>1, SameFollows DEF Follows
  <2>4. PendingOf(Latest)' = PendingOf(Latest) /\ PendingOf(shown)' = PendingOf(Latest)
    BY <1>1, <2>1 DEF PendingOf
  <2>5. QED
    BY <1>1, <1>3, <1>4, <2>1, <2>2, <2>3, <2>4 DEF MessagesInv
<1>5. ASSUME NEW v \in unsettled, published' = Append(published, v)
      PROVE  MessagesInv' /\ Forward(Latest, Latest')
  <2>1. Follows(v)
    BY <1>5 DEF MessagesInv
  <2>2. /\ published' \in Seq(SUBSET Message) /\ Latest' = v
        /\ OneRecordPerId' /\ ReceiptsExact'
    BY <1>5, <2>1, Extended
  <2>3. /\ v \in SUBSET Message /\ IsFiniteSet(PendingOf(v))
        /\ Cardinality(PendingOf(v)) <= MaxPending /\ Forward(Latest, v)
    BY <2>1 DEF Follows
  <2>4. PendingOf(Latest)' = PendingOf(v) /\ PendingOf(shown)' = PendingOf(v)
    BY <1>1, <2>2 DEF PendingOf
  <2>5. QED
    BY <1>1, <1>3, <2>2, <2>3, <2>4 DEF MessagesInv
<1>6. QED
  BY <1>4, <1>5 DEF Reopen, Store!Attach

(* check: what it prepares fits the store, the k-th of it k commits ahead. *)
LEMMA Checks ==
    ASSUME MessagesInv, NEW n \in 1 .. MaxPending,
           NEW matching \in [1 .. n -> WithStatus("pending")], Check(matching)
    PROVE  MessagesInv' /\ Forward(Latest, Latest')
<1>1. /\ available /\ UNCHANGED store /\ dirty' = dirty /\ dirty = FALSE
      /\ shown \in SUBSET Message /\ Len(published) \in Nat
      /\ n \in Nat /\ DOMAIN matching = 1 .. n
  BY LatestTypes, Bounds DEF MessagesInv, Check, Ready
<1>2. \A k \in 1 .. n : /\ matching[k] \in Message /\ matching[k] \in shown
                       /\ matching[k].status = "pending" /\ matching[k].id \in Nat
  <2>1. ASSUME NEW k \in 1 .. n
        PROVE  matching[k] \in shown /\ matching[k].status = "pending"
    <3>1. matching[k] \in WithStatus("pending")
      OBVIOUS
    <3>2. QED
      BY <3>1 DEF WithStatus
  <2>2. \A m \in Message : m.id \in Nat
    BY Bounds DEF Message
  <2>3. QED
    BY <1>1, <2>1, <2>2
<1>3. \A k \in 1 .. n : ReceiptRevision(k) = Len(published) + k /\ Len(published) + k \in Nat
  BY <1>1 DEF ReceiptRevision, NextRevision
<1> DEFINE entry(k) == [old |-> matching[k],
                        new |-> Changed(matching[k], "ready", Len(published) + k)]
<1>4. \A k \in 1 .. n : entry(k) \in [old : Message, new : Message]
  BY <1>2, <1>3, ChangedRecord DEF Statuses
<1>5. prepared' = [k \in 1 .. n |-> entry(k)]
  BY <1>1, <1>3 DEF Check
<1>6. /\ \A k \in 1 .. n : /\ entry(k).old = matching[k]
                           /\ entry(k).new = Changed(matching[k], "ready", Len(published) + k)
  OBVIOUS
<1> HIDE DEF entry
<1>7. prepared' \in Seq([old : Message, new : Message]) /\ DOMAIN prepared' = 1 .. n
  BY <1>1, <1>4, <1>5
<1>8. \A k \in DOMAIN prepared' :
         /\ prepared'[k].old = matching[k]
         /\ prepared'[k].new = Changed(matching[k], "ready", Len(published) + k)
  BY <1>5, <1>6, <1>7
<1>9. \A j, k \in 1 .. n : matching[j].id = matching[k].id => j = k
  <2>1. \A j, k \in 1 .. n : j < k => matching[j].id < matching[k].id
    BY <1>1 DEF Check, Sorted
  <2>2. QED
    BY <1>2, <2>1
<1>10. published' = published /\ shown' = shown /\ available' = available
  BY <1>1 DEF store
<1>11. PreparedOK'
  <2>1. Len(published') = Len(published)
    BY <1>10
  <2>2. \A k \in DOMAIN prepared' :
           /\ prepared'[k].old \in shown' /\ prepared'[k].old.status = "pending"
           /\ prepared'[k].new
                = Changed(prepared'[k].old, "ready", Len(published') + k)
    BY <1>2, <1>7, <1>8, <1>10, <2>1
  <2>3. \A j, k \in DOMAIN prepared' :
           prepared'[j].old.id = prepared'[k].old.id => j = k
    BY <1>7, <1>8, <1>9
  <2>4. QED
    BY <1>1, <1>7, <1>10, <2>2, <2>3 DEF PreparedOK
<1>12. QED
  BY <1>1, <1>11, StoreRests DEF MessagesInv

(* The head of what is prepared is a transition of this very revision. *)
LEMMA HeadFollows ==
    ASSUME MessagesInv, prepared # <<>>
    PROVE  /\ available
           /\ Head(prepared).old \in shown /\ Head(prepared).old \in Message
           /\ Head(prepared).new \in Message
           /\ Head(prepared).new.id = Head(prepared).old.id
           /\ Follows(Moved({Head(prepared).old}, Head(prepared).new))
<1>1. /\ available /\ prepared \in Seq([old : Message, new : Message])
      /\ shown \in SUBSET Message /\ Len(published) \in Nat
  BY LatestTypes DEF MessagesInv, PreparedOK
<1>2. 1 \in DOMAIN prepared /\ Head(prepared) = prepared[1]
  BY <1>1
<1>3. PICK m \in shown : m = Head(prepared).old
  BY <1>2 DEF MessagesInv, PreparedOK
<1>4. /\ m.status = "pending" /\ m \in Message
      /\ Head(prepared).new = Changed(m, "ready", NextRevision)
  BY <1>1, <1>2, <1>3 DEF MessagesInv, PreparedOK, NextRevision
<1>5. "ready" \in Successors(m.status) /\ "ready" # m.status /\ "ready" \in Statuses
  BY <1>4 DEF Successors, Statuses
<1>6. Follows(Moved({m}, Changed(m, "ready", NextRevision)))
  BY <1>1, <1>5, MovedFollows
<1>7. PICK r \in Nat : r = NextRevision
  BY <1>1 DEF NextRevision
<1>8. Changed(m, "ready", r) \in Message /\ Changed(m, "ready", r).id = m.id
  BY <1>4, <1>5, ChangedRecord
<1>9. QED
  BY <1>1, <1>3, <1>4, <1>6, <1>7, <1>8

LEMMA Releases ==
    ASSUME MessagesInv, Release
    PROVE  MessagesInv' /\ Forward(Latest, Latest')
<1>1. PICK m, new : m = Head(prepared).old /\ new = Head(prepared).new
  OBVIOUS
<1>2. /\ prepared # <<>> /\ prepared' = Tail(prepared) /\ dirty' = dirty
      /\ Store!PublishVersion(Moved({m}, new))
  BY <1>1 DEF Release, Commits
<1>3. /\ available /\ m \in shown /\ new.id = m.id
      /\ Follows(Moved({m}, new))
  BY <1>1, <1>2, HeadFollows
<1>4. /\ prepared \in Seq([old : Message, new : Message])
      /\ published \in Seq(SUBSET Message) /\ Len(published) \in Nat
      /\ Len(prepared) \in Nat \ {0} /\ DOMAIN prepared = 1 .. Len(prepared)
      /\ m = prepared[1].old
  BY <1>1, <1>2, LatestTypes DEF MessagesInv, PreparedOK
<1>5. /\ published' = Append(published, Moved({m}, new)) /\ shown' = Moved({m}, new)
      /\ available'
  BY <1>2 DEF Store!PublishVersion
<1>6. Len(published') = Len(published) + 1
  BY <1>4, <1>5
<1>7. /\ prepared' \in Seq([old : Message, new : Message])
      /\ \A k \in DOMAIN prepared' :
            k \in Nat \ {0} /\ k + 1 \in DOMAIN prepared /\ prepared'[k] = prepared[k + 1]
  BY <1>2, <1>4
<1>8. ASSUME NEW k \in DOMAIN prepared'
      PROVE  /\ prepared'[k].old \in shown' /\ prepared'[k].old.status = "pending"
             /\ prepared'[k].new
                  = Changed(prepared'[k].old, "ready", Len(published') + k)
  <2>1. PICK j \in DOMAIN prepared : j = k + 1 /\ k \in Nat \ {0} /\ prepared'[k] = prepared[j]
    BY <1>7
  <2>2. /\ prepared[j].old \in shown /\ prepared[j].old.status = "pending"
        /\ prepared[j].new = Changed(prepared[j].old, "ready", Len(published) + j)
    BY DEF MessagesInv, PreparedOK
  <2>3. prepared[j].old.id # m.id
    <3>1. 1 \in DOMAIN prepared /\ j # 1
      BY <1>4, <2>1
    <3>2. QED
      BY <1>4, <3>1 DEF MessagesInv, PreparedOK
  <2>4. prepared[j].old \in shown'
    BY <1>5, <2>2, <2>3 DEF Moved
  <2>5. Len(published) + j = Len(published') + k
    BY <1>4, <1>6, <2>1
  <2>6. QED
    BY <2>1, <2>2, <2>4, <2>5
<1>9. ASSUME NEW j \in DOMAIN prepared', NEW k \in DOMAIN prepared',
             prepared'[j].old.id = prepared'[k].old.id
      PROVE  j = k
  <2>1. PICK a \in DOMAIN prepared : a = j + 1 /\ j \in Nat /\ prepared'[j] = prepared[a]
    BY <1>7
  <2>2. PICK b \in DOMAIN prepared : b = k + 1 /\ k \in Nat /\ prepared'[k] = prepared[b]
    BY <1>7
  <2>3. a = b
    BY <1>9, <2>1, <2>2 DEF MessagesInv, PreparedOK
  <2>4. QED
    BY <2>1, <2>2, <2>3
<1>10. PreparedOK'
  BY <1>2, <1>5, <1>7, <1>8, <1>9 DEF MessagesInv, PreparedOK
<1>11. dirty' \in BOOLEAN
  BY <1>2 DEF MessagesInv
<1>12. QED
  BY <1>2, <1>3, <1>10, <1>11, Publishes

LEMMA Transitions ==
    ASSUME MessagesInv, NEW m \in shown, NEW s \in {"acknowledged", "cancelled"},
           Transition(m, s) \/ TransitionFails(m, s)
    PROVE  MessagesInv' /\ Forward(Latest, Latest')
<1>1. Ready /\ available /\ prepared = <<>> /\ Allowed(m, s)
  BY DEF Transition, TransitionFails, Ready
<1>2. s \in Successors(m.status) /\ s # m.status
  BY <1>1 DEF Allowed, Successors
<1>3. Follows(Moved({m}, Changed(m, s, NextRevision)))
  BY <1>1, <1>2, MovedFollows
<1>4. CASE Transition(m, s)
  <2>1. /\ Store!PublishVersion(Moved({m}, Changed(m, s, NextRevision)))
        /\ dirty' = dirty /\ prepared' = <<>>
    BY <1>1, <1>4 DEF Transition, Commits
  <2>2. dirty' \in BOOLEAN
    BY <2>1 DEF MessagesInv
  <2>3. QED
    BY <1>3, <2>1, <2>2, NothingPrepared, Publishes
<1>5. CASE TransitionFails(m, s)
  BY <1>3, <1>5, CommitMayFail DEF TransitionFails
<1>6. QED
  BY <1>4, <1>5

LEMMA Creations ==
    ASSUME MessagesInv, NEW i \in Ids, NEW s \in Specs, Create(i, s) \/ CreateFails(i, s)
    PROVE  MessagesInv' /\ Forward(Latest, Latest')
<1>1. Creates(i) /\ available /\ prepared = <<>>
  BY DEF Create, CreateFails, Creates, Ready
<1>2. Follows(Moved({}, Created(i, s)))
  BY <1>1, CreatedFollows
<1>3. CASE Create(i, s)
  <2>1. /\ Store!PublishVersion(Moved({}, Created(i, s)))
        /\ dirty' = dirty /\ prepared' = <<>>
    BY <1>1, <1>3 DEF Create, Commits
  <2>2. dirty' \in BOOLEAN
    BY <2>1 DEF MessagesInv
  <2>3. QED
    BY <1>2, <2>1, <2>2, NothingPrepared, Publishes
<1>4. CASE CreateFails(i, s)
  BY <1>2, <1>4, CommitMayFail DEF CreateFails
<1>5. QED
  BY <1>3, <1>4

LEMMA MessagesStep ==
    ASSUME MessagesInv, [FMNext]_fmVars
    PROVE  MessagesInv' /\ Forward(Latest, Latest')
<1>1. CASE Reopen
  BY <1>1, Reopens
<1>2. CASE StageKey
  <2>1. UNCHANGED store /\ dirty' \in BOOLEAN /\ prepared' = <<>>
    BY <1>2 DEF StageKey
  <2>2. QED
    BY <2>1, NothingPrepared, StoreRests
<1>3. CASE CommitOther
  <2>1. available /\ dirty' = FALSE /\ prepared' = prepared /\ Store!PublishVersion(shown)
    BY <1>3 DEF CommitOther
  <2>2. Follows(shown)
    BY <2>1, SameFollows DEF MessagesInv
  <2>3. CASE prepared = <<>>
    BY <2>1, <2>2, <2>3, NothingPrepared, Publishes
  <2>4. dirty
    BY <1>3 DEF CommitOther
  <2>5. QED
    BY <2>1, <2>2, <2>3, <2>4 DEF MessagesInv, PreparedOK
<1>4. CASE Dies \/ CommitOtherUncertain
  <2>1. CASE Dies
    BY <2>1, Loses DEF Dies
  <2>2. CASE CommitOtherUncertain
    <3>1. available /\ shown = Latest /\ Gone({shown})
      BY <2>2 DEF CommitOtherUncertain, MessagesInv
    <3>2. QED
      BY <3>1, SameFollows, Loses
  <2>3. QED
    BY <1>4, <2>1, <2>2
<1>5. ASSUME NEW i \in Ids, NEW s \in Specs, Create(i, s) \/ CreateFails(i, s)
      PROVE  MessagesInv' /\ Forward(Latest, Latest')
  BY <1>5, Creations
<1>6. ASSUME NEW n \in 1 .. MaxPending,
             NEW matching \in [1 .. n -> WithStatus("pending")], Check(matching)
      PROVE  MessagesInv' /\ Forward(Latest, Latest')
  BY <1>6, Checks
<1>7. CASE Release
  BY <1>7, Releases
<1>8. CASE ReleaseFails
  BY <1>8, HeadFollows, CommitMayFail DEF ReleaseFails
<1>9. ASSUME NEW m \in shown, Acknowledge(m) \/ Cancel(m)
      PROVE  MessagesInv' /\ Forward(Latest, Latest')
  BY <1>9, Transitions DEF Acknowledge, Cancel
<1>10. CASE UNCHANGED fmVars
  <2>1. UNCHANGED store /\ dirty' = dirty /\ prepared' = prepared
    BY <1>10 DEF fmVars
  <2>2. PreparedOK' /\ dirty' \in BOOLEAN
    BY <2>1 DEF MessagesInv, PreparedOK, store
  <2>3. QED
    BY <2>1, <2>2, StoreRests
<1>11. QED
  BY <1>1, <1>2, <1>3, <1>4, <1>5, <1>6, <1>7, <1>8, <1>9, <1>10 DEF FMNext

LEMMA MessagesInvariant == FMSpec => []MessagesInv
<1>1. MessagesInv /\ [FMNext]_fmVars => MessagesInv'
  BY MessagesStep
<1>2. QED
  BY MessagesInitially, <1>1, PTL DEF FMSpec

-----------------------------------------------------------------------------
(* The theorems. *)

(* Every version, shown or in doubt or prepared, is made of records, and   *)
(* never more than MaxPending messages are pending.                        *)
THEOREM MessagesTyped == FMSpec => []FMTypeOK
<1>1. ASSUME MessagesInv PROVE FMTypeOK
  <2>1. \A v \in SUBSET Message : IsVersion(v)
    BY DEF IsVersion, Message
  <2>2. \A r \in DOMAIN published : published[r] \in SUBSET Message
    BY <1>1 DEF MessagesInv
  <2>3. \A v \in unsettled : v \in SUBSET Message
    BY <1>1 DEF MessagesInv, Follows
  <2>4. \A k \in DOMAIN prepared : prepared[k] \in [old : Message, new : Message]
    <3>1. prepared \in Seq([old : Message, new : Message])
      BY <1>1 DEF MessagesInv, PreparedOK
    <3>2. ASSUME NEW E, NEW p \in Seq(E) PROVE \A k \in DOMAIN p : p[k] \in E
      OBVIOUS
    <3>3. QED
      BY <3>1, <3>2
  <2>5. \A k \in DOMAIN prepared :
           {prepared[k].old, prepared[k].new} \in SUBSET Message
    BY <2>4
  <2>6. PendingOf(shown) = WithStatus("pending")
    BY DEF PendingOf, WithStatus
  <2>7. QED
    BY <1>1, <2>1, <2>2, <2>3, <2>5, <2>6 DEF MessagesInv, FMTypeOK
<1>2. QED
  BY <1>1, MessagesInvariant, PTL

(* No revision holds a message under two statuses, though a transition is  *)
(* a put and a delete and may fail or be lost.                             *)
THEOREM NeverUnderTwoStatuses == FMSpec => []OneRecordPerId
<1>1. MessagesInv => OneRecordPerId
  BY DEF MessagesInv
<1>2. QED
  BY <1>1, MessagesInvariant, PTL

(* Every receipt names the revision of its own transition, those that a    *)
(* check settled before the first of its commits included.                 *)
THEOREM ReceiptsNameTheirRevision == FMSpec => []ReceiptsExact
<1>1. MessagesInv => ReceiptsExact
  BY DEF MessagesInv
<1>2. QED
  BY <1>1, MessagesInvariant, PTL

(* No message is lost, changed or taken back.                              *)
THEOREM MessagesOnlyAdvance == FMSpec => NeverBack
<1>1. MessagesInv /\ [FMNext]_fmVars =>
        [\A m \in Store!Latest(published) : \E n \in Store!Latest(published') :
            n.id = m.id /\ n.spec = m.spec /\ n.status \in Successors(m.status)]_fmVars
  BY MessagesStep DEF Forward, Latest
<1>2. QED
  BY <1>1, MessagesInvariant, PTL DEF FMSpec, NeverBack

(* What the inbox does to the store is what the abstract store allows.     *)
THEOREM MessagesUseTheStore == FMSpec => Store!AbsSpec
<1>1. ASSUME MessagesInv, MessagesInv', NEW v, Store!PublishVersion(v) PROVE Store!AbsNext
  <2>1. v \in SUBSET Message
    BY <1>1 DEF MessagesInv, Store!PublishVersion
  <2>2. QED
    BY <1>1, <2>1 DEF Store!AbsNext, Store!Publish
<1>2. ASSUME MessagesInv, MessagesInv', NEW vs, Gone(vs), vs = {} \/ \E v : vs = {v} PROVE Store!AbsNext
  <2>1. Store!DetachInDoubt(vs) /\ unsettled' = vs
    BY <1>2 DEF Gone, Store!DetachInDoubt
  <2>2. \A v \in vs : v \in SUBSET Message
    BY <1>2, <2>1 DEF MessagesInv, Follows
  <2>3. vs = {} \/ \E v \in SUBSET Message : vs = {v}
    BY <1>2, <2>2
  <2>4. Store!Detach
    BY <2>1, <2>3 DEF Store!Detach
  <2>5. QED
    BY <2>4 DEF Store!AbsNext
<1>3. ASSUME MessagesInv, MessagesInv', NEW old, NEW new, Commits(old, new) \/ CommitFails(old, new)
      PROVE  Store!AbsNext
  BY <1>1, <1>2, <1>3 DEF Commits, CommitFails
<1>4. ASSUME MessagesInv, [FMNext]_fmVars PROVE [Store!AbsNext]_(Store!absVars)
  <2>1. MessagesInv'
    BY <1>4, MessagesStep
  <2>2. CASE Reopen
    BY <2>2 DEF Reopen, Store!AbsNext
  <2>3. CASE StageKey \/ UNCHANGED fmVars
    BY <2>3 DEF StageKey, fmVars, store, Store!absVars
  <2>4. CASE CommitOther
    BY <1>1, <1>4, <2>1, <2>4 DEF CommitOther
  <2>5. CASE CommitOtherUncertain \/ Dies
    BY <1>2, <1>4, <2>1, <2>5 DEF CommitOtherUncertain, Dies
  <2>6. ASSUME NEW i \in Ids, NEW s \in Specs, Create(i, s) \/ CreateFails(i, s) PROVE Store!AbsNext
    BY <1>3, <1>4, <2>1, <2>6 DEF Create, CreateFails
  <2>7. ASSUME NEW matching, Check(matching) PROVE UNCHANGED Store!absVars
    BY <2>7 DEF Check, store, Store!absVars
  <2>8. CASE Release \/ ReleaseFails
    BY <1>3, <1>4, <2>1, <2>8 DEF Release, ReleaseFails
  <2>9. ASSUME NEW m, NEW s, Transition(m, s) \/ TransitionFails(m, s) PROVE Store!AbsNext
    BY <1>3, <1>4, <2>1, <2>9 DEF Transition, TransitionFails
  <2>10. QED
    BY <1>4, <2>2, <2>3, <2>4, <2>5, <2>6, <2>7, <2>8, <2>9 DEF FMNext, Acknowledge, Cancel
<1>5. FMInit => Store!AbsInit
  BY DEF FMInit
<1>6. QED
  BY <1>4, <1>5, MessagesInvariant, PTL DEF FMSpec, Store!AbsSpec

-----------------------------------------------------------------------------
(* LiveHost, for any names, roots and dependencies, any sizes of the       *)
(* observations and any limit of the queue.                                *)
(*                                                                         *)
(* LiveGood relates what the VM holds, what was answered, what is queued   *)
(* and what was accepted; k observations are in hand, taken from the queue *)
(* and not yet answered.  Resuming is a recursive function of the queue:   *)
(* what holds of its first value and of each next one holds of the last,   *)
(* by the least number that is no exception (UpTo).                        *)

(* Numbers: the first that does not. *)

LEMMA LeastOf ==
  ASSUME NEW S, S \subseteq Nat, S # {}
  PROVE  \E m \in S : \A y \in S : m <= y
<1>1. PICK m \in S : \A y \in S : ~(<<y, m>> \in OpToRel(<, Nat))
  BY NatLessThanWellFounded, WFMin, Zenon
<1>2. ASSUME NEW y \in S PROVE m <= y
  <2>1. y \in Nat /\ m \in Nat
    OBVIOUS
  <2>2. ~(y < m)
    BY <1>1, <2>1 DEF OpToRel
  <2>3. QED
    BY <2>1, <2>2
<1>3. QED
  BY <1>2

(* What holds of 0 and of the next number holds up to N: as a set. *)
LEMMA UpTo ==
  ASSUME NEW N \in Nat, NEW S, 0 \in S, \A k \in 0 .. N : k + 1 <= N /\ k \in S => k + 1 \in S
  PROVE  0 .. N \subseteq S
<1> SUFFICES ASSUME ~(0 .. N \subseteq S) PROVE FALSE
  OBVIOUS
<1>1. PICK T : T = {k \in 0 .. N : k \notin S}
  OBVIOUS
<1>2. T \subseteq Nat /\ T # {}
  BY <1>1
<1>3. PICK m \in T : \A y \in T : m <= y
  BY <1>2, LeastOf
<1>4. m \in 0 .. N /\ m \notin S /\ m # 0
  BY <1>1
<1>5. m - 1 \in 0 .. N /\ (m - 1) + 1 = m /\ m <= N /\ ~(m <= m - 1)
  BY <1>4
<1>6. m - 1 \in S
  BY <1>1, <1>3, <1>5
<1>7. QED
  BY <1>4, <1>5, <1>6

-----------------------------------------------------------------------------
(* The bytes of a queue. *)

Queued == [id : Nat, bytes : Nat]

TotalIs(q, n, g) == g = [i \in 0 .. n |-> IF i = 0 THEN 0 ELSE g[i - 1] + q[i].bytes]

LEMMA TotalExists ==
  ASSUME NEW q, NEW N \in Nat
  PROVE  \E g : TotalIs(q, N, g)
<1>1. PICK S : S = {n \in Nat : \E g : TotalIs(q, n, g)}
  OBVIOUS
<1>2. 0 \in S
  <2>1. PICK g : g = [i \in 0 .. 0 |-> 0]
    OBVIOUS
  <2>2. TotalIs(q, 0, g)
    BY <2>1 DEF TotalIs
  <2>3. QED
    BY <1>1, <2>2
<1>3. ASSUME NEW k \in 0 .. N, k + 1 <= N, k \in S PROVE k + 1 \in S
  <2>1. PICK g : TotalIs(q, k, g)
    BY <1>1, <1>3
  <2>2. PICK h : h = [i \in 0 .. k + 1 |-> IF i = k + 1 THEN g[k] + q[k + 1].bytes ELSE g[i]]
    OBVIOUS
  <2>3. k \in Nat /\ k + 1 \in Nat
    OBVIOUS
  <2>4. \A i \in 0 .. k : h[i] = g[i] /\ i # k + 1
    BY <2>2, <2>3
  <2>5. ASSUME NEW i \in 0 .. k + 1
        PROVE  h[i] = IF i = 0 THEN 0 ELSE h[i - 1] + q[i].bytes
    <3>1. CASE i = k + 1
      <4>1. h[i] = g[k] + q[i].bytes /\ i # 0 /\ i - 1 = k
        BY <2>2, <2>3, <3>1
      <4>2. h[k] = g[k]
        BY <2>3, <2>4
      <4>3. QED
        BY <4>1, <4>2
    <3>2. CASE i # k + 1
      <4>1. i \in 0 .. k /\ (i # 0 => i - 1 \in 0 .. k)
        BY <2>3, <3>2
      <4>2. g[i] = IF i = 0 THEN 0 ELSE g[i - 1] + q[i].bytes
        BY <2>1, <4>1 DEF TotalIs
      <4>3. QED
        BY <2>4, <4>1, <4>2
    <3>3. QED
      BY <3>1, <3>2
  <2>6. h = [i \in 0 .. k + 1 |-> h[i]]
    BY <2>2
  <2>7. TotalIs(q, k + 1, h)
    BY <2>5, <2>6 DEF TotalIs
  <2>8. QED
    BY <1>1, <2>3, <2>7
<1>4. 0 .. N \subseteq S
  BY <1>2, <1>3, UpTo
<1>5. N \in S
  BY <1>4
<1>6. QED
  BY <1>1, <1>5

LEMMA BytesAre ==
  ASSUME NEW q, Len(q) \in Nat
  PROVE  TotalIs(q, Len(q), Bytes(q))
<1>1. \E g : TotalIs(q, Len(q), g)
  BY TotalExists
<1>2. Bytes(q) = CHOOSE g : TotalIs(q, Len(q), g)
  BY Zenon DEF Bytes, TotalIs
<1>3. QED
  BY <1>1, <1>2, Zenon

LEMMA BytesStep ==
  ASSUME NEW q \in Seq(Queued)
  PROVE  /\ Bytes(q)[0] = 0
         /\ \A i \in 1 .. Len(q) : Bytes(q)[i] = Bytes(q)[i - 1] + q[i].bytes
<1>1. Len(q) \in Nat
  OBVIOUS
<1>2. Bytes(q) = [i \in 0 .. Len(q) |-> IF i = 0 THEN 0 ELSE Bytes(q)[i - 1] + q[i].bytes]
  BY <1>1, BytesAre DEF TotalIs
<1>3. PICK b : b = Bytes(q)
  OBVIOUS
<1>4. b = [i \in 0 .. Len(q) |-> IF i = 0 THEN 0 ELSE b[i - 1] + q[i].bytes]
  BY <1>2, <1>3
<1>5. b[0] = 0 /\ \A i \in 1 .. Len(q) : b[i] = b[i - 1] + q[i].bytes
  BY <1>1, <1>4
<1>6. QED
  BY <1>3, <1>5

LEMMA BytesNat ==
  ASSUME NEW q \in Seq(Queued)
  PROVE  \A i \in 0 .. Len(q) : Bytes(q)[i] \in Nat
<1>1. PICK b : b = Bytes(q)
  OBVIOUS
<1>2. b[0] = 0 /\ \A i \in 1 .. Len(q) : b[i] = b[i - 1] + q[i].bytes
  BY <1>1, BytesStep
<1>3. PICK S : S = {i \in Nat : b[i] \in Nat}
  OBVIOUS
<1>4. 0 \in S
  BY <1>2, <1>3
<1>5. ASSUME NEW k \in 0 .. Len(q), k + 1 <= Len(q), k \in S PROVE k + 1 \in S
  <2>1. k + 1 \in 1 .. Len(q) /\ (k + 1) - 1 = k
    BY <1>5
  <2>2. q[k + 1] \in Queued
    BY <2>1
  <2>3. b[k + 1] = b[k] + q[k + 1].bytes
    BY <1>2, <2>1
  <2>4. QED
    BY <1>3, <1>5, <2>2, <2>3 DEF Queued
<1>6. Len(q) \in Nat
  OBVIOUS
<1>7. 0 .. Len(q) \subseteq S
  BY <1>4, <1>5, <1>6, UpTo
<1>8. QED
  BY <1>1, <1>3, <1>7

LEMMA BytesAppend ==
  ASSUME NEW q \in Seq(Queued), NEW o \in Queued
  PROVE  Bytes(Append(q, o))[Len(q) + 1] = Bytes(q)[Len(q)] + o.bytes
<1>1. PICK b, a, p : b = Bytes(q) /\ p = Append(q, o) /\ a = Bytes(p)
  OBVIOUS
<1>2. /\ p \in Seq(Queued) /\ Len(p) = Len(q) + 1 /\ p[Len(q) + 1] = o /\ Len(q) \in Nat
      /\ \A i \in 1 .. Len(q) : p[i] = q[i]
  BY <1>1
<1>3. b[0] = 0 /\ \A i \in 1 .. Len(q) : b[i] = b[i - 1] + q[i].bytes
  BY <1>1, BytesStep
<1>4. a[0] = 0 /\ \A i \in 1 .. Len(p) : a[i] = a[i - 1] + p[i].bytes
  BY <1>1, <1>2, BytesStep
<1>5. PICK S : S = {i \in Nat : a[i] = b[i]}
  OBVIOUS
<1>6. 0 \in S
  BY <1>3, <1>4, <1>5
<1>7. ASSUME NEW k \in 0 .. Len(q), k + 1 <= Len(q), k \in S PROVE k + 1 \in S
  <2>1. k + 1 \in 1 .. Len(q) /\ k + 1 \in 1 .. Len(p) /\ (k + 1) - 1 = k /\ k + 1 \in Nat
    BY <1>2, <1>7
  <2>2. b[k + 1] = b[k] + q[k + 1].bytes /\ a[k + 1] = a[k] + q[k + 1].bytes
    BY <1>2, <1>3, <1>4, <2>1
  <2>3. QED
    BY <1>5, <1>7, <2>1, <2>2
<1>8. 0 .. Len(q) \subseteq S
  BY <1>2, <1>6, <1>7, UpTo
<1>9. a[Len(q)] = b[Len(q)]
  BY <1>2, <1>5, <1>8
<1>10. Len(q) + 1 \in 1 .. Len(p) /\ (Len(q) + 1) - 1 = Len(q)
  BY <1>2
<1>11. a[Len(q) + 1] = a[Len(q)] + o.bytes
  BY <1>2, <1>4, <1>10
<1>12. QED
  BY <1>1, <1>9, <1>11

LEMMA BytesTail ==
  ASSUME NEW q \in Seq(Queued), q # <<>>
  PROVE  /\ Bytes(q)[Len(q)] = Head(q).bytes + Bytes(Tail(q))[Len(Tail(q))]
         /\ Bytes(Tail(q))[Len(Tail(q))] = Bytes(q)[Len(q)] - Head(q).bytes
         /\ Bytes(Tail(q))[Len(Tail(q))] \in Nat /\ Bytes(q)[Len(q)] \in Nat
         /\ Head(q).bytes \in Nat
<1>1. PICK b, t, p : b = Bytes(q) /\ p = Tail(q) /\ t = Bytes(p)
  OBVIOUS
<1>2. /\ p \in Seq(Queued) /\ Len(p) = Len(q) - 1 /\ Len(p) \in Nat /\ Len(q) \in Nat
      /\ Head(q) = q[1] /\ q[1] \in Queued
      /\ \A i \in 1 .. Len(p) : p[i] = q[i + 1]
  BY <1>1
<1>3. b[0] = 0 /\ \A i \in 1 .. Len(q) : b[i] = b[i - 1] + q[i].bytes
  BY <1>1, BytesStep
<1>4. t[0] = 0 /\ \A i \in 1 .. Len(p) : t[i] = t[i - 1] + p[i].bytes
  BY <1>1, <1>2, BytesStep
<1>5. /\ \A i \in 0 .. Len(q) : b[i] \in Nat
      /\ \A i \in 0 .. Len(p) : t[i] \in Nat
  BY <1>1, <1>2, BytesNat
<1>6. PICK S : S = {i \in Nat : b[i + 1] = q[1].bytes + t[i]}
  OBVIOUS
<1>7. 0 \in S
  <2>1. 1 \in 1 .. Len(q)
    BY <1>2
  <2>2. b[1] = b[0] + q[1].bytes
    BY <1>3, <2>1
  <2>3. b[0 + 1] = q[1].bytes + t[0]
    BY <1>2, <1>3, <1>4, <2>2 DEF Queued
  <2>4. QED
    BY <1>6, <2>3
<1>8. ASSUME NEW k \in 0 .. Len(p), k + 1 <= Len(p), k \in S PROVE k + 1 \in S
  <2>1. /\ k + 1 \in 1 .. Len(p) /\ (k + 1) - 1 = k /\ k + 1 \in Nat
        /\ k + 2 \in 1 .. Len(q) /\ (k + 2) - 1 = k + 1 /\ (k + 1) + 1 = k + 2
    BY <1>2, <1>8
  <2>2. b[k + 2] = b[k + 1] + q[k + 2].bytes
    BY <1>3, <2>1
  <2>3. t[k + 1] = t[k] + q[k + 2].bytes
    BY <1>2, <1>4, <2>1
  <2>4. b[k + 1] = q[1].bytes + t[k]
    BY <1>6, <1>8
  <2>5. q[k + 2] \in Queued
    BY <2>1
  <2>6. t[k] \in Nat /\ q[k + 2].bytes \in Nat /\ q[1].bytes \in Nat
    BY <1>2, <1>5, <2>1, <2>5 DEF Queued
  <2>7. b[k + 2] = q[1].bytes + t[k + 1]
    <3>1. \A x, y, z \in Nat : (x + y) + z = x + (y + z)
      OBVIOUS
    <3>2. (q[1].bytes + t[k]) + q[k + 2].bytes = q[1].bytes + (t[k] + q[k + 2].bytes)
      BY <2>6, <3>1
    <3>3. QED
      BY <2>2, <2>3, <2>4, <3>2, Zenon
  <2>8. QED
    BY <1>6, <2>1, <2>7
<1>9. 0 .. Len(p) \subseteq S
  BY <1>2, <1>7, <1>8, UpTo
<1>10. Len(p) \in S /\ Len(p) + 1 = Len(q)
  BY <1>2, <1>9
<1>11. b[Len(q)] = q[1].bytes + t[Len(p)]
  BY <1>6, <1>10
<1>12. t[Len(p)] \in Nat /\ q[1].bytes \in Nat /\ b[Len(q)] \in Nat
  BY <1>2, <1>5 DEF Queued
<1>13. t[Len(p)] = b[Len(q)] - q[1].bytes
  BY <1>11, <1>12
<1>14. QED
  BY <1>1, <1>2, <1>11, <1>12, <1>13

-----------------------------------------------------------------------------
(* The inductive invariant: of a situation, and of the variables. *)

Observation == [id : Nat, root : Roots]

InCache == [revision : Nat, partial : BOOLEAN, shows : SUBSET Observation]

LiveTypes(s) ==
    s \in [applied : Seq(Observation), cache : [Names -> InCache],
           state : {"none", "Quiescent", "Suspended", "Failed"},
           answers : Seq(BOOLEAN), queue : Seq(Queued), queueBytes : Nat]

(* What was applied is what was said to go well, in its order.              *)
HeldAsTold(held, told, rs) ==
    /\ {held[i] : i \in 1 .. Len(held)} =
           {[id |-> i, root |-> rs[i]] : i \in {j \in 1 .. Len(told) : told[j]}}
    /\ \A i, j \in 1 .. Len(held) : i < j => held[i].id < held[j].id

(* The queue goes on where the answers end, k observations further on.      *)
QueuedNext(q, told, rs, k) ==
    /\ \A i \in 1 .. Len(q) : q[i].id = Len(told) + k + i
    /\ Len(rs) = Len(told) + k + Len(q)

BytesCounted(q, b) == b = Bytes(q)[Len(q)] /\ b <= MaxQueueBytes

(* FailedShowsCurrent of any instance: a cached entry of the present        *)
(* revision is partial or shows what the VM holds.                          *)
CacheTrue(c, held) ==
    \A n \in Names :
        /\ c[n].revision <= Len(held)
        /\ c[n].revision = RevisionOf(held, n) => c[n].partial \/ c[n].shows = VMShows(held, n)

(* k observations are in hand: taken from the queue and not yet answered.   *)
LiveGood(s, rs, k) ==
    /\ LiveTypes(s) /\ HeldAsTold(s.applied, s.answers, rs)
    /\ QueuedNext(s.queue, s.answers, rs, k) /\ BytesCounted(s.queue, s.queueBytes)
    /\ CacheTrue(s.cache, s.applied)

LHInv ==
    /\ LiveGood(Situation, roots, 0) /\ roots \in Seq(Roots)
    /\ queue # <<>> => state \in {"Suspended", "Failed"}
    /\ state = "none" => applied = <<>> /\ roots = <<>> /\ answers = <<>> /\ queue = <<>>

-----------------------------------------------------------------------------
(* What the VM shows after one more observation. *)

LEMMA LastOfSome ==
  ASSUME NEW n \in Nat, NEW S, S \subseteq 1 .. n, S # {}
  PROVE  \E i \in S : \A j \in S : j <= i
<1>1. PICK T : T = {k \in 0 .. n : n - k \in S}
  OBVIOUS
<1>2. ASSUME NEW i \in S PROVE n - i \in T
  <2>1. i \in 1 .. n
    OBVIOUS
  <2>2. n - i \in 0 .. n /\ n - (n - i) = i
    BY <2>1
  <2>3. QED
    BY <1>1, <2>2
<1>3. T \subseteq Nat /\ T # {}
  <2>1. PICK i \in S : TRUE
    OBVIOUS
  <2>2. n - i \in T
    BY <1>2, <2>1
  <2>3. T \subseteq Nat
    BY <1>1
  <2>4. QED
    BY <2>2, <2>3
<1>4. PICK m \in T : \A y \in T : m <= y
  BY <1>3, LeastOf
<1>5. n - m \in S
  BY <1>1, <1>4
<1>6. ASSUME NEW j \in S PROVE j <= n - m
  <2>1. m <= n - j
    BY <1>2, <1>4
  <2>2. m \in Nat /\ j \in Nat
    BY <1>3, <1>4
  <2>3. QED
    BY <2>1, <2>2
<1>7. QED
  BY <1>5, <1>6

LEMMA RevisionIs ==
  ASSUME NEW held \in Seq(Observation), NEW n
  PROVE  /\ Reaching(held, n) = {} => RevisionOf(held, n) = 0
         /\ Reaching(held, n) # {} =>
               /\ RevisionOf(held, n) \in Reaching(held, n)
               /\ \A j \in Reaching(held, n) : j <= RevisionOf(held, n)
         /\ RevisionOf(held, n) \in Nat /\ RevisionOf(held, n) <= Len(held)
<1>1. Reaching(held, n) \subseteq 1 .. Len(held) /\ Len(held) \in Nat
  BY DEF Reaching
<1>2. CASE Reaching(held, n) = {}
  BY <1>1, <1>2 DEF RevisionOf
<1>3. CASE Reaching(held, n) # {}
  <2>1. \E i \in Reaching(held, n) : \A j \in Reaching(held, n) : j <= i
    BY <1>1, <1>3, LastOfSome
  <2>2. PICK R : R = Reaching(held, n)
    OBVIOUS
  <2>3. RevisionOf(held, n) = CHOOSE i \in R : \A j \in R : j <= i
    BY <1>3, <2>2 DEF RevisionOf
  <2>4. RevisionOf(held, n) \in R /\ \A j \in R : j <= RevisionOf(held, n)
    BY <2>1, <2>2, <2>3
  <2>5. QED
    BY <1>1, <1>3, <2>2, <2>4
<1>4. QED
  BY <1>2, <1>3

LEMMA OneMore ==
  ASSUME NEW held \in Seq(Observation), NEW o \in Observation, NEW n
  PROVE  LET more == Append(held, o)
         IN  IF n \in Depends[o.root] THEN RevisionOf(more, n) = Len(held) + 1
             ELSE /\ RevisionOf(more, n) = RevisionOf(held, n)
                  /\ VMShows(more, n) = VMShows(held, n)
<1>1. PICK more : more = Append(held, o)
  OBVIOUS
<1>2. /\ more \in Seq(Observation) /\ Len(more) = Len(held) + 1 /\ Len(held) \in Nat
      /\ more[Len(held) + 1] = o /\ \A i \in 1 .. Len(held) : more[i] = held[i]
  BY <1>1
<1>3. \A i \in 1 .. Len(more) : i \in 1 .. Len(held) \/ i = Len(held) + 1
  BY <1>2
<1>4. \A i \in 1 .. Len(held) : i \in 1 .. Len(more) /\ i # Len(held) + 1
  BY <1>2
<1>5. CASE n \in Depends[o.root]
  <2>1. Len(held) + 1 \in 1 .. Len(more)
    BY <1>2
  <2>2. Len(held) + 1 \in Reaching(more, n)
    BY <1>2, <1>5, <2>1 DEF Reaching
  <2>3. Len(held) + 1 <= RevisionOf(more, n) /\ RevisionOf(more, n) \in Nat
        /\ RevisionOf(more, n) <= Len(held) + 1
    BY <1>2, <2>2, RevisionIs
  <2>4. RevisionOf(more, n) = Len(held) + 1
    BY <1>2, <2>3
  <2>5. QED
    BY <1>1, <1>5, <2>4
<1>6. CASE n \notin Depends[o.root]
  <2>1. Reaching(more, n) = Reaching(held, n)
    BY <1>2, <1>3, <1>4, <1>6 DEF Reaching
  <2>2. RevisionOf(more, n) = RevisionOf(held, n)
    BY <2>1 DEF RevisionOf
  <2>3. \A i \in Reaching(held, n) : more[i] = held[i]
    BY <1>2 DEF Reaching
  <2>4. VMShows(more, n) = VMShows(held, n)
    BY <2>1, <2>3 DEF VMShows
  <2>5. QED
    BY <1>1, <1>6, <2>2, <2>4
<1>7. QED
  BY <1>5, <1>6

-----------------------------------------------------------------------------
(* What is cached stays true: after one more observation, and refreshed. *)

LEMMA CacheOneMore ==
  ASSUME NEW held \in Seq(Observation), NEW o \in Observation,
         NEW c \in [Names -> InCache], CacheTrue(c, held)
  PROVE  CacheTrue(c, Append(held, o))
<1>1. PICK more : more = Append(held, o)
  OBVIOUS
<1>2. Len(more) = Len(held) + 1 /\ Len(held) \in Nat
  BY <1>1
<1>3. ASSUME NEW n \in Names
      PROVE  /\ c[n].revision <= Len(more)
             /\ c[n].revision = RevisionOf(more, n) => c[n].partial \/ c[n].shows = VMShows(more, n)
  <2>1. c[n] \in InCache
    OBVIOUS
  <2>2. c[n].revision \in Nat
    BY <2>1 DEF InCache
  <2>3. /\ c[n].revision <= Len(held)
        /\ c[n].revision = RevisionOf(held, n) => c[n].partial \/ c[n].shows = VMShows(held, n)
    BY DEF CacheTrue
  <2>4. c[n].revision <= Len(more) /\ c[n].revision # Len(held) + 1
    BY <1>2, <2>2, <2>3
  <2>5. IF n \in Depends[o.root] THEN RevisionOf(more, n) = Len(held) + 1
        ELSE RevisionOf(more, n) = RevisionOf(held, n) /\ VMShows(more, n) = VMShows(held, n)
    BY <1>1, OneMore
  <2>6. QED
    BY <2>3, <2>4, <2>5
<1>4. CacheTrue(c, more)
  BY <1>3 DEF CacheTrue
<1>5. QED
  BY <1>1, <1>4

LEMMA EntriesKept ==
  ASSUME NEW held \in Seq(Observation), NEW n
  PROVE  /\ Entry(held, n) \in InCache /\ PartialEntry(held, n) \in InCache
         /\ Entry(held, n).revision <= Len(held) /\ PartialEntry(held, n).revision <= Len(held)
         /\ Entry(held, n).shows = VMShows(held, n) /\ PartialEntry(held, n).partial
<1>1. RevisionOf(held, n) \in Nat /\ RevisionOf(held, n) <= Len(held)
  BY RevisionIs
<1>2. VMShows(held, n) \subseteq Observation
  BY DEF VMShows, Reaching
<1>3. QED
  BY <1>1, <1>2 DEF Entry, PartialEntry, InCache

LEMMA RefreshedTrue ==
  ASSUME NEW held \in Seq(Observation), NEW c \in [Names -> InCache], CacheTrue(c, held),
         NEW before, NEW broken
  PROVE  /\ Refreshed(c, held, before, broken) \in [Names -> InCache]
         /\ CacheTrue(Refreshed(c, held, before, broken), held)
<1>1. PICK r : r = Refreshed(c, held, before, broken)
  OBVIOUS
<1>2. r = [n \in Names |-> r[n]]
  BY <1>1 DEF Refreshed
<1>3. ASSUME NEW n \in Names
      PROVE  r[n] = Entry(held, n) \/ r[n] = PartialEntry(held, n) \/ r[n] = c[n]
  <2>1. r[n] = CASE n \in broken -> PartialEntry(held, n)
                [] n \in before /\ Stale(c, held, n) -> Entry(held, n)
                [] OTHER -> c[n]
    BY <1>1 DEF Refreshed
  <2>2. PICK e, p : e = Entry(held, n) /\ p = PartialEntry(held, n)
    OBVIOUS
  <2>3. r[n] = p \/ r[n] = e \/ r[n] = c[n]
    BY <2>1, <2>2
  <2>4. QED
    BY <2>2, <2>3
<1>4. ASSUME NEW n \in Names
      PROVE  /\ r[n] \in InCache /\ r[n].revision <= Len(held)
             /\ r[n].revision = RevisionOf(held, n) => r[n].partial \/ r[n].shows = VMShows(held, n)
  <2>1. /\ c[n].revision <= Len(held) /\ c[n] \in InCache
        /\ c[n].revision = RevisionOf(held, n) => c[n].partial \/ c[n].shows = VMShows(held, n)
    BY DEF CacheTrue
  <2>2. CASE r[n] = c[n]
    BY <2>1, <2>2, Zenon
  <2>3. CASE r[n] = Entry(held, n)
    BY <2>3, EntriesKept, Zenon
  <2>4. CASE r[n] = PartialEntry(held, n)
    BY <2>4, EntriesKept, Zenon
  <2>5. QED
    BY <1>3, <2>2, <2>3, <2>4
<1>5. r \in [Names -> InCache]
  BY <1>2, <1>4
<1>6. CacheTrue(r, held)
  BY <1>4 DEF CacheTrue
<1>7. QED
  BY <1>1, <1>5, <1>6

LEMMA RefreshesTrue ==
  ASSUME NEW held \in Seq(Observation), NEW c \in [Names -> InCache], CacheTrue(c, held),
         NEW r \in Refreshes(c, held)
  PROVE  r.cache \in [Names -> InCache] /\ CacheTrue(r.cache, held)
<1>1. \E b, w : r.cache = Refreshed(c, held, b, w)
  <2>1. CASE r = [cache |-> Refreshed(c, held, Names, {}), failed |-> FALSE]
    BY <2>1
  <2>2. CASE r # [cache |-> Refreshed(c, held, Names, {}), failed |-> FALSE]
    <3>1. PICK b : r = [cache |-> Refreshed(c, held, b[1], {b[2]}), failed |-> TRUE]
      BY <2>2 DEF Refreshes
    <3>2. r.cache = Refreshed(c, held, b[1], {b[2]})
      BY <3>1
    <3>3. QED
      BY <3>2
  <2>3. QED
    BY <2>1, <2>2
<1>2. QED
  BY <1>1, RefreshedTrue

-----------------------------------------------------------------------------
(* One answer more. *)

LEMMA ToldIds ==
  ASSUME NEW held \in Seq(Observation), NEW told \in Seq(BOOLEAN), NEW rs, HeldAsTold(held, told, rs),
         NEW i \in 1 .. Len(held)
  PROVE  held[i].id \in 1 .. Len(told)
<1>1. held[i] \in {[id |-> j, root |-> rs[j]] : j \in {x \in 1 .. Len(told) : told[x]}}
  BY DEF HeldAsTold
<1>2. PICK j \in 1 .. Len(told) : held[i] = [id |-> j, root |-> rs[j]]
  BY <1>1
<1>3. QED
  BY <1>2

LEMMA ToldBadly ==
  ASSUME NEW held \in Seq(Observation), NEW told \in Seq(BOOLEAN), NEW rs, HeldAsTold(held, told, rs)
  PROVE  HeldAsTold(held, Append(told, FALSE), rs)
<1>1. PICK t : t = Append(told, FALSE)
  OBVIOUS
<1>2. /\ Len(t) = Len(told) + 1 /\ Len(told) \in Nat /\ ~t[Len(told) + 1]
      /\ \A i \in 1 .. Len(told) : t[i] = told[i]
  BY <1>1
<1>3. {j \in 1 .. Len(t) : t[j]} = {j \in 1 .. Len(told) : told[j]}
  <2>1. ASSUME NEW j \in 1 .. Len(t), t[j] PROVE j \in 1 .. Len(told) /\ told[j]
    <3>1. j # Len(told) + 1
      BY <1>2, <2>1
    <3>2. j \in 1 .. Len(told)
      BY <1>2, <3>1
    <3>3. QED
      BY <1>2, <2>1, <3>2
  <2>2. ASSUME NEW j \in 1 .. Len(told), told[j] PROVE j \in 1 .. Len(t) /\ t[j]
    <3>1. j \in 1 .. Len(t)
      BY <1>2
    <3>2. QED
      BY <1>2, <2>2, <3>1
  <2>3. QED
    BY <2>1, <2>2, Zenon
<1>4. HeldAsTold(held, t, rs)
  BY <1>3 DEF HeldAsTold
<1>5. QED
  BY <1>1, <1>4

LEMMA ToldWell ==
  ASSUME NEW held \in Seq(Observation), NEW told \in Seq(BOOLEAN), NEW rs, HeldAsTold(held, told, rs)
  PROVE  HeldAsTold(Append(held, [id |-> Len(told) + 1, root |-> rs[Len(told) + 1]]),
                    Append(told, TRUE), rs)
<1>1. PICK t, h, o : /\ t = Append(told, TRUE) /\ o = [id |-> Len(told) + 1, root |-> rs[Len(told) + 1]]
                     /\ h = Append(held, o)
  OBVIOUS
<1>2. /\ Len(t) = Len(told) + 1 /\ Len(told) \in Nat /\ t[Len(told) + 1]
      /\ \A i \in 1 .. Len(told) : t[i] = told[i]
  BY <1>1
<1>3. /\ Len(h) = Len(held) + 1 /\ Len(held) \in Nat /\ h[Len(held) + 1] = o
      /\ \A i \in 1 .. Len(held) : h[i] = held[i]
  BY <1>1
<1>4. {j \in 1 .. Len(t) : t[j]} = {j \in 1 .. Len(told) : told[j]} \cup {Len(told) + 1}
  <2>1. ASSUME NEW j \in 1 .. Len(t), t[j]
        PROVE  j = Len(told) + 1 \/ (j \in 1 .. Len(told) /\ told[j])
    <3>1. CASE j # Len(told) + 1
      <4>1. j \in 1 .. Len(told)
        BY <1>2, <3>1
      <4>2. QED
        BY <1>2, <2>1, <4>1
    <3>2. QED
      BY <3>1
  <2>2. ASSUME NEW j \in 1 .. Len(told), told[j] PROVE j \in 1 .. Len(t) /\ t[j]
    <3>1. j \in 1 .. Len(t)
      BY <1>2
    <3>2. QED
      BY <1>2, <2>2, <3>1
  <2>3. Len(told) + 1 \in 1 .. Len(t) /\ t[Len(told) + 1]
    BY <1>2
  <2>4. QED
    BY <2>1, <2>2, <2>3
<1>5. {h[i] : i \in 1 .. Len(h)} = {held[i] : i \in 1 .. Len(held)} \cup {o}
  <2>1. \A i \in 1 .. Len(h) : i = Len(held) + 1 \/ i \in 1 .. Len(held)
    BY <1>3
  <2>2. Len(held) + 1 \in 1 .. Len(h) /\ \A i \in 1 .. Len(held) : i \in 1 .. Len(h)
    BY <1>3
  <2>3. QED
    BY <1>3, <2>1, <2>2
<1>6. {[id |-> i, root |-> rs[i]] : i \in {j \in 1 .. Len(t) : t[j]}} =
          {[id |-> i, root |-> rs[i]] : i \in {j \in 1 .. Len(told) : told[j]}} \cup {o}
  BY <1>1, <1>4
<1>7. {h[i] : i \in 1 .. Len(h)} = {[id |-> i, root |-> rs[i]] : i \in {j \in 1 .. Len(t) : t[j]}}
  BY <1>5, <1>6 DEF HeldAsTold
<1>8. ASSUME NEW i \in 1 .. Len(h), NEW j \in 1 .. Len(h), i < j PROVE h[i].id < h[j].id
  <2>1. i \in 1 .. Len(held) /\ h[i] = held[i]
    BY <1>3, <1>8
  <2>2. held[i].id \in 1 .. Len(told)
    BY <2>1, ToldIds
  <2>3. CASE j = Len(held) + 1
    <3>1. h[j].id = Len(told) + 1
      BY <1>1, <1>3, <2>3
    <3>2. QED
      BY <1>2, <2>1, <2>2, <3>1
  <2>4. CASE j # Len(held) + 1
    <3>1. j \in 1 .. Len(held)
      BY <1>3, <2>4
    <3>2. QED
      BY <1>3, <1>8, <2>1, <3>1 DEF HeldAsTold
  <2>5. QED
    BY <2>3, <2>4
<1>9. HeldAsTold(h, t, rs)
  BY <1>7, <1>8 DEF HeldAsTold
<1>10. QED
  BY <1>1, <1>9

-----------------------------------------------------------------------------
(* An observation is applied, and one is taken from the queue. *)

Ended == {"Quiescent", "Failed"}

LEMMA AppliedIs ==
  ASSUME NEW s, NEW id, NEW root, NEW t \in Applied(s, id, root)
  PROVE  \/ \E st \in Ended : t = Unpublished(s, st)
         \/ \E r \in Refreshes(s.cache, Append(s.applied, [id |-> id, root |-> root])), st \in Ended :
               t = Published(s, Append(s.applied, [id |-> id, root |-> root]), r, st)
<1>1. CASE t \in {Unpublished(s, st) : st \in Ended}
  BY <1>1
<1>2. CASE ~(t \in {Unpublished(s, st) : st \in Ended})
  <2>1. PICK more : more = Append(s.applied, [id |-> id, root |-> root])
    OBVIOUS
  <2>2. t \in UNION {{Published(s, more, r, st) :
                        st \in IF r.failed THEN {"Quiescent", "Failed"} ELSE {"Quiescent"}} :
                    r \in Refreshes(s.cache, more)}
    BY <1>2, <2>1 DEF Applied, Ended
  <2>3. PICK r \in Refreshes(s.cache, more) :
           t \in {Published(s, more, r, st) :
                     st \in IF r.failed THEN {"Quiescent", "Failed"} ELSE {"Quiescent"}}
    BY <2>2
  <2>4. PICK st \in Ended : t = Published(s, more, r, st)
    BY <2>3 DEF Ended
  <2>5. QED
    BY <2>1, <2>4
<1>3. QED
  BY <1>1, <1>2

LEMMA AppliedGood ==
  ASSUME NEW s, NEW rs \in Seq(Roots), LiveGood(s, rs, 1),
         NEW t \in Applied(s, Len(s.answers) + 1, rs[Len(s.answers) + 1])
  PROVE  /\ LiveGood(t, rs, 0) /\ t.state \in Ended
         /\ t.queue = s.queue /\ t.queueBytes = s.queueBytes
<1>1. PICK o : o = [id |-> Len(s.answers) + 1, root |-> rs[Len(s.answers) + 1]]
  OBVIOUS
<1>2. /\ LiveTypes(s) /\ HeldAsTold(s.applied, s.answers, rs)
      /\ QueuedNext(s.queue, s.answers, rs, 1) /\ BytesCounted(s.queue, s.queueBytes)
      /\ CacheTrue(s.cache, s.applied)
  BY DEF LiveGood
<1>3. /\ s.applied \in Seq(Observation) /\ s.answers \in Seq(BOOLEAN) /\ s.cache \in [Names -> InCache]
      /\ s.queue \in Seq(Queued) /\ s.queueBytes \in Nat
  BY <1>2 DEF LiveTypes
<1>4. Len(s.answers) \in Nat /\ Len(s.queue) \in Nat /\ Len(rs) = Len(s.answers) + 1 + Len(s.queue)
  BY <1>2, <1>3 DEF QueuedNext
<1>5. o \in Observation
  <2>1. PICK a, b, c : a = Len(s.answers) /\ b = Len(s.queue) /\ c = Len(rs)
    OBVIOUS
  <2>2. a + 1 \in 1 .. c /\ a + 1 \in Nat
    <3>1. a \in Nat /\ b \in Nat /\ c = a + 1 + b
      BY <1>4, <2>1, Zenon
    <3>2. QED
      BY <3>1
  <2>3. rs[a + 1] \in Roots
    BY <2>1, <2>2
  <2>4. QED
    BY <1>1, <2>1, <2>2, <2>3 DEF Observation
<1>6. ASSUME NEW told \in Seq(BOOLEAN), Len(told) = Len(s.answers) + 1
      PROVE  QueuedNext(s.queue, told, rs, 0)
  <2>1. \A i \in 1 .. Len(s.queue) : s.queue[i].id = Len(s.answers) + 1 + i
    BY <1>2 DEF QueuedNext
  <2>2. PICK a, b, c : a = Len(s.answers) /\ b = Len(s.queue) /\ c = Len(told)
    OBVIOUS
  <2>3. \A i \in 1 .. b : a + 1 + i = c + 0 + i
    BY <1>4, <1>6, <2>2
  <2>4. Len(rs) = c + 0 + b
    BY <1>4, <1>6, <2>2
  <2>5. QED
    BY <2>1, <2>2, <2>3, <2>4 DEF QueuedNext
<1>7. CASE \E st \in Ended : t = Unpublished(s, st)
  <2>1. PICK st \in Ended : t = Unpublished(s, st)
    BY <1>7
  <2>2. PICK told : told = Append(s.answers, FALSE)
    OBVIOUS
  <2>3. told \in Seq(BOOLEAN) /\ Len(told) = Len(s.answers) + 1
    BY <1>3, <2>2
  <2>4. HeldAsTold(s.applied, told, rs)
    BY <1>2, <1>3, <2>2, ToldBadly
  <2>5. /\ LiveTypes(t) /\ t.applied = s.applied /\ t.answers = told /\ t.cache = s.cache
        /\ t.queue = s.queue /\ t.queueBytes = s.queueBytes /\ t.state = st
    BY <1>2, <2>1, <2>2, <2>3 DEF LiveTypes, Ended, Unpublished, Answer
  <2>6. QueuedNext(t.queue, t.answers, rs, 0)
    BY <1>6, <2>3, <2>5
  <2>7. QED
    BY <1>2, <2>4, <2>5, <2>6 DEF LiveGood
<1>8. CASE \E r \in Refreshes(s.cache, Append(s.applied, o)), st \in Ended :
              t = Published(s, Append(s.applied, o), r, st)
  <2>1. PICK told, more : told = Append(s.answers, TRUE) /\ more = Append(s.applied, o)
    OBVIOUS
  <2>2. PICK r \in Refreshes(s.cache, more), st \in Ended : t = Published(s, more, r, st)
    BY <1>8, <2>1
  <2>3. told \in Seq(BOOLEAN) /\ Len(told) = Len(s.answers) + 1 /\ more \in Seq(Observation)
    BY <1>3, <1>5, <2>1
  <2>4. HeldAsTold(more, told, rs)
    BY <1>1, <1>2, <1>3, <2>1, ToldWell
  <2>5. CacheTrue(s.cache, more)
    BY <1>2, <1>3, <1>5, <2>1, CacheOneMore
  <2>6. r.cache \in [Names -> InCache] /\ CacheTrue(r.cache, more)
    BY <1>3, <2>3, <2>5, RefreshesTrue
  <2>7. /\ LiveTypes(t) /\ t.applied = more /\ t.answers = told /\ t.cache = r.cache
        /\ t.queue = s.queue /\ t.queueBytes = s.queueBytes /\ t.state = st
    BY <1>2, <2>1, <2>2, <2>3, <2>6 DEF LiveTypes, Ended, Published, Answer
  <2>8. QueuedNext(t.queue, t.answers, rs, 0)
    BY <1>6, <2>3, <2>7
  <2>9. QED
    BY <1>2, <2>4, <2>6, <2>7, <2>8 DEF LiveGood
<1>9. QED
  BY <1>1, <1>7, <1>8, AppliedIs

LEMMA PoppedGood ==
  ASSUME NEW s, NEW rs \in Seq(Roots), LiveGood(s, rs, 0), s.queue # <<>>
  PROVE  /\ LiveGood(Popped(s), rs, 1) /\ Head(s.queue).id = Len(s.answers) + 1
         /\ Popped(s).answers = s.answers /\ Popped(s).queue = Tail(s.queue)
<1>1. PICK p, q, l, b : /\ p = Popped(s) /\ q = s.queue /\ l = Tail(q) /\ b = s.queueBytes - Head(q).bytes
  OBVIOUS
<1>2. /\ LiveTypes(s) /\ HeldAsTold(s.applied, s.answers, rs)
      /\ QueuedNext(q, s.answers, rs, 0) /\ BytesCounted(q, s.queueBytes)
      /\ CacheTrue(s.cache, s.applied)
  BY <1>1 DEF LiveGood
<1>3. s.answers \in Seq(BOOLEAN) /\ q \in Seq(Queued) /\ q # <<>> /\ s.queueBytes \in Nat
  BY <1>1, <1>2 DEF LiveTypes
<1>4. /\ l \in Seq(Queued) /\ Len(l) = Len(q) - 1 /\ Len(l) \in Nat /\ Len(q) \in Nat
      /\ Head(q) = q[1] /\ \A i \in 1 .. Len(l) : l[i] = q[i + 1] /\ i + 1 \in 1 .. Len(q)
  BY <1>1, <1>3
<1>5. /\ Bytes(l)[Len(l)] = Bytes(q)[Len(q)] - Head(q).bytes /\ Bytes(l)[Len(l)] \in Nat
      /\ Bytes(q)[Len(q)] \in Nat /\ Head(q).bytes \in Nat
  BY <1>1, <1>3, BytesTail
<1>6. s.queueBytes = Bytes(q)[Len(q)] /\ s.queueBytes <= MaxQueueBytes
  BY <1>2 DEF BytesCounted
<1>7. b = Bytes(l)[Len(l)] /\ b \in Nat
  BY <1>1, <1>5, <1>6
<1>8. b <= MaxQueueBytes
  <2>1. MaxQueueBytes \in Nat
    BY LiveConstants
  <2>2. b = s.queueBytes - Head(q).bytes
    BY <1>1
  <2>3. QED
    BY <1>3, <1>5, <1>6, <2>1, <2>2
<1>9. BytesCounted(l, b)
  BY <1>7, <1>8 DEF BytesCounted
<1>10. p = [s EXCEPT !.queue = l, !.queueBytes = b]
  BY <1>1 DEF Popped
<1>11. /\ LiveTypes(p) /\ p.queue = l /\ p.queueBytes = b /\ p.answers = s.answers
       /\ p.applied = s.applied /\ p.cache = s.cache
  BY <1>2, <1>4, <1>7, <1>10 DEF LiveTypes
<1>12. PICK a : a = Len(s.answers)
  OBVIOUS
<1>13. a \in Nat
  BY <1>3, <1>12
<1>14. (\A i \in 1 .. Len(q) : q[i].id = a + 0 + i) /\ Len(rs) = a + 0 + Len(q)
  BY <1>2, <1>12 DEF QueuedNext
<1>15. QueuedNext(l, s.answers, rs, 1)
  <2>1. ASSUME NEW i \in 1 .. Len(l) PROVE l[i].id = a + 1 + i
    <3>1. l[i].id = a + 0 + (i + 1)
      BY <1>4, <1>14
    <3>2. QED
      BY <1>13, <3>1
  <2>2. Len(rs) = a + 1 + Len(l)
    BY <1>4, <1>13, <1>14
  <2>3. QED
    BY <1>12, <2>1, <2>2 DEF QueuedNext
<1>16. Head(q).id = a + 1
  <2>1. 1 \in 1 .. Len(q)
    BY <1>4
  <2>2. q[1].id = a + 0 + 1
    BY <1>14, <2>1
  <2>3. QED
    BY <1>4, <1>13, <2>2
<1>17. LiveGood(p, rs, 1)
  BY <1>2, <1>9, <1>11, <1>15 DEF LiveGood
<1>18. QED
  BY <1>1, <1>11, <1>12, <1>16, <1>17

(* What resume_live may have reached: nothing is left, or it failed.        *)
Reached(s, l) ==
    LiveGood(s, roots, 0) /\ s.state \in Ended /\ (s.state = "Failed" \/ Len(s.queue) = l)

LEMMA TakenGood ==
  ASSUME roots \in Seq(Roots), NEW l \in Nat, NEW s, Reached(s, l + 1), NEW t \in Taken(s)
  PROVE  Reached(t, l)
<1>1. LiveGood(s, roots, 0) /\ s.state \in Ended /\ (s.state = "Failed" \/ Len(s.queue) = l + 1)
  BY DEF Reached
<1>2. CASE s.state = "Failed"
  <2>1. t = s
    BY <1>2 DEF Taken
  <2>2. QED
    BY <1>1, <1>2, <2>1 DEF Reached
<1>3. CASE s.state # "Failed"
  <2>1. s.queue \in Seq(Queued) /\ Len(s.queue) = l + 1
    BY <1>1, <1>3 DEF LiveGood, LiveTypes
  <2>2. s.queue # <<>> /\ Len(Tail(s.queue)) = l
    BY <2>1
  <2>3. PICK p, h : p = Popped(s) /\ h = Head(s.queue).id
    OBVIOUS
  <2>4. LiveGood(p, roots, 1) /\ h = Len(p.answers) + 1 /\ p.queue = Tail(s.queue)
    BY <1>1, <2>2, <2>3, PoppedGood
  <2>5. t \in Applied(p, h, roots[h])
    BY <1>3, <2>2, <2>3 DEF Taken
  <2>6. LiveGood(t, roots, 0) /\ t.state \in Ended /\ t.queue = p.queue
    BY <2>4, <2>5, AppliedGood
  <2>7. QED
    BY <2>2, <2>4, <2>6 DEF Reached
<1>4. QED
  BY <1>2, <1>3

-----------------------------------------------------------------------------
(* What resuming comes to, whatever number of observations is queued. *)

DrainedIs(n, first, g) ==
    g = [k \in 0 .. n |-> IF k = 0 THEN {first} ELSE UNION {Taken(s) : s \in g[k - 1]}]

LEMMA DrainedExists ==
  ASSUME NEW first, NEW N \in Nat
  PROVE  \E g : DrainedIs(N, first, g)
<1>1. PICK S : S = {n \in Nat : \E g : DrainedIs(n, first, g)}
  OBVIOUS
<1>2. 0 \in S
  <2>1. PICK g : g = [k \in 0 .. 0 |-> {first}]
    OBVIOUS
  <2>2. DrainedIs(0, first, g)
    BY <2>1 DEF DrainedIs
  <2>3. QED
    BY <1>1, <2>2
<1>3. ASSUME NEW m \in 0 .. N, m + 1 <= N, m \in S PROVE m + 1 \in S
  <2>1. PICK g : DrainedIs(m, first, g)
    BY <1>1, <1>3
  <2>2. PICK h : h = [k \in 0 .. m + 1 |-> IF k = m + 1 THEN UNION {Taken(s) : s \in g[m]} ELSE g[k]]
    OBVIOUS
  <2>3. m \in Nat /\ m + 1 \in Nat
    OBVIOUS
  <2>4. \A k \in 0 .. m : h[k] = g[k] /\ k # m + 1
    BY <2>2, <2>3
  <2>5. ASSUME NEW k \in 0 .. m + 1
        PROVE  h[k] = IF k = 0 THEN {first} ELSE UNION {Taken(s) : s \in h[k - 1]}
    <3>1. CASE k = m + 1
      <4>1. h[k] = UNION {Taken(s) : s \in g[m]} /\ k # 0 /\ k - 1 = m
        BY <2>2, <2>3, <3>1
      <4>2. h[m] = g[m]
        BY <2>3, <2>4
      <4>3. QED
        BY <4>1, <4>2
    <3>2. CASE k # m + 1
      <4>1. k \in 0 .. m /\ (k # 0 => k - 1 \in 0 .. m)
        BY <2>3, <3>2
      <4>2. g[k] = IF k = 0 THEN {first} ELSE UNION {Taken(s) : s \in g[k - 1]}
        BY <2>1, <4>1 DEF DrainedIs
      <4>3. QED
        BY <2>4, <4>1, <4>2
    <3>3. QED
      BY <3>1, <3>2
  <2>6. h = [k \in 0 .. m + 1 |-> h[k]]
    BY <2>2
  <2>7. DrainedIs(m + 1, first, h)
    BY <2>5, <2>6 DEF DrainedIs
  <2>8. QED
    BY <1>1, <2>3, <2>7
<1>4. 0 .. N \subseteq S
  BY <1>2, <1>3, UpTo
<1>5. N \in S
  BY <1>4
<1>6. QED
  BY <1>1, <1>5

LEMMA DrainedGood ==
  ASSUME LHInv, NEW s \in Drained[Len(queue)]
  PROVE  Reached(s, 0)
<1>1. PICK N, first : N = Len(queue) /\ first = [Situation EXCEPT !.state = "Quiescent"]
  OBVIOUS
<1>2. LiveGood(Situation, roots, 0) /\ roots \in Seq(Roots) /\ Situation.queue = queue
  BY DEF LHInv, Situation
<1>3. N \in Nat
  <2>1. queue \in Seq(Queued)
    BY <1>2 DEF LiveGood, LiveTypes
  <2>2. QED
    BY <1>1, <2>1
<1>4. Reached(first, N)
  <2>1. LiveTypes(Situation)
    BY <1>2 DEF LiveGood
  <2>2. /\ LiveTypes(first) /\ first.state = "Quiescent" /\ first.queue = queue
        /\ first.applied = Situation.applied /\ first.answers = Situation.answers
        /\ first.cache = Situation.cache /\ first.queueBytes = Situation.queueBytes
    BY <1>1, <1>2, <2>1 DEF LiveTypes
  <2>3. LiveGood(first, roots, 0)
    BY <1>2, <2>2 DEF LiveGood
  <2>4. QED
    BY <1>1, <2>2, <2>3 DEF Reached, Ended
<1>5. PICK d : d = Drained
  OBVIOUS
<1>6. DrainedIs(N, first, d)
  <2>1. \E g : DrainedIs(N, first, g)
    BY <1>3, DrainedExists
  <2>2. Drained = CHOOSE g : DrainedIs(N, first, g)
    BY <1>1, Zenon DEF Drained, DrainedIs
  <2>3. QED
    BY <1>5, <2>1, <2>2, Zenon
<1>7. \A k \in 0 .. N : d[k] = IF k = 0 THEN {first} ELSE UNION {Taken(x) : x \in d[k - 1]}
  BY <1>6 DEF DrainedIs
<1>8. PICK S : S = {k \in Nat : \A x \in d[k] : Reached(x, N - k)}
  OBVIOUS
<1>9. 0 \in S
  <2>1. 0 \in 0 .. N /\ N - 0 = N
    BY <1>3
  <2>2. d[0] = {first}
    BY <1>7, <2>1
  <2>3. QED
    BY <1>4, <1>8, <2>1, <2>2
<1>10. ASSUME NEW k \in 0 .. N, k + 1 <= N, k \in S PROVE k + 1 \in S
  <2>1. /\ k + 1 \in 0 .. N /\ k + 1 # 0 /\ (k + 1) - 1 = k /\ k + 1 \in Nat
        /\ N - (k + 1) \in Nat /\ (N - (k + 1)) + 1 = N - k
    BY <1>3, <1>10
  <2>2. d[k + 1] = UNION {Taken(x) : x \in d[k]}
    BY <1>7, <2>1
  <2>3. ASSUME NEW x \in d[k + 1] PROVE Reached(x, N - (k + 1))
    <3>1. PICK y \in d[k] : x \in Taken(y)
      BY <2>2
    <3>2. Reached(y, (N - (k + 1)) + 1)
      BY <1>8, <1>10, <2>1
    <3>3. QED
      BY <1>2, <2>1, <3>1, <3>2, TakenGood
  <2>4. QED
    BY <1>8, <2>1, <2>3
<1>11. N \in S
  <2>1. 0 .. N \subseteq S
    BY <1>3, <1>9, <1>10, UpTo
  <2>2. QED
    BY <1>3, <2>1
<1>12. Reached(s, N - N) /\ N - N = 0
  BY <1>1, <1>3, <1>5, <1>8, <1>11
<1>13. QED
  BY <1>12

-----------------------------------------------------------------------------
(* The steps. *)

States == {"none", "Quiescent", "Suspended", "Failed"}

LEMMA MovedGood ==
  ASSUME NEW s, NEW rs, NEW k, LiveGood(s, rs, k),
         NEW c \in [Names -> InCache], CacheTrue(c, s.applied), NEW st \in States,
         NEW t, t = [applied |-> s.applied, cache |-> c, state |-> st, answers |-> s.answers,
                     queue |-> s.queue, queueBytes |-> s.queueBytes]
  PROVE  LiveGood(t, rs, k)
<1>1. /\ LiveTypes(s) /\ HeldAsTold(s.applied, s.answers, rs)
      /\ QueuedNext(s.queue, s.answers, rs, k) /\ BytesCounted(s.queue, s.queueBytes)
  BY DEF LiveGood
<1>2. LiveTypes(t)
  BY <1>1 DEF LiveTypes, States
<1>3. /\ t.applied = s.applied /\ t.cache = c /\ t.answers = s.answers
      /\ t.queue = s.queue /\ t.queueBytes = s.queueBytes
  OBVIOUS
<1>4. QED
  BY <1>1, <1>2, <1>3 DEF LiveGood

LEMMA SameGood ==
  ASSUME NEW s, NEW rs, NEW k, LiveGood(s, rs, k),
         NEW t, t = [applied |-> s.applied, cache |-> s.cache, state |-> s.state, answers |-> s.answers,
                     queue |-> s.queue, queueBytes |-> s.queueBytes]
  PROVE  LiveGood(t, rs, k)
<1>1. LiveTypes(s) /\ CacheTrue(s.cache, s.applied)
  BY DEF LiveGood
<1>2. s.cache \in [Names -> InCache] /\ s.state \in States
  BY <1>1 DEF LiveTypes, States
<1>3. QED
  BY <1>1, <1>2, MovedGood

LEMMA EmptyGood ==
  ASSUME NEW c, c = [n \in Names |-> NoEntry], NEW s,
         s = [applied |-> <<>>, cache |-> c, state |-> "none", answers |-> <<>>,
              queue |-> <<>>, queueBytes |-> 0]
  PROVE  LiveGood(s, <<>>, 0)
<1>1. PICK e : e = <<>>
  OBVIOUS
<1>2. Len(e) = 0 /\ e \in Seq(Observation) /\ e \in Seq(BOOLEAN) /\ e \in Seq(Queued)
  BY <1>1
<1>3. c \in [Names -> InCache]
  BY DEF NoEntry, InCache
<1>4. LiveTypes(s)
  BY <1>1, <1>2, <1>3 DEF LiveTypes
<1>5. HeldAsTold(e, e, e)
  BY <1>2 DEF HeldAsTold
<1>6. QueuedNext(e, e, e, 0)
  BY <1>2 DEF QueuedNext
<1>7. BytesCounted(e, 0)
  <2>1. Bytes(e)[0] = 0 /\ MaxQueueBytes \in Nat
    BY <1>2, BytesStep, LiveConstants
  <2>2. QED
    BY <1>2, <2>1 DEF BytesCounted
<1>8. CacheTrue(c, e)
  BY <1>2 DEF CacheTrue, NoEntry
<1>9. /\ s.applied = e /\ s.cache = c /\ s.answers = e /\ s.queue = e /\ s.queueBytes = 0
  BY <1>1
<1>10. LiveGood(s, e, 0)
  BY <1>4, <1>5, <1>6, <1>7, <1>8, <1>9 DEF LiveGood
<1>11. QED
  BY <1>1, <1>10

LEMMA LiveInit == LHInit => LHInv
<1> SUFFICES ASSUME LHInit PROVE LHInv
  OBVIOUS
<1>1. Situation = [applied |-> <<>>, cache |-> cache, state |-> "none", answers |-> <<>>,
                   queue |-> <<>>, queueBytes |-> 0]
  BY DEF LHInit, Situation
<1>2. LiveGood(Situation, <<>>, 0)
  BY <1>1, EmptyGood DEF LHInit
<1>3. QED
  BY <1>2 DEF LHInv, LHInit

(* What every step has at hand. *)
LEMMA LiveFacts ==
  ASSUME LHInv
  PROVE  /\ applied \in Seq(Observation) /\ answers \in Seq(BOOLEAN) /\ queue \in Seq(Queued)
         /\ queueBytes \in Nat /\ cache \in [Names -> InCache] /\ state \in States
         /\ roots \in Seq(Roots)
         /\ HeldAsTold(applied, answers, roots) /\ QueuedNext(queue, answers, roots, 0)
         /\ BytesCounted(queue, queueBytes) /\ CacheTrue(cache, applied)
<1>1. LiveGood(Situation, roots, 0) /\ roots \in Seq(Roots)
  BY DEF LHInv
<1>2. LiveTypes(Situation)
  BY <1>1 DEF LiveGood
<1>3. /\ Situation.applied = applied /\ Situation.answers = answers /\ Situation.queue = queue
      /\ Situation.queueBytes = queueBytes /\ Situation.cache = cache /\ Situation.state = state
  BY DEF Situation
<1>4. /\ applied \in Seq(Observation) /\ answers \in Seq(BOOLEAN) /\ queue \in Seq(Queued)
      /\ queueBytes \in Nat /\ cache \in [Names -> InCache] /\ state \in States
  BY <1>2, <1>3 DEF LiveTypes, States
<1>5. QED
  BY <1>1, <1>3, <1>4 DEF LiveGood

LEMMA MovedStep ==
  ASSUME LHInv, cache' \in [Names -> InCache], CacheTrue(cache', applied), state' \in States,
         UNCHANGED <<applied, answers, queue, queueBytes, roots>>
  PROVE  LiveGood(Situation', roots', 0)
<1>1. LiveGood(Situation, roots, 0)
  BY DEF LHInv
<1>2. PICK s : s = Situation
  OBVIOUS
<1>3. /\ s.applied = applied /\ s.answers = answers /\ s.queue = queue /\ s.queueBytes = queueBytes
  BY <1>2 DEF Situation
<1>4. Situation' = [applied |-> s.applied, cache |-> cache', state |-> state', answers |-> s.answers,
                    queue |-> s.queue, queueBytes |-> s.queueBytes]
  BY <1>3 DEF Situation
<1>5. LiveGood(s, roots, 0) /\ CacheTrue(cache', s.applied)
  BY <1>1, <1>2, <1>3
<1>6. LiveGood(Situation', roots, 0)
  BY <1>4, <1>5, MovedGood
<1>7. QED
  BY <1>6

LEMMA StartKeeps == ASSUME LHInv, StartLive PROVE LHInv'
<1>1. applied = <<>> /\ roots = <<>> /\ answers = <<>> /\ queue = <<>>
  BY DEF LHInv, StartLive
<1>2. cache' = Refreshed(cache, applied, Names, {})
  BY <1>1 DEF StartLive
<1>3. cache' \in [Names -> InCache] /\ CacheTrue(cache', applied)
  BY <1>2, LiveFacts, RefreshedTrue
<1>4. LiveGood(Situation', roots', 0)
  BY <1>3, MovedStep DEF StartLive, States
<1>5. roots' \in Seq(Roots) /\ queue' = <<>> /\ state' = "Quiescent"
  BY <1>1, LiveFacts DEF StartLive
<1>6. QED
  BY <1>4, <1>5 DEF LHInv

LEMMA DeleteKeeps == ASSUME LHInv, DeleteLive PROVE LHInv'
<1>1. Situation' = [applied |-> <<>>, cache |-> cache', state |-> "none", answers |-> <<>>,
                    queue |-> <<>>, queueBytes |-> 0]
  BY DEF DeleteLive, Situation
<1>2. LiveGood(Situation', <<>>, 0)
  BY <1>1, EmptyGood DEF DeleteLive
<1>3. QED
  BY <1>2 DEF LHInv, DeleteLive

LEMMA PauseKeeps == ASSUME LHInv, PauseLive PROVE LHInv'
<1>1. cache' \in [Names -> InCache] /\ CacheTrue(cache', applied) /\ state' = "Suspended"
      /\ roots \in Seq(Roots)
  BY LiveFacts DEF PauseLive
<1>2. LiveGood(Situation', roots', 0)
  BY <1>1, MovedStep DEF PauseLive, States
<1>3. roots' \in Seq(Roots)
  BY <1>1 DEF PauseLive
<1>4. QED
  BY <1>1, <1>2, <1>3 DEF LHInv

LEMMA InspectKeeps == ASSUME LHInv, NEW n \in Names, InspectLive(n) PROVE LHInv'
<1>1. /\ cache \in [Names -> InCache] /\ CacheTrue(cache, applied) /\ applied \in Seq(Observation)
      /\ roots \in Seq(Roots) /\ state \in States
  BY LiveFacts
<1>2. cache' \in [Names -> InCache] /\ CacheTrue(cache', applied)
  <2>1. CASE cache' = cache
    BY <1>1, <2>1, Zenon
  <2>2. CASE cache' # cache
    <3>1. PICK e : e = Entry(applied, n)
      OBVIOUS
    <3>2. cache' = [cache EXCEPT ![n] = e]
      BY <2>2, <3>1 DEF InspectLive
    <3>3. e \in InCache /\ e.revision <= Len(applied) /\ e.shows = VMShows(applied, n)
      BY <1>1, <3>1, EntriesKept
    <3>4. ASSUME NEW m \in Names
          PROVE  /\ cache'[m].revision <= Len(applied)
                 /\ cache'[m].revision = RevisionOf(applied, m)
                       => cache'[m].partial \/ cache'[m].shows = VMShows(applied, m)
      <4>1. CASE m = n
        BY <1>1, <3>2, <3>3, <4>1
      <4>2. CASE m # n
        BY <1>1, <3>2, <4>2 DEF CacheTrue
      <4>3. QED
        BY <4>1, <4>2
    <3>5. cache' \in [Names -> InCache]
      BY <1>1, <3>2, <3>3
    <3>6. QED
      BY <3>4, <3>5 DEF CacheTrue
  <2>3. QED
    BY <2>1, <2>2
<1>3. state' \in States /\ state' # "none" /\ (queue # <<>> => state' \in {"Suspended", "Failed"})
  BY <1>1 DEF InspectLive, Alive, LHInv, States
<1>4. LiveGood(Situation', roots', 0)
  BY <1>2, <1>3, MovedStep DEF InspectLive
<1>5. QED
  BY <1>1, <1>3, <1>4 DEF LHInv, InspectLive

LEMMA RootAdded ==
  ASSUME NEW held, NEW told \in Seq(BOOLEAN), NEW rs \in Seq(Roots), NEW root \in Roots,
         HeldAsTold(held, told, rs), Len(told) <= Len(rs)
  PROVE  HeldAsTold(held, told, Append(rs, root))
<1>1. PICK more : more = Append(rs, root)
  OBVIOUS
<1>2. ASSUME NEW i \in 1 .. Len(told) PROVE more[i] = rs[i]
  <2>1. Len(told) \in Nat /\ Len(rs) \in Nat
    OBVIOUS
  <2>2. i \in 1 .. Len(rs)
    BY <2>1
  <2>3. QED
    BY <1>1, <2>2
<1>3. {[id |-> i, root |-> more[i]] : i \in {j \in 1 .. Len(told) : told[j]}} =
          {[id |-> i, root |-> rs[i]] : i \in {j \in 1 .. Len(told) : told[j]}}
  BY <1>2
<1>4. HeldAsTold(held, told, more)
  BY <1>3 DEF HeldAsTold
<1>5. QED
  BY <1>1, <1>4

LEMMA BecomesGood ==
  ASSUME NEW s, NEW rs, LiveGood(s, rs, 0), Becomes(s)
  PROVE  LiveGood(Situation', rs, 0)
<1>1. Situation' = [applied |-> s.applied, cache |-> s.cache, state |-> s.state, answers |-> s.answers,
                    queue |-> s.queue, queueBytes |-> s.queueBytes]
  BY DEF Situation, Becomes
<1>2. QED
  BY <1>1, SameGood

LEMMA ObserveLiveKeeps == ASSUME LHInv, NEW r \in Roots, ObserveLive(r) PROVE LHInv'
<1>1. PICK s \in Applied(Situation, Len(roots) + 1, r) : Becomes(s)
  BY DEF ObserveLive
<1>2. PICK rs, sit : rs = Append(roots, r) /\ sit = Situation
  OBVIOUS
<1>3. roots' = rs /\ queue = <<>>
  BY <1>2 DEF ObserveLive, Accepts, LHInv
<1>4. /\ roots \in Seq(Roots) /\ answers \in Seq(BOOLEAN) /\ HeldAsTold(applied, answers, roots)
      /\ QueuedNext(queue, answers, roots, 0)
  BY LiveFacts
<1>5. Len(roots) = Len(answers) /\ Len(answers) \in Nat /\ Len(queue) = 0
  BY <1>3, <1>4 DEF QueuedNext
<1>6. rs \in Seq(Roots) /\ Len(rs) = Len(roots) + 1 /\ rs[Len(roots) + 1] = r
  BY <1>2, <1>4
<1>7. HeldAsTold(applied, answers, rs)
  BY <1>2, <1>4, <1>5, RootAdded
<1>8. QueuedNext(queue, answers, rs, 1)
  <2>1. Len(rs) = Len(answers) + 1 + Len(queue) /\ \A i \in 1 .. Len(queue) : FALSE
    BY <1>5, <1>6
  <2>2. QED
    BY <2>1 DEF QueuedNext
<1>9. sit.applied = applied /\ sit.answers = answers /\ sit.queue = queue
  BY <1>2 DEF Situation
<1>10. LiveGood(sit, roots, 0)
  BY <1>2 DEF LHInv
<1>11. LiveGood(sit, rs, 1)
  BY <1>7, <1>8, <1>9, <1>10 DEF LiveGood
<1>12. s \in Applied(sit, Len(sit.answers) + 1, rs[Len(sit.answers) + 1])
  BY <1>1, <1>2, <1>5, <1>6, <1>9
<1>13. LiveGood(s, rs, 0) /\ s.state \in Ended /\ s.queue = sit.queue
  BY <1>6, <1>11, <1>12, AppliedGood
<1>14. LiveGood(Situation', rs, 0)
  BY <1>1, <1>13, BecomesGood
<1>15. queue' = <<>> /\ state' \in Ended
  BY <1>1, <1>3, <1>9, <1>13 DEF Becomes
<1>16. QED
  BY <1>3, <1>6, <1>14, <1>15 DEF LHInv, Ended

LEMMA ResumeKeeps == ASSUME LHInv, ResumeLive PROVE LHInv'
<1>1. PICK s \in Drained[Len(queue)] : Becomes(s)
  BY DEF ResumeLive
<1>2. LiveGood(s, roots, 0) /\ s.state \in Ended /\ (s.state = "Failed" \/ Len(s.queue) = 0)
  BY <1>1, DrainedGood DEF Reached
<1>3. roots' = roots /\ roots \in Seq(Roots)
  BY LiveFacts DEF ResumeLive
<1>4. LiveGood(Situation', roots', 0)
  BY <1>1, <1>2, <1>3, BecomesGood
<1>5. s.queue \in Seq(Queued)
  BY <1>2 DEF LiveGood, LiveTypes
<1>6. state' \in Ended /\ (queue' # <<>> => state' = "Failed")
  BY <1>1, <1>2, <1>5 DEF Becomes
<1>7. QED
  BY <1>3, <1>4, <1>6 DEF LHInv, Ended

LEMMA ObserveSuspendedKeeps ==
  ASSUME LHInv, NEW r \in Roots, NEW bytes \in Sizes, ObserveSuspended(r, bytes)
  PROVE  LHInv'
<1>1. PICK o, rs, q, b : /\ o = [id |-> Len(roots) + 1, bytes |-> bytes] /\ rs = Append(roots, r)
                         /\ q = Append(queue, o) /\ b = queueBytes + bytes
  OBVIOUS
<1>2. /\ state = "Suspended" /\ roots' = rs /\ queue' = q /\ queueBytes' = b
      /\ b <= MaxQueueBytes /\ UNCHANGED <<state, cache, applied, answers>>
  BY <1>1 DEF ObserveSuspended, Accepts
<1>3. /\ applied \in Seq(Observation) /\ answers \in Seq(BOOLEAN) /\ queue \in Seq(Queued)
      /\ queueBytes \in Nat /\ cache \in [Names -> InCache]
      /\ roots \in Seq(Roots)
      /\ HeldAsTold(applied, answers, roots) /\ QueuedNext(queue, answers, roots, 0)
      /\ BytesCounted(queue, queueBytes) /\ CacheTrue(cache, applied)
  BY LiveFacts
<1>4. bytes \in Nat
  BY LiveConstants
<1>5. o \in Queued
  BY <1>1, <1>3, <1>4 DEF Queued
<1>6. /\ q \in Seq(Queued) /\ Len(q) = Len(queue) + 1 /\ Len(queue) \in Nat
      /\ q[Len(queue) + 1] = o /\ \A i \in 1 .. Len(queue) : q[i] = queue[i]
  BY <1>1, <1>3, <1>5
<1>7. rs \in Seq(Roots) /\ Len(rs) = Len(roots) + 1 /\ Len(roots) \in Nat
  BY <1>1, <1>3
<1>8. BytesCounted(q, b) /\ b \in Nat
  <2>1. Bytes(q)[Len(queue) + 1] = Bytes(queue)[Len(queue)] + bytes
    BY <1>1, <1>3, <1>5, BytesAppend
  <2>2. b = Bytes(q)[Len(q)]
    BY <1>1, <1>3, <1>6, <2>1 DEF BytesCounted
  <2>3. b \in Nat
    BY <1>1, <1>3, <1>4
  <2>4. b <= MaxQueueBytes
    BY <1>2
  <2>5. QED
    BY <2>2, <2>3, <2>4 DEF BytesCounted
<1>9. PICK a, l : a = Len(answers) /\ l = Len(queue)
  OBVIOUS
<1>10. a \in Nat /\ l \in Nat /\ Len(roots) = a + 0 + l
  BY <1>3, <1>9 DEF QueuedNext
<1>11. QueuedNext(q, answers, rs, 0)
  <2>1. ASSUME NEW i \in 1 .. Len(q) PROVE q[i].id = a + 0 + i
    <3>1. CASE i = l + 1
      <4>1. q[i].id = Len(roots) + 1
        BY <1>1, <1>6, <1>9, <3>1
      <4>2. QED
        BY <1>10, <3>1, <4>1
    <3>2. CASE i # l + 1
      <4>1. i \in 1 .. Len(queue)
        BY <1>6, <1>9, <3>2
      <4>2. QED
        BY <1>3, <1>6, <1>9, <4>1 DEF QueuedNext
    <3>3. QED
      BY <3>1, <3>2
  <2>2. Len(rs) = a + 0 + Len(q)
    BY <1>6, <1>7, <1>9, <1>10
  <2>3. QED
    BY <1>9, <2>1, <2>2 DEF QueuedNext
<1>12. HeldAsTold(applied, answers, rs)
  <2>1. Len(answers) <= Len(roots)
    BY <1>9, <1>10
  <2>2. QED
    BY <1>1, <1>3, <2>1, RootAdded
<1>13. PICK s : s = [applied |-> applied, cache |-> cache, state |-> state, answers |-> answers,
                     queue |-> q, queueBytes |-> b]
  OBVIOUS
<1>14. Situation' = s
  BY <1>2, <1>13 DEF Situation
<1>15. /\ s.applied = applied /\ s.cache = cache /\ s.answers = answers /\ s.queue = q
       /\ s.queueBytes = b /\ LiveTypes(s)
  BY <1>2, <1>3, <1>6, <1>8, <1>13 DEF LiveTypes
<1>16. LiveGood(s, rs, 0)
  BY <1>3, <1>8, <1>11, <1>12, <1>15 DEF LiveGood
<1>17. QED
  BY <1>2, <1>7, <1>14, <1>16 DEF LHInv

LEMMA LiveSteps == LHInv /\ [LHNext]_LHvars => LHInv'
<1> SUFFICES ASSUME LHInv, [LHNext]_LHvars PROVE LHInv'
  OBVIOUS
<1>1. CASE StartLive
  BY <1>1, StartKeeps
<1>2. CASE DeleteLive
  BY <1>2, DeleteKeeps
<1>3. CASE PauseLive
  BY <1>3, PauseKeeps
<1>4. CASE ResumeLive
  BY <1>4, ResumeKeeps
<1>5. CASE \E r \in Roots : ObserveLive(r)
  BY <1>5, ObserveLiveKeeps
<1>6. CASE \E r \in Roots, bytes \in Sizes : ObserveSuspended(r, bytes)
  BY <1>6, ObserveSuspendedKeeps
<1>7. CASE \E n \in Names : InspectLive(n)
  BY <1>7, InspectKeeps
<1>8. CASE UNCHANGED LHvars
  BY <1>8 DEF LHInv, LHvars, instance, Situation
<1>9. QED
  BY <1>1, <1>2, <1>3, <1>4, <1>5, <1>6, <1>7, <1>8 DEF LHNext

(* Throughout, answers, queue and cache agree with what was accepted and    *)
(* with what the VM holds (LiveInstance).                                   *)
THEOREM LiveHostInvariant == LHSpec => []LHInv
  BY LiveInit, LiveSteps, PTL DEF LHSpec

(* Observations are told about in the order they were accepted, each once,  *)
(* the VM holds exactly those that went well, and the bytes counted are     *)
(* those of the queue, over any pauses, resumes and failures (observe_live, *)
(* resume_live).                                                            *)
THEOREM ObservationsStayInOrder == LHSpec => []ObservationsInOrder
<1>1. LHInv => ObservationsInOrder
  <2> SUFFICES ASSUME LHInv PROVE ObservationsInOrder
    OBVIOUS
  <2>1. /\ HeldAsTold(applied, answers, roots) /\ QueuedNext(queue, answers, roots, 0)
        /\ BytesCounted(queue, queueBytes) /\ answers \in Seq(BOOLEAN) /\ queue \in Seq(Queued)
    BY LiveFacts
  <2>2. /\ \A i \in 1 .. Len(queue) : queue[i].id = Len(answers) + i
        /\ Len(roots) = Len(answers) + Len(queue)
    <3>1. PICK a : a = Len(answers)
      OBVIOUS
    <3>2. a \in Nat /\ a + 0 = a
      BY <2>1, <3>1
    <3>3. QED
      BY <2>1, <3>1, <3>2 DEF QueuedNext
  <2>3. QED
    BY <2>1, <2>2 DEF ObservationsInOrder, HeldAsTold, BytesCounted, LHInv
<1>2. QED
  BY <1>1, LiveHostInvariant, PTL

(* What an instance that failed shows as whole is what the VM holds now,    *)
(* wherever its refresh stopped (refresh_inspections, inspect_live).        *)
THEOREM FailedInstancesShowTheTruth == LHSpec => []FailedShowsCurrent
<1>1. LHInv => FailedShowsCurrent
  <2> SUFFICES ASSUME LHInv, NEW n \in Names
               PROVE  Inspection(n).partial \/ Inspection(n).shows = VMShows(applied, n)
    BY DEF FailedShowsCurrent
  <2>1. CASE cache[n].revision = RevisionOf(applied, n)
    <3>1. Inspection(n) = cache[n]
      BY <2>1 DEF Inspection
    <3>2. QED
      BY <2>1, <3>1, LiveFacts DEF CacheTrue
  <2>2. CASE cache[n].revision # RevisionOf(applied, n)
    BY <2>2 DEF Inspection, PartialEntry
  <2>3. QED
    BY <2>1, <2>2
<1>2. QED
  BY <1>1, LiveHostInvariant, PTL
=============================================================================
