------------------------------ MODULE Records ------------------------------
(* What is kept of what a program did: the ledger's events, the decisions   *)
(* of a policy and the attempts at an effect.  All of them are keys of the  *)
(* store; an event is a line of the ledger's journal before that.           *)
EXTENDS StoreHost, FiniteSets

CONSTANTS
    Events,     \* what an event says
    Decisions,  \* identifiers of decisions
    Outcomes,   \* what a decision says
    Attempts,   \* pairs of a decision's identifier and an attempt's
    MaxRecordRevisions \* bound on the store's revisions

VARIABLES
    events,   \* the events written to ledger.journal, with the key of each
    running,  \* the attempt effect_execute_attempt is at, and how far
    executed  \* the executor's answers, each with its attempt

effectVars == <<running, executed>>
RCvars == <<storeVars, events, effectVars>>

Idle == <<"idle", 0>>
RCInit == SlotInit /\ events = {} /\ running = Idle /\ executed = <<>>

Stages(key, value) ==
    /\ mutations' = Only(key, value) ++ mutations
    /\ UNCHANGED <<slot, history, uncertain>>

LedgerOpen == running = Idle /\ StoreOpen /\ UNCHANGED <<events, effectVars>>
LedgerRestart == ProcessEnds /\ running' = Idle /\ UNCHANGED <<events, executed>>

LedgerCommit ==
    /\ running = Idle /\ CommitPlain(MaxRecordRevisions)
    /\ UNCHANGED <<events, effectVars>>

-----------------------------------------------------------------------------
(* The ledger.  An event is named after the revision that will hold it.     *)

(* Wrong on purpose: after the revision that holds everything before it.    *)
BrokenEventKey(revision) == <<"event", revision>>

EventKey(revision) == <<"event", revision + 1>>

LedgerAppend(e) ==
    /\ running = Idle /\ Usable(MaxRecordRevisions)
    /\ events' = events \cup {<<EventKey(Revision), e>>}
    /\ CommitMade(Only(EventKey(Revision), e)) \/ CommitLeft(Only(EventKey(Revision), e))
    /\ UNCHANGED effectVars

(* The events a query goes through: one key for each revision, some absent. *)
ScanEvents == {i \in 1 .. Revision : Has(<<"event", i>>)}

-----------------------------------------------------------------------------
(* Decisions and attempts: the check looks at what is committed, not staged.*)

Unrecorded(key) == ~Has(key)

PolicyStoreDecision(d, outcome) ==
    /\ running = Idle /\ slot = "open" /\ Unrecorded(<<"decision", d>>)
    /\ Stages(<<"decision", d>>, outcome)
    /\ UNCHANGED <<events, effectVars>>

AttemptKey(a) == <<"effect-attempt", a>>

(* Wrong on purpose: a Pending record may be taken up again.                *)
BrokenAttempted(a) == Has(AttemptKey(a)) /\ Shown[AttemptKey(a)] # "Pending"

Attempted(a) == Has(AttemptKey(a))

EffectStoreAttempt(a) ==
    /\ running = Idle /\ slot = "open" /\ ~Attempted(a)
    /\ Stages(AttemptKey(a), "Pending")
    /\ UNCHANGED <<events, effectVars>>

(* effect_execute_attempt: a Pending record, committed; the executor; what  *)
(* it answered, over the record, committed.                                 *)
EffectBegin(a) ==
    /\ running = Idle /\ Usable(MaxRecordRevisions) /\ ~Attempted(a)
    /\ \/ CommitMade(Only(AttemptKey(a), "Pending")) /\ running' = <<"pending", a>>
       \/ CommitLeft(Only(AttemptKey(a), "Pending")) /\ UNCHANGED running
    /\ UNCHANGED <<events, executed>>

Execute(status) ==
    /\ running[1] = "pending"
    /\ running' = <<status, running[2]>>
    /\ executed' = Append(executed, <<running[2], status>>)
    /\ UNCHANGED <<storeVars, events>>

EffectEnd ==
    /\ running[1] \in {"Succeeded", "Failed"} /\ Usable(MaxRecordRevisions)
    /\ LET record == Only(AttemptKey(running[2]), running[1])
       IN  CommitMade(record) \/ CommitLeft(record)
    /\ running' = Idle
    /\ UNCHANGED <<events, executed>>

RCNext ==
    \/ LedgerOpen \/ LedgerRestart \/ LedgerCommit
    \/ \E e \in Events : LedgerAppend(e)
    \/ \E d \in Decisions, outcome \in Outcomes : PolicyStoreDecision(d, outcome)
    \/ \E a \in Attempts : EffectStoreAttempt(a) \/ EffectBegin(a)
    \/ \E status \in {"Succeeded", "Failed"} : Execute(status)
    \/ EffectEnd

RCSpec == RCInit /\ [][RCNext]_RCvars

-----------------------------------------------------------------------------
(* Properties.                                                              *)

(* ledger_append gives an event the number of the revision it expects: it   *)
(* is that revision's own, and said in the journal, over appends that were  *)
(* rolled back and left their event staged for the next commit of anything, *)
(* and over uncertain ones that turn up later; a query finds each of them.  *)
(* And an event or a decision, once committed, is never changed or lost,    *)
(* though the check against what is there does not see what is staged.      *)
RecordsKept ==
    /\ ScanEvents = {r \in 1 .. Revision : <<"event", r>> \in DOMAIN history[r]}
    /\ \A r \in 1 .. Revision : \A key \in DOMAIN history[r] : key[1] = "event" =>
          /\ key[2] \in 1 .. r
          /\ key[2] = r <=> key \notin DOMAIN VersionAt(r - 1)
          /\ <<key, history[r][key]>> \in events
    /\ \A r \in 2 .. Revision : \A key \in DOMAIN history[r - 1] :
          /\ key \in DOMAIN history[r]
          /\ key[1] \in {"event", "decision"} => history[r][key] = history[r - 1][key]

(* effect_execute_attempt calls the executor at most once for an attempt,   *)
(* and a record that says how it went says what the executor answered, over *)
(* commits that are rolled back, uncertain, or cut off by a crash.          *)
EffectAtMostOnce ==
    /\ \A i, j \in DOMAIN executed : executed[i][1] = executed[j][1] => i = j
    /\ \A r \in 1 .. Revision : \A a \in Attempts :
          AttemptKey(a) \in DOMAIN history[r] =>
              \/ history[r][AttemptKey(a)] = "Pending"
              \/ \E i \in DOMAIN executed : executed[i] = <<a, history[r][AttemptKey(a)]>>
=============================================================================
