------------------------- MODULE SharedInformation -------------------------
(***************************************************************************)
(* Shared Information of the Lana VM (vm/rust/lana-vm/src/vm.rs): evidence *)
(* that several VMs, on threads of their own, observe, read and wait for   *)
(* through capabilities.                                                   *)
(*                                                                         *)
(* shared_observe is optimistic.  It reads the observations under the      *)
(* lock, replays them with its own outside, and publishes the result under *)
(* the lock if nothing changed meanwhile, else it starts over.             *)
(*                                                                         *)
(* A snapshot is the base value conditioned on evidence in order: it is    *)
(* modelled by the sequence of that evidence.  Whether conditioning        *)
(* succeeds is left open.  The tokens go from VM to VM with FORK, so any   *)
(* VM may use any of them.  A failure ends the VM.                         *)
(***************************************************************************)
EXTENDS Naturals, Sequences, FiniteSets, SequencesExt

CONSTANTS VMs, Times, Evidence,
          Granted,     \* what the creator granted before it forked the others
          Attempts,    \* of one shared_observe: 32 in the code
          MaxRevision, \* bound on the revisions of this and other Informations
          MaxTokens,   \* bound on the capabilities
          MaxEpoch     \* bound on the capability epoch

Permissions == {"admin", "read", "observe"}

ASSUME Bounds ==
    /\ Times \subseteq Nat
    /\ Granted \in Seq(Permissions)
    /\ Attempts \in Nat \ {0}
    /\ {MaxRevision, MaxTokens, MaxEpoch} \subseteq Nat
    /\ Len(Granted) <= MaxEpoch

VARIABLES
    observations, \* in the order they were published
    versions,     \* of the current commit: the evidence, replayed
    revision,     \* of the current commit
    counter,      \* the last number of NEXT_COMMIT_REVISION
    capabilities, \* what each token permits; the first is the creator's
    revoked, epoch,
    pc, call,     \* what each VM is at, and the call it makes
    cancelled,    \* the VMs that were told to stop
    answer,       \* what the last read of any VM answered
    accepted      \* the evidence shared_observe returned a revision for

commit == <<observations, versions, revision, counter, accepted>>
tokens == <<capabilities, revoked, epoch>>
vars == <<commit, tokens, pc, call, cancelled, answer>>

Observation == [time : Times, sequence : Nat, evidence : Evidence]
Tokens == DOMAIN capabilities

(* capability_allows_locked *)
(* Wrong on purpose: forgets revocation. *)
BrokenAllows(c, permission) == capabilities[c] = permission
Allows(c, permission) == capabilities[c] = permission /\ c \notin revoked

(* build_commit_candidate *)
(* Wrong on purpose: replays in the order of arrival. *)
BrokenEarlier(x, y) == x.sequence < y.sequence
Earlier(x, y) ==
    x.time < y.time \/ (x.time = y.time /\ x.sequence < y.sequence)
Order(s) ==
    CHOOSE p \in Bijection(DOMAIN s, DOMAIN s) :
        \A i, j \in DOMAIN s : i < j => Earlier(s[p[i]], s[p[j]])
Replay(s) == [i \in DOMAIN s |-> s[Order(s)[i]]]

Plain(x) == [time |-> x.time, evidence |-> x.evidence]
Later(t) == {i \in DOMAIN versions : versions[i].time > t}
UpTo(t) == IF Later(t) = {} THEN versions ELSE SubSeq(versions, 1, Min(Later(t)) - 1)

NoCall == [token |-> 0]
Ends(v) == pc' = [pc EXCEPT ![v] = "ended"] /\ call' = [call EXCEPT ![v] = NoCall]
Returns(v) == pc' = [pc EXCEPT ![v] = "idle"] /\ call' = [call EXCEPT ![v] = NoCall]
At(v, where) == pc[v] = where

(* condition.notify_all *)
(* Wrong on purpose: wakes nobody. *)
BrokenNotified(where) == where
Notified(where) == [v \in VMs |-> IF where[v] = "asleep" THEN "awake" ELSE where[v]]

Init ==
    /\ observations = <<>> /\ versions = <<>>
    /\ revision = 0 /\ counter = 0 /\ accepted = {}
    /\ capabilities = <<"admin">> \o Granted /\ revoked = {} /\ epoch = Len(Granted)
    /\ pc = [v \in VMs |-> "idle"] /\ call = [v \in VMs |-> NoCall]
    /\ cancelled = {}
    /\ answer = <<>>

(* Between two instructions a VM that is not told to stop may call. *)
Calls(v) == At(v, "idle") /\ v \notin cancelled

-----------------------------------------------------------------------------
(* shared_observe. *)

Observe(v, c, t, e) ==
    /\ Calls(v)
    /\ pc' = [pc EXCEPT ![v] = "reading"]
    /\ call' = [call EXCEPT ![v] = [token |-> c, time |-> t, evidence |-> e, tries |-> 0]]
    /\ UNCHANGED <<commit, tokens, cancelled, answer>>

SameTime(v) == {x \in Range(observations) : x.time = call[v].time}

(* The evidence is there already: the current revision is the answer. *)
(* Wrong on purpose: looks at the time only. *)
BrokenKnown(v) == SameTime(v) # {}
Known(v) == \E x \in SameTime(v) : x.evidence = call[v].evidence

ObserveAgain(v) ==
    /\ At(v, "reading") /\ Allows(call[v].token, "observe") /\ Known(v)
    /\ accepted' = accepted \cup {Plain(call[v])}
    /\ Returns(v)
    /\ UNCHANGED <<observations, versions, revision, counter, tokens, cancelled,
                   answer>>

ObserveConflicts(v) ==
    /\ At(v, "reading") /\ Allows(call[v].token, "observe")
    /\ SameTime(v) # {} /\ ~Known(v)
    /\ Ends(v)
    /\ UNCHANGED <<commit, tokens, cancelled, answer>>

(* It copies what it saw, then looks at its own flag. *)
ReadBase(v) ==
    /\ At(v, "reading") /\ Allows(call[v].token, "observe") /\ SameTime(v) = {}
    /\ v \notin cancelled
    /\ pc' = [pc EXCEPT ![v] = "building"]
    /\ call' = [call EXCEPT ![v] =
          [time |-> @.time, evidence |-> @.evidence, token |-> @.token, tries |-> @.tries,
           revision |-> revision, epoch |-> epoch, base |-> observations]]
    /\ UNCHANGED <<commit, tokens, cancelled, answer>>

ObserveCancelled(v) ==
    /\ At(v, "reading") /\ Allows(call[v].token, "observe") /\ SameTime(v) = {}
    /\ v \in cancelled
    /\ Ends(v)
    /\ UNCHANGED <<commit, tokens, cancelled, answer>>

(* The replay fails: the evidence is impossible, or a limit is reached. *)
BuildFails(v) ==
    /\ At(v, "building")
    /\ Ends(v)
    /\ UNCHANGED <<commit, tokens, cancelled, answer>>

(* Wrong on purpose: compares the epoch only. *)
BrokenStale(v) == epoch # call[v].epoch
Stale(v) ==
    \/ revision # call[v].revision
    \/ Len(observations) # Len(call[v].base)
    \/ epoch # call[v].epoch

LastAttempt(v) == call[v].tries + 1 = Attempts

StartsOver(v) ==
    /\ At(v, "building") /\ Stale(v)
    /\ IF LastAttempt(v) THEN Ends(v)
       ELSE /\ pc' = [pc EXCEPT ![v] = "reading"]
            /\ call' = [call EXCEPT ![v] =
                  [time |-> @.time, evidence |-> @.evidence, token |-> @.token,
                   tries |-> @.tries + 1]]
    /\ UNCHANGED <<commit, tokens, cancelled, answer>>

ObserveRefused(v) ==
    /\ pc[v] \in {"reading", "building"}
    /\ At(v, "building") => ~Stale(v)
    /\ ~Allows(call[v].token, "observe")
    /\ Ends(v)
    /\ UNCHANGED <<commit, tokens, cancelled, answer>>

Pending(v) ==
    [time |-> call[v].time, sequence |-> Len(call[v].base) + 1,
     evidence |-> call[v].evidence]

Publish(v) ==
    /\ At(v, "building") /\ ~Stale(v) /\ Allows(call[v].token, "observe")
    /\ counter < MaxRevision
    /\ counter' = counter + 1 /\ revision' = counter'
    /\ observations' = Append(observations, Pending(v))
    /\ versions' = Replay(Append(call[v].base, Pending(v)))
    /\ accepted' = accepted \cup {Plain(call[v])}
    /\ call' = [call EXCEPT ![v] = NoCall]
    /\ pc' = Notified([pc EXCEPT ![v] = "idle"])
    /\ UNCHANGED <<tokens, cancelled, answer>>

(* The counter is the process's: other Informations draw from it. *)
OtherCommit ==
    /\ counter < MaxRevision
    /\ counter' = counter + 1
    /\ UNCHANGED <<observations, versions, revision, accepted, tokens, pc, call,
                   cancelled, answer>>

-----------------------------------------------------------------------------
(* shared_snapshot and shared_at, in one step under the lock. *)

Snapshot(v, c) ==
    /\ Calls(v) /\ Allows(c, "read")
    /\ answer' = versions
    /\ UNCHANGED <<commit, tokens, pc, call, cancelled>>

ReadAt(v, c, t) ==
    /\ Calls(v) /\ Allows(c, "read")
    /\ answer' = UpTo(t)
    /\ UNCHANGED <<commit, tokens, pc, call, cancelled>>

ReadRefused(v, c) ==
    /\ Calls(v) /\ ~Allows(c, "read")
    /\ Ends(v)
    /\ UNCHANGED <<commit, tokens, cancelled, answer>>

-----------------------------------------------------------------------------
(* shared_wait: it looks when it starts and whenever it is woken. *)

Wait(v, c, after, timed) ==
    /\ Calls(v)
    /\ pc' = [pc EXCEPT ![v] = "awake"]
    /\ call' = [call EXCEPT ![v] = [token |-> c, after |-> after, timed |-> timed]]
    /\ UNCHANGED <<commit, tokens, cancelled, answer>>

Reached(v) == revision > call[v].after

WaitReturns(v) ==
    /\ At(v, "awake") /\ Reached(v) /\ Allows(call[v].token, "read")
    /\ answer' = versions
    /\ Returns(v)
    /\ UNCHANGED <<commit, tokens, cancelled>>

WaitRefused(v) ==
    /\ At(v, "awake") /\ ~Allows(call[v].token, "read")
    /\ Ends(v)
    /\ UNCHANGED <<commit, tokens, cancelled, answer>>

WaitCancelled(v) ==
    /\ At(v, "awake") /\ ~Reached(v) /\ Allows(call[v].token, "read")
    /\ v \in cancelled
    /\ Ends(v)
    /\ UNCHANGED <<commit, tokens, cancelled, answer>>

FallsAsleep(v) ==
    /\ At(v, "awake") /\ ~Reached(v) /\ Allows(call[v].token, "read")
    /\ v \notin cancelled
    /\ pc' = [pc EXCEPT ![v] = "asleep"]
    /\ UNCHANGED <<commit, tokens, call, cancelled, answer>>

(* The time is over.  A VM whose sleep timed out does not look again. *)
TimesOut(v) ==
    /\ \/ At(v, "asleep")
       \/ At(v, "awake") /\ ~Reached(v) /\ Allows(call[v].token, "read")
            /\ v \notin cancelled
    /\ call[v].timed
    /\ Ends(v)
    /\ UNCHANGED <<commit, tokens, cancelled, answer>>

-----------------------------------------------------------------------------
(* shared_grant, shared_revoke and revoke.  A grant wakes nobody.          *)
(* shared_revoke needs an admin token, and does with one what revoke does  *)
(* to the token its caller holds: Revoke stands for both.                  *)

Grant(v, c, permission) ==
    /\ Calls(v) /\ Allows(c, "admin")
    /\ Len(capabilities) < MaxTokens /\ epoch < MaxEpoch
    /\ capabilities' = Append(capabilities, permission)
    /\ epoch' = epoch + 1
    /\ UNCHANGED <<commit, revoked, pc, call, cancelled, answer>>

(* Wrong on purpose: does not wake the waiters. *)
BrokenWoken == pc
Woken == Notified(pc)

Revoke(v, target) ==
    /\ Calls(v)
    /\ epoch < MaxEpoch
    /\ revoked' = revoked \cup {target}
    /\ epoch' = epoch + 1
    /\ pc' = Woken
    /\ UNCHANGED <<commit, capabilities, call, cancelled, answer>>

AdminRefused(v, c) ==
    /\ Calls(v) /\ ~Allows(c, "admin")
    /\ Ends(v)
    /\ UNCHANGED <<commit, tokens, cancelled, answer>>

(* CANCEL, or the shutdown: only the flag. *)
Cancel(v) ==
    /\ v \notin cancelled
    /\ cancelled' = cancelled \cup {v}
    /\ UNCHANGED <<commit, tokens, pc, call, answer>>

-----------------------------------------------------------------------------
Goes(v) ==
    \/ ObserveAgain(v) \/ ObserveConflicts(v) \/ ReadBase(v) \/ ObserveCancelled(v)
    \/ BuildFails(v) \/ StartsOver(v) \/ ObserveRefused(v) \/ Publish(v)
    \/ WaitReturns(v) \/ WaitRefused(v) \/ WaitCancelled(v) \/ FallsAsleep(v)
    \/ TimesOut(v)

Starts(v) ==
    \E c \in Tokens :
       \/ \E t \in Times, e \in Evidence : Observe(v, c, t, e)
       \/ Snapshot(v, c) \/ ReadRefused(v, c) \/ \E t \in Times : ReadAt(v, c, t)
       \/ \E after \in 0 .. counter, timed \in BOOLEAN : Wait(v, c, after, timed)
       \/ \E permission \in Permissions : Grant(v, c, permission)
       \/ AdminRefused(v, c) \/ Revoke(v, c)

Next == OtherCommit \/ \E v \in VMs : Goes(v) \/ Starts(v) \/ Cancel(v)

(* A VM that is in a call goes on with it: it has a thread of its own. *)
Fairness == \A v \in VMs : WF_vars(Goes(v))
Spec == Init /\ [][Next]_vars /\ Fairness

-----------------------------------------------------------------------------
(* Properties. *)

Tries == 0 .. Attempts - 1
ObserveCall == [token : Nat, time : Times, evidence : Evidence, tries : Tries]
BuildCall ==
    [token : Nat, time : Times, evidence : Evidence, tries : Tries,
     revision : Nat, epoch : Nat, base : Seq(Observation)]
WaitCall == [token : Nat, after : Nat, timed : BOOLEAN]

CallOK(v) ==
    /\ pc[v] = "reading" => call[v] \in ObserveCall
    /\ pc[v] = "building" => call[v] \in BuildCall
    /\ pc[v] \in {"awake", "asleep"} => call[v] \in WaitCall
    /\ pc[v] \notin {"idle", "ended"} => call[v].token \in Tokens

TypeOK ==
    /\ observations \in Seq(Observation) /\ versions \in Seq(Observation)
    /\ revision \in 0 .. counter /\ counter \in 0 .. MaxRevision
    /\ accepted \subseteq [time : Times, evidence : Evidence]
    /\ capabilities \in Seq(Permissions) /\ revoked \subseteq Tokens
    /\ epoch \in 0 .. MaxEpoch
    /\ pc \in [VMs -> {"idle", "reading", "building", "awake", "asleep", "ended"}]
    /\ DOMAIN call = VMs /\ \A v \in VMs : CallOK(v)
    /\ cancelled \subseteq VMs
    /\ answer \in Seq(Observation)

(* Two VMs that observe the same time at once do not both get in, with the *)
(* same evidence or with another: "Equal-time equal evidence is            *)
(* idempotent; equal-time conflicting evidence fails" (shared_observe).    *)
OneEvidencePerTime ==
    \A i, j \in DOMAIN observations :
        observations[i].time = observations[j].time => i = j

(* What is published is the replay of all the observations in the order    *)
(* "(effective_time, sequence)", also when they came late or another VM    *)
(* published while this one replayed (build_commit_candidate).             *)
ReplayComplete ==
    /\ Len(versions) = Len(observations)
    /\ Range(versions) = Range(observations)
    /\ \A i, j \in DOMAIN versions : i < j => versions[i].time < versions[j].time

(* Evidence is published, and a snapshot given to a VM that waited, only   *)
(* under a capability that grants it at that instant, however long ago the *)
(* call began ("a waiter ... rechecks authority"; "revocation ... publishes *)
(* nothing").                                                              *)
Held(v, permission) ==
    capabilities[call[v].token] = permission /\ call[v].token \notin revoked
OnlyWithAuthority ==
    [][\A v \in VMs :
          /\ At(v, "building") /\ pc'[v] = "idle" => Held(v, "observe")
          /\ At(v, "awake") /\ pc'[v] = "idle" => Held(v, "read") /\ Reached(v)]_vars

(* No wake-up is lost: a VM in shared_wait goes on once a later revision   *)
(* is there or its capability is revoked.                                  *)
WaitersGoOn ==
    \A v \in VMs :
        (/\ pc[v] \in {"awake", "asleep"}
         /\ Reached(v) \/ ~Allows(call[v].token, "read"))
        ~> pc[v] \notin {"awake", "asleep"}

(* Shared Information is one history: it implements SharedHistory.         *)
History == INSTANCE SharedHistory WITH
    history <- accepted,
    answer <- [i \in DOMAIN answer |-> Plain(answer[i])]
ImplementsHistory == History!Spec

(* Not true of the code.  "Failed replay, revocation, cancellation, or     *)
(* resource failure publishes nothing."                                    *)
CancelledPublishesNothing ==
    [][\A v \in cancelled : At(v, "building") => pc'[v] # "idle"]_vars
=============================================================================
