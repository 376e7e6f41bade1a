----------------------------- MODULE StoreHost -----------------------------
(* The one store a running program has, as the runtime's host calls drive   *)
(* it: a slot for the handle, what is staged, and the revisions.  A version *)
(* maps the keys that are there to values; a key is a tuple.                *)
EXTENDS Naturals, Sequences

VARIABLES
    slot,      \* StoreHost::store: "none", "open" or "closed" (Some, but of no use)
    mutations, \* Store::staged
    history,   \* the versions that were committed, the store's revisions
    uncertain  \* a version whose commit was uncertain, until the next open

storeVars == <<slot, mutations, history, uncertain>>

(* The keys of one version over those of another, and a version of one key. *)
new ++ old ==
    [k \in DOMAIN new \cup DOMAIN old |-> IF k \in DOMAIN new THEN new[k] ELSE old[k]]
Only(key, value) == [k \in {key} |-> value]

NoKeys == [k \in {} |-> 0]
VersionAt(r) == IF r = 0 THEN NoKeys ELSE history[r]
Revision == Len(history)
Shown == VersionAt(Revision)
Has(key) == key \in DOMAIN Shown

SlotInit == slot = "none" /\ mutations = NoKeys /\ history = <<>> /\ uncertain = {}

(* store_open settles what was in doubt; it refuses while the slot is full, *)
(* with a handle that is closed too.                                        *)
StoreOpen ==
    /\ slot = "none" /\ slot' = "open"
    /\ history' \in {history} \cup {Append(history, v) : v \in uncertain}
    /\ uncertain' = {} /\ UNCHANGED mutations

Lost(vs) == mutations' = NoKeys /\ uncertain' = vs /\ UNCHANGED history

(* The process ends and another begins.                                     *)
ProcessEnds == slot' = "none" /\ Lost(uncertain)

-----------------------------------------------------------------------------
(* The outcomes of a commit of the staged keys, and of more.                *)

Usable(limit) == slot = "open" /\ Revision < limit
Clean(limit) == Usable(limit) /\ mutations = NoKeys

CommitMade(keys) ==
    /\ history' = Append(history, keys ++ mutations ++ Shown)
    /\ mutations' = NoKeys
    /\ UNCHANGED <<slot, uncertain>>

(* What store_commit and ledger_append leave when it fails: rolled back,    *)
(* everything stays staged; uncertain, the handle is closed in its slot.    *)
CommitLeft(keys) ==
    \/ mutations' = keys ++ mutations /\ UNCHANGED <<slot, history, uncertain>>
    \/ slot' = "closed" /\ Lost({keys ++ mutations ++ Shown})

(* What the other host calls leave: close_failed_store empties the slot.    *)
CommitClosed(keys) ==
    \E vs \in {{}, {keys ++ mutations ++ Shown}} : slot' = "none" /\ Lost(vs)

-----------------------------------------------------------------------------
(* store_put and store_commit of keys that no service uses.                 *)

PutPlain ==
    /\ slot = "open" /\ mutations = NoKeys
    /\ mutations' = Only(<<"plain">>, 0)
    /\ UNCHANGED <<slot, history, uncertain>>

CommitPlain(limit) ==
    /\ Usable(limit) /\ mutations # NoKeys
    /\ CommitMade(NoKeys) \/ CommitLeft(NoKeys)
=============================================================================
