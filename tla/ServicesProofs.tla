--------------------------- MODULE ServicesProofs ---------------------------
(***************************************************************************)
(* Theorems about Records, Learned and Datasets, the services that share   *)
(* the program's store handle, for any events, decisions, attempts, rows,  *)
(* tasks, queries and programs.                                            *)
(***************************************************************************)
EXTENDS Records, Learned, Datasets, TLAPS

-----------------------------------------------------------------------------
(* Versions: functions of some of the keys. *)

Partial(K, R) == UNION {[S -> R] : S \in SUBSET K}

LEMMA PartialFacts ==
  ASSUME NEW K, NEW R, NEW f \in Partial(K, R)
  PROVE  /\ f = [k \in DOMAIN f |-> f[k]] /\ DOMAIN f \subseteq K
         /\ \A k \in DOMAIN f : f[k] \in R
BY DEF Partial

LEMMA PartialMember ==
  ASSUME NEW K, NEW R, NEW f, f = [k \in DOMAIN f |-> f[k]], DOMAIN f \subseteq K,
         \A k \in DOMAIN f : f[k] \in R
  PROVE  f \in Partial(K, R)
<1>1. f \in [DOMAIN f -> R]
  OBVIOUS
<1>2. QED
  BY <1>1 DEF Partial

LEMMA Overriding ==
  ASSUME NEW f, NEW g
  PROVE  /\ f ++ g = [k \in DOMAIN (f ++ g) |-> (f ++ g)[k]]
         /\ DOMAIN (f ++ g) = DOMAIN f \cup DOMAIN g
         /\ \A k \in DOMAIN f : (f ++ g)[k] = f[k]
         /\ \A k \in DOMAIN g \ DOMAIN f : (f ++ g)[k] = g[k]
BY DEF ++

LEMMA PartialOver ==
  ASSUME NEW K, NEW R, NEW f \in Partial(K, R), NEW g \in Partial(K, R)
  PROVE  f ++ g \in Partial(K, R)
<1> DEFINE h == f ++ g
<1>1. /\ h = [k \in DOMAIN h |-> h[k]] /\ DOMAIN h = DOMAIN f \cup DOMAIN g
      /\ \A k \in DOMAIN f : h[k] = f[k]
      /\ \A k \in DOMAIN g \ DOMAIN f : h[k] = g[k]
  BY DEF ++
<1>2. DOMAIN f \subseteq K /\ DOMAIN g \subseteq K
      /\ (\A k \in DOMAIN f : f[k] \in R) /\ \A k \in DOMAIN g : g[k] \in R
  BY PartialFacts
<1> HIDE DEF h
<1>3. h \in Partial(K, R)
  BY <1>1, <1>2, PartialMember
<1>4. QED
  BY <1>3 DEF h

LEMMA OneKey ==
  ASSUME NEW key, NEW value
  PROVE  /\ DOMAIN Only(key, value) = {key} /\ Only(key, value)[key] = value
         /\ Only(key, value) = [k \in DOMAIN Only(key, value) |-> Only(key, value)[k]]
BY DEF Only

LEMMA PartialOne ==
  ASSUME NEW K, NEW R, NEW key \in K, NEW value \in R
  PROVE  Only(key, value) \in Partial(K, R)
<1> DEFINE h == Only(key, value)
<1>1. DOMAIN h = {key} /\ h[key] = value /\ h = [k \in DOMAIN h |-> h[k]]
  BY OneKey
<1> HIDE DEF h
<1>2. h \in Partial(K, R)
  BY <1>1, PartialMember
<1>3. QED
  BY <1>2 DEF h

LEMMA PartialNone ==
  ASSUME NEW K, NEW R
  PROVE  NoKeys \in Partial(K, R) /\ DOMAIN NoKeys = {}
<1>1. NoKeys \in [{} -> R] /\ DOMAIN NoKeys = {}
  BY DEF NoKeys
<1>2. QED
  BY <1>1 DEF Partial

-----------------------------------------------------------------------------
(* The handle, whatever the service: V is what a version may be. *)

HostOK(V) ==
    /\ slot \in {"none", "open", "closed"}
    /\ mutations \in V /\ history \in Seq(V) /\ uncertain \in SUBSET V
    /\ slot = "open" => uncertain = {}
    /\ slot # "open" => mutations = NoKeys

(* What the store shows, of a history. *)
LastOf(h) == IF Len(h) = 0 THEN NoKeys ELSE h[Len(h)]

LEMMA ShownIsLast == Shown = LastOf(history)
BY DEF Shown, VersionAt, Revision, LastOf

LEMMA LastFacts ==
  ASSUME NEW V, NEW h \in Seq(V), NoKeys \in V
  PROVE  LastOf(h) \in V /\ Len(h) \in Nat
BY DEF LastOf

LEMMA AppendFacts ==
  ASSUME NEW V, NEW h \in Seq(V), NEW v \in V
  PROVE  /\ Append(h, v) \in Seq(V) /\ Len(Append(h, v)) = Len(h) + 1
         /\ \A i \in 1 .. Len(h) : Append(h, v)[i] = h[i]
         /\ Append(h, v)[Len(h) + 1] = v /\ LastOf(Append(h, v)) = v
         /\ Len(h) \in Nat
BY DEF LastOf

(* The steps of the store that several services share. *)
LEMMA StoreOpenKeeps ==
  ASSUME NEW V, HostOK(V), StoreOpen
  PROVE  /\ HostOK(V)' /\ mutations' = mutations /\ uncertain' = {}
         /\ history' = history \/ \E v \in uncertain : history' = Append(history, v)
<1>1. \A v \in uncertain : Append(history, v) \in Seq(V)
  BY AppendFacts DEF HostOK
<1>2. QED
  BY <1>1 DEF HostOK, StoreOpen

LEMMA ProcessEndsKeeps ==
  ASSUME NEW V, NoKeys \in V, HostOK(V), ProcessEnds
  PROVE  HostOK(V)' /\ mutations' = NoKeys /\ history' = history /\ uncertain' = uncertain
BY DEF HostOK, ProcessEnds, Lost

(* Every outcome of a commit of keys, whichever host call makes it. *)
CommitOutcome(keys) == CommitMade(keys) \/ CommitLeft(keys) \/ CommitClosed(keys)

LEMMA CommitKeeps ==
  ASSUME NEW V, NoKeys \in V, HostOK(V), NEW keys, slot = "open",
         keys ++ mutations \in V, keys ++ mutations ++ Shown \in V, CommitOutcome(keys)
  PROVE  /\ HostOK(V)'
         /\ \/ /\ history' = Append(history, keys ++ mutations ++ Shown)
               /\ mutations' = NoKeys /\ uncertain' = uncertain
            \/ /\ history' = history
               /\ mutations' = NoKeys \/ mutations' = keys ++ mutations
               /\ uncertain' \subseteq uncertain \cup {keys ++ mutations ++ Shown}
<1>1. CASE CommitMade(keys)
  BY <1>1, AppendFacts DEF HostOK, CommitMade
<1>2. CASE CommitLeft(keys)
  BY <1>2 DEF HostOK, CommitLeft, Lost
<1>3. CASE CommitClosed(keys)
  <2>1. PICK vs \in {{}, {keys ++ mutations ++ Shown}} : slot' = "none" /\ Lost(vs)
    BY <1>3 DEF CommitClosed
  <2>2. vs \subseteq {keys ++ mutations ++ Shown}
    BY <2>1
  <2>3. QED
    BY <2>1, <2>2 DEF HostOK, Lost
<1>4. QED
  BY <1>1, <1>2, <1>3 DEF CommitOutcome

-----------------------------------------------------------------------------
(* Records. *)

RecordKeys ==
    {<<"event", r>> : r \in Nat} \cup {<<"decision", d>> : d \in Decisions}
        \cup {AttemptKey(a) : a \in Attempts}
RecordValues == Events \cup Outcomes \cup {"Pending", "Succeeded", "Failed"}
RecordVersions == Partial(RecordKeys, RecordValues)

RCTypeOK ==
    /\ HostOK(RecordVersions)
    /\ events \in SUBSET (RecordKeys \X Events)
    /\ running \in {Idle} \cup ({"pending", "Succeeded", "Failed"} \X Attempts)
    /\ executed \in Seq(Attempts \X {"Succeeded", "Failed"})

(* A record of an attempt says what the executor's answers xs say. *)
Attests(xs, a, value) == value = "Pending" \/ \E i \in DOMAIN xs : xs[i] = <<a, value>>

(* What may be staged over history h, with js said in the journal. *)
Stageable(m, h, js, xs) ==
    /\ m \in RecordVersions
    /\ \A key \in DOMAIN m :
          /\ key[1] = "event" => key = <<"event", Len(h) + 1>> /\ <<key, m[key]>> \in js
          /\ key[1] = "decision" => key \notin DOMAIN LastOf(h)
          /\ key[1] = "effect-attempt" => Attests(xs, key[2], m[key])

(* What the next version may be. *)
MayFollow(v, h, js, xs) ==
    /\ v \in RecordVersions
    /\ DOMAIN LastOf(h) \subseteq DOMAIN v
    /\ \A key \in DOMAIN v :
          /\ key[1] = "event" =>
                /\ key = <<"event", Len(h) + 1>> \/ key \in DOMAIN LastOf(h)
                /\ <<key, v[key]>> \in js
          /\ key \in DOMAIN LastOf(h) /\ key[1] \in {"event", "decision"} =>
                v[key] = LastOf(h)[key]
          /\ key[1] = "effect-attempt" => Attests(xs, key[2], v[key])

(* What holds of all versions there are. *)
Grows(h) ==
    \A r \in 1 .. Len(h) : \A q \in 1 .. r : \A key \in DOMAIN h[q] :
        /\ key \in DOMAIN h[r]
        /\ key[1] \in {"event", "decision"} => h[r][key] = h[q][key]
Truthful(h, js, xs) ==
    \A r \in 1 .. Len(h) : \A key \in DOMAIN h[r] :
        /\ key[1] = "event" =>
              key[2] \in 1 .. r /\ key \in DOMAIN h[key[2]] /\ <<key, h[r][key]>> \in js
        /\ key[1] = "effect-attempt" => Attests(xs, key[2], h[r][key])

(* The executor is not called for an attempt whose record is kept, but by   *)
(* the call that has just committed it.                                     *)
ExecutedOnce ==
    /\ \A i, j \in DOMAIN executed : executed[i][1] = executed[j][1] => i = j
    /\ \A i \in DOMAIN executed : AttemptKey(executed[i][1]) \in DOMAIN LastOf(history)
    /\ running[1] = "pending" =>
          /\ AttemptKey(running[2]) \in DOMAIN LastOf(history)
          /\ \A i \in DOMAIN executed : executed[i][1] # running[2]
    /\ running[1] \in {"Succeeded", "Failed"} =>
          \E i \in DOMAIN executed : executed[i] = <<running[2], running[1]>>

RCInv ==
    /\ RCTypeOK /\ ExecutedOnce
    /\ Grows(history) /\ Truthful(history, events, executed)
    /\ Stageable(mutations, history, events, executed)
    /\ \A v \in uncertain : MayFollow(v, history, events, executed)

-----------------------------------------------------------------------------
(* Lemmas about versions of records. *)

LEMMA RecordKeyForms ==
  ASSUME NEW key \in RecordKeys
  PROVE  /\ key[1] \in {"event", "decision", "effect-attempt"}
         /\ key[1] = "event" => key[2] \in Nat /\ key = <<"event", key[2]>>
         /\ key[1] = "decision" => key = <<"decision", key[2]>>
         /\ key[1] = "effect-attempt" => key = AttemptKey(key[2])
BY DEF RecordKeys, AttemptKey

LEMMA EventNumber ==
  ASSUME NEW key, NEW n, key = <<"event", n>>
  PROVE  key[1] = "event" /\ key[2] = n
OBVIOUS

LEMMA NothingStaged ==
  ASSUME NEW h, NEW js, NEW xs
  PROVE  Stageable(NoKeys, h, js, xs)
BY PartialNone DEF Stageable, RecordVersions

LEMMA StagedTogether ==
  ASSUME NEW h, NEW js, NEW xs, NEW m, NEW n,
         Stageable(m, h, js, xs), Stageable(n, h, js, xs)
  PROVE  Stageable(m ++ n, h, js, xs)
<1> DEFINE o == m ++ n
<1>1. o \in RecordVersions
  BY PartialOver DEF Stageable, RecordVersions
<1>2. /\ DOMAIN o = DOMAIN m \cup DOMAIN n
      /\ \A k \in DOMAIN m : o[k] = m[k]
      /\ \A k \in DOMAIN n \ DOMAIN m : o[k] = n[k]
  BY DEF ++
<1> HIDE DEF o
<1>3. Stageable(o, h, js, xs)
  BY <1>1, <1>2 DEF Stageable
<1>4. QED
  BY <1>3 DEF o

LEMMA StagedAlone ==
  ASSUME NEW h, NEW js, NEW xs, NEW key \in RecordKeys, NEW value \in RecordValues,
         key[1] = "event" => key = <<"event", Len(h) + 1>> /\ <<key, value>> \in js,
         key[1] = "decision" => key \notin DOMAIN LastOf(h),
         key[1] = "effect-attempt" => Attests(xs, key[2], value)
  PROVE  Stageable(Only(key, value), h, js, xs)
<1> DEFINE o == Only(key, value)
<1>1. o \in RecordVersions
  BY PartialOne DEF RecordVersions
<1>2. DOMAIN o = {key} /\ o[key] = value
  BY DEF Only
<1> HIDE DEF o
<1>3. Stageable(o, h, js, xs)
  BY <1>1, <1>2 DEF Stageable
<1>4. QED
  BY <1>3 DEF o

(* What is staged follows once it is committed over what is shown. *)
LEMMA StagedFollows ==
  ASSUME NEW h \in Seq(RecordVersions), NEW js, NEW xs, NEW m,
         Truthful(h, js, xs), Stageable(m, h, js, xs)
  PROVE  MayFollow(m ++ LastOf(h), h, js, xs)
<1> DEFINE l == LastOf(h)
           v == m ++ l
<1>1. l \in RecordVersions /\ Len(h) \in Nat
  BY LastFacts, PartialNone DEF RecordVersions
<1>2. v \in RecordVersions
  BY <1>1, PartialOver DEF Stageable, RecordVersions
<1>3. /\ DOMAIN v = DOMAIN m \cup DOMAIN l
      /\ \A k \in DOMAIN m : v[k] = m[k]
      /\ \A k \in DOMAIN l \ DOMAIN m : v[k] = l[k]
  BY DEF ++
<1>4. ASSUME NEW key \in DOMAIN l
      PROVE  /\ key[1] = "event" => key[2] \in 1 .. Len(h) /\ <<key, l[key]>> \in js
             /\ key[1] = "effect-attempt" => Attests(xs, key[2], l[key])
  <2>1. Len(h) # 0
    BY <1>4, PartialNone DEF LastOf
  <2>2. l = h[Len(h)] /\ Len(h) \in 1 .. Len(h)
    BY <1>1, <2>1 DEF LastOf
  <2>3. QED
    BY <1>4, <2>2 DEF Truthful
<1>5. ASSUME NEW key \in DOMAIN m, key \in DOMAIN l
      PROVE  key[1] \notin {"event", "decision"}
  <2>1. key[1] # "decision"
    BY <1>5 DEF Stageable
  <2>2. CASE key[1] = "event"
    <3>1. key[2] = Len(h) + 1
      BY <1>5, <2>2, EventNumber DEF Stageable
    <3>2. key[2] \in 1 .. Len(h)
      BY <1>4, <1>5, <2>2
    <3>3. FALSE
      BY <1>1, <3>1, <3>2
    <3>4. QED
      BY <3>3
  <2>3. QED
    BY <2>1, <2>2
<1>6. MayFollow(v, h, js, xs)
  <2> HIDE DEF l, v
  <2>1. \A key \in DOMAIN m :
          /\ key[1] = "event" => key = <<"event", Len(h) + 1>> /\ <<key, v[key]>> \in js
          /\ key[1] = "effect-attempt" => Attests(xs, key[2], v[key])
    BY <1>3 DEF Stageable
  <2>2. \A key \in DOMAIN v :
          /\ key[1] = "event" =>
                /\ key = <<"event", Len(h) + 1>> \/ key \in DOMAIN l
                /\ <<key, v[key]>> \in js
          /\ key \in DOMAIN l /\ key[1] \in {"event", "decision"} => v[key] = l[key]
          /\ key[1] = "effect-attempt" => Attests(xs, key[2], v[key])
    BY <1>3, <1>4, <1>5, <2>1
  <2>3. QED
    BY <1>2, <1>3, <2>2 DEF MayFollow, l
<1>7. QED
  BY <1>6

(* A version that may follow does. *)
LEMMA FollowingKeeps ==
  ASSUME NEW h \in Seq(RecordVersions), NEW js, NEW xs, NEW v,
         Grows(h), Truthful(h, js, xs), MayFollow(v, h, js, xs)
  PROVE  Grows(Append(h, v)) /\ Truthful(Append(h, v), js, xs)
<1> DEFINE g == Append(h, v)
           n == Len(h) + 1
<1>1. /\ g \in Seq(RecordVersions) /\ Len(g) = n /\ g[n] = v /\ Len(h) \in Nat
      /\ \A i \in 1 .. Len(h) : g[i] = h[i]
  BY AppendFacts DEF MayFollow
<1>2. v \in RecordVersions /\ DOMAIN v \subseteq RecordKeys
  BY PartialFacts DEF MayFollow, RecordVersions
<1>3. ASSUME Len(h) # 0 PROVE LastOf(h) = h[Len(h)] /\ Len(h) \in 1 .. Len(h)
  BY <1>1, <1>3 DEF LastOf
<1>4. Len(h) = 0 => DOMAIN LastOf(h) = {}
  BY PartialNone DEF LastOf
<1>5. Grows(g)
  <2>1. ASSUME NEW r \in 1 .. n, NEW q \in 1 .. r, NEW key \in DOMAIN g[q]
        PROVE  /\ key \in DOMAIN g[r]
               /\ key[1] \in {"event", "decision"} => g[r][key] = g[q][key]
    <3>1. CASE r \in 1 .. Len(h)
      <4>1. q \in 1 .. Len(h) /\ q \in 1 .. r
        BY <1>1, <2>1, <3>1
      <4>2. QED
        BY <1>1, <2>1, <3>1, <4>1 DEF Grows
    <3>2. CASE r = n /\ q = n
      BY <2>1, <3>2
    <3>3. CASE r = n /\ q # n
      <4>1. q \in 1 .. Len(h) /\ Len(h) # 0
        BY <1>1, <2>1, <3>3
      <4>2. key \in DOMAIN h[q] /\ g[q] = h[q] /\ g[r] = v
        BY <1>1, <2>1, <3>3, <4>1
      <4>3. /\ key \in DOMAIN LastOf(h)
            /\ key[1] \in {"event", "decision"} => LastOf(h)[key] = h[q][key]
        BY <1>3, <4>1, <4>2 DEF Grows
      <4>4. QED
        BY <4>2, <4>3 DEF MayFollow
    <3>4. QED
      BY <1>1, <3>1, <3>2, <3>3
  <2>2. QED
    BY <1>1, <2>1 DEF Grows
<1>6. Truthful(g, js, xs)
  <2>1. ASSUME NEW r \in 1 .. n, NEW key \in DOMAIN g[r]
        PROVE  /\ key[1] = "event" =>
                     key[2] \in 1 .. r /\ key \in DOMAIN g[key[2]] /\ <<key, g[r][key]>> \in js
               /\ key[1] = "effect-attempt" => Attests(xs, key[2], g[r][key])
    <3>1. CASE r \in 1 .. Len(h)
      <4>1. /\ key[1] = "event" =>
                     key[2] \in 1 .. r /\ key \in DOMAIN h[key[2]] /\ <<key, h[r][key]>> \in js
            /\ key[1] = "effect-attempt" => Attests(xs, key[2], h[r][key])
        BY <1>1, <2>1, <3>1 DEF Truthful
      <4>2. key[1] = "event" => g[key[2]] = h[key[2]]
        BY <1>1, <3>1, <4>1
      <4>3. QED
        BY <1>1, <3>1, <4>1, <4>2
    <3>2. CASE r = n
      <4>1. key \in DOMAIN v /\ g[r] = v
        BY <1>1, <2>1, <3>2
      <4>2. CASE key[1] # "event"
        BY <4>1, <4>2 DEF MayFollow
      <4>3. CASE key = <<"event", n>>
        BY <1>1, <3>2, <4>1, <4>3 DEF MayFollow
      <4>4. CASE key[1] = "event" /\ key \in DOMAIN LastOf(h)
        <5>1. Len(h) # 0
          BY <1>4, <4>4
        <5>2. key[2] \in 1 .. Len(h) /\ key \in DOMAIN h[key[2]]
          BY <1>3, <4>4, <5>1 DEF Truthful
        <5>3. QED
          BY <1>1, <3>2, <4>1, <4>4, <5>2 DEF MayFollow
      <4>5. QED
        BY <4>1, <4>2, <4>3, <4>4 DEF MayFollow
    <3>3. r \in 1 .. Len(h) \/ r = n
      BY <1>1
    <3>4. QED
      BY <3>1, <3>2, <3>3, Zenon
  <2>2. QED
    BY <1>1, <2>1 DEF Truthful
<1>7. QED
  BY <1>5, <1>6

(* The journal and the executor's answers only grow. *)
LEMMA MoreIsSaid ==
  ASSUME NEW h, NEW js, NEW xs, NEW js1, NEW xs1, js \subseteq js1,
         \A i \in DOMAIN xs : i \in DOMAIN xs1 /\ xs1[i] = xs[i]
  PROVE  /\ Truthful(h, js, xs) => Truthful(h, js1, xs1)
         /\ \A m : Stageable(m, h, js, xs) => Stageable(m, h, js1, xs1)
         /\ \A v : MayFollow(v, h, js, xs) => MayFollow(v, h, js1, xs1)
<1>1. \A a, value : Attests(xs, a, value) => Attests(xs1, a, value)
  BY DEF Attests
<1>2. QED
  BY <1>1 DEF Truthful, Stageable, MayFollow

-----------------------------------------------------------------------------
(* Every step of Records keeps the invariant. *)

(* A version that may follow becomes the last. *)
LEMMA RecordFollows ==
  ASSUME RCInv, NEW js, NEW xs, NEW v, Truthful(history, js, xs),
         MayFollow(v, history, js, xs), history' = Append(history, v)
  PROVE  /\ Grows(history') /\ Truthful(history', js, xs)
         /\ LastOf(history') = v /\ DOMAIN LastOf(history) \subseteq DOMAIN LastOf(history')
<1>1. history \in Seq(RecordVersions) /\ v \in RecordVersions
  BY DEF RCInv, RCTypeOK, HostOK, MayFollow
<1>2. LastOf(history') = v
  BY <1>1, AppendFacts
<1>3. Grows(history') /\ Truthful(history', js, xs)
  BY <1>1, FollowingKeeps DEF RCInv
<1>4. QED
  BY <1>2, <1>3 DEF MayFollow

(* Every outcome of a commit of something that may be staged. *)
LEMMA RecordCommit ==
  ASSUME RCInv, NEW js, NEW xs, NEW keys, slot = "open", CommitOutcome(keys),
         events \subseteq js,
         \A i \in DOMAIN executed : i \in DOMAIN xs /\ xs[i] = executed[i],
         Stageable(keys, history, js, xs)
  PROVE  /\ HostOK(RecordVersions)'
         /\ Grows(history') /\ Truthful(history', js, xs)
         /\ Stageable(mutations', history', js, xs)
         /\ \A v \in uncertain' : MayFollow(v, history', js, xs)
         /\ DOMAIN LastOf(history) \subseteq DOMAIN LastOf(history')
         /\ CommitMade(keys) => DOMAIN keys \subseteq DOMAIN LastOf(history')
<1> DEFINE m == keys ++ mutations
           v == m ++ LastOf(history)
<1>1. /\ HostOK(RecordVersions) /\ history \in Seq(RecordVersions) /\ uncertain = {}
      /\ NoKeys \in RecordVersions /\ Shown = LastOf(history)
  BY PartialNone, ShownIsLast DEF RCInv, RCTypeOK, HostOK, RecordVersions
<1>2. /\ Truthful(history, js, xs) /\ Stageable(mutations, history, js, xs)
      /\ Stageable(NoKeys, history, js, xs)
  BY MoreIsSaid, NothingStaged DEF RCInv
<1>3. Stageable(m, history, js, xs)
  BY <1>2, StagedTogether
<1>4. MayFollow(v, history, js, xs)
  BY <1>1, <1>2, <1>3, StagedFollows
<1>5. m \in RecordVersions /\ v \in RecordVersions
  BY <1>3, <1>4 DEF Stageable, MayFollow
<1>6. /\ HostOK(RecordVersions)'
      /\ \/ history' = Append(history, v) /\ mutations' = NoKeys /\ uncertain' = uncertain
         \/ /\ history' = history /\ (mutations' = NoKeys \/ mutations' = m)
            /\ uncertain' \subseteq uncertain \cup {v}
  BY <1>1, <1>5, CommitKeeps
<1>7. CommitMade(keys) => history' = Append(history, v)
  BY <1>1 DEF CommitMade
<1>8. DOMAIN keys \subseteq DOMAIN v
  BY DEF ++
<1> HIDE DEF m, v
<1>9. CASE history' = Append(history, v) /\ mutations' = NoKeys /\ uncertain' = uncertain
  <2>1. /\ Grows(history') /\ Truthful(history', js, xs) /\ LastOf(history') = v
        /\ DOMAIN LastOf(history) \subseteq DOMAIN LastOf(history')
    BY <1>2, <1>4, <1>9, RecordFollows
  <2>2. Stageable(mutations', history', js, xs)
    BY <1>9, NothingStaged
  <2>3. QED
    BY <1>1, <1>6, <1>8, <1>9, <2>1, <2>2
<1>10. CASE /\ history' = history /\ (mutations' = NoKeys \/ mutations' = m)
            /\ uncertain' \subseteq uncertain \cup {v}
  <2>1. Grows(history') /\ Truthful(history', js, xs)
    BY <1>2, <1>10 DEF RCInv
  <2>2. Stageable(mutations', history', js, xs)
    BY <1>2, <1>3, <1>10
  <2>3. \A w \in uncertain' : MayFollow(w, history', js, xs)
    BY <1>1, <1>4, <1>10
  <2>4. CommitMade(keys) => DOMAIN keys \subseteq DOMAIN LastOf(history')
    <3>1. CASE CommitMade(keys)
      <4>1. history' = Append(history, v) /\ LastOf(Append(history, v)) = v
        BY <1>1, <1>5, <1>7, <3>1, AppendFacts
      <4>2. LastOf(history') = v
        BY <4>1
      <4>3. QED
        BY <1>8, <4>2
    <3>2. QED
      BY <3>1
  <2>5. QED
    BY <1>6, <1>10, <2>1, <2>2, <2>3, <2>4
<1>11. QED
  BY <1>6, <1>9, <1>10

LEMMA RecordInit == RCInit => RCInv
<1> SUFFICES ASSUME RCInit PROVE RCInv
  OBVIOUS
<1>1. /\ slot = "none" /\ mutations = NoKeys /\ history = <<>> /\ uncertain = {}
      /\ events = {} /\ running = Idle /\ executed = <<>>
  BY DEF RCInit, SlotInit
<1>2. RCTypeOK
  BY <1>1, PartialNone DEF RCTypeOK, HostOK, RecordVersions
<1>3. ExecutedOnce
  BY <1>1 DEF ExecutedOnce, Idle
<1>4. Grows(history) /\ Truthful(history, events, executed)
  BY <1>1 DEF Grows, Truthful
<1>5. QED
  BY <1>1, <1>2, <1>3, <1>4, NothingStaged DEF RCInv

LEMMA RecordOpens ==
  ASSUME RCInv, LedgerOpen
  PROVE  RCInv'
<1>1. /\ running = Idle /\ running' = Idle /\ events' = events /\ executed' = executed
      /\ StoreOpen /\ slot = "none"
  BY DEF LedgerOpen, effectVars, StoreOpen
<1>2. /\ HostOK(RecordVersions)' /\ mutations' = mutations /\ uncertain' = {}
      /\ history' = history \/ \E v \in uncertain : history' = Append(history, v)
  BY <1>1, StoreOpenKeeps DEF RCInv, RCTypeOK
<1>3. mutations' = NoKeys
  BY <1>1, <1>2 DEF RCInv, RCTypeOK, HostOK
<1>4. /\ Grows(history') /\ Truthful(history', events, executed)
      /\ DOMAIN LastOf(history) \subseteq DOMAIN LastOf(history')
  <2>1. CASE history' = history
    BY <2>1 DEF RCInv
  <2>2. ASSUME NEW v \in uncertain, history' = Append(history, v)
        PROVE  /\ Grows(history') /\ Truthful(history', events, executed)
               /\ DOMAIN LastOf(history) \subseteq DOMAIN LastOf(history')
    <3>1. MayFollow(v, history, events, executed) /\ Truthful(history, events, executed)
      BY <2>2 DEF RCInv
    <3>2. QED
      BY <2>2, <3>1, RecordFollows
  <2>3. QED
    BY <1>2, <2>1, <2>2
<1>5. ExecutedOnce'
  BY <1>1, <1>4 DEF RCInv, ExecutedOnce, Idle
<1>6. RCTypeOK'
  BY <1>1, <1>2 DEF RCInv, RCTypeOK
<1>7. Stageable(mutations', history', events', executed')
  BY <1>3, NothingStaged
<1>8. QED
  BY <1>1, <1>2, <1>4, <1>5, <1>6, <1>7 DEF RCInv

LEMMA RecordRestarts ==
  ASSUME RCInv, LedgerRestart
  PROVE  RCInv'
<1>1. /\ running' = Idle /\ events' = events /\ executed' = executed /\ ProcessEnds
  BY DEF LedgerRestart
<1>2. /\ HostOK(RecordVersions)' /\ mutations' = NoKeys /\ history' = history
      /\ uncertain' = uncertain
  BY <1>1, ProcessEndsKeeps, PartialNone DEF RCInv, RCTypeOK, RecordVersions
<1>3. RCTypeOK' /\ ExecutedOnce'
  BY <1>1, <1>2 DEF RCInv, RCTypeOK, ExecutedOnce, Idle
<1>4. Stageable(mutations', history', events', executed')
  BY <1>2, NothingStaged
<1>5. QED
  BY <1>1, <1>2, <1>3, <1>4 DEF RCInv

(* A commit while no executor is called. *)
LEMMA IdleCommit ==
  ASSUME RCInv, NEW keys, slot = "open", CommitOutcome(keys), events \subseteq events',
         events' \in SUBSET (RecordKeys \X Events),
         executed' = executed, running' = Idle, Stageable(keys, history, events', executed')
  PROVE  RCInv'
<1>1. /\ HostOK(RecordVersions)'
      /\ Grows(history') /\ Truthful(history', events', executed')
      /\ Stageable(mutations', history', events', executed')
      /\ \A v \in uncertain' : MayFollow(v, history', events', executed')
      /\ DOMAIN LastOf(history) \subseteq DOMAIN LastOf(history')
  BY RecordCommit
<1>2. RCTypeOK' /\ ExecutedOnce'
  BY <1>1 DEF RCInv, RCTypeOK, ExecutedOnce, Idle
<1>3. QED
  BY <1>1, <1>2 DEF RCInv

LEMMA PlainCommit ==
  ASSUME RCInv, LedgerCommit
  PROVE  RCInv'
<1>1. /\ slot = "open" /\ CommitOutcome(NoKeys)
      /\ events' = events /\ executed' = executed /\ running' = Idle
  BY DEF LedgerCommit, CommitPlain, Usable, CommitOutcome, effectVars
<1>2. QED
  BY <1>1, IdleCommit, NothingStaged DEF RCInv, RCTypeOK

LEMMA LedgerKeeps ==
  ASSUME RCInv, NEW e \in Events, LedgerAppend(e)
  PROVE  RCInv'
<1> DEFINE key == <<"event", Len(history) + 1>>
<1>1. /\ slot = "open" /\ CommitOutcome(Only(key, e)) /\ events' = events \cup {<<key, e>>}
      /\ executed' = executed /\ running' = Idle
  BY DEF LedgerAppend, Usable, CommitOutcome, effectVars, EventKey, Revision
<1>2. Len(history) + 1 \in Nat
  BY DEF RCInv, RCTypeOK, HostOK
<1>3. key \in RecordKeys /\ e \in RecordValues /\ key[1] = "event"
  BY <1>2 DEF RecordKeys, RecordValues
<1>4. <<key, e>> \in events' /\ events' \in SUBSET (RecordKeys \X Events)
  BY <1>1, <1>3 DEF RCInv, RCTypeOK
<1>5. Stageable(Only(key, e), history, events', executed')
  BY <1>3, <1>4, StagedAlone
<1>6. QED
  BY <1>1, <1>4, <1>5, IdleCommit

(* Something more is staged. *)
LEMMA StagesKeep ==
  ASSUME RCInv, NEW key, NEW value, Stages(key, value), slot = "open",
         Stageable(Only(key, value), history, events, executed),
         events' = events, running' = running, executed' = executed
  PROVE  RCInv'
<1>1. /\ mutations' = Only(key, value) ++ mutations
      /\ slot' = slot /\ history' = history /\ uncertain' = uncertain
  BY DEF Stages
<1>2. Stageable(mutations', history, events, executed)
  BY <1>1, StagedTogether DEF RCInv
<1>3. mutations' \in RecordVersions
  BY <1>2 DEF Stageable
<1>4. RCTypeOK' /\ ExecutedOnce'
  BY <1>1, <1>3 DEF RCInv, RCTypeOK, HostOK, ExecutedOnce
<1>5. QED
  BY <1>1, <1>2, <1>4 DEF RCInv

LEMMA DecisionKeeps ==
  ASSUME RCInv, NEW d \in Decisions, NEW outcome \in Outcomes,
         PolicyStoreDecision(d, outcome)
  PROVE  RCInv'
<1> DEFINE key == <<"decision", d>>
<1>1. /\ slot = "open" /\ key \notin DOMAIN LastOf(history) /\ Stages(key, outcome)
      /\ events' = events /\ running' = running /\ executed' = executed
  BY ShownIsLast DEF PolicyStoreDecision, Unrecorded, Has, effectVars
<1>2. key \in RecordKeys /\ outcome \in RecordValues /\ key[1] = "decision"
  BY DEF RecordKeys, RecordValues
<1>3. Stageable(Only(key, outcome), history, events, executed)
  BY <1>1, <1>2, StagedAlone
<1>4. QED
  BY <1>1, <1>3, StagesKeep

(* The record of an attempt, as it may be staged. *)
LEMMA AttemptStageable ==
  ASSUME NEW a \in Attempts, NEW value \in RecordValues, NEW h, NEW js, NEW xs,
         Attests(xs, a, value)
  PROVE  Stageable(Only(AttemptKey(a), value), h, js, xs)
<1>1. /\ AttemptKey(a) \in RecordKeys /\ AttemptKey(a)[1] = "effect-attempt"
      /\ AttemptKey(a)[2] = a
  BY DEF RecordKeys, AttemptKey
<1>2. QED
  BY <1>1, StagedAlone

LEMMA AttemptKeeps ==
  ASSUME RCInv, NEW a \in Attempts, EffectStoreAttempt(a)
  PROVE  RCInv'
<1>1. /\ slot = "open" /\ Stages(AttemptKey(a), "Pending")
      /\ events' = events /\ running' = running /\ executed' = executed
  BY DEF EffectStoreAttempt, effectVars
<1>2. Stageable(Only(AttemptKey(a), "Pending"), history, events, executed)
  BY AttemptStageable DEF RecordValues, Attests
<1>3. QED
  BY <1>1, <1>2, StagesKeep

(* A Pending record is committed: no executor was called for the attempt.   *)
LEMMA BeginKeeps ==
  ASSUME RCInv, NEW a \in Attempts, EffectBegin(a)
  PROVE  RCInv'
<1> DEFINE keys == Only(AttemptKey(a), "Pending")
<1>1. /\ running = Idle /\ slot = "open" /\ AttemptKey(a) \notin DOMAIN LastOf(history)
      /\ CommitOutcome(keys) /\ events' = events /\ executed' = executed
      /\ \/ CommitMade(keys) /\ running' = <<"pending", a>>
         \/ running' = Idle
  BY ShownIsLast DEF EffectBegin, Usable, Attempted, Has, CommitOutcome
<1>2. Stageable(keys, history, events, executed)
  BY AttemptStageable DEF RecordValues, Attests
<1>3. DOMAIN keys = {AttemptKey(a)}
  BY DEF Only
<1> HIDE DEF keys
<1>4. /\ HostOK(RecordVersions)'
      /\ Grows(history') /\ Truthful(history', events, executed)
      /\ Stageable(mutations', history', events, executed)
      /\ \A v \in uncertain' : MayFollow(v, history', events, executed)
      /\ DOMAIN LastOf(history) \subseteq DOMAIN LastOf(history')
      /\ CommitMade(keys) => DOMAIN keys \subseteq DOMAIN LastOf(history')
  BY <1>1, <1>2, RecordCommit
<1>5. \A i \in DOMAIN executed : executed[i][1] # a
  BY <1>1 DEF RCInv, ExecutedOnce
<1>6. CASE running' = Idle
  BY <1>1, <1>4, <1>6 DEF RCInv, RCTypeOK, ExecutedOnce, Idle
<1>7. CASE CommitMade(keys) /\ running' = <<"pending", a>>
  <2>1. running'[1] = "pending" /\ running'[2] = a
    BY <1>7
  <2>2. AttemptKey(a) \in DOMAIN LastOf(history')
    BY <1>3, <1>4, <1>7
  <2>3. ExecutedOnce'
    BY <1>1, <1>4, <1>5, <2>1, <2>2 DEF RCInv, ExecutedOnce
  <2>4. RCTypeOK'
    BY <1>1, <1>4, <1>7 DEF RCInv, RCTypeOK
  <2>5. QED
    BY <1>1, <1>4, <2>3, <2>4 DEF RCInv
<1>8. QED
  BY <1>1, <1>6, <1>7

LEMMA ExecuteKeeps ==
  ASSUME RCInv, NEW status \in {"Succeeded", "Failed"}, Execute(status)
  PROVE  RCInv'
<1> DEFINE a == running[2]
           xs == Append(executed, <<a, status>>)
           n == Len(executed) + 1
<1>1. /\ running[1] = "pending" /\ running' = <<status, a>> /\ executed' = xs
      /\ events' = events
      /\ UNCHANGED <<slot, mutations, history, uncertain>>
  BY DEF Execute, storeVars
<1>2. a \in Attempts
  BY <1>1 DEF RCInv, RCTypeOK, Idle
<1>3. /\ xs \in Seq(Attempts \X {"Succeeded", "Failed"}) /\ DOMAIN xs = 1 .. n
      /\ DOMAIN executed = 1 .. Len(executed) /\ Len(executed) \in Nat
      /\ xs[n] = <<a, status>> /\ \A i \in 1 .. Len(executed) : xs[i] = executed[i]
  BY <1>2 DEF RCInv, RCTypeOK
<1>4. \A i \in 1 .. n : i \in DOMAIN executed \/ i = n
  BY <1>3
<1>5. xs[n][1] = a
  BY <1>3
<1>6. running'[1] = status /\ running'[2] = a
  BY <1>1
<1> HIDE DEF a, xs, n
<1>7. /\ AttemptKey(a) \in DOMAIN LastOf(history)
      /\ \A i \in DOMAIN executed : executed[i][1] # a
  BY <1>1 DEF RCInv, ExecutedOnce, a
<1>8. ExecutedOnce'
  <2>1. \A i, j \in DOMAIN xs : xs[i][1] = xs[j][1] => i = j
    BY <1>3, <1>4, <1>5, <1>7 DEF RCInv, ExecutedOnce
  <2>2. \A i \in DOMAIN xs : AttemptKey(xs[i][1]) \in DOMAIN LastOf(history)
    BY <1>3, <1>4, <1>5, <1>7 DEF RCInv, ExecutedOnce
  <2>3. n \in DOMAIN xs /\ xs[n] = <<a, status>>
    BY <1>3 DEF n
  <2>4. QED
    BY <1>1, <1>6, <2>1, <2>2, <2>3 DEF ExecutedOnce
<1>9. RCTypeOK'
  BY <1>1, <1>2, <1>3 DEF RCInv, RCTypeOK, HostOK
<1>10. \A i \in DOMAIN executed : i \in DOMAIN xs /\ xs[i] = executed[i]
  BY <1>3 DEF n
<1>11. /\ Truthful(history, events, xs) /\ Stageable(mutations, history, events, xs)
       /\ \A v \in uncertain : MayFollow(v, history, events, xs)
  BY <1>10, MoreIsSaid DEF RCInv
<1>12. QED
  BY <1>1, <1>8, <1>9, <1>11 DEF RCInv

LEMMA EndKeeps ==
  ASSUME RCInv, EffectEnd
  PROVE  RCInv'
<1> DEFINE a == running[2]
           keys == Only(AttemptKey(a), running[1])
<1>1. /\ running[1] \in {"Succeeded", "Failed"} /\ slot = "open" /\ CommitOutcome(keys)
      /\ running' = Idle /\ events' = events /\ executed' = executed
  BY DEF EffectEnd, Usable, CommitOutcome
<1>2. a \in Attempts /\ running[1] \in RecordValues
  BY <1>1 DEF RCInv, RCTypeOK, Idle, RecordValues
<1>3. Attests(executed, a, running[1])
  BY <1>1 DEF RCInv, ExecutedOnce, Attests
<1>4. Stageable(keys, history, events, executed)
  BY <1>2, <1>3, AttemptStageable
<1>5. QED
  BY <1>1, <1>4, IdleCommit DEF RCInv, RCTypeOK

LEMMA RecordStep ==
  ASSUME RCInv, [RCNext]_RCvars
  PROVE  RCInv'
<1>1. CASE RCNext
  BY <1>1, RecordOpens, RecordRestarts, PlainCommit, LedgerKeeps, DecisionKeeps,
     AttemptKeeps, BeginKeeps, ExecuteKeeps, EndKeeps DEF RCNext
<1>2. CASE UNCHANGED RCvars
  BY <1>2 DEF RCvars, storeVars, effectVars, RCInv, RCTypeOK, HostOK, ExecutedOnce
<1>3. QED
  BY <1>1, <1>2

LEMMA RecordInvariant == RCSpec => []RCInv
BY RecordInit, RecordStep, PTL DEF RCSpec

(* The ledger's events are named after their revisions, found by a query    *)
(* and kept, and decisions are not replaced (ledger_append, scan_events,    *)
(* policy_store_decision), over commits that are rolled back or uncertain.  *)
THEOREM RecordsAreKept == RCSpec => []RecordsKept
<1>1. RCInv => RecordsKept
  <2> SUFFICES ASSUME RCInv PROVE RecordsKept
    OBVIOUS
  <2>1. /\ Revision = Len(history) /\ Revision \in Nat /\ history \in Seq(RecordVersions)
        /\ Grows(history) /\ Truthful(history, events, executed)
    BY DEF RCInv, RCTypeOK, HostOK, Revision
  <2>2. \A r \in 1 .. Revision : VersionAt(r) = history[r]
    BY <2>1 DEF VersionAt
  <2>3. \A r \in 1 .. Revision : \A key \in DOMAIN history[r] : key \in RecordKeys
    <3>1. ASSUME NEW r \in 1 .. Revision PROVE DOMAIN history[r] \subseteq RecordKeys
      <4>1. history[r] \in RecordVersions
        BY <2>1
      <4>2. QED
        BY <4>1, PartialFacts DEF RecordVersions
    <3>2. QED
      BY <3>1
  <2>4. ScanEvents = {r \in 1 .. Revision : <<"event", r>> \in DOMAIN history[r]}
    <3>1. ASSUME NEW i \in 1 .. Revision
          PROVE  Has(<<"event", i>>) <=> <<"event", i>> \in DOMAIN history[i]
      <4>1. Revision \in 1 .. Revision /\ Shown = history[Revision] /\ i \in 1 .. Revision
        BY <2>1, <2>2 DEF Shown
      <4>2. <<"event", i>> \in DOMAIN history[i] => <<"event", i>> \in DOMAIN history[Revision]
        BY <2>1, <4>1 DEF Grows
      <4>3. <<"event", i>> \in DOMAIN history[Revision] => <<"event", i>> \in DOMAIN history[i]
        BY <2>1, <4>1 DEF Truthful
      <4>4. QED
        BY <4>1, <4>2, <4>3 DEF Has
    <3>2. QED
      BY <3>1 DEF ScanEvents
  <2>5. ASSUME NEW r \in 1 .. Revision, NEW key \in DOMAIN history[r], key[1] = "event"
        PROVE  /\ key[2] \in 1 .. r
               /\ key[2] = r <=> key \notin DOMAIN VersionAt(r - 1)
               /\ <<key, history[r][key]>> \in events
    <3>1. /\ key[2] \in 1 .. r /\ key \in DOMAIN history[key[2]]
          /\ <<key, history[r][key]>> \in events
      BY <2>1, <2>5 DEF Truthful
    <3>2. CASE key[2] = r
      <4>1. CASE r = 1
        <5>1. DOMAIN VersionAt(r - 1) = {}
          BY <4>1, PartialNone DEF VersionAt
        <5>2. QED
          BY <3>1, <3>2, <5>1
      <4>2. CASE r # 1
        <5>1. r - 1 \in 1 .. Revision /\ VersionAt(r - 1) = history[r - 1]
          BY <2>1, <2>2, <4>2
        <5>2. key \notin DOMAIN history[r - 1]
          <6>1. SUFFICES ASSUME key \in DOMAIN history[r - 1] PROVE FALSE
            OBVIOUS
          <6>2. key[2] \in 1 .. r - 1
            BY <2>1, <2>5, <5>1, <6>1 DEF Truthful
          <6>3. QED
            BY <2>1, <3>2, <6>2
        <5>3. QED
          BY <3>1, <3>2, <5>1, <5>2
      <4>3. QED
        BY <4>1, <4>2
    <3>3. CASE key[2] # r
      <4>1. /\ r - 1 \in 1 .. Revision /\ key[2] \in 1 .. r - 1
            /\ VersionAt(r - 1) = history[r - 1]
        BY <2>1, <2>2, <3>1, <3>3
      <4>2. key \in DOMAIN history[r - 1]
        BY <2>1, <3>1, <4>1 DEF Grows
      <4>3. QED
        BY <3>1, <3>3, <4>1, <4>2
    <3>4. QED
      BY <3>2, <3>3
  <2>6. ASSUME NEW r \in 2 .. Revision, NEW key \in DOMAIN history[r - 1]
        PROVE  /\ key \in DOMAIN history[r]
               /\ key[1] \in {"event", "decision"} => history[r][key] = history[r - 1][key]
    <3>1. r \in 1 .. Len(history) /\ r - 1 \in 1 .. r
      BY <2>1
    <3>2. QED
      BY <2>1, <3>1 DEF Grows
  <2>7. QED
    BY <2>4, <2>5, <2>6 DEF RecordsKept
<1>2. QED
  BY RecordInvariant, <1>1, PTL

(* effect_execute_attempt calls the executor at most once for an attempt,   *)
(* and its record says what the executor answered.                          *)
THEOREM EffectsAtMostOnce == RCSpec => []EffectAtMostOnce
<1>1. RCInv => EffectAtMostOnce
  <2> SUFFICES ASSUME RCInv PROVE EffectAtMostOnce
    OBVIOUS
  <2>1. Revision = Len(history) /\ Truthful(history, events, executed) /\ ExecutedOnce
    BY DEF RCInv, Revision
  <2>2. ASSUME NEW r \in 1 .. Revision, NEW a \in Attempts, AttemptKey(a) \in DOMAIN history[r]
        PROVE  \/ history[r][AttemptKey(a)] = "Pending"
               \/ \E i \in DOMAIN executed : executed[i] = <<a, history[r][AttemptKey(a)]>>
    <3>1. AttemptKey(a)[1] = "effect-attempt" /\ AttemptKey(a)[2] = a
      BY DEF AttemptKey
    <3>2. QED
      BY <2>1, <2>2, <3>1 DEF Truthful, Attests
  <2>3. QED
    BY <2>1, <2>2 DEF EffectAtMostOnce, ExecutedOnce
<1>2. QED
  BY RecordInvariant, <1>1, PTL

-----------------------------------------------------------------------------
(* Learned. *)

VersionRecords == [train : SUBSET Examples, holdout : SUBSET Examples, ok : BOOLEAN]
TaskRecords ==
    [kind : {"rule", "tree"}, versions : Seq(VersionRecords), active : Nat,
     receipts : Partial(Examples, [payload : Payloads, version : Nat])]

(* All versions of a rule, taken together: no row is on both sides. *)
Apart(vs) == \A i, j \in DOMAIN vs : vs[i].train \cap vs[j].holdout = {}
(* What is served, of versions vs: none, or one that passed. *)
Serves(vs, active) ==
    /\ active # 0 => active \in DOMAIN vs /\ vs[active].ok
    /\ active = 0 => \A i \in DOMAIN vs : ~vs[i].ok

GoodRecords ==
    {record \in TaskRecords :
        /\ Len(record.versions) # 0
        /\ Serves(record.versions, record.active)
        /\ DOMAIN record.receipts \subseteq record.versions[Len(record.versions)].train
        /\ record.kind = "rule" => Apart(record.versions)
        /\ record.kind = "tree" => DOMAIN record.receipts = {}}

LearnedVersions == Partial({<<"plain">>} \cup {Key(t) : t \in Tasks}, {0} \cup GoodRecords)
SavedVersions ==
    {v \in LearnedVersions : \A t \in Tasks : Key(t) \in DOMAIN v => v[Key(t)] \in GoodRecords}

LRInv == HostOK(SavedVersions)

LEMMA AppendedFields ==
  ASSUME NEW record \in TaskRecords, NEW v \in VersionRecords
  PROVE  /\ Appended(record, v) \in TaskRecords
         /\ Appended(record, v).versions = Append(record.versions, v)
         /\ Appended(record, v).kind = record.kind
         /\ Appended(record, v).receipts = record.receipts
         /\ Appended(record, v).active =
                IF v.ok THEN Len(record.versions) + 1 ELSE record.active
<1>1. /\ record.versions \in Seq(VersionRecords) /\ record.active \in Nat
      /\ Append(record.versions, v) \in Seq(VersionRecords) /\ Len(record.versions) + 1 \in Nat
  BY DEF TaskRecords
<1>2. QED
  BY <1>1 DEF TaskRecords, Appended

(* A version more, after versions vs of which active was served. *)
LEMMA NextVersion ==
  ASSUME NEW a \in TaskRecords, NEW vs \in Seq(VersionRecords), NEW v \in VersionRecords,
         NEW active \in Nat, a.versions = Append(vs, v), Serves(vs, active),
         a.active = IF v.ok THEN Len(vs) + 1 ELSE active,
         DOMAIN a.receipts \subseteq v.train,
         a.kind = "tree" => DOMAIN a.receipts = {},
         a.kind = "rule" =>
             /\ Apart(vs) /\ v.train \cap v.holdout = {}
             /\ \A i \in DOMAIN vs : /\ v.train \cap vs[i].holdout = {}
                                     /\ vs[i].train \cap v.holdout = {}
  PROVE  a \in GoodRecords
<1> DEFINE ws == a.versions
           n == Len(vs) + 1
<1>1. /\ Len(ws) = n /\ DOMAIN ws = 1 .. n /\ ws[n] = v /\ DOMAIN vs = 1 .. Len(vs)
      /\ Len(vs) \in Nat /\ \A i \in 1 .. Len(vs) : ws[i] = vs[i]
  BY DEF TaskRecords
<1>2. \A i \in 1 .. n : i \in DOMAIN vs \/ i = n
  BY <1>1
<1>3. v.ok \in BOOLEAN
  BY DEF VersionRecords
<1> HIDE DEF ws, n
<1>4. Serves(ws, a.active)
  <2>1. CASE v.ok
    BY <1>1, <2>1 DEF Serves, n
  <2>2. CASE ~v.ok
    BY <1>1, <1>2, <2>2 DEF Serves, n
  <2>3. QED
    BY <1>3, <2>1, <2>2
<1>5. a.kind = "rule" => Apart(ws)
  BY <1>1, <1>2 DEF Apart
<1>6. n # 0
  BY <1>1 DEF n
<1>7. /\ Len(ws) # 0 /\ DOMAIN a.receipts \subseteq ws[Len(ws)].train
  BY <1>1, <1>6
<1>8. QED
  BY <1>4, <1>5, <1>7 DEF GoodRecords, ws

LEMMA EmptyRecord ==
  ASSUME NEW kind \in {"rule", "tree"}
  PROVE  /\ Empty(kind) \in TaskRecords /\ Empty(kind).kind = kind
         /\ Empty(kind).versions = <<>> /\ Empty(kind).active = 0
         /\ DOMAIN Empty(kind).receipts = {}
         /\ Apart(<<>>) /\ Serves(<<>>, 0)
BY PartialNone DEF Empty, TaskRecords, Apart, Serves

LEMMA SavedVersionFacts ==
  /\ NoKeys \in SavedVersions
  /\ \A v, w \in SavedVersions : v ++ w \in SavedVersions
  /\ \A t \in Tasks, record \in GoodRecords : Only(Key(t), record) \in SavedVersions
  /\ Only(<<"plain">>, 0) \in SavedVersions
<1>1. NoKeys \in SavedVersions
  BY PartialNone DEF SavedVersions, LearnedVersions
<1>2. ASSUME NEW v \in SavedVersions, NEW w \in SavedVersions PROVE v ++ w \in SavedVersions
  <2> DEFINE o == v ++ w
  <2>1. o \in LearnedVersions
    BY <1>2, PartialOver DEF SavedVersions, LearnedVersions
  <2>2. /\ DOMAIN o = DOMAIN v \cup DOMAIN w
        /\ \A k \in DOMAIN v : o[k] = v[k]
        /\ \A k \in DOMAIN w \ DOMAIN v : o[k] = w[k]
    BY DEF ++
  <2> HIDE DEF o
  <2>3. o \in SavedVersions
    BY <1>2, <2>1, <2>2 DEF SavedVersions
  <2>4. QED
    BY <2>3 DEF o
<1>3. ASSUME NEW t \in Tasks, NEW record \in GoodRecords
      PROVE  Only(Key(t), record) \in SavedVersions
  <2> DEFINE o == Only(Key(t), record)
  <2>1. o \in LearnedVersions
    BY <1>3, PartialOne DEF LearnedVersions
  <2>2. DOMAIN o = {Key(t)} /\ o[Key(t)] = record
    BY DEF Only
  <2> HIDE DEF o
  <2>3. o \in SavedVersions
    BY <1>3, <2>1, <2>2 DEF SavedVersions
  <2>4. QED
    BY <2>3 DEF o
<1>4. Only(<<"plain">>, 0) \in SavedVersions
  <2> DEFINE o == Only(<<"plain">>, 0)
  <2>1. o \in LearnedVersions
    BY PartialOne DEF LearnedVersions
  <2>2. DOMAIN o = {<<"plain">>}
    BY DEF Only
  <2>3. \A t \in Tasks : Key(t) # <<"plain">>
    BY DEF Key
  <2> HIDE DEF o
  <2>4. o \in SavedVersions
    BY <2>1, <2>2, <2>3 DEF SavedVersions
  <2>5. QED
    BY <2>4 DEF o
<1>5. QED
  BY <1>1, <1>2, <1>3, <1>4

LEMMA TaskRecordFacts ==
  ASSUME LRInv, NEW t \in Tasks, Has(Key(t))
  PROVE  Task(t) \in GoodRecords
<1>1. Shown \in SavedVersions
  BY SavedVersionFacts, ShownIsLast, LastFacts DEF LRInv, HostOK
<1>2. QED
  BY <1>1 DEF Has, Task, SavedVersions

(* The outcomes of a commit of keys that may be saved. *)
LEMMA LearnedCommit ==
  ASSUME LRInv, NEW keys \in SavedVersions, slot = "open", CommitOutcome(keys)
  PROVE  LRInv'
<1>1. Shown \in SavedVersions /\ mutations \in SavedVersions
  BY SavedVersionFacts, ShownIsLast, LastFacts DEF LRInv, HostOK
<1>2. /\ keys ++ mutations \in SavedVersions
      /\ keys ++ mutations ++ Shown \in SavedVersions
  BY <1>1, SavedVersionFacts
<1>3. QED
  BY <1>2, SavedVersionFacts, CommitKeeps DEF LRInv

LEMMA SavesKeep ==
  ASSUME LRInv, NEW t \in Tasks, NEW record \in GoodRecords, slot = "open", Saves(t, record)
  PROVE  LRInv'
<1>1. CommitOutcome(Only(Key(t), record))
  BY DEF Saves, CommitOutcome
<1>2. QED
  BY <1>1, LearnedCommit, SavedVersionFacts

LEMMA NewVersionTyped ==
  ASSUME NEW train \in SUBSET Examples, NEW holdout \in SUBSET Examples, NEW ok \in BOOLEAN
  PROVE  /\ Version(train, holdout, ok) \in VersionRecords
         /\ Version(train, holdout, ok).train = train
         /\ Version(train, holdout, ok).holdout = holdout
         /\ Version(train, holdout, ok).ok = ok
BY DEF Version, VersionRecords

LEMMA RulesSaveKeeps ==
  ASSUME LRInv, NEW t \in Tasks, NEW train \in SUBSET Examples,
         NEW holdout \in SUBSET Examples, NEW ok \in BOOLEAN, RulesSave(t, train, holdout, ok)
  PROVE  LRInv'
<1> DEFINE v == Version(train, holdout, ok)
           record == Empty("rule")
           a == Appended(record, v)
<1>1. slot = "open" /\ Saves(t, a) /\ train \cap holdout = {}
  BY DEF RulesSave, Clean, Usable, Learns
<1>2. /\ v \in VersionRecords /\ v.train = train /\ v.holdout = holdout
      /\ record \in TaskRecords /\ record.kind = "rule" /\ record.versions = <<>>
      /\ record.active = 0 /\ DOMAIN record.receipts = {} /\ Apart(<<>>) /\ Serves(<<>>, 0)
  BY NewVersionTyped, EmptyRecord
<1> HIDE DEF v, record
<1>3. /\ a \in TaskRecords /\ a.versions = Append(record.versions, v) /\ a.kind = record.kind
      /\ a.receipts = record.receipts
      /\ a.active = IF v.ok THEN Len(record.versions) + 1 ELSE record.active
  BY <1>2, AppendedFields
<1> HIDE DEF a
<1>4. record.versions \in Seq(VersionRecords) /\ record.active \in Nat
      /\ DOMAIN record.versions = {}
  BY <1>2
<1>5. a \in GoodRecords
  BY <1>1, <1>2, <1>3, <1>4, NextVersion
<1>6. QED
  BY <1>1, <1>5, SavesKeep

(* What a rule was held against stays out of the training, and the other way round. *)
LEMMA AddKeeps ==
  ASSUME LRInv, NEW t \in Tasks, NEW e \in Examples, NEW payload \in Payloads,
         NEW holdout \in SUBSET Examples, NEW ok \in BOOLEAN,
         AddCounterexample(t, e, payload, holdout, ok)
  PROVE  LRInv'
<1> DEFINE record == Task(t)
           vs == record.versions
           latest == vs[Len(vs)]
           v == Version(latest.train \cup {e}, holdout, ok)
           receipt == Only(e, [payload |-> payload, version |-> Len(vs) + 1])
           a == [Appended(record, v) EXCEPT !.receipts = receipt ++ @]
<1>1. /\ slot = "open" /\ Has(Key(t)) /\ record.kind = "rule" /\ Saves(t, a)
      /\ v.train \cap holdout = {} /\ e \notin Used(vs) /\ holdout \cap Used(vs) = {}
  BY DEF AddCounterexample, Clean, Usable, Learns, Learnt
<1>2. record \in GoodRecords
  BY <1>1, TaskRecordFacts
<1>3. /\ record \in TaskRecords /\ vs \in Seq(VersionRecords) /\ record.active \in Nat
      /\ record.receipts \in Partial(Examples, [payload : Payloads, version : Nat])
      /\ Len(vs) # 0 /\ Len(vs) \in Nat /\ DOMAIN vs = 1 .. Len(vs)
      /\ Serves(vs, record.active) /\ Apart(vs)
      /\ DOMAIN record.receipts \subseteq latest.train
  BY <1>1, <1>2 DEF GoodRecords, TaskRecords
<1>4. Len(vs) \in DOMAIN vs /\ latest \in VersionRecords
  BY <1>3
<1>5. latest.train \cup {e} \in SUBSET Examples
  BY <1>4 DEF VersionRecords
<1>6. /\ v \in VersionRecords /\ v.train = latest.train \cup {e} /\ v.holdout = holdout
      /\ v.ok = ok
  BY <1>5, NewVersionTyped
<1>7. \A i \in DOMAIN vs : vs[i].train \subseteq Used(vs) /\ vs[i].holdout \subseteq Used(vs)
  BY DEF Used
<1>8. /\ v.train \cap v.holdout = {}
      /\ \A i \in DOMAIN vs :
            v.train \cap vs[i].holdout = {} /\ vs[i].train \cap v.holdout = {}
  <2>1. \A i \in DOMAIN vs : latest.train \cap vs[i].holdout = {}
    BY <1>3, <1>4 DEF Apart
  <2>2. QED
    BY <1>1, <1>6, <1>7, <2>1
<1>9. /\ receipt \in Partial(Examples, [payload : Payloads, version : Nat])
      /\ DOMAIN receipt = {e}
  <2>1. [payload |-> payload, version |-> Len(vs) + 1] \in [payload : Payloads, version : Nat]
    BY <1>3
  <2>2. QED
    BY <2>1, PartialOne, OneKey
<1> HIDE DEF v, receipt, vs, latest
<1> DEFINE b == Appended(record, v)
<1>10. /\ b \in TaskRecords /\ b.versions = Append(vs, v) /\ b.kind = "rule"
       /\ b.receipts = record.receipts
       /\ b.active = IF v.ok THEN Len(vs) + 1 ELSE record.active
  BY <1>1, <1>3, <1>6, AppendedFields DEF vs
<1> HIDE DEF b, record
<1>11. /\ a = [b EXCEPT !.receipts = receipt ++ b.receipts]
       /\ receipt ++ b.receipts \in Partial(Examples, [payload : Payloads, version : Nat])
       /\ DOMAIN (receipt ++ b.receipts) = {e} \cup DOMAIN record.receipts
  <2>1. a = [b EXCEPT !.receipts = receipt ++ b.receipts]
    BY DEF b
  <2>2. receipt ++ b.receipts \in Partial(Examples, [payload : Payloads, version : Nat])
    BY <1>3, <1>9, <1>10, PartialOver
  <2>3. DOMAIN (receipt ++ b.receipts) = {e} \cup DOMAIN record.receipts
    BY <1>9, <1>10 DEF ++
  <2>4. QED
    BY <2>1, <2>2, <2>3
<1> DEFINE both == receipt ++ b.receipts
<1> HIDE DEF both, a
<1>12. /\ a \in TaskRecords /\ a.versions = Append(vs, v) /\ a.kind = "rule"
       /\ a.receipts = both
       /\ a.active = IF v.ok THEN Len(vs) + 1 ELSE record.active
  <2>1. /\ a = [b EXCEPT !.receipts = both]
        /\ both \in Partial(Examples, [payload : Payloads, version : Nat])
    BY <1>11 DEF both
  <2>2. a \in TaskRecords
    BY <1>10, <2>1 DEF TaskRecords
  <2>3. a.versions = b.versions /\ a.kind = b.kind /\ a.active = b.active /\ a.receipts = both
    BY <1>10, <2>1 DEF TaskRecords
  <2>4. QED
    BY <1>10, <2>2, <2>3
<1>13. DOMAIN a.receipts \subseteq v.train
  BY <1>3, <1>6, <1>11, <1>12 DEF both
<1>14. a \in GoodRecords
  BY <1>3, <1>6, <1>8, <1>12, <1>13, NextVersion
<1>15. QED
  BY <1>1, <1>14, SavesKeep DEF a, b

LEMMA RollbackKeeps ==
  ASSUME LRInv, NEW t \in Tasks, NEW prior, Rollback(t, prior)
  PROVE  LRInv'
<1> DEFINE record == Task(t)
           a == [record EXCEPT !.active = prior]
<1>1. slot = "open" /\ Has(Key(t)) /\ Saves(t, a) /\ prior \in Returnable(record)
  BY DEF Rollback, Clean, Usable, Learnt
<1>2. record \in GoodRecords
  BY <1>1, TaskRecordFacts
<1> HIDE DEF record
<1>3. /\ record \in TaskRecords /\ record.versions \in Seq(VersionRecords)
      /\ Len(record.versions) \in Nat /\ DOMAIN record.versions = 1 .. Len(record.versions)
  BY <1>2 DEF GoodRecords, TaskRecords
<1>4. /\ prior \in Nat /\ prior # 0
      /\ prior \in DOMAIN record.versions /\ record.versions[prior].ok
  BY <1>1, <1>3 DEF Returnable
<1>5. /\ a \in TaskRecords /\ a.versions = record.versions /\ a.kind = record.kind
      /\ a.receipts = record.receipts /\ a.active = prior
  BY <1>3, <1>4 DEF TaskRecords
<1> HIDE DEF a
<1>6. a \in GoodRecords
  BY <1>2, <1>4, <1>5 DEF GoodRecords, Serves
<1>7. QED
  BY <1>1, <1>6, SavesKeep

LEMMA TreesSaveKeeps ==
  ASSUME LRInv, NEW t \in Tasks, NEW train \in SUBSET Examples,
         NEW holdout \in SUBSET Examples, NEW ok \in BOOLEAN, TreesSave(t, train, holdout, ok)
  PROVE  LRInv'
<1> DEFINE record == IF Has(Key(t)) THEN Task(t) ELSE Empty("tree")
           v == Version(train, holdout, ok)
           a == Appended(record, v)
<1>1. slot = "open" /\ (Has(Key(t)) => Task(t).kind = "tree") /\ Saves(t, a)
  BY DEF TreesSave, Clean, Usable, Learnt
<1>2. /\ record \in TaskRecords /\ record.kind = "tree" /\ DOMAIN record.receipts = {}
      /\ Serves(record.versions, record.active)
  <2>1. CASE Has(Key(t))
    <3>1. record = Task(t) /\ Task(t) \in GoodRecords /\ Task(t).kind = "tree"
      BY <1>1, <2>1, TaskRecordFacts
    <3>2. QED
      BY <3>1 DEF GoodRecords
  <2>2. CASE ~Has(Key(t))
    <3>1. record = Empty("tree")
      BY <2>2
    <3>2. QED
      BY <3>1, EmptyRecord
  <2>3. QED
    BY <2>1, <2>2
<1>3. v \in VersionRecords
  BY NewVersionTyped
<1> HIDE DEF record, v
<1>4. /\ a \in TaskRecords /\ a.versions = Append(record.versions, v) /\ a.kind = record.kind
      /\ a.receipts = record.receipts
      /\ a.active = IF v.ok THEN Len(record.versions) + 1 ELSE record.active
      /\ record.versions \in Seq(VersionRecords) /\ record.active \in Nat
  BY <1>2, <1>3, AppendedFields DEF TaskRecords
<1> HIDE DEF a
<1>5. a \in GoodRecords
  BY <1>2, <1>3, <1>4, NextVersion
<1>6. QED
  BY <1>1, <1>5, SavesKeep DEF record, v, a

LEMMA LearnedStep ==
  ASSUME LRInv, [LRNext]_LRvars
  PROVE  LRInv'
<1>1. CASE StoreOpen
  BY <1>1, StoreOpenKeeps DEF LRInv
<1>2. CASE ProcessEnds
  BY <1>2, ProcessEndsKeeps, SavedVersionFacts DEF LRInv
<1>3. CASE PutPlain
  BY <1>3, SavedVersionFacts DEF LRInv, HostOK, PutPlain
<1>4. CASE CommitPlain(MaxTaskRevisions)
  <2>1. slot = "open" /\ CommitOutcome(NoKeys)
    BY <1>4 DEF CommitPlain, Usable, CommitOutcome
  <2>2. QED
    BY <2>1, SavedVersionFacts, LearnedCommit
<1>5. CASE UNCHANGED LRvars
  BY <1>5 DEF LRInv, HostOK, LRvars, storeVars
<1>6. QED
  BY <1>1, <1>2, <1>3, <1>4, <1>5, RulesSaveKeeps, AddKeeps, RollbackKeeps, TreesSaveKeeps
  DEF LRNext

LEMMA LearnedInvariant == LRSpec => []LRInv
<1>1. LRInit => LRInv
  BY SavedVersionFacts DEF LRInit, SlotInit, LRInv, HostOK
<1>2. QED
  BY <1>1, LearnedStep, PTL DEF LRSpec

LEMMA SavedAreGood ==
  ASSUME LRInv
  PROVE  SavedRecords \subseteq GoodRecords
<1>1. \A r \in 1 .. Revision : history[r] \in SavedVersions
  BY DEF LRInv, HostOK, Revision
<1>2. QED
  BY <1>1 DEF SavedRecords, RecordsIn, SavedVersions

(* No row is in the training of one version of a rule and in the holdout of *)
(* another (rules_add_counterexample, rules_rollback), in any revision.     *)
THEOREM HoldoutsStayOut == LRSpec => []HoldoutHeldOut
<1>1. LRInv => HoldoutHeldOut
  BY SavedAreGood DEF HoldoutHeldOut, GoodRecords, Apart
<1>2. QED
  BY LearnedInvariant, <1>1, PTL

(* What serves predictions passed its validation, and what was corrected is *)
(* in the training of the latest version.                                   *)
THEOREM OnlyValidatedServes == LRSpec => []ActiveValidated
<1>1. LRInv => ActiveValidated
  <2> SUFFICES ASSUME LRInv, NEW record \in SavedRecords
               PROVE  /\ record.active # 0 => record.versions[record.active].ok
                      /\ record.active = 0 =>
                            \A i \in 1 .. Len(record.versions) : ~record.versions[i].ok
                      /\ DOMAIN record.receipts
                            \subseteq record.versions[Len(record.versions)].train
    BY DEF ActiveValidated
  <2>1. record \in GoodRecords
    BY SavedAreGood
  <2>2. DOMAIN record.versions = 1 .. Len(record.versions)
    BY <2>1 DEF GoodRecords, TaskRecords
  <2>3. QED
    BY <2>1, <2>2 DEF GoodRecords, Serves
<1>2. QED
  BY LearnedInvariant, <1>1, PTL

-----------------------------------------------------------------------------
(* Datasets. *)

(* The handle, whatever the versions hold. *)
HostSound == \E V : NoKeys \in V /\ HostOK(V)

(* What a query names in version v, the r-th, is of the sources in v. *)
FreshAt(v, q, r) ==
    /\ v[Query(q)].snapshot \in 1 .. r
    /\ Snapshot(q, v[Query(q)].snapshot) \in DOMAIN v
    /\ \A s \in Inputs[q] : Source(s) \in DOMAIN v
    /\ v[Snapshot(q, v[Query(q)].snapshot)].digest = v[Query(q)].digest
    /\ v[Snapshot(q, v[Query(q)].snapshot)].rows = [s \in Inputs[q] |-> v[Source(s)]]
Fresh(v, r) == \A q \in Queries : Query(q) \in DOMAIN v => FreshAt(v, q, r)

(* Between a version and the next, the r-th, a source changes with a receipt. *)
NewReceipts(before, v, s) == {k \in DOMAIN v : k[1] = "batch" /\ k[2] = s} \ DOMAIN before
AppliedTo(before, v, s, r) ==
    \/ NewReceipts(before, v, s) = {} /\ v[Source(s)] = before[Source(s)]
    \/ \E k \in NewReceipts(before, v, s) :
          /\ NewReceipts(before, v, s) = {k} /\ v[k].revision = r
          /\ v[Source(s)] = RowsAfter(before[Source(s)], v[k].change)
Applied(before, v, r) ==
    \A s \in Sources : Source(s) \in DOMAIN before => AppliedTo(before, v, s, r)

(* What may be the next version after history h. *)
Continues(v, h) == Fresh(v, Len(h) + 1) /\ Applied(LastOf(h), v, Len(h) + 1)

DatasetHistory(h) ==
    /\ \A r \in 1 .. Len(h) : Fresh(h[r], r)
    /\ \A r \in 2 .. Len(h) : Applied(h[r - 1], h[r], r)

DSInv ==
    /\ HostSound /\ DOMAIN mutations \subseteq {<<"plain">>}
    /\ DatasetHistory(history)
    /\ \A v \in uncertain : Continues(v, history)

(* The keys of v are those of new over those of l. *)
Over(v, new, l) ==
    /\ DOMAIN v = DOMAIN new \cup DOMAIN l
    /\ \A k \in DOMAIN new : v[k] = new[k]
    /\ \A k \in DOMAIN l \ DOMAIN new : v[k] = l[k]

LEMMA IsOver ==
  ASSUME NEW new, NEW l
  PROVE  Over(new ++ l, new, l)
BY DEF ++, Over

LEMMA OverNothing ==
  ASSUME NEW new, NEW l
  PROVE  Over((new ++ NoKeys) ++ l, new, l) /\ Over((NoKeys ++ new) ++ l, new, l)
<1>1. DOMAIN NoKeys = {}
  BY PartialNone
<1>2. ASSUME NEW m, Over(m, new, NoKeys) \/ Over(m, NoKeys, new)
      PROVE  Over(m ++ l, new, l)
  <2> DEFINE v == m ++ l
  <2>1. Over(v, m, l)
    BY IsOver
  <2> HIDE DEF v
  <2>2. DOMAIN m = DOMAIN new /\ \A k \in DOMAIN new : m[k] = new[k]
    BY <1>1, <1>2 DEF Over
  <2>3. Over(v, new, l)
    BY <2>1, <2>2 DEF Over
  <2>4. QED
    BY <2>3 DEF v
<1>3. Over(new ++ NoKeys, new, NoKeys) /\ Over(NoKeys ++ new, NoKeys, new)
  BY IsOver
<1>4. QED
  BY <1>2, <1>3

LEMMA DatasetKeys ==
  /\ \A s : Source(s)[1] = "source" /\ Source(s)[2] = s
  /\ \A q : Query(q)[1] = "query" /\ Query(q)[2] = q
  /\ \A q, r : Snapshot(q, r)[1] = "snapshot" /\ Snapshot(q, r)[2] = q /\ Snapshot(q, r)[3] = r
  /\ \A s, b : Batch(s, b)[1] = "batch" /\ Batch(s, b)[2] = s /\ Batch(s, b)[3] = b
BY DEF Source, Query, Snapshot, Batch

-----------------------------------------------------------------------------
(* The handle of a history of datasets. *)

LEMMA HostMore ==
  ASSUME NEW V, NEW W, HostOK(V), V \subseteq W
  PROVE  HostOK(W)
<1>1. history \in Seq(W)
  BY DEF HostOK
<1>2. QED
  BY <1>1 DEF HostOK

LEMMA HostSoundFacts ==
  ASSUME HostSound
  PROVE  /\ Len(history) \in Nat
         /\ \E V : history \in Seq(V)
         /\ slot = "open" => uncertain = {}
         /\ slot # "open" => mutations = NoKeys
<1>1. PICK V : NoKeys \in V /\ HostOK(V)
  BY DEF HostSound
<1>2. QED
  BY <1>1 DEF HostOK

LEMMA AnyHistoryGrows ==
  ASSUME HostSound, NEW v
  PROVE  /\ Len(Append(history, v)) = Len(history) + 1
         /\ \A i \in 1 .. Len(history) : Append(history, v)[i] = history[i]
         /\ Append(history, v)[Len(history) + 1] = v /\ LastOf(Append(history, v)) = v
         /\ Len(history) \in Nat
<1>1. PICK V : NoKeys \in V /\ HostOK(V)
  BY DEF HostSound
<1> DEFINE W == V \cup {v}
<1>2. v \in W /\ V \subseteq W
  OBVIOUS
<1> HIDE DEF W
<1>3. HostOK(W)
  BY <1>1, <1>2, HostMore
<1>4. history \in Seq(W)
  BY <1>3 DEF HostOK
<1>5. QED
  BY <1>2, <1>4, AppendFacts

LEMMA HostOpens ==
  ASSUME HostSound, StoreOpen
  PROVE  /\ HostSound' /\ mutations' = mutations /\ uncertain' = {}
         /\ history' = history \/ \E v \in uncertain : history' = Append(history, v)
<1>1. PICK V : NoKeys \in V /\ HostOK(V)
  BY DEF HostSound
<1>2. HostOK(V)'
  BY <1>1, StoreOpenKeeps
<1>3. HostSound'
  BY <1>1, <1>2 DEF HostSound
<1>4. QED
  BY <1>1, <1>3, StoreOpenKeeps

LEMMA HostEnds ==
  ASSUME HostSound, ProcessEnds
  PROVE  HostSound' /\ mutations' = NoKeys /\ history' = history /\ uncertain' = uncertain
<1>1. PICK V : NoKeys \in V /\ HostOK(V)
  BY DEF HostSound
<1>2. HostOK(V)' /\ mutations' = NoKeys /\ history' = history /\ uncertain' = uncertain
  BY <1>1, ProcessEndsKeeps
<1>3. QED
  BY <1>1, <1>2 DEF HostSound

LEMMA HostCommits ==
  ASSUME HostSound, NEW keys, slot = "open", CommitOutcome(keys)
  PROVE  /\ HostSound'
         /\ \/ /\ history' = Append(history, keys ++ mutations ++ Shown)
               /\ mutations' = NoKeys /\ uncertain' = uncertain
            \/ /\ history' = history
               /\ mutations' = NoKeys \/ mutations' = keys ++ mutations
               /\ uncertain' \subseteq uncertain \cup {keys ++ mutations ++ Shown}
<1>1. PICK V : NoKeys \in V /\ HostOK(V)
  BY DEF HostSound
<1>2. PICK W : W = V \cup {keys ++ mutations, keys ++ mutations ++ Shown}
  OBVIOUS
<1>3. /\ NoKeys \in W /\ HostOK(W)
      /\ keys ++ mutations \in W /\ keys ++ mutations ++ Shown \in W
  BY <1>1, <1>2, HostMore
<1>4. /\ HostOK(W)'
      /\ \/ /\ history' = Append(history, keys ++ mutations ++ Shown)
            /\ mutations' = NoKeys /\ uncertain' = uncertain
         \/ /\ history' = history
            /\ mutations' = NoKeys \/ mutations' = keys ++ mutations
            /\ uncertain' \subseteq uncertain \cup {keys ++ mutations ++ Shown}
  BY <1>3, CommitKeeps
<1>5. HostSound'
  BY <1>3, <1>4 DEF HostSound
<1>6. QED
  BY <1>4, <1>5

-----------------------------------------------------------------------------
(* What a commit does to queries and sources. *)

LEMMA KeptFresh ==
  ASSUME NEW v, NEW new, NEW l, NEW q, NEW n \in Nat, Over(v, new, l),
         Query(q) \in DOMAIN l, FreshAt(l, q, n), Query(q) \notin DOMAIN new,
         \A s \in Inputs[q] : Source(s) \notin DOMAIN new,
         \A m \in 1 .. n : Snapshot(q, m) \notin DOMAIN new
  PROVE  FreshAt(v, q, n + 1)
<1>1. v[Query(q)] = l[Query(q)]
  BY DEF Over
<1>2. v[Query(q)].snapshot \in 1 .. n
  BY <1>1 DEF FreshAt
<1>3. /\ Snapshot(q, v[Query(q)].snapshot) \in DOMAIN v
      /\ v[Snapshot(q, v[Query(q)].snapshot)] = l[Snapshot(q, v[Query(q)].snapshot)]
  BY <1>1, <1>2 DEF FreshAt, Over
<1>4. \A s \in Inputs[q] : Source(s) \in DOMAIN v /\ v[Source(s)] = l[Source(s)]
  BY DEF FreshAt, Over
<1>5. [s \in Inputs[q] |-> v[Source(s)]] = [s \in Inputs[q] |-> l[Source(s)]]
  BY <1>4
<1>6. QED
  BY <1>1, <1>2, <1>3, <1>4, <1>5 DEF FreshAt

LEMMA NothingApplied ==
  ASSUME NEW v, NEW new, NEW l, NEW r, Over(v, new, l), \A k \in DOMAIN new : k[1] # "batch",
         \A s \in Sources : Source(s) \in DOMAIN l => Source(s) \notin DOMAIN new
  PROVE  Applied(l, v, r)
<1>1. ASSUME NEW s \in Sources, Source(s) \in DOMAIN l
      PROVE  AppliedTo(l, v, s, r)
  <2>1. NewReceipts(l, v, s) = {}
    BY DEF NewReceipts, Over
  <2>2. v[Source(s)] = l[Source(s)]
    BY <1>1 DEF Over
  <2>3. QED
    BY <2>1, <2>2 DEF AppliedTo
<1>2. QED
  BY <1>1 DEF Applied

(* What is shown is fresh. *)
LEMMA ShownFresh ==
  ASSUME DSInv
  PROVE  /\ Len(history) \in Nat /\ Shown = LastOf(history)
         /\ \A q \in Queries : Query(q) \in DOMAIN Shown => FreshAt(Shown, q, Len(history))
<1>1. Len(history) \in Nat /\ Shown = LastOf(history)
  BY HostSoundFacts, ShownIsLast DEF DSInv
<1>2. ASSUME NEW q \in Queries, Query(q) \in DOMAIN Shown
      PROVE  FreshAt(Shown, q, Len(history))
  <2>1. Len(history) # 0
    BY <1>1, <1>2, PartialNone DEF LastOf
  <2>2. Shown = history[Len(history)] /\ Len(history) \in 1 .. Len(history)
    BY <1>1, <2>1 DEF LastOf
  <2>3. QED
    BY <1>2, <2>2 DEF DSInv, DatasetHistory, Fresh
<1>3. QED
  BY <1>1, <1>2

LEMMA HistoryContinues ==
  ASSUME DSInv, NEW v, Continues(v, history)
  PROVE  DatasetHistory(Append(history, v))
<1> DEFINE g == Append(history, v)
           n == Len(history) + 1
<1>1. /\ Len(g) = n /\ g[n] = v /\ Len(history) \in Nat
      /\ \A i \in 1 .. Len(history) : g[i] = history[i]
  BY AnyHistoryGrows DEF DSInv
<1> HIDE DEF g
<1>2. ASSUME NEW r \in 1 .. n PROVE Fresh(g[r], r)
  BY <1>1, <1>2 DEF DSInv, DatasetHistory, Continues
<1>3. ASSUME NEW r \in 2 .. n PROVE Applied(g[r - 1], g[r], r)
  <2>1. CASE r \in 2 .. Len(history)
    <3>1. r - 1 \in 1 .. Len(history) /\ r \in 1 .. Len(history)
      BY <1>1, <2>1
    <3>2. QED
      BY <1>1, <2>1, <3>1 DEF DSInv, DatasetHistory
  <2>2. CASE r = n
    <3>1. Len(history) # 0 /\ r - 1 = Len(history) /\ Len(history) \in 1 .. Len(history)
      BY <1>1, <1>3, <2>2
    <3>2. g[r - 1] = LastOf(history)
      BY <1>1, <3>1 DEF LastOf
    <3>3. QED
      BY <1>1, <2>2, <3>2 DEF Continues
  <2>3. QED
    BY <1>1, <2>1, <2>2
<1>4. QED
  BY <1>1, <1>2, <1>3 DEF DatasetHistory, g

(* The outcomes of a commit that continues the history. *)
LEMMA DatasetCommit ==
  ASSUME DSInv, NEW keys, slot = "open", CommitOutcome(keys),
         Continues(keys ++ mutations ++ Shown, history),
         mutations' = NoKeys \/ DOMAIN mutations' \subseteq {<<"plain">>}
  PROVE  DSInv'
<1> DEFINE v == keys ++ mutations ++ Shown
<1>1. uncertain = {}
  BY HostSoundFacts DEF DSInv
<1>2. /\ HostSound'
      /\ \/ history' = Append(history, v) /\ uncertain' = uncertain
         \/ history' = history /\ uncertain' \subseteq uncertain \cup {v}
  BY HostCommits DEF DSInv
<1> HIDE DEF v
<1>3. DOMAIN mutations' \subseteq {<<"plain">>}
  BY PartialNone
<1>4. CASE history' = Append(history, v) /\ uncertain' = uncertain
  <2>1. DatasetHistory(history')
    BY <1>4, HistoryContinues DEF v
  <2>2. QED
    BY <1>1, <1>2, <1>3, <1>4, <2>1 DEF DSInv
<1>5. CASE history' = history /\ uncertain' \subseteq uncertain \cup {v}
  <2>1. \A w \in uncertain' : Continues(w, history)
    BY <1>1, <1>5 DEF v
  <2>2. QED
    BY <1>2, <1>3, <1>5, <2>1 DEF DSInv
<1>6. QED
  BY <1>2, <1>4, <1>5

(* A commit while nothing else is staged. *)
LEMMA CleanCommit ==
  ASSUME DSInv, NEW keys, mutations = NoKeys, slot = "open",
         CommitMade(keys) \/ CommitClosed(keys),
         \A v : Over(v, keys, Shown) => Continues(v, history)
  PROVE  DSInv'
<1>1. Over(keys ++ mutations ++ Shown, keys, Shown)
  BY OverNothing
<1>2. mutations' = NoKeys
  BY DEF CommitMade, CommitClosed, Lost
<1>3. QED
  BY <1>1, <1>2, DatasetCommit DEF CommitOutcome

-----------------------------------------------------------------------------
(* Every step of Datasets keeps the invariant. *)

LEMMA PlainKeeps ==
  ASSUME DSInv, Plain
  PROVE  DSInv'
<1>1. CASE PutPlain
  <2>1. /\ slot = "open" /\ slot' = slot /\ history' = history /\ uncertain' = uncertain
        /\ mutations' = Only(<<"plain">>, 0)
    BY <1>1 DEF PutPlain
  <2>2. PICK V : NoKeys \in V /\ HostOK(V)
    BY DEF DSInv, HostSound
  <2>3. PICK W : W = V \cup {Only(<<"plain">>, 0)}
    OBVIOUS
  <2>4. NoKeys \in W /\ HostOK(W)
    BY <2>2, <2>3, HostMore
  <2>5. HostOK(W)'
    BY <2>1, <2>3, <2>4 DEF HostOK
  <2>6. HostSound'
    BY <2>4, <2>5 DEF HostSound
  <2>7. DOMAIN mutations' \subseteq {<<"plain">>}
    BY <2>1, OneKey
  <2>8. QED
    BY <2>1, <2>6, <2>7 DEF DSInv
<1>2. CASE CommitPlain(MaxDatasetRevisions)
  <2>1. slot = "open" /\ (CommitMade(NoKeys) \/ CommitLeft(NoKeys))
    BY <1>2 DEF CommitPlain, Usable
  <2>2. DOMAIN (NoKeys ++ mutations) \subseteq {<<"plain">>}
    <3>1. PICK m : m = NoKeys ++ mutations
      OBVIOUS
    <3>2. DOMAIN m = DOMAIN mutations
      BY <3>1, IsOver, PartialNone DEF Over
    <3>3. QED
      BY <3>1, <3>2 DEF DSInv
  <2>3. mutations' = NoKeys \/ mutations' = NoKeys ++ mutations
    BY <2>1 DEF CommitMade, CommitLeft, Lost
  <2>4. ASSUME NEW v, Over(v, mutations, Shown)
        PROVE  Continues(v, history)
    <3>1. \A k \in DOMAIN mutations : k[1] = "plain"
      BY DEF DSInv
    <3>2. ASSUME NEW q \in Queries, Query(q) \in DOMAIN v PROVE FreshAt(v, q, Len(history) + 1)
      <4>1. Query(q) \notin DOMAIN mutations /\ Query(q) \in DOMAIN Shown
        BY <2>4, <3>1, <3>2, DatasetKeys DEF Over
      <4>2. \A s \in Inputs[q] : Source(s) \notin DOMAIN mutations
        BY <3>1, DatasetKeys
      <4>3. \A m \in 1 .. Len(history) : Snapshot(q, m) \notin DOMAIN mutations
        BY <3>1, DatasetKeys
      <4>4. QED
        BY <2>4, <4>1, <4>2, <4>3, ShownFresh, KeptFresh
    <3>3. \A s \in Sources : Source(s) \notin DOMAIN mutations
      BY <3>1, DatasetKeys
    <3>4. Applied(Shown, v, Len(history) + 1)
      BY <2>4, <3>1, <3>3, NothingApplied
    <3>5. QED
      BY <3>2, <3>4, ShownFresh DEF Continues, Fresh
  <2>5. Continues(NoKeys ++ mutations ++ Shown, history)
    BY <2>4, OverNothing
  <2>6. QED
    BY <2>1, <2>2, <2>3, <2>5, DatasetCommit DEF CommitOutcome
<1>3. QED
  BY <1>1, <1>2 DEF Plain

LEMMA SourceKeeps ==
  ASSUME DSInv, NEW s \in Sources, DatasetSource(s)
  PROVE  DSInv'
<1> DEFINE new == Only(Source(s), <<>>)
<1>1. /\ slot = "open" /\ mutations = NoKeys /\ Source(s) \notin DOMAIN Shown
      /\ CommitMade(new) \/ CommitClosed(new)
  BY DEF DatasetSource, Clean, Usable, Has
<1>2. DOMAIN new = {Source(s)}
  BY OneKey
<1> HIDE DEF new
<1>3. ASSUME NEW v, Over(v, new, Shown)
      PROVE  Continues(v, history)
  <2>1. \A k \in DOMAIN new : k[1] = "source"
    BY <1>2, DatasetKeys
  <2>2. ASSUME NEW q \in Queries, Query(q) \in DOMAIN v PROVE FreshAt(v, q, Len(history) + 1)
    <3>1. Query(q) \notin DOMAIN new /\ Query(q) \in DOMAIN Shown
      BY <1>3, <2>1, <2>2, DatasetKeys DEF Over
    <3>2. FreshAt(Shown, q, Len(history))
      BY <3>1, ShownFresh
    <3>3. \A i \in Inputs[q] : Source(i) \notin DOMAIN new
      BY <1>1, <1>2, <3>2 DEF FreshAt
    <3>4. \A m \in 1 .. Len(history) : Snapshot(q, m) \notin DOMAIN new
      BY <2>1, DatasetKeys
    <3>5. QED
      BY <1>3, <3>1, <3>2, <3>3, <3>4, ShownFresh, KeptFresh
  <2>3. \A i \in Sources : Source(i) \in DOMAIN Shown => Source(i) \notin DOMAIN new
    BY <1>1, <1>2
  <2>4. Applied(Shown, v, Len(history) + 1)
    BY <1>3, <2>1, <2>3, NothingApplied
  <2>5. QED
    BY <2>2, <2>4, ShownFresh DEF Continues, Fresh
<1>4. QED
  BY <1>1, <1>3, CleanCommit

(* A query recorded with its snapshot, in a version with these sources. *)
LEMMA NewlyFresh ==
  ASSUME NEW v, NEW q, NEW r \in Nat, r # 0, NEW calculation, NEW of, NEW rows, NEW digest,
         Query(q) \in DOMAIN v, Snapshot(q, r) \in DOMAIN v,
         v[Query(q)] = [calculation |-> calculation, digest |-> digest,
                        source |-> of, snapshot |-> r],
         v[Snapshot(q, r)] = [digest |-> digest, rows |-> rows],
         \A s \in Inputs[q] : Source(s) \in DOMAIN v,
         rows = [s \in Inputs[q] |-> v[Source(s)]]
  PROVE  FreshAt(v, q, r)
<1>1. v[Query(q)].snapshot = r /\ v[Query(q)].digest = digest
  OBVIOUS
<1>2. v[Snapshot(q, r)].digest = digest /\ v[Snapshot(q, r)].rows = rows
  OBVIOUS
<1>3. r \in 1 .. r
  OBVIOUS
<1>4. QED
  BY <1>1, <1>2, <1>3 DEF FreshAt

LEMMA RegisterKeeps ==
  ASSUME DSInv, NEW q \in Queries, NEW c, Register(q, c)
  PROVE  DSInv'
<1> DEFINE r == Len(history) + 1
           record == QueryRecord(c, Revision, r)
           kept == Evaluated(q, NoKeys)
           new == Only(Query(q), record) ++ Only(Snapshot(q, r), kept)
<1>1. /\ slot = "open" /\ mutations = NoKeys
      /\ \A s \in Inputs[q] : Source(s) \in DOMAIN Shown
      /\ CommitMade(new) \/ CommitClosed(new)
  BY DEF Register, Clean, Usable, Has, Revision
<1>2. Len(history) \in Nat
  BY ShownFresh
<1>3. Query(q) # Snapshot(q, r)
  BY DatasetKeys
<1>4. /\ DOMAIN new = {Query(q), Snapshot(q, r)}
      /\ new[Query(q)] = record /\ new[Snapshot(q, r)] = kept
  <2>1. /\ DOMAIN Only(Query(q), record) = {Query(q)}
        /\ Only(Query(q), record)[Query(q)] = record
        /\ DOMAIN Only(Snapshot(q, r), kept) = {Snapshot(q, r)}
        /\ Only(Snapshot(q, r), kept)[Snapshot(q, r)] = kept
    BY OneKey
  <2>2. Over(new, Only(Query(q), record), Only(Snapshot(q, r), kept))
    BY IsOver
  <2> HIDE DEF new, record, kept, r
  <2>3. QED
    BY <1>3, <2>1, <2>2 DEF Over
<1>5. kept = [digest |-> program, rows |-> [s \in Inputs[q] |-> Shown[Source(s)]]]
  <2>1. Over(NoKeys ++ Shown, NoKeys, Shown) /\ DOMAIN NoKeys = {}
    BY IsOver, PartialNone
  <2>2. \A s \in Inputs[q] : (NoKeys ++ Shown)[Source(s)] = Shown[Source(s)]
    BY <1>1, <2>1 DEF Over
  <2>3. [s \in Inputs[q] |-> (NoKeys ++ Shown)[Source(s)]]
            = [s \in Inputs[q] |-> Shown[Source(s)]]
    BY <2>2
  <2>4. kept = [digest |-> program,
                rows |-> [s \in Inputs[q] |-> (NoKeys ++ Shown)[Source(s)]]]
    BY DEF Evaluated
  <2> HIDE DEF kept
  <2>5. QED
    BY <2>3, <2>4, Zenon
<1>6. record = [calculation |-> c, digest |-> program, source |-> Revision, snapshot |-> r]
  BY DEF QueryRecord
<1> HIDE DEF new, kept, record
<1>7. ASSUME NEW v, Over(v, new, Shown)
      PROVE  Continues(v, history)
  <2>1. \A s : Source(s) \notin DOMAIN new
    BY <1>4, DatasetKeys
  <2>2. /\ Query(q) \in DOMAIN v /\ Snapshot(q, r) \in DOMAIN v
        /\ v[Query(q)] = record /\ v[Snapshot(q, r)] = kept
        /\ \A s \in Inputs[q] : Source(s) \in DOMAIN v /\ v[Source(s)] = Shown[Source(s)]
    BY <1>1, <1>4, <1>7, <2>1 DEF Over
  <2>3. FreshAt(v, q, r)
    <3>1. [s \in Inputs[q] |-> Shown[Source(s)]] = [s \in Inputs[q] |-> v[Source(s)]]
      BY <2>2
    <3>2. r \in Nat /\ r # 0
      BY <1>2
    <3>3. QED
      BY <1>5, <1>6, <2>2, <3>1, <3>2, NewlyFresh
  <2>4. ASSUME NEW p \in Queries, Query(p) \in DOMAIN v, p # q
        PROVE  FreshAt(v, p, r)
    <3>1. Query(p) \notin DOMAIN new /\ \A m : Snapshot(p, m) \notin DOMAIN new
      BY <1>4, <2>4, DatasetKeys
    <3>2. Query(p) \in DOMAIN Shown
      BY <1>7, <2>4, <3>1 DEF Over
    <3>3. FreshAt(Shown, p, Len(history))
      BY <3>2, ShownFresh
    <3>4. QED
      BY <1>2, <1>7, <2>1, <3>1, <3>2, <3>3, KeptFresh
  <2>5. Applied(Shown, v, r)
    <3>1. \A k \in DOMAIN new : k[1] # "batch"
      BY <1>4, DatasetKeys
    <3>2. QED
      BY <1>7, <2>1, <3>1, NothingApplied
  <2>6. QED
    BY <2>3, <2>4, <2>5, ShownFresh DEF Continues, Fresh
<1>8. QED
  BY <1>1, <1>7, CleanCommit

(* A batch: its source, the queries on it and its receipt, at once. *)
LEMMA ApplyKeeps ==
  ASSUME DSInv, NEW s \in Sources, NEW b, NEW change, DatasetApply(s, b, change)
  PROVE  DSInv'
<1> DEFINE r == Len(history) + 1
           after == RowsAfter(Shown[Source(s)], change)
           candidate == Only(Source(s), after)
           D == Dependents(s)
           records == [k \in {Query(q) : q \in D} |->
                          QueryRecord(Shown[Query(k[2])].calculation, r, r)]
           snapshots == [k \in {Snapshot(q, r) : q \in D} |-> Evaluated(k[2], candidate)]
           entry == [change |-> change, revision |-> r]
           receipt == Only(Batch(s, b), entry)
           reruns == records ++ snapshots
           some == candidate ++ reruns
           new == some ++ receipt
<1>1. /\ slot = "open" /\ mutations = NoKeys
      /\ Source(s) \in DOMAIN Shown /\ Batch(s, b) \notin DOMAIN Shown
      /\ CommitMade(new) \/ CommitClosed(new)
  BY DEF DatasetApply, Clean, Usable, Has, Seen, Rerun, BatchReceipt, Revision
<1>2. Len(history) \in Nat
  BY ShownFresh
<1>3. \A q : q \in D <=> q \in Queries /\ Query(q) \in DOMAIN Shown /\ s \in Inputs[q]
  BY DEF Dependents, KnownQuery, Has
<1>4. /\ DOMAIN records = {Query(q) : q \in D}
      /\ \A q \in D : records[Query(q)] = [calculation |-> Shown[Query(q)].calculation,
                                         digest |-> program, source |-> r, snapshot |-> r]
  BY DatasetKeys DEF QueryRecord
<1>5. /\ DOMAIN snapshots = {Snapshot(q, r) : q \in D}
      /\ \A q \in D : snapshots[Snapshot(q, r)] = Evaluated(q, candidate)
  BY DatasetKeys
<1>6. DOMAIN candidate = {Source(s)} /\ candidate[Source(s)] = after
  BY OneKey
<1>7. DOMAIN receipt = {Batch(s, b)} /\ receipt[Batch(s, b)] = entry
  BY OneKey
<1>8. /\ Over(reruns, records, snapshots) /\ Over(some, candidate, reruns)
      /\ Over(new, some, receipt)
  BY IsOver
<1>9. \A q \in D : \E old :
          Evaluated(q, candidate) = [digest |-> program, rows |-> old]
              /\ old = [i \in Inputs[q] |-> (candidate ++ Shown)[Source(i)]]
  BY DEF Evaluated
<1>10. Over(candidate ++ Shown, candidate, Shown)
  BY IsOver
<1>11. PICK shown : shown = Shown
  OBVIOUS
<1>12. PICK put : put = candidate ++ Shown
  OBVIOUS
<1> HIDE DEF new, some, reruns, records, snapshots, candidate, receipt, D, after, entry
<1>13. /\ DOMAIN new = {Source(s), Batch(s, b)} \cup {Query(q) : q \in D}
                            \cup {Snapshot(q, r) : q \in D}
       /\ new[Source(s)] = after /\ new[Batch(s, b)] = entry
       /\ \A q \in D : new[Query(q)] = records[Query(q)]
       /\ \A q \in D : new[Snapshot(q, r)] = snapshots[Snapshot(q, r)]
  <2>1. \A q \in D : Query(q) \in DOMAIN records /\ Snapshot(q, r) \in DOMAIN snapshots
    BY <1>4, <1>5
  <2>2. \A q \in D : Query(q) \notin DOMAIN candidate /\ Snapshot(q, r) \notin DOMAIN candidate
    BY <1>6, DatasetKeys
  <2>3. \A q \in D : Snapshot(q, r) \notin DOMAIN records
    BY <1>4, DatasetKeys
  <2>4. Batch(s, b) \notin DOMAIN some
    BY <1>4, <1>5, <1>6, <1>8, DatasetKeys DEF Over
  <2>5. DOMAIN new =
            DOMAIN candidate \cup DOMAIN records \cup DOMAIN snapshots \cup DOMAIN receipt
    BY <1>8 DEF Over
  <2>6. \A k \in DOMAIN records : k \notin DOMAIN candidate => new[k] = records[k]
    BY <1>8 DEF Over
  <2>7. \A k \in DOMAIN snapshots : k \notin DOMAIN candidate \cup DOMAIN records =>
            new[k] = snapshots[k]
    BY <1>8 DEF Over
  <2>8. new[Source(s)] = after /\ new[Batch(s, b)] = entry
    BY <1>6, <1>7, <1>8, <2>4 DEF Over
  <2>9. DOMAIN new = {Source(s), Batch(s, b)} \cup {Query(q) : q \in D}
                            \cup {Snapshot(q, r) : q \in D}
    BY <1>4, <1>5, <1>6, <1>7, <2>5
  <2>10. QED
    BY <2>1, <2>2, <2>3, <2>6, <2>7, <2>8, <2>9
<1>14. \A i : Source(i) \in DOMAIN new => i = s
  BY <1>13, DatasetKeys
<1>15. ASSUME NEW v, Over(v, new, Shown)
       PROVE  Continues(v, history)
  <2>1. /\ v[Source(s)] = after /\ v[Batch(s, b)] = entry
        /\ \A i : Source(i) \in DOMAIN Shown => Source(i) \in DOMAIN v
        /\ \A i : i # s /\ Source(i) \in DOMAIN Shown => v[Source(i)] = Shown[Source(i)]
    BY <1>13, <1>14, <1>15 DEF Over
  <2>2. ASSUME NEW q \in D PROVE FreshAt(v, q, r)
    <3>1. PICK old : Evaluated(q, candidate) = [digest |-> program, rows |-> old]
              /\ old = [i \in Inputs[q] |-> (candidate ++ Shown)[Source(i)]]
      BY <1>9, <2>2
    <3>2. FreshAt(Shown, q, Len(history))
      BY <1>3, <2>2, ShownFresh
    <3>3. \A i \in Inputs[q] : Source(i) \in DOMAIN Shown
      BY <3>2 DEF FreshAt
    <3>4. \A i \in Inputs[q] : (candidate ++ Shown)[Source(i)] = v[Source(i)]
      <4>1. /\ put[Source(s)] = after
            /\ \A i : i # s /\ Source(i) \in DOMAIN Shown => put[Source(i)] = Shown[Source(i)]
        BY <1>6, <1>10, <1>12, DatasetKeys DEF Over
      <4>2. \A i \in Inputs[q] : put[Source(i)] = v[Source(i)]
        BY <2>1, <3>3, <4>1
      <4>3. QED
        BY <1>12, <4>2
    <3>5. old = [i \in Inputs[q] |-> v[Source(i)]]
      BY <3>1, <3>4
    <3>6. /\ Query(q) \in DOMAIN v /\ Snapshot(q, r) \in DOMAIN v
          /\ v[Query(q)] = records[Query(q)] /\ v[Snapshot(q, r)] = snapshots[Snapshot(q, r)]
      BY <1>13, <1>15, <2>2 DEF Over
    <3>7. /\ v[Query(q)] = [calculation |-> Shown[Query(q)].calculation,
                            digest |-> program, source |-> r, snapshot |-> r]
          /\ v[Snapshot(q, r)] = [digest |-> program, rows |-> old]
      BY <1>4, <1>5, <2>2, <3>1, <3>6
    <3>8. r \in Nat /\ r # 0 /\ \A i \in Inputs[q] : Source(i) \in DOMAIN v
      BY <1>2, <2>1, <3>3
    <3>9. QED
      BY <3>5, <3>6, <3>7, <3>8, NewlyFresh
  <2>3. ASSUME NEW q \in Queries, Query(q) \in DOMAIN v, q \notin D
        PROVE  FreshAt(v, q, r)
    <3>1. Query(q) \notin DOMAIN new /\ \A m : Snapshot(q, m) \notin DOMAIN new
      BY <1>13, <2>3, DatasetKeys
    <3>2. Query(q) \in DOMAIN Shown
      BY <1>15, <2>3, <3>1 DEF Over
    <3>3. \A i \in Inputs[q] : Source(i) \notin DOMAIN new
      BY <1>3, <1>14, <2>3, <3>2
    <3>4. FreshAt(Shown, q, Len(history))
      BY <2>3, <3>2, ShownFresh
    <3>5. QED
      BY <1>2, <1>15, <3>1, <3>2, <3>3, <3>4, KeptFresh
  <2>4. Applied(Shown, v, r)
    <3>1. \A k \in DOMAIN new : k[1] = "batch" => k = Batch(s, b)
      BY <1>13, DatasetKeys
    <3>2. \A i : i # s => NewReceipts(Shown, v, i) = {}
      BY <1>15, <3>1, DatasetKeys DEF NewReceipts, Over
    <3>3. NewReceipts(Shown, v, s) = {Batch(s, b)}
      BY <1>1, <1>13, <1>15, <3>1, DatasetKeys DEF NewReceipts, Over
    <3>4. v[Batch(s, b)].revision = r /\ v[Batch(s, b)].change = change
      BY <2>1 DEF entry
    <3>5. AppliedTo(Shown, v, s, r)
      BY <2>1, <3>3, <3>4 DEF AppliedTo, after
    <3>6. \A i \in Sources : i # s /\ Source(i) \in DOMAIN Shown => AppliedTo(Shown, v, i, r)
      BY <2>1, <3>2 DEF AppliedTo
    <3>7. QED
      BY <3>5, <3>6 DEF Applied
  <2>5. QED
    BY <2>2, <2>3, <2>4, ShownFresh DEF Continues, Fresh
<1>16. QED
  BY <1>1, <1>15, CleanCommit

LEMMA DatasetStep ==
  ASSUME DSInv, [DSNext]_DSvars
  PROVE  DSInv'
<1>1. CASE StoreOpen
  <2>1. /\ HostSound' /\ mutations' = mutations /\ uncertain' = {}
        /\ history' = history \/ \E v \in uncertain : history' = Append(history, v)
    BY <1>1, HostOpens DEF DSInv
  <2>2. DatasetHistory(history')
    <3>1. CASE history' = history
      BY <3>1 DEF DSInv
    <3>2. ASSUME NEW v \in uncertain, history' = Append(history, v)
          PROVE  DatasetHistory(history')
      <4>1. Continues(v, history)
        BY <3>2 DEF DSInv
      <4>2. QED
        BY <3>2, <4>1, HistoryContinues
    <3>3. QED
      BY <2>1, <3>1, <3>2
  <2>3. QED
    BY <2>1, <2>2 DEF DSInv
<1>2. CASE ProcessEnds
  <2>1. HostSound' /\ mutations' = NoKeys /\ history' = history /\ uncertain' = uncertain
    BY <1>2, HostEnds DEF DSInv
  <2>2. QED
    BY <2>1, PartialNone DEF DSInv
<1>3. ASSUME NEW q \in Queries, NEW c \in Calculations, Bind(q, c)
      PROVE  UNCHANGED storeVars
  BY <1>3 DEF Bind
<1>4. CASE UNCHANGED storeVars
  BY <1>4 DEF DSInv, HostSound, HostOK, storeVars
<1>5. QED
  BY <1>1, <1>2, <1>3, <1>4, PlainKeeps, SourceKeeps, RegisterKeeps, ApplyKeeps
  DEF DSNext, DSvars, DatasetsOpen, DatasetsRestart

LEMMA DatasetInvariant == DSSpec => []DSInv
<1>1. DSInit => DSInv
  <2> SUFFICES ASSUME DSInit PROVE DSInv
    OBVIOUS
  <2>1. slot = "none" /\ mutations = NoKeys /\ history = <<>> /\ uncertain = {}
    BY DEF DSInit, SlotInit
  <2>2. HostOK({NoKeys})
    BY <2>1 DEF HostOK
  <2>3. HostSound
    BY <2>2 DEF HostSound
  <2>4. DatasetHistory(history)
    BY <2>1 DEF DatasetHistory
  <2>5. QED
    BY <2>1, <2>3, <2>4, PartialNone DEF DSInv
<1>2. QED
  BY <1>1, DatasetStep, PTL DEF DSSpec

(* The snapshot a query names in a revision is what its sources hold there  *)
(* (dataset_query, dataset_apply), over restarts with other programs.       *)
THEOREM SnapshotsAreFresh == DSSpec => []SnapshotsFresh
<1>1. DSInv => SnapshotsFresh
  BY DEF DSInv, DatasetHistory, Fresh, FreshAt, SnapshotsFresh, Revision
<1>2. QED
  BY DatasetInvariant, <1>1, PTL

(* A source changes with a receipt, once for a batch (dataset_apply), over  *)
(* commits that are uncertain and retried.                                  *)
THEOREM BatchesApplyOnce == DSSpec => []BatchesOnce
<1>1. DSInv => BatchesOnce
  BY DEF DSInv, DatasetHistory, Applied, AppliedTo, NewReceipts, BatchesOnce, Revision
<1>2. QED
  BY DatasetInvariant, <1>1, PTL

-----------------------------------------------------------------------------
(* The services stand on the store that module Store is proved to          *)
(* implement: an open handle is one that can be used, the closed one in    *)
(* its slot is none.                                                       *)

HostStore(V) == INSTANCE RevisionedStore WITH
    Versions <- V, Initially <- NoKeys, available <- slot = "open",
    published <- history, shown <- Shown, unsettled <- uncertain

(* What the services do to the store: nothing else changes it. *)
HostMoves ==
    \/ StoreOpen \/ ProcessEnds
    \/ slot = "open" /\ \E keys : CommitOutcome(keys)
    \/ UNCHANGED <<slot, history, uncertain>>

LEMMA HostRefines ==
  ASSUME NEW V, NoKeys \in V, HostOK(V), HostOK(V)', HostMoves
  PROVE  [HostStore(V)!AbsNext]_(HostStore(V)!absVars)
<1>1. history \in Seq(V) /\ history' \in Seq(V) /\ uncertain' \in SUBSET V
  BY DEF HostOK
<1>2. /\ Shown = LastOf(history) /\ Shown' = LastOf(history')
      /\ Shown \in V /\ Shown' \in V
  <2>1. Shown = LastOf(history)
    BY ShownIsLast
  <2>2. Shown' = LastOf(history')
    BY DEF Shown, VersionAt, Revision, LastOf
  <2>3. QED
    BY <1>1, <2>1, <2>2, LastFacts
<1>3. ASSUME NEW h \in Seq(V) PROVE HostStore(V)!Latest(h) = LastOf(h)
  <2>1. h = <<>> <=> Len(h) = 0
    OBVIOUS
  <2>2. QED
    BY <2>1 DEF LastOf, HostStore!Latest
<1>4. CASE UNCHANGED <<slot, history, uncertain>>
  <2>1. Shown' = Shown
    BY <1>2, <1>4
  <2>2. QED
    BY <1>4, <2>1 DEF HostStore!absVars
<1>5. CASE StoreOpen
  <2>1. /\ slot = "none" /\ slot' = "open" /\ uncertain' = {}
        /\ history' = history \/ \E v \in uncertain : history' = Append(history, v)
    BY <1>5 DEF StoreOpen
  <2>2. Shown' = HostStore(V)!Latest(history')
    BY <1>1, <1>2, <1>3
  <2>3. HostStore(V)!Attach
    BY <2>1, <2>2 DEF HostStore!Attach
  <2>4. QED
    BY <2>3 DEF HostStore!AbsNext
<1>6. ASSUME slot = "open", slot' # "open", history' = history,
             uncertain' = {} \/ \E v : uncertain' = {v}
      PROVE  HostStore(V)!AbsNext
  <2>1. ASSUME NEW vs, vs = uncertain' PROVE HostStore(V)!DetachInDoubt(vs)
    BY <1>2, <1>6, <2>1 DEF HostStore!DetachInDoubt
  <2>2. uncertain' = {} \/ \E v \in V : uncertain' = {v}
    BY <1>1, <1>6
  <2>3. HostStore(V)!Detach
    BY <2>1, <2>2 DEF HostStore!Detach
  <2>4. QED
    BY <2>3 DEF HostStore!AbsNext
<1>7. CASE ProcessEnds
  <2>1. slot' = "none" /\ history' = history /\ uncertain' = uncertain
    BY <1>7 DEF ProcessEnds, Lost
  <2>2. CASE slot = "open"
    BY <1>6, <2>1, <2>2 DEF HostOK
  <2>3. CASE slot # "open"
    <3>1. Shown' = Shown /\ (slot = "open")' = (slot = "open")
      BY <1>2, <2>1, <2>3
    <3>2. QED
      BY <2>1, <3>1 DEF HostStore!absVars
  <2>4. QED
    BY <2>2, <2>3
<1>8. ASSUME NEW keys, slot = "open", CommitOutcome(keys)
      PROVE  [HostStore(V)!AbsNext]_(HostStore(V)!absVars)
  <2>1. PICK v : v = keys ++ mutations ++ Shown
    OBVIOUS
  <2>2. CASE CommitMade(keys)
    <3>1. history' = Append(history, v) /\ slot' = slot /\ uncertain' = uncertain
      BY <2>1, <2>2 DEF CommitMade
    <3>2. Len(history) \in Nat /\ Len(history') = Len(history) + 1 /\ history'[Len(history) + 1] = v
      BY <1>1, <3>1
    <3>3. Shown' = v
      BY <1>2, <3>2 DEF LastOf
    <3>4. HostStore(V)!PublishVersion(v)
      BY <1>8, <3>1, <3>3 DEF HostStore!PublishVersion
    <3>5. QED
      BY <1>2, <3>3, <3>4 DEF HostStore!AbsNext, HostStore!Publish
  <2>3. CASE CommitLeft(keys)
    <3>1. CASE UNCHANGED <<slot, history, uncertain>>
      BY <1>4, <3>1
    <3>2. CASE slot' = "closed" /\ Lost({v})
      BY <1>6, <1>8, <3>2 DEF Lost
    <3>3. QED
      BY <2>1, <2>3, <3>1, <3>2 DEF CommitLeft
  <2>4. CASE CommitClosed(keys)
    BY <1>6, <1>8, <2>4 DEF CommitClosed, Lost
  <2>5. QED
    BY <1>8, <2>2, <2>3, <2>4 DEF CommitOutcome
<1>9. QED
  BY <1>4, <1>5, <1>7, <1>8 DEF HostMoves

LEMMA HostInitial ==
  ASSUME NEW V, NoKeys \in V, SlotInit
  PROVE  HostStore(V)!AbsInit
<1>1. slot = "none" /\ history = <<>> /\ uncertain = {}
  BY DEF SlotInit
<1>2. Shown = NoKeys
  BY <1>1, ShownIsLast DEF LastOf
<1>3. QED
  BY <1>1, <1>2 DEF HostStore!AbsInit

(* Ledger, decisions and effects, over closed handles and rolled back       *)
(* commits that stay staged, use the store as the abstract one allows.      *)
THEOREM RecordsUseTheStore == RCSpec => HostStore(RecordVersions)!AbsSpec
<1>1. NoKeys \in RecordVersions
  BY PartialNone DEF RecordVersions
<1>2. ASSUME [RCNext]_RCvars PROVE HostMoves
  <2>1. CASE LedgerOpen \/ LedgerRestart
    BY <2>1 DEF LedgerOpen, LedgerRestart, HostMoves
  <2>2. CASE LedgerCommit
    BY <2>2 DEF LedgerCommit, CommitPlain, Usable, CommitOutcome, HostMoves
  <2>3. ASSUME NEW e \in Events, LedgerAppend(e) PROVE HostMoves
    BY <2>3 DEF LedgerAppend, Usable, CommitOutcome, HostMoves
  <2>4. ASSUME NEW d, NEW outcome, PolicyStoreDecision(d, outcome) PROVE HostMoves
    BY <2>4 DEF PolicyStoreDecision, Stages, HostMoves
  <2>5. ASSUME NEW a, EffectStoreAttempt(a) \/ EffectBegin(a) PROVE HostMoves
    BY <2>5 DEF EffectStoreAttempt, EffectBegin, Stages, Usable, CommitOutcome, HostMoves
  <2>6. ASSUME NEW status, Execute(status) PROVE HostMoves
    BY <2>6 DEF Execute, storeVars, HostMoves
  <2>7. CASE EffectEnd
    BY <2>7 DEF EffectEnd, Usable, CommitOutcome, HostMoves
  <2>8. CASE UNCHANGED RCvars
    BY <2>8 DEF RCvars, storeVars, HostMoves
  <2>9. QED
    BY <1>2, <2>1, <2>2, <2>3, <2>4, <2>5, <2>6, <2>7, <2>8 DEF RCNext
<1>3. RCInv /\ [RCNext]_RCvars
        => [HostStore(RecordVersions)!AbsNext]_(HostStore(RecordVersions)!absVars)
  <2> SUFFICES ASSUME RCInv, [RCNext]_RCvars
               PROVE  [HostStore(RecordVersions)!AbsNext]_(HostStore(RecordVersions)!absVars)
    OBVIOUS
  <2>1. HostOK(RecordVersions) /\ HostOK(RecordVersions)'
    BY RecordStep DEF RCInv, RCTypeOK
  <2>2. HostMoves
    BY <1>2
  <2>3. QED
    BY <1>1, <2>1, <2>2, HostRefines
<1>4. RCInit => HostStore(RecordVersions)!AbsInit
  BY <1>1, HostInitial DEF RCInit
<1>5. QED
  BY <1>3, <1>4, RecordInvariant, PTL DEF RCSpec, HostStore!AbsSpec

(* And so do the learned tasks, which close a failed store.                 *)
THEOREM LearnedUsesTheStore == LRSpec => HostStore(SavedVersions)!AbsSpec
<1>1. NoKeys \in SavedVersions
  BY SavedVersionFacts
<1>2. ASSUME NEW t, NEW record, slot = "open", Saves(t, record) PROVE HostMoves
  BY <1>2 DEF Saves, CommitOutcome, HostMoves
<1>3. ASSUME [LRNext]_LRvars PROVE HostMoves
  <2>1. CASE StoreOpen \/ ProcessEnds
    BY <2>1 DEF HostMoves
  <2>2. CASE PutPlain
    BY <2>2 DEF PutPlain, HostMoves
  <2>3. CASE CommitPlain(MaxTaskRevisions)
    BY <2>3 DEF CommitPlain, Usable, CommitOutcome, HostMoves
  <2>4. ASSUME NEW t, NEW train, NEW holdout, NEW ok, RulesSave(t, train, holdout, ok) PROVE HostMoves
    BY <1>2, <2>4 DEF RulesSave, Clean, Usable
  <2>5. ASSUME NEW t, NEW train, NEW holdout, NEW ok, TreesSave(t, train, holdout, ok) PROVE HostMoves
    <3>1. slot = "open" /\ \E record : Saves(t, record)
      BY <2>5 DEF TreesSave, Clean, Usable
    <3>2. QED
      BY <1>2, <3>1
  <2>6. ASSUME NEW t, NEW e, NEW payload, NEW holdout, NEW ok,
               AddCounterexample(t, e, payload, holdout, ok)
        PROVE  HostMoves
    <3>1. slot = "open" /\ \E record : Saves(t, record)
      BY <2>6 DEF AddCounterexample, Clean, Usable
    <3>2. QED
      BY <1>2, <3>1
  <2>7. ASSUME NEW t, NEW prior, Rollback(t, prior) PROVE HostMoves
    <3>1. slot = "open" /\ \E record : Saves(t, record)
      BY <2>7 DEF Rollback, Clean, Usable
    <3>2. QED
      BY <1>2, <3>1
  <2>8. CASE UNCHANGED LRvars
    BY <2>8 DEF LRvars, storeVars, HostMoves
  <2>9. QED
    BY <1>3, <2>1, <2>2, <2>3, <2>4, <2>5, <2>6, <2>7, <2>8 DEF LRNext
<1>4. LRInv /\ [LRNext]_LRvars
        => [HostStore(SavedVersions)!AbsNext]_(HostStore(SavedVersions)!absVars)
  <2> SUFFICES ASSUME LRInv, [LRNext]_LRvars
               PROVE  [HostStore(SavedVersions)!AbsNext]_(HostStore(SavedVersions)!absVars)
    OBVIOUS
  <2>1. HostOK(SavedVersions) /\ HostOK(SavedVersions)'
    BY LearnedStep DEF LRInv
  <2>2. HostMoves
    BY <1>3
  <2>3. QED
    BY <1>1, <2>1, <2>2, HostRefines
<1>5. LRInit => HostStore(SavedVersions)!AbsInit
  BY <1>1, HostInitial DEF LRInit
<1>6. QED
  BY <1>4, <1>5, LearnedInvariant, PTL DEF LRSpec, HostStore!AbsSpec

=============================================================================
