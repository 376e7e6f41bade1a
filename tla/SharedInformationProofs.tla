---------------------- MODULE SharedInformationProofs ----------------------
(***************************************************************************)
(* Theorems about SharedInformation, for any VMs, times and evidence and   *)
(* whatever the bounds.                                                    *)
(***************************************************************************)
EXTENDS SharedInformation, TLAPS, WellFoundedInduction

-----------------------------------------------------------------------------
(* The replay.  Observations are numbered as they come; such a sequence    *)
(* has an order, because the order of a longer one is made by inserting    *)
(* the new observation into the order of the shorter one.                  *)

Sorts(p, s) ==
    /\ p \in Bijection(DOMAIN s, DOMAIN s)
    /\ \A i, j \in DOMAIN s : i < j => Earlier(s[p[i]], s[p[j]])

Numbered(s) == \A i \in DOMAIN s : s[i].sequence = i
NoTimeTwice(s) == \A i, j \in DOMAIN s : s[i].time = s[j].time => i = j

LEMMA Smallest ==
  ASSUME NEW S, S \subseteq Nat, S # {}
  PROVE  Min(S) \in S /\ \A x \in S : Min(S) <= x
<1>1. PICK m \in S : \A x \in S : ~(<<x, m>> \in OpToRel(<, Nat))
  BY NatLessThanWellFounded, WFMin
<1>2. ASSUME NEW x \in S PROVE m <= x
  <2>1. x \in Nat /\ m \in Nat
    OBVIOUS
  <2>2. ~(x < m)
    BY <1>1, <2>1 DEF OpToRel
  <2>3. QED
    BY <2>1, <2>2
<1>3. QED
  BY <1>2 DEF Min

LEMMA IsBijection ==
  ASSUME NEW n \in Nat, NEW p
  PROVE  p \in Bijection(1 .. n, 1 .. n) <=>
           /\ p \in [1 .. n -> 1 .. n]
           /\ \A i, j \in 1 .. n : p[i] = p[j] => i = j
           /\ \A k \in 1 .. n : \E i \in 1 .. n : p[i] = k
BY DEF Bijection, Injection, Surjection, IsInjective

LEMMA ObservationFields ==
  ASSUME NEW s \in Seq(Observation), NEW i \in DOMAIN s
  PROVE  /\ s[i] \in Observation
         /\ s[i].time \in Times /\ s[i].time \in Nat
         /\ s[i].sequence \in Nat /\ s[i].evidence \in Evidence
<1>1. s[i] \in Observation
  OBVIOUS
<1>2. QED
  BY <1>1, Bounds DEF Observation

LEMMA OrderGrows ==
  ASSUME NEW s \in Seq(Observation), Numbered(s), NEW p, Sorts(p, s),
         NEW x \in Observation, x.sequence = Len(s) + 1
  PROVE  \E q : Sorts(q, Append(s, x))
<1> DEFINE n == Len(s)
           t == Append(s, x)
           After == {i \in 1 .. n : x.time < s[p[i]].time}
           k == IF After = {} THEN n + 1 ELSE Min(After)
           q == [i \in 1 .. n + 1 |->
                   IF i < k THEN p[i] ELSE IF i = k THEN n + 1 ELSE p[i - 1]]
<1>1. /\ n \in Nat /\ DOMAIN s = 1 .. n /\ DOMAIN t = 1 .. n + 1
      /\ t[n + 1] = x /\ \A i \in 1 .. n : t[i] = s[i]
  OBVIOUS
<1>2. /\ p \in [1 .. n -> 1 .. n]
      /\ \A i, j \in 1 .. n : p[i] = p[j] => i = j
      /\ \A m \in 1 .. n : \E i \in 1 .. n : p[i] = m
  BY <1>1, IsBijection DEF Sorts
<1>3. x.time \in Nat /\ x.sequence = n + 1
  BY Bounds DEF Observation
<1>4. \A i \in 1 .. n :
         /\ p[i] \in 1 .. n
         /\ s[p[i]].time \in Nat /\ s[p[i]].sequence \in 1 .. n
  <2> TAKE i \in 1 .. n
  <2>1. p[i] \in DOMAIN s
    BY <1>1, <1>2
  <2>2. s[p[i]].time \in Nat /\ s[p[i]].sequence = p[i]
    BY <2>1, ObservationFields DEF Numbered
  <2>3. QED
    BY <1>1, <2>1, <2>2
<1>5. /\ k \in 1 .. n + 1
      /\ \A i \in 1 .. n : i < k => ~(x.time < s[p[i]].time)
      /\ k \in 1 .. n => x.time < s[p[k]].time
  <2>1. CASE After = {}
    BY <1>1, <2>1
  <2>2. CASE After # {}
    <3>1. Min(After) \in After /\ \A i \in After : Min(After) <= i
      <4> HIDE DEF k
      <4>1. After \subseteq Nat
        BY <1>1
      <4>2. QED
        BY <4>1, <2>2, Smallest
    <3>2. k \in After /\ \A i \in After : k <= i
      BY <2>2, <3>1
    <3> HIDE DEF k
    <3>3. k \in 1 .. n /\ x.time < s[p[k]].time
      BY <3>2
    <3>4. ASSUME NEW i \in 1 .. n, i < k PROVE i \notin After
      BY <3>2, <3>3, <3>4
    <3>5. QED
      BY <1>1, <3>3, <3>4
  <2>3. QED
    BY <2>1, <2>2
<1> HIDE DEF k
<1>6. \A i \in 1 .. n : i < k => Earlier(s[p[i]], x)
  BY <1>3, <1>4, <1>5 DEF Earlier
<1>7. \A i, j \in 1 .. n : i < j => Earlier(s[p[i]], s[p[j]])
  BY <1>1 DEF Sorts
<1>8. \A i \in 1 .. n : i >= k => Earlier(x, s[p[i]])
  <2> SUFFICES ASSUME NEW i \in 1 .. n, i >= k PROVE x.time < s[p[i]].time
    BY DEF Earlier
  <2>1. k \in 1 .. n
    BY <1>1, <1>5
  <2>2. i = k \/ Earlier(s[p[k]], s[p[i]])
    BY <1>1, <1>7, <2>1
  <2>3. s[p[k]].time <= s[p[i]].time
    BY <1>4, <2>1, <2>2 DEF Earlier
  <2>4. QED
    BY <1>3, <1>4, <1>5, <2>1, <2>3
<1>9. \A i \in 1 .. n + 1 :
         /\ i < k => i \in 1 .. n /\ q[i] = p[i] /\ t[q[i]] = s[p[i]]
         /\ i = k => q[i] = n + 1 /\ t[q[i]] = x
         /\ i > k => i - 1 \in 1 .. n /\ q[i] = p[i - 1] /\ t[q[i]] = s[p[i - 1]]
  <2> TAKE i \in 1 .. n + 1
  <2>1. CASE i < k
    BY <1>1, <1>2, <1>5, <2>1
  <2>2. CASE i = k
    BY <1>1, <1>5, <2>2
  <2>3. CASE i > k
    <3>1. i - 1 \in 1 .. n
      BY <1>1, <1>5, <2>3
    <3>2. q[i] = p[i - 1]
      BY <1>1, <1>5, <2>3
    <3>3. p[i - 1] \in 1 .. n
      BY <1>4, <3>1
    <3>4. t[q[i]] = s[p[i - 1]]
      BY <1>1, <3>2, <3>3
    <3> HIDE DEF q, t
    <3>5. QED
      BY <1>1, <1>5, <2>3, <3>1, <3>2, <3>4
  <2>4. QED
    BY <1>1, <1>5, <2>1, <2>2, <2>3
<1>10. q \in Bijection(1 .. n + 1, 1 .. n + 1)
  <2>1. q \in [1 .. n + 1 -> 1 .. n + 1]
    <3>1. ASSUME NEW i \in 1 .. n + 1 PROVE q[i] \in 1 .. n + 1
      <4> HIDE DEF q
      <4>1. i < k \/ i = k \/ i > k
        BY <1>1, <1>5
      <4>2. \A m \in 1 .. n : p[m] \in 1 .. n + 1
        BY <1>1, <1>4
      <4>3. n + 1 \in 1 .. n + 1
        BY <1>1
      <4>4. QED
        BY <1>9, <4>1, <4>2, <4>3
    <3>2. QED
      BY <3>1
  <2>2. ASSUME NEW i \in 1 .. n + 1, NEW j \in 1 .. n + 1, q[i] = q[j]
        PROVE  i = j
    <3>1. \A m \in 1 .. n : p[m] \in 1 .. n /\ p[m] # n + 1
      BY <1>1, <1>2
    <3> HIDE DEF q
    <3>2. CASE i = k \/ j = k
      BY <1>1, <1>5, <1>9, <2>2, <3>1, <3>2
    <3>3. CASE i < k /\ j < k
      BY <1>2, <1>9, <2>2, <3>3
    <3>4. CASE i > k /\ j > k
      <4>1. PICK a \in 1 .. n : a = i - 1 /\ q[i] = p[a]
        BY <1>9, <3>4
      <4>2. PICK b \in 1 .. n : b = j - 1 /\ q[j] = p[b]
        BY <1>9, <3>4
      <4>3. a = b
        BY <1>2, <2>2, <4>1, <4>2
      <4>4. QED
        BY <1>1, <4>1, <4>2, <4>3
    <3>5. CASE i < k /\ j > k
      <4>1. p[i] = p[j - 1] /\ i \in 1 .. n /\ j - 1 \in 1 .. n
        BY <1>9, <2>2, <3>5
      <4>2. QED
        BY <1>1, <1>2, <1>5, <4>1, <3>5
    <3>6. CASE i > k /\ j < k
      <4>1. p[j] = p[i - 1] /\ j \in 1 .. n /\ i - 1 \in 1 .. n
        BY <1>9, <2>2, <3>6
      <4>2. QED
        BY <1>1, <1>2, <1>5, <4>1, <3>6
    <3>7. QED
      BY <1>1, <1>5, <3>2, <3>3, <3>4, <3>5, <3>6
  <2>3. ASSUME NEW m \in 1 .. n + 1 PROVE \E i \in 1 .. n + 1 : q[i] = m
    <3>1. CASE m = n + 1
      BY <1>5, <1>9, <3>1
    <3>2. CASE m # n + 1
      <4>1. PICK i \in 1 .. n : p[i] = m
        BY <1>1, <1>2, <3>2
      <4>2. CASE i < k
        <5>1. i \in 1 .. n + 1
          BY <1>1
        <5>2. QED
          BY <1>9, <4>1, <4>2, <5>1
      <4>3. CASE i >= k
        <5>1. i + 1 \in 1 .. n + 1 /\ i + 1 > k /\ (i + 1) - 1 = i
          BY <1>1, <1>5, <4>3
        <5>2. q[i + 1] = m
          BY <1>9, <4>1, <5>1
        <5>3. QED
          BY <5>1, <5>2
      <4>4. QED
        BY <1>1, <1>5, <4>2, <4>3
    <3>3. QED
      BY <3>1, <3>2
  <2> HIDE DEF q
  <2>4. n + 1 \in Nat
    BY <1>1
  <2>5. QED
    BY <2>1, <2>2, <2>3, <2>4, IsBijection
<1>11. ASSUME NEW i \in 1 .. n + 1, NEW j \in 1 .. n + 1, i < j
       PROVE  Earlier(t[q[i]], t[q[j]])
  <2> HIDE DEF q, t
  <2>1. CASE i < k /\ j < k
    BY <1>7, <1>9, <1>11, <2>1
  <2>2. CASE i < k /\ j = k
    BY <1>6, <1>9, <2>2
  <2>3. CASE i < k /\ j > k
    <3>1. j - 1 \in 1 .. n /\ i \in 1 .. n /\ i < j - 1
      BY <1>1, <1>5, <1>9, <2>3
    <3>2. QED
      BY <1>7, <1>9, <2>3, <3>1
  <2>4. CASE i = k
    <3>1. j > k /\ j - 1 \in 1 .. n /\ j - 1 >= k
      BY <1>1, <1>5, <1>9, <1>11, <2>4
    <3>2. QED
      BY <1>8, <1>9, <2>4, <3>1
  <2>5. CASE i > k
    <3>1. j > k /\ i - 1 \in 1 .. n /\ j - 1 \in 1 .. n /\ i - 1 < j - 1
      BY <1>1, <1>5, <1>9, <1>11, <2>5
    <3>2. QED
      BY <1>7, <1>9, <2>5, <3>1
  <2>6. QED
    BY <1>1, <1>5, <1>11, <2>1, <2>2, <2>3, <2>4, <2>5
<1>12. Sorts(q, t)
  BY <1>1, <1>10, <1>11 DEF Sorts
<1>13. QED
  BY <1>12

(* What Replay returns of numbered observations, each of another time. *)
LEMMA ReplayFacts ==
  ASSUME NEW s \in Seq(Observation), NEW p, Sorts(p, s), NoTimeTwice(s)
  PROVE  /\ Replay(s) \in Seq(Observation)
         /\ Len(Replay(s)) = Len(s)
         /\ Range(Replay(s)) = Range(s)
         /\ \A i, j \in DOMAIN Replay(s) :
                i < j => Replay(s)[i].time < Replay(s)[j].time
<1> DEFINE n == Len(s)
           o == Order(s)
<1>1. n \in Nat /\ DOMAIN s = 1 .. n /\ \A i \in 1 .. n : s[i] \in Observation
  OBVIOUS
<1>2. Sorts(o, s)
  BY DEF Order, Sorts
<1>3. /\ o \in [1 .. n -> 1 .. n]
      /\ \A i, j \in 1 .. n : o[i] = o[j] => i = j
      /\ \A m \in 1 .. n : \E i \in 1 .. n : o[i] = m
  BY <1>1, <1>2, IsBijection DEF Sorts
<1>4. Replay(s) = [i \in 1 .. n |-> s[o[i]]]
  BY <1>1 DEF Replay
<1> HIDE DEF o
<1>5. Replay(s) \in Seq(Observation) /\ Len(Replay(s)) = n /\ DOMAIN Replay(s) = 1 .. n
  BY <1>1, <1>3, <1>4
<1>6. Range(Replay(s)) = Range(s)
  BY <1>1, <1>3, <1>4 DEF Range
<1>7. ASSUME NEW i \in 1 .. n, NEW j \in 1 .. n, i < j
      PROVE  Replay(s)[i].time < Replay(s)[j].time
  <2>1. Earlier(s[o[i]], s[o[j]])
    BY <1>1, <1>2, <1>7 DEF Sorts
  <2>2. o[i] \in 1 .. n /\ o[j] \in 1 .. n /\ o[i] # o[j]
    <3>1. i # j
      BY <1>1, <1>7
    <3>2. QED
      BY <1>3, <3>1
  <2>3. s[o[i]].time # s[o[j]].time
    BY <1>1, <2>2 DEF NoTimeTwice
  <2>4. s[o[i]].time \in Nat /\ s[o[j]].time \in Nat
    BY <1>1, <2>2, ObservationFields
  <2>5. QED
    BY <1>4, <2>1, <2>3, <2>4 DEF Earlier
<1>8. QED
  BY <1>5, <1>6, <1>7

-----------------------------------------------------------------------------
(* The inductive invariant.  A VM that builds holds the first observations *)
(* as they were published, none of the time it observes: so if their       *)
(* number has not changed there is none of that time at all.               *)

BasesHold ==
    \A v \in VMs : pc[v] = "building" =>
        /\ Len(call[v].base) <= Len(observations)
        /\ \A i \in DOMAIN call[v].base :
              /\ call[v].base[i] = observations[i]
              /\ call[v].base[i].time # call[v].time

Orderable == \E p : Sorts(p, observations)
Current == versions = Replay(observations)
AllAccepted == accepted = {Plain(observations[i]) : i \in DOMAIN observations}

Inv ==
    /\ TypeOK
    /\ Numbered(observations)
    /\ OneEvidencePerTime
    /\ BasesHold
    /\ Orderable
    /\ Current
    /\ AllAccepted

Places == {"idle", "reading", "building", "awake", "asleep", "ended"}

-----------------------------------------------------------------------------
(* A call is typed whatever the other VMs do. *)

LEMMA OtherCalls ==
  ASSUME TypeOK, NEW v \in VMs, Tokens \subseteq Tokens',
         \A u \in VMs \ {v} :
             /\ call'[u] = call[u]
             /\ pc'[u] = pc[u] \/ (pc[u] = "asleep" /\ pc'[u] = "awake"),
         CallOK(v)'
  PROVE  \A u \in VMs : CallOK(u)'
<1>1. ASSUME NEW u \in VMs, u # v PROVE CallOK(u)'
  <2>1. CallOK(u) /\ call'[u] = call[u]
    BY <1>1 DEF TypeOK
  <2>2. CASE pc'[u] = pc[u]
    BY <2>1, <2>2 DEF CallOK
  <2>3. CASE pc[u] = "asleep" /\ pc'[u] = "awake"
    BY <2>1, <2>3 DEF CallOK
  <2>4. QED
    BY <1>1, <2>2, <2>3
<1>2. QED
  BY <1>1

(* A call that is over leaves nothing to type. *)
LEMMA CallOver ==
  ASSUME TypeOK, NEW v \in VMs, Ends(v) \/ Returns(v), UNCHANGED tokens
  PROVE  /\ pc' \in [VMs -> Places] /\ DOMAIN call' = VMs
         /\ pc'[v] \in {"idle", "ended"}
         /\ \A u \in VMs \ {v} : pc'[u] = pc[u] /\ call'[u] = call[u]
         /\ \A u \in VMs : CallOK(u)'
<1>1. /\ pc' \in [VMs -> Places] /\ DOMAIN call' = VMs
      /\ pc'[v] \in {"idle", "ended"}
      /\ \A u \in VMs \ {v} : pc'[u] = pc[u] /\ call'[u] = call[u]
  BY DEF TypeOK, Ends, Returns, Places
<1>2. CallOK(v)'
  BY <1>1 DEF CallOK
<1>3. Tokens \subseteq Tokens'
  BY DEF tokens, Tokens
<1>4. QED
  BY <1>1, <1>2, <1>3, OtherCalls

(* A step that ends a call, or only reads, keeps the invariant. *)
LEMMA QuietStep ==
  ASSUME Inv, UNCHANGED <<commit, tokens, cancelled>>,
         answer' \in Seq(Observation),
         pc' \in [VMs -> Places], DOMAIN call' = VMs,
         \A u \in VMs : CallOK(u)',
         \A u \in VMs : pc'[u] = "building" =>
             /\ pc[u] = "building"
             /\ call'[u] = call[u]
  PROVE  Inv'
<1>1. TypeOK'
  BY DEF Inv, TypeOK, commit, tokens, Tokens, Places
<1>2. BasesHold'
  BY DEF Inv, BasesHold, commit
<1>3. QED
  BY <1>1, <1>2 DEF Inv, commit, Numbered, OneEvidencePerTime, Orderable, Sorts,
                    Current, AllAccepted

LEMMA OverStep ==
  ASSUME Inv, NEW v \in VMs, Ends(v) \/ Returns(v),
         UNCHANGED <<commit, tokens, cancelled>>, answer' \in Seq(Observation)
  PROVE  Inv'
<1>1. TypeOK /\ UNCHANGED tokens
  BY DEF Inv
<1>2. QED
  BY <1>1, CallOver, QuietStep

(* The evidence a VM observes again was accepted before. *)
LEMMA KnownIsAccepted ==
  ASSUME Inv, NEW v \in VMs, At(v, "reading"), Known(v)
  PROVE  Plain(call[v]) \in accepted
<1>1. PICK x \in Range(observations) :
        x.time = call[v].time /\ x.evidence = call[v].evidence
  BY DEF Known, SameTime
<1>2. Plain(x) = Plain(call[v])
  BY <1>1 DEF Plain
<1>3. QED
  BY <1>1, <1>2 DEF Inv, AllAccepted, Range

(* UpTo cuts the versions short. *)
LEMMA UpToFacts ==
  ASSUME Inv, NEW t \in Nat
  PROVE  /\ UpTo(t) \in Seq(Observation)
         /\ \E n \in 0 .. Len(versions) :
               /\ DOMAIN UpTo(t) = 1 .. n
               /\ \A i \in 1 .. n : UpTo(t)[i] = versions[i] /\ versions[i].time <= t
               /\ \A i \in DOMAIN versions : i > n => versions[i].time > t
<1>1. versions \in Seq(Observation) /\ DOMAIN versions = 1 .. Len(versions)
  BY DEF Inv, TypeOK
<1>2. \A i \in DOMAIN versions : versions[i].time \in Nat
  BY <1>1, ObservationFields
<1>3. \A i, j \in DOMAIN versions : i < j => versions[i].time < versions[j].time
  <2>1. PICK p : Sorts(p, observations)
    BY DEF Inv, Orderable
  <2>2. observations \in Seq(Observation) /\ NoTimeTwice(observations)
    BY DEF Inv, TypeOK, OneEvidencePerTime, NoTimeTwice
  <2>3. QED
    BY <2>1, <2>2, ReplayFacts DEF Inv, Current
<1>4. CASE Later(t) = {}
  <2>1. \A i \in 1 .. Len(versions) : versions[i].time <= t
    BY <1>1, <1>2, <1>4 DEF Later
  <2>2. UpTo(t) = versions
    BY <1>4 DEF UpTo
  <2>3. /\ Len(versions) \in 0 .. Len(versions)
        /\ \A i \in DOMAIN versions : ~(i > Len(versions))
    BY <1>1
  <2> DEFINE n == Len(versions)
  <2>4. /\ n \in 0 .. Len(versions)
        /\ DOMAIN UpTo(t) = 1 .. n
        /\ \A i \in 1 .. n : UpTo(t)[i] = versions[i] /\ versions[i].time <= t
        /\ \A i \in DOMAIN versions : i > n => versions[i].time > t
    BY <1>1, <2>1, <2>2, <2>3
  <2> HIDE DEF n
  <2>5. QED
    BY <1>1, <2>2, <2>4
<1>5. CASE Later(t) # {}
  <2>1. PICK m \in Nat : m = Min(Later(t)) /\ m \in Later(t) /\ \A i \in Later(t) : m <= i
    <3>1. Later(t) \subseteq Nat
      BY <1>1 DEF Later
    <3>2. QED
      BY <1>5, <3>1, Smallest
  <2>2. m \in 1 .. Len(versions) /\ versions[m].time > t
    BY <1>1, <2>1 DEF Later
  <2>3. UpTo(t) = SubSeq(versions, 1, m - 1)
    BY <1>5, <2>1 DEF UpTo
  <2>4. /\ UpTo(t) \in Seq(Observation) /\ DOMAIN UpTo(t) = 1 .. m - 1
        /\ \A i \in 1 .. m - 1 : UpTo(t)[i] = versions[i]
    <3> DEFINE u == SubSeq(versions, 1, m - 1)
    <3>1. /\ u = [i \in 1 .. m - 1 |-> versions[i]]
          /\ m - 1 \in Nat /\ \A i \in 1 .. m - 1 : versions[i] \in Observation
      BY <1>1, <2>2
    <3>2. u \in Seq(Observation)
      BY <3>1
    <3>3. QED
      BY <2>3, <3>1, <3>2
  <2>5. ASSUME NEW i \in 1 .. m - 1 PROVE versions[i].time <= t
    <3>1. i \in DOMAIN versions /\ i \notin Later(t)
      BY <1>1, <2>1, <2>2
    <3>2. QED
      BY <1>2, <3>1 DEF Later
  <2>6. ASSUME NEW i \in DOMAIN versions, i > m - 1 PROVE versions[i].time > t
    <3>1. CASE i = m
      BY <2>2, <3>1
    <3>2. CASE i > m
      <4>1. versions[m].time < versions[i].time
        BY <1>1, <1>3, <2>2, <3>2
      <4>2. QED
        BY <1>1, <1>2, <2>2, <4>1
    <3>3. QED
      BY <1>1, <2>2, <2>6, <3>1, <3>2
  <2>7. m - 1 \in 0 .. Len(versions)
    BY <1>1, <2>2
  <2>8. QED
    BY <2>4, <2>5, <2>6, <2>7
<1>6. QED
  BY <1>4, <1>5

-----------------------------------------------------------------------------
(* The steps that begin, continue or suspend a call. *)

LEMMA ObserveStep ==
  ASSUME Inv, NEW v \in VMs, NEW c \in Tokens, NEW t \in Times, NEW e \in Evidence,
         Observe(v, c, t, e)
  PROVE  Inv'
<1>1. /\ pc' \in [VMs -> Places] /\ DOMAIN call' = VMs /\ pc'[v] = "reading"
      /\ call'[v] = [token |-> c, time |-> t, evidence |-> e, tries |-> 0]
      /\ \A u \in VMs \ {v} : pc'[u] = pc[u] /\ call'[u] = call[u]
  BY DEF Inv, TypeOK, Observe, Places
<1>2. Tokens' = Tokens /\ c \in Nat
  BY DEF Inv, TypeOK, Observe, tokens, Tokens
<1>3. CallOK(v)'
  <2>1. 0 \in Tries
    BY Bounds DEF Tries
  <2>2. QED
    BY <1>1, <1>2, <2>1 DEF CallOK, ObserveCall
<1>4. \A u \in VMs : CallOK(u)'
  BY <1>1, <1>2, <1>3, OtherCalls DEF Inv
<1>5. QED
  <2>1. UNCHANGED <<commit, tokens, cancelled>> /\ answer' \in Seq(Observation)
    BY DEF Observe, Inv, TypeOK
  <2>2. QED
    BY <1>1, <1>4, <2>1, QuietStep

LEMMA WaitStep ==
  ASSUME Inv, NEW v \in VMs, NEW c \in Tokens, NEW after \in 0 .. counter,
         NEW timed \in BOOLEAN, Wait(v, c, after, timed)
  PROVE  Inv'
<1>1. /\ pc' \in [VMs -> Places] /\ DOMAIN call' = VMs /\ pc'[v] = "awake"
      /\ call'[v] = [token |-> c, after |-> after, timed |-> timed]
      /\ \A u \in VMs \ {v} : pc'[u] = pc[u] /\ call'[u] = call[u]
  BY DEF Inv, TypeOK, Wait, Places
<1>2. Tokens' = Tokens /\ c \in Nat /\ after \in Nat
  BY DEF Inv, TypeOK, Wait, tokens, Tokens
<1>3. CallOK(v)'
  BY <1>1, <1>2 DEF CallOK, WaitCall
<1>4. \A u \in VMs : CallOK(u)'
  BY <1>1, <1>2, <1>3, OtherCalls DEF Inv
<1>5. QED
  <2>1. UNCHANGED <<commit, tokens, cancelled>> /\ answer' \in Seq(Observation)
    BY DEF Wait, Inv, TypeOK
  <2>2. QED
    BY <1>1, <1>4, <2>1, QuietStep

LEMMA FallsAsleepStep ==
  ASSUME Inv, NEW v \in VMs, FallsAsleep(v)
  PROVE  Inv'
<1>1. /\ pc' \in [VMs -> Places] /\ DOMAIN call' = VMs /\ pc'[v] = "asleep"
      /\ pc[v] = "awake" /\ call' = call
      /\ \A u \in VMs \ {v} : pc'[u] = pc[u]
  BY DEF Inv, TypeOK, FallsAsleep, Places, At
<1>2. Tokens' = Tokens
  BY DEF FallsAsleep, tokens, Tokens
<1>3. CallOK(v)'
  <2>1. CallOK(v)
    BY DEF Inv, TypeOK
  <2>2. QED
    BY <1>1, <1>2, <2>1 DEF CallOK
<1>4. \A u \in VMs : CallOK(u)'
  BY <1>1, <1>2, <1>3, OtherCalls DEF Inv
<1>5. QED
  <2>1. UNCHANGED <<commit, tokens, cancelled>> /\ answer' \in Seq(Observation)
    BY DEF FallsAsleep, Inv, TypeOK
  <2>2. QED
    BY <1>1, <1>4, <2>1, QuietStep

LEMMA StartsOverStep ==
  ASSUME Inv, NEW v \in VMs, StartsOver(v)
  PROVE  Inv'
<1>1. UNCHANGED <<commit, tokens, cancelled>> /\ answer' \in Seq(Observation)
  BY DEF StartsOver, Inv, TypeOK
<1>2. CASE LastAttempt(v)
  BY <1>1, <1>2, OverStep DEF StartsOver
<1>3. CASE ~LastAttempt(v)
  <2>1. /\ pc' \in [VMs -> Places] /\ DOMAIN call' = VMs /\ pc'[v] = "reading"
        /\ call'[v] = [time |-> call[v].time, evidence |-> call[v].evidence,
                        token |-> call[v].token, tries |-> call[v].tries + 1]
        /\ pc[v] = "building"
        /\ \A u \in VMs \ {v} : pc'[u] = pc[u] /\ call'[u] = call[u]
    BY <1>3 DEF Inv, TypeOK, StartsOver, Places, At
  <2>2. Tokens' = Tokens
    BY DEF StartsOver, tokens, Tokens
  <2>3. CallOK(v)'
    <3>1. CallOK(v)
      BY DEF Inv, TypeOK
    <3>2. call[v] \in BuildCall /\ call[v].token \in Tokens
      BY <2>1, <3>1 DEF CallOK
    <3>3. call[v].tries + 1 \in Tries
      BY <1>3, <3>2, Bounds DEF BuildCall, Tries, LastAttempt
    <3>4. call'[v] \in ObserveCall /\ call'[v].token \in Tokens'
      BY <2>1, <2>2, <3>2, <3>3 DEF BuildCall, ObserveCall
    <3>5. QED
      BY <2>1, <3>4 DEF CallOK
  <2>4. \A u \in VMs : CallOK(u)'
    BY <2>1, <2>2, <2>3, OtherCalls DEF Inv
  <2>5. QED
    BY <1>1, <2>1, <2>4, QuietStep
<1>4. QED
  BY <1>2, <1>3

(* The VM copies the observations, none of them of the time it observes. *)
LEMMA ReadBaseStep ==
  ASSUME Inv, NEW v \in VMs, ReadBase(v)
  PROVE  Inv'
<1>1. /\ pc' \in [VMs -> Places] /\ DOMAIN call' = VMs /\ pc'[v] = "building"
      /\ call'[v] = [time |-> call[v].time, evidence |-> call[v].evidence,
                      token |-> call[v].token, tries |-> call[v].tries,
                      revision |-> revision, epoch |-> epoch, base |-> observations]
      /\ pc[v] = "reading"
      /\ \A u \in VMs \ {v} : pc'[u] = pc[u] /\ call'[u] = call[u]
  BY DEF Inv, TypeOK, ReadBase, Places, At
<1>2. /\ UNCHANGED <<commit, tokens, cancelled, answer>> /\ Tokens' = Tokens
      /\ observations' = observations
  BY DEF ReadBase, commit, tokens, Tokens
<1>3. CallOK(v)'
  <2>1. CallOK(v) /\ revision \in Nat /\ epoch \in Nat /\ observations \in Seq(Observation)
    BY DEF Inv, TypeOK
  <2>2. call[v] \in ObserveCall /\ call[v].token \in Tokens
    BY <1>1, <2>1 DEF CallOK
  <2>3. call'[v] \in BuildCall /\ call'[v].token \in Tokens'
    BY <1>1, <1>2, <2>1, <2>2 DEF BuildCall, ObserveCall
  <2>4. QED
    BY <1>1, <2>3 DEF CallOK
<1>4. \A u \in VMs : CallOK(u)'
  BY <1>1, <1>2, <1>3, OtherCalls DEF Inv
<1>5. TypeOK'
  BY <1>1, <1>2, <1>4 DEF Inv, TypeOK, commit, tokens, Tokens, Places
<1>6. BasesHold'
  <2>1. \A i \in DOMAIN observations : observations[i].time # call[v].time
    BY DEF ReadBase, SameTime, Range
  <2>2. Len(observations) <= Len(observations)
    BY DEF Inv, TypeOK
  <2>3. ASSUME NEW u \in VMs, pc'[u] = "building"
        PROVE  /\ Len(call'[u].base) <= Len(observations)
               /\ \A i \in DOMAIN call'[u].base :
                     /\ call'[u].base[i] = observations[i]
                     /\ call'[u].base[i].time # call'[u].time
    <3>1. CASE u = v
      BY <1>1, <2>1, <2>2, <3>1
    <3>2. CASE u # v
      BY <1>1, <2>3, <3>2 DEF Inv, BasesHold
    <3>3. QED
      BY <3>1, <3>2
  <2>4. QED
    BY <1>2, <2>3 DEF BasesHold
<1>7. QED
  BY <1>2, <1>5, <1>6 DEF Inv, commit, Numbered, OneEvidencePerTime, Orderable, Sorts,
                          Current, AllAccepted

(* A VM publishes only onto the observations it copied. *)
LEMMA PublishFacts ==
  ASSUME Inv, NEW v \in VMs, Publish(v)
  PROVE  /\ call[v].base = observations
         /\ Pending(v) \in Observation
         /\ Pending(v).sequence = Len(observations) + 1
         /\ Plain(Pending(v)) = Plain(call[v])
         /\ \A i \in DOMAIN observations : observations[i].time # Pending(v).time
<1>1. pc[v] = "building" /\ Len(observations) = Len(call[v].base)
  BY DEF Publish, At, Stale
<1>2. call[v] \in BuildCall /\ observations \in Seq(Observation)
  BY <1>1 DEF Inv, TypeOK, CallOK
<1>3. call[v].base \in Seq(Observation) /\ call[v].time \in Times /\ call[v].evidence \in Evidence
  BY <1>2 DEF BuildCall
<1>4. /\ \A i \in DOMAIN call[v].base : call[v].base[i] = observations[i]
      /\ \A i \in DOMAIN call[v].base : call[v].base[i].time # call[v].time
  BY <1>1 DEF Inv, BasesHold
<1>5. call[v].base = observations
  BY <1>1, <1>2, <1>3, <1>4
<1>6. Pending(v) \in Observation
  BY <1>2, <1>3 DEF Pending, Observation
<1>7. QED
  BY <1>4, <1>5, <1>6 DEF Pending, Plain

LEMMA PublishStep ==
  ASSUME Inv, NEW v \in VMs, Publish(v)
  PROVE  Inv'
<1> DEFINE x == Pending(v)
           n == Len(observations)
<1>1. /\ x \in Observation /\ x.sequence = n + 1 /\ Plain(x) = Plain(call[v])
      /\ \A i \in DOMAIN observations : observations[i].time # x.time
      /\ versions' = Replay(observations')
      /\ observations' = Append(observations, x)
      /\ accepted' = accepted \cup {Plain(x)}
  BY PublishFacts DEF Publish
<1>2. /\ observations \in Seq(Observation) /\ n \in Nat /\ DOMAIN observations = 1 .. n
  BY DEF Inv, TypeOK
<1> HIDE DEF x
<1>3. /\ observations' \in Seq(Observation) /\ DOMAIN observations' = 1 .. n + 1
      /\ Len(observations') = n + 1 /\ observations'[n + 1] = x
      /\ \A i \in 1 .. n : observations'[i] = observations[i]
  BY <1>1, <1>2
<1>4. Numbered(observations)'
  <2>1. \A i \in 1 .. n : observations[i].sequence = i
    BY <1>2 DEF Inv, Numbered
  <2>2. ASSUME NEW i \in 1 .. n + 1 PROVE observations'[i].sequence = i
    <3>1. i \in 1 .. n \/ i = n + 1
      BY <1>2
    <3>2. QED
      BY <1>1, <1>3, <2>1, <3>1
  <2>3. QED
    BY <1>3, <2>2 DEF Numbered
<1>5. OneEvidencePerTime'
  <2>1. \A i, j \in 1 .. n : observations[i].time = observations[j].time => i = j
    BY <1>2 DEF Inv, OneEvidencePerTime
  <2>2. ASSUME NEW i \in 1 .. n + 1, NEW j \in 1 .. n + 1,
               observations'[i].time = observations'[j].time
        PROVE  i = j
    <3>1. (i \in 1 .. n \/ i = n + 1) /\ (j \in 1 .. n \/ j = n + 1)
      BY <1>2
    <3>2. QED
      BY <1>1, <1>2, <1>3, <2>1, <2>2, <3>1
  <2>3. QED
    BY <1>3, <2>2 DEF OneEvidencePerTime
<1>6. Orderable'
  <2>1. PICK p : Sorts(p, observations)
    BY DEF Inv, Orderable
  <2>2. \E q : Sorts(q, Append(observations, x))
    BY <1>1, <1>2, <2>1, OrderGrows DEF Inv
  <2>3. QED
    BY <1>1, <2>2 DEF Orderable, Sorts
<1>7. versions' \in Seq(Observation)
  <2>1. PICK q : Sorts(q, observations')
    BY <1>6 DEF Orderable, Sorts
  <2>2. NoTimeTwice(observations')
    BY <1>5 DEF OneEvidencePerTime, NoTimeTwice
  <2>3. QED
    BY <1>1, <1>3, <2>1, <2>2, ReplayFacts
<1>8. AllAccepted'
  <2>1. accepted = {Plain(observations[i]) : i \in 1 .. n}
    BY <1>2 DEF Inv, AllAccepted
  <2>2. 1 .. n + 1 = (1 .. n) \cup {n + 1}
    BY <1>2
  <2>3. accepted' = {Plain(observations'[i]) : i \in 1 .. n + 1}
    BY <1>1, <1>3, <2>1, <2>2
  <2>4. QED
    BY <1>3, <2>3 DEF AllAccepted, Plain
<1>9. Current'
  BY <1>1 DEF Current, Replay, Order, Earlier
<1>10. /\ pc' \in [VMs -> Places] /\ DOMAIN call' = VMs /\ pc'[v] = "idle"
       /\ \A u \in VMs \ {v} :
             /\ call'[u] = call[u]
             /\ pc'[u] = pc[u] \/ (pc[u] = "asleep" /\ pc'[u] = "awake")
  BY DEF Inv, TypeOK, Publish, Notified, Places
<1>11. Tokens' = Tokens /\ UNCHANGED <<tokens, cancelled, answer>>
  BY DEF Publish, tokens, Tokens
<1>12. \A u \in VMs : CallOK(u)'
  <2>1. CallOK(v)'
    BY <1>10 DEF CallOK
  <2>2. QED
    BY <1>10, <1>11, <2>1, OtherCalls DEF Inv
<1>13. TypeOK'
  <2>1. revision' \in 0 .. counter' /\ counter' \in 0 .. MaxRevision
    BY Bounds DEF Inv, TypeOK, Publish
  <2>2. accepted' \subseteq [time : Times, evidence : Evidence]
    <3>1. Plain(x) \in [time : Times, evidence : Evidence]
      BY <1>1 DEF Plain, Observation
    <3>2. QED
      BY <1>1, <3>1 DEF Inv, TypeOK
  <2>3. QED
    BY <1>3, <1>7, <1>10, <1>11, <1>12, <2>1, <2>2
       DEF Inv, TypeOK, tokens, Tokens, Places
<1>14. BasesHold'
  <2>1. ASSUME NEW u \in VMs, pc'[u] = "building"
        PROVE  /\ Len(call'[u].base) <= Len(observations')
               /\ \A i \in DOMAIN call'[u].base :
                     /\ call'[u].base[i] = observations'[i]
                     /\ call'[u].base[i].time # call'[u].time
    <3>1. u # v /\ pc[u] = "building" /\ call'[u] = call[u]
      BY <1>10, <2>1
    <3>2. /\ Len(call[u].base) <= n
          /\ \A i \in DOMAIN call[u].base :
                /\ call[u].base[i] = observations[i]
                /\ call[u].base[i].time # call[u].time
      BY <3>1 DEF Inv, BasesHold
    <3>3. call[u].base \in Seq(Observation)
      BY <3>1 DEF Inv, TypeOK, CallOK, BuildCall
    <3>4. DOMAIN call[u].base \subseteq 1 .. n /\ Len(call[u].base) <= n + 1
      BY <1>2, <3>2, <3>3
    <3>5. QED
      BY <1>3, <3>1, <3>2, <3>4
  <2>2. QED
    BY <2>1 DEF BasesHold
<1>15. QED
  BY <1>4, <1>5, <1>6, <1>8, <1>9, <1>13, <1>14 DEF Inv

-----------------------------------------------------------------------------
(* The steps that change the tokens, the flags or the counter alone. *)

LEMMA TokensStep ==
  ASSUME Inv, UNCHANGED <<commit, call, cancelled, answer>>,
         capabilities' \in Seq(Permissions), Tokens \subseteq Tokens',
         revoked' \subseteq Tokens', epoch' \in 0 .. MaxEpoch,
         pc' = pc \/ pc' = Notified(pc)
  PROVE  Inv'
<1>1. /\ pc' \in [VMs -> Places] /\ call' = call
      /\ \A u \in VMs : pc'[u] = pc[u] \/ (pc[u] = "asleep" /\ pc'[u] = "awake")
  BY DEF Inv, TypeOK, Notified, Places
<1>2. ASSUME NEW u \in VMs PROVE CallOK(u)'
  <2>1. CallOK(u) /\ call'[u] = call[u]
    BY <1>1 DEF Inv, TypeOK
  <2>2. CASE pc'[u] = pc[u]
    BY <2>1, <2>2 DEF CallOK
  <2>3. CASE pc[u] = "asleep" /\ pc'[u] = "awake"
    BY <2>1, <2>3 DEF CallOK
  <2>4. QED
    BY <1>1, <2>2, <2>3
<1>3. TypeOK'
  BY <1>1, <1>2 DEF Inv, TypeOK, commit, Places
<1>4. BasesHold'
  <2>1. \A u \in VMs : pc'[u] = "building" => pc[u] = "building"
    BY <1>1
  <2>2. QED
    BY <1>1, <2>1 DEF Inv, BasesHold, commit
<1>5. QED
  BY <1>3, <1>4 DEF Inv, commit, Numbered, OneEvidencePerTime, Orderable, Sorts,
                    Current, AllAccepted

LEMMA GrantStep ==
  ASSUME Inv, NEW v \in VMs, NEW c \in Tokens, NEW permission \in Permissions,
         Grant(v, c, permission)
  PROVE  Inv'
<1>1. /\ capabilities \in Seq(Permissions) /\ epoch \in 0 .. MaxEpoch
      /\ epoch' = epoch + 1 /\ epoch < MaxEpoch
      /\ capabilities' = Append(capabilities, permission)
      /\ revoked' = revoked /\ revoked \subseteq DOMAIN capabilities
  BY DEF Inv, TypeOK, Tokens, Grant
<1>2. epoch' \in 0 .. MaxEpoch
  BY <1>1, Bounds
<1>3. capabilities' \in Seq(Permissions) /\ DOMAIN capabilities \subseteq DOMAIN capabilities'
  BY <1>1
<1>4. QED
  BY <1>1, <1>2, <1>3, TokensStep DEF Grant, Tokens

LEMMA RevokeStep ==
  ASSUME Inv, NEW v \in VMs, NEW c \in Tokens, Revoke(v, c)
  PROVE  Inv'
<1>1. /\ capabilities' = capabilities /\ capabilities \in Seq(Permissions)
      /\ epoch \in 0 .. MaxEpoch /\ epoch' = epoch + 1 /\ epoch < MaxEpoch
      /\ revoked' = revoked \cup {c} /\ revoked \subseteq DOMAIN capabilities
      /\ c \in DOMAIN capabilities
  BY DEF Inv, TypeOK, Tokens, Revoke
<1>2. epoch' \in 0 .. MaxEpoch
  BY <1>1, Bounds
<1>3. QED
  BY <1>1, <1>2, TokensStep DEF Revoke, Woken, Tokens

LEMMA OtherStep ==
  ASSUME Inv, OtherCommit \/ (\E v \in VMs : Cancel(v)) \/ UNCHANGED vars
  PROVE  Inv'
<1>1. /\ UNCHANGED <<observations, versions, revision, accepted, tokens, pc, call, answer>>
      /\ counter' \in 0 .. MaxRevision /\ counter <= counter'
      /\ cancelled' \subseteq VMs
  BY Bounds DEF Inv, TypeOK, OtherCommit, Cancel, vars, commit
<1>2. Tokens' = Tokens
  BY <1>1 DEF tokens, Tokens
<1>3. \A u \in VMs : CallOK(u)'
  BY <1>1, <1>2 DEF Inv, TypeOK, CallOK
<1>4. revision' \in 0 .. counter'
  BY <1>1 DEF Inv, TypeOK
<1>5. TypeOK'
  BY <1>1, <1>2, <1>3, <1>4 DEF Inv, TypeOK, tokens
<1>6. QED
  BY <1>1, <1>5 DEF Inv, BasesHold, Numbered, OneEvidencePerTime, Orderable, Sorts,
                    Current, AllAccepted

LEMMA ReadStep ==
  ASSUME Inv, UNCHANGED <<commit, tokens, pc, call, cancelled>>,
         answer' \in Seq(Observation)
  PROVE  Inv'
<1>1. Tokens' = Tokens
  BY DEF tokens, Tokens
<1>2. /\ pc' \in [VMs -> Places] /\ DOMAIN call' = VMs
      /\ \A u \in VMs : CallOK(u)'
  BY <1>1 DEF Inv, TypeOK, CallOK, Places
<1>3. QED
  BY <1>2, QuietStep

-----------------------------------------------------------------------------
LEMMA InvInit == Init => Inv
<1> SUFFICES ASSUME Init PROVE Inv
  OBVIOUS
<1> USE DEF Init
<1>1. capabilities \in Seq(Permissions) /\ Len(capabilities) = 1 + Len(Granted)
  BY Bounds DEF Permissions
<1>2. epoch \in 0 .. MaxEpoch
  BY Bounds
<1>3. TypeOK
  <2>1. 0 \in 0 .. MaxRevision
    BY Bounds
  <2>2. \A v \in VMs : CallOK(v)
    BY DEF CallOK
  <2>3. QED
    BY <1>1, <1>2, <2>1, <2>2 DEF TypeOK, Tokens
<1>4. Numbered(observations) /\ OneEvidencePerTime /\ BasesHold
  BY DEF Numbered, OneEvidencePerTime, BasesHold
<1>5. Orderable /\ Current
  <2>1. DOMAIN observations = {}
    OBVIOUS
  <2>2. <<>> \in Bijection({}, {})
    BY DEF Bijection, Injection, Surjection, IsInjective
  <2>3. Sorts(<<>>, observations)
    BY <2>1, <2>2 DEF Sorts
  <2>4. Replay(observations) = <<>>
    BY <2>1 DEF Replay
  <2>5. QED
    BY <2>3, <2>4 DEF Orderable, Current
<1>6. AllAccepted
  BY DEF AllAccepted
<1>7. QED
  BY <1>3, <1>4, <1>5, <1>6 DEF Inv

(* The steps of a call under way. *)
LEMMA GoesStep ==
  ASSUME Inv, NEW v \in VMs, Goes(v)
  PROVE  Inv'
<1>1. answer \in Seq(Observation) /\ versions \in Seq(Observation)
  BY DEF Inv, TypeOK
<1>2. CASE ObserveAgain(v)
  <2>1. accepted' = accepted
    BY <1>2, KnownIsAccepted DEF ObserveAgain
  <2>2. QED
    BY <1>1, <1>2, <2>1, OverStep DEF ObserveAgain, commit
<1>3. CASE ObserveConflicts(v)
  BY <1>1, <1>3, OverStep DEF ObserveConflicts
<1>4. CASE ReadBase(v)
  BY <1>4, ReadBaseStep
<1>5. CASE ObserveCancelled(v)
  BY <1>1, <1>5, OverStep DEF ObserveCancelled
<1>6. CASE BuildFails(v)
  BY <1>1, <1>6, OverStep DEF BuildFails
<1>7. CASE StartsOver(v)
  BY <1>7, StartsOverStep
<1>8. CASE ObserveRefused(v)
  BY <1>1, <1>8, OverStep DEF ObserveRefused
<1>9. CASE Publish(v)
  BY <1>9, PublishStep
<1>10. CASE WaitReturns(v)
  BY <1>1, <1>10, OverStep DEF WaitReturns
<1>11. CASE WaitRefused(v)
  BY <1>1, <1>11, OverStep DEF WaitRefused
<1>12. CASE WaitCancelled(v)
  BY <1>1, <1>12, OverStep DEF WaitCancelled
<1>13. CASE FallsAsleep(v)
  BY <1>13, FallsAsleepStep
<1>14. CASE TimesOut(v)
  BY <1>1, <1>14, OverStep DEF TimesOut
<1>15. QED
  BY <1>2, <1>3, <1>4, <1>5, <1>6, <1>7, <1>8, <1>9, <1>10, <1>11, <1>12, <1>13,
     <1>14 DEF Goes

(* The steps of a VM between calls. *)
LEMMA StartsStep ==
  ASSUME Inv, NEW v \in VMs, Starts(v)
  PROVE  Inv'
<1>1. answer \in Seq(Observation) /\ versions \in Seq(Observation)
  BY DEF Inv, TypeOK
<1>2. PICK c \in Tokens :
        \/ \E t \in Times, e \in Evidence : Observe(v, c, t, e)
        \/ Snapshot(v, c) \/ ReadRefused(v, c) \/ \E t \in Times : ReadAt(v, c, t)
        \/ \E after \in 0 .. counter, timed \in BOOLEAN : Wait(v, c, after, timed)
        \/ \E permission \in Permissions : Grant(v, c, permission)
        \/ AdminRefused(v, c) \/ Revoke(v, c)
  BY DEF Starts
<1>3. CASE \E t \in Times, e \in Evidence : Observe(v, c, t, e)
  BY <1>3, ObserveStep
<1>4. CASE Snapshot(v, c)
  BY <1>1, <1>4, ReadStep DEF Snapshot
<1>5. CASE ReadRefused(v, c)
  BY <1>1, <1>5, OverStep DEF ReadRefused
<1>6. ASSUME NEW t \in Times, ReadAt(v, c, t) PROVE Inv'
  <2>1. UpTo(t) \in Seq(Observation)
    BY Bounds, UpToFacts
  <2>2. QED
    BY <1>6, <2>1, ReadStep DEF ReadAt
<1>7. CASE \E after \in 0 .. counter, timed \in BOOLEAN : Wait(v, c, after, timed)
  BY <1>7, WaitStep
<1>8. CASE \E permission \in Permissions : Grant(v, c, permission)
  BY <1>8, GrantStep
<1>9. CASE AdminRefused(v, c)
  BY <1>1, <1>9, OverStep DEF AdminRefused
<1>10. CASE Revoke(v, c)
  BY <1>10, RevokeStep
<1>11. QED
  BY <1>2, <1>3, <1>4, <1>5, <1>6, <1>7, <1>8, <1>9, <1>10

LEMMA InvNext == Inv /\ [Next]_vars => Inv'
<1> SUFFICES ASSUME Inv, [Next]_vars PROVE Inv'
  OBVIOUS
<1>1. CASE OtherCommit \/ (\E v \in VMs : Cancel(v)) \/ UNCHANGED vars
  BY <1>1, OtherStep
<1>2. CASE \E v \in VMs : Goes(v)
  BY <1>2, GoesStep
<1>3. CASE \E v \in VMs : Starts(v)
  BY <1>3, StartsStep
<1>4. QED
  BY <1>1, <1>2, <1>3 DEF Next

LEMMA InvHolds == Spec => []Inv
BY InvInit, InvNext, PTL DEF Spec

-----------------------------------------------------------------------------
(* Every variable has its type, whatever the VMs do. *)
THEOREM TypeCorrect == Spec => []TypeOK
<1>1. Inv => TypeOK
  BY DEF Inv
<1>2. QED
  BY <1>1, InvHolds, PTL

(* However many VMs observe the same time at once, one piece of evidence   *)
(* gets in: the optimistic commit of shared_observe loses no conflict.     *)
THEOREM EvidenceAgrees == Spec => []OneEvidencePerTime
<1>1. Inv => OneEvidencePerTime
  BY DEF Inv
<1>2. QED
  BY <1>1, InvHolds, PTL

(* What readers see is always the replay of all the observations in the    *)
(* order of their times.                                                   *)
LEMMA InvReplay == Inv => ReplayComplete
<1> SUFFICES ASSUME Inv PROVE ReplayComplete
  OBVIOUS
<1>1. PICK p : Sorts(p, observations)
  BY DEF Inv, Orderable
<1>2. observations \in Seq(Observation) /\ NoTimeTwice(observations)
  BY DEF Inv, TypeOK, OneEvidencePerTime, NoTimeTwice
<1>3. QED
  BY <1>1, <1>2, ReplayFacts DEF Inv, Current, ReplayComplete

THEOREM ReplayIsComplete == Spec => []ReplayComplete
BY InvReplay, InvHolds, PTL

-----------------------------------------------------------------------------
(* Authority.  Three steps alone take a VM back from a call. *)

LEMMA WhoReturns ==
  ASSUME Inv, [Next]_vars, NEW v \in VMs, pc[v] # "idle", pc'[v] = "idle"
  PROVE  ObserveAgain(v) \/ Publish(v) \/ WaitReturns(v)
<1>1. pc \in [VMs -> Places]
  BY DEF Inv, TypeOK, Places
<1>2. pc' # pc
  OBVIOUS
<1>3. ~(OtherCommit \/ (\E u \in VMs : Cancel(u)) \/ UNCHANGED vars)
  BY <1>2 DEF OtherCommit, Cancel, vars
<1>4. ASSUME NEW u \in VMs, Starts(u) PROVE FALSE
  <2>1. PICK c \in Tokens :
          \/ \E t \in Times, e \in Evidence : Observe(u, c, t, e)
          \/ Snapshot(u, c) \/ ReadRefused(u, c) \/ \E t \in Times : ReadAt(u, c, t)
          \/ \E after \in 0 .. counter, timed \in BOOLEAN : Wait(u, c, after, timed)
          \/ \E permission \in Permissions : Grant(u, c, permission)
          \/ AdminRefused(u, c) \/ Revoke(u, c)
    BY <1>4 DEF Starts
  <2>2. CASE \E t \in Times, e \in Evidence : Observe(u, c, t, e)
    BY <1>1, <2>2 DEF Observe
  <2>3. CASE Snapshot(u, c) \/ \E t \in Times : ReadAt(u, c, t)
    BY <1>2, <2>3 DEF Snapshot, ReadAt
  <2>4. CASE ReadRefused(u, c) \/ AdminRefused(u, c)
    BY <1>1, <2>4 DEF ReadRefused, AdminRefused, Ends
  <2>5. CASE \E after \in 0 .. counter, timed \in BOOLEAN : Wait(u, c, after, timed)
    BY <1>1, <2>5 DEF Wait
  <2>6. CASE \E permission \in Permissions : Grant(u, c, permission)
    BY <1>2, <2>6 DEF Grant
  <2>7. CASE Revoke(u, c)
    BY <1>1, <2>7 DEF Revoke, Woken, Notified
  <2>8. QED
    BY <2>1, <2>2, <2>3, <2>4, <2>5, <2>6, <2>7
<1>5. ASSUME NEW u \in VMs, Goes(u)
      PROVE  u = v /\ (ObserveAgain(u) \/ Publish(u) \/ WaitReturns(u))
  <2>1. CASE ObserveAgain(u) \/ WaitReturns(u)
    BY <1>1, <2>1 DEF ObserveAgain, WaitReturns, Returns
  <2>2. CASE Publish(u)
    BY <1>1, <2>2 DEF Publish, Notified
  <2>3. CASE \/ ObserveConflicts(u) \/ ObserveCancelled(u) \/ BuildFails(u)
             \/ ObserveRefused(u) \/ WaitRefused(u) \/ WaitCancelled(u) \/ TimesOut(u)
    BY <1>1, <2>3 DEF ObserveConflicts, ObserveCancelled, BuildFails, ObserveRefused,
                      WaitRefused, WaitCancelled, TimesOut, Ends
  <2>4. CASE ReadBase(u) \/ FallsAsleep(u)
    BY <1>1, <2>4 DEF ReadBase, FallsAsleep
  <2>5. CASE StartsOver(u)
    BY <1>1, <2>5 DEF StartsOver, Ends
  <2>6. QED
    BY <1>5, <2>1, <2>2, <2>3, <2>4, <2>5 DEF Goes
<1>6. QED
  BY <1>3, <1>4, <1>5 DEF Next

(* Nothing is published, and no waiter answered, under a capability that   *)
(* does not hold at that instant: revocation is never overtaken.           *)
THEOREM Authority == Spec => OnlyWithAuthority
<1> DEFINE Held2(v) ==
      /\ At(v, "building") /\ pc'[v] = "idle" => Held(v, "observe")
      /\ At(v, "awake") /\ pc'[v] = "idle" => Held(v, "read") /\ Reached(v)
<1>1. ASSUME Inv, [Next]_vars, NEW v \in VMs PROVE Held2(v)
  <2>1. CASE At(v, "building") /\ pc'[v] = "idle"
    <3>1. Publish(v)
      BY <1>1, <2>1, WhoReturns DEF At, ObserveAgain, WaitReturns
    <3>2. QED
      BY <2>1, <3>1 DEF Publish, Allows, Held, At
  <2>2. CASE At(v, "awake") /\ pc'[v] = "idle"
    <3>1. WaitReturns(v)
      BY <1>1, <2>2, WhoReturns DEF At, ObserveAgain, Publish
    <3>2. QED
      BY <2>2, <3>1 DEF WaitReturns, Allows, Held, At
  <2>3. QED
    BY <2>1, <2>2
<1>2. Inv /\ [Next]_vars => [\A v \in VMs : Held2(v)]_vars
  BY <1>1
<1>3. QED
  BY <1>2, InvHolds, PTL DEF Spec, OnlyWithAuthority

-----------------------------------------------------------------------------
(* Refinement.  Answers are replays: in the order of the times, of all the *)
(* accepted evidence up to some time.                                      *)

Shown == [i \in DOMAIN answer |-> Plain(answer[i])]

LEMMA OrdersPlain ==
  ASSUME Inv, NEW n \in 0 .. Len(versions), NEW s, DOMAIN s = 1 .. n,
         \A i \in 1 .. n : s[i] = versions[i],
         NEW S, S = {Plain(versions[i]) : i \in 1 .. n}
  PROVE  History!Orders([i \in DOMAIN s |-> Plain(s[i])], S)
<1>1. versions \in Seq(Observation) /\ n \in Nat /\ 1 .. n \subseteq DOMAIN versions
  BY DEF Inv, TypeOK
<1> DEFINE a == [i \in DOMAIN s |-> Plain(s[i])]
<1>2. DOMAIN a = 1 .. n /\ \A i \in 1 .. n : a[i] = Plain(versions[i])
  OBVIOUS
<1>3. \A i, j \in 1 .. n : i < j => versions[i].time < versions[j].time
  BY <1>1, InvReplay DEF ReplayComplete
<1>4. \A i, j \in 1 .. n : i < j => a[i].time < a[j].time
  BY <1>2, <1>3 DEF Plain
<1>5. Range(a) = S
  BY <1>2 DEF Range
<1> HIDE DEF a
<1>6. History!Orders(a, S)
  BY <1>2, <1>4, <1>5 DEF History!Orders, Range, History!Range
<1>7. QED
  BY <1>6 DEF a

LEMMA VersionsAccepted ==
  ASSUME Inv
  PROVE  accepted = {Plain(versions[i]) : i \in DOMAIN versions}
<1>1. Range(versions) = Range(observations)
  BY InvReplay DEF ReplayComplete
<1>2. accepted = {Plain(x) : x \in Range(observations)}
  BY DEF Inv, AllAccepted, Range
<1>3. accepted = {Plain(x) : x \in Range(versions)}
  BY <1>1, <1>2
<1>4. QED
  BY <1>3 DEF Range

LEMMA SnapshotReads ==
  ASSUME Inv, answer' = versions, UNCHANGED <<accepted, revision>>
  PROVE  History!Read
<1>1. versions \in Seq(Observation) /\ DOMAIN versions = 1 .. Len(versions)
      /\ Len(versions) \in 0 .. Len(versions)
  BY DEF Inv, TypeOK
<1>2. accepted = {Plain(versions[i]) : i \in 1 .. Len(versions)}
  BY <1>1, VersionsAccepted
<1>3. History!Orders([i \in DOMAIN versions |-> Plain(versions[i])], accepted)
  BY <1>1, <1>2, OrdersPlain
<1>4. QED
  BY <1>3 DEF History!Read, Plain

LEMMA AtReads ==
  ASSUME Inv, NEW t \in Times, answer' = UpTo(t), UNCHANGED <<accepted, revision>>
  PROVE  History!Read
<1>1. t \in Nat
  BY Bounds
<1>2. PICK n \in 0 .. Len(versions) :
        /\ DOMAIN UpTo(t) = 1 .. n
        /\ \A i \in 1 .. n : UpTo(t)[i] = versions[i] /\ versions[i].time <= t
        /\ \A i \in DOMAIN versions : i > n => versions[i].time > t
  BY <1>1, UpToFacts
<1>3. /\ versions \in Seq(Observation) /\ DOMAIN versions = 1 .. Len(versions)
      /\ n \in Nat /\ n <= Len(versions) /\ Len(versions) \in Nat
  BY DEF Inv, TypeOK
<1> DEFINE S == {x \in accepted : x.time <= t}
<1>4. S = {Plain(versions[i]) : i \in 1 .. n}
  <2>1. accepted = {Plain(versions[i]) : i \in 1 .. Len(versions)}
    BY <1>3, VersionsAccepted
  <2>2. \A i \in 1 .. Len(versions) :
          /\ versions[i].time \in Nat
          /\ Plain(versions[i]).time = versions[i].time
    BY <1>3, ObservationFields DEF Plain
  <2>3. ASSUME NEW i \in 1 .. Len(versions)
        PROVE  Plain(versions[i]).time <= t <=> i \in 1 .. n
    <3>1. CASE i \in 1 .. n
      BY <1>2, <2>2, <3>1
    <3>2. CASE i \notin 1 .. n
      <4>1. i > n
        BY <1>3, <3>2
      <4>2. versions[i].time > t
        BY <1>2, <1>3, <4>1
      <4>3. QED
        BY <1>1, <2>2, <3>2, <4>2
    <3>3. QED
      BY <3>1, <3>2
  <2>4. 1 .. n \subseteq 1 .. Len(versions)
    BY <1>3
  <2>5. ASSUME NEW x \in S PROVE x \in {Plain(versions[i]) : i \in 1 .. n}
    <3>1. PICK i \in 1 .. Len(versions) : x = Plain(versions[i])
      BY <2>1
    <3>2. QED
      BY <2>3, <3>1
  <2>6. ASSUME NEW i \in 1 .. n PROVE Plain(versions[i]) \in S
    BY <2>1, <2>3, <2>4
  <2>7. QED
    BY <2>5, <2>6
<1> HIDE DEF S
<1>5. History!Orders([i \in DOMAIN UpTo(t) |-> Plain(UpTo(t)[i])], S)
  BY <1>2, <1>4, OrdersPlain
<1>6. QED
  BY <1>5 DEF History!Read, Plain, S

LEMMA StepRefines ==
  ASSUME Inv, [Next]_vars
  PROVE  History!Next \/ UNCHANGED <<accepted, revision, Shown>>
<1>1. CASE UNCHANGED <<accepted, revision, answer>>
  BY <1>1 DEF Shown, Plain
<1>2. CASE OtherCommit \/ (\E v \in VMs : Cancel(v)) \/ UNCHANGED vars
  BY <1>1, <1>2 DEF OtherCommit, Cancel, commit, vars
<1>3. ASSUME NEW v \in VMs, Goes(v)
      PROVE  History!Next \/ UNCHANGED <<accepted, revision, Shown>>
  <2>1. CASE ObserveAgain(v)
    <3>1. accepted' = accepted
      BY <2>1, KnownIsAccepted DEF ObserveAgain
    <3>2. QED
      BY <1>1, <2>1, <3>1 DEF ObserveAgain
  <2>2. CASE Publish(v)
    <3> DEFINE x == Plain(call[v])
    <3>1. x \in [time : Times, evidence : Evidence]
      BY <2>2 DEF Publish, At, Inv, TypeOK, CallOK, BuildCall, Plain
    <3>2. \A y \in accepted : y.time # x.time
      <4>1. \A i \in DOMAIN observations : observations[i].time # call[v].time
        BY <2>2, PublishFacts DEF Pending
      <4>2. \A y \in accepted : \E i \in DOMAIN observations : y.time = observations[i].time
        BY DEF Inv, AllAccepted, Plain
      <4>3. QED
        BY <4>1, <4>2 DEF Plain
    <3>3. revision' > revision
      BY <2>2, Bounds DEF Publish, Inv, TypeOK
    <3>4. accepted' = accepted \cup {x} /\ answer' = answer
      BY <2>2 DEF Publish
    <3> HIDE DEF x
    <3>5. History!Accept(x)
      BY <3>2, <3>3, <3>4 DEF History!Accept, Plain
    <3>6. QED
      BY <3>1, <3>5 DEF History!Next
  <2>3. CASE WaitReturns(v)
    BY <2>3, SnapshotReads DEF WaitReturns, commit, History!Next
  <2>4. CASE \/ ObserveConflicts(v) \/ ReadBase(v) \/ ObserveCancelled(v) \/ BuildFails(v)
             \/ StartsOver(v) \/ ObserveRefused(v) \/ WaitRefused(v)
             \/ WaitCancelled(v) \/ FallsAsleep(v) \/ TimesOut(v)
    BY <1>1, <2>4 DEF ObserveConflicts, ReadBase, ObserveCancelled, BuildFails,
                      StartsOver, ObserveRefused, WaitRefused, WaitCancelled,
                      FallsAsleep, TimesOut, commit
  <2>5. QED
    BY <1>3, <2>1, <2>2, <2>3, <2>4 DEF Goes
<1>4. ASSUME NEW v \in VMs, Starts(v)
      PROVE  History!Next \/ UNCHANGED <<accepted, revision, Shown>>
  <2>1. PICK c \in Tokens :
          \/ \E t \in Times, e \in Evidence : Observe(v, c, t, e)
          \/ Snapshot(v, c) \/ ReadRefused(v, c) \/ \E t \in Times : ReadAt(v, c, t)
          \/ \E after \in 0 .. counter, timed \in BOOLEAN : Wait(v, c, after, timed)
          \/ \E permission \in Permissions : Grant(v, c, permission)
          \/ AdminRefused(v, c) \/ Revoke(v, c)
    BY <1>4 DEF Starts
  <2>2. CASE Snapshot(v, c)
    BY <2>2, SnapshotReads DEF Snapshot, commit, History!Next
  <2>3. ASSUME NEW t \in Times, ReadAt(v, c, t) PROVE History!Next
    BY <2>3, AtReads DEF ReadAt, commit, History!Next
  <2>4. CASE \/ \E t \in Times, e \in Evidence : Observe(v, c, t, e)
             \/ ReadRefused(v, c) \/ AdminRefused(v, c) \/ Revoke(v, c)
             \/ \E after \in 0 .. counter, timed \in BOOLEAN : Wait(v, c, after, timed)
             \/ \E permission \in Permissions : Grant(v, c, permission)
    BY <1>1, <2>4 DEF Observe, ReadRefused, AdminRefused, Revoke, Wait, Grant, commit
  <2>5. QED
    BY <2>1, <2>2, <2>3, <2>4
<1>5. QED
  BY <1>2, <1>3, <1>4 DEF Next

(* Shared Information implements SharedHistory: every observe and every    *)
(* read of any VM takes effect at one instant, on one history.             *)
THEOREM Refinement == Spec => ImplementsHistory
<1>1. Init => History!Init
  BY DEF Init, History!Init, Plain
<1>2. Inv /\ [Next]_vars => [History!Next]_<<accepted, revision, Shown>>
  BY StepRefines
<1>3. QED
  BY <1>1, <1>2, InvHolds, PTL DEF Spec, ImplementsHistory, History!Spec, History!vars, Shown
=============================================================================
