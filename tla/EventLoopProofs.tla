-------------------------- MODULE EventLoopProofs --------------------------
(***************************************************************************)
(* NobodyLeftAsleep as a theorem of EventLoop, for any finite sets of      *)
(* futures, any program and any bounds.                                    *)
(*                                                                         *)
(* The invariant is about the futures that were ever enqueued: some set T  *)
(* that holds whatever is ready, complete or on the stack.  A member of T  *)
(* that was resumed waits for members of T alone, and if it is neither     *)
(* complete nor ready nor on the stack, then one it waits for is not       *)
(* complete and will wake it.                                              *)
(***************************************************************************)
EXTENDS EventLoop, FiniteSetTheorems, SequenceTheorems, WellFoundedInduction, TLAPS

-----------------------------------------------------------------------------
(* The inductive invariant. *)

Entry == [loop : BOOLEAN, of : Futures, at : Nat]
Composite == [kind : {"none", "race", "all", "sleep"}, inputs : Seq(Futures)]

ELTypes ==
    /\ bodies \in [Asyncs -> Seq(Steps \X Futures)]
    /\ combined \in [Composites -> Composite]
    /\ ready \in Seq(Futures) /\ exhausted \in Seq(Futures)
    /\ saved \in [Futures -> Nat \ {0}] /\ awaiters \in [Futures -> Seq(Futures)]
    /\ frames \in Seq(Entry) /\ runs \in Nat

(* The stack: loops and frames alternate, a loop first; a loop on top of a  *)
(* frame is for the future that the frame runs.                             *)
Alternating(stack, code) ==
    /\ stack # <<>> => stack[1].loop
    /\ \A i \in 1 .. Len(stack) :
        /\ i + 1 \in 1 .. Len(stack) => stack[i].loop = ~stack[i + 1].loop
        /\ ~stack[i].loop =>
              /\ stack[i].of \in Asyncs /\ stack[i].at # 0
              /\ i + 1 \in 1 .. Len(stack) =>
                    /\ stack[i].at \in DOMAIN code[stack[i].of]
                    /\ code[stack[i].of][stack[i].at][2] = stack[i + 1].of

FrameOf(stack, i, f) == ~stack[i].loop /\ stack[i].of = f
EnteredIn(stack, f) == \E i \in 1 .. Len(stack) : FrameOf(stack, i, f)
OnTopAt(stack, f, step) ==
    \A i \in 1 .. Len(stack) : FrameOf(stack, i, f) => i = Len(stack) /\ stack[i].at = step

(* Not resumed so far, or resumed and on top at its first step.             *)
Unstarted(f) ==
    /\ ~Done(f) /\ (f \in ToSet(ready) \/ EnteredIn(frames, f))
    /\ OnTopAt(frames, f, saved[f])

(* Asleep, a future is registered with one that it waits for.               *)
Asleep(f) == ~Done(f) /\ ~EnteredIn(frames, f) /\ f \notin ToSet(ready)
WillWake(f) == \E g \in WaitsFor(f) : ~Done(g) /\ f \in ToSet(awaiters[g])

TouchedAsync(f, T) ==
    /\ WaitsFor(f) \subseteq T \/ Unstarted(f)
    /\ Asleep(f) => WillWake(f)

TouchedComposite(c, T) ==
    /\ WaitsFor(c) \subseteq T
    /\ ~Done(c) => \A g \in WaitsFor(c) : ~Done(g) => c \in ToSet(awaiters[g])
    /\ ~Done(c) /\ c \notin ToSet(ready) => ~PollDone(c)

Touched(T) ==
    /\ ToSet(ready) \subseteq T /\ ToSet(exhausted) \subseteq T
    /\ \A i \in 1 .. Len(frames) : frames[i].of \in T
    /\ \A f \in Futures : ToSet(awaiters[f]) \subseteq T
    /\ \A c \in Composites : Exists(c) <=> c \in T
    /\ \A f \in T \cap Asyncs : TouchedAsync(f, T)
    /\ \A c \in T \cap Composites : TouchedComposite(c, T)

NotLoaded ==
    /\ ready = <<>> /\ exhausted = <<>> /\ frames = <<>>
    /\ \A f \in Futures : awaiters[f] = <<>>
    /\ \A c \in Composites : ~Exists(c)

ELGood ==
    ELTypes /\ Alternating(frames, bodies) /\ \E T \in SUBSET Futures : Touched(T)

ELInv == ELGood /\ (runs = 0 => NotLoaded)

-----------------------------------------------------------------------------
(* Numbers: the first that does not. *)

LEMMA LeastOf ==
  ASSUME NEW S, S \subseteq Nat, S # {}
  PROVE  \E m \in S : \A y \in S : m <= y
<1>1. PICK m \in S : \A y \in S : ~(<<y, m>> \in OpToRel(<, Nat))
  BY NatLessThanWellFounded, WFMin, Zenon
<1>2. ASSUME NEW y \in S PROVE m <= y
  <2>1. y \in Nat /\ m \in Nat
    OBVIOUS
  <2>2. ~(y < m)
    BY <1>1, <2>1 DEF OpToRel
  <2>3. QED
    BY <2>1, <2>2
<1>3. QED
  BY <1>2

(* What holds of 0 and of the next number holds up to N: as a set. *)
LEMMA UpTo ==
  ASSUME NEW N \in Nat, NEW S, 0 \in S, \A k \in 0 .. N : k + 1 <= N /\ k \in S => k + 1 \in S
  PROVE  0 .. N \subseteq S
<1> SUFFICES ASSUME ~(0 .. N \subseteq S) PROVE FALSE
  OBVIOUS
<1>1. PICK T : T = {k \in 0 .. N : k \notin S}
  OBVIOUS
<1>2. T \subseteq Nat /\ T # {}
  BY <1>1
<1>3. PICK m \in T : \A y \in T : m <= y
  BY <1>2, LeastOf
<1>4. m \in 0 .. N /\ m \notin S /\ m # 0
  BY <1>1
<1>5. m - 1 \in 0 .. N /\ (m - 1) + 1 = m /\ m <= N /\ ~(m <= m - 1)
  BY <1>4
<1>6. m - 1 \in S
  BY <1>1, <1>3, <1>5
<1>7. QED
  BY <1>4, <1>5, <1>6

-----------------------------------------------------------------------------
(* Which futures are in a queue after enqueue_future, and in what is left.  *)

AfterIs(queue, list, done, n, g) ==
    g = [i \in 0 .. n |->
            IF i = 0 THEN queue
            ELSE IF list[i] \in done \/ Contains(g[i - 1], list[i]) THEN g[i - 1]
            ELSE Append(g[i - 1], list[i])]

LEMMA AfterExists ==
  ASSUME NEW queue, NEW list, NEW done, NEW N \in Nat
  PROVE  \E g : AfterIs(queue, list, done, N, g)
<1> DEFINE Then(q, i) == IF list[i] \in done \/ Contains(q, list[i]) THEN q ELSE Append(q, list[i])
<1>0. ASSUME NEW n, NEW g
      PROVE  AfterIs(queue, list, done, n, g) <=>
                g = [i \in 0 .. n |-> IF i = 0 THEN queue ELSE Then(g[i - 1], i)]
  BY DEF AfterIs
<1> HIDE DEF Then
<1>1. PICK S : S = {n \in Nat : \E g : AfterIs(queue, list, done, n, g)}
  OBVIOUS
<1>2. 0 \in S
  <2>1. PICK g : g = [i \in 0 .. 0 |-> queue]
    OBVIOUS
  <2>2. AfterIs(queue, list, done, 0, g)
    BY <1>0, <2>1
  <2>3. QED
    BY <1>1, <2>2
<1>3. ASSUME NEW k \in 0 .. N, k + 1 <= N, k \in S PROVE k + 1 \in S
  <2>1. PICK g : AfterIs(queue, list, done, k, g)
    BY <1>1, <1>3
  <2>2. PICK h : h = [i \in 0 .. k + 1 |-> IF i = k + 1 THEN Then(g[k], k + 1) ELSE g[i]]
    OBVIOUS
  <2>3. k \in Nat /\ k + 1 \in Nat
    OBVIOUS
  <2>4. \A i \in 0 .. k : h[i] = g[i] /\ i # k + 1
    BY <2>2, <2>3
  <2>5. ASSUME NEW i \in 0 .. k + 1
        PROVE  h[i] = IF i = 0 THEN queue ELSE Then(h[i - 1], i)
    <3>1. CASE i = k + 1
      <4>1. h[i] = Then(g[k], i) /\ i # 0 /\ i - 1 = k
        BY <2>2, <2>3, <3>1
      <4>2. h[k] = g[k]
        BY <2>3, <2>4
      <4>3. QED
        BY <4>1, <4>2
    <3>2. CASE i # k + 1
      <4>1. i \in 0 .. k /\ (i # 0 => i - 1 \in 0 .. k)
        BY <2>3, <3>2
      <4>2. g[i] = IF i = 0 THEN queue ELSE Then(g[i - 1], i)
        <5>1. g = [j \in 0 .. k |-> IF j = 0 THEN queue ELSE Then(g[j - 1], j)]
          BY <1>0, <2>1
        <5>2. QED
          BY <4>1, <5>1
      <4>3. QED
        BY <2>4, <4>1, <4>2
    <3>3. QED
      BY <3>1, <3>2
  <2>6. h = [i \in 0 .. k + 1 |-> h[i]]
    BY <2>2
  <2>7. AfterIs(queue, list, done, k + 1, h)
    BY <1>0, <2>5, <2>6
  <2>8. QED
    BY <1>1, <2>3, <2>7
<1>4. 0 .. N \subseteq S
  BY <1>2, <1>3, UpTo
<1>5. N \in S
  BY <1>4
<1>6. QED
  BY <1>1, <1>5

LEMMA InAppend ==
  ASSUME NEW q \in Seq(Futures), NEW f \in Futures
  PROVE  Append(q, f) \in Seq(Futures) /\ ToSet(Append(q, f)) = ToSet(q) \cup {f}
<1>1. PICK p : p = Append(q, f)
  OBVIOUS
<1>2. /\ p \in Seq(Futures) /\ Len(p) = Len(q) + 1 /\ Len(q) \in Nat /\ p[Len(q) + 1] = f
      /\ \A i \in 1 .. Len(q) : p[i] = q[i] /\ i \in 1 .. Len(p)
  BY <1>1
<1>3. \A i \in 1 .. Len(p) : i \in 1 .. Len(q) \/ i = Len(q) + 1
  BY <1>2
<1>4. Len(q) + 1 \in 1 .. Len(p)
  BY <1>2
<1>5. DOMAIN p = 1 .. Len(p) /\ DOMAIN q = 1 .. Len(q)
  BY <1>2
<1>6. ToSet(p) = ToSet(q) \cup {f}
  BY <1>2, <1>3, <1>4, <1>5 DEF ToSet
<1>7. QED
  BY <1>1, <1>2, <1>6

LEMMA EnqueuedIs ==
  ASSUME NEW queue \in Seq(Futures), NEW list \in Seq(Futures), NEW done
  PROVE  /\ Enqueued(queue, list, done) \in Seq(Futures)
         /\ ToSet(Enqueued(queue, list, done)) = ToSet(queue) \cup (ToSet(list) \ done)
<1>1. PICK N : N = Len(list)
  OBVIOUS
<1>2. N \in Nat /\ DOMAIN list = 1 .. N /\ \A i \in 1 .. N : list[i] \in Futures
  BY <1>1
<1>3. PICK g : AfterIs(queue, list, done, N, g) /\ Enqueued(queue, list, done) = g[N]
  <2>1. \E g : AfterIs(queue, list, done, N, g)
    BY <1>2, AfterExists
  <2>2. Enqueued(queue, list, done) = (CHOOSE g : AfterIs(queue, list, done, N, g))[N]
    BY <1>1, Zenon DEF Enqueued, AfterIs
  <2>3. QED
    BY <2>1, <2>2, Zenon
<1>4. /\ g[0] = queue
      /\ \A i \in 1 .. N : g[i] = IF list[i] \in done \/ Contains(g[i - 1], list[i]) THEN g[i - 1]
                                  ELSE Append(g[i - 1], list[i])
  <2>1. 0 \in 0 .. N /\ \A i \in 1 .. N : i \in 0 .. N /\ i # 0
    BY <1>2
  <2>2. PICK c : c = [i \in 1 .. N |-> Contains(g[i - 1], list[i])]
    OBVIOUS
  <2>3. QED
    BY <1>3, <2>1 DEF AfterIs
<1>5. PICK S : S = {k \in Nat : /\ g[k] \in Seq(Futures)
                                /\ ToSet(g[k]) = ToSet(queue) \cup ({list[i] : i \in 1 .. k} \ done)}
  OBVIOUS
<1>6. 0 \in S
  <2>1. {list[i] : i \in 1 .. 0} = {}
    OBVIOUS
  <2>2. QED
    BY <1>4, <1>5, <2>1
<1>7. ASSUME NEW k \in 0 .. N, k + 1 <= N, k \in S PROVE k + 1 \in S
  <2>1. PICK q, f : q = g[k] /\ f = list[k + 1]
    OBVIOUS
  <2>2. k \in Nat /\ k + 1 \in Nat /\ k + 1 \in 1 .. N /\ (k + 1) - 1 = k
    BY <1>2, <1>7
  <2>3. q \in Seq(Futures) /\ ToSet(q) = ToSet(queue) \cup ({list[i] : i \in 1 .. k} \ done)
    BY <1>5, <1>7, <2>1
  <2>4. f \in Futures
    BY <1>2, <2>1, <2>2
  <2>5. g[k + 1] = IF f \in done \/ Contains(q, f) THEN q ELSE Append(q, f)
    BY <1>4, <2>1, <2>2
  <2>6. {list[i] : i \in 1 .. k + 1} = {list[i] : i \in 1 .. k} \cup {f}
    <3>1. \A i \in 1 .. k + 1 : i \in 1 .. k \/ i = k + 1
      BY <2>2
    <3>2. k + 1 \in 1 .. k + 1 /\ \A i \in 1 .. k : i \in 1 .. k + 1
      BY <2>2
    <3>3. QED
      BY <2>1, <3>1, <3>2
  <2>7. Contains(q, f) => f \in ToSet(q)
    <3>1. DOMAIN q = 1 .. Len(q)
      BY <2>3
    <3>2. QED
      BY <3>1 DEF Contains, ToSet
  <2>8. CASE f \in done \/ Contains(q, f)
    BY <1>5, <2>2, <2>3, <2>5, <2>6, <2>7, <2>8
  <2>9. CASE ~(f \in done \/ Contains(q, f))
    <3>1. PICK p : p = Append(q, f)
      OBVIOUS
    <3>2. p \in Seq(Futures) /\ ToSet(p) = ToSet(q) \cup {f} /\ g[k + 1] = p
      BY <2>3, <2>4, <2>5, <2>9, <3>1, InAppend
    <3>3. QED
      BY <1>5, <2>2, <2>3, <2>6, <2>9, <3>2
  <2>10. QED
    BY <2>8, <2>9
<1>8. N \in S
  <2>1. 0 .. N \subseteq S
    BY <1>2, <1>6, <1>7, UpTo
  <2>2. QED
    BY <1>2, <2>1
<1>9. ToSet(list) = {list[i] : i \in 1 .. N}
  BY <1>2 DEF ToSet
<1>10. QED
  BY <1>3, <1>5, <1>8, <1>9

LEMMA InTail ==
  ASSUME NEW q \in Seq(Futures), q # <<>>
  PROVE  /\ Tail(q) \in Seq(Futures) /\ Head(q) \in ToSet(q) /\ Head(q) \in Futures
         /\ ToSet(q) \ {Head(q)} \subseteq ToSet(Tail(q)) /\ ToSet(Tail(q)) \subseteq ToSet(q)
<1>1. PICK p : p = Tail(q)
  OBVIOUS
<1>2. /\ p \in Seq(Futures) /\ Len(p) = Len(q) - 1 /\ Len(p) \in Nat /\ Len(q) \in Nat
      /\ Head(q) = q[1] /\ \A i \in 1 .. Len(p) : p[i] = q[i + 1] /\ i + 1 \in 1 .. Len(q)
  BY <1>1
<1>3. DOMAIN p = 1 .. Len(p) /\ DOMAIN q = 1 .. Len(q)
  BY <1>2
<1>4. 1 \in DOMAIN q
  BY <1>2, <1>3
<1>5. ASSUME NEW i \in DOMAIN q, i # 1 PROVE q[i] \in ToSet(p)
  <2>1. i - 1 \in 1 .. Len(p) /\ (i - 1) + 1 = i
    BY <1>2, <1>3, <1>5
  <2>2. p[i - 1] = q[i]
    BY <1>2, <2>1
  <2>3. QED
    BY <1>3, <2>1, <2>2 DEF ToSet
<1>6. QED
  BY <1>1, <1>2, <1>3, <1>4, <1>5 DEF ToSet

LEMMA InOne ==
  ASSUME NEW f \in Futures
  PROVE  <<f>> \in Seq(Futures) /\ ToSet(<<f>>) = {f}
  BY DEF ToSet

LEMMA InNone == <<>> \in Seq(Futures) /\ ToSet(<<>>) = {}
  BY DEF ToSet

-----------------------------------------------------------------------------
(* The stack: pushing, popping, and the step of the frame on top. *)

LEMMA PushKeeps ==
  ASSUME NEW s \in Seq(Entry), NEW code, NEW e \in Entry, Alternating(s, code),
         s = <<>> => e.loop,
         s # <<>> => s[Len(s)].loop = ~e.loop,
         ~e.loop => e.of \in Asyncs /\ e.at # 0,
         s # <<>> /\ e.loop => /\ s[Len(s)].at \in DOMAIN code[s[Len(s)].of]
                               /\ code[s[Len(s)].of][s[Len(s)].at][2] = e.of
  PROVE  /\ Append(s, e) \in Seq(Entry) /\ Alternating(Append(s, e), code)
         /\ \A f : EnteredIn(Append(s, e), f) <=> EnteredIn(s, f) \/ (~e.loop /\ e.of = f)
         /\ \A f, k : ~EnteredIn(s, f) /\ (~e.loop /\ e.of = f => e.at = k)
                          => OnTopAt(Append(s, e), f, k)
         /\ \A S : e.of \in S /\ (\A i \in 1 .. Len(s) : s[i].of \in S)
                       => \A i \in 1 .. Len(Append(s, e)) : Append(s, e)[i].of \in S
         /\ Append(s, e) # <<>> /\ Append(s, e)[Len(Append(s, e))] = e
<1>1. PICK t : t = Append(s, e)
  OBVIOUS
<1>2. /\ t \in Seq(Entry) /\ Len(t) = Len(s) + 1 /\ Len(s) \in Nat /\ t[Len(s) + 1] = e
      /\ \A i \in 1 .. Len(s) : t[i] = s[i] /\ i \in 1 .. Len(t) /\ i # Len(t)
  BY <1>1
<1>3. \A i \in 1 .. Len(t) : i \in 1 .. Len(s) \/ i = Len(s) + 1
  BY <1>2
<1>4. Len(s) + 1 \in 1 .. Len(t) /\ Len(s) + 1 = Len(t)
  BY <1>2
<1>5. t[1].loop
  <2>1. CASE s = <<>>
    <3>1. Len(s) + 1 = 1
      BY <2>1
    <3>2. QED
      BY <1>2, <2>1, <3>1
  <2>2. CASE s # <<>>
    <3>1. 1 \in 1 .. Len(s)
      BY <1>2, <2>2
    <3>2. QED
      BY <1>2, <2>2, <3>1 DEF Alternating
  <2>3. QED
    BY <2>1, <2>2
<1>6. ASSUME NEW i \in 1 .. Len(t)
      PROVE  /\ i + 1 \in 1 .. Len(t) => t[i].loop = ~t[i + 1].loop
             /\ ~t[i].loop =>
                   /\ t[i].of \in Asyncs /\ t[i].at # 0
                   /\ i + 1 \in 1 .. Len(t) =>
                         /\ t[i].at \in DOMAIN code[t[i].of]
                         /\ code[t[i].of][t[i].at][2] = t[i + 1].of
  <2>1. CASE i = Len(s) + 1
    <3>1. i + 1 \notin 1 .. Len(t) /\ t[i] = e
      BY <1>2, <2>1
    <3>2. QED
      BY <3>1
  <2>2. CASE i = Len(s)
    <3>1. i \in 1 .. Len(s) /\ t[i + 1] = e /\ t[i] = s[i] /\ s # <<>>
      BY <1>2, <2>2
    <3>2. QED
      BY <2>2, <3>1 DEF Alternating
  <2>3. CASE i # Len(s) + 1 /\ i # Len(s)
    <3>1. i \in 1 .. Len(s) /\ i + 1 \in 1 .. Len(s)
      BY <1>2, <1>3, <2>3
    <3>2. t[i] = s[i] /\ t[i + 1] = s[i + 1]
      BY <1>2, <3>1
    <3>3. QED
      BY <3>1, <3>2 DEF Alternating
  <2>4. QED
    BY <2>1, <2>2, <2>3
<1>7. Alternating(t, code)
  BY <1>5, <1>6 DEF Alternating
<1>8. \A f : EnteredIn(t, f) <=> EnteredIn(s, f) \/ (~e.loop /\ e.of = f)
  BY <1>2, <1>3, <1>4 DEF EnteredIn, FrameOf
<1>9. \A f, k : ~EnteredIn(s, f) /\ (~e.loop /\ e.of = f => e.at = k) => OnTopAt(t, f, k)
  BY <1>2, <1>3, <1>4 DEF EnteredIn, OnTopAt, FrameOf
<1>10. \A S : e.of \in S /\ (\A i \in 1 .. Len(s) : s[i].of \in S)
                  => \A i \in 1 .. Len(t) : t[i].of \in S
  BY <1>2, <1>3
<1>11. t # <<>> /\ t[Len(t)] = e
  BY <1>2
<1>12. QED
  BY <1>1, <1>2, <1>7, <1>8, <1>9, <1>10, <1>11

LEMMA PopKeeps ==
  ASSUME NEW s \in Seq(Entry), NEW code, Alternating(s, code), s # <<>>
  PROVE  /\ Front(s) \in Seq(Entry) /\ Alternating(Front(s), code)
         /\ \A f : EnteredIn(s, f) <=> EnteredIn(Front(s), f) \/ FrameOf(s, Len(s), f)
         /\ \A f, k : ~EnteredIn(Front(s), f) => OnTopAt(Front(s), f, k)
         /\ \A i \in 1 .. Len(Front(s)) : i \in 1 .. Len(s) /\ Front(s)[i] = s[i]
         /\ Len(Front(s)) = Len(s) - 1
<1>1. PICK t : t = Front(s)
  OBVIOUS
<1>2. /\ t \in Seq(Entry) /\ Len(t) = Len(s) - 1 /\ Len(t) \in Nat /\ Len(s) \in Nat
      /\ \A i \in 1 .. Len(t) : t[i] = s[i] /\ i \in 1 .. Len(s)
  <2>1. PICK n : n = Len(s) - 1
    OBVIOUS
  <2>2. Len(s) \in Nat /\ n \in Nat /\ n <= Len(s) /\ \A i \in 1 .. n : i \in 1 .. Len(s)
    BY <2>1
  <2>3. t = SubSeq(s, 1, n)
    BY <1>1, <2>1 DEF Front
  <2>4. t \in Seq(Entry) /\ Len(t) = n /\ \A i \in 1 .. n : t[i] = s[i]
    <3>1. \A i \in 1 .. n : s[i] \in Entry
      BY <2>2
    <3>2. QED
      BY <2>2, <2>3, <3>1
  <2>5. QED
    BY <2>1, <2>2, <2>4
<1>3. \A i \in 1 .. Len(s) : i \in 1 .. Len(t) \/ i = Len(s)
  BY <1>2
<1>4. Len(s) \in 1 .. Len(s)
  BY <1>2
<1>5. Alternating(t, code)
  <2>1. t # <<>> => t[1].loop
    <3>1. t # <<>> => 1 \in 1 .. Len(t)
      BY <1>2
    <3>2. QED
      BY <1>2, <3>1 DEF Alternating
  <2>2. ASSUME NEW i \in 1 .. Len(t)
        PROVE  /\ i + 1 \in 1 .. Len(t) => t[i].loop = ~t[i + 1].loop
               /\ ~t[i].loop =>
                     /\ t[i].of \in Asyncs /\ t[i].at # 0
                     /\ i + 1 \in 1 .. Len(t) =>
                           /\ t[i].at \in DOMAIN code[t[i].of]
                           /\ code[t[i].of][t[i].at][2] = t[i + 1].of
    <3>1. i \in 1 .. Len(s) /\ t[i] = s[i]
          /\ (i + 1 \in 1 .. Len(t) => i + 1 \in 1 .. Len(s) /\ t[i + 1] = s[i + 1])
      BY <1>2
    <3>2. QED
      BY <3>1 DEF Alternating
  <2>3. QED
    BY <2>1, <2>2 DEF Alternating
<1>6. \A f : EnteredIn(s, f) <=> EnteredIn(t, f) \/ FrameOf(s, Len(s), f)
  BY <1>2, <1>3, <1>4 DEF EnteredIn, FrameOf
<1>7. \A f, k : ~EnteredIn(t, f) => OnTopAt(t, f, k)
  BY DEF EnteredIn, OnTopAt
<1>8. QED
  BY <1>1, <1>2, <1>5, <1>6, <1>7

LEMMA OnwardKeeps ==
  ASSUME NEW s \in Seq(Entry), NEW code, Alternating(s, code), s # <<>>
  PROVE  /\ Onward(s) \in Seq(Entry) /\ Alternating(Onward(s), code)
         /\ Len(Onward(s)) = Len(s) /\ Len(s) \in Nat
         /\ \A i \in 1 .. Len(s) : Onward(s)[i].loop = s[i].loop /\ Onward(s)[i].of = s[i].of
         /\ \A i \in 1 .. Len(s) : i # Len(s) => Onward(s)[i] = s[i]
         /\ \A f : EnteredIn(Onward(s), f) <=> EnteredIn(s, f)
<1>1. PICK n, e, t : n = Len(s) /\ e = [s[n] EXCEPT !.at = s[n].at + 1] /\ t = Onward(s)
  OBVIOUS
<1>2. t = [s EXCEPT ![n] = e]
  BY <1>1 DEF Onward
<1>3. n \in Nat /\ n \in 1 .. n /\ DOMAIN s = 1 .. n
  BY <1>1
<1>4. s[n] \in Entry
  BY <1>1, <1>3
<1>5. e \in Entry /\ e.loop = s[n].loop /\ e.of = s[n].of
  BY <1>1, <1>4 DEF Entry
<1>6. /\ t \in Seq(Entry) /\ Len(t) = n
      /\ \A i \in 1 .. n : t[i] = IF i = n THEN e ELSE s[i]
  BY <1>1, <1>2, <1>3, <1>5
<1>7. /\ \A i \in 1 .. n : t[i].loop = s[i].loop /\ t[i].of = s[i].of /\ (i # n => t[i] = s[i])
      /\ t[n].at # 0
  <2>1. e.at # 0
    BY <1>1, <1>4 DEF Entry
  <2>2. QED
    BY <1>3, <1>5, <1>6, <2>1
<1>8. Alternating(t, code)
  <2>1. t[1].loop
    <3>1. 1 \in 1 .. n
      BY <1>3
    <3>2. QED
      BY <1>7, <3>1 DEF Alternating
  <2>2. ASSUME NEW i \in 1 .. Len(t)
        PROVE  /\ i + 1 \in 1 .. Len(t) => t[i].loop = ~t[i + 1].loop
               /\ ~t[i].loop =>
                     /\ t[i].of \in Asyncs /\ t[i].at # 0
                     /\ i + 1 \in 1 .. Len(t) =>
                           /\ t[i].at \in DOMAIN code[t[i].of]
                           /\ code[t[i].of][t[i].at][2] = t[i + 1].of
    <3>1. i \in 1 .. n /\ (i + 1 \in 1 .. Len(t) => i + 1 \in 1 .. n /\ i # n)
      BY <1>3, <1>6
    <3>2. QED
      BY <1>1, <1>6, <1>7, <3>1 DEF Alternating
  <2>3. QED
    BY <2>1, <2>2 DEF Alternating
<1>9. \A f : EnteredIn(t, f) <=> EnteredIn(s, f)
  BY <1>1, <1>6, <1>7 DEF EnteredIn, FrameOf
<1>10. QED
  BY <1>1, <1>3, <1>6, <1>7, <1>8, <1>9

(* On top there is a loop, or the frame of another: f has no frame at all.  *)
LEMMA NotBelow ==
  ASSUME NEW s, NEW f, NEW k, OnTopAt(s, f, k), ~FrameOf(s, Len(s), f)
  PROVE  ~EnteredIn(s, f)
  BY DEF OnTopAt, EnteredIn

-----------------------------------------------------------------------------
(* One step, but for the futures X that it is about. *)

LEMMA DoneIs ==
  ASSUME NEW q \in Seq(Futures), NEW f
  PROVE  (\E i \in 1 .. Len(q) : q[i] = f) <=> f \in ToSet(q)
<1>1. DOMAIN q = 1 .. Len(q)
  OBVIOUS
<1>2. QED
  BY <1>1 DEF ToSet

(* Nobody but X leaves the queue without being complete, or moves on the    *)
(* stack, or loses what it is registered with unless it is woken.           *)
Calm(X) ==
    /\ bodies' = bodies
    /\ ToSet(exhausted) \subseteq ToSet(exhausted')
    /\ \A h \in ToSet(ready) : h \in ToSet(ready') \/ h \in ToSet(exhausted') \/ h \in X
    /\ \A g \in Futures : \A h \in ToSet(awaiters[g]) :
          \/ g \in ToSet(exhausted)
          \/ g \in ToSet(exhausted') /\ h \in ToSet(exhausted') \cup ToSet(ready')
          \/ g \notin ToSet(exhausted') /\ h \in ToSet(awaiters'[g])
    /\ \A h \in Asyncs \ X :
          /\ saved'[h] = saved[h]
          /\ h \in ToSet(exhausted') => h \in ToSet(exhausted)
          /\ EnteredIn(frames, h) => EnteredIn(frames', h)
          /\ OnTopAt(frames, h, saved[h]) => OnTopAt(frames', h, saved[h])
    /\ \A c \in Composites : Exists(c) => combined'[c] = combined[c]

LEMMA AsyncKept ==
  ASSUME ELTypes, ELTypes', NEW X, Calm(X), NEW T \in SUBSET Futures, NEW U, T \subseteq U,
         NEW f \in Asyncs, f \notin X, TouchedAsync(f, T)
  PROVE  TouchedAsync(f, U)'
<1>1. /\ \A g : Done(g) <=> g \in ToSet(exhausted)
      /\ \A g : Done(g)' <=> g \in ToSet(exhausted')
  BY DoneIs DEF ELTypes, Done
<1>2. f \notin Composites /\ f \in Futures
  BY LoopConstants DEF Futures
<1>3. /\ bodies' = bodies /\ saved'[f] = saved[f]
      /\ f \in ToSet(exhausted') => f \in ToSet(exhausted)
      /\ EnteredIn(frames, f) => EnteredIn(frames', f)
      /\ OnTopAt(frames, f, saved[f]) => OnTopAt(frames', f, saved[f])
      /\ f \in ToSet(ready) => f \in ToSet(ready') \/ f \in ToSet(exhausted')
  BY DEF Calm
<1>4. WaitsFor(f)' = WaitsFor(f)
  BY <1>2, <1>3 DEF WaitsFor
<1>5. Unstarted(f) => Unstarted(f)'
  BY <1>1, <1>3 DEF Unstarted
<1>6. ASSUME Asleep(f)' PROVE WillWake(f)'
  <2>1. f \notin ToSet(exhausted') /\ ~EnteredIn(frames', f) /\ f \notin ToSet(ready')
    BY <1>1, <1>6 DEF Asleep
  <2>2. ToSet(exhausted) \subseteq ToSet(exhausted')
    BY DEF Calm
  <2>3. Asleep(f)
    BY <1>1, <1>3, <2>1, <2>2 DEF Asleep
  <2>4. PICK g \in WaitsFor(f) : ~Done(g) /\ f \in ToSet(awaiters[g])
    BY <2>3 DEF TouchedAsync, WillWake
  <2>5. g \in Futures
    <3>1. bodies[f] \in Seq(Steps \X Futures)
      BY DEF ELTypes
    <3>2. PICK i \in {saved[f]} \cap DOMAIN bodies[f] : g = bodies[f][i][2]
      BY <1>2, <2>4 DEF WaitsFor
    <3>3. bodies[f][i] \in Steps \X Futures
      BY <3>1
    <3>4. QED
      BY <3>2, <3>3
  <2>6. g \notin ToSet(exhausted') /\ f \in ToSet(awaiters'[g])
    BY <1>1, <2>1, <2>4, <2>5 DEF Calm
  <2>7. QED
    BY <1>1, <1>4, <2>4, <2>6 DEF WillWake
<1>7. QED
  BY <1>4, <1>5, <1>6 DEF TouchedAsync

LEMMA CompositeKept ==
  ASSUME ELTypes, ELTypes', NEW X, Calm(X), NEW T \in SUBSET Futures, NEW U, T \subseteq U,
         NEW c \in Composites, c \notin X, Exists(c), TouchedComposite(c, T)
  PROVE  TouchedComposite(c, U)'
<1>1. /\ \A g : Done(g) <=> g \in ToSet(exhausted)
      /\ \A g : Done(g)' <=> g \in ToSet(exhausted')
  BY DoneIs DEF ELTypes, Done
<1>2. /\ combined'[c] = combined[c] /\ ToSet(exhausted) \subseteq ToSet(exhausted')
      /\ c \in ToSet(ready) => c \in ToSet(ready') \/ c \in ToSet(exhausted')
  BY DEF Calm
<1>3. PICK w : w = WaitsFor(c)
  OBVIOUS
<1>4. w = ToSet(combined[c].inputs) /\ WaitsFor(c)' = w
  BY <1>2, <1>3 DEF WaitsFor
<1>5. w \subseteq Futures /\ w = {InputsOf(c)[i] : i \in DOMAIN InputsOf(c)}
  <2>1. combined[c].inputs \in Seq(Futures)
    BY DEF ELTypes, Composite
  <2>2. QED
    BY <1>4, <2>1 DEF ToSet, InputsOf
<1>6. /\ w \subseteq T
      /\ ~Done(c) => \A g \in w : ~Done(g) => c \in ToSet(awaiters[g])
      /\ ~Done(c) /\ c \notin ToSet(ready) => ~PollDone(c)
  BY <1>3 DEF TouchedComposite
<1>7. ASSUME NEW g \in w, c \notin ToSet(exhausted'), g \notin ToSet(exhausted')
      PROVE  c \in ToSet(awaiters'[g])
  <2>1. c \in ToSet(awaiters[g]) /\ g \in Futures /\ g \notin ToSet(exhausted)
    BY <1>1, <1>2, <1>5, <1>6, <1>7
  <2>2. QED
    BY <1>7, <2>1 DEF Calm
<1>8. ASSUME c \notin ToSet(exhausted'), c \notin ToSet(ready') PROVE ~PollDone(c)'
  <2>1. c \notin ToSet(exhausted) /\ c \notin ToSet(ready)
    BY <1>2, <1>8
  <2>2. ~PollDone(c)
    BY <1>1, <1>6, <2>1
  <2>3. ASSUME NEW g \in w PROVE g \in ToSet(exhausted') <=> g \in ToSet(exhausted)
    <3>1. CASE g \in ToSet(exhausted') /\ g \notin ToSet(exhausted)
      <4>1. c \in ToSet(awaiters[g]) /\ g \in Futures
        BY <1>1, <1>5, <1>6, <2>1, <3>1
      <4>2. QED
        BY <1>8, <3>1, <4>1 DEF Calm
    <3>2. QED
      BY <1>2, <3>1
  <2>4. \A i \in DOMAIN InputsOf(c) : Done(InputsOf(c)[i])' <=> Done(InputsOf(c)[i])
    BY <1>1, <1>2, <1>5, <2>3 DEF InputsOf
  <2>5. InputsOf(c)' = InputsOf(c)
    BY <1>2 DEF InputsOf
  <2>6. DoneInputs(c)' = DoneInputs(c)
    BY <1>1, <1>5, <2>3, <2>5 DEF DoneInputs
  <2>7. QED
    BY <1>2, <2>2, <2>5, <2>6 DEF PollDone
<1>9. QED
  BY <1>1, <1>4, <1>6, <1>7, <1>8 DEF TouchedComposite

LEMMA StepKeeps ==
  ASSUME ELTypes, ELTypes', NEW X, Calm(X), NEW T \in SUBSET Futures, Touched(T),
         NEW U \in SUBSET Futures, T \subseteq U,
         ToSet(ready') \subseteq U, ToSet(exhausted') \subseteq U,
         \A i \in 1 .. Len(frames') : frames'[i].of \in U,
         \A f \in Futures : ToSet(awaiters'[f]) \subseteq U,
         \A c \in Composites : Exists(c)' <=> c \in U,
         \A f \in U \cap Asyncs : f \in X \/ f \notin T => TouchedAsync(f, U)',
         \A c \in U \cap Composites : c \in X \/ c \notin T => TouchedComposite(c, U)'
  PROVE  Touched(U)'
<1>1. /\ \A c \in Composites : Exists(c) <=> c \in T
      /\ \A f \in T \cap Asyncs : TouchedAsync(f, T)
      /\ \A c \in T \cap Composites : TouchedComposite(c, T)
  BY DEF Touched
<1>2. \A f \in U \cap Asyncs : TouchedAsync(f, U)'
  BY <1>1, AsyncKept
<1>3. \A c \in U \cap Composites : TouchedComposite(c, U)'
  BY <1>1, CompositeKept
<1>4. QED
  BY <1>2, <1>3 DEF Touched

(* A future that has just become ready, and was nowhere before.             *)
LEMMA NewlyReady ==
  ASSUME ELTypes', NEW U, NEW f \in Asyncs, f \in ToSet(ready'), f \notin ToSet(exhausted'),
         ~EnteredIn(frames', f)
  PROVE  TouchedAsync(f, U)'
<1>1. \A g : Done(g)' <=> g \in ToSet(exhausted')
  BY DoneIs DEF ELTypes, Done
<1>2. OnTopAt(frames', f, saved'[f])
  BY DEF OnTopAt, EnteredIn
<1>3. Unstarted(f)' /\ ~Asleep(f)'
  BY <1>1, <1>2 DEF Unstarted, Asleep
<1>4. QED
  BY <1>3 DEF TouchedAsync

-----------------------------------------------------------------------------
(* The steps of a frame. *)

LEMMA Seen ==
  ASSUME ELTypes
  PROVE  /\ bodies \in [Asyncs -> Seq(Steps \X Futures)] /\ combined \in [Composites -> Composite]
         /\ ready \in Seq(Futures) /\ exhausted \in Seq(Futures)
         /\ saved \in [Futures -> Nat \ {0}] /\ awaiters \in [Futures -> Seq(Futures)]
         /\ frames \in Seq(Entry) /\ runs \in Nat
         /\ ToSet(ready) \subseteq Futures /\ ToSet(exhausted) \subseteq Futures
         /\ DoneNow = ToSet(exhausted) /\ \A g : Done(g) <=> g \in ToSet(exhausted)
<1>1. DOMAIN ready = 1 .. Len(ready) /\ DOMAIN exhausted = 1 .. Len(exhausted)
  BY DEF ELTypes
<1>2. ToSet(ready) \subseteq Futures /\ ToSet(exhausted) \subseteq Futures
  BY <1>1 DEF ELTypes, ToSet
<1>3. QED
  BY <1>2, DoneIs DEF ELTypes, Done, DoneNow

LEMMA OnTop ==
  ASSUME ELTypes, frames # <<>>
  PROVE  /\ Len(frames) \in 1 .. Len(frames) /\ Len(frames) \in Nat
         /\ Last(frames) = frames[Len(frames)] /\ frames[Len(frames)] \in Entry
<1>1. frames \in Seq(Entry)
  BY DEF ELTypes
<1>2. Len(frames) \in 1 .. Len(frames) /\ Len(frames) \in Nat
  BY <1>1
<1>3. QED
  BY <1>1, <1>2 DEF Last

(* The frame on top, and who else may be unstarted.                         *)
LEMMA InFrame ==
  ASSUME ELTypes, Alternating(frames, bodies), Running
  PROVE  /\ Self \in Asyncs /\ Self \in Futures /\ Self \notin Composites /\ Ip \in Nat \ {0}
         /\ frames # <<>> /\ FrameOf(frames, Len(frames), Self)
         /\ frames[Len(frames)].at = Ip /\ ~frames[Len(frames)].loop
         /\ EnteredIn(frames, Self)
         /\ \A h, k : h # Self /\ OnTopAt(frames, h, k) => ~EnteredIn(frames, h)
         /\ \A k : OnTopAt(frames, Self, k) => k = Ip
<1>1. frames # <<>> /\ ~Last(frames).loop
  BY DEF Running
<1>2. PICK n : n = Len(frames)
  OBVIOUS
<1>3. /\ n \in 1 .. n /\ Last(frames) = frames[n] /\ frames[n] \in Entry
  BY <1>1, <1>2, OnTop
<1>4. Self = frames[n].of /\ Ip = frames[n].at /\ ~frames[n].loop
  BY <1>1, <1>3 DEF Self, Ip
<1>5. Self \in Asyncs
  BY <1>2, <1>3, <1>4 DEF Alternating
<1>6. Self \in Futures /\ Self \notin Composites
  BY <1>5, LoopConstants DEF Futures
<1>7. Ip \in Nat \ {0}
  BY <1>2, <1>3, <1>4 DEF Entry, Alternating
<1>8. FrameOf(frames, n, Self)
  BY <1>4 DEF FrameOf
<1>9. EnteredIn(frames, Self)
  BY <1>2, <1>3, <1>8 DEF EnteredIn
<1>10. \A h, k : h # Self /\ OnTopAt(frames, h, k) => ~EnteredIn(frames, h)
  BY <1>2, <1>4, NotBelow DEF FrameOf
<1>11. \A k : OnTopAt(frames, Self, k) => k = Ip
  BY <1>2, <1>3, <1>4, <1>8 DEF OnTopAt
<1>12. QED
  BY <1>1, <1>2, <1>4, <1>5, <1>6, <1>7, <1>8, <1>9, <1>10, <1>11

LEMMA SelfWaits ==
  ASSUME ELTypes, Alternating(frames, bodies), Running, NEW T, Touched(T)
  PROVE  /\ Self \in T
         /\ \/ WaitsFor(Self) \subseteq T
            \/ /\ Ip = saved[Self] /\ ~Done(Self)
               /\ WaitsFor(Self) = {bodies[Self][i][2] : i \in {Ip} \cap DOMAIN bodies[Self]}
<1>1. PICK f : f = Self
  OBVIOUS
<1>2. f \in Asyncs /\ f \notin Composites /\ \A k : OnTopAt(frames, f, k) => k = Ip
  BY <1>1, InFrame
<1>3. frames # <<>> /\ f = frames[Len(frames)].of
  BY <1>1, InFrame DEF FrameOf
<1>4. f \in T
  BY <1>3, OnTop DEF Touched
<1>5. WaitsFor(f) \subseteq T \/ Unstarted(f)
  BY <1>2, <1>4 DEF Touched, TouchedAsync
<1>6. CASE Unstarted(f)
  <2>1. OnTopAt(frames, f, saved[f]) /\ ~Done(f)
    BY <1>6 DEF Unstarted
  <2>2. saved[f] = Ip
    BY <1>2, <2>1
  <2>3. WaitsFor(f) = {bodies[f][i][2] : i \in {Ip} \cap DOMAIN bodies[f]}
    BY <1>2, <2>2 DEF WaitsFor
  <2>4. QED
    BY <1>1, <1>4, <2>1, <2>2, <2>3
<1>7. QED
  BY <1>1, <1>4, <1>5, <1>6

(* The step that the frame is at.                                           *)
LEMMA AtStep ==
  ASSUME ELTypes, Alternating(frames, bodies), Running, Ip <= Len(bodies[Self])
  PROVE  Ip \in DOMAIN bodies[Self] /\ Step[2] \in Futures /\ Step = bodies[Self][Ip]
<1>1. bodies[Self] \in Seq(Steps \X Futures) /\ Ip \in Nat \ {0}
  BY InFrame, Seen
<1>2. Ip \in DOMAIN bodies[Self]
  BY <1>1
<1>3. bodies[Self][Ip] \in Steps \X Futures
  BY <1>1, <1>2
<1>4. QED
  BY <1>2, <1>3 DEF Step

(* enqueue_future of one.                                                   *)
LEMMA EnqueuedOne ==
  ASSUME NEW queue \in Seq(Futures), NEW done, NEW f \in Futures
  PROVE  /\ Enqueued(queue, <<f>>, done) \in Seq(Futures)
         /\ ToSet(Enqueued(queue, <<f>>, done)) = ToSet(queue) \cup ({f} \ done)
<1>1. PICK list : list = <<f>>
  OBVIOUS
<1>2. list \in Seq(Futures) /\ ToSet(list) = {f}
  BY <1>1, InOne
<1>3. /\ Enqueued(queue, list, done) \in Seq(Futures)
      /\ ToSet(Enqueued(queue, list, done)) = ToSet(queue) \cup (ToSet(list) \ done)
  BY <1>2, EnqueuedIs
<1>4. QED
  BY <1>1, <1>2, <1>3

LEMMA AwaitDoneKeeps ==
  ASSUME ELTypes, Alternating(frames, bodies), NEW T \in SUBSET Futures, Touched(T), AwaitDone
  PROVE  ELTypes' /\ Alternating(frames', bodies') /\ Touched(T)'
<1>1. /\ Running /\ Ip <= Len(bodies[Self]) /\ Done(Step[2]) /\ frames' = Onward(frames)
      /\ UNCHANGED <<bodies, combined, ready, exhausted, saved, awaiters, result, runs>>
  BY DEF AwaitDone
<1>2. PICK f, s : f = Self /\ s = Onward(frames)
  OBVIOUS
<1>3. /\ f \in Asyncs /\ f \notin Composites /\ frames # <<>> /\ EnteredIn(frames, f)
      /\ \A h, k : h # f /\ OnTopAt(frames, h, k) => ~EnteredIn(frames, h)
  BY <1>1, <1>2, InFrame
<1>4. /\ s \in Seq(Entry) /\ Alternating(s, bodies) /\ Len(s) = Len(frames)
      /\ \A i \in 1 .. Len(frames) : s[i].of = frames[i].of
      /\ \A h : EnteredIn(s, h) <=> EnteredIn(frames, h)
  BY <1>2, <1>3, Seen, OnwardKeeps
<1>5. frames' = s
  BY <1>1, <1>2
<1>6. ELTypes'
  BY <1>1, <1>4, <1>5 DEF ELTypes
<1>7. Calm({f})
  <2>1. \A h, k : h # f /\ OnTopAt(frames, h, k) => OnTopAt(s, h, k)
    BY <1>3, <1>4 DEF OnTopAt, EnteredIn
  <2>2. QED
    BY <1>1, <1>4, <1>5, <2>1 DEF Calm
<1>8. TouchedAsync(f, T)'
  <2>1. WaitsFor(f)' = WaitsFor(f)
    BY <1>1, <1>3 DEF WaitsFor
  <2>2. Step[2] \in T
    BY <1>1, Seen DEF Touched
  <2>3. WaitsFor(f) \subseteq T
    <3>1. CASE WaitsFor(f) = {bodies[f][i][2] : i \in {Ip} \cap DOMAIN bodies[f]}
      BY <1>2, <2>2, <3>1 DEF Step
    <3>2. QED
      BY <1>1, <1>2, <3>1, SelfWaits
  <2>4. ~Asleep(f)'
    BY <1>3, <1>4, <1>5 DEF Asleep
  <2>5. QED
    BY <2>1, <2>3, <2>4 DEF TouchedAsync
<1>9. Touched(T)'
  <2>1. \A i \in 1 .. Len(frames') : frames'[i].of \in T
    BY <1>4, <1>5 DEF Touched
  <2>2. \A c \in Composites : Exists(c)' <=> c \in T
    BY <1>1 DEF Touched, Exists
  <2>3. /\ ToSet(ready') \subseteq T /\ ToSet(exhausted') \subseteq T
        /\ \A g \in Futures : ToSet(awaiters'[g]) \subseteq T
    BY <1>1 DEF Touched
  <2>4. QED
    BY <1>3, <1>6, <1>7, <1>8, <2>1, <2>2, <2>3, StepKeeps
<1>10. QED
  BY <1>1, <1>4, <1>5, <1>6, <1>9

LEMMA RunNestedKeeps ==
  ASSUME ELTypes, Alternating(frames, bodies), NEW T \in SUBSET Futures, Touched(T), RunNested
  PROVE  ELTypes' /\ Alternating(frames', bodies') /\ \E U \in SUBSET Futures : Touched(U)'
<1>1. PICK f, w, e, s, q : /\ f = Self /\ w = Step[2] /\ e = Loop(w) /\ s = Append(frames, e)
                           /\ q = Enqueued(ready, <<w>>, DoneNow)
  OBVIOUS
<1>2. /\ Running /\ Ip <= Len(bodies[f]) /\ Exists(w) /\ frames' = s /\ ready' = q
      /\ UNCHANGED <<bodies, combined, exhausted, saved, awaiters, result, runs>>
  BY <1>1 DEF RunNested
<1>3. /\ f \in Asyncs /\ f \notin Composites /\ frames # <<>> /\ EnteredIn(frames, f)
      /\ \A h, k : h # f /\ OnTopAt(frames, h, k) => ~EnteredIn(frames, h)
      /\ FrameOf(frames, Len(frames), f) /\ frames[Len(frames)].at = Ip
  BY <1>1, <1>2, InFrame
<1>4. Ip \in DOMAIN bodies[f] /\ w \in Futures /\ w = bodies[f][Ip][2]
  BY <1>1, <1>2, AtStep
<1>5. e \in Entry /\ e.loop /\ e.of = w
  BY <1>1, <1>4 DEF Loop, Entry
<1>6. /\ s \in Seq(Entry) /\ Alternating(s, bodies)
      /\ \A h : EnteredIn(s, h) <=> EnteredIn(frames, h)
      /\ \A h, k : ~EnteredIn(frames, h) => OnTopAt(s, h, k)
      /\ \A S : w \in S /\ (\A i \in 1 .. Len(frames) : frames[i].of \in S)
                    => \A i \in 1 .. Len(s) : s[i].of \in S
  <2>1. PICK p : p = frames[Len(frames)]
    OBVIOUS
  <2>2. p.of = f /\ ~p.loop /\ p.at = Ip /\ frames \in Seq(Entry)
    BY <1>3, <2>1, Seen DEF FrameOf
  <2>3. p.at \in DOMAIN bodies[p.of] /\ bodies[p.of][p.at][2] = e.of /\ p.loop = ~e.loop
    <3>1. p.at \in DOMAIN bodies[p.of] /\ bodies[p.of][p.at][2] = e.of
      BY <1>4, <1>5, <2>2
    <3>2. p \in Entry
      BY <1>3, <2>1, OnTop
    <3>3. QED
      BY <1>5, <2>2, <3>1, <3>2 DEF Entry
  <2>4. /\ Append(frames, e) \in Seq(Entry) /\ Alternating(Append(frames, e), bodies)
        /\ \A h : EnteredIn(Append(frames, e), h) <=> EnteredIn(frames, h)
        /\ \A h, k : ~EnteredIn(frames, h) => OnTopAt(Append(frames, e), h, k)
        /\ \A S : e.of \in S /\ (\A i \in 1 .. Len(frames) : frames[i].of \in S)
              => \A i \in 1 .. Len(Append(frames, e)) : Append(frames, e)[i].of \in S
    BY <1>3, <1>5, <2>1, <2>2, <2>3, PushKeeps
  <2>5. QED
    BY <1>1, <1>5, <2>4
<1>7. q \in Seq(Futures) /\ ToSet(q) = ToSet(ready) \cup ({w} \ ToSet(exhausted))
  <2>1. q \in Seq(Futures) /\ ToSet(q) = ToSet(ready) \cup ({w} \ DoneNow)
    BY <1>1, <1>4, Seen, EnqueuedOne
  <2>2. QED
    BY <2>1, Seen
<1>8. ELTypes'
  BY <1>2, <1>6, <1>7 DEF ELTypes
<1>9. PICK U : U = T \cup {w}
  OBVIOUS
<1>10. U \in SUBSET Futures /\ T \subseteq U /\ w \in U
  BY <1>4, <1>9
<1>11. Calm({f})
  BY <1>2, <1>3, <1>6, <1>7 DEF Calm
<1>12. TouchedAsync(f, U)'
  <2>1. WaitsFor(f)' = WaitsFor(f)
    BY <1>2, <1>3 DEF WaitsFor
  <2>2. WaitsFor(f) \subseteq U
    <3>1. CASE WaitsFor(f) = {bodies[f][i][2] : i \in {Ip} \cap DOMAIN bodies[f]}
      BY <1>4, <1>10, <3>1
    <3>2. QED
      BY <1>1, <1>2, <1>10, <3>1, SelfWaits
  <2>3. ~Asleep(f)'
    BY <1>2, <1>3, <1>6 DEF Asleep
  <2>4. QED
    BY <2>1, <2>2, <2>3 DEF TouchedAsync
<1>13. w \in Composites => w \in T
  BY <1>2 DEF Touched
<1>14. ASSUME w \in Asyncs, w \notin T PROVE TouchedAsync(w, U)'
  <2>1. w \notin ToSet(exhausted) /\ \A i \in 1 .. Len(frames) : frames[i].of # w
    BY <1>14 DEF Touched
  <2>2. ~EnteredIn(frames', w)
    BY <1>2, <1>6, <2>1 DEF EnteredIn, FrameOf
  <2>3. w \in ToSet(ready') /\ w \notin ToSet(exhausted')
    BY <1>2, <1>7, <2>1
  <2>4. QED
    BY <1>8, <1>14, <2>2, <2>3, NewlyReady
<1>15. Touched(U)'
  <2>1. \A i \in 1 .. Len(frames') : frames'[i].of \in U
    BY <1>2, <1>6, <1>10 DEF Touched
  <2>2. \A c \in Composites : Exists(c)' <=> c \in U
    BY <1>2, <1>9, <1>13 DEF Touched, Exists
  <2>3. /\ ToSet(ready') \subseteq U /\ ToSet(exhausted') \subseteq U
        /\ \A g \in Futures : ToSet(awaiters'[g]) \subseteq U
    BY <1>2, <1>7, <1>9 DEF Touched
  <2>4. \A g \in U \cap Asyncs : g \in {f} \/ g \notin T => TouchedAsync(g, U)'
    BY <1>9, <1>12, <1>14
  <2>5. \A c \in U \cap Composites : c \in {f} \/ c \notin T => TouchedComposite(c, U)'
    BY <1>3, <1>9, <1>13
  <2>6. QED
    BY <1>8, <1>10, <1>11, <2>1, <2>2, <2>3, <2>4, <2>5, StepKeeps
<1>16. QED
  BY <1>2, <1>6, <1>8, <1>10, <1>15

LEMMA AwaitKeeps ==
  ASSUME ELTypes, Alternating(frames, bodies), NEW T \in SUBSET Futures, Touched(T), Await
  PROVE  ELTypes' /\ Alternating(frames', bodies') /\ \E U \in SUBSET Futures : Touched(U)'
<1>1. PICK f, w, s, q : /\ f = Self /\ w = Step[2] /\ s = Front(frames)
                        /\ q = Enqueued(ready, <<w>>, DoneNow)
  OBVIOUS
<1>2. /\ Running /\ Ip <= Len(bodies[f]) /\ Exists(w) /\ ~Done(w) /\ frames' = s /\ ready' = q
      /\ saved' = [saved EXCEPT ![f] = Ip] /\ awaiters' = [awaiters EXCEPT ![w] = Append(@, f)]
      /\ UNCHANGED <<bodies, combined, exhausted, result, runs>>
  BY <1>1 DEF Await
<1>3. /\ f \in Asyncs /\ f \notin Composites /\ f \in Futures /\ frames # <<>> /\ Ip \in Nat \ {0}
      /\ \A h, k : h # f /\ OnTopAt(frames, h, k) => ~EnteredIn(frames, h)
      /\ FrameOf(frames, Len(frames), f)
  BY <1>1, <1>2, InFrame
<1>4. Ip \in DOMAIN bodies[f] /\ w \in Futures /\ w = bodies[f][Ip][2]
  BY <1>1, <1>2, AtStep
<1>5. /\ s \in Seq(Entry) /\ Alternating(s, bodies)
      /\ \A h : EnteredIn(frames, h) <=> EnteredIn(s, h) \/ FrameOf(frames, Len(frames), h)
      /\ \A h, k : ~EnteredIn(s, h) => OnTopAt(s, h, k)
      /\ \A i \in 1 .. Len(s) : i \in 1 .. Len(frames) /\ s[i] = frames[i]
  BY <1>1, <1>3, Seen, PopKeeps
<1>6. q \in Seq(Futures) /\ ToSet(q) = ToSet(ready) \cup {w} /\ w \notin ToSet(exhausted)
  <2>1. q \in Seq(Futures) /\ ToSet(q) = ToSet(ready) \cup ({w} \ DoneNow)
    BY <1>1, <1>4, Seen, EnqueuedOne
  <2>2. QED
    BY <1>2, <2>1, Seen
<1>7. /\ saved' \in [Futures -> Nat \ {0}] /\ saved'[f] = Ip
      /\ \A h \in Futures : h # f => saved'[h] = saved[h]
  BY <1>2, <1>3, Seen
<1>8. /\ awaiters' \in [Futures -> Seq(Futures)] /\ ToSet(awaiters'[w]) = ToSet(awaiters[w]) \cup {f}
      /\ \A g \in Futures : g # w => awaiters'[g] = awaiters[g]
  <2>1. PICK a : a = Append(awaiters[w], f)
    OBVIOUS
  <2>2. awaiters \in [Futures -> Seq(Futures)]
    BY Seen
  <2>3. a \in Seq(Futures) /\ ToSet(a) = ToSet(awaiters[w]) \cup {f}
    BY <1>3, <1>4, <2>1, <2>2, InAppend
  <2>4. awaiters' = [awaiters EXCEPT ![w] = a]
    BY <1>2, <2>1
  <2>5. QED
    BY <1>4, <2>2, <2>3, <2>4
<1>9. ELTypes'
  BY <1>2, <1>5, <1>6, <1>7, <1>8 DEF ELTypes
<1>10. PICK U : U = T \cup {w}
  OBVIOUS
<1>11. U \in SUBSET Futures /\ T \subseteq U /\ w \in U
  BY <1>4, <1>10
<1>12. Calm({f})
  <2>1. \A h \in Asyncs \ {f} :
          /\ saved'[h] = saved[h]
          /\ EnteredIn(frames, h) => EnteredIn(frames', h)
          /\ OnTopAt(frames, h, saved[h]) => OnTopAt(frames', h, saved[h])
    BY <1>2, <1>3, <1>5, <1>7 DEF FrameOf, Futures
  <2>2. \A g \in Futures : \A h \in ToSet(awaiters[g]) : h \in ToSet(awaiters'[g])
    BY <1>8
  <2>3. QED
    BY <1>2, <1>6, <2>1, <2>2 DEF Calm
<1>13. TouchedAsync(f, U)'
  <2>1. WaitsFor(f)' = {w}
    <3>1. WaitsFor(f)' = {bodies[f][i][2] : i \in {Ip} \cap DOMAIN bodies[f]}
      BY <1>2, <1>3, <1>7 DEF WaitsFor
    <3>2. QED
      BY <1>4, <3>1
  <2>2. ~Done(w)'
    BY <1>2 DEF Done
  <2>3. WillWake(f)'
    BY <1>8, <2>1, <2>2 DEF WillWake
  <2>4. QED
    BY <1>11, <2>1, <2>3 DEF TouchedAsync
<1>14. w \in Composites => w \in T
  BY <1>2 DEF Touched
<1>15. ASSUME w \in Asyncs, w \notin T PROVE TouchedAsync(w, U)'
  <2>1. \A i \in 1 .. Len(frames) : frames[i].of # w
    BY <1>15 DEF Touched
  <2>2. ~EnteredIn(frames', w)
    BY <1>2, <1>5, <2>1 DEF EnteredIn, FrameOf
  <2>3. w \in ToSet(ready') /\ w \notin ToSet(exhausted')
    BY <1>2, <1>6
  <2>4. QED
    BY <1>9, <1>15, <2>2, <2>3, NewlyReady
<1>16. Touched(U)'
  <2>1. \A i \in 1 .. Len(frames') : frames'[i].of \in U
    BY <1>2, <1>5, <1>11 DEF Touched
  <2>2. \A c \in Composites : Exists(c)' <=> c \in U
    BY <1>2, <1>10, <1>14 DEF Touched, Exists
  <2>3. f \in T
    BY <1>1, <1>2, SelfWaits
  <2>4. /\ ToSet(ready') \subseteq U /\ ToSet(exhausted') \subseteq U
        /\ \A g \in Futures : ToSet(awaiters'[g]) \subseteq U
    BY <1>2, <1>6, <1>8, <1>10, <2>3 DEF Touched
  <2>5. \A g \in U \cap Asyncs : g \in {f} \/ g \notin T => TouchedAsync(g, U)'
    BY <1>10, <1>13, <1>15
  <2>6. \A c \in U \cap Composites : c \in {f} \/ c \notin T => TouchedComposite(c, U)'
    BY <1>3, <1>10, <1>14
  <2>7. QED
    BY <1>9, <1>11, <1>12, <2>1, <2>2, <2>4, <2>5, <2>6, StepKeeps
<1>17. QED
  BY <1>2, <1>5, <1>9, <1>11, <1>16

(* Complete, as sets.                                                       *)
LEMMA Completed ==
  ASSUME NEW q \in Seq(Futures), NEW done \in Seq(Futures), NEW woken \in Seq(Futures),
         NEW f \in Futures
  PROVE  /\ Enqueued(q, woken, ToSet(done) \cup {f}) \in Seq(Futures)
         /\ ToSet(Enqueued(q, woken, ToSet(done) \cup {f})) =
               ToSet(q) \cup (ToSet(woken) \ (ToSet(done) \cup {f}))
         /\ Append(done, f) \in Seq(Futures) /\ ToSet(Append(done, f)) = ToSet(done) \cup {f}
  BY EnqueuedIs, InAppend

LEMMA ReturnKeeps ==
  ASSUME ELTypes, Alternating(frames, bodies), NEW T \in SUBSET Futures, Touched(T), Return
  PROVE  ELTypes' /\ Alternating(frames', bodies') /\ Touched(T)'
<1>1. PICK f, s, q, d : /\ f = Self /\ s = Front(frames)
                        /\ q = Enqueued(ready, awaiters[f], DoneNow \cup {f})
                        /\ d = IF Done(f) THEN exhausted ELSE Append(exhausted, f)
  OBVIOUS
<1>2. /\ Running /\ Ip > Len(bodies[f]) /\ frames' = s /\ ready' = q /\ exhausted' = d
      /\ awaiters' = [awaiters EXCEPT ![f] = <<>>]
      /\ UNCHANGED <<bodies, combined, saved, result, runs>>
  BY <1>1 DEF Return, Complete, Awakened
<1>3. /\ f \in Asyncs /\ f \notin Composites /\ f \in Futures /\ frames # <<>> /\ Ip \in Nat \ {0}
      /\ \A h, k : h # f /\ OnTopAt(frames, h, k) => ~EnteredIn(frames, h)
      /\ FrameOf(frames, Len(frames), f)
  BY <1>1, <1>2, InFrame
<1>4. /\ s \in Seq(Entry) /\ Alternating(s, bodies)
      /\ \A h : EnteredIn(frames, h) <=> EnteredIn(s, h) \/ FrameOf(frames, Len(frames), h)
      /\ \A h, k : ~EnteredIn(s, h) => OnTopAt(s, h, k)
      /\ \A i \in 1 .. Len(s) : i \in 1 .. Len(frames) /\ s[i] = frames[i]
  BY <1>1, <1>3, Seen, PopKeeps
<1>5. /\ awaiters \in [Futures -> Seq(Futures)] /\ ready \in Seq(Futures) /\ exhausted \in Seq(Futures)
      /\ DoneNow = ToSet(exhausted) /\ (Done(f) <=> f \in ToSet(exhausted))
  BY Seen
<1>6. /\ q \in Seq(Futures) /\ d \in Seq(Futures) /\ ToSet(d) = ToSet(exhausted) \cup {f}
      /\ ToSet(q) = ToSet(ready) \cup (ToSet(awaiters[f]) \ ToSet(d))
  <2>1. /\ q \in Seq(Futures)
        /\ ToSet(q) = ToSet(ready) \cup (ToSet(awaiters[f]) \ (ToSet(exhausted) \cup {f}))
        /\ Append(exhausted, f) \in Seq(Futures)
        /\ ToSet(Append(exhausted, f)) = ToSet(exhausted) \cup {f}
    <3>1. q = Enqueued(ready, awaiters[f], ToSet(exhausted) \cup {f}) /\ awaiters[f] \in Seq(Futures)
      BY <1>1, <1>3, <1>5
    <3>2. PICK r, x, a : r = ready /\ x = exhausted /\ a = awaiters[f]
      OBVIOUS
    <3>3. /\ Enqueued(r, a, ToSet(x) \cup {f}) \in Seq(Futures)
          /\ ToSet(Enqueued(r, a, ToSet(x) \cup {f})) = ToSet(r) \cup (ToSet(a) \ (ToSet(x) \cup {f}))
          /\ Append(x, f) \in Seq(Futures) /\ ToSet(Append(x, f)) = ToSet(x) \cup {f}
      <4>1. r \in Seq(Futures) /\ x \in Seq(Futures) /\ a \in Seq(Futures) /\ f \in Futures
        BY <1>3, <1>5, <3>1, <3>2
      <4>2. QED
        BY <4>1, Completed
    <3>4. QED
      BY <3>1, <3>2, <3>3
  <2>2. d \in Seq(Futures) /\ ToSet(d) = ToSet(exhausted) \cup {f}
    BY <1>1, <1>5, <2>1
  <2>3. QED
    BY <2>1, <2>2
<1>7. /\ awaiters' \in [Futures -> Seq(Futures)] /\ ToSet(awaiters'[f]) = {}
      /\ \A g \in Futures : g # f => awaiters'[g] = awaiters[g]
  BY <1>2, <1>3, <1>5, InNone
<1>8. ELTypes'
  BY <1>2, <1>4, <1>6, <1>7 DEF ELTypes
<1>9. Calm({f})
  <2>1. \A h \in Asyncs \ {f} :
          /\ EnteredIn(frames, h) => EnteredIn(frames', h)
          /\ OnTopAt(frames, h, saved[h]) => OnTopAt(frames', h, saved[h])
    BY <1>2, <1>3, <1>4 DEF FrameOf
  <2>2. \A g \in Futures : \A h \in ToSet(awaiters[g]) :
          \/ g \in ToSet(exhausted)
          \/ g \in ToSet(exhausted') /\ h \in ToSet(exhausted') \cup ToSet(ready')
          \/ g \notin ToSet(exhausted') /\ h \in ToSet(awaiters'[g])
    BY <1>2, <1>6, <1>7
  <2>3. QED
    BY <1>2, <1>6, <2>1, <2>2 DEF Calm
<1>10. TouchedAsync(f, T)'
  <2>1. WaitsFor(f)' = WaitsFor(f)
    BY <1>2, <1>3 DEF WaitsFor
  <2>2. Ip \notin DOMAIN bodies[f]
    <3>1. bodies[f] \in Seq(Steps \X Futures)
      BY <1>3, Seen
    <3>2. QED
      BY <1>2, <1>3, <3>1
  <2>3. WaitsFor(f) \subseteq T
    <3>1. CASE WaitsFor(f) = {bodies[f][i][2] : i \in {Ip} \cap DOMAIN bodies[f]}
      BY <2>2, <3>1
    <3>2. QED
      BY <1>1, <1>2, <3>1, SelfWaits
  <2>4. Done(f)'
    BY <1>2, <1>6, DoneIs DEF Done
  <2>5. QED
    BY <2>1, <2>3, <2>4 DEF TouchedAsync, Asleep
<1>11. Touched(T)'
  <2>1. \A i \in 1 .. Len(frames') : frames'[i].of \in T
    BY <1>2, <1>4 DEF Touched
  <2>2. \A c \in Composites : Exists(c)' <=> c \in T
    BY <1>2 DEF Touched, Exists
  <2>3. f \in T
    BY <1>1, <1>2, SelfWaits
  <2>4. /\ ToSet(ready') \subseteq T /\ ToSet(exhausted') \subseteq T
        /\ \A g \in Futures : ToSet(awaiters'[g]) \subseteq T
    BY <1>2, <1>3, <1>6, <1>7, <2>3 DEF Touched
  <2>5. QED
    BY <1>3, <1>8, <1>9, <1>10, <2>1, <2>2, <2>4, StepKeeps
<1>12. QED
  BY <1>2, <1>4, <1>8, <1>11

-----------------------------------------------------------------------------
(* The steps of a loop. *)

LEMMA InLoop ==
  ASSUME ELTypes, Alternating(frames, bodies), Looping
  PROVE  /\ frames # <<>> /\ frames[Len(frames)].loop
         /\ \A h : ~FrameOf(frames, Len(frames), h)
         /\ \A h, k : OnTopAt(frames, h, k) => ~EnteredIn(frames, h)
<1>1. frames # <<>> /\ frames[Len(frames)].loop
  BY OnTop DEF Looping
<1>2. \A h : ~FrameOf(frames, Len(frames), h)
  BY <1>1 DEF FrameOf
<1>3. QED
  BY <1>1, <1>2, NotBelow

LEMMA ResumeKeeps ==
  ASSUME ELTypes, Alternating(frames, bodies), NEW T \in SUBSET Futures, Touched(T), ResumeFuture
  PROVE  ELTypes' /\ Alternating(frames', bodies') /\ Touched(T)'
<1>1. PICK f, s, e, q : f = Head(ready) /\ e = Frame(f) /\ s = Append(frames, e) /\ q = Tail(ready)
  OBVIOUS
<1>2. /\ Looping /\ ready # <<>> /\ f \in Asyncs /\ ~Done(f) /\ frames' = s /\ ready' = q
      /\ UNCHANGED <<bodies, combined, exhausted, saved, awaiters, result, runs>>
  BY <1>1 DEF ResumeFuture, Popped
<1>3. /\ frames # <<>> /\ frames[Len(frames)].loop
      /\ \A h, k : OnTopAt(frames, h, k) => ~EnteredIn(frames, h)
  BY <1>2, InLoop
<1>4. /\ frames \in Seq(Entry) /\ ready \in Seq(Futures) /\ saved \in [Futures -> Nat \ {0}]
      /\ (Done(f) <=> f \in ToSet(exhausted))
  BY Seen
<1>5. f \in Futures /\ f \notin Composites
  BY <1>2, LoopConstants DEF Futures
<1>6. e \in Entry /\ ~e.loop /\ e.of = f /\ e.at = saved[f] /\ e.at # 0
  BY <1>1, <1>4, <1>5 DEF Frame, Entry
<1>7. /\ s \in Seq(Entry) /\ Alternating(s, bodies)
      /\ \A h : EnteredIn(s, h) <=> EnteredIn(frames, h) \/ h = f
      /\ \A h : ~EnteredIn(frames, h) => OnTopAt(s, h, saved[h])
      /\ \A S : f \in S /\ (\A i \in 1 .. Len(frames) : frames[i].of \in S)
                    => \A i \in 1 .. Len(s) : s[i].of \in S
  <2>1. PICK p : p = frames[Len(frames)]
    OBVIOUS
  <2>2. p.loop = ~e.loop
    <3>1. p \in Entry
      BY <1>3, <2>1, OnTop
    <3>2. QED
      BY <1>3, <1>6, <2>1, <3>1 DEF Entry
  <2>3. /\ Append(frames, e) \in Seq(Entry) /\ Alternating(Append(frames, e), bodies)
        /\ \A h : EnteredIn(Append(frames, e), h) <=> EnteredIn(frames, h) \/ e.of = h
        /\ \A h, k : ~EnteredIn(frames, h) /\ (e.of = h => e.at = k) => OnTopAt(Append(frames, e), h, k)
        /\ \A S : e.of \in S /\ (\A i \in 1 .. Len(frames) : frames[i].of \in S)
              => \A i \in 1 .. Len(Append(frames, e)) : Append(frames, e)[i].of \in S
    BY <1>2, <1>3, <1>4, <1>6, <2>1, <2>2, PushKeeps
  <2>4. QED
    BY <1>1, <1>6, <2>3
<1>8. /\ q \in Seq(Futures) /\ f \in ToSet(ready) /\ ToSet(ready) \ {f} \subseteq ToSet(q)
      /\ ToSet(q) \subseteq ToSet(ready)
  BY <1>1, <1>2, <1>4, InTail
<1>9. f \in T
  BY <1>8 DEF Touched
<1>10. ELTypes'
  BY <1>2, <1>7, <1>8 DEF ELTypes
<1>11. Calm({f})
  <2>1. \A h : EnteredIn(frames, h) => EnteredIn(frames', h)
    BY <1>2, <1>7
  <2>2. \A h : OnTopAt(frames, h, saved[h]) => OnTopAt(frames', h, saved[h])
    BY <1>2, <1>3, <1>7
  <2>3. QED
    BY <1>2, <1>8, <2>1, <2>2 DEF Calm
<1>12. TouchedAsync(f, T)'
  <2>1. WaitsFor(f)' = WaitsFor(f)
    BY <1>2, <1>5 DEF WaitsFor
  <2>2. WaitsFor(f) \subseteq T \/ Unstarted(f)
    BY <1>2, <1>9 DEF Touched, TouchedAsync
  <2>3. EnteredIn(frames', f)
    BY <1>2, <1>7
  <2>4. Unstarted(f) => Unstarted(f)'
    <3>1. Unstarted(f) => OnTopAt(frames', f, saved'[f])
      BY <1>2, <1>3, <1>7 DEF Unstarted
    <3>2. ~Done(f)'
      BY <1>2 DEF Done
    <3>3. QED
      BY <2>3, <3>1, <3>2 DEF Unstarted
  <2>5. ~Asleep(f)'
    BY <2>3 DEF Asleep
  <2>6. QED
    BY <2>1, <2>2, <2>4, <2>5 DEF TouchedAsync
<1>13. Touched(T)'
  <2>1. \A i \in 1 .. Len(frames') : frames'[i].of \in T
    BY <1>2, <1>7, <1>9 DEF Touched
  <2>2. \A c \in Composites : Exists(c)' <=> c \in T
    BY <1>2 DEF Touched, Exists
  <2>3. /\ ToSet(ready') \subseteq T /\ ToSet(exhausted') \subseteq T
        /\ \A g \in Futures : ToSet(awaiters'[g]) \subseteq T
    BY <1>2, <1>8 DEF Touched
  <2>4. QED
    BY <1>5, <1>10, <1>11, <1>12, <2>1, <2>2, <2>3, StepKeeps
<1>14. QED
  BY <1>2, <1>7, <1>10, <1>13

LEMMA SkipKeeps ==
  ASSUME ELTypes, Alternating(frames, bodies), NEW T \in SUBSET Futures, Touched(T), Skip
  PROVE  ELTypes' /\ Alternating(frames', bodies') /\ Touched(T)'
<1>1. /\ ready # <<>> /\ Done(Head(ready)) /\ ready' = Tail(ready)
      /\ UNCHANGED <<bodies, combined, exhausted, saved, awaiters, result, frames, runs>>
  BY DEF Skip, Popped
<1>2. /\ ready \in Seq(Futures) /\ Head(ready) \in ToSet(exhausted)
  BY <1>1, Seen
<1>3. /\ ready' \in Seq(Futures) /\ ToSet(ready) \ {Head(ready)} \subseteq ToSet(ready')
      /\ ToSet(ready') \subseteq ToSet(ready)
  BY <1>1, <1>2, InTail
<1>4. ELTypes'
  BY <1>1, <1>3 DEF ELTypes
<1>5. Calm({})
  BY <1>1, <1>2, <1>3 DEF Calm
<1>6. Touched(T)'
  <2>1. \A c \in Composites : Exists(c)' <=> c \in T
    BY <1>1 DEF Touched, Exists
  <2>2. /\ ToSet(ready') \subseteq T /\ ToSet(exhausted') \subseteq T
        /\ \A i \in 1 .. Len(frames') : frames'[i].of \in T
        /\ \A g \in Futures : ToSet(awaiters'[g]) \subseteq T
    BY <1>1, <1>3 DEF Touched
  <2>3. QED
    BY <1>4, <1>5, <2>1, <2>2, StepKeeps
<1>7. QED
  BY <1>1, <1>4, <1>6

LEMMA PollKeeps ==
  ASSUME ELTypes, Alternating(frames, bodies), NEW T \in SUBSET Futures, Touched(T), Poll
  PROVE  ELTypes' /\ Alternating(frames', bodies') /\ Touched(T)'
<1>1. PICK c, p : c = Head(ready) /\ p = Tail(ready)
  OBVIOUS
<1>2. /\ ready # <<>> /\ c \in Composites /\ ~Done(c)
      /\ UNCHANGED <<bodies, combined, saved, frames, runs>>
  BY <1>1 DEF Poll, Popped
<1>3. /\ ready \in Seq(Futures) /\ exhausted \in Seq(Futures) /\ awaiters \in [Futures -> Seq(Futures)]
      /\ DoneNow = ToSet(exhausted) /\ c \notin ToSet(exhausted)
  BY <1>2, Seen
<1>4. /\ p \in Seq(Futures) /\ c \in ToSet(ready) /\ ToSet(ready) \ {c} \subseteq ToSet(p)
      /\ ToSet(p) \subseteq ToSet(ready)
  BY <1>1, <1>2, <1>3, InTail
<1>5. c \in T /\ c \notin Asyncs /\ c \in Futures
  BY <1>2, <1>4, LoopConstants DEF Touched, Futures
<1>6. TouchedComposite(c, T) /\ WaitsFor(c)' = WaitsFor(c)
  BY <1>2, <1>5 DEF Touched, WaitsFor
<1>7. \A g \in Composites : Exists(g)' <=> g \in T
  BY <1>2 DEF Touched, Exists
<1>8. \A i \in 1 .. Len(frames') : frames'[i].of \in T
  BY <1>2 DEF Touched
<1>9. CASE ~PollDone(c)
  <2>1. ready' = p /\ UNCHANGED <<exhausted, awaiters, result>>
    BY <1>1, <1>9 DEF Poll
  <2>2. ELTypes'
    BY <1>2, <1>4, <2>1 DEF ELTypes
  <2>3. Calm({c})
    BY <1>2, <1>4, <2>1 DEF Calm
  <2>4. TouchedComposite(c, T)'
    <3>1. InputsOf(c)' = InputsOf(c)
      BY <1>2 DEF InputsOf
    <3>2. \A g : Done(g)' <=> Done(g)
      BY <2>1 DEF Done
    <3>3. DoneInputs(c)' = DoneInputs(c)
      BY <3>1, <3>2, <2>1 DEF DoneInputs, Done
    <3>4. ~PollDone(c)'
      BY <1>2, <1>9, <3>1, <3>3 DEF PollDone
    <3>5. QED
      BY <1>2, <1>6, <2>1, <3>2, <3>4 DEF TouchedComposite
  <2>5. /\ ToSet(ready') \subseteq T /\ ToSet(exhausted') \subseteq T
        /\ \A g \in Futures : ToSet(awaiters'[g]) \subseteq T
    BY <1>4, <2>1 DEF Touched
  <2>6. QED
    BY <1>2, <1>5, <1>7, <1>8, <2>2, <2>3, <2>4, <2>5, StepKeeps
<1>10. CASE PollDone(c)
  <2>1. PICK a, x : a = awaiters[c] /\ x = exhausted
    OBVIOUS
  <2>2. /\ exhausted' = Append(x, c) /\ ready' = Enqueued(p, a, ToSet(x) \cup {c})
        /\ awaiters' = [awaiters EXCEPT ![c] = <<>>]
    BY <1>1, <1>3, <1>10, <2>1 DEF Poll, Awakened
  <2>3. /\ exhausted' \in Seq(Futures) /\ ToSet(exhausted') = ToSet(x) \cup {c}
        /\ ready' \in Seq(Futures) /\ ToSet(ready') = ToSet(p) \cup (ToSet(a) \ ToSet(exhausted'))
    <3>1. /\ Enqueued(p, a, ToSet(x) \cup {c}) \in Seq(Futures)
          /\ ToSet(Enqueued(p, a, ToSet(x) \cup {c})) = ToSet(p) \cup (ToSet(a) \ (ToSet(x) \cup {c}))
          /\ Append(x, c) \in Seq(Futures) /\ ToSet(Append(x, c)) = ToSet(x) \cup {c}
      <4>1. p \in Seq(Futures) /\ x \in Seq(Futures) /\ a \in Seq(Futures) /\ c \in Futures
        BY <1>3, <1>4, <1>5, <2>1
      <4>2. QED
        BY <4>1, Completed
    <3>2. QED
      BY <2>2, <3>1
  <2>4. /\ awaiters' \in [Futures -> Seq(Futures)] /\ ToSet(awaiters'[c]) = {}
        /\ \A g \in Futures : g # c => awaiters'[g] = awaiters[g]
    BY <1>3, <1>5, <2>2, InNone
  <2>5. ELTypes'
    BY <1>2, <2>3, <2>4 DEF ELTypes
  <2>6. Calm({c})
    <3>1. \A g \in Futures : \A h \in ToSet(awaiters[g]) :
            \/ g \in ToSet(exhausted') /\ h \in ToSet(exhausted') \cup ToSet(ready')
            \/ g \notin ToSet(exhausted') /\ h \in ToSet(awaiters'[g])
            \/ g \in ToSet(exhausted)
      BY <2>1, <2>3, <2>4
    <3>2. QED
      BY <1>2, <1>4, <1>5, <2>1, <2>3, <3>1 DEF Calm
  <2>7. TouchedComposite(c, T)'
    <3>1. Done(c)'
      BY <2>3, DoneIs DEF Done
    <3>2. QED
      BY <1>6, <3>1 DEF TouchedComposite
  <2>8. /\ ToSet(ready') \subseteq T /\ ToSet(exhausted') \subseteq T
        /\ \A g \in Futures : ToSet(awaiters'[g]) \subseteq T
    BY <1>4, <1>5, <2>1, <2>3, <2>4 DEF Touched
  <2>9. QED
    BY <1>2, <1>5, <1>7, <1>8, <2>5, <2>6, <2>7, <2>8, StepKeeps
<1>11. QED
  BY <1>9, <1>10

LEMMA EndLoopKeeps ==
  ASSUME ELTypes, Alternating(frames, bodies), NEW T \in SUBSET Futures, Touched(T), EndLoop
  PROVE  ELTypes' /\ Alternating(frames', bodies') /\ Touched(T)'
<1>1. PICK s : s = Front(frames)
  OBVIOUS
<1>2. /\ Looping /\ frames' = IF Len(frames) = 1 THEN <<>> ELSE Onward(s)
      /\ UNCHANGED <<bodies, combined, ready, exhausted, saved, awaiters, result, runs>>
  BY <1>1 DEF EndLoop
<1>3. /\ frames # <<>> /\ frames \in Seq(Entry)
      /\ \A h : ~FrameOf(frames, Len(frames), h)
      /\ \A h, k : OnTopAt(frames, h, k) => ~EnteredIn(frames, h)
  BY <1>2, InLoop, Seen
<1>4. /\ s \in Seq(Entry) /\ Alternating(s, bodies) /\ Len(s) = Len(frames) - 1
      /\ \A h : EnteredIn(frames, h) <=> EnteredIn(s, h)
      /\ \A i \in 1 .. Len(s) : i \in 1 .. Len(frames) /\ s[i] = frames[i]
  BY <1>1, <1>3, PopKeeps
<1>5. /\ frames' \in Seq(Entry) /\ Alternating(frames', bodies)
      /\ \A h : EnteredIn(frames', h) <=> EnteredIn(frames, h)
      /\ \A i \in 1 .. Len(frames') : frames'[i].of \in T
  <2>1. CASE Len(frames) = 1
    <3>1. frames' = <<>> /\ s = <<>>
      BY <1>2, <1>4, <2>1
    <3>2. QED
      BY <1>4, <3>1
  <2>2. CASE Len(frames) # 1
    <3>1. frames' = Onward(s) /\ s # <<>>
      BY <1>2, <1>3, <1>4, <2>2
    <3>2. /\ Onward(s) \in Seq(Entry) /\ Alternating(Onward(s), bodies) /\ Len(Onward(s)) = Len(s)
          /\ \A i \in 1 .. Len(s) : Onward(s)[i].of = s[i].of
          /\ \A h : EnteredIn(Onward(s), h) <=> EnteredIn(s, h)
      BY <1>4, <3>1, OnwardKeeps
    <3>3. \A i \in 1 .. Len(s) : s[i].of \in T
      BY <1>4 DEF Touched
    <3>4. QED
      BY <1>4, <3>1, <3>2, <3>3
  <2>3. QED
    BY <2>1, <2>2
<1>6. ELTypes'
  BY <1>2, <1>5 DEF ELTypes
<1>7. Calm({})
  <2>1. \A h : OnTopAt(frames, h, saved[h]) => OnTopAt(frames', h, saved[h])
    BY <1>3, <1>5 DEF OnTopAt, EnteredIn
  <2>2. QED
    BY <1>2, <1>5, <2>1 DEF Calm
<1>8. Touched(T)'
  <2>1. \A c \in Composites : Exists(c)' <=> c \in T
    BY <1>2 DEF Touched, Exists
  <2>2. /\ ToSet(ready') \subseteq T /\ ToSet(exhausted') \subseteq T
        /\ \A g \in Futures : ToSet(awaiters'[g]) \subseteq T
    BY <1>2 DEF Touched
  <2>3. QED
    BY <1>5, <1>6, <1>7, <2>1, <2>2, StepKeeps
<1>9. QED
  BY <1>2, <1>5, <1>6, <1>8

-----------------------------------------------------------------------------
(* The main program. *)

LEMMA RunKeeps ==
  ASSUME ELTypes, Alternating(frames, bodies), NEW T \in SUBSET Futures, Touched(T),
         NEW f \in Futures, Run(f)
  PROVE  ELTypes' /\ Alternating(frames', bodies') /\ \E U \in SUBSET Futures : Touched(U)'
<1>1. PICK e, s, q : /\ e = Loop(f) /\ s = <<e>> /\ q = Enqueued(ready, <<f>>, DoneNow)
  OBVIOUS
<1>2. /\ frames = <<>> /\ runs' = runs + 1 /\ Exists(f) /\ frames' = s /\ ready' = q
      /\ UNCHANGED <<bodies, combined, exhausted, saved, awaiters, result>>
  BY <1>1 DEF Run, Main
<1>3. e \in Entry /\ e.loop /\ e.of = f
  BY <1>1 DEF Loop, Entry
<1>4. \A h : ~EnteredIn(frames, h)
  BY <1>2 DEF EnteredIn
<1>5. /\ s \in Seq(Entry) /\ Alternating(s, bodies)
      /\ \A h : ~EnteredIn(s, h)
      /\ \A h, k : OnTopAt(s, h, k)
      /\ \A i \in 1 .. Len(s) : s[i].of = f
  <2>1. s \in Seq(Entry) /\ Len(s) = 1 /\ s[1] = e /\ \A i \in 1 .. Len(s) : i = 1
    BY <1>1, <1>3
  <2>2. \A h : ~EnteredIn(s, h)
    BY <1>3, <2>1 DEF EnteredIn, FrameOf
  <2>3. Alternating(s, bodies)
    BY <1>3, <2>1 DEF Alternating
  <2>4. QED
    BY <1>3, <2>1, <2>2, <2>3 DEF OnTopAt, EnteredIn
<1>6. q \in Seq(Futures) /\ ToSet(q) = ToSet(ready) \cup ({f} \ ToSet(exhausted))
  BY <1>1, Seen, EnqueuedOne
<1>7. ELTypes'
  BY <1>2, <1>5, <1>6, Seen DEF ELTypes
<1>8. PICK U : U = T \cup {f}
  OBVIOUS
<1>9. U \in SUBSET Futures /\ T \subseteq U
  BY <1>8
<1>10. Calm({})
  BY <1>2, <1>4, <1>5, <1>6 DEF Calm
<1>11. f \in Composites => f \in T
  BY <1>2 DEF Touched
<1>12. ASSUME f \in Asyncs, f \notin T PROVE TouchedAsync(f, U)'
  <2>1. f \notin ToSet(exhausted)
    BY <1>12 DEF Touched
  <2>2. f \in ToSet(ready') /\ f \notin ToSet(exhausted') /\ ~EnteredIn(frames', f)
    BY <1>2, <1>5, <1>6, <2>1
  <2>3. QED
    BY <1>7, <1>12, <2>2, NewlyReady
<1>13. Touched(U)'
  <2>1. \A c \in Composites : Exists(c)' <=> c \in U
    BY <1>2, <1>8, <1>11 DEF Touched, Exists
  <2>2. /\ ToSet(ready') \subseteq U /\ ToSet(exhausted') \subseteq U
        /\ \A i \in 1 .. Len(frames') : frames'[i].of \in U
        /\ \A g \in Futures : ToSet(awaiters'[g]) \subseteq U
    BY <1>2, <1>5, <1>6, <1>8 DEF Touched
  <2>3. \A g \in U \cap Asyncs : g \in {} \/ g \notin T => TouchedAsync(g, U)'
    BY <1>8, <1>12
  <2>4. \A c \in U \cap Composites : c \in {} \/ c \notin T => TouchedComposite(c, U)'
    BY <1>8, <1>11
  <2>5. QED
    BY <1>7, <1>9, <1>10, <2>1, <2>2, <2>3, <2>4, StepKeeps
<1>14. QED
  BY <1>2, <1>5, <1>7, <1>9, <1>13

(* A composite registers once for every place that an input has.            *)
LEMMA Places ==
  ASSUME NEW inputs \in Seq(Futures), NEW f
  PROVE  /\ Cardinality(PlacesOf(inputs, f)) \in Nat
         /\ f \in ToSet(inputs) => Cardinality(PlacesOf(inputs, f)) > 0
<1>1. PICK n, p : n = Len(inputs) /\ p = PlacesOf(inputs, f)
  OBVIOUS
<1>2. n \in Nat /\ DOMAIN inputs = 1 .. n
  BY <1>1
<1>3. p = {i \in 1 .. n : inputs[i] = f}
  BY <1>1, <1>2 DEF PlacesOf
<1>4. IsFiniteSet(1 .. n)
  BY <1>2, FS_Interval
<1>5. IsFiniteSet(p)
  BY <1>3, <1>4, FS_Subset
<1>6. Cardinality(p) \in Nat /\ (Cardinality(p) = 0 <=> p = {})
  BY <1>5, FS_CardinalityType, FS_EmptySet
<1>7. f \in ToSet(inputs) => p # {}
  BY <1>2, <1>3 DEF ToSet
<1>8. QED
  BY <1>1, <1>6, <1>7

AndAgain(q, n, c) == q \o [i \in 1 .. n |-> c]

LEMMA Registered ==
  ASSUME NEW q \in Seq(Futures), NEW n \in Nat, NEW c \in Futures
  PROVE  /\ AndAgain(q, n, c) \in Seq(Futures)
         /\ ToSet(q) \subseteq ToSet(AndAgain(q, n, c))
         /\ ToSet(AndAgain(q, n, c)) \subseteq ToSet(q) \cup {c}
         /\ n > 0 => c \in ToSet(AndAgain(q, n, c))
<1>1. PICK r, p : r = [i \in 1 .. n |-> c] /\ p = q \o r /\ p = AndAgain(q, n, c)
  BY DEF AndAgain
<1>2. r \in Seq(Futures) /\ Len(r) = n /\ \A i \in 1 .. n : r[i] = c
  BY <1>1
<1>3. /\ p \in Seq(Futures) /\ Len(q) \in Nat /\ Len(p) = Len(q) + n
      /\ \A i \in 1 .. Len(p) : p[i] = IF i <= Len(q) THEN q[i] ELSE r[i - Len(q)]
  BY <1>1, <1>2
<1>4. DOMAIN p = 1 .. Len(p) /\ DOMAIN q = 1 .. Len(q)
  BY <1>3
<1>5. ASSUME NEW i \in 1 .. Len(q) PROVE i \in 1 .. Len(p) /\ p[i] = q[i]
  BY <1>3
<1>6. ASSUME NEW i \in 1 .. Len(p) PROVE p[i] = c \/ (i \in 1 .. Len(q) /\ p[i] = q[i])
  <2>1. CASE i <= Len(q)
    BY <1>3, <2>1
  <2>2. CASE ~(i <= Len(q))
    <3>1. i - Len(q) \in 1 .. n
      BY <1>3, <2>2
    <3>2. QED
      BY <1>2, <1>3, <2>2, <3>1
  <2>3. QED
    BY <2>1, <2>2
<1>7. ASSUME n > 0 PROVE c \in ToSet(p)
  <2>1. Len(q) + 1 \in 1 .. Len(p) /\ ~(Len(q) + 1 <= Len(q)) /\ (Len(q) + 1) - Len(q) = 1 /\ 1 \in 1 .. n
    BY <1>3, <1>7
  <2>2. p[Len(q) + 1] = c
    BY <1>2, <1>3, <2>1
  <2>3. QED
    BY <1>4, <2>1, <2>2 DEF ToSet
<1>8. ToSet(q) \subseteq ToSet(p)
  BY <1>4, <1>5 DEF ToSet
<1>9. ToSet(p) \subseteq ToSet(q) \cup {c}
  BY <1>4, <1>6 DEF ToSet
<1>10. QED
  BY <1>1, <1>3, <1>7, <1>8, <1>9

LEMMA CombineKeeps ==
  ASSUME ELTypes, Alternating(frames, bodies), NEW T \in SUBSET Futures, Touched(T),
         NEW c \in Composites, NEW kind \in {"race", "all", "sleep"}, NEW inputs \in Seq(Futures),
         Combine(c, kind, inputs)
  PROVE  ELTypes' /\ Alternating(frames', bodies') /\ \E U \in SUBSET Futures : Touched(U)'
<1>1. PICK m, q, l : /\ m = [kind |-> kind, inputs |-> inputs] /\ l = Append(inputs, c)
                     /\ q = Enqueued(ready, l, DoneNow)
  OBVIOUS
<1>2. /\ frames = <<>> /\ runs' = runs + 1 /\ ~Exists(c) /\ \A f \in ToSet(inputs) : Exists(f)
      /\ combined' = [combined EXCEPT ![c] = m] /\ ready' = q
      /\ awaiters' = [f \in Futures |->
            awaiters[f] \o [i \in 1..Cardinality(PlacesOf(inputs, f)) |-> c]]
      /\ UNCHANGED <<bodies, exhausted, saved, result, frames>>
  BY <1>1 DEF Combine, Main
<1>3. /\ combined \in [Composites -> Composite] /\ ready \in Seq(Futures)
      /\ awaiters \in [Futures -> Seq(Futures)] /\ DoneNow = ToSet(exhausted) /\ runs \in Nat
  BY Seen
<1>4. c \in Futures /\ c \notin Asyncs /\ m \in Composite
  BY <1>1, LoopConstants DEF Futures, Composite
<1>5. l \in Seq(Futures) /\ ToSet(l) = ToSet(inputs) \cup {c} /\ ToSet(inputs) \subseteq Futures
  <2>1. DOMAIN inputs = 1 .. Len(inputs)
    OBVIOUS
  <2>2. ToSet(inputs) \subseteq Futures
    BY <2>1 DEF ToSet
  <2>3. QED
    BY <1>1, <1>4, <2>2, InAppend
<1>6. q \in Seq(Futures) /\ ToSet(q) = ToSet(ready) \cup ((ToSet(inputs) \cup {c}) \ ToSet(exhausted))
  <2>1. PICK r : r = ready
    OBVIOUS
  <2>2. r \in Seq(Futures) /\ l \in Seq(Futures)
    BY <1>3, <1>5, <2>1
  <2>3. /\ Enqueued(r, l, DoneNow) \in Seq(Futures)
        /\ ToSet(Enqueued(r, l, DoneNow)) = ToSet(r) \cup (ToSet(l) \ DoneNow)
    BY <2>2, EnqueuedIs
  <2>4. QED
    BY <1>1, <1>3, <1>5, <2>1, <2>3
<1>7. combined' \in [Composites -> Composite] /\ combined'[c] = m
      /\ \A d \in Composites : d # c => combined'[d] = combined[d]
  BY <1>2, <1>3, <1>4
<1>8. /\ awaiters' \in [Futures -> Seq(Futures)]
      /\ \A f \in Futures : /\ ToSet(awaiters[f]) \subseteq ToSet(awaiters'[f])
                            /\ ToSet(awaiters'[f]) \subseteq ToSet(awaiters[f]) \cup {c}
                            /\ f \in ToSet(inputs) => c \in ToSet(awaiters'[f])
  <2>1. ASSUME NEW f \in Futures
        PROVE  /\ awaiters'[f] \in Seq(Futures)
               /\ ToSet(awaiters[f]) \subseteq ToSet(awaiters'[f])
               /\ ToSet(awaiters'[f]) \subseteq ToSet(awaiters[f]) \cup {c}
               /\ f \in ToSet(inputs) => c \in ToSet(awaiters'[f])
    <3>1. PICK a, n : a = awaiters[f] /\ n = Cardinality(PlacesOf(inputs, f))
      OBVIOUS
    <3>2. a \in Seq(Futures) /\ n \in Nat /\ (f \in ToSet(inputs) => n > 0)
      BY <1>3, <3>1, Places
    <3>3. /\ AndAgain(a, n, c) \in Seq(Futures)
          /\ ToSet(a) \subseteq ToSet(AndAgain(a, n, c))
          /\ ToSet(AndAgain(a, n, c)) \subseteq ToSet(a) \cup {c}
          /\ n > 0 => c \in ToSet(AndAgain(a, n, c))
      BY <1>4, <3>2, Registered
    <3>4. awaiters'[f] = AndAgain(a, n, c)
      BY <1>2, <3>1 DEF AndAgain
    <3>5. QED
      BY <3>1, <3>2, <3>3, <3>4
  <2>2. awaiters' = [f \in Futures |-> awaiters'[f]]
    BY <1>2
  <2>3. QED
    BY <2>1, <2>2
<1>9. ELTypes'
  BY <1>2, <1>3, <1>6, <1>7, <1>8 DEF ELTypes
<1>10. Alternating(frames', bodies')
  BY <1>2
<1>11. PICK U : U = T \cup {c} \cup ToSet(inputs)
  OBVIOUS
<1>12. U \in SUBSET Futures /\ T \subseteq U /\ c \in U /\ ToSet(inputs) \subseteq U
  BY <1>4, <1>5, <1>11
<1>13. c \notin T /\ c \notin ToSet(exhausted)
  BY <1>2 DEF Touched
<1>14. Calm({})
  <2>1. \A d \in Composites : Exists(d) => combined'[d] = combined[d]
    BY <1>2, <1>7
  <2>2. QED
    BY <1>2, <1>6, <1>8, <2>1 DEF Calm
<1>15. ASSUME NEW f \in Asyncs, f \in ToSet(inputs), f \notin T PROVE TouchedAsync(f, U)'
  <2>1. f \notin ToSet(exhausted)
    BY <1>15 DEF Touched
  <2>2. f \in ToSet(ready') /\ f \notin ToSet(exhausted') /\ ~EnteredIn(frames', f)
    BY <1>2, <1>6, <1>15, <2>1 DEF EnteredIn
  <2>3. QED
    BY <1>9, <1>15, <2>2, NewlyReady
<1>16. \A f \in ToSet(inputs) : f \in Composites => f \in T
  BY <1>2 DEF Touched
<1>17. TouchedComposite(c, U)'
  <2>1. WaitsFor(c)' = ToSet(inputs)
    BY <1>1, <1>7 DEF WaitsFor
  <2>2. c \in ToSet(ready')
    BY <1>2, <1>6, <1>13
  <2>3. QED
    BY <1>5, <1>8, <1>12, <2>1, <2>2 DEF TouchedComposite
<1>18. Touched(U)'
  <2>1. ASSUME NEW d \in Composites PROVE Exists(d)' <=> d \in U
    <3>1. d \notin Asyncs
      BY LoopConstants
    <3>2. CASE d = c
      <4>1. combined'[d].kind # "none"
        BY <1>1, <1>7, <3>2
      <4>2. QED
        BY <1>12, <3>2, <4>1 DEF Exists
    <3>3. CASE d # c
      <4>1. Exists(d)' <=> Exists(d)
        BY <1>7, <3>1, <3>3 DEF Exists
      <4>2. Exists(d) <=> d \in T
        BY DEF Touched
      <4>3. QED
        BY <1>11, <1>16, <3>3, <4>1, <4>2
    <3>4. QED
      BY <3>2, <3>3
  <2>2. /\ ToSet(ready') \subseteq U /\ ToSet(exhausted') \subseteq U
        /\ \A i \in 1 .. Len(frames') : frames'[i].of \in U
        /\ \A g \in Futures : ToSet(awaiters'[g]) \subseteq U
    BY <1>2, <1>6, <1>8, <1>12 DEF Touched
  <2>3. \A g \in U \cap Asyncs : g \in {} \/ g \notin T => TouchedAsync(g, U)'
    BY <1>4, <1>11, <1>15
  <2>4. \A d \in U \cap Composites : d \in {} \/ d \notin T => TouchedComposite(d, U)'
    BY <1>11, <1>16, <1>17
  <2>5. QED
    BY <1>9, <1>12, <1>14, <2>1, <2>2, <2>3, <2>4, StepKeeps
<1>19. QED
  BY <1>9, <1>10, <1>12, <1>18

LEMMA NobodyTouched ==
  ASSUME NotLoaded
  PROVE  Touched({}) /\ Alternating(frames, bodies)
<1>1. /\ ready = <<>> /\ exhausted = <<>> /\ frames = <<>>
      /\ \A f \in Futures : awaiters[f] = <<>>
      /\ \A c \in Composites : ~Exists(c)
  BY DEF NotLoaded
<1>2. Touched({})
  BY <1>1, InNone DEF Touched
<1>3. QED
  BY <1>1, <1>2 DEF Alternating

LEMMA LoadKeeps ==
  ASSUME ELTypes, NotLoaded, Load
  PROVE  ELTypes' /\ Alternating(frames', bodies') /\ Touched({})'
<1>1. /\ bodies' \in [Asyncs -> Bodies] /\ runs' = 1
      /\ UNCHANGED <<combined, ready, exhausted, saved, awaiters, result, frames>>
  BY DEF Load
<1>2. Bodies \subseteq Seq(Steps \X Futures)
  <2>1. ASSUME NEW b \in Bodies PROVE b \in Seq(Steps \X Futures)
    <3>1. PICK n \in 0 .. MaxSteps : b \in [1 .. n -> Steps \X Futures]
      BY DEF Bodies
    <3>2. n \in Nat
      OBVIOUS
    <3>3. QED
      BY <3>1, <3>2
  <2>2. QED
    BY <2>1
<1>3. ELTypes'
  BY <1>1, <1>2 DEF ELTypes
<1>4. NotLoaded'
  BY <1>1 DEF NotLoaded, Exists
<1>5. Touched({})' /\ Alternating(frames', bodies')
  BY <1>4, InNone DEF NotLoaded, Touched, Alternating
<1>6. QED
  BY <1>3, <1>5

-----------------------------------------------------------------------------
(* The theorems. *)

LEMMA ELInitially == ELInit => ELInv
<1> SUFFICES ASSUME ELInit PROVE ELInv
  OBVIOUS
<1>1. /\ bodies = [f \in Asyncs |-> <<>>]
      /\ combined = [c \in Composites |-> [kind |-> "none", inputs |-> <<>>]]
      /\ ready = <<>> /\ exhausted = <<>>
      /\ saved = [f \in Futures |-> 1]
      /\ awaiters = [f \in Futures |-> <<>>]
      /\ frames = <<>> /\ runs = 0
  BY DEF ELInit
<1>2. ELTypes
  BY <1>1 DEF ELTypes, Composite
<1>3. NotLoaded
  BY <1>1, LoopConstants DEF NotLoaded, Exists
<1>4. Touched({}) /\ Alternating(frames, bodies)
  BY <1>3, NobodyTouched
<1>5. QED
  BY <1>2, <1>3, <1>4 DEF ELInv, ELGood

LEMMA ELStep == ELInv /\ [ELNext]_ELvars => ELInv'
<1> SUFFICES ASSUME ELInv, [ELNext]_ELvars PROVE ELInv'
  OBVIOUS
<1>1. ELTypes /\ Alternating(frames, bodies) /\ runs \in Nat /\ (runs = 0 => NotLoaded)
  BY DEF ELInv, ELGood, ELTypes
<1>2. PICK T \in SUBSET Futures : Touched(T)
  BY DEF ELInv, ELGood
<1>3. frames # <<>> => runs # 0
  BY <1>1 DEF NotLoaded
<1> DEFINE Kept == ELTypes' /\ Alternating(frames', bodies') /\ \E U \in SUBSET Futures : Touched(U)'
<1>4. ASSUME Kept, runs' # 0 PROVE ELInv'
  BY <1>4 DEF ELInv, ELGood
<1>5. CASE Load
  <2>1. runs = 0 /\ runs' = 1
    BY <1>5 DEF Load
  <2>2. Kept
    BY <1>1, <1>5, <2>1, LoadKeeps
  <2>3. QED
    BY <1>4, <2>1, <2>2
<1>6. ASSUME NEW c \in Composites, NEW kind \in {"race", "all"}, NEW a \in Futures, NEW b \in Futures,
             Combine(c, kind, <<a, b>>)
      PROVE  ELInv'
  <2>1. PICK l : l = <<a, b>>
    OBVIOUS
  <2>2. l \in Seq(Futures) /\ Combine(c, kind, l) /\ kind \in {"race", "all", "sleep"}
    BY <1>6, <2>1
  <2>3. Kept
    BY <1>1, <1>2, <2>2, CombineKeeps
  <2>4. runs' # 0
    BY <1>1, <2>2 DEF Combine
  <2>5. QED
    BY <1>4, <2>3, <2>4
<1>7. ASSUME NEW c \in Composites, Combine(c, "sleep", <<>>) PROVE ELInv'
  <2>1. PICK l, kind : l = <<>> /\ kind = "sleep"
    OBVIOUS
  <2>2. l \in Seq(Futures) /\ Combine(c, kind, l) /\ kind \in {"race", "all", "sleep"}
    BY <1>7, <2>1
  <2>3. Kept
    BY <1>1, <1>2, <2>2, CombineKeeps
  <2>4. runs' # 0
    BY <1>1, <2>2 DEF Combine
  <2>5. QED
    BY <1>4, <2>3, <2>4
<1>8. ASSUME NEW f \in Futures, Run(f) PROVE ELInv'
  <2>1. Kept
    BY <1>1, <1>2, <1>8, RunKeeps
  <2>2. runs' # 0
    BY <1>1, <1>8 DEF Run
  <2>3. QED
    BY <1>4, <2>1, <2>2
<1>9. CASE AwaitDone
  <2>1. Kept
    BY <1>1, <1>2, <1>9, AwaitDoneKeeps
  <2>2. runs' # 0
    BY <1>3, <1>9 DEF AwaitDone, Running
  <2>3. QED
    BY <1>4, <2>1, <2>2
<1>10. CASE Await
  <2>1. Kept
    BY <1>1, <1>2, <1>10, AwaitKeeps
  <2>2. runs' # 0
    BY <1>3, <1>10 DEF Await, Running
  <2>3. QED
    BY <1>4, <2>1, <2>2
<1>11. CASE RunNested
  <2>1. Kept
    BY <1>1, <1>2, <1>11, RunNestedKeeps
  <2>2. runs' # 0
    BY <1>3, <1>11 DEF RunNested, Running
  <2>3. QED
    BY <1>4, <2>1, <2>2
<1>12. CASE Return
  <2>1. Kept
    BY <1>1, <1>2, <1>12, ReturnKeeps
  <2>2. runs' # 0
    BY <1>3, <1>12 DEF Return, Running
  <2>3. QED
    BY <1>4, <2>1, <2>2
<1>13. CASE Skip
  <2>1. Kept
    BY <1>1, <1>2, <1>13, SkipKeeps
  <2>2. runs' # 0
    BY <1>3, <1>13 DEF Skip, Popped, Looping
  <2>3. QED
    BY <1>4, <2>1, <2>2
<1>14. CASE ResumeFuture
  <2>1. Kept
    BY <1>1, <1>2, <1>14, ResumeKeeps
  <2>2. runs' # 0
    BY <1>3, <1>14 DEF ResumeFuture, Popped, Looping
  <2>3. QED
    BY <1>4, <2>1, <2>2
<1>15. CASE Poll
  <2>1. Kept
    BY <1>1, <1>2, <1>15, PollKeeps
  <2>2. runs' # 0
    BY <1>3, <1>15 DEF Poll, Popped, Looping
  <2>3. QED
    BY <1>4, <2>1, <2>2
<1>16. CASE EndLoop
  <2>1. Kept
    BY <1>1, <1>2, <1>16, EndLoopKeeps
  <2>2. runs' # 0
    BY <1>3, <1>16 DEF EndLoop, Looping
  <2>3. QED
    BY <1>4, <2>1, <2>2
<1>17. CASE UNCHANGED ELvars
  <2>1. UNCHANGED <<bodies, combined, ready, exhausted, saved, awaiters, result, frames, runs>>
    BY <1>17 DEF ELvars
  <2>2. ELTypes'
    BY <1>1, <2>1 DEF ELTypes
  <2>3. Calm({})
    BY <2>1 DEF Calm
  <2>4. /\ ToSet(ready') \subseteq T /\ ToSet(exhausted') \subseteq T
        /\ \A i \in 1 .. Len(frames') : frames'[i].of \in T
        /\ \A g \in Futures : ToSet(awaiters'[g]) \subseteq T
    BY <1>2, <2>1 DEF Touched
  <2>5. \A c \in Composites : Exists(c)' <=> c \in T
    BY <1>2, <2>1 DEF Touched, Exists
  <2>6. Touched(T)'
    BY <1>1, <1>2, <2>2, <2>3, <2>4, <2>5, StepKeeps
  <2>7. runs' = 0 => NotLoaded'
    BY <1>1, <2>1 DEF NotLoaded, Exists
  <2>8. QED
    BY <1>1, <2>1, <2>2, <2>6, <2>7 DEF ELInv, ELGood
<1>18. QED
  BY <1>5, <1>6, <1>7, <1>8, <1>9, <1>10, <1>11, <1>12, <1>13, <1>14, <1>15, <1>16, <1>17 DEF ELNext

(* A future goes on from where it is: whatever the loop has ready or on its *)
(* stack is in T, and everything that a member of T waits for.              *)
THEOREM EventLoopInvariant == ELSpec => []ELInv
<1>1. ELInit => ELInv
  BY ELInitially
<1>2. ELInv /\ [ELNext]_ELvars => ELInv'
  BY ELStep
<1>3. QED
  BY <1>1, <1>2, PTL DEF ELSpec

BehindIs(f, n, g) ==
    g = [i \in 0 .. n |->
            IF i = 0 THEN {f} ELSE g[i - 1] \cup UNION {WaitsFor(h) : h \in g[i - 1]}]

LEMMA BehindExists ==
  ASSUME NEW f, NEW N \in Nat
  PROVE  \E g : BehindIs(f, N, g)
<1> DEFINE Grown(s) == s \cup UNION {WaitsFor(h) : h \in s}
<1>0. ASSUME NEW n, NEW g
      PROVE  BehindIs(f, n, g) <=> g = [i \in 0 .. n |-> IF i = 0 THEN {f} ELSE Grown(g[i - 1])]
  BY DEF BehindIs
<1> HIDE DEF Grown
<1>1. PICK S : S = {n \in Nat : \E g : BehindIs(f, n, g)}
  OBVIOUS
<1>2. 0 \in S
  <2>1. PICK g : g = [i \in 0 .. 0 |-> {f}]
    OBVIOUS
  <2>2. g = [i \in 0 .. 0 |-> IF i = 0 THEN {f} ELSE Grown(g[i - 1])]
    <3>1. \A i \in 0 .. 0 : i = 0
      OBVIOUS
    <3>2. QED
      BY <2>1, <3>1
  <2>3. BehindIs(f, 0, g)
    BY <1>0, <2>2, Zenon
  <2>4. QED
    BY <1>1, <2>3
<1>3. ASSUME NEW k \in 0 .. N, k + 1 <= N, k \in S PROVE k + 1 \in S
  <2>1. PICK g : g = [i \in 0 .. k |-> IF i = 0 THEN {f} ELSE Grown(g[i - 1])]
    BY <1>0, <1>1, <1>3
  <2>2. PICK h : h = [i \in 0 .. k + 1 |-> IF i = k + 1 THEN Grown(g[k]) ELSE g[i]]
    OBVIOUS
  <2>3. k \in Nat /\ k + 1 \in Nat
    OBVIOUS
  <2>4. \A i \in 0 .. k : h[i] = g[i] /\ i # k + 1
    BY <2>2, <2>3
  <2>5. ASSUME NEW i \in 0 .. k + 1
        PROVE  h[i] = IF i = 0 THEN {f} ELSE Grown(h[i - 1])
    <3>1. CASE i = k + 1
      <4>1. h[i] = Grown(g[k]) /\ i # 0 /\ i - 1 = k
        BY <2>2, <2>3, <3>1
      <4>2. h[k] = g[k]
        BY <2>3, <2>4
      <4>3. QED
        BY <4>1, <4>2
    <3>2. CASE i # k + 1
      <4>1. i \in 0 .. k /\ (i # 0 => i - 1 \in 0 .. k)
        BY <2>3, <3>2
      <4>2. g[i] = IF i = 0 THEN {f} ELSE Grown(g[i - 1])
        BY <2>1, <4>1
      <4>3. QED
        BY <2>4, <4>1, <4>2
    <3>3. QED
      BY <3>1, <3>2
  <2>6. h = [i \in 0 .. k + 1 |-> h[i]]
    BY <2>2
  <2>7. BehindIs(f, k + 1, h)
    BY <1>0, <2>5, <2>6
  <2>8. QED
    BY <1>1, <2>3, <2>7
<1>4. 0 .. N \subseteq S
  BY <1>2, <1>3, UpTo
<1>5. N \in S
  BY <1>4
<1>6. QED
  BY <1>1, <1>5

(* A set that holds what its members wait for holds all that is behind one. *)
LEMMA BehindIn ==
  ASSUME NEW T, \A h \in T : WaitsFor(h) \subseteq T, NEW f \in T
  PROVE  Behind(f) \subseteq T
<1>1. PICK N : N = Cardinality(Futures)
  OBVIOUS
<1>2. N \in Nat
  BY <1>1, LoopConstants, FS_CardinalityType DEF Futures
<1>3. PICK g : BehindIs(f, N, g) /\ Behind(f) = g[N]
  <2>1. \E g : BehindIs(f, N, g)
    BY <1>2, BehindExists
  <2>2. Behind(f) = (CHOOSE g : BehindIs(f, N, g))[N]
    BY <1>1, Zenon DEF Behind, BehindIs
  <2>3. QED
    BY <2>1, <2>2, Zenon
<1>4. /\ g[0] = {f}
      /\ \A i \in 1 .. N : g[i] = g[i - 1] \cup UNION {WaitsFor(h) : h \in g[i - 1]}
  <2>1. 0 \in 0 .. N /\ \A i \in 1 .. N : i \in 0 .. N /\ i # 0
    BY <1>2
  <2>2. QED
    BY <1>3, <2>1 DEF BehindIs
<1>5. PICK S : S = {k \in Nat : g[k] \subseteq T}
  OBVIOUS
<1>6. 0 \in S
  BY <1>4, <1>5
<1>7. ASSUME NEW k \in 0 .. N, k + 1 <= N, k \in S PROVE k + 1 \in S
  <2>1. k + 1 \in Nat /\ k + 1 \in 1 .. N /\ (k + 1) - 1 = k
    BY <1>2, <1>7
  <2>2. PICK s : s = g[k]
    OBVIOUS
  <2>3. g[k + 1] = s \cup UNION {WaitsFor(h) : h \in s} /\ s \subseteq T
    BY <1>4, <1>5, <1>7, <2>1, <2>2
  <2>4. g[k + 1] \subseteq T
    BY <2>3
  <2>5. QED
    BY <1>5, <2>1, <2>4
<1>8. 0 .. N \subseteq S
  BY <1>2, <1>6, <1>7, UpTo
<1>9. N \in S
  BY <1>2, <1>8
<1>10. QED
  BY <1>3, <1>5, <1>9

LEMMA InvWakes == ELInv => NobodyLeftAsleep
<1> SUFFICES ASSUME ELInv, Looping, ready = <<>>
             PROVE  \A f \in Behind(Last(frames).of) : Done(f) \/ Blocked(f)
  BY DEF NobodyLeftAsleep
<1>1. ELTypes /\ Alternating(frames, bodies)
  BY DEF ELInv, ELGood
<1>2. PICK T \in SUBSET Futures : Touched(T)
  BY DEF ELInv, ELGood
<1>3. /\ frames # <<>> /\ \A h, k : OnTopAt(frames, h, k) => ~EnteredIn(frames, h)
  BY <1>1, InLoop
<1>4. ToSet(ready) = {}
  BY InNone
<1>5. ASSUME NEW f \in T, f \in Composites PROVE WaitsFor(f) \subseteq T /\ (Done(f) \/ Blocked(f))
  <2>1. TouchedComposite(f, T)
    BY <1>2, <1>5 DEF Touched
  <2>2. QED
    BY <1>4, <1>5, <2>1 DEF TouchedComposite, Blocked
<1>6. ASSUME NEW f \in T, f \in Asyncs PROVE WaitsFor(f) \subseteq T /\ (Done(f) \/ Blocked(f))
  <2>1. TouchedAsync(f, T) /\ f \notin Composites
    BY <1>2, <1>6, LoopConstants DEF Touched
  <2>2. ~Unstarted(f)
    BY <1>3, <1>4 DEF Unstarted
  <2>3. EnteredIn(frames, f) => Entered(f)
    BY DEF EnteredIn, FrameOf, Entered
  <2>4. Asleep(f) => \E g \in WaitsFor(f) : ~Done(g)
    BY <2>1 DEF TouchedAsync, WillWake
  <2>5. Done(f) \/ Blocked(f)
    BY <1>4, <2>1, <2>3, <2>4 DEF Asleep, Blocked
  <2>6. QED
    BY <2>1, <2>2, <2>5 DEF TouchedAsync
<1>7. \A f \in T : WaitsFor(f) \subseteq T /\ (Done(f) \/ Blocked(f))
  BY <1>5, <1>6 DEF Futures
<1>8. Last(frames).of \in T
  BY <1>1, <1>2, <1>3, OnTop DEF Touched
<1>9. Behind(Last(frames).of) \subseteq T
  BY <1>7, <1>8, BehindIn
<1>10. QED
  BY <1>7, <1>9

(* Whatever the program, and however many futures: when a loop finds that   *)
(* nothing is ready, nobody behind the future it runs has been left asleep  *)
(* that could go on.                                                        *)
THEOREM NobodyIsLeftAsleep == ELSpec => []NobodyLeftAsleep
<1>1. ELInv => NobodyLeftAsleep
  BY InvWakes
<1>2. QED
  BY <1>1, EventLoopInvariant, PTL
=============================================================================
