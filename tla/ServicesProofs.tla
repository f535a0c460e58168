---------------------------- MODULE ServicesProofs -----------------------------
(***************************************************************************)
(* Proofs about three services that share no state (RateLimit, DailyHunt   *)
(* and MentorReply), each for every value of its constants.                *)
(***************************************************************************)
EXTENDS RateLimit, DailyHunt, MentorReply, FiniteSetTheorems, WellFoundedInduction, TLAPS

\* A nonempty set of numbers has a least member.
LEMMA LeastNumber ==
    ASSUME NEW T \in SUBSET Nat, T # {}
    PROVE  \E m \in T : \A n \in T : m <= n
  <1>1. PICK m \in T : \A n \in T : ~ (<<n, m>> \in OpToRel(<, Nat))
    BY NatLessThanWellFounded, WFMin
  <1>2. \A n \in T : ~(n < m) /\ n \in Nat /\ m \in Nat
    BY <1>1 DEF OpToRel
  <1>3. \A n \in T : m <= n
    BY <1>2
  <1>4. QED
    BY <1>3

-----------------------------------------------------------------------------
(***************************************************************************)
(* Proofs about RateLimit, for every set of keys with any windows and      *)
(* numbers of calls, and for ever.                                         *)
(*                                                                         *)
(* What is kept for a key is the end of the list of its allowed calls.     *)
(* That alone bounds nothing: the invariant must also say why the calls    *)
(* before it are not kept any more.  Either the last of them has left the  *)
(* key's own window, or a sweep found the key idle, and then there was no  *)
(* call for at least the shortest window after it (Forgotten).             *)
(***************************************************************************)

Ordered(a, t) == /\ \A i \in DOMAIN a : a[i] <= t
                 /\ \A i, j \in DOMAIN a : i <= j => a[i] <= a[j]

\* h is a without its first d members.
IsRest(h, a, d) ==
    /\ d \in 0..Len(a) /\ Len(h) = Len(a) - d
    /\ \A i \in 1..Len(h) : h[i] = a[d + i]

\* Why the first d of the calls a are not kept at time t, when the window is w.
Forgotten(a, d, w, t) ==
    d > 0 => \/ t - a[d] >= w
             \/ d < Len(a) /\ a[d + 1] - a[d] >= Shortest
             \/ d = Len(a) /\ t - a[d] >= Shortest

KeptOrForgotten(h, a, w, t) == \E d \in 0..Len(a) : IsRest(h, a, d) /\ Forgotten(a, d, w, t)

\* No more calls than m in w, but after a silence.
Bounded(times, m, w) ==
    \A i \in DOMAIN times :
        (i + m \in DOMAIN times /\ times[i + m] - times[i] < w) =>
            \E n \in i .. (i + m) - 1 : times[n + 1] - times[n] >= Shortest

RateInv ==
    /\ RateTypeOK
    /\ \A k \in Keys : /\ Ordered(allowed[k], clock)
                       /\ KeptOrForgotten(hits[k], allowed[k], Window[k], clock)
                       /\ Bounded(allowed[k], MaxCalls[k], Window[k])
-----------------------------------------------------------------------------
LEMMA ShortestIsLeast ==
    \A k \in Keys : Window[k] \in Nat /\ Shortest \in Nat /\ Shortest <= Window[k]
  <1>. SUFFICES ASSUME NEW k \in Keys
                PROVE  Window[k] \in Nat /\ Shortest \in Nat /\ Shortest <= Window[k]
    OBVIOUS
  <1>. DEFINE W == {Window[q] : q \in Keys}
  <1>1. W \in SUBSET Nat /\ Window[k] \in W
    BY RateAssumption
  <1>. HIDE DEF W
  <1>2. PICK m \in W : \A n \in W : m <= n
    BY <1>1, LeastNumber
  <1>3. Min(W) \in W /\ \A n \in W : Min(W) <= n
    BY <1>2, Zenon DEF Min
  <1>4. Shortest = Min(W)
    BY Zenon DEF Shortest, W
  <1>5. QED
    BY <1>1, <1>3, <1>4

LEMMA FirstNumbers ==
    ASSUME NEW n \in Nat
    PROVE  IsFiniteSet(1..n) /\ Cardinality(1..n) = n
  <1>1. 1 \in Int /\ n \in Int
    OBVIOUS
  <1>2. /\ IsFiniteSet(1..n)
        /\ Cardinality(1..n) = IF 1 > n THEN 0 ELSE n - 1 + 1
    BY <1>1, FS_Interval
  <1>3. QED
    BY <1>2

\* The calls that are popped are the first ones, and all of them are outside the window.
LEMMA PoppedAreOldest ==
    ASSUME NEW s \in Seq(Nat), NEW w \in Nat
    PROVE  /\ Cardinality(Popped(s, w)) \in 0..Len(s)
           /\ \A i \in 1..Cardinality(Popped(s, w)) : clock - s[i] >= w
  <1>. DEFINE P == Popped(s, w)
              n == Cardinality(P)
  <1>1. P \subseteq 1..Len(s) /\ Len(s) \in Nat
    BY DEF Popped
  <1>2. IsFiniteSet(1..Len(s)) /\ Cardinality(1..Len(s)) = Len(s)
    <2>1. Len(s) \in Nat
      BY <1>1
    <2>2. QED
      BY <2>1, FirstNumbers
  <1>3. IsFiniteSet(P) /\ n \in Nat /\ n <= Len(s)
    BY <1>1, <1>2, FS_Subset, FS_CardinalityType
  <1>4. ASSUME n > 0 PROVE n \in P
    <2>1. SUFFICES ASSUME n \notin P PROVE FALSE
      OBVIOUS
    <2>2. P \subseteq 1..(n - 1)
      <3>1. ASSUME NEW i \in P, i >= n PROVE FALSE
        <4>1. i \in 1..Len(s) /\ \A j \in 1..i : clock - s[j] >= w
          BY <1>1 DEF Popped
        <4>2. n \in 1..Len(s) /\ \A j \in 1..n : clock - s[j] >= w
          BY <1>3, <1>4, <3>1, <4>1
        <4>3. n \in DOMAIN s
          BY <4>2
        <4>4. QED
          BY <2>1, <4>2, <4>3 DEF Popped
      <3>2. QED
        BY <1>1, <1>3, <3>1
    <2>3. IsFiniteSet(1..(n - 1)) /\ Cardinality(1..(n - 1)) = n - 1
      <3>1. n - 1 \in Nat
        BY <1>3, <1>4
      <3>2. QED
        BY <3>1, FirstNumbers
    <2>4. n <= n - 1
      BY <2>2, <2>3, FS_Subset
    <2>5. QED
      BY <1>3, <2>4
  <1>5. \A i \in 1..n : clock - s[i] >= w
    BY <1>3, <1>4 DEF Popped
  <1>6. QED
    BY <1>3, <1>5

\* Pruning forgets only what has left the window.
LEMMA PruneKeeps ==
    ASSUME NEW h \in Seq(Nat), NEW a \in Seq(Nat), NEW w \in Nat, clock \in Nat,
           KeptOrForgotten(h, a, w, clock)
    PROVE  /\ Recent(h, w) \in Seq(Nat)
           /\ KeptOrForgotten(Recent(h, w), a, w, clock)
  <1>. DEFINE n == Cardinality(Popped(h, w))
              r == Recent(h, w)
  <1>1. n \in 0..Len(h) /\ \A i \in 1..n : clock - h[i] >= w
    BY PoppedAreOldest
  <1>. HIDE DEF n
  <1>2. r = SubSeq(h, n + 1, Len(h))
    BY DEF Recent, n
  <1>3. /\ r \in Seq(Nat) /\ Len(r) = Len(h) - n
        /\ \A i \in 1..Len(r) : r[i] = h[n + i]
    BY <1>1, <1>2
  <1>. HIDE DEF r
  <1>4. PICK d \in 0..Len(a) : IsRest(h, a, d) /\ Forgotten(a, d, w, clock)
    BY DEF KeptOrForgotten
  <1>5. /\ Len(h) = Len(a) - d /\ Len(a) \in Nat /\ Len(h) \in Nat
        /\ \A i \in 1..Len(h) : h[i] = a[d + i]
    BY SMTT(40), <1>4 DEF IsRest
  <1>6. d + n \in 0..Len(a) /\ Len(r) = Len(a) - (d + n)
    BY <1>1, <1>3, <1>5
  <1>7. \A i \in 1..Len(r) : r[i] = a[(d + n) + i]
    <2>1. ASSUME NEW i \in 1..Len(r) PROVE r[i] = a[(d + n) + i]
      <3>1. n + i \in 1..Len(h) /\ d + (n + i) = (d + n) + i
        BY <1>1, <1>3, <1>4, <1>5
      <3>2. QED
        BY <1>3, <1>5, <3>1
    <2>2. QED
      BY <2>1
  <1>8. Forgotten(a, d + n, w, clock)
    <2>1. CASE n = 0
      BY <1>4, <2>1
    <2>2. CASE n > 0
      <3>1. n \in 1..n /\ n \in 1..Len(h)
        BY <1>1, <2>2
      <3>2. clock - h[n] >= w /\ h[n] = a[d + n]
        BY <1>1, <1>5, <3>1
      <3>3. QED
        BY <3>2 DEF Forgotten
    <2>3. QED
      BY <1>1, <2>1, <2>2
  <1>9. QED
    BY <1>3, <1>6, <1>7, <1>8 DEF KeptOrForgotten, IsRest, r

\* A sweep forgets a key only when it is idle.
LEMMA SweepKeeps ==
    ASSUME RateInv, NEW k \in Keys, NEW q \in Keys
    PROVE  /\ Swept(Window[k]) \in [Keys -> Seq(Nat)]
           /\ KeptOrForgotten(Swept(Window[k])[q], allowed[q], Window[q], clock)
  <1>. DEFINE w == Window[k]
              h == hits[q]
              a == allowed[q]
  <1>1. /\ h \in Seq(Nat) /\ a \in Seq(Nat) /\ clock \in Nat /\ hits \in [Keys -> Seq(Nat)]
        /\ KeptOrForgotten(h, a, Window[q], clock)
    BY DEF RateInv, RateTypeOK
  <1>2. w \in Nat /\ Shortest \in Nat /\ Shortest <= w
    BY ShortestIsLeast
  <1>3. Swept(w) \in [Keys -> Seq(Nat)]
    BY <1>1 DEF Swept
  <1>4. CASE Swept(w)[q] = h
    BY <1>1, <1>3, <1>4
  <1>5. CASE Swept(w)[q] # h
    <2>1. Swept(w)[q] = <<>> /\ h # <<>> /\ ~(clock - h[Len(h)] < w)
      BY <1>1, <1>5 DEF Swept
    <2>2. PICK d \in 0..Len(a) : IsRest(h, a, d)
      BY <1>1 DEF KeptOrForgotten
    <2>3. /\ Len(h) = Len(a) - d /\ Len(a) \in Nat /\ Len(h) \in Nat /\ Len(h) > 0
          /\ \A i \in 1..Len(h) : h[i] = a[d + i]
      BY SMTT(40), <1>1, <2>1, <2>2 DEF IsRest
    <2>4. h[Len(h)] = a[Len(a)]
      <3>1. Len(h) \in 1..Len(h) /\ d + Len(h) = Len(a)
        BY <2>2, <2>3
      <3>2. QED
        BY <2>3, <3>1
    <2>5. a[Len(a)] \in Nat
      <3>1. Len(a) \in 1..Len(a)
        BY <2>2, <2>3
      <3>2. QED
        BY <1>1, <3>1
    <2>6. clock - a[Len(a)] >= Shortest
      BY SMTT(40), <1>1, <1>2, <2>1, <2>4, <2>5
    <2>7. Forgotten(a, Len(a), Window[q], clock)
      BY <2>6 DEF Forgotten
    <2>8. IsRest(<<>>, a, Len(a))
      BY <2>3 DEF IsRest
    <2>9. Len(a) \in 0..Len(a)
      BY <2>3
    <2>10. QED
      BY <1>3, <2>1, <2>7, <2>8, <2>9 DEF KeptOrForgotten
  <1>6. QED
    BY <1>4, <1>5

-----------------------------------------------------------------------------
\* Another allowed call: what was forgotten was so for the same reason.
LEMMA CallAdded ==
    ASSUME NEW h \in Seq(Nat), NEW a \in Seq(Nat), NEW w \in Nat, NEW t \in Nat,
           KeptOrForgotten(h, a, w, t), Ordered(a, t)
    PROVE  /\ KeptOrForgotten(Append(h, t), Append(a, t), w, t)
           /\ Ordered(Append(a, t), t)
  <1>. DEFINE b == Append(a, t)
              g == Append(h, t)
  <1>1. /\ b \in Seq(Nat) /\ Len(b) = Len(a) + 1 /\ Len(a) \in Nat /\ b[Len(a) + 1] = t
        /\ \A i \in 1..Len(a) : b[i] = a[i] /\ a[i] \in Nat
        /\ g \in Seq(Nat) /\ Len(g) = Len(h) + 1 /\ Len(h) \in Nat /\ g[Len(h) + 1] = t
        /\ \A i \in 1..Len(h) : g[i] = h[i]
    OBVIOUS
  <1>. HIDE DEF b, g
  <1>2. PICK d \in 0..Len(a) : IsRest(h, a, d) /\ Forgotten(a, d, w, t)
    BY DEF KeptOrForgotten
  <1>3. Len(h) = Len(a) - d /\ \A i \in 1..Len(h) : h[i] = a[d + i]
    BY <1>2 DEF IsRest
  <1>4. d \in 0..Len(b) /\ Len(g) = Len(b) - d
    BY <1>1, <1>3
  <1>5. ASSUME NEW i \in 1..Len(g) PROVE g[i] = b[d + i]
    <2>1. CASE i = Len(h) + 1
      <3>1. d + i = Len(a) + 1
        BY <1>1, <1>3, <2>1
      <3>2. QED
        BY <1>1, <2>1, <3>1
    <2>2. CASE i \in 1..Len(h)
      <3>1. d + i \in 1..Len(a)
        BY <1>1, <1>3, <2>2
      <3>2. QED
        BY <1>1, <1>3, <2>2, <3>1
    <2>3. QED
      BY <1>1, <2>1, <2>2
  <1>6. Forgotten(b, d, w, t)
    <2>1. SUFFICES ASSUME d > 0
                   PROVE  \/ t - b[d] >= w
                          \/ d < Len(b) /\ b[d + 1] - b[d] >= Shortest
      BY DEF Forgotten
    <2>2. b[d] = a[d] /\ d \in 1..Len(a)
      BY <1>1, <2>1
    <2>3. CASE t - a[d] >= w
      BY <2>2, <2>3
    <2>4. CASE d < Len(a) /\ a[d + 1] - a[d] >= Shortest
      <3>4. Len(a) \in Nat /\ Len(b) = Len(a) + 1 /\ d \in Nat /\ d < Len(a)
        BY <1>1, <2>2, <2>4
      <3>1. d + 1 \in 1..Len(a) /\ d < Len(b)
        BY <3>4
      <3>2. b[d + 1] = a[d + 1]
        BY <1>1, <3>1
      <3>3. QED
        BY <2>2, <2>4, <3>1, <3>2
    <2>5. CASE d = Len(a) /\ t - a[d] >= Shortest
      BY <1>1, <2>2, <2>5
    <2>6. QED
      BY <1>2, <2>1, <2>3, <2>4, <2>5 DEF Forgotten
  <1>7. Ordered(b, t)
    <2>1. /\ DOMAIN b = 1..(Len(a) + 1) /\ DOMAIN a = 1..Len(a)
          /\ \A i \in 1..(Len(a) + 1) : i = Len(a) + 1 \/ i \in 1..Len(a)
      BY <1>1
    <2>2. ASSUME NEW i \in DOMAIN b PROVE b[i] <= t
      <3>1. CASE i = Len(a) + 1
        BY <1>1, <3>1
      <3>2. CASE i \in 1..Len(a)
        BY <1>1, <2>1, <3>2 DEF Ordered
      <3>3. QED
        BY <2>1, <3>1, <3>2
    <2>3. ASSUME NEW i \in DOMAIN b, NEW j \in DOMAIN b, i <= j PROVE b[i] <= b[j]
      <3>1. CASE j = Len(a) + 1
        BY <1>1, <2>2, <3>1
      <3>2. CASE j \in 1..Len(a)
        <4>1. i \in 1..Len(a)
          BY <1>1, <2>1, <2>3, <3>2
        <4>2. a[i] <= a[j]
          BY <2>1, <2>3, <3>2, <4>1 DEF Ordered
        <4>3. QED
          BY <1>1, <3>2, <4>1, <4>2
      <3>3. QED
        BY <2>1, <3>1, <3>2
    <2>4. QED
      BY <2>2, <2>3 DEF Ordered
  <1>8. IsRest(g, b, d)
    BY <1>4, <1>5 DEF IsRest
  <1>9. QED
    BY <1>4, <1>6, <1>7, <1>8 DEF KeptOrForgotten, b, g

\* A call is allowed when fewer than m are kept: those before it that are still inside the
\* window and not kept were forgotten at a silence.
LEMMA AllowedIsBounded ==
    ASSUME NEW h \in Seq(Nat), NEW a \in Seq(Nat), NEW w \in Nat, NEW t \in Nat,
           NEW m \in Nat \ {0},
           KeptOrForgotten(h, a, w, t), Ordered(a, t), Bounded(a, m, w), Len(h) < m
    PROVE  Bounded(Append(a, t), m, w)
  <1>. DEFINE b == Append(a, t)
  <1>1. /\ b \in Seq(Nat) /\ Len(b) = Len(a) + 1 /\ Len(a) \in Nat /\ b[Len(a) + 1] = t
        /\ \A i \in 1..Len(a) : b[i] = a[i] /\ a[i] \in Nat
        /\ DOMAIN b = 1..(Len(a) + 1) /\ DOMAIN a = 1..Len(a)
    OBVIOUS
  <1>. HIDE DEF b
  <1>2. PICK d \in 0..Len(a) : IsRest(h, a, d) /\ Forgotten(a, d, w, t)
    BY DEF KeptOrForgotten
  <1>3. SUFFICES ASSUME NEW i \in DOMAIN b, i + m \in DOMAIN b, b[i + m] - b[i] < w
                 PROVE  \E n \in i .. (i + m) - 1 : b[n + 1] - b[n] >= Shortest
    BY DEF Bounded, b
  <1>8. i \in 1..(Len(a) + 1) /\ i + m \in 1..(Len(a) + 1) /\ Len(a) \in Nat
    BY <1>1, <1>3
  <1>4. i \in Nat /\ i >= 1 /\ i + m <= Len(a) + 1 /\ i + m \in Nat
    BY <1>8
  <1>5. CASE i + m <= Len(a)
    <2>1. i \in 1..Len(a) /\ i + m \in 1..Len(a)
      BY SMTT(40), <1>1, <1>4, <1>5
    <2>2. i \in DOMAIN a /\ i + m \in DOMAIN a /\ b[i] = a[i] /\ b[i + m] = a[i + m]
      BY <1>1, <2>1
    <2>3. PICK n \in i .. (i + m) - 1 : a[n + 1] - a[n] >= Shortest
      BY <1>3, <2>2 DEF Bounded
    <2>4. n \in 1..Len(a) /\ n + 1 \in 1..Len(a)
      <3>1. Len(a) \in Nat /\ n \in i .. (i + m) - 1
        BY <1>1
      <3>2. n \in Nat /\ n >= 1 /\ n + 1 <= i + m
        BY <1>4, <3>1
      <3>3. n + 1 <= Len(a)
        BY <1>4, <1>5, <3>1, <3>2
      <3>4. QED
        BY <3>1, <3>2, <3>3
    <2>5. b[n] = a[n] /\ b[n + 1] = a[n + 1]
      BY <1>1, <2>4
    <2>6. QED
      BY <2>3, <2>5
  <1>6. CASE i + m = Len(a) + 1
    <2>1. Len(h) = Len(a) - d /\ d \in Nat /\ d <= Len(a)
      BY <1>1, <1>2 DEF IsRest
    <2>2. d >= i /\ d <= (i + m) - 1
      <3>1. Len(a) \in Nat /\ Len(h) < m
        BY <1>1
      <3>2. Len(a) - d < m
        BY <2>1, <3>1
      <3>3. QED
        BY SMTT(40), <1>4, <1>6, <2>1, <3>1, <3>2
    <2>3. d \in i .. (i + m) - 1 /\ d > 0 /\ d \in 1..Len(a) /\ i \in 1..Len(a)
      BY <1>1, <1>4, <1>6, <2>1, <2>2
    <2>4. a[i] <= a[d]
      BY <1>1, <2>2, <2>3 DEF Ordered
    <2>5. a[i] \in Nat /\ a[d] \in Nat /\ b[i] = a[i] /\ b[d] = a[d]
      BY <1>1, <2>3
    <2>6. b[i + m] = t
      BY <1>1, <1>6
    <2>7. ~(t - a[d] >= w)
      BY SMTT(40), <1>3, <2>4, <2>5, <2>6
    <2>8. CASE d < Len(a) /\ a[d + 1] - a[d] >= Shortest
      <3>1. d + 1 \in 1..Len(a)
        BY <1>1, <2>1, <2>3, <2>8
      <3>2. b[d + 1] = a[d + 1]
        BY <1>1, <3>1
      <3>3. QED
        BY <2>3, <2>5, <2>8, <3>2
    <2>9. CASE d = Len(a) /\ t - a[d] >= Shortest
      <3>1. b[d + 1] = t
        BY <1>1, <2>9
      <3>2. QED
        BY <2>3, <2>5, <2>9, <3>1
    <2>10. QED
      BY <1>2, <2>3, <2>7, <2>8, <2>9 DEF Forgotten
  <1>7. QED
    BY <1>1, <1>4, <1>5, <1>6

-----------------------------------------------------------------------------
LEMMA HitKeeps ==
    ASSUME RateInv, NEW k \in Keys, Hit(k)
    PROVE  RateInv'
  <1>. DEFINE w    == Window[k]
              s    == Swept(w)
              kept == Recent(s[k], w)
  <1>1. /\ clock \in Nat /\ clock' = clock /\ lastSweep' \in Nat /\ lastSweep' <= clock
    BY DEF Hit, RateInv, RateTypeOK
  <1>2. s \in [Keys -> Seq(Nat)]
        /\ \A q \in Keys : KeptOrForgotten(s[q], allowed[q], Window[q], clock)
    BY SweepKeeps
  <1>3. /\ allowed \in [Keys -> Seq(Nat)] /\ w \in Nat /\ MaxCalls[k] \in Nat \ {0}
        /\ \A q \in Keys : Ordered(allowed[q], clock) /\ Bounded(allowed[q], MaxCalls[q], Window[q])
    BY ShortestIsLeast, RateAssumption DEF RateInv, RateTypeOK
  <1>4. kept \in Seq(Nat) /\ KeptOrForgotten(kept, allowed[k], w, clock)
    BY <1>1, <1>2, <1>3, PruneKeeps
  <1>5. \/ /\ Len(kept) >= MaxCalls[k]
           /\ hits' = [s EXCEPT ![k] = kept] /\ allowed' = allowed
        \/ /\ ~(Len(kept) >= MaxCalls[k])
           /\ hits' = [s EXCEPT ![k] = Append(kept, clock)]
           /\ allowed' = [allowed EXCEPT ![k] = Append(@, clock)]
    BY DEF Hit
  <1>. HIDE DEF s, kept, w
  <1>6. ASSUME NEW q \in Keys, q # k
        PROVE  /\ Ordered(allowed'[q], clock')
               /\ KeptOrForgotten(hits'[q], allowed'[q], Window[q], clock')
               /\ Bounded(allowed'[q], MaxCalls[q], Window[q])
    <2>1. hits'[q] = s[q] /\ allowed'[q] = allowed[q]
      BY <1>2, <1>3, <1>5, <1>6
    <2>2. QED
      BY <1>1, <1>2, <1>3, <2>1
  <1>7. CASE Len(kept) >= MaxCalls[k] /\ hits' = [s EXCEPT ![k] = kept] /\ allowed' = allowed
    <2>1. hits' \in [Keys -> Seq(Nat)] /\ hits'[k] = kept
      BY <1>2, <1>4, <1>7
    <2>2. \A q \in Keys : /\ Ordered(allowed[q], clock)'
                          /\ KeptOrForgotten(hits[q], allowed[q], Window[q], clock)'
                          /\ Bounded(allowed[q], MaxCalls[q], Window[q])'
      BY <1>1, <1>3, <1>4, <1>6, <1>7, <2>1 DEF w
    <2>3. RateTypeOK'
      BY <1>1, <1>3, <1>7, <2>1 DEF RateTypeOK
    <2>4. QED
      BY <2>2, <2>3 DEF RateInv
  <1>8. CASE /\ ~(Len(kept) >= MaxCalls[k])
             /\ hits' = [s EXCEPT ![k] = Append(kept, clock)]
             /\ allowed' = [allowed EXCEPT ![k] = Append(@, clock)]
    <2>1. /\ hits'[k] = Append(kept, clock) /\ allowed'[k] = Append(allowed[k], clock)
          /\ hits' \in [Keys -> Seq(Nat)] /\ allowed' \in [Keys -> Seq(Nat)]
      BY <1>1, <1>2, <1>3, <1>4, <1>8
    <2>2. Len(kept) < MaxCalls[k] /\ allowed[k] \in Seq(Nat)
      BY <1>3, <1>4, <1>8
    <2>3. /\ KeptOrForgotten(Append(kept, clock), Append(allowed[k], clock), w, clock)
          /\ Ordered(Append(allowed[k], clock), clock)
      BY <1>1, <1>3, <1>4, <2>2, CallAdded
    <2>4. Bounded(Append(allowed[k], clock), MaxCalls[k], w)
      <3>1. Ordered(allowed[k], clock) /\ Bounded(allowed[k], MaxCalls[k], w)
        BY <1>3 DEF w
      <3>2. QED
        BY <1>1, <1>3, <1>4, <2>2, <3>1, AllowedIsBounded
    <2>5. \A q \in Keys : /\ Ordered(allowed[q], clock)'
                          /\ KeptOrForgotten(hits[q], allowed[q], Window[q], clock)'
                          /\ Bounded(allowed[q], MaxCalls[q], Window[q])'
      BY <1>1, <1>6, <2>1, <2>3, <2>4 DEF w
    <2>6. RateTypeOK'
      BY <1>1, <2>1 DEF RateTypeOK
    <2>7. QED
      BY <2>5, <2>6 DEF RateInv
  <1>9. QED
    BY <1>5, <1>7, <1>8

LEMMA TickKeeps == RateInv /\ Tick => RateInv'
  <1>. SUFFICES ASSUME RateInv, Tick PROVE RateInv'
    OBVIOUS
  <1>1. clock \in Nat /\ clock' = clock + 1 /\ UNCHANGED <<hits, lastSweep, allowed>>
    BY DEF Tick, RateInv, RateTypeOK
  <1>2. RateTypeOK'
    BY <1>1 DEF RateInv, RateTypeOK
  <1>3. ASSUME NEW k \in Keys
        PROVE  /\ Ordered(allowed[k], clock')
               /\ KeptOrForgotten(hits[k], allowed[k], Window[k], clock')
    <2>. DEFINE a == allowed[k]
    <2>1. /\ a \in Seq(Nat) /\ Ordered(a, clock) /\ Window[k] \in Nat /\ Shortest \in Nat
          /\ KeptOrForgotten(hits[k], a, Window[k], clock)
      BY ShortestIsLeast DEF RateInv, RateTypeOK
    <2>. HIDE DEF a
    <2>2. Ordered(a, clock')
      <3>1. \A i \in DOMAIN a : a[i] \in Nat
        BY <2>1
      <3>2. QED
        BY <1>1, <2>1, <3>1 DEF Ordered
    <2>3. PICK d \in 0..Len(a) : IsRest(hits[k], a, d) /\ Forgotten(a, d, Window[k], clock)
      BY <2>1 DEF KeptOrForgotten
    <2>4. Forgotten(a, d, Window[k], clock')
      <3>1. d > 0 => a[d] \in Nat
        BY <2>1, <2>3
      <3>2. d \in Nat
        BY <2>1, <2>3
      <3>3. QED
        BY <1>1, <2>1, <2>3, <3>1, <3>2 DEF Forgotten
    <2>5. QED
      BY <2>2, <2>3, <2>4 DEF KeptOrForgotten, a
  <1>4. QED
    BY <1>1, <1>2, <1>3 DEF RateInv

LEMMA RateInitHolds == RateInit => RateInv
  <1>. SUFFICES ASSUME RateInit PROVE RateInv
    OBVIOUS
  <1>1. RateTypeOK
    BY RateAssumption DEF RateInit, RateTypeOK
  <1>2. ASSUME NEW k \in Keys
        PROVE  /\ Ordered(allowed[k], clock)
               /\ KeptOrForgotten(hits[k], allowed[k], Window[k], clock)
               /\ Bounded(allowed[k], MaxCalls[k], Window[k])
    <2>1. hits[k] = <<>> /\ allowed[k] = <<>> /\ Len(<<>>) = 0 /\ 0 \in 0..0
      BY DEF RateInit
    <2>2. IsRest(<<>>, <<>>, 0) /\ Forgotten(<<>>, 0, Window[k], clock)
      BY <2>1 DEF IsRest, Forgotten
    <2>3. QED
      BY <2>1, <2>2 DEF Ordered, KeptOrForgotten, Bounded
  <1>3. QED
    BY <1>1, <1>2 DEF RateInv

LEMMA RateInvariance == RateSpec => []RateInv
  <1>1. RateInv /\ [RateNext]_rateVars => RateInv'
    <2>. SUFFICES ASSUME RateInv, [RateNext]_rateVars PROVE RateInv'
      OBVIOUS
    <2>1. CASE UNCHANGED rateVars
      BY <2>1 DEF rateVars, RateInv, RateTypeOK
    <2>2. QED
      BY <2>1, HitKeeps, TickKeeps DEF RateNext
  <1>2. QED
    BY <1>1, RateInitHolds, PTL DEF RateSpec

\* The type invariant: the sweep's time is never ahead of the clock.
THEOREM RateTypeCorrect == RateSpec => []RateTypeOK
  <1>1. RateInv => RateTypeOK
    BY DEF RateInv
  <1>2. QED
    BY <1>1, RateInvariance, PTL

\* Whatever uses share the limiter, with whatever windows, a key gets no more than its calls
\* in its window but by falling silent for the shortest window of all.
THEOREM BurstBounded == RateSpec => []BurstIsBounded
  <1>1. RateInv => \A k \in Keys : Bounded(allowed[k], MaxCalls[k], Window[k])
    BY DEF RateInv
  <1>2. (\A k \in Keys : Bounded(allowed[k], MaxCalls[k], Window[k])) => BurstIsBounded
    BY Zenon DEF Bounded, BurstIsBounded
  <1>3. QED
    BY <1>1, <1>2, RateInvariance, PTL

-----------------------------------------------------------------------------
(***************************************************************************)
(* Proofs about DailyHunt, for every set of players, lines and workers and *)
(* for any number of days.                                                 *)
(*                                                                         *)
(* A request remembers what it found across its statements: the day, the   *)
(* result of the challenge it found, that the day was not played.  What it *)
(* remembers stays right (JobRight), because a challenge that is there is  *)
(* only taken away for good, and because a row inserted meanwhile carries  *)
(* the numbers of the player's attempts then under way.  With one of them  *)
(* at most, the row that attempt has loaded is the row it updates.         *)
(***************************************************************************)

Results    == {"green", "yellow", "red"}
Challenges == [id : 1..MaxHunts, line : Lines]
PlayRows   == [line : Lines, tier : Results, by : Nat, rivals : SUBSET Nat]
ClaimRows  == [day : Days, tier : Results]

\* The request a worker may serve.
AskJobs   == [at : {"look", "model", "lost"}, no : Nat, kind : {"today"}, day : Days]
PlayJobs  == [at : {"called", "look", "model", "lost"}, no : Nat, kind : {"attempt"},
              user : Players \union {Anonymous}, line : Lines, day : Days]
RenewJobs == [at : {"delete", "look", "model", "lost"}, no : Nat, kind : {"regenerate"},
              day : Days, old : Nat]
GradeJobs == [at : {"graded"}, no : Nat, kind : {"attempt"},
              user : Players \ {Anonymous}, line : Lines, day : Days, tier : Results]
StoreJobs == [at : {"store"}, no : Nat, kind : {"attempt"},
              user : Players \ {Anonymous}, line : Lines, day : Days, tier : Results,
              old : PlayRows \union {NoPlay}]
ClaimJobs == [at : {"claim"}, no : Nat, kind : {"claim"}, user : Players, line : Lines,
              left : SUBSET Days, rows : SUBSET ClaimRows]

HuntJobs == {Free} \union AskJobs \union PlayJobs \union RenewJobs \union GradeJobs
              \union StoreJobs \union ClaimJobs

HuntFits ==
    /\ today \in Days /\ hunted \in 0..MaxHunts /\ regenerated \subseteq Days
    /\ challenge \in [Days -> Challenges \union {NoChallenge}]
    /\ plays \in [Players \X Days -> PlayRows \union {NoPlay}]
    /\ hunts \in [Hunters -> HuntJobs]

\* A result agrees with the challenge of its day, if that was never taken away.
Right(d, line, tier, ch, re) == d \notin re => ch[d] # NoChallenge /\ tier \in Tiers(line, ch[d])

\* The row of a day was inserted while request no was under way.
Overlaps(u, d, no, pl) == pl[<<u, d>>] # NoPlay => no \in pl[<<u, d>>].rivals

\* Request j is an attempt of u that may still write the row of day d.
MayWrite(j, u, d) ==
    /\ j.at \in {"called", "look", "model", "lost", "graded", "store"}
    /\ j.kind = "attempt" /\ j.user = u /\ u # Anonymous
    /\ IF j.at = "called" THEN d >= j.day ELSE d = j.day

\* What request j remembers, in a state with day t, n requests begun, challenges ch,
\* regenerated days re and plays pl.
JobRight(j, t, n, ch, re, pl) ==
    /\ j # Free => j.no \in 1..n
    /\ j.at \notin {"free", "claim"} => j.day <= t
    /\ j.at = "claim" => /\ \A d \in j.left : d <= t
                         /\ \A r \in j.rows : r.day <= t /\ Right(r.day, j.line, r.tier, ch, re)
    /\ j.at \in {"graded", "store"} => Right(j.day, j.line, j.tier, ch, re)
    /\ \A u \in Players, d \in Days : MayWrite(j, u, d) => Overlaps(u, d, j.no, pl)
    /\ j.at = "store" /\ j.old # NoPlay =>
         /\ pl[<<j.user, j.day>>] # NoPlay
         /\ j.old = pl[<<j.user, j.day>>] \/ Contested(pl[<<j.user, j.day>>])

\* No two requests have the same number.
Numbered == \A v, w \in Hunters : hunts[v] # Free /\ hunts[v].no = hunts[w].no => v = w

FutureIsUnplayed == \A u \in Players, d \in Days : d > today => ~Played(u, d)

HuntInv ==
    /\ HuntFits /\ FutureIsUnplayed /\ GradedAsStored /\ Numbered
    /\ \A w \in Hunters : JobRight(hunts[w], today, hunted, challenge, regenerated, plays)
-----------------------------------------------------------------------------
LEMMA HuntJobFields ==
    ASSUME NEW j \in HuntJobs
    PROVE  /\ j.no \in Nat
           /\ j.at = "free" <=> j = Free
           /\ j.at \notin {"free", "claim"} => j.day \in Days
           /\ j.at \in {"free", "called", "look", "delete", "model", "lost", "graded",
                        "store", "claim"}
           /\ j.at = "called" => j \in PlayJobs
           /\ j.at = "delete" => j \in RenewJobs
           /\ j.at \in {"look", "model", "lost"} => j \in AskJobs \union PlayJobs \union RenewJobs
           /\ j.at = "graded" => j \in GradeJobs
           /\ j.at = "store" => j \in StoreJobs
           /\ j.at = "claim" => j \in ClaimJobs
  <1>1. CASE j = Free
    BY <1>1 DEF Free
  <1>2. CASE j \in AskJobs
    BY <1>2 DEF AskJobs, Free
  <1>3. CASE j \in PlayJobs
    BY <1>3 DEF PlayJobs, Free
  <1>4. CASE j \in RenewJobs
    BY <1>4 DEF RenewJobs, Free
  <1>5. CASE j \in GradeJobs
    BY <1>5 DEF GradeJobs, Free
  <1>6. CASE j \in StoreJobs
    BY <1>6 DEF StoreJobs, Free
  <1>7. CASE j \in ClaimJobs
    BY <1>7 DEF ClaimJobs, Free
  <1>8. QED
    BY <1>1, <1>2, <1>3, <1>4, <1>5, <1>6, <1>7 DEF HuntJobs

LEMMA FreeIsRight ==
    ASSUME NEW t, NEW n, NEW ch, NEW re, NEW pl
    PROVE  Free \in HuntJobs /\ JobRight(Free, t, n, ch, re, pl)
  BY DEF HuntJobs, JobRight, MayWrite, Free

\* What one request remembers survives the steps of the others: days pass, numbers are given
\* out, a challenge stays or is taken away for good, plays are stored while it is under way.
LEMMA StaysRight ==
    ASSUME NEW j \in HuntJobs, NEW t \in Nat, NEW t2 \in Nat, t <= t2,
           NEW n \in Nat, NEW n2 \in Nat, n <= n2,
           NEW ch, NEW ch2, NEW re, NEW re2, NEW pl, NEW pl2,
           re \subseteq re2,
           \A d \in Days \ re2 : ch[d] # NoChallenge => ch2[d] = ch[d],
           \A u \in Players, d \in Days :
              \/ pl2[<<u, d>>] = pl[<<u, d>>]
              \/ MayWrite(j, u, d) =>
                   /\ pl2[<<u, d>>] # NoPlay /\ j.no \in pl2[<<u, d>>].rivals
                   /\ pl[<<u, d>>] = NoPlay \/ Contested(pl2[<<u, d>>]),
           JobRight(j, t, n, ch, re, pl)
    PROVE  JobRight(j, t2, n2, ch2, re2, pl2)
  <1>1. j # Free => j.no \in 1..n2
    BY DEF JobRight
  <1>2. j.at \notin {"free", "claim"} => j.day <= t2
    <2>1. j.at \notin {"free", "claim"} => j.day \in Nat
      BY HuntJobFields DEF Days
    <2>2. QED
      BY <2>1 DEF JobRight
  <1>3. ASSUME NEW d \in Days, NEW line, NEW tier, Right(d, line, tier, ch, re)
        PROVE  Right(d, line, tier, ch2, re2)
    BY <1>3 DEF Right
  <1>4. j.at = "claim" => /\ \A d \in j.left : d <= t2
                          /\ \A r \in j.rows : /\ r.day <= t2
                                               /\ Right(r.day, j.line, r.tier, ch2, re2)
    <2>. SUFFICES ASSUME j.at = "claim"
                  PROVE  /\ \A d \in j.left : d <= t2
                         /\ \A r \in j.rows : r.day <= t2 /\ Right(r.day, j.line, r.tier, ch2, re2)
      OBVIOUS
    <2>1. j.left \subseteq Days /\ j.rows \subseteq ClaimRows
      BY HuntJobFields DEF ClaimJobs
    <2>2. ASSUME NEW d \in j.left PROVE d <= t2
      <3>1. d \in Nat /\ d <= t
        BY <2>1 DEF Days, JobRight
      <3>2. QED
        BY <3>1
    <2>3. ASSUME NEW r \in j.rows
          PROVE  r.day <= t2 /\ Right(r.day, j.line, r.tier, ch2, re2)
      <3>1. r.day \in Days /\ r.day \in Nat
        BY <2>1 DEF ClaimRows, Days
      <3>2. r.day <= t /\ Right(r.day, j.line, r.tier, ch, re)
        BY DEF JobRight
      <3>3. QED
        BY <1>3, <3>1, <3>2
    <2>4. QED
      BY <2>2, <2>3
  <1>5. j.at \in {"graded", "store"} => Right(j.day, j.line, j.tier, ch2, re2)
    BY <1>3, HuntJobFields DEF JobRight
  <1>6. ASSUME NEW u \in Players, NEW d \in Days, MayWrite(j, u, d)
        PROVE  Overlaps(u, d, j.no, pl2)
    <2>1. Overlaps(u, d, j.no, pl)
      BY <1>6, Zenon DEF JobRight
    <2>2. \/ pl2[<<u, d>>] = pl[<<u, d>>]
          \/ j.no \in pl2[<<u, d>>].rivals
      BY <1>6
    <2>3. QED
      BY <2>1, <2>2, Zenon DEF Overlaps
  <1>7. j.at = "store" /\ j.old # NoPlay =>
          /\ pl2[<<j.user, j.day>>] # NoPlay
          /\ j.old = pl2[<<j.user, j.day>>] \/ Contested(pl2[<<j.user, j.day>>])
    <2>. SUFFICES ASSUME j.at = "store", j.old # NoPlay
                  PROVE  /\ pl2[<<j.user, j.day>>] # NoPlay
                         /\ j.old = pl2[<<j.user, j.day>>] \/ Contested(pl2[<<j.user, j.day>>])
      OBVIOUS
    <2>1. j.user \in Players /\ j.user # Anonymous /\ j.day \in Days /\ j.kind = "attempt"
      BY HuntJobFields DEF StoreJobs
    <2>2. MayWrite(j, j.user, j.day)
      BY <2>1 DEF MayWrite
    <2>3. /\ pl[<<j.user, j.day>>] # NoPlay
          /\ j.old = pl[<<j.user, j.day>>] \/ Contested(pl[<<j.user, j.day>>])
      BY DEF JobRight
    <2>4. \/ pl2[<<j.user, j.day>>] = pl[<<j.user, j.day>>]
          \/ pl2[<<j.user, j.day>>] # NoPlay /\ Contested(pl2[<<j.user, j.day>>])
      BY <2>1, <2>2, <2>3, Zenon
    <2>5. QED
      BY <2>3, <2>4, Zenon
  <1>8. QED
    BY <1>1, <1>2, <1>4, <1>5, <1>6, <1>7, Zenon DEF JobRight

\* A request has a number, a free worker has none.
LEMMA NumbersOfJobs ==
    ASSUME HuntInv, NEW w \in Hunters
    PROVE  hunts[w].no \in 0..hunted /\ (hunts[w] # Free <=> hunts[w].no # 0)
  <1>1. hunts[w] \in HuntJobs /\ hunted \in Nat
    BY HuntAssumption DEF HuntInv, HuntFits
  <1>2. hunts[w] # Free => hunts[w].no \in 1..hunted
    BY DEF HuntInv, JobRight
  <1>3. QED
    BY <1>1, <1>2 DEF Free

\* A step of one request, or its begin, that stores no play.
LEMMA JobMoves ==
    ASSUME HuntInv, NEW w \in Hunters, NEW job \in HuntJobs,
           hunts' = [hunts EXCEPT ![w] = job],
           today' = today, plays' = plays,
           hunted' \in 0..MaxHunts, hunted <= hunted',
           challenge' \in [Days -> Challenges \union {NoChallenge}],
           regenerated \subseteq regenerated', regenerated' \subseteq Days,
           \A d \in Days \ regenerated' : challenge[d] # NoChallenge => challenge'[d] = challenge[d],
           JobRight(job, today, hunted', challenge', regenerated', plays),
           job # Free => \A v \in Hunters \ {w} : hunts[v].no # job.no
    PROVE  HuntInv'
  <1>1. /\ hunts \in [Hunters -> HuntJobs] /\ today \in Nat /\ hunted \in Nat /\ hunted' \in Nat
        /\ \A v \in Hunters : JobRight(hunts[v], today, hunted, challenge, regenerated, plays)
    BY DEF HuntInv, HuntFits, Days
  <1>2. HuntFits'
    BY <1>1 DEF HuntInv, HuntFits
  <1>3. FutureIsUnplayed'
    BY DEF HuntInv, FutureIsUnplayed, Played
  <1>4. GradedAsStored'
    BY DEF HuntInv, GradedAsStored, Played
  <1>5. ASSUME NEW v \in Hunters
        PROVE  JobRight(hunts'[v], today', hunted', challenge', regenerated', plays')
    <2>1. CASE v = w
      <3>1. hunts'[v] = job
        BY <1>1, <2>1
      <3>2. QED
        BY <3>1, Zenon
    <2>2. CASE v # w
      <3>1. hunts'[v] = hunts[v] /\ hunts[v] \in HuntJobs /\ today <= today
        BY <1>1, <2>2
      <3>2. JobRight(hunts[v], today, hunted', challenge', regenerated', plays)
        BY <1>1, <3>1, StaysRight
      <3>3. QED
        BY <3>1, <3>2, Zenon
    <2>3. QED
      BY <2>1, <2>2
  <1>6. Numbered'
    BY <1>1, NumbersOfJobs DEF HuntInv, Numbered, Free
  <1>7. QED
    BY <1>2, <1>3, <1>4, <1>5, <1>6 DEF HuntInv

\* The step that stores plays of days that have come, and ends.  Each is right or contested, and
\* the other attempts that may still write it know that it is there.
LEMMA PlaysStored ==
    ASSUME HuntInv, NEW w \in Hunters, hunts' = [hunts EXCEPT ![w] = Free],
           UNCHANGED <<today, hunted, challenge, regenerated>>,
           plays' \in [Players \X Days -> PlayRows \union {NoPlay}],
           \A u \in Players, d \in Days :
              \/ plays'[<<u, d>>] = plays[<<u, d>>]
              \/ /\ d <= today /\ plays'[<<u, d>>] # NoPlay
                 /\ d \notin regenerated => challenge[d] # NoChallenge
                 /\ \/ Right(d, plays'[<<u, d>>].line, plays'[<<u, d>>].tier, challenge, regenerated)
                    \/ Contested(plays'[<<u, d>>])
                 /\ \A v \in Hunters \ {w} : MayWrite(hunts[v], u, d) =>
                       /\ hunts[v].no \in plays'[<<u, d>>].rivals
                       /\ plays[<<u, d>>] = NoPlay \/ Contested(plays'[<<u, d>>])
    PROVE  HuntInv'
  <1>1. /\ hunts \in [Hunters -> HuntJobs] /\ today \in Nat /\ hunted \in Nat
        /\ \A v \in Hunters : JobRight(hunts[v], today, hunted, challenge, regenerated, plays)
    BY DEF HuntInv, HuntFits, Days
  <1>2. HuntFits'
    BY FreeIsRight DEF HuntInv, HuntFits
  <1>3. FutureIsUnplayed'
    <2>1. ASSUME NEW u \in Players, NEW d \in Days, d > today PROVE plays'[<<u, d>>] = NoPlay
      <3>1. plays[<<u, d>>] = NoPlay
        BY <2>1 DEF HuntInv, FutureIsUnplayed, Played
      <3>2. ~(d <= today)
        BY <1>1, <2>1 DEF Days
      <3>3. QED
        BY <3>1, <3>2
    <2>2. QED
      BY <2>1 DEF FutureIsUnplayed, Played
  <1>4. GradedAsStored'
    BY DEF HuntInv, GradedAsStored, Played, Right
  <1>5. ASSUME NEW v \in Hunters
        PROVE  JobRight(hunts'[v], today', hunted', challenge', regenerated', plays')
    <2>1. CASE v = w
      BY <1>1, <2>1, FreeIsRight
    <2>2. CASE v # w
      <3>1. hunts'[v] = hunts[v] /\ hunts[v] \in HuntJobs /\ today <= today /\ hunted <= hunted
        BY <1>1, <2>2
      <3>2. \A u \in Players, d \in Days :
              \/ plays'[<<u, d>>] = plays[<<u, d>>]
              \/ MayWrite(hunts[v], u, d) =>
                   /\ plays'[<<u, d>>] # NoPlay /\ hunts[v].no \in plays'[<<u, d>>].rivals
                   /\ plays[<<u, d>>] = NoPlay \/ Contested(plays'[<<u, d>>])
        BY <2>2
      <3>3. JobRight(hunts[v], today, hunted, challenge, regenerated, plays')
        BY <1>1, <3>1, <3>2, StaysRight
      <3>4. QED
        BY <3>1, <3>3
    <2>3. QED
      BY <2>1, <2>2
  <1>6. Numbered'
    BY <1>1, NumbersOfJobs DEF HuntInv, Numbered, Free
  <1>7. QED
    BY <1>2, <1>3, <1>4, <1>5, <1>6 DEF HuntInv

-----------------------------------------------------------------------------
LEMMA MidnightKeeps == HuntInv /\ Midnight => HuntInv'
  <1>. SUFFICES ASSUME HuntInv, Midnight PROVE HuntInv'
    OBVIOUS
  <1>1. /\ today \in Nat /\ today' = today + 1 /\ today' \in Days /\ today' \in Nat
        /\ hunted \in Nat /\ hunts \in [Hunters -> HuntJobs]
        /\ UNCHANGED <<challenge, plays, hunts, hunted, regenerated>>
    BY HuntAssumption DEF Midnight, HuntInv, HuntFits, Days
  <1>2. HuntFits'
    BY <1>1 DEF HuntInv, HuntFits
  <1>3. FutureIsUnplayed'
    <2>1. ASSUME NEW d \in Days, d > today' PROVE d > today
      BY <1>1, <2>1 DEF Days
    <2>2. QED
      BY <1>1, <2>1 DEF HuntInv, FutureIsUnplayed, Played
  <1>4. GradedAsStored'
    BY <1>1 DEF HuntInv, GradedAsStored, Played
  <1>5. ASSUME NEW v \in Hunters
        PROVE  JobRight(hunts[v], today', hunted, challenge, regenerated, plays)
    <2>1. today <= today' /\ hunted <= hunted /\ hunts[v] \in HuntJobs
      BY <1>1
    <2>2. JobRight(hunts[v], today, hunted, challenge, regenerated, plays)
      BY DEF HuntInv
    <2>3. QED
      BY <1>1, <2>1, <2>2, StaysRight
  <1>6. QED
    BY <1>1, <1>2, <1>3, <1>4, <1>5 DEF HuntInv, Numbered

\* A request begins, with the next number.
LEMMA Begins ==
    ASSUME HuntInv, NEW w \in Hunters, NEW job \in HuntJobs, Starts(w, job),
           job.no = hunted + 1,
           JobRight(job, today, hunted + 1, challenge, regenerated, plays)
    PROVE  HuntInv'
  <1>1. /\ hunted' = hunted + 1 /\ hunted' \in 0..MaxHunts /\ hunted <= hunted'
    BY HuntAssumption DEF Starts, HuntInv, HuntFits
  <1>2. /\ hunts' = [hunts EXCEPT ![w] = job]
        /\ UNCHANGED <<today, challenge, plays, regenerated>>
    BY DEF Starts
  <1>3. /\ challenge \in [Days -> Challenges \union {NoChallenge}] /\ regenerated \subseteq Days
    BY DEF HuntInv, HuntFits
  <1>4. \A v \in Hunters \ {w} : hunts[v].no # job.no
    <2>1. hunted \in Nat
      BY HuntAssumption DEF HuntInv, HuntFits
    <2>2. QED
      BY <2>1, NumbersOfJobs
  <1>5. QED
    BY <1>1, <1>2, <1>3, <1>4, JobMoves

\* A request goes on or ends, and writes nothing.
LEMMA Continues ==
    ASSUME HuntInv, NEW w \in Hunters, NEW job \in HuntJobs, Goes(w, job),
           UNCHANGED <<challenge, plays, regenerated>>,
           job # Free => job.no = hunts[w].no /\ hunts[w] # Free,
           JobRight(job, today, hunted, challenge, regenerated, plays)
    PROVE  HuntInv'
  <1>1. /\ hunted' = hunted /\ hunted' \in 0..MaxHunts /\ hunted <= hunted'
        /\ challenge \in [Days -> Challenges \union {NoChallenge}] /\ regenerated \subseteq Days
    BY HuntAssumption DEF Goes, HuntInv, HuntFits
  <1>2. hunts' = [hunts EXCEPT ![w] = job] /\ today' = today
    BY DEF Goes
  <1>3. job # Free => \A v \in Hunters \ {w} : hunts[v].no # job.no
    BY DEF HuntInv, Numbered
  <1>4. QED
    BY <1>1, <1>2, <1>3, JobMoves

LEMMA NextNumber ==
    ASSUME HuntInv
    PROVE  hunted \in Nat /\ hunted + 1 \in Nat /\ hunted + 1 \in 1..(hunted + 1)
           /\ today \in Days /\ today \in Nat /\ today <= today
  BY HuntAssumption DEF HuntInv, HuntFits, Days

LEMMA BeginTodayKeeps ==
    ASSUME HuntInv, NEW w \in Hunters, BeginToday(w)
    PROVE  HuntInv'
  <1>. DEFINE job == [at |-> "look", no |-> hunted + 1, kind |-> "today", day |-> today]
  <1>1. job \in HuntJobs
    BY NextNumber DEF HuntJobs, AskJobs
  <1>2. JobRight(job, today, hunted + 1, challenge, regenerated, plays)
    BY NextNumber DEF JobRight, MayWrite
  <1>3. QED
    BY <1>1, <1>2, Begins DEF BeginToday

LEMMA BeginAttemptKeeps ==
    ASSUME HuntInv, NEW w \in Hunters, NEW u \in Players \union {Anonymous}, NEW l \in Lines,
           BeginAttempt(w, u, l)
    PROVE  HuntInv'
  <1>. DEFINE job == [at |-> "called", no |-> hunted + 1, kind |-> "attempt", user |-> u,
                      line |-> l, day |-> today]
  <1>1. job \in HuntJobs
    BY NextNumber DEF HuntJobs, PlayJobs
  <1>2. ASSUME u # Anonymous, NEW d \in Days, d >= today PROVE plays[<<u, d>>] = NoPlay
    <2>1. u \in Players /\ ~Played(u, today)
      BY <1>2 DEF BeginAttempt
    <2>2. d = today \/ d > today
      BY <1>2, NextNumber DEF Days
    <2>3. QED
      BY <2>1, <2>2 DEF HuntInv, FutureIsUnplayed, Played
  <1>3. JobRight(job, today, hunted + 1, challenge, regenerated, plays)
    BY <1>2, NextNumber DEF JobRight, MayWrite, Overlaps
  <1>4. QED
    BY <1>1, <1>3, Begins DEF BeginAttempt

LEMMA BeginRegenerateKeeps ==
    ASSUME HuntInv, NEW w \in Hunters, BeginRegenerate(w)
    PROVE  HuntInv'
  <1>. DEFINE step == IF challenge[today] = NoChallenge THEN "look" ELSE "delete"
              job  == [at |-> step, no |-> hunted + 1, kind |-> "regenerate", day |-> today,
                       old |-> challenge[today].id]
  <1>1. challenge[today].id \in Nat
    BY NextNumber, HuntAssumption DEF HuntInv, HuntFits, Challenges, NoChallenge
  <1>2. step \in {"look", "delete"}
    OBVIOUS
  <1>. HIDE DEF step
  <1>3. job \in HuntJobs
    BY <1>1, <1>2, NextNumber DEF HuntJobs, RenewJobs
  <1>4. JobRight(job, today, hunted + 1, challenge, regenerated, plays)
    BY <1>2, NextNumber DEF JobRight, MayWrite
  <1>5. QED
    BY <1>3, <1>4, Begins DEF BeginRegenerate, step

LEMMA BeginClaimKeeps ==
    ASSUME HuntInv, NEW w \in Hunters, NEW u \in Players, NEW ds \in SUBSET (1..today),
           NEW l \in Lines, BeginClaim(w, u, ds, l)
    PROVE  HuntInv'
  <1>. DEFINE job == [at |-> "claim", no |-> hunted + 1, kind |-> "claim", user |-> u,
                      line |-> l, left |-> ds, rows |-> {}]
  <1>1. ds \subseteq Days /\ \A d \in ds : d <= today
    BY NextNumber, HuntAssumption DEF Days
  <1>2. job \in HuntJobs
    BY <1>1, NextNumber DEF HuntJobs, ClaimJobs
  <1>3. JobRight(job, today, hunted + 1, challenge, regenerated, plays)
    BY <1>1, NextNumber DEF JobRight, MayWrite
  <1>4. QED
    BY <1>2, <1>3, Begins DEF BeginClaim

-----------------------------------------------------------------------------
\* What request w remembers, and what it is.
LEMMA Remembered ==
    ASSUME HuntInv, NEW w \in Hunters
    PROVE  /\ hunts[w] \in HuntJobs
           /\ JobRight(hunts[w], today, hunted, challenge, regenerated, plays)
           /\ today \in Nat /\ hunted \in Nat /\ regenerated \subseteq Days
           /\ challenge \in [Days -> Challenges \union {NoChallenge}]
           /\ plays \in [Players \X Days -> PlayRows \union {NoPlay}]
  BY NextNumber DEF HuntInv, HuntFits

LEMMA SubmitAttemptKeeps ==
    ASSUME HuntInv, NEW w \in Hunters, SubmitAttempt(w)
    PROVE  HuntInv'
  <1>. DEFINE j   == hunts[w]
              job == [j EXCEPT !.at = "look", !.day = today]
  <1>1. /\ j \in PlayJobs /\ j.at = "called" /\ j # Free
        /\ JobRight(j, today, hunted, challenge, regenerated, plays)
    BY Remembered, HuntJobFields DEF SubmitAttempt, At, Free
  <1>2. /\ job \in PlayJobs /\ job.at = "look" /\ job.day = today /\ job.no = j.no
        /\ job.user = j.user /\ job.kind = "attempt"
    BY <1>1, NextNumber DEF PlayJobs
  <1>3. j.day \in Days /\ j.day <= today /\ j.no \in 1..hunted
    BY <1>1 DEF PlayJobs, JobRight
  <1>4. \A u \in Players : MayWrite(job, u, today) => Overlaps(u, today, j.no, plays)
    <2>1. today >= j.day
      BY <1>3, NextNumber DEF Days
    <2>2. \A u \in Players : MayWrite(job, u, today) => MayWrite(j, u, today)
      BY <1>1, <1>2, <2>1 DEF MayWrite, PlayJobs
    <2>3. QED
      BY <1>1, <2>2, NextNumber DEF JobRight
  <1>. HIDE DEF job
  <1>5. job \in HuntJobs
    BY <1>2 DEF HuntJobs
  <1>6. JobRight(job, today, hunted, challenge, regenerated, plays)
    BY <1>2, <1>3, <1>4, NextNumber DEF JobRight, MayWrite
  <1>7. QED
    BY <1>1, <1>2, <1>5, <1>6, Continues DEF SubmitAttempt, job

LEMMA DeleteChallengeKeeps ==
    ASSUME HuntInv, NEW w \in Hunters, DeleteChallenge(w)
    PROVE  HuntInv'
  <1>. DEFINE j   == hunts[w]
              job == [j EXCEPT !.at = "look"]
              d   == j.day
  <1>1. /\ j \in RenewJobs /\ j.at = "delete" /\ j # Free
        /\ JobRight(j, today, hunted, challenge, regenerated, plays)
    BY Remembered, HuntJobFields DEF DeleteChallenge, At, Free
  <1>2. /\ job \in RenewJobs /\ job.at = "look" /\ job.day = d /\ job.no = j.no
        /\ job.kind = "regenerate"
    BY <1>1 DEF RenewJobs
  <1>3. d \in Days /\ d <= today /\ j.no \in 1..hunted
    BY <1>1 DEF RenewJobs, JobRight
  <1>4. /\ hunts' = [hunts EXCEPT ![w] = job] /\ today' = today /\ hunted' = hunted
        /\ plays' = plays
    BY DEF DeleteChallenge, Goes
  <1>. HIDE DEF job
  <1>5. job \in HuntJobs
    BY <1>2 DEF HuntJobs
  <1>6. \A ch, re : JobRight(job, today, hunted, ch, re, plays)
    BY <1>2, <1>3 DEF JobRight, MayWrite
  <1>7. /\ challenge' \in [Days -> Challenges \union {NoChallenge}]
        /\ regenerated \subseteq regenerated' /\ regenerated' \subseteq Days
        /\ \A x \in Days \ regenerated' : challenge[x] # NoChallenge => challenge'[x] = challenge[x]
    <2>1. CASE challenge[d].id = j.old
      <3>1. /\ challenge' = [challenge EXCEPT ![d] = NoChallenge]
            /\ regenerated' = regenerated \union {d}
        BY <2>1 DEF DeleteChallenge
      <3>2. QED
        BY <1>3, <3>1, Remembered
    <2>2. CASE challenge[d].id # j.old
      BY <2>2, Remembered DEF DeleteChallenge
    <2>3. QED
      BY <2>1, <2>2
  <1>8. hunted' \in 0..MaxHunts /\ hunted <= hunted'
    BY <1>4, NextNumber DEF HuntInv, HuntFits
  <1>9. JobRight(job, today, hunted', challenge', regenerated', plays)
    BY <1>4, <1>6
  <1>10. \A v \in Hunters \ {w} : hunts[v].no # job.no
    BY <1>1, <1>2 DEF HuntInv, Numbered
  <1>11. QED
    BY <1>4, <1>5, <1>7, <1>8, <1>9, <1>10, JobMoves

\* The challenge of the request's day was found or stored: it is graded by it or answered.
LEMMA GotKeeps ==
    ASSUME HuntInv, NEW w \in Hunters, hunts[w].at \in {"look", "model", "lost"},
           NEW c \in Challenges, Got(w, c), UNCHANGED <<plays, regenerated>>,
           challenge' \in [Days -> Challenges \union {NoChallenge}],
           \A x \in Days : challenge[x] # NoChallenge => challenge'[x] = challenge[x],
           challenge'[hunts[w].day] = c
    PROVE  HuntInv'
  <1>. DEFINE j == hunts[w]
  <1>1. /\ j \in AskJobs \union PlayJobs \union RenewJobs /\ j # Free
        /\ JobRight(j, today, hunted, challenge, regenerated, plays)
    BY Remembered, HuntJobFields DEF Free
  <1>2. hunted \in 0..MaxHunts /\ hunted \in Nat /\ hunted <= hunted /\ regenerated \subseteq Days
    BY NextNumber DEF HuntInv, HuntFits
  <1>3. CASE j.kind = "attempt" /\ j.user # Anonymous
    <2>1. j \in PlayJobs
      BY <1>1, <1>3 DEF AskJobs, RenewJobs
    <2>2. PICK tier \in Tiers(j.line, c) :
            Goes(w, [at |-> "graded", no |-> j.no, kind |-> "attempt", user |-> j.user,
                     line |-> j.line, day |-> j.day, tier |-> tier])
      BY <1>3 DEF Got
    <2>. DEFINE job == [at |-> "graded", no |-> j.no, kind |-> "attempt", user |-> j.user,
                        line |-> j.line, day |-> j.day, tier |-> tier]
    <2>3. hunts' = [hunts EXCEPT ![w] = job] /\ today' = today /\ hunted' = hunted
      BY <2>2 DEF Goes
    <2>4. /\ j.user \in Players \ {Anonymous} /\ j.line \in Lines /\ j.day \in Days
          /\ j.no \in Nat
      BY <1>3, <2>1 DEF PlayJobs
    <2>5. tier \in Results
      BY DEF Tiers, Results
    <2>6. job \in GradeJobs
      BY <2>4, <2>5 DEF GradeJobs
    <2>7. /\ job.at = "graded" /\ job.day = j.day /\ job.no = j.no /\ job.user = j.user
          /\ job.line = j.line /\ job.tier = tier /\ job.kind = "attempt"
      OBVIOUS
    <2>. HIDE DEF job
    <2>8. Right(j.day, j.line, tier, challenge', regenerated')
      BY DEF Right, Challenges, NoChallenge
    <2>9. \A u \in Players, d \in Days : MayWrite(job, u, d) => Overlaps(u, d, j.no, plays)
      <3>1. \A u \in Players, d \in Days : MayWrite(job, u, d) => MayWrite(j, u, d)
        BY <1>3, <2>7 DEF MayWrite
      <3>2. QED
        BY <1>1, <3>1 DEF JobRight
    <2>10. j.no \in 1..hunted /\ j.day <= today
      BY <1>1 DEF JobRight
    <2>11. JobRight(job, today, hunted', challenge', regenerated', plays)
      BY <2>3, <2>7, <2>8, <2>9, <2>10 DEF JobRight
    <2>12. job \in HuntJobs
      BY <2>6 DEF HuntJobs
    <2>13. \A v \in Hunters \ {w} : hunts[v].no # job.no
      BY <1>1, <2>7 DEF HuntInv, Numbered
    <2>14. QED
      BY <1>2, <2>3, <2>11, <2>12, <2>13, JobMoves
  <1>4. CASE ~(j.kind = "attempt" /\ j.user # Anonymous)
    <2>1. hunts' = [hunts EXCEPT ![w] = Free] /\ today' = today /\ hunted' = hunted
      BY <1>4 DEF Got, Stops, Goes
    <2>2. Free \in HuntJobs /\ JobRight(Free, today, hunted', challenge', regenerated', plays)
      BY FreeIsRight
    <2>3. QED
      BY <1>2, <2>1, <2>2, JobMoves
  <1>5. QED
    BY <1>3, <1>4

\* The next step of looking for a challenge.
LEMMA LookingGoesOn ==
    ASSUME HuntInv, NEW w \in Hunters, hunts[w].at \in {"look", "model", "lost"},
           NEW step \in {"model", "lost"}, Goes(w, [hunts[w] EXCEPT !.at = step]),
           UNCHANGED <<challenge, plays, regenerated>>
    PROVE  HuntInv'
  <1>. DEFINE j   == hunts[w]
              job == [j EXCEPT !.at = step]
  <1>1. /\ j \in AskJobs \union PlayJobs \union RenewJobs /\ j # Free
        /\ JobRight(j, today, hunted, challenge, regenerated, plays)
    BY Remembered, HuntJobFields DEF Free
  <1>2. /\ job \in AskJobs \union PlayJobs \union RenewJobs /\ job.at = step
        /\ job.no = j.no /\ job.day = j.day /\ job.kind = j.kind
        /\ job.kind = "attempt" => job.user = j.user
    <2>1. CASE j \in AskJobs
      BY <2>1 DEF AskJobs
    <2>2. CASE j \in PlayJobs
      BY <2>2 DEF PlayJobs
    <2>3. CASE j \in RenewJobs
      BY <2>3 DEF RenewJobs
    <2>4. QED
      BY <1>1, <2>1, <2>2, <2>3
  <1>. HIDE DEF job
  <1>3. job \in HuntJobs
    BY <1>2 DEF HuntJobs
  <1>4. \A u \in Players, d \in Days : MayWrite(job, u, d) => Overlaps(u, d, j.no, plays)
    <2>1. \A u \in Players, d \in Days : MayWrite(job, u, d) => MayWrite(j, u, d)
      BY <1>2 DEF MayWrite
    <2>2. QED
      BY <1>1, <2>1 DEF JobRight
  <1>5. JobRight(job, today, hunted, challenge, regenerated, plays)
    BY <1>1, <1>2, <1>4 DEF JobRight
  <1>6. QED
    BY <1>1, <1>2, <1>3, <1>5, Continues DEF job

\* A request ends without a write.
LEMMA EndsKeep ==
    ASSUME HuntInv, NEW w \in Hunters, Stops(w), UNCHANGED <<challenge, plays, regenerated>>
    PROVE  HuntInv'
  BY FreeIsRight, Continues DEF Stops

LEMMA FoundChallenge ==
    ASSUME HuntInv, NEW w \in Hunters, hunts[w].at \in {"look", "model", "lost"}
    PROVE  hunts[w].day \in Days /\ (challenge[hunts[w].day] # NoChallenge =>
                                       challenge[hunts[w].day] \in Challenges)
  <1>1. hunts[w].day \in Days
    BY Remembered, HuntJobFields
  <1>2. QED
    BY <1>1, Remembered

LEMMA LookUpKeeps ==
    ASSUME HuntInv, NEW w \in Hunters, LookUp(w)
    PROVE  HuntInv'
  <1>1. hunts[w].at = "look" /\ UNCHANGED <<challenge, plays, regenerated>>
    BY DEF LookUp, At
  <1>2. CASE challenge[hunts[w].day] # NoChallenge
    <2>1. Got(w, challenge[hunts[w].day])
      BY <1>2 DEF LookUp
    <2>2. QED
      BY <1>1, <1>2, <2>1, FoundChallenge, Remembered, GotKeeps
  <1>3. CASE challenge[hunts[w].day] = NoChallenge
    BY <1>1, <1>3, LookingGoesOn DEF LookUp
  <1>4. QED
    BY <1>2, <1>3

LEMMA ReadBackKeeps ==
    ASSUME HuntInv, NEW w \in Hunters, ReadBack(w)
    PROVE  HuntInv'
  <1>1. hunts[w].at = "lost" /\ UNCHANGED <<challenge, plays, regenerated>>
    BY DEF ReadBack, At
  <1>2. CASE challenge[hunts[w].day] # NoChallenge
    <2>1. Got(w, challenge[hunts[w].day])
      BY <1>2 DEF ReadBack
    <2>2. QED
      BY <1>1, <1>2, <2>1, FoundChallenge, Remembered, GotKeeps
  <1>3. CASE challenge[hunts[w].day] = NoChallenge
    BY <1>1, <1>3, EndsKeep DEF ReadBack
  <1>4. QED
    BY <1>2, <1>3

LEMMA GenerateKeeps ==
    ASSUME HuntInv, NEW w \in Hunters, NEW l \in Lines, Generate(w, l)
    PROVE  HuntInv'
  <1>. DEFINE d   == hunts[w].day
              new == [id |-> hunts[w].no, line |-> l]
  <1>1. hunts[w].at = "model" /\ UNCHANGED <<plays, regenerated>>
    BY DEF Generate, At
  <1>2. d \in Days
    BY <1>1, FoundChallenge
  <1>3. CASE challenge[d] = NoChallenge
    <2>1. challenge' = [challenge EXCEPT ![d] = new] /\ Got(w, new)
      BY <1>3 DEF Generate
    <2>2. new \in Challenges
      <3>1. hunts[w] # Free
        BY <1>1 DEF Free
      <3>2. hunts[w].no \in 1..hunted
        BY <3>1, Remembered DEF JobRight
      <3>3. hunted \in 0..MaxHunts /\ MaxHunts \in Nat
        BY HuntAssumption DEF HuntInv, HuntFits
      <3>4. hunts[w].no \in 1..MaxHunts
        BY <3>2, <3>3
      <3>5. QED
        BY <3>4 DEF Challenges
    <2>. HIDE DEF new
    <2>3. /\ challenge' \in [Days -> Challenges \union {NoChallenge}]
          /\ \A x \in Days : challenge[x] # NoChallenge => challenge'[x] = challenge[x]
          /\ challenge'[d] = new
      BY <1>2, <1>3, <2>1, <2>2, Remembered
    <2>4. QED
      BY <1>1, <2>1, <2>2, <2>3, GotKeeps
  <1>4. CASE challenge[d] # NoChallenge
    BY <1>1, <1>4, LookingGoesOn DEF Generate
  <1>5. QED
    BY <1>3, <1>4

LEMMA FindPlayKeeps ==
    ASSUME HuntInv, NEW w \in Hunters, FindPlay(w)
    PROVE  HuntInv'
  <1>. DEFINE j   == hunts[w]
              was == plays[<<j.user, j.day>>]
              job == [at |-> "store", no |-> j.no, kind |-> "attempt", user |-> j.user,
                      line |-> j.line, day |-> j.day, tier |-> j.tier, old |-> was]
  <1>1. /\ j \in GradeJobs /\ j.at = "graded" /\ j # Free
        /\ JobRight(j, today, hunted, challenge, regenerated, plays)
    BY Remembered, HuntJobFields DEF FindPlay, At, Free
  <1>2. was \in PlayRows \union {NoPlay}
    BY <1>1, Remembered DEF GradeJobs
  <1>3. job \in StoreJobs
    BY <1>1, <1>2 DEF GradeJobs, StoreJobs
  <1>4. \A u \in Players, d \in Days : MayWrite(job, u, d) => Overlaps(u, d, j.no, plays)
    <2>1. \A u \in Players, d \in Days : MayWrite(job, u, d) => MayWrite(j, u, d)
      BY <1>1 DEF MayWrite, GradeJobs
    <2>2. QED
      BY <1>1, <2>1 DEF JobRight
  <1>5. JobRight(job, today, hunted, challenge, regenerated, plays)
    BY <1>1, <1>4 DEF JobRight
  <1>6. job \in HuntJobs
    BY <1>3 DEF HuntJobs
  <1>7. QED
    BY <1>1, <1>5, <1>6, Continues DEF FindPlay

\* The row that is inserted knows of the player's other attempts.
LEMMA RivalsAreKnown ==
    ASSUME HuntInv, NEW w \in Hunters, NEW v \in Hunters \ {w}, NEW d,
           MayWrite(hunts[v], hunts[w].user, d)
    PROVE  hunts[v].no \in Rivals(w)
  BY DEF Rivals, MayWrite, Free

LEMMA RivalsAreNumbers == HuntInv => \A w \in Hunters : Rivals(w) \in SUBSET Nat
  BY HuntJobFields DEF Rivals, HuntInv, HuntFits

LEMMA StorePlayKeeps ==
    ASSUME HuntInv, NEW w \in Hunters, StorePlay(w)
    PROVE  HuntInv'
  <1>. DEFINE j == hunts[w]
              p == <<j.user, j.day>>
  <1>1. /\ j \in StoreJobs /\ j.at = "store" /\ j # Free
        /\ JobRight(j, today, hunted, challenge, regenerated, plays)
    BY Remembered, HuntJobFields DEF StorePlay, At, Free
  <1>2. /\ hunts' = [hunts EXCEPT ![w] = Free]
        /\ UNCHANGED <<today, hunted, challenge, regenerated>>
    BY DEF StorePlay, Stops, Goes
  <1>3. /\ j.user \in Players /\ j.day \in Days /\ j.line \in Lines /\ j.tier \in Results
        /\ j.no \in Nat /\ j.user # Anonymous /\ j.kind = "attempt"
    BY <1>1 DEF StoreJobs
  <1>4. /\ j.day <= today /\ Right(j.day, j.line, j.tier, challenge, regenerated)
        /\ j.day \notin regenerated => challenge[j.day] # NoChallenge
    BY <1>1 DEF JobRight, Right
  <1>5. CASE j.old # NoPlay
    <2>. DEFINE row == plays[p]
                new == Updated(j, row)
    <2>1. plays' = [plays EXCEPT ![p] = new]
      BY <1>5 DEF StorePlay
    <2>2. row # NoPlay /\ row \in PlayRows /\ (j.old = row \/ Contested(row))
      BY <1>1, <1>3, <1>5, Remembered DEF JobRight
    <2>3. j.no \in row.rivals
      <3>1. MayWrite(j, j.user, j.day)
        BY <1>1, <1>3 DEF MayWrite
      <3>2. QED
        BY <1>1, <1>3, <2>2, <3>1 DEF JobRight, Overlaps
    <2>. HIDE DEF row
    <2>4. /\ new \in PlayRows /\ new.rivals = row.rivals
          /\ j.old = row => new.line = j.line /\ new.tier = j.tier
      BY <1>3, <2>2 DEF Updated, PlayRows
    <2>. HIDE DEF new
    <2>5. new # NoPlay
      BY <2>4, HuntAssumption DEF PlayRows, NoPlay
    <2>6. Contested(new) <=> Contested(row)
      BY <2>4 DEF Contested
    <2>7. Right(j.day, new.line, new.tier, challenge, regenerated) \/ Contested(new)
      BY <1>4, <2>2, <2>4, <2>6
    <2>8. ASSUME NEW v \in Hunters \ {w}, MayWrite(hunts[v], j.user, j.day)
          PROVE  hunts[v].no \in new.rivals /\ Contested(new)
      <3>1. JobRight(hunts[v], today, hunted, challenge, regenerated, plays)
        BY Remembered
      <3>2. hunts[v].no \in row.rivals
        BY <1>3, <2>2, <2>8, <3>1 DEF JobRight, Overlaps, row
      <3>3. hunts[v].no # j.no
        BY <1>1 DEF HuntInv, Numbered
      <3>4. QED
        BY <2>3, <2>4, <2>6, <3>2, <3>3 DEF Contested
    <2>9. plays' \in [Players \X Days -> PlayRows \union {NoPlay}]
      BY <2>1, <2>4, Remembered
    <2>10. ASSUME NEW u \in Players, NEW d \in Days
           PROVE  \/ plays'[<<u, d>>] = plays[<<u, d>>]
                  \/ u = j.user /\ d = j.day /\ plays'[<<u, d>>] = new
      BY <2>1, Remembered
    <2>11. ASSUME NEW u \in Players, NEW d \in Days, plays'[<<u, d>>] # plays[<<u, d>>]
           PROVE  /\ d <= today /\ plays'[<<u, d>>] # NoPlay
                  /\ d \notin regenerated => challenge[d] # NoChallenge
                  /\ \/ Right(d, plays'[<<u, d>>].line, plays'[<<u, d>>].tier, challenge, regenerated)
                     \/ Contested(plays'[<<u, d>>])
                  /\ \A v \in Hunters \ {w} : MayWrite(hunts[v], u, d) =>
                        /\ hunts[v].no \in plays'[<<u, d>>].rivals
                        /\ plays[<<u, d>>] = NoPlay \/ Contested(plays'[<<u, d>>])
      <3>1. u = j.user /\ d = j.day /\ plays'[<<u, d>>] = new
        BY <2>10, <2>11
      <3>2. \A v \in Hunters \ {w} : MayWrite(hunts[v], j.user, j.day) =>
               hunts[v].no \in new.rivals /\ Contested(new)
        BY <2>8
      <3>3. QED
        BY <1>4, <2>5, <2>7, <3>1, <3>2, Zenon
    <2>12. QED
      BY <1>2, <2>9, <2>11, PlaysStored, Zenon
  <1>6. CASE j.old = NoPlay /\ plays[p] = NoPlay
    <2>. DEFINE new == Row(w, j.tier)
    <2>1. plays' = [plays EXCEPT ![p] = new]
      BY <1>6 DEF StorePlay
    <2>2. /\ new \in PlayRows /\ new.line = j.line /\ new.tier = j.tier
          /\ new.rivals = Rivals(w)
      BY <1>3, RivalsAreNumbers DEF Row, PlayRows
    <2>. HIDE DEF new
    <2>3. new # NoPlay
      BY <2>2, HuntAssumption DEF PlayRows, NoPlay
    <2>4. \A v \in Hunters \ {w} : MayWrite(hunts[v], j.user, j.day) =>
             hunts[v].no \in new.rivals
      BY <2>2, RivalsAreKnown
    <2>5. plays' \in [Players \X Days -> PlayRows \union {NoPlay}]
      BY <2>1, <2>2, Remembered
    <2>6. ASSUME NEW u \in Players, NEW d \in Days
          PROVE  \/ plays'[<<u, d>>] = plays[<<u, d>>]
                 \/ /\ u = j.user /\ d = j.day /\ plays'[<<u, d>>] = new
                    /\ plays[<<u, d>>] = NoPlay
      BY <1>6, <2>1, Remembered
    <2>7. ASSUME NEW u \in Players, NEW d \in Days, plays'[<<u, d>>] # plays[<<u, d>>]
          PROVE  /\ d <= today /\ plays'[<<u, d>>] # NoPlay
                 /\ d \notin regenerated => challenge[d] # NoChallenge
                 /\ \/ Right(d, plays'[<<u, d>>].line, plays'[<<u, d>>].tier, challenge, regenerated)
                    \/ Contested(plays'[<<u, d>>])
                 /\ \A v \in Hunters \ {w} : MayWrite(hunts[v], u, d) =>
                       /\ hunts[v].no \in plays'[<<u, d>>].rivals
                       /\ plays[<<u, d>>] = NoPlay \/ Contested(plays'[<<u, d>>])
      <3>1. u = j.user /\ d = j.day /\ plays'[<<u, d>>] = new /\ plays[<<u, d>>] = NoPlay
        BY <2>6, <2>7
      <3>2. Right(j.day, new.line, new.tier, challenge, regenerated)
        BY <1>4, <2>2
      <3>3. QED
        BY <1>4, <2>3, <2>4, <3>1, <3>2, Zenon
    <2>8. QED
      BY <1>2, <2>5, <2>7, PlaysStored, Zenon
  <1>7. CASE j.old = NoPlay /\ plays[p] # NoPlay
    BY <1>2, <1>7, EndsKeep DEF StorePlay
  <1>8. QED
    BY <1>5, <1>6, <1>7

LEMMA ClaimDayKeeps ==
    ASSUME HuntInv, NEW w \in Hunters, ClaimDay(w)
    PROVE  HuntInv'
  <1>. DEFINE j    == hunts[w]
              d    == CHOOSE x \in j.left : \A y \in j.left : x <= y
              skip == challenge[d] = NoChallenge \/ Played(j.user, d)
  <1>1. /\ j \in ClaimJobs /\ j.at = "claim" /\ j # Free /\ j.left # {}
        /\ JobRight(j, today, hunted, challenge, regenerated, plays)
    BY Remembered, HuntJobFields DEF ClaimDay, At, Free
  <1>2. /\ UNCHANGED <<challenge, plays, regenerated>>
        /\ \E tier \in Tiers(j.line, challenge[d]) :
              Goes(w, [j EXCEPT !.left = @ \ {d},
                         !.rows = IF skip THEN @ ELSE @ \union {[day |-> d, tier |-> tier]}])
    BY DEF ClaimDay
  <1>3. PICK tier \in Tiers(j.line, challenge[d]) :
              Goes(w, [j EXCEPT !.left = @ \ {d},
                         !.rows = IF skip THEN @ ELSE @ \union {[day |-> d, tier |-> tier]}])
    BY <1>2
  <1>. DEFINE row  == [day |-> d, tier |-> tier]
              kept == IF skip THEN j.rows ELSE j.rows \union {row}
              job  == [j EXCEPT !.left = @ \ {d}, !.rows = kept]
  <1>4. Goes(w, job)
    BY <1>3
  <1>5. d \in j.left
    <2>1. j.left \subseteq Nat
      BY <1>1 DEF ClaimJobs, Days
    <2>2. \E m \in j.left : \A y \in j.left : m <= y
      BY <1>1, <2>1, LeastNumber
    <2>3. QED
      BY <2>2
  <1>. HIDE DEF d
  <1>6. d \in Days /\ d <= today /\ j.left \subseteq Days /\ j.rows \subseteq ClaimRows
    BY <1>1, <1>5 DEF ClaimJobs, JobRight
  <1>7. row \in ClaimRows /\ row.day = d /\ row.tier = tier
    BY <1>6 DEF ClaimRows, Tiers, Results
  <1>8. ASSUME ~skip PROVE Right(d, j.line, row.tier, challenge, regenerated)
    BY <1>7, <1>8 DEF Right
  <1>. HIDE DEF row, skip
  <1>9. kept \in SUBSET ClaimRows
    BY <1>6, <1>7
  <1>10. \A r \in kept : r.day <= today /\ Right(r.day, j.line, r.tier, challenge, regenerated)
    BY <1>1, <1>6, <1>7, <1>8 DEF JobRight
  <1>. HIDE DEF kept
  <1>11. /\ job \in ClaimJobs /\ job.at = "claim" /\ job.no = j.no /\ job.line = j.line
         /\ job.left = j.left \ {d} /\ job.rows = kept
    BY <1>1, <1>9 DEF ClaimJobs
  <1>. HIDE DEF job
  <1>12. JobRight(job, today, hunted, challenge, regenerated, plays)
    BY <1>1, <1>10, <1>11 DEF JobRight, MayWrite
  <1>13. job \in HuntJobs
    BY <1>11 DEF HuntJobs
  <1>14. QED
    BY <1>1, <1>2, <1>4, <1>11, <1>12, <1>13, Continues

LEMMA ClaimStreakKeeps ==
    ASSUME HuntInv, NEW w \in Hunters, ClaimStreak(w)
    PROVE  HuntInv'
  <1>. DEFINE j == hunts[w]
  <1>1. /\ j \in ClaimJobs /\ j.at = "claim" /\ j # Free
        /\ JobRight(j, today, hunted, challenge, regenerated, plays)
    BY Remembered, HuntJobFields DEF ClaimStreak, At, Free
  <1>2. /\ hunts' = [hunts EXCEPT ![w] = Free]
        /\ UNCHANGED <<today, hunted, challenge, regenerated>>
    BY DEF ClaimStreak, Stops, Goes
  <1>3. CASE \E r \in j.rows : Played(j.user, r.day)
    BY <1>2, <1>3, EndsKeep DEF ClaimStreak
  <1>4. CASE ~\E r \in j.rows : Played(j.user, r.day)
    <2>. DEFINE Tiered(d) == (CHOOSE r \in j.rows : r.day = d).tier
    <2>1. plays' = [p \in Players \X Days |->
                      IF p[1] = j.user /\ \E r \in j.rows : r.day = p[2]
                      THEN Row(w, Tiered(p[2])) ELSE plays[p]]
      BY <1>4 DEF ClaimStreak
    <2>2. Rivals(w) \in SUBSET Nat
      BY RivalsAreNumbers
    <2>3. ASSUME NEW d \in Days, \E r \in j.rows : r.day = d
          PROVE  /\ Row(w, Tiered(d)) \in PlayRows /\ d <= today
                 /\ Row(w, Tiered(d)).rivals = Rivals(w) /\ Row(w, Tiered(d)) # NoPlay
                 /\ d \notin regenerated => challenge[d] # NoChallenge
                 /\ Right(d, Row(w, Tiered(d)).line, Row(w, Tiered(d)).tier, challenge, regenerated)
      <3>1. PICK r \in j.rows : r.day = d /\ Tiered(d) = r.tier
        BY <2>3
      <3>. HIDE DEF Tiered
      <3>2. r.tier \in Results /\ j.line \in Lines /\ j.no \in Nat
        BY <1>1 DEF ClaimJobs, ClaimRows
      <3>3. d <= today /\ Right(d, j.line, r.tier, challenge, regenerated)
        BY <1>1, <3>1 DEF JobRight
      <3>4. Row(w, r.tier) \in PlayRows /\ Row(w, r.tier).rivals = Rivals(w)
            /\ Row(w, r.tier).line = j.line /\ Row(w, r.tier).tier = r.tier
        BY <2>2, <3>2 DEF Row, PlayRows
      <3>5. Row(w, r.tier) # NoPlay
        BY <3>2, <3>4, HuntAssumption DEF NoPlay
      <3>6. QED
        BY <3>1, <3>3, <3>4, <3>5 DEF Right
    <2>. HIDE DEF Tiered
    <2>4. ASSUME NEW u \in Players, NEW d \in Days
          PROVE  \/ plays'[<<u, d>>] = plays[<<u, d>>]
                 \/ /\ \E r \in j.rows : r.day = d
                    /\ u = j.user /\ plays[<<u, d>>] = NoPlay
                    /\ plays'[<<u, d>>] = Row(w, Tiered(d))
      BY <1>4, <2>1 DEF Played
    <2>5. plays' \in [Players \X Days -> PlayRows \union {NoPlay}]
      <3>1. ASSUME NEW p \in Players \X Days
            PROVE  (IF p[1] = j.user /\ \E r \in j.rows : r.day = p[2]
                    THEN Row(w, Tiered(p[2])) ELSE plays[p]) \in PlayRows \union {NoPlay}
        BY <2>3, Remembered
      <3>2. QED
        BY <2>1, <3>1
    <2>6. ASSUME NEW u \in Players, NEW d \in Days
          PROVE
              \/ plays'[<<u, d>>] = plays[<<u, d>>]
              \/ /\ d <= today /\ plays'[<<u, d>>] # NoPlay
                 /\ d \notin regenerated => challenge[d] # NoChallenge
                 /\ \/ Right(d, plays'[<<u, d>>].line, plays'[<<u, d>>].tier, challenge, regenerated)
                    \/ Contested(plays'[<<u, d>>])
                 /\ \A v \in Hunters \ {w} : MayWrite(hunts[v], u, d) =>
                       /\ hunts[v].no \in plays'[<<u, d>>].rivals
                       /\ plays[<<u, d>>] = NoPlay \/ Contested(plays'[<<u, d>>])
      <3>1. CASE plays'[<<u, d>>] = plays[<<u, d>>]
        BY <3>1
      <3>2. CASE plays'[<<u, d>>] # plays[<<u, d>>]
        <4>1. /\ \E r \in j.rows : r.day = d
              /\ u = j.user /\ plays[<<u, d>>] = NoPlay
              /\ plays'[<<u, d>>] = Row(w, Tiered(d))
          BY <2>4, <3>2
        <4>2. \A v \in Hunters \ {w} : MayWrite(hunts[v], u, d) =>
                 hunts[v].no \in plays'[<<u, d>>].rivals
          BY <2>3, <4>1, RivalsAreKnown
        <4>3. QED
          BY <2>3, <4>1, <4>2
      <3>3. QED
        BY <3>1, <3>2
    <2>7. QED
      BY <1>2, <2>5, <2>6, PlaysStored
  <1>5. QED
    BY <1>3, <1>4

-----------------------------------------------------------------------------
LEMMA HuntInitHolds == HuntInit => HuntInv
  <1>. SUFFICES ASSUME HuntInit PROVE HuntInv
    OBVIOUS
  <1>1. 1 \in Days /\ 0 \in 0..MaxHunts
    BY HuntAssumption DEF Days
  <1>2. HuntFits
    BY <1>1, FreeIsRight DEF HuntInit, HuntFits
  <1>3. FutureIsUnplayed /\ GradedAsStored /\ Numbered
    BY DEF HuntInit, FutureIsUnplayed, GradedAsStored, Played, Numbered
  <1>4. QED
    BY <1>2, <1>3, FreeIsRight DEF HuntInit, HuntInv

LEMMA HuntStep == HuntInv /\ [HuntNext]_huntVars => HuntInv'
  <1>. SUFFICES ASSUME HuntInv, [HuntNext]_huntVars PROVE HuntInv'
    OBVIOUS
  <1>1. CASE UNCHANGED huntVars
    BY <1>1 DEF huntVars, HuntInv, HuntFits, FutureIsUnplayed, GradedAsStored, Played, Numbered
  <1>2. CASE Midnight
    BY <1>2, MidnightKeeps
  <1>3. ASSUME NEW w \in Hunters,
               \/ BeginToday(w) \/ BeginRegenerate(w) \/ SubmitAttempt(w) \/ DeleteChallenge(w)
               \/ LookUp(w) \/ GenerateFails(w) \/ ReadBack(w) \/ FindPlay(w) \/ StorePlay(w)
               \/ ClaimDay(w) \/ ClaimStreak(w)
        PROVE  HuntInv'
    BY <1>3, BeginTodayKeeps, BeginRegenerateKeeps, SubmitAttemptKeeps, DeleteChallengeKeeps,
       LookUpKeeps, EndsKeep, ReadBackKeeps, FindPlayKeeps, StorePlayKeeps, ClaimDayKeeps,
       ClaimStreakKeeps DEF GenerateFails
  <1>4. ASSUME NEW w \in Hunters, NEW l \in Lines, Generate(w, l)
        PROVE  HuntInv'
    BY <1>4, GenerateKeeps
  <1>5. ASSUME NEW w \in Hunters, NEW l \in Lines, NEW u \in Players \union {Anonymous},
               BeginAttempt(w, u, l)
        PROVE  HuntInv'
    BY <1>5, BeginAttemptKeeps
  <1>6. ASSUME NEW w \in Hunters, NEW l \in Lines, NEW u \in Players,
               NEW ds \in SUBSET (1..today), BeginClaim(w, u, ds, l)
        PROVE  HuntInv'
    BY <1>6, BeginClaimKeeps
  <1>7. QED
    BY <1>1, <1>2, <1>3, <1>4, <1>5, <1>6 DEF HuntNext

LEMMA HuntInvariance == HuntSpec => []HuntInv
  <1>1. QED
    BY HuntInitHolds, HuntStep, PTL DEF HuntSpec

\* The type invariant of DailyHunt.
THEOREM HuntTypeCorrect == HuntSpec => []HuntTypeOK
  <1>1. HuntInv => HuntTypeOK
    <2>. SUFFICES ASSUME HuntInv PROVE HuntTypeOK
      OBVIOUS
    <2>1. Challenges \union {NoChallenge} \subseteq [id : 0..MaxHunts, line : Lines \union {0}]
      BY HuntAssumption DEF Challenges, NoChallenge
    <2>2. \A p \in DOMAIN plays : plays[p].tier \in {"none", "green", "yellow", "red"}
      BY DEF HuntInv, HuntFits, PlayRows, NoPlay, Results
    <2>3. \A w \in Hunters : hunts[w].at \in
            {"free", "called", "look", "delete", "model", "lost", "graded", "store", "claim"}
      BY HuntJobFields DEF HuntInv, HuntFits
    <2>4. QED
      BY <2>1, <2>2, <2>3 DEF HuntInv, HuntFits, HuntTypeOK
  <1>2. QED
    BY <1>1, HuntInvariance, PTL

\* Every stored result agrees with the challenge stored for its day, whoever generated it,
\* unless it was regenerated, and with its line, unless it was contested by two attempts.
THEOREM PlaysGradedAsStored == HuntSpec => []GradedAsStored
  <1>1. HuntInv => GradedAsStored
    BY DEF HuntInv
  <1>2. QED
    BY <1>1, HuntInvariance, PTL

-----------------------------------------------------------------------------
(* The streak.  RunUpTo is a recursive function: it exists, it has the      *)
(* values its definition says, and it grows with the set of played days.    *)

IsRun(f, D, n) ==
    f = [d \in 0..n |-> IF d = 0 \/ d \notin D THEN 0 ELSE 1 + f[d - 1]]

LEMMA RunsExist ==
    ASSUME NEW D, NEW n \in Nat
    PROVE  \E f \in [0..n -> Nat] : IsRun(f, D, n)
  <1>. DEFINE T == {m \in Nat : ~ \E f \in [0..m -> Nat] : IsRun(f, D, m)}
  <1>1. SUFFICES ASSUME T # {} PROVE FALSE
    OBVIOUS
  <1>2. PICK m \in T : \A k \in T : m <= k
    BY <1>1, LeastNumber
  <1>3. CASE m = 0
    <2>. DEFINE f == [d \in 0..0 |-> 0]
    <2>1. f \in [0..m -> Nat]
      BY <1>3
    <2>2. IsRun(f, D, m)
      BY <1>3 DEF IsRun
    <2>3. QED
      BY <2>1, <2>2
  <1>4. CASE m # 0
    <2>1. m \in Nat /\ m - 1 \in Nat /\ m - 1 \notin T
      BY <1>2, <1>4
    <2>2. PICK g \in [0..(m - 1) -> Nat] : IsRun(g, D, m - 1)
      BY <2>1
    <2>. DEFINE f == [d \in 0..m |-> IF d = m THEN (IF m \notin D THEN 0 ELSE 1 + g[m - 1]) ELSE g[d]]
    <2>3. \A d \in 0..m : d # m => d \in 0..(m - 1)
      BY <2>1
    <2>4. g[m - 1] \in Nat /\ m - 1 \in 0..m /\ m - 1 # m
      BY <2>1, <2>2
    <2>5. f \in [0..m -> Nat]
      BY <2>2, <2>3, <2>4
    <2>6. ASSUME NEW d \in 0..m
          PROVE  f[d] = IF d = 0 \/ d \notin D THEN 0 ELSE 1 + f[d - 1]
      <3>1. CASE d = m
        BY <1>4, <2>4, <3>1
      <3>2. CASE d # m
        <4>1. f[d] = g[d] /\ d \in 0..(m - 1)
          BY <2>3, <3>2
        <4>2. g[d] = IF d = 0 \/ d \notin D THEN 0 ELSE 1 + g[d - 1]
          BY <2>2, <4>1 DEF IsRun
        <4>3. d # 0 => d - 1 \in 0..m /\ d - 1 # m
          BY <2>1, <4>1
        <4>4. d # 0 => f[d - 1] = g[d - 1]
          BY <4>3
        <4>5. QED
          BY <4>1, <4>2, <4>4
      <3>3. QED
        BY <3>1, <3>2
    <2>7. IsRun(f, D, m)
      BY <2>6 DEF IsRun
    <2>8. QED
      BY <2>5, <2>7
  <1>5. QED
    BY <1>3, <1>4

LEMMA RunValues ==
    ASSUME NEW D
    PROVE  /\ RunUpTo(D) \in [0..LastDay -> Nat]
           /\ \A d \in 0..LastDay :
                RunUpTo(D)[d] = IF d = 0 \/ d \notin D THEN 0 ELSE 1 + RunUpTo(D)[d - 1]
  <1>1. LastDay \in Nat
    BY HuntAssumption
  <1>. DEFINE run == RunUpTo(D)
  <1>2. PICK f \in [0..LastDay -> Nat] : IsRun(f, D, LastDay)
    BY <1>1, RunsExist
  <1>3. run = [d \in 0..LastDay |-> IF d = 0 \/ d \notin D THEN 0 ELSE 1 + run[d - 1]]
    BY <1>2, Zenon DEF RunUpTo, IsRun
  <1>. HIDE DEF run
  <1>4. \A d \in 0..LastDay : run[d] = IF d = 0 \/ d \notin D THEN 0 ELSE 1 + run[d - 1]
    BY <1>3
  <1>5. DOMAIN run = 0..LastDay
    BY <1>3
  <1>6. ASSUME NEW d \in 0..LastDay PROVE run[d] \in Nat
    <2>. DEFINE T == {m \in 0..LastDay : run[m] \notin Nat}
    <2>1. SUFFICES ASSUME T # {} PROVE FALSE
      OBVIOUS
    <2>2. T \in SUBSET Nat
      BY <1>1
    <2>3. PICK m \in T : \A k \in T : m <= k
      BY <2>1, <2>2, LeastNumber
    <2>4. m # 0 => m - 1 \in 0..LastDay /\ m - 1 \notin T
      BY <1>1, <2>3
    <2>5. QED
      BY <1>4, <2>3, <2>4
  <1>7. QED
    BY <1>3, <1>4, <1>5, <1>6 DEF run

LEMMA RunGrows ==
    ASSUME NEW D, NEW E, D \subseteq E, NEW d \in 0..LastDay
    PROVE  RunUpTo(D)[d] <= RunUpTo(E)[d]
  <1>. DEFINE f == RunUpTo(D)
              g == RunUpTo(E)
              T == {m \in 0..LastDay : ~(f[m] <= g[m])}
  <1>1. LastDay \in Nat
    BY HuntAssumption
  <1>2. /\ f \in [0..LastDay -> Nat] /\ g \in [0..LastDay -> Nat]
        /\ \A m \in 0..LastDay : f[m] = IF m = 0 \/ m \notin D THEN 0 ELSE 1 + f[m - 1]
        /\ \A m \in 0..LastDay : g[m] = IF m = 0 \/ m \notin E THEN 0 ELSE 1 + g[m - 1]
    BY RunValues
  <1>. HIDE DEF f, g
  <1>3. SUFFICES ASSUME T # {} PROVE FALSE
    BY DEF f, g
  <1>4. T \in SUBSET Nat
    BY <1>1
  <1>5. \E m \in T : \A k \in T : m <= k
    <2>. HIDE DEF T
    <2>1. QED
      BY <1>3, <1>4, LeastNumber
  <1>6. PICK m \in T : \A k \in T : m <= k
    BY <1>5
  <1>7. CASE m = 0 \/ m \notin D
    <2>1. f[m] = 0 /\ g[m] \in Nat
      BY <1>2, <1>6, <1>7
    <2>2. QED
      BY <1>6, <2>1
  <1>8. CASE m # 0 /\ m \in D
    <2>1. m - 1 \in 0..LastDay /\ m - 1 \notin T
      BY <1>1, <1>6, <1>8
    <2>2. f[m] = 1 + f[m - 1] /\ g[m] = 1 + g[m - 1]
      BY <1>2, <1>6, <1>8
    <2>3. f[m - 1] \in Nat /\ g[m - 1] \in Nat /\ f[m - 1] <= g[m - 1]
      BY <1>2, <2>1
    <2>4. f[m] <= g[m]
      BY <2>2, <2>3
    <2>5. QED
      BY <1>6, <2>4
  <1>9. QED
    BY <1>7, <1>8

\* On one day a streak only grows with the days played.
LEMMA StreakGrows ==
    ASSUME NEW D, NEW E, D \subseteq E, NEW t \in Days
    PROVE  ~(Streak(E, t) < Streak(D, t))
  <1>1. /\ t \in 0..LastDay /\ t - 1 \in 0..LastDay /\ t # 0
    BY HuntAssumption DEF Days
  <1>. DEFINE f == RunUpTo(D)
              g == RunUpTo(E)
  <1>2. /\ f[t] \in Nat /\ f[t - 1] \in Nat /\ g[t] \in Nat /\ g[t - 1] \in Nat
        /\ f[t] <= g[t] /\ f[t - 1] <= g[t - 1]
        /\ t \in E => g[t] = 1 + g[t - 1]
    BY <1>1, RunValues, RunGrows
  <1>3. /\ Streak(D, t) = IF t \in D THEN f[t] ELSE f[t - 1]
        /\ Streak(E, t) = IF t \in E THEN g[t] ELSE g[t - 1]
    BY DEF Streak
  <1>. HIDE DEF f, g
  <1>4. QED
    BY <1>2, <1>3

\* Over the midnight that ends a played day it does not fall.
LEMMA StreakOverMidnight ==
    ASSUME NEW D, NEW t \in Days, t + 1 \in Days, t \in D
    PROVE  ~(Streak(D, t + 1) < Streak(D, t))
  <1>1. t \in 0..LastDay /\ t + 1 \in 0..LastDay /\ (t + 1) - 1 = t /\ t + 1 # 0
    BY HuntAssumption DEF Days
  <1>. DEFINE f == RunUpTo(D)
  <1>2. f[t] \in Nat /\ (t + 1 \in D => f[t + 1] = 1 + f[t])
    BY <1>1, RunValues
  <1>3. /\ Streak(D, t) = f[t]
        /\ Streak(D, t + 1) = IF t + 1 \in D THEN f[t + 1] ELSE f[t]
    BY <1>1 DEF Streak
  <1>. HIDE DEF f
  <1>4. QED
    BY <1>2, <1>3

\* Which steps store plays: the other ones leave them as they are.
LEMMA OnlyStoresPlay ==
    ASSUME HuntInv, HuntNext
    PROVE  \/ UNCHANGED plays
           \/ today' = today /\ \E w \in Hunters : StorePlay(w) \/ ClaimStreak(w)
  BY DEF HuntNext, Midnight, BeginToday, BeginRegenerate, BeginAttempt, BeginClaim, Starts,
     SubmitAttempt, DeleteChallenge, LookUp, GenerateFails, ReadBack, FindPlay, StorePlay,
     ClaimDay, ClaimStreak, Stops, Goes, Generate

\* A play that was stored is replaced only by an attempt under way when it was stored.
LEMMA ReplacedByOverlap ==
    ASSUME HuntInv, HuntNext, NEW p \in Players \X Days, plays[p] # NoPlay, plays'[p] # plays[p]
    PROVE  \E w \in Hunters : /\ At(w, "store") /\ hunts[w].user = p[1]
                              /\ plays'[p].by = hunts[w].no
                              /\ hunts[w].no \in plays[p].rivals
  <1>1. PICK w \in Hunters : StorePlay(w) \/ ClaimStreak(w)
    BY OnlyStoresPlay
  <1>. DEFINE j == hunts[w]
  <1>2. p = <<p[1], p[2]>> /\ p[1] \in Players /\ p[2] \in Days
    OBVIOUS
  <1>3. CASE StorePlay(w)
    <2>1. /\ j \in StoreJobs /\ j.at = "store" /\ At(w, "store")
          /\ JobRight(j, today, hunted, challenge, regenerated, plays)
      BY <1>3, Remembered, HuntJobFields DEF StorePlay, At
    <2>2. /\ j.user \in Players /\ j.user # Anonymous /\ j.day \in Days /\ j.kind = "attempt"
          /\ j.line \in Lines /\ j.tier \in Results
      BY <2>1 DEF StoreJobs
    <2>3. p = <<j.user, j.day>>
      BY <1>3, Remembered DEF StorePlay
    <2>4. plays' = [plays EXCEPT ![p] = Updated(j, plays[p])]
      BY <1>3, <2>3 DEF StorePlay
    <2>5. plays[p] \in PlayRows
      BY <1>2, Remembered
    <2>6. p[1] = j.user /\ plays'[p].by = j.no
      BY <2>3, <2>4, <2>5, Remembered DEF Updated, PlayRows
    <2>7. MayWrite(j, j.user, j.day)
      BY <2>1, <2>2 DEF MayWrite
    <2>8. j.no \in plays[p].rivals
      BY <2>1, <2>2, <2>3, <2>7 DEF JobRight, Overlaps
    <2>9. QED
      BY <2>1, <2>6, <2>8
  <1>4. CASE ClaimStreak(w)
    <2>1. p[1] = j.user /\ \E r \in j.rows : r.day = p[2]
      BY <1>4, Remembered DEF ClaimStreak
    <2>2. ~Played(j.user, p[2])
      BY <1>4, <2>1 DEF ClaimStreak
    <2>3. QED
      BY <1>2, <2>1, <2>2 DEF Played
  <1>5. QED
    BY <1>1, <1>3, <1>4

\* Plays are stored for good: a day that was played stays so.
LEMMA PlayedStays ==
    ASSUME HuntInv, HuntNext, NEW u \in Players
    PROVE  PlayedDays(u) \subseteq {d \in Days : plays'[<<u, d>>] # NoPlay}
  <1>. SUFFICES ASSUME NEW d \in Days, plays[<<u, d>>] # NoPlay PROVE plays'[<<u, d>>] # NoPlay
    BY DEF PlayedDays, Played
  <1>1. CASE UNCHANGED plays
    BY <1>1
  <1>2. ASSUME NEW w \in Hunters, StorePlay(w) PROVE plays'[<<u, d>>] # NoPlay
    <2>. DEFINE j == hunts[w]
    <2>1. j \in StoreJobs
      BY <1>2, Remembered, HuntJobFields DEF StorePlay, At
    <2>2. j.line \in Lines /\ j.user \in Players /\ j.day \in Days
      BY <2>1 DEF StoreJobs
    <2>3. Row(w, j.tier) # NoPlay
      <3>1. Row(w, j.tier).line \in Lines /\ NoPlay.line = 0 /\ 0 \notin Lines
        BY <2>2, HuntAssumption DEF Row, NoPlay
      <3>2. QED
        BY <3>1
    <2>4. ASSUME NEW row \in PlayRows PROVE Updated(j, row) # NoPlay
      <3>1. Updated(j, row).line \in Lines /\ NoPlay.line = 0 /\ 0 \notin Lines
        BY <2>2, HuntAssumption DEF Updated, PlayRows, NoPlay
      <3>2. QED
        BY <3>1
    <2>5. plays[<<u, d>>] \in PlayRows
      BY Remembered
    <2>6. QED
      BY <1>2, <2>3, <2>4, <2>5, Remembered DEF StorePlay
  <1>3. ASSUME NEW w \in Hunters, ClaimStreak(w) PROVE plays'[<<u, d>>] # NoPlay
    <2>. DEFINE v == hunts[w].user  rows == hunts[w].rows
    <2>1. CASE \E r \in rows : Played(v, r.day)
      BY <1>3, <2>1 DEF ClaimStreak
    <2>2. CASE ~(\E r \in rows : Played(v, r.day))
      <3>1. plays' = [p \in Players \X Days |->
                IF p[1] = v /\ \E r \in rows : r.day = p[2]
                THEN Row(w, (CHOOSE r \in rows : r.day = p[2]).tier) ELSE plays[p]]
        BY <1>3, <2>2 DEF ClaimStreak
      <3>2. <<u, d>> \in Players \X Days /\ <<u, d>>[1] = u /\ <<u, d>>[2] = d
        OBVIOUS
      <3>3. ~(u = v /\ \E r \in rows : r.day = d)
        BY <2>2 DEF Played
      <3>. HIDE DEF v, rows
      <3>4. plays'[<<u, d>>] = plays[<<u, d>>]
        BY <3>1, <3>2, <3>3
      <3>5. QED
        BY <3>4
    <2>3. QED
      BY <2>1, <2>2
  <1>4. QED
    BY <1>1, <1>2, <1>3, OnlyStoresPlay

\* A streak falls only at the midnight after a day without a play.
LEMMA StreakFallsAtMidnight ==
    ASSUME HuntInv, HuntNext, NEW u \in Players,
           Streak({d \in Days : plays'[<<u, d>>] # NoPlay}, today') < Streak(PlayedDays(u), today)
    PROVE  today' # today /\ ~Played(u, today)
  <1>. DEFINE D == PlayedDays(u)
              E == {d \in Days : plays'[<<u, d>>] # NoPlay}
  <1>1. D \subseteq E /\ today \in Days /\ today' \in Days
    <2>1. HuntInv'
      BY HuntStep
    <2>2. QED
      BY <2>1, PlayedStays DEF HuntInv, HuntFits
  <1>. HIDE DEF D, E
  <1>2. today' # today
    BY <1>1, StreakGrows DEF D, E
  <1>3. Midnight
    BY ZenonT(60), <1>2 DEF HuntNext, BeginToday, BeginRegenerate, BeginAttempt, BeginClaim, Starts,
       SubmitAttempt, DeleteChallenge, LookUp, GenerateFails, ReadBack, FindPlay, StorePlay,
       ClaimDay, ClaimStreak, Stops, Goes, Generate, Got
  <1>4. today' = today + 1 /\ E = D
    BY <1>3 DEF Midnight, D, E, PlayedDays, Played
  <1>5. today \notin D
    <2>1. SUFFICES ASSUME today \in D PROVE FALSE
      OBVIOUS
    <2>2. ~(Streak(D, today + 1) < Streak(D, today))
      BY <1>1, <1>4, <2>1, StreakOverMidnight
    <2>3. QED
      BY <1>4, <2>2 DEF D, E
  <1>6. QED
    BY <1>1, <1>2, <1>5 DEF D, PlayedDays

\* A stored play is final but for an overlapping attempt, and no step takes a streak away:
\* it ends at a midnight, after a day without a play.
THEOREM PlayedIsFinal == HuntSpec => PlayedDaysAreFinal
  <1>. DEFINE A == /\ \A p \in Players \X Days : plays[p] # NoPlay /\ plays'[p] # plays[p] =>
                        \E w \in Hunters : /\ At(w, "store") /\ hunts[w].user = p[1]
                                           /\ plays'[p].by = hunts[w].no
                                           /\ hunts[w].no \in plays[p].rivals
                   /\ \A u \in Players :
                        Streak(PlayedDays(u)', today') < Streak(PlayedDays(u), today) =>
                            today' # today /\ ~Played(u, today)
  <1>1. HuntInv /\ [HuntNext]_huntVars => [A]_huntVars
    <2>. SUFFICES ASSUME HuntInv, HuntNext PROVE A
      OBVIOUS
    <2>1. ASSUME NEW u \in Players
          PROVE  PlayedDays(u)' = {d \in Days : plays'[<<u, d>>] # NoPlay}
      BY DEF PlayedDays, Played
    <2>2. ASSUME NEW u \in Players, Streak(PlayedDays(u)', today') < Streak(PlayedDays(u), today)
          PROVE  today' # today /\ ~Played(u, today)
      BY <2>1, <2>2, StreakFallsAtMidnight
    <2>3. QED
      BY <2>2, ReplacedByOverlap
  <1>2. QED
    BY <1>1, HuntInvariance, PTL DEF HuntSpec, PlayedDaysAreFinal

-----------------------------------------------------------------------------
(***************************************************************************)
(* Proofs about MentorReply, for every number of workers, caps, attempts   *)
(* and lines of code.                                                      *)
(*                                                                         *)
(* The caps are counted in what is stored, so each is kept by a sum: what  *)
(* is stored and what is on its way to be stored.  The sum grows only at   *)
(* the check, which sees less than the cap stored and at most all workers  *)
(* on their way.  The day of a message is that of its first statement, so  *)
(* a day that has passed may still get the requests that waited for the    *)
(* check when it ended.                                                    *)
(***************************************************************************)

\* The steps of a message that has passed the check, and those that know if it is a trap.
Passed  == {"trap", "shown", "draft", "retry", "store"}
Decided == {"shown", "draft", "retry", "store"}

Jobs ==
         {Silent}
  \union [at : {"quota", "trap"}, try : Tries, day : 1..LastChatDay]
  \union [at : {"shown"}, try : Tries, day : 1..LastChatDay, trap : BOOLEAN]
  \union [at : {"draft", "retry"}, try : Tries, day : 1..LastChatDay, trap : BOOLEAN,
          own : Editors, seen : SUBSET (1..MaxMessages)]
  \union [at : {"store"}, try : Tries, day : 1..LastChatDay, trap : BOOLEAN,
          own : Editors, seen : SUBSET (1..MaxMessages), lines : SUBSET CodeLines,
          first : BOOLEAN]
  \union [at : {"judge"}, try : Tries]

Replies == [try : Tries, day : 1..LastChatDay, lines : SUBSET CodeLines, own : Editors,
            seen : SUBSET (1..MaxMessages), injected : BOOLEAN, first : BOOLEAN]

MentorFits ==
    /\ chatDay \in 1..LastChatDay /\ sent \in 0..MaxMessages
    /\ chats \in Seq(Replies)
    /\ hypotheses \in [Tries -> Nat]
    /\ chatting \in [ChatWorkers -> Jobs]

\* What is on its way to be stored.
Busy         == {w \in ChatWorkers : chatting[w] # Silent}
Answering(t) == {w \in ChatWorkers : chatting[w].at \in Passed /\ chatting[w].try = t}
Carrying(t)  == {w \in ChatWorkers : /\ chatting[w].at \in Decided /\ chatting[w].try = t
                                     /\ chatting[w].trap}
Judging(t)   == {w \in ChatWorkers : chatting[w].at = "judge" /\ chatting[w].try = t}
Dated(d)     == {w \in ChatWorkers : chatting[w].at \in Passed /\ chatting[w].day = d}
Waiting(d)   == {w \in ChatWorkers : chatting[w].at = "quota" /\ chatting[w].day = d}
Traps(t)     == {i \in RepliesOf(t) : chats[i].injected}

\* One request stores one row, so all rows are numbered by requests.
RowsAreAskedFor ==
    /\ Len(chats) + Cardinality(Busy) <= sent
    /\ \A t \in Tries : hypotheses[t] + Cardinality(Busy) <= sent

AttemptSums ==
    \A t \in Tries :
        /\ Cardinality(RepliesOf(t)) + Cardinality(Answering(t)) <= AttemptCap + Workers - 1
        /\ Cardinality(Traps(t)) + Cardinality(Carrying(t)) <= Workers
        /\ hypotheses[t] + Cardinality(Judging(t)) <= HypothesisCap + Workers - 1

DaySums ==
    \A d \in 1..LastChatDay :
        /\ d > chatDay => SentOn(d) = {} /\ Dated(d) = {} /\ Waiting(d) = {}
        /\ d = chatDay => Cardinality(SentOn(d)) + Cardinality(Dated(d)) <= DayCap + Workers - 1
        /\ d < chatDay => Cardinality(SentOn(d)) + Cardinality(Dated(d)) + Cardinality(Waiting(d))
                              <= DayCap + 2 * Workers - 1

\* RepliesOf and ShownIn of a given history of replies.
RepliesIn(c, t)  == {i \in DOMAIN c : c[i].try = t}
ShownOf(c, ids)  == UNION {c[i].lines : i \in ids}

\* A reply with code was within the caps, counting what had been read as shown before it.
Measured(c, r) ==
    r.lines \ r.own # {} =>
        /\ Cardinality(r.lines \ r.own) <= PerReply
        /\ Cardinality((ShownOf(c, r.seen) \union r.lines) \ r.own) <= PerAttempt

RepliesAreMeasured ==
    /\ \A i \in DOMAIN chats :
         /\ Measured(chats, chats[i])
         /\ chats[i].seen \subseteq {k \in RepliesIn(chats, chats[i].try) : k < i}
         /\ chats[i].injected => chats[i].first
    /\ \A w \in ChatWorkers :
         /\ chatting[w].at \in {"draft", "retry", "store"} =>
              chatting[w].seen \subseteq RepliesIn(chats, chatting[w].try)
         /\ chatting[w].at = "retry" => ~chatting[w].trap
         /\ chatting[w].at = "store" =>
              /\ Measured(chats, chatting[w])
              /\ chatting[w].trap => chatting[w].first

MentorInv == MentorFits /\ RowsAreAskedFor /\ AttemptSums /\ DaySums /\ RepliesAreMeasured
-----------------------------------------------------------------------------
\* What a request carries, by its step.
LEMMA JobFields ==
    ASSUME NEW j \in Jobs
    PROVE  /\ j.at \in {"silent", "quota", "judge"} \union Passed
           /\ j.at = "silent" <=> j = Silent
           /\ j.at # "silent" => j.try \in Tries
           /\ j.at \in Passed \union {"quota"} => j.day \in 1..LastChatDay
           /\ j.at \in Decided => j.trap \in BOOLEAN
           /\ j.at \in {"draft", "retry", "store"} =>
                j.own \in Editors /\ j.seen \in SUBSET (1..MaxMessages)
           /\ j.at = "store" => j.lines \in SUBSET CodeLines /\ j.first \in BOOLEAN
  <1>1. CASE j = Silent
    BY <1>1 DEF Silent, Passed, Decided
  <1>2. CASE j \in [at : {"quota", "trap"}, try : Tries, day : 1..LastChatDay]
    BY <1>2 DEF Silent, Passed, Decided
  <1>3. CASE j \in [at : {"shown"}, try : Tries, day : 1..LastChatDay, trap : BOOLEAN]
    BY <1>3 DEF Silent, Passed, Decided
  <1>4. CASE j \in [at : {"draft", "retry"}, try : Tries, day : 1..LastChatDay, trap : BOOLEAN,
                    own : Editors, seen : SUBSET (1..MaxMessages)]
    BY <1>4 DEF Silent, Passed, Decided
  <1>5. CASE j \in [at : {"store"}, try : Tries, day : 1..LastChatDay, trap : BOOLEAN,
                    own : Editors, seen : SUBSET (1..MaxMessages), lines : SUBSET CodeLines,
                    first : BOOLEAN]
    BY <1>5 DEF Silent, Passed, Decided
  <1>6. CASE j \in [at : {"judge"}, try : Tries]
    BY <1>6 DEF Silent, Passed, Decided
  <1>7. QED
    BY <1>1, <1>2, <1>3, <1>4, <1>5, <1>6 DEF Jobs

LEMMA WorkersAreCounted ==
    ASSUME NEW A \in SUBSET ChatWorkers
    PROVE  /\ IsFiniteSet(A) /\ Cardinality(A) \in 0..Workers
           /\ Workers \in Nat
  BY MentorAssumption, FS_Subset, FS_CardinalityType DEF Workers

\* How the size of a set of workers changes when one worker may enter or leave it.
Shift(A, B, w) ==
    /\ Cardinality(A) \in 0..Workers /\ Cardinality(B) \in 0..Workers
    /\ (w \in A <=> w \in B) => Cardinality(B) = Cardinality(A)
    /\ w \in A /\ w \notin B => Cardinality(B) = Cardinality(A) - 1
    /\ w \notin A /\ w \in B => Cardinality(B) = Cardinality(A) + 1

LEMMA OneWorkerMoves ==
    ASSUME NEW A \in SUBSET ChatWorkers, NEW B \in SUBSET ChatWorkers,
           NEW w \in ChatWorkers, \A v \in ChatWorkers : v # w => (v \in A <=> v \in B)
    PROVE  Shift(A, B, w)
  <1>. USE WorkersAreCounted DEF Shift
  <1>1. IsFiniteSet(A) /\ IsFiniteSet(B) /\ Cardinality(A) \in Nat /\ Cardinality(B) \in Nat
    BY WorkersAreCounted, FS_CardinalityType
  <1>2. CASE w \in A <=> w \in B
    <2>1. A = B
      BY <1>2
    <2>2. QED
      BY <1>2, <2>1
  <1>3. CASE w \in A /\ w \notin B
    <2>1. A = B \union {w}
      BY <1>3
    <2>2. QED
      BY <1>1, <1>3, <2>1, FS_AddElement
  <1>4. CASE w \notin A /\ w \in B
    <2>1. B = A \union {w}
      BY <1>4
    <2>2. QED
      BY <1>1, <1>4, <2>1, FS_AddElement
  <1>5. QED
    BY <1>2, <1>3, <1>4

\* The same for the rows that are counted when one is appended.
LEMMA OneRowIsAppended ==
    ASSUME NEW n \in Nat, NEW A \in SUBSET (1..n), NEW B \in SUBSET (1..n+1),
           \A i \in 1..n : i \in A <=> i \in B
    PROVE  /\ Cardinality(A) \in Nat
           /\ n + 1 \notin B => Cardinality(B) = Cardinality(A)
           /\ n + 1 \in B => Cardinality(B) = Cardinality(A) + 1
  <1>1. IsFiniteSet(A) /\ Cardinality(A) \in Nat
    <2>1. IsFiniteSet(1..n)
      BY 1 \in Int, n \in Int, FS_Interval
    <2>2. IsFiniteSet(A)
      BY <2>1, FS_Subset
    <2>3. QED
      BY <2>2, FS_CardinalityType
  <1>. /\ \A i \in B : i \in 1..n \/ i = n + 1
       /\ n + 1 \notin 1..n
    OBVIOUS
  <1>2. CASE n + 1 \notin B
    <2>1. A = B
      <3>1. \A i \in B : i \in A
        BY <1>2
      <3>2. \A i \in A : i \in B
        OBVIOUS
      <3>3. QED
        BY <3>1, <3>2, Zenon
    <2>2. QED
      BY <1>1, <1>2, <2>1
  <1>3. CASE n + 1 \in B
    <2>1. B = A \union {n + 1} /\ n + 1 \notin A
      <3>1. \A i \in B : i \in A \/ i = n + 1
        OBVIOUS
      <3>2. \A i \in A : i \in B
        OBVIOUS
      <3>3. n + 1 \notin A
        OBVIOUS
      <3>4. QED
        BY <1>3, <3>1, <3>2, <3>3, Zenon
    <2>2. QED
      BY <1>1, <1>3, <2>1, FS_AddElement
  <1>4. QED
    BY <1>2, <1>3

\* The union of k sets of at most p elements has at most k * p elements.
LEMMA UnionIsBounded ==
    ASSUME NEW K, IsFiniteSet(K), NEW p \in Nat, NEW S \in [K -> SUBSET CodeLines],
           \A k \in K : Cardinality(S[k]) <= p
    PROVE  LET U == UNION {S[k] : k \in K}
           IN  IsFiniteSet(U) /\ Cardinality(U) <= p * Cardinality(K)
  <1>. DEFINE U == UNION {S[k] : k \in K}
              E == [k \in K |-> CHOOSE f : f \in Bijection(1..Cardinality(S[k]), S[k])]
              P == K \X (1..p)
  <1>1. \A k \in K : IsFiniteSet(S[k]) /\ Cardinality(S[k]) \in Nat
    BY MentorAssumption, FS_Subset, FS_CardinalityType
  <1>2. \A k \in K : E[k] \in Bijection(1..Cardinality(S[k]), S[k])
    BY <1>1, FS_CardinalityType DEF ExistsBijection
  <1>3. IsFiniteSet(P) /\ Cardinality(P) = Cardinality(K) * p
    <2>1. IsFiniteSet(1..p) /\ Cardinality(1..p) = p
      BY 1 \in Int, p \in Int, FS_Interval
    <2>2. QED
      BY <2>1, FS_Product
  <1>4. CASE U = {}
    <2>1. IsFiniteSet(U) /\ Cardinality(U) = 0
      BY <1>4, FS_EmptySet
    <2>2. Cardinality(K) \in Nat
      BY FS_CardinalityType
    <2>3. p * Cardinality(K) \in Nat
      BY <2>2
    <2>4. QED
      BY <2>1, <2>3
  <1>5. CASE U # {}
    <2>1. PICK u \in U : TRUE
      BY <1>5
    <2>. DEFINE g == [x \in P |-> IF x[2] <= Cardinality(S[x[1]]) THEN E[x[1]][x[2]] ELSE u]
    <2>2. g \in [P -> U]
      <3>1. ASSUME NEW x \in P, x[2] <= Cardinality(S[x[1]]) PROVE E[x[1]][x[2]] \in U
        <4>1. x[1] \in K /\ x[2] \in 1..Cardinality(S[x[1]])
          BY <1>1, <3>1
        <4>2. E[x[1]][x[2]] \in S[x[1]]
          BY <1>2, <4>1 DEF Bijection, Injection
        <4>3. QED
          BY <4>1, <4>2
      <3>2. QED
        BY <2>1, <3>1
    <2>3. \A y \in U : \E x \in P : g[x] = y
      <3>. SUFFICES ASSUME NEW y \in U PROVE \E x \in P : g[x] = y
        OBVIOUS
      <3>1. PICK k \in K : y \in S[k]
        OBVIOUS
      <3>2. PICK n \in 1..Cardinality(S[k]) : E[k][n] = y
        BY <1>2, <3>1 DEF Bijection, Surjection
      <3>3. <<k, n>> \in P /\ n <= Cardinality(S[k])
        BY <1>1, <3>2
      <3>4. g[<<k, n>>] = y
        BY <3>2, <3>3
      <3>5. QED
        BY <3>3, <3>4
    <2>4. g \in Surjection(P, U)
      BY <2>2, <2>3 DEF Surjection
    <2>5. QED
      BY <1>3, <2>4, FS_Surjection, FS_CardinalityType
  <1>6. QED
    BY <1>4, <1>5

-----------------------------------------------------------------------------
LEMMA RowsOfChats ==
    ASSUME MentorFits
    PROVE  /\ Len(chats) \in Nat /\ DOMAIN chats = 1..Len(chats)
           /\ \A i \in DOMAIN chats : chats[i] \in Replies
           /\ \A t : RepliesOf(t) \in SUBSET (1..Len(chats))
           /\ \A d : SentOn(d) \in SUBSET (1..Len(chats))
           /\ \A t : Traps(t) \in SUBSET (1..Len(chats))
  BY DEF MentorFits, RepliesOf, SentOn, Traps

LEMMA RowsAreCounted ==
    ASSUME MentorFits, NEW A \in SUBSET (1..Len(chats))
    PROVE  IsFiniteSet(A) /\ Cardinality(A) \in Nat
  <1>1. Len(chats) \in Int /\ 1 \in Int
    BY RowsOfChats
  <1>2. IsFiniteSet(1..Len(chats))
    BY <1>1, FS_Interval
  <1>3. QED
    BY <1>2, FS_Subset, FS_CardinalityType

\* What the replies' measures say of an attempt: the bound on the code it was shown.
LEMMA MeasuredRepliesAreBounded == MentorFits /\ RepliesAreMeasured => CodeShownIsBounded
  <1>. SUFFICES ASSUME MentorFits, RepliesAreMeasured, NEW i \in DOMAIN chats,
                       chats[i].lines \ chats[i].own # {},
                       \A k \in {m \in RepliesOf(chats[i].try) : m < i} \ chats[i].seen :
                           chats[k].own \subseteq chats[i].own
                PROVE  LET r == chats[i]
                           earlier == {m \in RepliesOf(r.try) : m < i}
                       IN  Cardinality((ShownIn(earlier) \union r.lines) \ r.own)
                              <= PerAttempt + PerReply * Cardinality(earlier \ r.seen)
    BY DEF CodeShownIsBounded
  <1>. DEFINE r == chats[i]
              earlier == {m \in RepliesOf(r.try) : m < i}
              unseen == earlier \ r.seen
              S == [k \in unseen |-> chats[k].lines \ chats[k].own]
              U == UNION {S[k] : k \in unseen}
              V == (ShownIn(r.seen) \union r.lines) \ r.own
              W == (ShownIn(earlier) \union r.lines) \ r.own
  <1>1. \A k \in earlier : k \in DOMAIN chats /\ chats[k] \in Replies
    BY RowsOfChats DEF RepliesOf
  <1>2. r.seen \subseteq earlier /\ Cardinality(V) <= PerAttempt
    BY DEF RepliesAreMeasured, Measured, RepliesIn, RepliesOf, ShownOf, ShownIn
  <1>3. IsFiniteSet(unseen) /\ Cardinality(unseen) \in Nat
    BY <1>1, RowsOfChats, RowsAreCounted, unseen \in SUBSET (1..Len(chats))
  <1>4. PerReply \in Nat /\ PerAttempt \in Nat
    BY MentorAssumption
  <1>5. S \in [unseen -> SUBSET CodeLines]
    BY <1>1 DEF Replies
  <1>6. ASSUME NEW k \in unseen PROVE Cardinality(S[k]) <= PerReply
    <2>1. CASE S[k] = {}
      BY <1>4, <2>1, FS_EmptySet
    <2>2. CASE S[k] # {}
      BY <1>1, <2>2 DEF RepliesAreMeasured, Measured
    <2>3. QED
      BY <2>1, <2>2
  <1>7. IsFiniteSet(U) /\ Cardinality(U) <= PerReply * Cardinality(unseen)
    BY <1>3, <1>4, <1>5, <1>6, UnionIsBounded
  <1>8. V \subseteq CodeLines /\ IsFiniteSet(V)
    <2>1. V \subseteq CodeLines
      BY <1>1, <1>2, RowsOfChats DEF Replies, ShownIn
    <2>2. QED
      BY <2>1, MentorAssumption, FS_Subset
  <1>9. W \subseteq U \union V
    <2>. SUFFICES ASSUME NEW x \in W, x \notin V PROVE x \in U
      OBVIOUS
    <2>1. PICK k \in earlier : x \in chats[k].lines
      BY DEF ShownIn
    <2>2. x \notin r.own /\ k \notin r.seen
      BY <2>1 DEF ShownIn
    <2>3. k \in unseen /\ x \in S[k]
      BY <2>1, <2>2
    <2>4. QED
      BY <2>3
  <1>. HIDE DEF U, V, W, S, unseen, earlier
  <1>10. /\ IsFiniteSet(U \union V)
         /\ Cardinality(U \union V) = Cardinality(U) + Cardinality(V) - Cardinality(U \cap V)
    BY <1>7, <1>8, FS_Union
  <1>11. /\ Cardinality(U) \in Nat /\ Cardinality(V) \in Nat
         /\ IsFiniteSet(U \cap V)
    BY <1>7, <1>8, FS_CardinalityType, FS_Intersection
  <1>12. Cardinality(U \cap V) \in Nat
    BY <1>11, FS_CardinalityType
  <1>13. /\ Cardinality(W) <= Cardinality(U \union V)
         /\ Cardinality(W) \in Nat
    BY <1>9, <1>10, FS_Subset, FS_CardinalityType
  <1>14. Cardinality(W) <= PerAttempt + PerReply * Cardinality(unseen)
    <2>1. PerReply * Cardinality(unseen) \in Nat
      BY <1>3, <1>4
    <2>2. QED
      BY <1>2, <1>4, <1>7, <1>10, <1>11, <1>12, <1>13, <2>1
  <1>15. QED
    BY <1>14 DEF W, unseen, earlier

-----------------------------------------------------------------------------
\* The sets of workers on their way, as sets of workers.
LEMMA WorkersOnTheirWay ==
    /\ Busy \in SUBSET ChatWorkers
    /\ \A t : /\ Answering(t) \in SUBSET ChatWorkers /\ Carrying(t) \in SUBSET ChatWorkers
             /\ Judging(t) \in SUBSET ChatWorkers
    /\ \A d : Dated(d) \in SUBSET ChatWorkers /\ Waiting(d) \in SUBSET ChatWorkers
  BY DEF Busy, Answering, Carrying, Judging, Dated, Waiting

\* What one step of one worker makes of them.
LEMMA OneWorkerSteps ==
    ASSUME MentorFits, NEW w \in ChatWorkers, NEW job \in Jobs,
           chatting' = [chatting EXCEPT ![w] = job]
    PROVE  /\ chatting' \in [ChatWorkers -> Jobs]
           /\ chatting'[w] = job
           /\ \A v \in ChatWorkers : v # w => chatting'[v] = chatting[v]
           /\ w \in Busy' <=> job # Silent
           /\ Shift(Busy, Busy', w)
           /\ \A t \in Tries :
                /\ w \in Answering(t)' <=> job.at \in Passed /\ job.try = t
                /\ Shift(Answering(t), Answering(t)', w)
                /\ w \in Carrying(t)' <=> job.at \in Decided /\ job.try = t /\ job.trap
                /\ Shift(Carrying(t), Carrying(t)', w)
                /\ w \in Judging(t)' <=> job.at = "judge" /\ job.try = t
                /\ Shift(Judging(t), Judging(t)', w)
           /\ \A d \in 1..LastChatDay :
                /\ w \in Dated(d)' <=> job.at \in Passed /\ job.day = d
                /\ Shift(Dated(d), Dated(d)', w)
                /\ Dated(d)' \subseteq Dated(d) \union {w}
                /\ w \in Waiting(d)' <=> job.at = "quota" /\ job.day = d
                /\ Shift(Waiting(d), Waiting(d)', w)
                /\ Waiting(d)' \subseteq Waiting(d) \union {w}
  <1>1. /\ chatting' \in [ChatWorkers -> Jobs] /\ chatting'[w] = job
        /\ \A v \in ChatWorkers : v # w => chatting'[v] = chatting[v]
    BY DEF MentorFits
  <1>2. (w \in Busy' <=> job # Silent) /\ Shift(Busy, Busy', w)
    <2>1. /\ Busy' \in SUBSET ChatWorkers
          /\ w \in Busy' <=> job # Silent
          /\ \A v \in ChatWorkers : v # w => (v \in Busy <=> v \in Busy')
      BY <1>1 DEF Busy
    <2>2. QED
      BY <2>1, WorkersOnTheirWay, OneWorkerMoves
  <1>3. ASSUME NEW t \in Tries
        PROVE  /\ w \in Answering(t)' <=> job.at \in Passed /\ job.try = t
               /\ Shift(Answering(t), Answering(t)', w)
    <2>1. /\ Answering(t)' \in SUBSET ChatWorkers
          /\ w \in Answering(t)' <=> job.at \in Passed /\ job.try = t
          /\ \A v \in ChatWorkers : v # w => (v \in Answering(t) <=> v \in Answering(t)')
      BY <1>1 DEF Answering
    <2>2. QED
      BY <2>1, WorkersOnTheirWay, OneWorkerMoves
  <1>4. ASSUME NEW t \in Tries
        PROVE  /\ w \in Carrying(t)' <=> job.at \in Decided /\ job.try = t /\ job.trap
               /\ Shift(Carrying(t), Carrying(t)', w)
    <2>1. /\ Carrying(t)' \in SUBSET ChatWorkers
          /\ w \in Carrying(t)' <=> job.at \in Decided /\ job.try = t /\ job.trap
          /\ \A v \in ChatWorkers : v # w => (v \in Carrying(t) <=> v \in Carrying(t)')
      BY <1>1, Zenon DEF Carrying
    <2>2. QED
      BY <2>1, WorkersOnTheirWay, OneWorkerMoves
  <1>5. ASSUME NEW t \in Tries
        PROVE  /\ w \in Judging(t)' <=> job.at = "judge" /\ job.try = t
               /\ Shift(Judging(t), Judging(t)', w)
    <2>1. /\ Judging(t)' \in SUBSET ChatWorkers
          /\ w \in Judging(t)' <=> job.at = "judge" /\ job.try = t
          /\ \A v \in ChatWorkers : v # w => (v \in Judging(t) <=> v \in Judging(t)')
      BY <1>1 DEF Judging
    <2>2. QED
      BY <2>1, WorkersOnTheirWay, OneWorkerMoves
  <1>6. ASSUME NEW d \in 1..LastChatDay
        PROVE  /\ w \in Dated(d)' <=> job.at \in Passed /\ job.day = d
               /\ Shift(Dated(d), Dated(d)', w)
               /\ Dated(d)' \subseteq Dated(d) \union {w}
    <2>1. /\ Dated(d)' \in SUBSET ChatWorkers
          /\ w \in Dated(d)' <=> job.at \in Passed /\ job.day = d
          /\ \A v \in ChatWorkers : v # w => (v \in Dated(d) <=> v \in Dated(d)')
      BY <1>1 DEF Dated
    <2>2. QED
      BY <2>1, WorkersOnTheirWay, OneWorkerMoves
  <1>7. ASSUME NEW d \in 1..LastChatDay
        PROVE  /\ w \in Waiting(d)' <=> job.at = "quota" /\ job.day = d
               /\ Shift(Waiting(d), Waiting(d)', w)
               /\ Waiting(d)' \subseteq Waiting(d) \union {w}
    <2>1. /\ Waiting(d)' \in SUBSET ChatWorkers
          /\ w \in Waiting(d)' <=> job.at = "quota" /\ job.day = d
          /\ \A v \in ChatWorkers : v # w => (v \in Waiting(d) <=> v \in Waiting(d)')
      BY <1>1 DEF Waiting
    <2>2. QED
      BY <2>1, WorkersOnTheirWay, OneWorkerMoves
  <1>8. QED
    BY <1>1, <1>2, <1>3, <1>4, <1>5, <1>6, <1>7

\* A request goes on without storing: the conditions under which it takes up its next job.
MovesOn(w, job) ==
    /\ \/ sent' = sent /\ chatting[w] # Silent
       \/ sent' = sent + 1 /\ sent < MaxMessages
    /\ job.at = "quota" => job.day = chatDay
    /\ job.at \in Passed =>
         \/ chatting[w].at \in Passed /\ chatting[w].try = job.try /\ chatting[w].day = job.day
         \/ /\ chatting[w].at = "quota" /\ chatting[w].try = job.try /\ chatting[w].day = job.day
            /\ Cardinality(RepliesOf(job.try)) < AttemptCap
            /\ Cardinality(SentOn(chatDay)) < DayCap
    /\ job.at \in Decided /\ job.trap =>
         \/ chatting[w].at \in Decided /\ chatting[w].try = job.try /\ chatting[w].trap
         \/ Traps(job.try) = {}
    /\ job.at = "judge" => hypotheses[job.try] < HypothesisCap
    /\ job.at \in {"draft", "retry", "store"} => job.seen \subseteq RepliesOf(job.try)
    /\ job.at = "retry" => ~job.trap
    /\ job.at = "store" => Measured(chats, job) /\ (job.trap => job.first)

LEMMA RequestMoves ==
    ASSUME MentorInv, NEW w \in ChatWorkers, NEW job \in Jobs, MovesOn(w, job),
           chatting' = [chatting EXCEPT ![w] = job],
           UNCHANGED <<chatDay, chats, hypotheses>>
    PROVE  MentorInv'
  <1>. USE DEF MentorInv
  <1>1. /\ Workers \in Nat
        /\ \A A \in SUBSET ChatWorkers : Cardinality(A) \in 0..Workers
    BY WorkersAreCounted, ChatWorkers \in SUBSET ChatWorkers
  <1>2. /\ \A t : RepliesOf(t)' = RepliesOf(t) /\ Traps(t)' = Traps(t)
        /\ \A d : SentOn(d)' = SentOn(d)
    BY DEF RepliesOf, Traps, SentOn
  <1>3. /\ \A t : Cardinality(RepliesOf(t)) \in Nat /\ Cardinality(Traps(t)) \in Nat
        /\ \A d : Cardinality(SentOn(d)) \in Nat
    BY RowsOfChats, RowsAreCounted
  <1>4. /\ sent \in 0..MaxMessages /\ MaxMessages \in Nat /\ chatDay \in 1..LastChatDay
        /\ LastChatDay \in Nat /\ Len(chats) \in Nat
        /\ AttemptCap \in Nat /\ DayCap \in Nat /\ HypothesisCap \in Nat
        /\ \A t \in Tries : hypotheses[t] \in Nat
    BY MentorAssumption, RowsOfChats DEF MentorFits
  <1>5. chatting[w] \in Jobs
    BY DEF MentorFits
  <1>6. MentorFits'
    <2>1. sent' \in 0..MaxMessages
      BY <1>4 DEF MovesOn
    <2>2. QED
      BY <2>1, OneWorkerSteps DEF MentorFits
  <1>7. RowsAreAskedFor'
    <2>0. Shift(Busy, Busy', w)
      BY OneWorkerSteps
    <2>1. Cardinality(Busy') \in Nat /\ Cardinality(Busy) \in Nat
      BY <1>1, <2>0 DEF Shift
    <2>2. \/ sent' = sent /\ Cardinality(Busy') <= Cardinality(Busy)
          \/ sent' = sent + 1 /\ Cardinality(Busy') <= Cardinality(Busy) + 1
      <3>1. w \in Busy <=> chatting[w] # Silent
        BY DEF Busy
      <3>2. /\ w \notin Busy' => Cardinality(Busy') <= Cardinality(Busy)
            /\ w \in Busy /\ w \in Busy' => Cardinality(Busy') <= Cardinality(Busy)
            /\ Cardinality(Busy') <= Cardinality(Busy) + 1
        BY <1>1, <2>0, <2>1 DEF Shift
      <3>3. QED
        BY <3>1, <3>2 DEF MovesOn
    <2>3. QED
      BY <1>4, <2>1, <2>2 DEF RowsAreAskedFor
  <1>8. AttemptSums'
    <2>. SUFFICES ASSUME NEW t \in Tries
                  PROVE  /\ Cardinality(RepliesOf(t)) + Cardinality(Answering(t)')
                                <= AttemptCap + Workers - 1
                         /\ Cardinality(Traps(t)) + Cardinality(Carrying(t)') <= Workers
                         /\ hypotheses[t] + Cardinality(Judging(t)') <= HypothesisCap + Workers - 1
      BY <1>2 DEF AttemptSums, Workers
    <2>0. /\ Shift(Answering(t), Answering(t)', w) /\ Shift(Carrying(t), Carrying(t)', w)
          /\ Shift(Judging(t), Judging(t)', w)
      BY OneWorkerSteps
    <2>1. /\ Cardinality(Answering(t)) \in 0..Workers /\ Cardinality(Answering(t)') \in 0..Workers
          /\ Cardinality(Carrying(t)) \in 0..Workers /\ Cardinality(Carrying(t)') \in 0..Workers
          /\ Cardinality(Judging(t)) \in 0..Workers /\ Cardinality(Judging(t)') \in 0..Workers
      BY <1>1, <2>0 DEF Shift
    <2>2. Cardinality(RepliesOf(t)) + Cardinality(Answering(t)') <= AttemptCap + Workers - 1
      <3>1. CASE w \in Answering(t)' /\ w \notin Answering(t)
        <4>1. job.at \in Passed /\ job.try = t /\ ~(chatting[w].at \in Passed /\ chatting[w].try = t)
          BY <3>1, OneWorkerSteps DEF Answering
        <4>2. Cardinality(RepliesOf(t)) < AttemptCap
          BY <4>1 DEF MovesOn
        <4>3. QED
          BY <1>1, <1>3, <1>4, <2>1, <4>2
      <3>2. CASE ~(w \in Answering(t)' /\ w \notin Answering(t))
        <4>1. Cardinality(Answering(t)') <= Cardinality(Answering(t))
          BY <1>1, <2>0, <2>1, <3>2 DEF Shift
        <4>2. QED
          BY <1>1, <1>3, <1>4, <2>1, <4>1 DEF AttemptSums
      <3>3. QED
        BY <3>1, <3>2
    <2>3. Cardinality(Traps(t)) + Cardinality(Carrying(t)') <= Workers
      <3>1. CASE w \in Carrying(t)' /\ w \notin Carrying(t)
        <4>1. /\ job.at \in Decided /\ job.try = t /\ job.trap
              /\ ~(chatting[w].at \in Decided /\ chatting[w].try = t /\ chatting[w].trap)
          BY <3>1, OneWorkerSteps DEF Carrying
        <4>2. Traps(t) = {}
          BY <4>1 DEF MovesOn
        <4>3. QED
          BY <2>1, <4>2, FS_EmptySet
      <3>2. CASE ~(w \in Carrying(t)' /\ w \notin Carrying(t))
        <4>1. Cardinality(Carrying(t)') <= Cardinality(Carrying(t))
          BY <1>1, <2>0, <2>1, <3>2 DEF Shift
        <4>2. QED
          BY <1>1, <1>3, <2>1, <4>1 DEF AttemptSums
      <3>3. QED
        BY <3>1, <3>2
    <2>4. hypotheses[t] + Cardinality(Judging(t)') <= HypothesisCap + Workers - 1
      <3>1. CASE w \in Judging(t)' /\ w \notin Judging(t)
        <4>1. job.at = "judge" /\ job.try = t
          BY <3>1, OneWorkerSteps
        <4>2. hypotheses[t] < HypothesisCap
          BY <4>1 DEF MovesOn
        <4>3. QED
          BY <1>1, <1>4, <2>1, <4>2
      <3>2. CASE ~(w \in Judging(t)' /\ w \notin Judging(t))
        <4>1. Cardinality(Judging(t)') <= Cardinality(Judging(t))
          BY <1>1, <2>0, <2>1, <3>2 DEF Shift
        <4>2. QED
          BY <1>1, <1>4, <2>1, <4>1 DEF AttemptSums
      <3>3. QED
        BY <3>1, <3>2
    <2>5. QED
      BY <2>2, <2>3, <2>4
  <1>9. DaySums'
    <2>. SUFFICES ASSUME NEW d \in 1..LastChatDay
                  PROVE  /\ d > chatDay => SentOn(d) = {} /\ Dated(d)' = {} /\ Waiting(d)' = {}
                         /\ d = chatDay => Cardinality(SentOn(d)) + Cardinality(Dated(d)')
                                              <= DayCap + Workers - 1
                         /\ d < chatDay =>
                              Cardinality(SentOn(d)) + Cardinality(Dated(d)') + Cardinality(Waiting(d)')
                                              <= DayCap + 2 * Workers - 1
      BY <1>2 DEF DaySums, Workers
    <2>0. Shift(Dated(d), Dated(d)', w) /\ Shift(Waiting(d), Waiting(d)', w)
      BY OneWorkerSteps
    <2>1. /\ Cardinality(Dated(d)) \in 0..Workers /\ Cardinality(Dated(d)') \in 0..Workers
          /\ Cardinality(Waiting(d)) \in 0..Workers /\ Cardinality(Waiting(d)') \in 0..Workers
      BY <1>1, <2>0 DEF Shift
    <2>2. /\ w \in Waiting(d)' => d = chatDay
          /\ w \in Dated(d)' /\ w \notin Dated(d) =>
               w \in Waiting(d) /\ Cardinality(SentOn(chatDay)) < DayCap
      BY OneWorkerSteps DEF MovesOn, Dated, Waiting
    <2>3. CASE d > chatDay
      <3>1. SentOn(d) = {} /\ Dated(d) = {} /\ Waiting(d) = {}
        BY <2>3 DEF DaySums
      <3>2. w \notin Waiting(d)' /\ w \notin Dated(d)'
        BY <1>4, <2>2, <2>3, <3>1
      <3>3. Dated(d)' \subseteq Dated(d) \union {w} /\ Waiting(d)' \subseteq Waiting(d) \union {w}
        BY OneWorkerSteps
      <3>4. Dated(d)' = {} /\ Waiting(d)' = {}
        BY <3>1, <3>2, <3>3
      <3>5. QED
        BY <1>4, <2>3, <3>1, <3>4
    <2>4. CASE d = chatDay
      <3>1. CASE w \in Dated(d)' /\ w \notin Dated(d)
        BY <1>1, <1>3, <1>4, <2>1, <2>2, <2>4, <3>1
      <3>2. CASE ~(w \in Dated(d)' /\ w \notin Dated(d))
        <4>1. Cardinality(Dated(d)') <= Cardinality(Dated(d))
          BY <1>1, <2>0, <2>1, <3>2 DEF Shift
        <4>2. QED
          BY <1>1, <1>3, <1>4, <2>1, <2>4, <4>1 DEF DaySums
      <3>3. QED
        BY <3>1, <3>2
    <2>5. CASE d < chatDay
      <3>1. w \notin Waiting(d)'
        BY <1>4, <2>2, <2>5
      <3>2. Cardinality(Waiting(d)') = Cardinality(Waiting(d)) - (IF w \in Waiting(d) THEN 1 ELSE 0)
        BY <1>1, <2>0, <2>1, <3>1 DEF Shift
      <3>3. Cardinality(Dated(d)') <= Cardinality(Dated(d)) + (IF w \in Waiting(d) THEN 1 ELSE 0)
        BY <1>1, <2>0, <2>1, <2>2 DEF Shift
      <3>4. Cardinality(Dated(d)') + Cardinality(Waiting(d)')
               <= Cardinality(Dated(d)) + Cardinality(Waiting(d))
        BY <1>1, <2>1, <3>2, <3>3
      <3>5. Cardinality(SentOn(d)) + Cardinality(Dated(d)) + Cardinality(Waiting(d))
               <= DayCap + 2 * Workers - 1
        BY <2>5 DEF DaySums
      <3>6. d # chatDay /\ ~(d > chatDay)
        BY <1>4, <2>5
      <3>7. QED
        BY <1>1, <1>3, <1>4, <2>1, <3>4, <3>5, <3>6
    <2>6. QED
      BY <1>4, <2>3, <2>4, <2>5
  <1>10. RepliesAreMeasured'
    <2>1. \A v \in ChatWorkers : chatting'[v] = chatting[v] \/ chatting'[v] = job
      BY OneWorkerSteps
    <2>2. RepliesOf(job.try) = RepliesIn(chats, job.try)
      BY DEF RepliesOf, RepliesIn
    <2>3. QED
      BY <2>1, <2>2 DEF RepliesAreMeasured, MovesOn
  <1>11. QED
    BY <1>6, <1>7, <1>8, <1>9, <1>10

-----------------------------------------------------------------------------
LEMMA JobsByStep ==
    ASSUME NEW j \in Jobs
    PROVE  /\ j.at \in {"quota", "trap"} =>
                j \in [at : {"quota", "trap"}, try : Tries, day : 1..LastChatDay]
           /\ j.at \in {"draft", "retry"} =>
                j \in [at : {"draft", "retry"}, try : Tries, day : 1..LastChatDay, trap : BOOLEAN,
                      own : Editors, seen : SUBSET (1..MaxMessages)]
  <1>1. CASE j \in [at : {"quota", "trap"}, try : Tries, day : 1..LastChatDay]
    BY <1>1
  <1>2. CASE j \in [at : {"draft", "retry"}, try : Tries, day : 1..LastChatDay, trap : BOOLEAN,
                    own : Editors, seen : SUBSET (1..MaxMessages)]
    BY <1>2
  <1>3. CASE j = Silent
    BY <1>3 DEF Silent
  <1>4. CASE j \in [at : {"shown"}, try : Tries, day : 1..LastChatDay, trap : BOOLEAN]
    BY <1>4
  <1>5. CASE j \in [at : {"store"}, try : Tries, day : 1..LastChatDay, trap : BOOLEAN,
                    own : Editors, seen : SUBSET (1..MaxMessages), lines : SUBSET CodeLines,
                    first : BOOLEAN]
    BY <1>5
  <1>6. CASE j \in [at : {"judge"}, try : Tries]
    BY <1>6
  <1>7. QED
    BY <1>1, <1>2, <1>3, <1>4, <1>5, <1>6 DEF Jobs

LEMMA RefusalKeeps ==
    ASSUME MentorInv, NEW w \in ChatWorkers, chatting[w] # Silent, Turns(w, Silent),
           UNCHANGED <<chats, hypotheses>>
    PROVE  MentorInv'
  <1>1. Silent \in Jobs
    BY DEF Jobs
  <1>2. MovesOn(w, Silent)
    BY DEF MovesOn, Turns, Silent, Passed, Decided
  <1>3. QED
    BY <1>1, <1>2, RequestMoves DEF Turns

LEMMA BeginMessageKeeps ==
    ASSUME MentorInv, NEW w \in ChatWorkers, NEW t \in Tries, BeginMessage(w, t)
    PROVE  MentorInv'
  <1>. DEFINE job == [at |-> "quota", try |-> t, day |-> chatDay]
  <1>1. job \in Jobs
    BY DEF Jobs, MentorInv, MentorFits
  <1>2. MovesOn(w, job)
    BY DEF MovesOn, BeginMessage, Asks, Passed, Decided
  <1>3. QED
    BY <1>1, <1>2, RequestMoves DEF BeginMessage, Asks

LEMMA BeginHypothesisKeeps ==
    ASSUME MentorInv, NEW w \in ChatWorkers, NEW t \in Tries, BeginHypothesis(w, t)
    PROVE  MentorInv'
  <1>. DEFINE job == [at |-> "judge", try |-> t]
  <1>1. job \in Jobs
    BY DEF Jobs
  <1>2. MovesOn(w, job)
    BY DEF MovesOn, BeginHypothesis, Asks, Passed, Decided
  <1>3. QED
    BY <1>1, <1>2, RequestMoves DEF BeginHypothesis, Asks

LEMMA EnforceCielKeeps ==
    ASSUME MentorInv, NEW w \in ChatWorkers, EnforceCiel(w)
    PROVE  MentorInv'
  <1>. DEFINE j == chatting[w]  job == [j EXCEPT !.at = "trap"]
  <1>1. j \in Jobs /\ j.at = "quota" /\ j # Silent
    BY DEF MentorInv, MentorFits, EnforceCiel, StepOf, Silent
  <1>2. j \in [at : {"quota", "trap"}, try : Tries, day : 1..LastChatDay]
    BY <1>1, JobsByStep
  <1>3. /\ job \in [at : {"quota", "trap"}, try : Tries, day : 1..LastChatDay]
        /\ job.at = "trap" /\ job.try = j.try /\ job.day = j.day
    BY <1>2
  <1>4. CASE Cardinality(RepliesOf(j.try)) < AttemptCap /\ Cardinality(SentOn(chatDay)) < DayCap
    <2>1. job \in Jobs
      BY <1>3 DEF Jobs
    <2>2. Turns(w, job)
      BY <1>4 DEF EnforceCiel
    <2>. HIDE DEF job
    <2>3. MovesOn(w, job)
      BY <1>1, <1>3, <1>4, <2>2 DEF MovesOn, Turns, Passed, Decided
    <2>4. QED
      BY <2>1, <2>2, <2>3, RequestMoves DEF EnforceCiel, Turns
  <1>5. CASE ~(Cardinality(RepliesOf(j.try)) < AttemptCap /\ Cardinality(SentOn(chatDay)) < DayCap)
    BY <1>1, <1>5, RefusalKeeps DEF EnforceCiel
  <1>6. QED
    BY <1>4, <1>5

LEMMA DecideTrapKeeps ==
    ASSUME MentorInv, NEW w \in ChatWorkers, NEW asks \in BOOLEAN, DecideTrap(w, asks)
    PROVE  MentorInv'
  <1>. DEFINE j == chatting[w]
              trap == asks /\ \A i \in RepliesOf(j.try) : ~chats[i].injected
              job == [at |-> "shown", try |-> j.try, day |-> j.day, trap |-> trap]
  <1>1. j \in Jobs /\ j.at = "trap" /\ j # Silent
    BY DEF MentorInv, MentorFits, DecideTrap, StepOf, Silent
  <1>2. j.try \in Tries /\ j.day \in 1..LastChatDay
    BY <1>1, JobFields DEF Passed
  <1>3. trap \in BOOLEAN
    OBVIOUS
  <1>4. trap => Traps(j.try) = {}
    BY DEF Traps
  <1>5. Turns(w, job)
    BY DEF DecideTrap
  <1>. HIDE DEF trap
  <1>6. job \in Jobs
    BY <1>2, <1>3 DEF Jobs
  <1>7. /\ job.at = "shown" /\ job.try = j.try /\ job.day = j.day /\ job.trap = trap
    OBVIOUS
  <1>. HIDE DEF job
  <1>8. job.at \in Decided /\ job.trap => Traps(job.try) = {}
    BY <1>4, <1>7
  <1>9. MovesOn(w, job)
    BY <1>1, <1>5, <1>7, <1>8 DEF MovesOn, Turns, Passed
  <1>10. QED
    BY <1>5, <1>6, <1>9, RequestMoves DEF DecideTrap, Turns

LEMMA ReadShownKeeps ==
    ASSUME MentorInv, NEW w \in ChatWorkers, NEW own \in Editors, ReadShown(w, own)
    PROVE  MentorInv'
  <1>. DEFINE j == chatting[w]
              job == [at |-> "draft", try |-> j.try, own |-> own, trap |-> j.trap, day |-> j.day,
                      seen |-> RepliesOf(j.try)]
  <1>1. j \in Jobs /\ j.at = "shown" /\ j # Silent
    BY DEF MentorInv, MentorFits, ReadShown, StepOf, Silent
  <1>2. j.try \in Tries /\ j.day \in 1..LastChatDay /\ j.trap \in BOOLEAN
    BY <1>1, JobFields DEF Passed, Decided
  <1>3. RepliesOf(j.try) \subseteq 1..MaxMessages
    <2>1. Len(chats) \in Nat /\ RepliesOf(j.try) \subseteq 1..Len(chats)
      BY RowsOfChats DEF MentorInv
    <2>2. Cardinality(Busy) \in Nat /\ sent \in 0..MaxMessages /\ MaxMessages \in Nat
      BY WorkersOnTheirWay, WorkersAreCounted, MentorAssumption DEF MentorInv, MentorFits
    <2>3. Len(chats) <= MaxMessages
      BY <2>1, <2>2 DEF MentorInv, RowsAreAskedFor
    <2>4. QED
      BY <2>1, <2>2, <2>3
  <1>4. job \in Jobs
    BY <1>2, <1>3 DEF Jobs
  <1>5. Turns(w, job)
    BY DEF ReadShown
  <1>6. /\ job.at = "draft" /\ job.try = j.try /\ job.day = j.day /\ job.trap = j.trap
        /\ job.seen = RepliesOf(j.try)
    OBVIOUS
  <1>. HIDE DEF job
  <1>7. MovesOn(w, job)
    BY <1>1, <1>5, <1>6 DEF MovesOn, Turns, Passed, Decided
  <1>8. QED
    BY <1>4, <1>5, <1>7, RequestMoves DEF ReadShown, Turns

\* A draft that is not too much code is within the caps.
LEMMA DraftIsMeasured ==
    ASSUME MentorFits, NEW j, NEW t, j.seen \subseteq RepliesOf(t),
           NEW lines \in SUBSET CodeLines, ~TooMuchCode(j, lines),
           NEW r, r.lines = lines, r.own = j.own, r.seen = j.seen
    PROVE  Measured(chats, r)
  <1>. DEFINE L == lines \ j.own  V == (ShownIn(j.seen) \union lines) \ j.own
  <1>1. V \subseteq CodeLines
    BY RowsOfChats DEF ShownIn, Replies
  <1>2. Cardinality(L) \in Nat /\ Cardinality(V) \in Nat
    BY <1>1, MentorAssumption, FS_Subset, FS_CardinalityType
  <1>3. ~(Cardinality(L) > PerReply) /\ ~(Cardinality(V) > PerAttempt)
    BY DEF TooMuchCode
  <1>4. Cardinality(L) <= PerReply /\ Cardinality(V) <= PerAttempt
    BY <1>2, <1>3, MentorAssumption
  <1>5. QED
    BY <1>4 DEF Measured, ShownOf, ShownIn

LEMMA DraftKeeps ==
    ASSUME MentorInv, NEW w \in ChatWorkers, NEW lines \in SUBSET CodeLines,
           NEW caught \in BOOLEAN, Draft(w, lines, caught)
    PROVE  MentorInv'
  <1>. DEFINE j == chatting[w]
              again == [j EXCEPT !.at = "retry", !.trap = FALSE]
              reply == [at |-> "store", try |-> j.try, own |-> j.own, trap |-> j.trap,
                        day |-> j.day, seen |-> j.seen, lines |-> lines, first |-> TRUE]
  <1>1. j \in Jobs /\ j.at = "draft" /\ j # Silent
    BY DEF MentorInv, MentorFits, Draft, StepOf, Silent
  <1>2. j \in [at : {"draft", "retry"}, try : Tries, day : 1..LastChatDay, trap : BOOLEAN,
              own : Editors, seen : SUBSET (1..MaxMessages)]
    BY <1>1, JobsByStep
  <1>3. j.seen \subseteq RepliesOf(j.try)
    BY <1>1 DEF MentorInv, RepliesAreMeasured, RepliesIn, RepliesOf
  <1>4. CASE caught \/ TooMuchCode(j, lines)
    <2>1. /\ again \in [at : {"draft", "retry"}, try : Tries, day : 1..LastChatDay, trap : BOOLEAN,
                        own : Editors, seen : SUBSET (1..MaxMessages)]
          /\ again.at = "retry" /\ again.try = j.try /\ again.day = j.day /\ again.seen = j.seen
          /\ again.trap = FALSE
      BY <1>2
    <2>2. again \in Jobs
      BY <2>1 DEF Jobs
    <2>3. Turns(w, again)
      BY <1>4 DEF Draft
    <2>. HIDE DEF again
    <2>4. MovesOn(w, again)
      BY <1>1, <1>3, <2>1, <2>3 DEF MovesOn, Turns, Passed, Decided
    <2>5. QED
      BY <2>2, <2>3, <2>4, RequestMoves DEF Draft, Turns
  <1>5. CASE ~(caught \/ TooMuchCode(j, lines))
    <2>1. /\ reply.at = "store" /\ reply.try = j.try /\ reply.day = j.day /\ reply.seen = j.seen
          /\ reply.trap = j.trap /\ reply.first = TRUE /\ reply.lines = lines /\ reply.own = j.own
      OBVIOUS
    <2>2. reply \in Jobs
      BY <1>2 DEF Jobs
    <2>3. Turns(w, reply)
      BY <1>5 DEF Draft
    <2>. HIDE DEF reply
    <2>4. Measured(chats, reply)
      BY <1>3, <1>5, <2>1, DraftIsMeasured DEF MentorInv
    <2>5. MovesOn(w, reply)
      BY <1>1, <1>3, <2>1, <2>3, <2>4 DEF MovesOn, Turns, Passed, Decided
    <2>6. QED
      BY <2>2, <2>3, <2>5, RequestMoves DEF Draft, Turns
  <1>6. QED
    BY <1>4, <1>5

LEMMA RetryKeeps ==
    ASSUME MentorInv, NEW w \in ChatWorkers, NEW lines \in SUBSET CodeLines,
           NEW caught \in BOOLEAN, Retry(w, lines, caught)
    PROVE  MentorInv'
  <1>. DEFINE j == chatting[w]
              withheld == caught \/ TooMuchCode(j, lines)
              text == IF withheld THEN {} ELSE lines
              reply == [at |-> "store", try |-> j.try, own |-> j.own, trap |-> j.trap,
                        day |-> j.day, seen |-> j.seen, lines |-> text, first |-> FALSE]
  <1>1. j \in Jobs /\ j.at = "retry" /\ j # Silent
    BY DEF MentorInv, MentorFits, Retry, StepOf, Silent
  <1>2. j \in [at : {"draft", "retry"}, try : Tries, day : 1..LastChatDay, trap : BOOLEAN,
              own : Editors, seen : SUBSET (1..MaxMessages)]
    BY <1>1, JobsByStep
  <1>3. j.seen \subseteq RepliesOf(j.try) /\ ~j.trap
    BY <1>1 DEF MentorInv, RepliesAreMeasured, RepliesIn, RepliesOf
  <1>4. text \in SUBSET CodeLines
    OBVIOUS
  <1>5. Turns(w, reply)
    BY DEF Retry
  <1>6. withheld => text = {}
    OBVIOUS
  <1>7. ~withheld => text = lines /\ ~TooMuchCode(j, lines)
    OBVIOUS
  <1>. HIDE DEF text, withheld
  <1>8. /\ reply.at = "store" /\ reply.try = j.try /\ reply.day = j.day /\ reply.seen = j.seen
        /\ reply.trap = j.trap /\ reply.first = FALSE /\ reply.lines = text /\ reply.own = j.own
    OBVIOUS
  <1>9. reply \in Jobs
    BY <1>2, <1>4 DEF Jobs
  <1>. HIDE DEF reply
  <1>10. Measured(chats, reply)
    <2>1. CASE withheld
      BY <1>6, <1>8, <2>1 DEF Measured
    <2>2. CASE ~withheld
      BY <1>3, <1>7, <1>8, <2>2, DraftIsMeasured DEF MentorInv
    <2>3. QED
      BY <2>1, <2>2
  <1>11. MovesOn(w, reply)
    BY <1>1, <1>3, <1>5, <1>8, <1>10 DEF MovesOn, Turns, Passed, Decided
  <1>12. QED
    BY <1>5, <1>9, <1>11, RequestMoves DEF Retry, Turns

LEMMA ModelFailsKeeps ==
    ASSUME MentorInv, NEW w \in ChatWorkers, ModelFails(w)
    PROVE  MentorInv'
  BY RefusalKeeps DEF ModelFails, Silent

-----------------------------------------------------------------------------
LEMMA NewDayKeeps ==
    ASSUME MentorInv, NewDay
    PROVE  MentorInv'
  <1>. USE DEF MentorInv
  <1>1. /\ chatDay \in 1..LastChatDay /\ LastChatDay \in Nat /\ chatDay < LastChatDay
        /\ chatDay' = chatDay + 1 /\ UNCHANGED <<chats, hypotheses, chatting, sent>>
    BY MentorAssumption DEF NewDay, MentorFits
  <1>2. MentorFits' /\ RowsAreAskedFor' /\ AttemptSums' /\ RepliesAreMeasured'
    <2>1. MentorFits'
      BY <1>1 DEF MentorFits
    <2>2. RowsAreAskedFor'
      BY <1>1 DEF RowsAreAskedFor, Busy
    <2>3. AttemptSums'
      <3>1. \A t : /\ RepliesOf(t)' = RepliesOf(t) /\ Answering(t)' = Answering(t)
                  /\ Traps(t)' = Traps(t) /\ Carrying(t)' = Carrying(t) /\ Judging(t)' = Judging(t)
        BY <1>1 DEF RepliesOf, Answering, Traps, Carrying, Judging
      <3>2. QED
        BY <1>1, <3>1 DEF AttemptSums, Workers
    <2>4. RepliesAreMeasured'
      BY <1>1 DEF RepliesAreMeasured
    <2>5. QED
      BY <2>1, <2>2, <2>3, <2>4
  <1>3. DaySums'
    <2>1. \A d : SentOn(d)' = SentOn(d) /\ Dated(d)' = Dated(d) /\ Waiting(d)' = Waiting(d)
      BY <1>1 DEF SentOn, Dated, Waiting
    <2>. SUFFICES ASSUME NEW d \in 1..LastChatDay
                  PROVE  /\ d > chatDay' => SentOn(d) = {} /\ Dated(d) = {} /\ Waiting(d) = {}
                         /\ d = chatDay' => Cardinality(SentOn(d)) + Cardinality(Dated(d))
                                              <= DayCap + Workers - 1
                         /\ d < chatDay' =>
                              Cardinality(SentOn(d)) + Cardinality(Dated(d)) + Cardinality(Waiting(d))
                                              <= DayCap + 2 * Workers - 1
      BY <2>1 DEF DaySums, Workers
    <2>2. /\ Workers \in Nat /\ DayCap \in Nat \ {0} /\ Cardinality(SentOn(d)) \in Nat
          /\ Cardinality(Dated(d)) \in 0..Workers /\ Cardinality(Waiting(d)) \in 0..Workers
      BY MentorAssumption, WorkersOnTheirWay, WorkersAreCounted, RowsOfChats, RowsAreCounted
    <2>3. CASE d > chatDay'
      BY <1>1, <2>3 DEF DaySums
    <2>4. CASE d = chatDay'
      <3>1. SentOn(d) = {} /\ Dated(d) = {}
        BY <1>1, <2>4 DEF DaySums
      <3>2. QED
        BY <1>1, <2>2, <2>4, <3>1, FS_EmptySet
    <2>5. CASE d < chatDay
      <3>1. Cardinality(SentOn(d)) + Cardinality(Dated(d)) + Cardinality(Waiting(d))
               <= DayCap + 2 * Workers - 1
        BY <2>5 DEF DaySums
      <3>2. ~(d > chatDay') /\ d # chatDay'
        BY <1>1, <2>5
      <3>3. QED
        BY <3>1, <3>2
    <2>6. CASE d = chatDay
      <3>1. Cardinality(SentOn(d)) + Cardinality(Dated(d)) <= DayCap + Workers - 1
        BY <2>6 DEF DaySums
      <3>2. ~(d > chatDay') /\ d # chatDay'
        BY <1>1, <2>6
      <3>3. QED
        BY <2>2, <3>1, <3>2
    <2>7. QED
      BY <1>1, <2>3, <2>4, <2>5, <2>6
  <1>4. QED
    BY <1>2, <1>3

LEMMA StoreHypothesisKeeps ==
    ASSUME MentorInv, NEW w \in ChatWorkers, StoreHypothesis(w)
    PROVE  MentorInv'
  <1>. USE DEF MentorInv
  <1>. DEFINE j == chatting[w]
  <1>1. j \in Jobs /\ j.at = "judge" /\ j # Silent /\ Silent \in Jobs
    BY DEF MentorFits, StoreHypothesis, StepOf, Silent, Jobs
  <1>2. /\ chatting' = [chatting EXCEPT ![w] = Silent]
        /\ UNCHANGED <<chatDay, sent, chats>>
        /\ hypotheses' = [hypotheses EXCEPT ![j.try] = @ + 1]
    BY DEF StoreHypothesis, Turns
  <1>3. j.try \in Tries
    BY <1>1, JobFields
  <1>4. /\ hypotheses' \in [Tries -> Nat]
        /\ hypotheses'[j.try] = hypotheses[j.try] + 1
        /\ \A t \in Tries : t # j.try => hypotheses'[t] = hypotheses[t]
        /\ \A t \in Tries : hypotheses[t] \in Nat /\ hypotheses'[t] <= hypotheses[t] + 1
    BY <1>2, <1>3 DEF MentorFits
  <1>5. Workers \in Nat
    BY WorkersAreCounted, ChatWorkers \in SUBSET ChatWorkers
  <1>6. MentorFits'
    BY <1>1, <1>2, <1>4, OneWorkerSteps DEF MentorFits
  <1>7. RowsAreAskedFor'
    <2>1. Shift(Busy, Busy', w) /\ w \notin Busy' /\ w \in Busy
      BY <1>1, <1>2, OneWorkerSteps DEF Busy
    <2>2. Cardinality(Busy') = Cardinality(Busy) - 1 /\ Cardinality(Busy) \in Nat
      BY <1>5, <2>1 DEF Shift
    <2>3. Len(chats) \in Nat /\ sent \in Nat
      BY RowsOfChats, MentorAssumption DEF MentorFits
    <2>4. Len(chats) + Cardinality(Busy') <= sent
      BY <2>2, <2>3 DEF RowsAreAskedFor
    <2>5. ASSUME NEW t \in Tries PROVE hypotheses'[t] + Cardinality(Busy') <= sent
      BY <1>4, <2>2, <2>3 DEF RowsAreAskedFor
    <2>6. QED
      BY <1>2, <2>4, <2>5 DEF RowsAreAskedFor
  <1>8. AttemptSums'
    <2>. SUFFICES ASSUME NEW t \in Tries
                  PROVE  /\ Cardinality(RepliesOf(t)) + Cardinality(Answering(t)')
                                <= AttemptCap + Workers - 1
                         /\ Cardinality(Traps(t)) + Cardinality(Carrying(t)') <= Workers
                         /\ hypotheses'[t] + Cardinality(Judging(t)') <= HypothesisCap + Workers - 1
      BY <1>2 DEF AttemptSums, Workers, RepliesOf, Traps
    <2>1. /\ Shift(Answering(t), Answering(t)', w) /\ Shift(Carrying(t), Carrying(t)', w)
          /\ Shift(Judging(t), Judging(t)', w)
          /\ w \notin Answering(t)' /\ w \notin Carrying(t)' /\ w \notin Judging(t)'
          /\ w \in Judging(t) <=> t = j.try
      <3>1. /\ Shift(Answering(t), Answering(t)', w) /\ Shift(Carrying(t), Carrying(t)', w)
            /\ Shift(Judging(t), Judging(t)', w)
            /\ w \in Answering(t)' <=> Silent.at \in Passed /\ Silent.try = t
            /\ w \in Carrying(t)' <=> Silent.at \in Decided /\ Silent.try = t /\ Silent.trap
            /\ w \in Judging(t)' <=> Silent.at = "judge" /\ Silent.try = t
        BY ZenonT(60), <1>1, <1>2, OneWorkerSteps
      <3>2. Silent.at \notin Passed \union Decided \union {"judge"}
        BY DEF Silent, Passed, Decided
      <3>3. w \in Judging(t) <=> t = j.try
        BY <1>1, <1>3 DEF Judging
      <3>4. QED
        BY <3>1, <3>2, <3>3
    <2>2. /\ w \notin Answering(t) /\ w \notin Carrying(t)
      BY <1>1 DEF Answering, Carrying, Passed, Decided
    <2>3. /\ Cardinality(Answering(t)') = Cardinality(Answering(t))
          /\ Cardinality(Carrying(t)') = Cardinality(Carrying(t))
      BY <2>1, <2>2 DEF Shift
    <2>4. hypotheses'[t] + Cardinality(Judging(t)') = hypotheses[t] + Cardinality(Judging(t))
      <3>1. CASE t = j.try
        BY <1>4, <1>5, <2>1, <3>1 DEF Shift
      <3>2. CASE t # j.try
        BY <1>4, <1>5, <2>1, <3>2 DEF Shift
      <3>3. QED
        BY <3>1, <3>2
    <2>5. QED
      BY <2>3, <2>4 DEF AttemptSums
  <1>9. DaySums'
    <2>1. ASSUME NEW d \in 1..LastChatDay
          PROVE  SentOn(d)' = SentOn(d) /\ Dated(d)' = Dated(d) /\ Waiting(d)' = Waiting(d)
      <3>1. \A v \in ChatWorkers : v # w => chatting'[v] = chatting[v]
        BY <1>1, <1>2, OneWorkerSteps
      <3>2. chatting'[w].at \notin Passed \union {"quota"} /\ chatting[w].at \notin Passed \union {"quota"}
        BY <1>1, <1>2, OneWorkerSteps DEF Silent, Passed
      <3>3. QED
        BY <1>2, <3>1, <3>2 DEF SentOn, Dated, Waiting
    <2>2. QED
      BY <1>2, <2>1 DEF DaySums, Workers
  <1>10. RepliesAreMeasured'
    <2>1. \A v \in ChatWorkers : chatting'[v] = chatting[v] \/ chatting'[v] = Silent
      BY <1>1, <1>2, OneWorkerSteps
    <2>2. QED
      BY <1>2, <2>1 DEF RepliesAreMeasured, Silent
  <1>11. QED
    BY <1>6, <1>7, <1>8, <1>9, <1>10

\* What storing a reply makes of the counted rows.
LEMMA OneRowMore ==
    ASSUME MentorFits, NEW row \in Replies, chats' = Append(chats, row)
    PROVE  /\ chats' \in Seq(Replies) /\ Len(chats') = Len(chats) + 1
           /\ DOMAIN chats' = 1..(Len(chats) + 1)
           /\ chats'[Len(chats) + 1] = row
           /\ \A i \in 1..Len(chats) : chats'[i] = chats[i]
           /\ \A t \in Tries :
                /\ RepliesOf(t) \subseteq RepliesOf(t)'
                /\ {k \in RepliesOf(t)' : k <= Len(chats)} = RepliesOf(t)
                /\ Cardinality(RepliesOf(t)) \in Nat /\ Cardinality(Traps(t)) \in Nat
                /\ row.try = t => Cardinality(RepliesOf(t)') = Cardinality(RepliesOf(t)) + 1
                /\ row.try # t => Cardinality(RepliesOf(t)') = Cardinality(RepliesOf(t))
                /\ row.try = t /\ row.injected => Cardinality(Traps(t)') = Cardinality(Traps(t)) + 1
                /\ ~(row.try = t /\ row.injected) => Cardinality(Traps(t)') = Cardinality(Traps(t))
           /\ \A d \in 1..LastChatDay :
                /\ Cardinality(SentOn(d)) \in Nat
                /\ row.day = d => Cardinality(SentOn(d)') = Cardinality(SentOn(d)) + 1
                /\ row.day # d => SentOn(d)' = SentOn(d)
  <1>. DEFINE n == Len(chats)
  <1>1. n \in Nat /\ DOMAIN chats = 1..n
    BY RowsOfChats
  <1>2. /\ chats' \in Seq(Replies) /\ Len(chats') = n + 1 /\ DOMAIN chats' = 1..(n + 1)
        /\ chats'[n + 1] = row /\ \A i \in 1..n : chats'[i] = chats[i]
    BY DEF MentorFits
  <1>. HIDE DEF n
  <1>3. ASSUME NEW t \in Tries
        PROVE  /\ RepliesOf(t)' \in SUBSET (1..n+1) /\ RepliesOf(t) \in SUBSET (1..n)
               /\ n + 1 \in RepliesOf(t)' <=> row.try = t
               /\ \A i \in 1..n : i \in RepliesOf(t) <=> i \in RepliesOf(t)'
    BY <1>1, <1>2 DEF RepliesOf
  <1>4. ASSUME NEW t \in Tries
        PROVE  /\ Traps(t)' \in SUBSET (1..n+1) /\ Traps(t) \in SUBSET (1..n)
               /\ n + 1 \in Traps(t)' <=> row.try = t /\ row.injected
               /\ \A i \in 1..n : i \in Traps(t) <=> i \in Traps(t)'
    <2>1. /\ Traps(t)' \in SUBSET (1..n+1) /\ Traps(t) \in SUBSET (1..n)
      BY <1>3 DEF Traps
    <2>2. n + 1 \in Traps(t)' <=> row.try = t /\ row.injected
      BY <1>2, <1>3, Zenon DEF Traps
    <2>3. \A i \in 1..n : i \in Traps(t) <=> i \in Traps(t)'
      BY <1>2, <1>3, Zenon DEF Traps
    <2>4. QED
      BY <2>1, <2>2, <2>3
  <1>5. ASSUME NEW d \in 1..LastChatDay
        PROVE  /\ SentOn(d)' \in SUBSET (1..n+1) /\ SentOn(d) \in SUBSET (1..n)
               /\ n + 1 \in SentOn(d)' <=> row.day = d
               /\ \A i \in 1..n : i \in SentOn(d) <=> i \in SentOn(d)'
    BY <1>1, <1>2 DEF SentOn
  <1>6. ASSUME NEW t \in Tries
        PROVE  /\ RepliesOf(t) \subseteq RepliesOf(t)'
               /\ {k \in RepliesOf(t)' : k <= n} = RepliesOf(t)
               /\ Cardinality(RepliesOf(t)) \in Nat
               /\ row.try = t => Cardinality(RepliesOf(t)') = Cardinality(RepliesOf(t)) + 1
               /\ row.try # t => Cardinality(RepliesOf(t)') = Cardinality(RepliesOf(t))
    <2>1. /\ RepliesOf(t) \subseteq RepliesOf(t)'
          /\ {k \in RepliesOf(t)' : k <= n} = RepliesOf(t)
      BY <1>1, <1>3
    <2>2. QED
      BY <1>1, <1>3, <2>1, OneRowIsAppended
  <1>7. ASSUME NEW t \in Tries
        PROVE  /\ Cardinality(Traps(t)) \in Nat
               /\ row.try = t /\ row.injected => Cardinality(Traps(t)') = Cardinality(Traps(t)) + 1
               /\ ~(row.try = t /\ row.injected) => Cardinality(Traps(t)') = Cardinality(Traps(t))
    BY <1>1, <1>4, OneRowIsAppended
  <1>8. ASSUME NEW d \in 1..LastChatDay
        PROVE  /\ Cardinality(SentOn(d)) \in Nat
               /\ row.day = d => Cardinality(SentOn(d)') = Cardinality(SentOn(d)) + 1
               /\ row.day # d => SentOn(d)' = SentOn(d)
    <2>1. row.day # d => SentOn(d)' = SentOn(d)
      <3>. SUFFICES ASSUME row.day # d PROVE SentOn(d)' = SentOn(d)
        OBVIOUS
      <3>1. \A i \in 1..n+1 : i \in 1..n \/ i = n + 1
        BY <1>1
      <3>2. QED
        BY <1>5, <3>1
    <2>2. QED
      BY <1>1, <1>5, <2>1, OneRowIsAppended
  <1>9. QED
    BY <1>2, <1>6, <1>7, <1>8 DEF n

LEMMA StoreReplyKeeps ==
    ASSUME MentorInv, NEW w \in ChatWorkers, StoreReply(w)
    PROVE  MentorInv'
  <1>. USE DEF MentorInv
  <1>. DEFINE j == chatting[w]
              row == [try |-> j.try, day |-> j.day, lines |-> j.lines, own |-> j.own,
                      seen |-> j.seen, injected |-> j.trap, first |-> j.first]
              n == Len(chats)
  <1>1. j \in Jobs /\ j.at = "store" /\ j # Silent /\ Silent \in Jobs
    BY DEF MentorFits, StoreReply, StepOf, Silent, Jobs
  <1>2. /\ chatting' = [chatting EXCEPT ![w] = Silent]
        /\ UNCHANGED <<chatDay, sent, hypotheses>>
        /\ chats' = Append(chats, row)
    BY DEF StoreReply, Turns
  <1>3. /\ j.try \in Tries /\ j.day \in 1..LastChatDay /\ j.trap \in BOOLEAN /\ j.own \in Editors
        /\ j.seen \in SUBSET (1..MaxMessages) /\ j.lines \in SUBSET CodeLines /\ j.first \in BOOLEAN
    BY <1>1, JobFields DEF Passed, Decided
  <1>4. /\ row \in Replies /\ row.try = j.try /\ row.day = j.day /\ row.injected = j.trap
        /\ row.lines = j.lines /\ row.own = j.own /\ row.seen = j.seen /\ row.first = j.first
    BY <1>3 DEF Replies
  <1>5. n \in Nat /\ DOMAIN chats = 1..n
    BY RowsOfChats
  <1>6. Workers \in Nat
    BY WorkersAreCounted, ChatWorkers \in SUBSET ChatWorkers
  <1>7. Silent.at \notin Passed \union Decided \union {"judge", "quota"}
    BY DEF Silent, Passed, Decided
  <1>. HIDE DEF row, n
  <1>8. MentorFits'
    BY <1>1, <1>2, <1>4, OneWorkerSteps, OneRowMore DEF MentorFits
  <1>9. RowsAreAskedFor'
    <2>1. Shift(Busy, Busy', w) /\ w \notin Busy' /\ w \in Busy
      BY <1>1, <1>2, OneWorkerSteps DEF Busy
    <2>2. Cardinality(Busy') = Cardinality(Busy) - 1 /\ Cardinality(Busy) \in Nat
      BY <1>6, <2>1 DEF Shift
    <2>3. sent \in Nat /\ \A t \in Tries : hypotheses[t] \in Nat
      BY MentorAssumption DEF MentorFits
    <2>4. Len(chats') = n + 1
      BY <1>2, <1>4, OneRowMore DEF n
    <2>5. QED
      BY <1>2, <1>5, <2>2, <2>3, <2>4 DEF RowsAreAskedFor, n
  <1>10. AttemptSums'
    <2>. SUFFICES ASSUME NEW t \in Tries
                  PROVE  /\ Cardinality(RepliesOf(t)') + Cardinality(Answering(t)')
                                <= AttemptCap + Workers - 1
                         /\ Cardinality(Traps(t)') + Cardinality(Carrying(t)') <= Workers
                         /\ hypotheses[t] + Cardinality(Judging(t)') <= HypothesisCap + Workers - 1
      BY <1>2 DEF AttemptSums, Workers
    <2>1. /\ Shift(Answering(t), Answering(t)', w) /\ Shift(Carrying(t), Carrying(t)', w)
          /\ Shift(Judging(t), Judging(t)', w)
          /\ w \notin Answering(t)' /\ w \notin Carrying(t)' /\ w \notin Judging(t)'
      <3>1. /\ Shift(Answering(t), Answering(t)', w) /\ Shift(Carrying(t), Carrying(t)', w)
            /\ Shift(Judging(t), Judging(t)', w)
            /\ w \in Answering(t)' <=> Silent.at \in Passed /\ Silent.try = t
            /\ w \in Carrying(t)' <=> Silent.at \in Decided /\ Silent.try = t /\ Silent.trap
            /\ w \in Judging(t)' <=> Silent.at = "judge" /\ Silent.try = t
        BY ZenonT(60), <1>1, <1>2, OneWorkerSteps
      <3>2. QED
        BY <1>7, <3>1
    <2>2. /\ w \in Answering(t) <=> j.try = t
          /\ w \notin Judging(t)
      BY <1>1 DEF Answering, Judging, Passed
    <2>3. w \in Carrying(t) <=> j.try = t /\ j.trap
      <3>1. j.at \in Decided
        BY <1>1 DEF Decided
      <3>2. QED
        BY <3>1, Zenon DEF Carrying
    <2>4. /\ Cardinality(RepliesOf(t)) \in Nat /\ Cardinality(Traps(t)) \in Nat
          /\ j.try = t => Cardinality(RepliesOf(t)') = Cardinality(RepliesOf(t)) + 1
          /\ j.try # t => Cardinality(RepliesOf(t)') = Cardinality(RepliesOf(t))
          /\ j.try = t /\ j.trap => Cardinality(Traps(t)') = Cardinality(Traps(t)) + 1
          /\ ~(j.try = t /\ j.trap) => Cardinality(Traps(t)') = Cardinality(Traps(t))
      BY <1>2, <1>4, OneRowMore
    <2>5. Cardinality(RepliesOf(t)') + Cardinality(Answering(t)')
             = Cardinality(RepliesOf(t)) + Cardinality(Answering(t))
      BY <1>6, <2>1, <2>2, <2>4 DEF Shift
    <2>6. Cardinality(Traps(t)') + Cardinality(Carrying(t)')
             = Cardinality(Traps(t)) + Cardinality(Carrying(t))
      BY <1>6, <2>1, <2>3, <2>4 DEF Shift
    <2>7. Cardinality(Judging(t)') = Cardinality(Judging(t))
      BY <2>1, <2>2 DEF Shift
    <2>8. QED
      BY <2>5, <2>6, <2>7 DEF AttemptSums
  <1>11. DaySums'
    <2>. SUFFICES ASSUME NEW d \in 1..LastChatDay
                  PROVE  /\ d > chatDay => SentOn(d)' = {} /\ Dated(d)' = {} /\ Waiting(d)' = {}
                         /\ d = chatDay => Cardinality(SentOn(d)') + Cardinality(Dated(d)')
                                              <= DayCap + Workers - 1
                         /\ d < chatDay =>
                              Cardinality(SentOn(d)') + Cardinality(Dated(d)') + Cardinality(Waiting(d)')
                                              <= DayCap + 2 * Workers - 1
      BY <1>2 DEF DaySums, Workers
    <2>1. /\ Shift(Dated(d), Dated(d)', w) /\ Shift(Waiting(d), Waiting(d)', w)
          /\ w \notin Dated(d)' /\ w \notin Waiting(d)'
          /\ Dated(d)' \subseteq Dated(d) \union {w} /\ Waiting(d)' \subseteq Waiting(d) \union {w}
      <3>1. /\ Shift(Dated(d), Dated(d)', w) /\ Shift(Waiting(d), Waiting(d)', w)
            /\ w \in Dated(d)' <=> Silent.at \in Passed /\ Silent.day = d
            /\ w \in Waiting(d)' <=> Silent.at = "quota" /\ Silent.day = d
            /\ Dated(d)' \subseteq Dated(d) \union {w} /\ Waiting(d)' \subseteq Waiting(d) \union {w}
        BY ZenonT(60), <1>1, <1>2, OneWorkerSteps
      <3>2. QED
        BY <1>7, <3>1
    <2>2. /\ w \in Dated(d) <=> j.day = d
          /\ w \notin Waiting(d)
      BY <1>1 DEF Dated, Waiting, Passed
    <2>3. /\ Cardinality(SentOn(d)) \in Nat
          /\ j.day = d => Cardinality(SentOn(d)') = Cardinality(SentOn(d)) + 1
          /\ j.day # d => SentOn(d)' = SentOn(d)
      BY <1>2, <1>4, OneRowMore
    <2>4. Cardinality(SentOn(d)') + Cardinality(Dated(d)')
             = Cardinality(SentOn(d)) + Cardinality(Dated(d))
      BY <1>6, <2>1, <2>2, <2>3 DEF Shift
    <2>5. Cardinality(Waiting(d)') = Cardinality(Waiting(d))
      BY <2>1, <2>2 DEF Shift
    <2>6. d > chatDay => SentOn(d)' = {} /\ Dated(d)' = {} /\ Waiting(d)' = {}
      <3>. SUFFICES ASSUME d > chatDay
                    PROVE  SentOn(d)' = {} /\ Dated(d)' = {} /\ Waiting(d)' = {}
        OBVIOUS
      <3>1. SentOn(d) = {} /\ Dated(d) = {} /\ Waiting(d) = {}
        BY DEF DaySums
      <3>2. QED
        BY <2>1, <2>2, <2>3, <3>1
    <2>7. QED
      BY <2>4, <2>5, <2>6 DEF DaySums
  <1>12. RepliesAreMeasured'
    <2>1. /\ DOMAIN chats' = 1..(n + 1) /\ chats'[n + 1] = row
          /\ \A i \in 1..n : chats'[i] = chats[i]
      BY <1>2, <1>4, OneRowMore DEF n
    <2>2. ASSUME NEW t
          PROVE  RepliesIn(chats, t) \subseteq {k \in RepliesIn(chats', t) : k < n + 1}
      BY <1>5, <2>1 DEF RepliesIn
    <2>3. ASSUME NEW r, NEW t, r.seen \subseteq RepliesIn(chats, t), Measured(chats, r)
          PROVE  Measured(chats', r)
      <3>1. r.seen \subseteq 1..n
        BY <1>5, <2>3 DEF RepliesIn
      <3>2. ShownOf(chats', r.seen) = ShownOf(chats, r.seen)
        BY <2>1, <3>1 DEF ShownOf
      <3>3. QED
        BY <2>3, <3>2 DEF Measured
    <2>4. ASSUME NEW i \in 1..n
          PROVE  /\ Measured(chats', chats[i])
                 /\ chats[i].seen \subseteq {k \in RepliesIn(chats', chats[i].try) : k < i}
                 /\ chats[i].injected => chats[i].first
      <3>1. /\ Measured(chats, chats[i])
            /\ chats[i].seen \subseteq {k \in RepliesIn(chats, chats[i].try) : k < i}
            /\ chats[i].injected => chats[i].first
        BY <1>5 DEF RepliesAreMeasured
      <3>2. QED
        BY <2>2, <2>3, <3>1
    <2>5. /\ Measured(chats', row)
          /\ row.seen \subseteq {k \in RepliesIn(chats', row.try) : k < n + 1}
          /\ row.injected => row.first
      <3>1. Measured(chats, j) /\ j.seen \subseteq RepliesIn(chats, j.try) /\ (j.trap => j.first)
        BY <1>1 DEF RepliesAreMeasured
      <3>2. Measured(chats, row)
        BY <1>4, <3>1 DEF Measured
      <3>3. QED
        BY <1>4, <2>2, <2>3, <3>1, <3>2
    <2>6. ASSUME NEW v \in ChatWorkers
          PROVE  /\ chatting'[v].at \in {"draft", "retry", "store"} =>
                      chatting'[v].seen \subseteq RepliesIn(chats', chatting'[v].try)
                 /\ chatting'[v].at = "retry" => ~chatting'[v].trap
                 /\ chatting'[v].at = "store" =>
                      /\ Measured(chats', chatting'[v])
                      /\ chatting'[v].trap => chatting'[v].first
      <3>1. CASE v = w
        <4>1. chatting'[v] = Silent
          BY ZenonT(60), <1>1, <1>2, <3>1, OneWorkerSteps
        <4>2. QED
          BY <4>1 DEF Silent
      <3>2. CASE v # w
        <4>1. chatting'[v] = chatting[v]
          BY <1>1, <1>2, <3>2, OneWorkerSteps
        <4>2. QED
          BY <2>2, <2>3, <4>1 DEF RepliesAreMeasured
      <3>3. QED
        BY <3>1, <3>2
    <2>7. ASSUME NEW i \in DOMAIN chats'
          PROVE  /\ Measured(chats', chats'[i])
                 /\ chats'[i].seen \subseteq {k \in RepliesIn(chats', chats'[i].try) : k < i}
                 /\ chats'[i].injected => chats'[i].first
      <3>1. CASE i \in 1..n
        BY <2>1, <2>4, <3>1
      <3>2. CASE i = n + 1
        BY <2>1, <2>5, <3>2
      <3>3. QED
        BY <1>5, <2>1, <3>1, <3>2
    <2>8. QED
      BY <2>6, <2>7 DEF RepliesAreMeasured
  <1>13. QED
    BY <1>8, <1>9, <1>10, <1>11, <1>12

-----------------------------------------------------------------------------
LEMMA InitHolds == MentorInit => MentorInv
  <1>. SUFFICES ASSUME MentorInit PROVE MentorInv
    OBVIOUS
  <1>1. \A w \in ChatWorkers : chatting[w] = Silent
    BY DEF MentorInit
  <1>2. /\ Busy = {} /\ DOMAIN chats = {} /\ Len(chats) = 0
        /\ \A t : /\ RepliesOf(t) = {} /\ Answering(t) = {} /\ Traps(t) = {}
                 /\ Carrying(t) = {} /\ Judging(t) = {}
        /\ \A d : SentOn(d) = {} /\ Dated(d) = {} /\ Waiting(d) = {}
    BY <1>1 DEF MentorInit, Busy, RepliesOf, Answering, Traps, Carrying, Judging, SentOn, Dated,
                Waiting, Silent, Passed, Decided
  <1>3. Cardinality({}) = 0 /\ Workers \in Nat
    BY FS_EmptySet, WorkersAreCounted, ChatWorkers \in SUBSET ChatWorkers
  <1>4. MentorFits
    BY MentorAssumption DEF MentorInit, MentorFits, Jobs
  <1>5. RowsAreAskedFor
    BY <1>2, <1>3 DEF MentorInit, RowsAreAskedFor
  <1>6. AttemptSums
    <2>. SUFFICES ASSUME NEW t \in Tries
                  PROVE  /\ Cardinality(RepliesOf(t)) + Cardinality(Answering(t))
                              <= AttemptCap + Workers - 1
                         /\ Cardinality(Traps(t)) + Cardinality(Carrying(t)) <= Workers
                         /\ hypotheses[t] + Cardinality(Judging(t)) <= HypothesisCap + Workers - 1
      BY DEF AttemptSums
    <2>1. /\ RepliesOf(t) = {} /\ Answering(t) = {} /\ Traps(t) = {}
          /\ Carrying(t) = {} /\ Judging(t) = {} /\ hypotheses[t] = 0
      BY <1>2 DEF MentorInit
    <2>2. AttemptCap \in Nat \ {0} /\ HypothesisCap \in Nat \ {0}
      BY MentorAssumption
    <2>3. 0 + 0 <= AttemptCap + Workers - 1 /\ 0 + 0 <= Workers
          /\ 0 + 0 <= HypothesisCap + Workers - 1
      BY <1>3, <2>2
    <2>4. QED
      BY <1>3, <2>1, <2>3
  <1>9. DaySums
    <2>. SUFFICES ASSUME NEW d \in 1..LastChatDay
                  PROVE  /\ d > chatDay => SentOn(d) = {} /\ Dated(d) = {} /\ Waiting(d) = {}
                         /\ d = chatDay => Cardinality(SentOn(d)) + Cardinality(Dated(d))
                                             <= DayCap + Workers - 1
                         /\ d < chatDay => Cardinality(SentOn(d)) + Cardinality(Dated(d))
                                             + Cardinality(Waiting(d)) <= DayCap + 2 * Workers - 1
      BY DEF DaySums
    <2>1. SentOn(d) = {} /\ Dated(d) = {} /\ Waiting(d) = {}
      BY <1>2
    <2>2. DayCap \in Nat \ {0} /\ LastChatDay \in Nat /\ chatDay = 1
      BY MentorAssumption DEF MentorInit
    <2>3. 0 + 0 <= DayCap + Workers - 1 /\ ~(d < chatDay)
      BY <1>3, <2>2
    <2>4. QED
      BY <1>3, <2>1, <2>3
  <1>7. RepliesAreMeasured
    BY <1>1, <1>2 DEF RepliesAreMeasured, Silent
  <1>8. QED
    BY <1>4, <1>5, <1>6, <1>7, <1>9 DEF MentorInv

LEMMA MentorStep == MentorInv /\ [MentorNext]_mentorVars => MentorInv'
  <1>. SUFFICES ASSUME MentorInv, [MentorNext]_mentorVars PROVE MentorInv'
    OBVIOUS
  <1>1. CASE UNCHANGED mentorVars
    BY ZenonT(60), <1>1 DEF mentorVars, MentorInv, MentorFits, RowsAreAskedFor, Busy, AttemptSums, RepliesOf,
                Answering, Traps, Carrying, Judging, DaySums, SentOn, Dated, Waiting,
                RepliesAreMeasured
  <1>2. CASE NewDay
    BY <1>2, NewDayKeeps
  <1>3. ASSUME NEW w \in ChatWorkers,
               EnforceCiel(w) \/ StoreReply(w) \/ ModelFails(w) \/ StoreHypothesis(w)
        PROVE  MentorInv'
    BY <1>3, EnforceCielKeeps, StoreReplyKeeps, ModelFailsKeeps, StoreHypothesisKeeps
  <1>4. ASSUME NEW w \in ChatWorkers, NEW t \in Tries, BeginMessage(w, t) \/ BeginHypothesis(w, t)
        PROVE  MentorInv'
    BY <1>4, BeginMessageKeeps, BeginHypothesisKeeps
  <1>5. ASSUME NEW w \in ChatWorkers, NEW asks \in BOOLEAN, DecideTrap(w, asks)
        PROVE  MentorInv'
    BY <1>5, DecideTrapKeeps
  <1>6. ASSUME NEW w \in ChatWorkers, NEW own \in Editors, ReadShown(w, own)
        PROVE  MentorInv'
    BY <1>6, ReadShownKeeps
  <1>7. ASSUME NEW w \in ChatWorkers, NEW lines \in SUBSET CodeLines, NEW caught \in BOOLEAN,
               Draft(w, lines, caught) \/ Retry(w, lines, caught)
        PROVE  MentorInv'
    BY <1>7, DraftKeeps, RetryKeeps
  <1>8. QED
    BY <1>1, <1>2, <1>3, <1>4, <1>5, <1>6, <1>7 DEF MentorNext

LEMMA MentorInvariance == MentorSpec => []MentorInv
  <1>1. QED
    BY InitHolds, MentorStep, PTL DEF MentorSpec

\* The type invariant of MentorReply: in particular no more rows than requests.
THEOREM MentorTypeCorrect == MentorSpec => []MentorTypeOK
  <1>1. MentorInv => MentorTypeOK
    <2>. SUFFICES ASSUME MentorInv PROVE MentorTypeOK
      OBVIOUS
    <2>1. ASSUME NEW t \in Tries PROVE hypotheses[t] \in 0..MaxMessages
      <3>1. Cardinality(Busy) \in Nat /\ sent \in 0..MaxMessages /\ hypotheses[t] \in Nat
            /\ MaxMessages \in Nat
        BY WorkersOnTheirWay, WorkersAreCounted, MentorAssumption DEF MentorInv, MentorFits
      <3>2. hypotheses[t] + Cardinality(Busy) <= sent
        BY DEF MentorInv, RowsAreAskedFor
      <3>3. QED
        BY <3>1, <3>2
    <2>2. ASSUME NEW w \in ChatWorkers
          PROVE  chatting[w].at \in
                   {"silent", "quota", "trap", "shown", "draft", "retry", "store", "judge"}
      BY JobFields DEF MentorInv, MentorFits, Passed
    <2>3. hypotheses \in [Tries -> 0..MaxMessages]
      BY <2>1 DEF MentorInv, MentorFits
    <2>4. QED
      BY <2>2, <2>3 DEF MentorInv, MentorFits, MentorTypeOK, Replies
  <1>2. QED
    BY <1>1, MentorInvariance, PTL

\* The code an attempt was shown is bounded by its cap and one reply's cap for every reply
\* stored while another was being written, for any number of requests in flight.
THEOREM ShownCodeIsBounded == MentorSpec => []CodeShownIsBounded
  <1>1. MentorInv => CodeShownIsBounded
    BY MeasuredRepliesAreBounded DEF MentorInv
  <1>2. QED
    BY <1>1, MentorInvariance, PTL

\* Messages, hypotheses and traps overrun their caps by the requests in flight together and
\* no more, a day's messages by twice that; a trap on record was shown.
THEOREM CapsOverrunByFlight == MentorSpec => []OverrunsByFlight
  <1>1. MentorInv => OverrunsByFlight
    <2>. SUFFICES ASSUME MentorInv PROVE OverrunsByFlight
      OBVIOUS
    <2>1. /\ Workers \in Nat /\ {AttemptCap, DayCap, HypothesisCap} \subseteq Nat \ {0}
          /\ chatDay \in Nat /\ LastChatDay \in Nat
      BY MentorAssumption, WorkersAreCounted, ChatWorkers \in SUBSET ChatWorkers
      DEF MentorInv, MentorFits
    <2>2. ASSUME NEW t \in Tries
          PROVE  /\ Cardinality(RepliesOf(t)) <= AttemptCap + Workers - 1
                 /\ hypotheses[t] <= HypothesisCap + Workers - 1
                 /\ Cardinality({i \in RepliesOf(t) : chats[i].injected}) <= Workers
      <3>1. /\ Cardinality(RepliesOf(t)) \in Nat /\ Cardinality(Traps(t)) \in Nat
            /\ hypotheses[t] \in Nat
            /\ Cardinality(Answering(t)) \in Nat /\ Cardinality(Carrying(t)) \in Nat
            /\ Cardinality(Judging(t)) \in Nat
        BY <2>1, RowsOfChats, RowsAreCounted, WorkersOnTheirWay, WorkersAreCounted
        DEF MentorInv, MentorFits
      <3>2. /\ Cardinality(RepliesOf(t)) + Cardinality(Answering(t)) <= AttemptCap + Workers - 1
            /\ Cardinality(Traps(t)) + Cardinality(Carrying(t)) <= Workers
            /\ hypotheses[t] + Cardinality(Judging(t)) <= HypothesisCap + Workers - 1
        BY DEF MentorInv, AttemptSums
      <3>3. Cardinality(Traps(t)) <= Workers
        BY <2>1, <3>1, <3>2
      <3>4. QED
        BY <2>1, <3>1, <3>2, <3>3 DEF Traps
    <2>3. ASSUME NEW d \in 1..LastChatDay
          PROVE  Cardinality(SentOn(d)) <= DayCap + 2 * Workers - 1
      <3>1. /\ Cardinality(SentOn(d)) \in Nat
            /\ Cardinality(Dated(d)) \in Nat /\ Cardinality(Waiting(d)) \in Nat
        BY <2>1, RowsOfChats, RowsAreCounted, WorkersOnTheirWay, WorkersAreCounted
        DEF MentorInv
      <3>2. CASE d > chatDay
        <4>1. Cardinality(SentOn(d)) = 0
          BY <3>2, FS_EmptySet DEF MentorInv, DaySums
        <4>2. QED
          BY <2>1, <4>1
      <3>3. CASE d = chatDay
        <4>1. Cardinality(SentOn(d)) + Cardinality(Dated(d)) <= DayCap + Workers - 1
          BY <3>3 DEF MentorInv, DaySums
        <4>2. QED
          BY <2>1, <3>1, <4>1
      <3>4. CASE d < chatDay
        <4>1. Cardinality(SentOn(d)) + Cardinality(Dated(d)) + Cardinality(Waiting(d))
                 <= DayCap + 2 * Workers - 1
          BY <3>4 DEF MentorInv, DaySums
        <4>2. QED
          BY <2>1, <3>1, <4>1
      <3>5. QED
        BY <2>1, <3>2, <3>3, <3>4
    <2>4. \A i \in DOMAIN chats : chats[i].injected => chats[i].first
      BY DEF MentorInv, RepliesAreMeasured
    <2>5. QED
      BY <2>2, <2>3, <2>4 DEF OverrunsByFlight
  <1>2. QED
    BY <1>1, MentorInvariance, PTL
================================================================================
