---------------------------- MODULE ScoringProofs ----------------------------
(***************************************************************************)
(* Proofs about the two engines: what a filter, a sum and a median are,    *)
(* the range of every feature, and that each engine is monotone, for every *)
(* log that can be read (Readable), of any length.                         *)
(*                                                                         *)
(* The second engine gives an axis a level or none, and a level, a whole   *)
(* or a part of one, is worth points; an axis that applies and has no      *)
(* level takes what the first engine gives.  So two logs compare when the  *)
(* axes that apply are the same (Applicable) and none is worth less.  A    *)
(* log with its suite passed (Flawless) is the exception: debugging may    *)
(* lose by it, up to a level, and testing gains as much or more at the     *)
(* same weight.                                                            *)
(***************************************************************************)
EXTENDS Diagnosis, FiniteSetTheorems, SequenceTheorems, WellFoundedInduction, TLAPS

\* A nonempty set of numbers has a least member.
LEMMA LeastNumber ==
    ASSUME NEW T \in SUBSET Nat, T # {}
    PROVE  \E m \in T : \A n \in T : m <= n
  <1>1. PICK m \in T : \A n \in T : ~ (<<n, m>> \in OpToRel(<, Nat))
    BY NatLessThanWellFounded, WFMin
  <1>2. \A n \in T : ~(n < m) /\ n \in Nat /\ m \in Nat
    BY <1>1 DEF OpToRel
  <1>3. \A n \in T : m <= n
    BY <1>2
  <1>4. QED
    BY <1>3

\* Induction up to a number, on the set of the numbers a claim holds of.
LEMMA Induction ==
    ASSUME NEW N \in Nat, NEW P, 0 \in P, \A n \in 1..N : n - 1 \in P => n \in P
    PROVE  \A n \in 0..N : n \in P
  <1>. DEFINE T == {n \in 0..N : n \notin P}
  <1>1. SUFFICES ASSUME T # {} PROVE FALSE
    OBVIOUS
  <1>2. T \in SUBSET Nat
    OBVIOUS
  <1>3. \E m \in T : \A n \in T : m <= n
    <2>. HIDE DEF T
    <2>1. QED
      BY <1>1, <1>2, LeastNumber
  <1>4. PICK m \in T : \A n \in T : m <= n
    BY <1>3
  <1>5. m \in 1..N /\ m - 1 \in 0..N /\ m - 1 \notin T
    BY <1>4
  <1>6. QED
    BY <1>4, <1>5

-----------------------------------------------------------------------------
(* Filtering                                                               *)

KeptStep(f, s, marked, n) ==
    IF n = 0 THEN <<>> ELSE IF marked[n] THEN Append(f[n - 1], s[n]) ELSE f[n - 1]

\* The filter of each beginning of s.
KeptUpTo(s, marked) == CHOOSE f : f = [n \in 0..Len(s) |-> KeptStep(f, s, marked, n)]

LEMMA KeptByBeginnings ==
    ASSUME NEW s, NEW marked
    PROVE  Kept(s, marked) = KeptUpTo(s, marked)[Len(s)]
  BY DEF Kept, KeptUpTo, KeptStep

LEMMA KeptExists ==
    ASSUME NEW s, NEW marked, Len(s) \in Nat
    PROVE  KeptUpTo(s, marked) = [n \in 0..Len(s) |-> KeptStep(KeptUpTo(s, marked), s, marked, n)]
  <1>. DEFINE P == {n \in 0..Len(s) : \E f : f = [k \in 0..n |-> KeptStep(f, s, marked, k)]}
  <1>1. 0 \in P
    <2>. DEFINE f == [k \in 0..0 |-> <<>>]
    <2>1. f = [k \in 0..0 |-> KeptStep(f, s, marked, k)]
      BY DEF KeptStep
    <2>2. QED
      BY <2>1
  <1>2. ASSUME NEW n \in 1..Len(s), n - 1 \in P PROVE n \in P
    <2>1. PICK f : f = [k \in 0..(n - 1) |-> KeptStep(f, s, marked, k)]
      BY <1>2
    <2>. DEFINE g == [k \in 0..n |-> IF k = n THEN KeptStep(f, s, marked, n) ELSE f[k]]
    <2>2. ASSUME NEW k \in 0..n PROVE g[k] = KeptStep(g, s, marked, k)
      <3>1. k # 0 => k - 1 \in 0..(n - 1) /\ g[k - 1] = f[k - 1]
        OBVIOUS
      <3>2. g[k] = KeptStep(f, s, marked, k)
        <4>1. CASE k = n
          BY <4>1
        <4>2. CASE k # n
          <5>1. k \in 0..(n - 1) /\ g[k] = f[k]
            BY <4>2
          <5>2. f[k] = [j \in 0..(n - 1) |-> KeptStep(f, s, marked, j)][k]
            BY <2>1
          <5>3. QED
            BY <5>1, <5>2
        <4>3. QED
          BY <4>1, <4>2
      <3>3. KeptStep(f, s, marked, k) = KeptStep(g, s, marked, k)
        <4>. HIDE DEF g
        <4>1. QED
          BY <3>1 DEF KeptStep
      <3>4. QED
        BY <3>2, <3>3
    <2>3. g = [k \in 0..n |-> KeptStep(g, s, marked, k)]
      <3>1. g = [k \in 0..n |-> g[k]]
        OBVIOUS
      <3>. HIDE DEF g
      <3>2. QED
        BY <2>2, <3>1
    <2>4. QED
      <3>. HIDE DEF g
      <3>1. QED
        BY <2>3
  <1>3. \A n \in 0..Len(s) : n \in P
    <2>. HIDE DEF P
    <2>1. QED
      BY <1>1, <1>2, Induction
  <1>4. \E f : f = [n \in 0..Len(s) |-> KeptStep(f, s, marked, n)]
    BY <1>3
  <1>5. QED
    BY <1>4 DEF KeptUpTo

LEMMA KeptUnfolds ==
    ASSUME NEW S, NEW s \in Seq(S), NEW marked
    PROVE  /\ KeptUpTo(s, marked)[0] = <<>>
           /\ \A n \in 1..Len(s) : KeptUpTo(s, marked)[n] =
                 IF marked[n] THEN Append(KeptUpTo(s, marked)[n - 1], s[n]) ELSE KeptUpTo(s, marked)[n - 1]
           /\ \A n \in 0..Len(s) : KeptUpTo(s, marked)[n] \in Seq(S)
  <1>. DEFINE F == KeptUpTo(s, marked)
              P == {n \in 0..Len(s) : F[n] \in Seq(S)}
  <1>0. Len(s) \in Nat
    OBVIOUS
  <1>1. F = [n \in 0..Len(s) |-> KeptStep(F, s, marked, n)]
    BY <1>0, KeptExists
  <1>2. \A n \in 0..Len(s) : F[n] = KeptStep(F, s, marked, n)
    <2>. HIDE DEF F
    <2>1. QED
      BY <1>1
  <1>. HIDE DEF F
  <1>3. F[0] = <<>>
    BY <1>2 DEF KeptStep
  <1>4. \A n \in 1..Len(s) : F[n] = IF marked[n] THEN Append(F[n - 1], s[n]) ELSE F[n - 1]
    BY <1>2 DEF KeptStep
  <1>5. 0 \in P
    <2>1. <<>> \in Seq(S) /\ 0 \in 0..Len(s)
      BY <1>0
    <2>2. QED
      BY <1>3, <2>1
  <1>6. ASSUME NEW n \in 1..Len(s), n - 1 \in P PROVE n \in P
    <2>1. F[n - 1] \in Seq(S) /\ s[n] \in S /\ n \in 0..Len(s)
      BY <1>0, <1>6
    <2>2. F[n] = Append(F[n - 1], s[n]) \/ F[n] = F[n - 1]
      BY <1>4
    <2>3. Append(F[n - 1], s[n]) \in Seq(S)
      BY <2>1, AppendProperties
    <2>4. F[n] \in Seq(S)
      BY <2>1, <2>2, <2>3
    <2>5. QED
      BY <2>1, <2>4
  <1>7. \A n \in 0..Len(s) : n \in P
    <2>. HIDE DEF P
    <2>1. QED
      BY <1>0, <1>5, <1>6, Induction
  <1>8. QED
    BY <1>3, <1>4, <1>7 DEF F

\* Which members are kept: those that are marked, in their order.
LEMMA KeptMembers ==
    ASSUME NEW S, NEW s \in Seq(S), NEW marked
    PROVE  /\ Kept(s, marked) \in Seq(S)
           /\ \A k \in 1..Len(Kept(s, marked)) : \E i \in 1..Len(s) : marked[i] /\ Kept(s, marked)[k] = s[i]
           /\ \A i \in 1..Len(s) : marked[i] => \E k \in 1..Len(Kept(s, marked)) : Kept(s, marked)[k] = s[i]
  <1>. DEFINE F == KeptUpTo(s, marked)
              P == {n \in 0..Len(s) :
                      /\ \A k \in 1..Len(F[n]) : \E i \in 1..n : marked[i] /\ F[n][k] = s[i]
                      /\ \A i \in 1..n : marked[i] => \E k \in 1..Len(F[n]) : F[n][k] = s[i]}
  <1>1. /\ F[0] = <<>>
        /\ \A n \in 1..Len(s) : F[n] = IF marked[n] THEN Append(F[n - 1], s[n]) ELSE F[n - 1]
        /\ \A n \in 0..Len(s) : F[n] \in Seq(S)
    BY KeptUnfolds
  <1>. HIDE DEF F
  <1>2. 0 \in P
    BY <1>1
  <1>3. ASSUME NEW n \in 1..Len(s), n - 1 \in P PROVE n \in P
    <2>0. /\ \A k \in 1..Len(F[n - 1]) : \E i \in 1..(n - 1) : marked[i] /\ F[n - 1][k] = s[i]
          /\ \A i \in 1..(n - 1) : marked[i] => \E k \in 1..Len(F[n - 1]) : F[n - 1][k] = s[i]
      BY <1>3
    <2>1. F[n - 1] \in Seq(S) /\ s[n] \in S /\ n \in Nat /\ Len(F[n - 1]) \in Nat /\ n \in 0..Len(s)
      BY <1>1, Len(s) \in Nat
    <2>2. CASE marked[n]
      <3>1. F[n] = Append(F[n - 1], s[n])
        BY <1>1, <2>2
      <3>2. /\ Len(F[n]) = Len(F[n - 1]) + 1
            /\ F[n][Len(F[n])] = s[n]
            /\ \A k \in 1..Len(F[n - 1]) : F[n][k] = F[n - 1][k]
        BY <2>1, <3>1
      <3>3. ASSUME NEW k \in 1..Len(F[n]) PROVE \E i \in 1..n : marked[i] /\ F[n][k] = s[i]
        <4>1. CASE k = Len(F[n])
          BY <2>1, <2>2, <3>2, <4>1
        <4>2. CASE k # Len(F[n])
          <5>1. k \in 1..Len(F[n - 1]) /\ F[n][k] = F[n - 1][k]
            BY <2>1, <3>2, <4>2
          <5>2. PICK i \in 1..(n - 1) : marked[i] /\ F[n - 1][k] = s[i]
            BY <2>0, <5>1
          <5>3. i \in 1..n
            BY <2>1
          <5>4. QED
            BY <5>1, <5>2, <5>3
        <4>3. QED
          BY <4>1, <4>2
      <3>4. ASSUME NEW i \in 1..n, marked[i] PROVE \E k \in 1..Len(F[n]) : F[n][k] = s[i]
        <4>1. CASE i = n
          <5>1. Len(F[n]) \in 1..Len(F[n])
            BY <2>1, <3>2
          <5>2. QED
            BY <3>2, <4>1, <5>1
        <4>2. CASE i # n
          <5>1. i \in 1..(n - 1)
            BY <2>1, <4>2
          <5>2. PICK k \in 1..Len(F[n - 1]) : F[n - 1][k] = s[i]
            BY <2>0, <3>4, <5>1
          <5>3. k \in 1..Len(F[n]) /\ F[n][k] = s[i]
            BY <2>1, <3>2, <5>2
          <5>4. QED
            BY <5>3
        <4>3. QED
          BY <4>1, <4>2
      <3>5. QED
        BY <2>1, <3>3, <3>4
    <2>3. CASE ~marked[n]
      <3>1. F[n] = F[n - 1]
        BY <1>1, <2>3
      <3>2. ASSUME NEW k \in 1..Len(F[n]) PROVE \E i \in 1..n : marked[i] /\ F[n][k] = s[i]
        <4>1. PICK i \in 1..(n - 1) : marked[i] /\ F[n][k] = s[i]
          BY <2>0, <3>1
        <4>2. i \in 1..n
          BY <2>1
        <4>3. QED
          BY <4>1, <4>2
      <3>3. ASSUME NEW i \in 1..n, marked[i] PROVE \E k \in 1..Len(F[n]) : F[n][k] = s[i]
        <4>1. i \in 1..(n - 1)
          BY <2>1, <2>3, <3>3
        <4>2. QED
          BY <2>0, <3>1, <3>3, <4>1
      <3>4. QED
        BY <2>1, <3>2, <3>3
    <2>4. QED
      BY <2>2, <2>3
  <1>4. Len(s) \in P /\ Len(s) \in Nat
    <2>1. Len(s) \in Nat
      OBVIOUS
    <2>. DEFINE N == Len(s)
    <2>2. N \in Nat /\ 0 \in P /\ \A n \in 1..N : n - 1 \in P => n \in P
      BY <1>2, <1>3, <2>1
    <2>. HIDE DEF P, N
    <2>3. \A n \in 0..N : n \in P
      BY <2>2, Induction
    <2>4. N \in 0..N
      BY <2>2
    <2>5. QED
      BY <2>1, <2>3, <2>4 DEF N
  <1>5. Kept(s, marked) = F[Len(s)]
    BY KeptByBeginnings DEF F
  <1>6. QED
    BY <1>1, <1>4, <1>5

\* A sequence without one member.
LEMMA Without ==
    ASSUME NEW S, NEW s \in Seq(S), NEW k \in 1..Len(s)
    PROVE  /\ RemoveAt(s, k) \in Seq(S) /\ Len(RemoveAt(s, k)) = Len(s) - 1 /\ Len(s) - 1 \in Nat
           /\ \A i \in 1..(Len(s) - 1) : RemoveAt(s, k)[i] = s[IF i < k THEN i ELSE i + 1]
  <1>. DEFINE u == SubSeq(s, 1, k - 1)
              v == SubSeq(s, k + 1, Len(s))
  <1>0. Len(s) \in Nat /\ k \in Nat /\ k >= 1 /\ k <= Len(s) /\ \A i \in 1..Len(s) : s[i] \in S
    OBVIOUS
  <1>1. u \in Seq(S) /\ Len(u) = k - 1 /\ \A i \in 1..(k - 1) : u[i] = s[i]
    <2>1. \A i \in 1..(k - 1) : s[i] \in S
      BY <1>0
    <2>2. u \in Seq(S) /\ Len(u) = (IF 1 <= k - 1 THEN k - 1 - 1 + 1 ELSE 0)
          /\ \A i \in 1..(k - 1 - 1 + 1) : u[i] = s[1 + i - 1]
      BY <1>0, <2>1, SubSeqProperties, 1 \in Int, k - 1 \in Int
    <2>. HIDE DEF u
    <2>3. QED
      BY <1>0, <2>2
  <1>2. v \in Seq(S) /\ Len(v) = Len(s) - k /\ \A i \in 1..(Len(s) - k) : v[i] = s[k + i]
    <2>1. \A i \in (k + 1)..Len(s) : s[i] \in S
      BY <1>0
    <2>2. v \in Seq(S) /\ Len(v) = (IF k + 1 <= Len(s) THEN Len(s) - (k + 1) + 1 ELSE 0)
          /\ \A i \in 1..(Len(s) - (k + 1) + 1) : v[i] = s[(k + 1) + i - 1]
      BY <1>0, <2>1, SubSeqProperties, Len(s) \in Int, k + 1 \in Int
    <2>. HIDE DEF v
    <2>3. QED
      BY <1>0, <2>2
  <1>3. /\ u \o v \in Seq(S) /\ Len(u \o v) = Len(u) + Len(v)
        /\ \A i \in 1..(Len(u) + Len(v)) : (u \o v)[i] = IF i <= Len(u) THEN u[i] ELSE v[i - Len(u)]
    BY <1>1, <1>2, ConcatProperties
  <1>4. RemoveAt(s, k) = u \o v
    BY DEF RemoveAt
  <1>. HIDE DEF u, v
  <1>5. ASSUME NEW i \in 1..(Len(s) - 1) PROVE (u \o v)[i] = s[IF i < k THEN i ELSE i + 1]
    <2>1. CASE i < k
      BY <1>0, <1>1, <1>2, <1>3, <2>1
    <2>2. CASE i >= k
      <3>1. (u \o v)[i] = v[i - (k - 1)] /\ i - (k - 1) \in 1..(Len(s) - k)
        BY <1>0, <1>1, <1>2, <1>3, <2>2
      <3>2. v[i - (k - 1)] = s[k + (i - (k - 1))] /\ k + (i - (k - 1)) = i + 1
        BY <1>0, <1>2, <3>1
      <3>3. (IF i < k THEN i ELSE i + 1) = i + 1
        BY <1>0, <2>2
      <3>4. QED
        BY <3>1, <3>2, <3>3
    <2>3. i < k \/ i >= k
      BY <1>0
    <2>4. QED
      BY <2>1, <2>2, <2>3
  <1>6. QED
    BY <1>0, <1>1, <1>2, <1>3, <1>4, <1>5

\* Removing a member that is not kept.
LEMMA KeptWithout ==
    ASSUME NEW S, NEW s \in Seq(S), NEW k \in 1..Len(s), NEW marked, NEW rest, ~marked[k],
           \A i \in 1..(Len(s) - 1) : rest[i] <=> marked[IF i < k THEN i ELSE i + 1]
    PROVE  Kept(RemoveAt(s, k), rest) = Kept(s, marked)
  <1>. DEFINE t == RemoveAt(s, k)
              F == KeptUpTo(s, marked)
              G == KeptUpTo(t, rest)
              P == {n \in 0..(Len(s) - 1) : G[n] = F[IF n < k THEN n ELSE n + 1]}
  <1>0. /\ t \in Seq(S) /\ Len(t) = Len(s) - 1 /\ Len(s) - 1 \in Nat
        /\ \A i \in 1..(Len(s) - 1) : t[i] = s[IF i < k THEN i ELSE i + 1]
    BY Without
  <1>. HIDE DEF t
  <1>1. /\ F[0] = <<>>
        /\ \A n \in 1..Len(s) : F[n] = IF marked[n] THEN Append(F[n - 1], s[n]) ELSE F[n - 1]
    BY KeptUnfolds
  <1>2. /\ G[0] = <<>>
        /\ \A n \in 1..(Len(s) - 1) : G[n] = IF rest[n] THEN Append(G[n - 1], t[n]) ELSE G[n - 1]
    BY <1>0, KeptUnfolds
  <1>. HIDE DEF F, G
  <1>3. F[k] = F[k - 1]
    BY <1>1
  <1>4. 0 \in P
    BY <1>0, <1>1, <1>2
  <1>5. ASSUME NEW n \in 1..(Len(s) - 1), n - 1 \in P PROVE n \in P
    <2>1. G[n] = IF rest[n] THEN Append(G[n - 1], t[n]) ELSE G[n - 1]
      BY <1>2
    <2>2. CASE n < k
      <3>1. /\ G[n - 1] = F[n - 1] /\ t[n] = s[n] /\ (rest[n] <=> marked[n])
            /\ F[n] = IF marked[n] THEN Append(F[n - 1], s[n]) ELSE F[n - 1]
        <4>1. n \in 1..Len(s) /\ n - 1 < k
          BY <1>0, <2>2
        <4>2. G[n - 1] = F[n - 1]
          BY <1>5, <4>1
        <4>3. t[n] = s[n]
          BY <1>0, <2>2
        <4>4. rest[n] <=> marked[n]
          BY <2>2
        <4>5. F[n] = IF marked[n] THEN Append(F[n - 1], s[n]) ELSE F[n - 1]
          BY <1>1, <4>1
        <4>6. QED
          BY <4>2, <4>3, <4>4, <4>5
      <3>2. G[n] = F[n]
        BY <2>1, <3>1
      <3>3. QED
        BY <2>2, <3>2
    <2>3. CASE n >= k
      <3>1. /\ G[n - 1] = F[n] /\ t[n] = s[n + 1] /\ (rest[n] <=> marked[n + 1])
            /\ F[n + 1] = IF marked[n + 1] THEN Append(F[n], s[n + 1]) ELSE F[n]
        <4>1. n + 1 \in 1..Len(s) /\ (n + 1) - 1 = n
          BY <1>0
        <4>2. G[n - 1] = F[n]
          <5>1. G[n - 1] = F[IF n - 1 < k THEN n - 1 ELSE n]
            BY <1>5
          <5>2. CASE n = k
            BY <1>3, <5>1, <5>2
          <5>3. CASE n # k
            <6>1. ~ (n - 1 < k)
              BY <2>3, <5>3
            <6>2. QED
              BY <5>1, <6>1
          <5>4. QED
            BY <5>2, <5>3
        <4>3. t[n] = s[n + 1]
          BY <1>0, <2>3
        <4>4. rest[n] <=> marked[n + 1]
          BY <2>3
        <4>5. F[n + 1] = IF marked[n + 1] THEN Append(F[n], s[n + 1]) ELSE F[n]
          BY <1>1, <4>1
        <4>6. QED
          BY <4>2, <4>3, <4>4, <4>5
      <3>2. G[n] = F[n + 1]
        BY <2>1, <3>1
      <3>3. QED
        BY <2>3, <3>2
    <2>4. QED
      BY <2>2, <2>3
  <1>6. \A n \in 0..(Len(s) - 1) : n \in P
    <2>. HIDE DEF P
    <2>1. QED
      BY <1>0, <1>4, <1>5, Induction
  <1>7. G[Len(s) - 1] = F[Len(s)]
    BY <1>0, <1>3, <1>6
  <1>8. QED
    BY <1>0, <1>7, KeptByBeginnings DEF F, G, t

\* The filters of two sequences with the same marks have their members from the same places.
LEMMA KeptAlike ==
    ASSUME NEW S, NEW s \in Seq(S), NEW T, NEW t \in Seq(T), Len(s) = Len(t),
           NEW marked, NEW marks, \A i \in 1..Len(s) : marked[i] <=> marks[i]
    PROVE  /\ Len(Kept(t, marks)) = Len(Kept(s, marked))
           /\ \A k \in 1..Len(Kept(s, marked)) : \E i \in 1..Len(s) :
                 marked[i] /\ Kept(s, marked)[k] = s[i] /\ Kept(t, marks)[k] = t[i]
  <1>. DEFINE F == KeptUpTo(s, marked)
              G == KeptUpTo(t, marks)
              P == {n \in 0..Len(s) :
                      /\ Len(G[n]) = Len(F[n])
                      /\ \A k \in 1..Len(F[n]) : \E i \in 1..n : marked[i] /\ F[n][k] = s[i] /\ G[n][k] = t[i]}
  <1>1. /\ F[0] = <<>>
        /\ \A n \in 1..Len(s) : F[n] = IF marked[n] THEN Append(F[n - 1], s[n]) ELSE F[n - 1]
        /\ \A n \in 0..Len(s) : F[n] \in Seq(S)
    BY KeptUnfolds
  <1>2. /\ G[0] = <<>>
        /\ \A n \in 1..Len(t) : G[n] = IF marks[n] THEN Append(G[n - 1], t[n]) ELSE G[n - 1]
        /\ \A n \in 0..Len(t) : G[n] \in Seq(T)
    BY KeptUnfolds
  <1>. HIDE DEF F, G
  <1>3. 0 \in P
    BY <1>1, <1>2
  <1>4. ASSUME NEW n \in 1..Len(s), n - 1 \in P PROVE n \in P
    <2>0. /\ Len(G[n - 1]) = Len(F[n - 1])
          /\ \A k \in 1..Len(F[n - 1]) : \E i \in 1..(n - 1) :
                marked[i] /\ F[n - 1][k] = s[i] /\ G[n - 1][k] = t[i]
      BY <1>4
    <2>1. /\ F[n - 1] \in Seq(S) /\ s[n] \in S /\ G[n - 1] \in Seq(T) /\ t[n] \in T
          /\ Len(F[n - 1]) \in Nat /\ n \in Nat /\ n \in 0..Len(s)
      BY <1>1, <1>2, Len(s) \in Nat
    <2>2. CASE marked[n]
      <3>1. F[n] = Append(F[n - 1], s[n]) /\ G[n] = Append(G[n - 1], t[n])
        BY <1>1, <1>2, <2>2
      <3>2. /\ Len(F[n]) = Len(F[n - 1]) + 1 /\ Len(G[n]) = Len(F[n - 1]) + 1
            /\ F[n][Len(F[n - 1]) + 1] = s[n] /\ G[n][Len(F[n - 1]) + 1] = t[n]
            /\ \A k \in 1..Len(F[n - 1]) : F[n][k] = F[n - 1][k] /\ G[n][k] = G[n - 1][k]
        BY <2>0, <2>1, <3>1
      <3>3. ASSUME NEW k \in 1..Len(F[n])
            PROVE  \E i \in 1..n : marked[i] /\ F[n][k] = s[i] /\ G[n][k] = t[i]
        <4>1. CASE k = Len(F[n])
          BY <2>1, <2>2, <3>2, <4>1
        <4>2. CASE k # Len(F[n])
          <5>1. k \in 1..Len(F[n - 1]) /\ F[n][k] = F[n - 1][k] /\ G[n][k] = G[n - 1][k]
            BY <2>1, <3>2, <4>2
          <5>2. PICK i \in 1..(n - 1) : marked[i] /\ F[n - 1][k] = s[i] /\ G[n - 1][k] = t[i]
            BY <2>0, <5>1
          <5>3. i \in 1..n
            BY <2>1
          <5>4. QED
            BY <5>1, <5>2, <5>3
        <4>3. QED
          BY <4>1, <4>2
      <3>4. QED
        BY <2>1, <3>2, <3>3
    <2>3. CASE ~marked[n]
      <3>1. F[n] = F[n - 1] /\ G[n] = G[n - 1]
        BY <1>1, <1>2, <2>3
      <3>2. ASSUME NEW k \in 1..Len(F[n])
            PROVE  \E i \in 1..n : marked[i] /\ F[n][k] = s[i] /\ G[n][k] = t[i]
        <4>0. k \in 1..Len(F[n - 1])
          BY <3>1
        <4>1. PICK i \in 1..(n - 1) : marked[i] /\ F[n - 1][k] = s[i] /\ G[n - 1][k] = t[i]
          BY <2>0, <4>0
        <4>2. i \in 1..n
          BY <2>1
        <4>3. QED
          BY <3>1, <4>1, <4>2
      <3>3. QED
        BY <2>0, <2>1, <3>1, <3>2
    <2>4. QED
      BY <2>2, <2>3
  <1>5. \A n \in 0..Len(s) : n \in P
    <2>. HIDE DEF P
    <2>1. QED
      BY <1>3, <1>4, Len(s) \in Nat, Induction
  <1>6. Kept(s, marked) = F[Len(s)] /\ Kept(t, marks) = G[Len(s)]
    BY KeptByBeginnings DEF F, G
  <1>7. QED
    BY <1>5, <1>6, Len(s) \in Nat

\* Changing members that are not kept.
LEMMA KeptSame ==
    ASSUME NEW S, NEW s \in Seq(S), NEW T, NEW t \in Seq(T), Len(s) = Len(t),
           NEW marked, NEW marks, \A i \in 1..Len(s) : (marked[i] <=> marks[i]) /\ (marked[i] => s[i] = t[i])
    PROVE  Kept(s, marked) = Kept(t, marks)
  <1>1. Kept(s, marked) \in Seq(S) /\ Kept(t, marks) \in Seq(T)
    BY KeptMembers
  <1>2. /\ Len(Kept(t, marks)) = Len(Kept(s, marked))
        /\ \A k \in 1..Len(Kept(s, marked)) : Kept(s, marked)[k] = Kept(t, marks)[k]
    BY KeptAlike
  <1>3. QED
    BY <1>1, <1>2

\* What a recursion on the numbers up to N defines: from first, step by step, in a set V.
Recursive(N, V, first, Step) ==
    \E f \in [0..N -> V] : f[0] = first /\ \A n \in 1..N : f[n] = Step[n][f[n - 1]]

\* A definition by recursion on the numbers up to N has a solution, where its step keeps to
\* a set V.
LEMMA Recursion ==
    ASSUME NEW N \in Nat, NEW V, NEW first \in V, NEW Step, \A v \in V, n \in 1..N : Step[n][v] \in V
    PROVE  Recursive(N, V, first, Step)
  <1>. DEFINE Solves(f, m) == f \in [0..m -> V] /\ f[0] = first /\ \A n \in 1..m : f[n] = Step[n][f[n - 1]]
              P == {m \in 0..N : \E f : Solves(f, m)}
  <1>1. 0 \in P
    <2>. DEFINE f == [k \in 0..0 |-> first]
    <2>1. Solves(f, 0)
      OBVIOUS
    <2>2. 0 \in 0..N
      OBVIOUS
    <2>. HIDE DEF f, Solves
    <2>3. QED
      BY <2>1, <2>2
  <1>2. ASSUME NEW m \in 1..N, m - 1 \in P PROVE m \in P
    <2>1. PICK f : Solves(f, m - 1)
      BY <1>2
    <2>2. f[m - 1] \in V /\ m \in Nat /\ m >= 1
      BY <2>1
    <2>3. Step[m][f[m - 1]] \in V
      BY <2>2
    <2>. DEFINE g == [k \in 0..m |-> IF k = m THEN Step[m][f[m - 1]] ELSE f[k]]
    <2>4. g \in [0..m -> V]
      BY <2>1, <2>2, <2>3
    <2>5. g[0] = first /\ g[m] = Step[m][g[m - 1]]
      BY <2>1, <2>2
    <2>6. ASSUME NEW k \in 1..m, k # m PROVE g[k] = Step[k][g[k - 1]]
      <3>1. k \in 1..(m - 1) /\ g[k] = f[k] /\ g[k - 1] = f[k - 1]
        BY <2>2, <2>6
      <3>2. QED
        BY <2>1, <3>1
    <2>7. Solves(g, m)
      <3>. HIDE DEF g
      <3>1. QED
        BY <2>4, <2>5, <2>6
    <2>8. QED
      <3>. HIDE DEF g, Solves
      <3>1. QED
        BY <2>7
  <1>3. \A m \in 0..N : m \in P
    <2>. HIDE DEF P
    <2>1. QED
      BY <1>1, <1>2, Induction
  <1>4. QED
    BY <1>3 DEF Recursive

\* A filter has as many members as are marked.
LEMMA KeptCount ==
    ASSUME NEW S, NEW s \in Seq(S), NEW marked
    PROVE  /\ IsFiniteSet({i \in 1..Len(s) : marked[i]})
           /\ Len(Kept(s, marked)) = Cardinality({i \in 1..Len(s) : marked[i]})
           /\ Len(Kept(s, marked)) \in Nat
  <1>. DEFINE F == KeptUpTo(s, marked)
              M(n) == {i \in 1..n : marked[i]}
              P == {n \in 0..Len(s) : IsFiniteSet(M(n)) /\ Len(F[n]) = Cardinality(M(n))}
  <1>0. Len(s) \in Nat
    OBVIOUS
  <1>1. /\ F[0] = <<>>
        /\ \A n \in 1..Len(s) : F[n] = IF marked[n] THEN Append(F[n - 1], s[n]) ELSE F[n - 1]
        /\ \A n \in 0..Len(s) : F[n] \in Seq(S)
    BY KeptUnfolds
  <1>. HIDE DEF F
  <1>2. 0 \in P
    <2>1. M(0) = {} /\ 0 \in 0..Len(s)
      BY <1>0
    <2>2. Len(F[0]) = 0
      BY <1>1
    <2>. HIDE DEF M
    <2>3. QED
      BY <2>1, <2>2, FS_EmptySet
  <1>3. ASSUME NEW n \in 1..Len(s), n - 1 \in P PROVE n \in P
    <2>1. n \in 0..Len(s) /\ F[n - 1] \in Seq(S) /\ s[n] \in S /\ IsFiniteSet(M(n - 1))
          /\ Len(F[n - 1]) = Cardinality(M(n - 1))
      BY <1>0, <1>1, <1>3
    <2>2. CASE marked[n]
      <3>1. M(n) = M(n - 1) \union {n} /\ n \notin M(n - 1)
        BY <2>2
      <3>2. F[n] = Append(F[n - 1], s[n])
        BY <1>1, <2>2
      <3>. HIDE DEF M, P
      <3>3. Len(F[n]) = Len(F[n - 1]) + 1
        BY <2>1, <3>2
      <3>4. IsFiniteSet(M(n - 1) \union {n}) /\ Cardinality(M(n - 1) \union {n}) = Cardinality(M(n - 1)) + 1
        BY <2>1, <3>1, FS_AddElement
      <3>. USE DEF P
      <3>5. QED
        BY <2>1, <3>1, <3>3, <3>4
    <2>3. CASE ~marked[n]
      <3>1. M(n) = M(n - 1)
        BY <2>3
      <3>2. F[n] = F[n - 1]
        BY <1>1, <2>3
      <3>. HIDE DEF M
      <3>3. QED
        BY <2>1, <3>1, <3>2
    <2>4. QED
      BY <2>2, <2>3
  <1>4. Len(s) \in P
    <2>. HIDE DEF P
    <2>1. \A n \in 0..Len(s) : n \in P
      BY <1>0, <1>2, <1>3, Induction
    <2>2. QED
      BY <1>0, <2>1
  <1>5. Kept(s, marked) = F[Len(s)]
    BY KeptByBeginnings DEF F
  <1>6. QED
    <2>. HIDE DEF F
    <2>1. QED
      BY <1>0, <1>1, <1>4, <1>5

\* The first of the places of the least, and of the most, of some numbers.
LEMMA FirstLeast ==
    ASSUME NEW N \in Nat \ {0}, NEW f, \A i \in 1..N : f[i] \in Nat
    PROVE  \E i \in 1..N : \A j \in 1..N : f[i] < f[j] \/ (f[i] = f[j] /\ i <= j)
  <1>. DEFINE T == {f[i] : i \in 1..N}
  <1>1. T \in SUBSET Nat /\ T # {}
    OBVIOUS
  <1>2. PICK m \in T : \A n \in T : m <= n
    <2>. HIDE DEF T
    <2>1. QED
      BY <1>1, LeastNumber
  <1>. DEFINE U == {i \in 1..N : f[i] = m}
  <1>3. U \in SUBSET Nat /\ U # {}
    BY <1>2
  <1>4. PICK k \in U : \A n \in U : k <= n
    <2>. HIDE DEF U
    <2>1. QED
      BY <1>3, LeastNumber
  <1>5. k \in 1..N /\ f[k] = m
    BY <1>4
  <1>6. ASSUME NEW j \in 1..N PROVE f[k] < f[j] \/ (f[k] = f[j] /\ k <= j)
    <2>1. f[j] \in T /\ m <= f[j] /\ f[j] \in Nat /\ m \in Nat
      BY <1>1, <1>2
    <2>2. f[j] = m => k <= j
      BY <1>4
    <2>3. QED
      BY <1>5, <2>1, <2>2
  <1>7. QED
    BY <1>5, <1>6

LEMMA FirstMost ==
    ASSUME NEW N \in Nat \ {0}, NEW f, NEW M \in Nat, \A i \in 1..N : f[i] \in 0..M
    PROVE  \E i \in 1..N : \A j \in 1..N : f[i] > f[j] \/ (f[i] = f[j] /\ i <= j)
  <1>. DEFINE g == [i \in 1..N |-> M - f[i]]
  <1>1. \A i \in 1..N : g[i] \in Nat
    OBVIOUS
  <1>2. PICK i \in 1..N : \A j \in 1..N : g[i] < g[j] \/ (g[i] = g[j] /\ i <= j)
    <2>. HIDE DEF g
    <2>1. QED
      BY <1>1, FirstLeast
  <1>3. \A j \in 1..N : f[i] > f[j] \/ (f[i] = f[j] /\ i <= j)
    <2>1. TAKE j \in 1..N
    <2>2. g[i] = M - f[i] /\ g[j] = M - f[j] /\ f[i] \in Int /\ f[j] \in Int
      OBVIOUS
    <2>. HIDE DEF g
    <2>3. QED
      BY <1>2, <2>2
  <1>4. QED
    BY <1>3

-----------------------------------------------------------------------------
(* The events of a type                                                    *)

LEMMA OfMembers ==
    ASSUME NEW S, NEW log \in Seq(S), NEW type
    PROVE  /\ Of(log, type) \in Seq(S) /\ Len(Of(log, type)) \in Nat
           /\ \A k \in 1..Len(Of(log, type)) :
                 \E i \in 1..Len(log) : log[i].type = type /\ Of(log, type)[k] = log[i]
           /\ \A i \in 1..Len(log) : log[i].type = type =>
                 \E k \in 1..Len(Of(log, type)) : Of(log, type)[k] = log[i]
  <1>. DEFINE marked == [i \in DOMAIN log |-> log[i].type = type]
  <1>1. Of(log, type) = Kept(log, marked)
    BY DEF Of, Where
  <1>2. \A i \in 1..Len(log) : marked[i] = (log[i].type = type)
    OBVIOUS
  <1>. HIDE DEF marked
  <1>3. Kept(log, marked) \in Seq(S)
    BY KeptMembers
  <1>8. \A k \in 1..Len(Kept(log, marked)) : \E i \in 1..Len(log) : marked[i] /\ Kept(log, marked)[k] = log[i]
    BY KeptMembers
  <1>9. \A i \in 1..Len(log) : marked[i] => \E k \in 1..Len(Kept(log, marked)) : Kept(log, marked)[k] = log[i]
    BY KeptMembers
  <1>4. Of(log, type) \in Seq(S) /\ Len(Of(log, type)) \in Nat
    BY <1>1, <1>3
  <1>5. ASSUME NEW k \in 1..Len(Of(log, type))
        PROVE  \E i \in 1..Len(log) : log[i].type = type /\ Of(log, type)[k] = log[i]
    <2>1. PICK i \in 1..Len(log) : marked[i] /\ Kept(log, marked)[k] = log[i]
      BY <1>1, <1>8
    <2>2. QED
      BY <1>1, <1>2, <2>1
  <1>6. \A i \in 1..Len(log) : log[i].type = type =>
           \E k \in 1..Len(Of(log, type)) : Of(log, type)[k] = log[i]
    BY <1>1, <1>2, <1>9
  <1>7. QED
    BY <1>4, <1>5, <1>6

LEMMA OfWithout ==
    ASSUME NEW S, NEW log \in Seq(S), NEW k \in 1..Len(log), NEW type, log[k].type # type
    PROVE  Of(RemoveAt(log, k), type) = Of(log, type)
  <1>. DEFINE t == RemoveAt(log, k)
              marked == [i \in DOMAIN log |-> log[i].type = type]
              rest == [i \in DOMAIN t |-> t[i].type = type]
  <1>1. Of(log, type) = Kept(log, marked) /\ Of(t, type) = Kept(t, rest)
    BY DEF Of, Where
  <1>2. /\ t \in Seq(S) /\ Len(t) = Len(log) - 1 /\ Len(log) - 1 \in Nat
        /\ \A i \in 1..(Len(log) - 1) : t[i] = log[IF i < k THEN i ELSE i + 1]
    BY Without
  <1>3. \A i \in 1..Len(log) : marked[i] = (log[i].type = type)
    OBVIOUS
  <1>4. \A i \in 1..(Len(log) - 1) : rest[i] = (t[i].type = type)
    <2>. HIDE DEF t
    <2>1. QED
      BY <1>2
  <1>. HIDE DEF t, marked, rest
  <1>5. ASSUME NEW i \in 1..(Len(log) - 1) PROVE rest[i] <=> marked[IF i < k THEN i ELSE i + 1]
    <2>. DEFINE j == IF i < k THEN i ELSE i + 1
    <2>1. j \in 1..Len(log) /\ t[i] = log[j]
      BY <1>2
    <2>. HIDE DEF j
    <2>2. rest[i] <=> marked[j]
      BY <1>3, <1>4, <2>1
    <2>3. QED
      BY <2>2 DEF j
  <1>6. ~marked[k]
    BY <1>3
  <1>7. Kept(t, rest) = Kept(log, marked)
    BY <1>5, <1>6, KeptWithout DEF t
  <1>8. QED
    BY <1>1, <1>7 DEF t

LEMMA OfAlike ==
    ASSUME NEW S, NEW log \in Seq(S), NEW T, NEW t \in Seq(T), Len(log) = Len(t), NEW type,
           \A i \in 1..Len(log) : log[i].type = t[i].type
    PROVE  /\ Len(Of(t, type)) = Len(Of(log, type))
           /\ \A k \in 1..Len(Of(log, type)) : \E i \in 1..Len(log) :
                 log[i].type = type /\ Of(log, type)[k] = log[i] /\ Of(t, type)[k] = t[i]
  <1>. DEFINE marked == [i \in DOMAIN log |-> log[i].type = type]
              marks == [i \in DOMAIN t |-> t[i].type = type]
  <1>1. Of(log, type) = Kept(log, marked) /\ Of(t, type) = Kept(t, marks)
    BY DEF Of, Where
  <1>2. \A i \in 1..Len(log) : marked[i] = (log[i].type = type) /\ marks[i] = (t[i].type = type)
    OBVIOUS
  <1>. HIDE DEF marked, marks
  <1>3. \A i \in 1..Len(log) : marked[i] <=> marks[i]
    BY <1>2
  <1>4. /\ Len(Kept(t, marks)) = Len(Kept(log, marked))
        /\ \A k \in 1..Len(Kept(log, marked)) : \E i \in 1..Len(log) :
                 marked[i] /\ Kept(log, marked)[k] = log[i] /\ Kept(t, marks)[k] = t[i]
    BY <1>3, KeptAlike
  <1>5. ASSUME NEW k \in 1..Len(Of(log, type))
        PROVE  \E i \in 1..Len(log) : log[i].type = type /\ Of(log, type)[k] = log[i] /\ Of(t, type)[k] = t[i]
    <2>1. PICK i \in 1..Len(log) : marked[i] /\ Kept(log, marked)[k] = log[i] /\ Kept(t, marks)[k] = t[i]
      BY <1>1, <1>4
    <2>2. QED
      BY <1>1, <1>2, <2>1
  <1>6. QED
    BY <1>1, <1>4, <1>5

LEMMA OfSame ==
    ASSUME NEW S, NEW log \in Seq(S), NEW T, NEW t \in Seq(T), Len(log) = Len(t), NEW type,
           \A i \in 1..Len(log) : log[i].type = t[i].type /\ (log[i].type = type => log[i] = t[i])
    PROVE  Of(t, type) = Of(log, type)
  <1>1. Of(log, type) \in Seq(S) /\ Of(t, type) \in Seq(T)
    BY OfMembers
  <1>2. /\ Len(Of(t, type)) = Len(Of(log, type))
        /\ \A k \in 1..Len(Of(log, type)) : Of(log, type)[k] = Of(t, type)[k]
    BY OfAlike
  <1>3. QED
    BY <1>1, <1>2

\* There are events of a type in a log just where there are some among its events.
LEMMA OfNone ==
    ASSUME NEW S, NEW log \in Seq(S), NEW type
    PROVE  Of(log, type) = <<>> <=> \A i \in 1..Len(log) : log[i].type # type
  <1>1. Of(log, type) \in Seq(S) /\ Len(Of(log, type)) \in Nat
    BY OfMembers
  <1>2. ASSUME Of(log, type) = <<>> PROVE \A i \in 1..Len(log) : log[i].type # type
    <2>1. Len(Of(log, type)) = 0
      BY <1>2
    <2>2. QED
      BY <2>1, OfMembers
  <1>3. ASSUME \A i \in 1..Len(log) : log[i].type # type PROVE Of(log, type) = <<>>
    <2>1. \A k \in 1..Len(Of(log, type)) : FALSE
      BY <1>3, OfMembers
    <2>2. Len(Of(log, type)) = 0
      BY <1>1, <2>1
    <2>3. QED
      BY <1>1, <2>2
  <1>4. QED
    BY <1>2, <1>3

\* The last of the events of a type is one of them.
LEMMA OfLast ==
    ASSUME NEW S, NEW log \in Seq(S), NEW type, Of(log, type) # <<>>
    PROVE  \E i \in 1..Len(log) : log[i].type = type /\ Last(Of(log, type)) = log[i]
  <1>1. Of(log, type) \in Seq(S) /\ Len(Of(log, type)) \in Nat
    BY OfMembers
  <1>2. Len(Of(log, type)) \in 1..Len(Of(log, type))
    BY <1>1
  <1>3. Last(Of(log, type)) = Of(log, type)[Len(Of(log, type))]
    BY DEF Last
  <1>. HIDE DEF Last
  <1>5. \A k \in 1..Len(Of(log, type)) : \E i \in 1..Len(log) : log[i].type = type /\ Of(log, type)[k] = log[i]
    BY OfMembers
  <1>4. PICK i \in 1..Len(log) : log[i].type = type /\ Of(log, type)[Len(Of(log, type))] = log[i]
    BY <1>2, <1>5
  <1>6. QED
    BY <1>3, <1>4

\* Some of the places of a sequence are finitely many.
LEMMA Places ==
    ASSUME NEW S, NEW s \in Seq(S), NEW T \in SUBSET DOMAIN s
    PROVE  IsFiniteSet(T) /\ Cardinality(T) \in Nat /\ Cardinality(T) <= Len(s)
  <1>1. DOMAIN s = 1..Len(s) /\ Len(s) \in Nat
    OBVIOUS
  <1>2. IsFiniteSet(1..Len(s)) /\ Cardinality(1..Len(s)) = Len(s)
    <2>1. IsFiniteSet(1..Len(s)) /\ Cardinality(1..Len(s)) = (IF 1 > Len(s) THEN 0 ELSE Len(s) - 1 + 1)
      BY <1>1, FS_Interval, 1 \in Int, Len(s) \in Int, Zenon
    <2>2. QED
      BY <1>1, <2>1
  <1>3. IsFiniteSet(T) /\ Cardinality(T) <= Cardinality(1..Len(s))
    BY <1>1, <1>2, FS_Subset
  <1>4. QED
    BY <1>2, <1>3, FS_CardinalityType

-----------------------------------------------------------------------------
(* Arithmetic of scores                                                    *)

LEMMA ClampRange ==
    ASSUME NEW lo \in Int, NEW hi \in Int, lo <= hi, NEW x \in Int
    PROVE  Clamp(lo, hi, x) \in lo..hi
  BY DEF Clamp

LEMMA ClampMonotone ==
    ASSUME NEW lo \in Int, NEW hi \in Int, lo <= hi, NEW x \in Int, NEW y \in Int, x <= y
    PROVE  Clamp(lo, hi, x) <= Clamp(lo, hi, y)
  BY DEF Clamp

LEMMA RoundedMonotone ==
    ASSUME NEW d \in Nat \ {0}, NEW m \in Nat, NEW n \in Nat, m <= n
    PROVE  Rounded(m, d) \in Nat /\ Rounded(n, d) \in Nat /\ Rounded(m, d) <= Rounded(n, d)
  <1>1. 2 * d \in Nat \ {0} /\ 2 * m + d \in Nat /\ 2 * n + d \in Nat /\ 2 * m + d <= 2 * n + d
    OBVIOUS
  <1>2. ASSUME NEW a \in Nat, NEW b \in Nat, NEW c \in Nat \ {0}, a <= b
        PROVE  a \div c \in Nat /\ b \div c \in Nat /\ a \div c <= b \div c
    BY <1>2
  <1>3. QED
    BY <1>1, <1>2 DEF Rounded

LEMMA ProductMonotone ==
    ASSUME NEW a \in Nat, NEW b \in Nat, NEW c \in Nat, NEW d \in Nat, a <= b, c <= d
    PROVE  a * c \in Nat /\ b * d \in Nat /\ a * c <= b * d
  <1>1. a * c <= b * c
    OBVIOUS
  <1>2. b * c <= b * d
    OBVIOUS
  <1>3. QED
    BY <1>1, <1>2

\* The score of an axis, or that it does not apply.
Score == Nat \union {NA}

LEMMA NearDuplicatesNat ==
    ASSUME NEW S, NEW prompts \in Seq(S)
    PROVE  NearDuplicates(prompts) \in Nat
  <1>. DEFINE N == Len(prompts)
              Group(acc, i) == {j \in i..N : j \notin acc.used
                                  /\ (j = i \/ <<prompts[i].text, prompts[j].text>> \in Similar)}
              Join(acc, i) ==
                  IF i \notin acc.used /\ Cardinality(Group(acc, i)) >= 3
                  THEN [used |-> acc.used \union Group(acc, i), groups |-> acc.groups + 1] ELSE acc
              V == [used : SUBSET Nat, groups : Nat]
              first == [used |-> {}, groups |-> 0]
              Step == [n \in 1..N |-> [v \in V |-> Join(v, n)]]
              U == CHOOSE f : f = [n \in 0..N |-> IF n = 0 THEN first ELSE Join(f[n - 1], n)]
  <1>1. NearDuplicates(prompts) = U[N].groups
    BY DEF NearDuplicates
  <1>2. N \in Nat
    OBVIOUS
  <1>3. ASSUME NEW v \in V, NEW n \in 1..N PROVE Join(v, n) \in V
    <2>1. Group(v, n) \in SUBSET Nat
      BY <1>2
    <2>. HIDE DEF Group
    <2>2. QED
      BY <2>1
  <1>4. first \in V
    OBVIOUS
  <1>. HIDE DEF Join, V, first, N
  <1>5. \A v \in V, n \in 1..N : Step[n][v] = Join(v, n) /\ Step[n][v] \in V
    BY <1>3
  <1>. HIDE DEF Step
  <1>. HIDE DEF U
  <1>6. PICK f \in [0..N -> V] : f[0] = first /\ \A n \in 1..N : f[n] = Step[n][f[n - 1]]
    <2>1. \A v \in V, n \in 1..N : Step[n][v] \in V
      BY <1>5
    <2>2. Recursive(N, V, first, Step)
      BY <1>2, <1>4, <2>1, Recursion
    <2>3. QED
      BY <2>2 DEF Recursive
  <1>7. ASSUME NEW n \in 0..N PROVE f[n] = IF n = 0 THEN first ELSE Join(f[n - 1], n)
    <2>1. CASE n = 0
      BY <1>6, <2>1
    <2>2. CASE n # 0
      <3>1. n \in 1..N /\ n - 1 \in 0..N
        BY <1>2, <2>2
      <3>2. QED
        BY <1>5, <1>6, <2>2, <3>1
    <2>3. QED
      BY <2>1, <2>2
  <1>8. f = [n \in 0..N |-> IF n = 0 THEN first ELSE Join(f[n - 1], n)]
    BY <1>7
  <1>9. U = [n \in 0..N |-> IF n = 0 THEN first ELSE Join(U[n - 1], n)]
    BY <1>8 DEF U
  <1>. DEFINE P == {n \in 0..N : U[n] \in V}
  <1>10. 0 \in P
    BY <1>2, <1>4, <1>9
  <1>11. ASSUME NEW n \in 1..N, n - 1 \in P PROVE n \in P
    <2>1. n \in 0..N /\ n # 0 /\ U[n - 1] \in V
      BY <1>2, <1>11
    <2>2. U[n] = Join(U[n - 1], n)
      BY <1>9, <2>1
    <2>3. QED
      BY <1>3, <2>1, <2>2
  <1>12. \A n \in 0..N : n \in P
    <2>. HIDE DEF P
    <2>1. QED
      BY <1>2, <1>10, <1>11, Induction
  <1>13. U[N] \in V
    BY <1>2, <1>12
  <1>14. QED
    BY <1>1, <1>13 DEF V

LEMMA SummedUnfolds ==
    ASSUME NEW S, S \subseteq Int, NEW s \in Seq(S)
    PROVE  \E f \in [0..Len(s) -> Int] :
              /\ f[0] = 0 /\ \A n \in 1..Len(s) : f[n] = f[n - 1] + s[n]
              /\ Summed(s) = f[Len(s)]
  <1>. DEFINE N == Len(s)
              Step == [n \in 1..N |-> [v \in Int |-> v + s[n]]]
              U == CHOOSE f : f = [n \in 0..N |-> IF n = 0 THEN 0 ELSE f[n - 1] + s[n]]
  <1>1. Summed(s) = U[N]
    BY DEF Summed
  <1>2. N \in Nat /\ \A n \in 1..N : s[n] \in Int
    <2>1. Len(s) \in Nat /\ \A n \in 1..Len(s) : s[n] \in S
      OBVIOUS
    <2>2. QED
      BY <2>1
  <1>. HIDE DEF N, U
  <1>3. \A v \in Int, n \in 1..N : Step[n][v] = v + s[n] /\ Step[n][v] \in Int
    BY <1>2
  <1>. HIDE DEF Step
  <1>4. PICK f \in [0..N -> Int] : f[0] = 0 /\ \A n \in 1..N : f[n] = Step[n][f[n - 1]]
    <2>1. \A v \in Int, n \in 1..N : Step[n][v] \in Int
      BY <1>3
    <2>2. Recursive(N, Int, 0, Step)
      BY <1>2, <2>1, 0 \in Int, Recursion
    <2>3. QED
      BY <2>2 DEF Recursive
  <1>5. ASSUME NEW n \in 0..N PROVE f[n] = IF n = 0 THEN 0 ELSE f[n - 1] + s[n]
    <2>1. CASE n = 0
      BY <1>4, <2>1
    <2>2. CASE n # 0
      <3>1. n \in 1..N /\ n - 1 \in 0..N
        BY <1>2, <2>2
      <3>2. QED
        BY <1>3, <1>4, <2>2, <3>1
    <2>3. QED
      BY <2>1, <2>2
  <1>6. f = [n \in 0..N |-> IF n = 0 THEN 0 ELSE f[n - 1] + s[n]]
    BY <1>5
  <1>7. U = [n \in 0..N |-> IF n = 0 THEN 0 ELSE U[n - 1] + s[n]]
    BY <1>6 DEF U
  <1>. DEFINE P == {n \in 0..N : U[n] \in Int}
  <1>8. 0 \in P
    BY <1>2, <1>7
  <1>9. ASSUME NEW n \in 1..N, n - 1 \in P PROVE n \in P
    <2>1. n \in 0..N /\ n # 0 /\ U[n - 1] \in Int
      BY <1>2, <1>9
    <2>2. U[n] = U[n - 1] + s[n]
      BY <1>7, <2>1
    <2>3. QED
      BY <1>2, <2>1, <2>2
  <1>10. \A n \in 0..N : n \in P
    <2>. HIDE DEF P
    <2>1. QED
      BY <1>2, <1>8, <1>9, Induction
  <1>11. U \in [0..N -> Int]
    BY <1>7, <1>10
  <1>12. U[0] = 0 /\ \A n \in 1..N : U[n] = U[n - 1] + s[n]
    BY <1>2, <1>7
  <1>13. QED
    BY <1>1, <1>11, <1>12 DEF N

\* The sum of numbers up to M.
LEMMA SummedBounds ==
    ASSUME NEW M \in Nat, NEW s \in Seq(0..M)
    PROVE  Summed(s) \in 0..(M * Len(s))
  <1>1. PICK f \in [0..Len(s) -> Int] :
              /\ f[0] = 0 /\ \A n \in 1..Len(s) : f[n] = f[n - 1] + s[n]
              /\ Summed(s) = f[Len(s)]
    BY SummedUnfolds
  <1>. DEFINE P == {n \in 0..Len(s) : f[n] \in 0..(M * n)}
  <1>2. Len(s) \in Nat /\ \A n \in 1..Len(s) : s[n] \in 0..M
    OBVIOUS
  <1>3. 0 \in P
    BY <1>1, <1>2
  <1>4. ASSUME NEW n \in 1..Len(s), n - 1 \in P PROVE n \in P
    <2>1. f[n] = f[n - 1] + s[n] /\ f[n - 1] \in 0..(M * (n - 1)) /\ s[n] \in 0..M /\ n \in 0..Len(s)
      BY <1>1, <1>2, <1>4
    <2>2. M * (n - 1) + M = M * n
      BY <1>2
    <2>3. QED
      BY <1>2, <2>1, <2>2
  <1>5. \A n \in 0..Len(s) : n \in P
    <2>. HIDE DEF P
    <2>1. QED
      BY <1>2, <1>3, <1>4, Induction
  <1>6. QED
    BY <1>1, <1>2, <1>5

Rates == {NA} \union 0..3

LEMMA KnownLevels ==
    ASSUME NEW levels \in Seq(Rates)
    PROVE  /\ Known(levels) \in Seq(0..3)
           /\ \A i \in 1..Len(levels) : levels[i] # NA => Known(levels) # <<>>
  <1>. DEFINE marked == [i \in DOMAIN levels |-> levels[i] # NA]
  <1>1. Known(levels) = Kept(levels, marked)
    BY DEF Known, Where
  <1>2. \A i \in 1..Len(levels) : marked[i] = (levels[i] # NA) /\ levels[i] \in Rates
    OBVIOUS
  <1>. HIDE DEF marked
  <1>3. Kept(levels, marked) \in Seq(Rates)
    BY KeptMembers
  <1>4. \A k \in 1..Len(Kept(levels, marked)) : \E i \in 1..Len(levels) : marked[i] /\ Kept(levels, marked)[k] = levels[i]
    BY KeptMembers
  <1>5. \A i \in 1..Len(levels) : marked[i] => \E k \in 1..Len(Kept(levels, marked)) : Kept(levels, marked)[k] = levels[i]
    BY KeptMembers
  <1>6. ASSUME NEW k \in 1..Len(Kept(levels, marked)) PROVE Kept(levels, marked)[k] \in 0..3
    <2>1. PICK i \in 1..Len(levels) : marked[i] /\ Kept(levels, marked)[k] = levels[i]
      BY <1>4
    <2>2. levels[i] # NA /\ levels[i] \in Rates
      BY <1>2, <2>1
    <2>3. QED
      BY <2>1, <2>2 DEF Rates
  <1>7. Kept(levels, marked) \in Seq(0..3)
    BY <1>3, <1>6
  <1>8. ASSUME NEW i \in 1..Len(levels), levels[i] # NA PROVE Known(levels) # <<>>
    <2>1. marked[i]
      BY <1>2, <1>8
    <2>2. PICK k \in 1..Len(Kept(levels, marked)) : Kept(levels, marked)[k] = levels[i]
      BY <1>5, <2>1
    <2>3. Len(Kept(levels, marked)) # 0
      BY <1>3, <2>2
    <2>4. QED
      BY <1>1, <1>3, <2>3
  <1>9. QED
    BY <1>1, <1>7, <1>8

\* A mean of numbers up to M is one.
LEMMA MeanRange ==
    ASSUME NEW M \in Nat, NEW n \in Nat \ {0}, NEW x \in 0..(M * n)
    PROVE  x \div n \in 0..M
  <1>1. x \div n \in Int /\ n * (x \div n) <= x /\ x < n * (x \div n) + n
    OBVIOUS
  <1>. DEFINE q == x \div n
  <1>2. q \in Int /\ n * q <= M * n /\ 0 < n * q + n
    BY <1>1
  <1>. HIDE DEF q
  <1>3. ASSUME q > M PROVE FALSE
    <2>1. n * q >= n * (M + 1)
      BY <1>2, <1>3
    <2>2. n * (M + 1) = M * n + n
      OBVIOUS
    <2>3. QED
      BY <1>2, <2>1, <2>2
  <1>4. ASSUME q < 0 PROVE FALSE
    <2>1. n * q <= n * (0 - 1)
      BY <1>2, <1>4
    <2>2. n * (0 - 1) = 0 - n
      OBVIOUS
    <2>3. QED
      BY <1>2, <2>1, <2>2
  <1>5. q \in 0..M
    BY <1>2, <1>3, <1>4
  <1>6. QED
    BY <1>5 DEF q

LEMMA MeanLevelRange ==
    ASSUME NEW levels \in Seq(0..3), levels # <<>>
    PROVE  MeanLevel(levels) \in 0..36
  <1>1. Len(levels) \in Nat \ {0}
    OBVIOUS
  <1>2. Summed(levels) \in 0..(3 * Len(levels))
    BY SummedBounds, 3 \in Nat
  <1>3. 12 * Summed(levels) \in 0..(36 * Len(levels))
    BY <1>1, <1>2
  <1>4. QED
    BY <1>1, <1>3, MeanRange, 36 \in Nat DEF MeanLevel

LEMMA SmallestRange ==
    ASSUME NEW levels \in Seq(0..3), NEW k \in 1..Len(levels)
    PROVE  Smallest(levels, k) \in 0..3
  <1>. DEFINE N == Len(levels)
              UpTo(v) == {i \in DOMAIN levels : levels[i] <= v}
              Below(v) == {i \in DOMAIN levels : levels[i] < v}
              T == {v \in 0..3 : Cardinality(UpTo(v)) >= k}
              Is(v) == Cardinality(Below(v)) < k /\ Cardinality(UpTo(v)) >= k
  <1>1. N \in Nat /\ DOMAIN levels = 1..N /\ \A i \in 1..N : levels[i] \in 0..3
    OBVIOUS
  <1>2. \A v \in Int : UpTo(v) \in SUBSET DOMAIN levels /\ Cardinality(UpTo(v)) \in Nat /\ Cardinality(UpTo(v)) <= N
    <2>1. TAKE v \in Int
    <2>2. UpTo(v) \in SUBSET DOMAIN levels
      OBVIOUS
    <2>. HIDE DEF UpTo
    <2>3. QED
      BY <2>2, Places
  <1>3. 3 \in T
    <2>1. UpTo(3) = 1..N
      BY <1>1
    <2>2. Cardinality(1..N) = (IF 1 > N THEN 0 ELSE N - 1 + 1)
      BY <1>1, FS_Interval, 1 \in Int, N \in Int, Zenon
    <2>. HIDE DEF UpTo, N
    <2>3. Cardinality(UpTo(3)) = N
      BY <1>1, <2>1, <2>2
    <2>4. k \in 1..N
      BY DEF N
    <2>5. QED
      BY <1>1, <2>3, <2>4
  <1>4. T \in SUBSET Nat
    OBVIOUS
  <1>5. PICK m \in T : \A v \in T : m <= v
    <2>. HIDE DEF T
    <2>1. QED
      BY <1>3, <1>4, LeastNumber
  <1>6. m \in 0..3 /\ Cardinality(UpTo(m)) >= k
    BY <1>5
  <1>7. Cardinality(Below(m)) < k
    <2>1. CASE m = 0
      <3>1. Below(m) = {}
        BY <1>1, <2>1
      <3>. HIDE DEF Below
      <3>2. QED
        BY <3>1, FS_EmptySet
    <2>2. CASE m # 0
      <3>1. m - 1 \in 0..3 /\ m - 1 \notin T
        BY <1>5, <1>6, <2>2
      <3>2. Below(m) = UpTo(m - 1)
        BY <1>1, <1>6, <3>1
      <3>3. ~(Cardinality(UpTo(m - 1)) >= k)
        BY <3>1
      <3>. HIDE DEF Below, UpTo
      <3>4. QED
        BY <1>2, <3>1, <3>2, <3>3
    <2>3. QED
      BY <2>1, <2>2
  <1>8. \E v \in {levels[i] : i \in DOMAIN levels} : Is(v)
    <2>1. CASE \E i \in DOMAIN levels : levels[i] = m
      BY <1>6, <1>7, <2>1
    <2>2. CASE \A i \in DOMAIN levels : levels[i] # m
      <3>1. UpTo(m) = Below(m)
        BY <1>1, <1>6, <2>2
      <3>2. Cardinality(UpTo(m)) \in Nat
        BY <1>2, <1>6
      <3>. HIDE DEF UpTo, Below
      <3>3. QED
        BY <1>6, <1>7, <3>1, <3>2
    <2>3. QED
      BY <2>1, <2>2
  <1>9. Smallest(levels, k) = CHOOSE v \in {levels[i] : i \in DOMAIN levels} : Is(v)
    BY DEF Smallest, Count
  <1>. HIDE DEF Is
  <1>10. Smallest(levels, k) \in {levels[i] : i \in DOMAIN levels}
    BY <1>8, <1>9
  <1>11. QED
    BY <1>1, <1>10

LEMMA MedianLevelRange ==
    ASSUME NEW levels \in Seq(0..3), levels # <<>>
    PROVE  MedianLevel(levels) \in 0..36
  <1>1. Len(levels) \in Nat \ {0}
    OBVIOUS
  <1>2. (Len(levels) + 1) \div 2 \in 1..Len(levels) /\ (Len(levels) + 2) \div 2 \in 1..Len(levels)
    BY <1>1
  <1>3. Smallest(levels, (Len(levels) + 1) \div 2) \in 0..3 /\ Smallest(levels, (Len(levels) + 2) \div 2) \in 0..3
    BY <1>2, SmallestRange
  <1>. DEFINE a == Smallest(levels, (Len(levels) + 1) \div 2)
              b == Smallest(levels, (Len(levels) + 2) \div 2)
  <1>4. MedianLevel(levels) = 6 * (a + b)
    BY DEF MedianLevel
  <1>5. a \in 0..3 /\ b \in 0..3
    BY <1>3
  <1>. HIDE DEF a, b
  <1>6. QED
    BY <1>4, <1>5

LEMMA WorstIs ==
    ASSUME NEW N \in Nat \ {0}, NEW found, DOMAIN found = 1..N, \A i \in 1..N : found[i].level \in Nat
    PROVE  \E i \in 1..N : Worst(found) = found[i] /\ \A j \in 1..N : found[i].level <= found[j].level
  <1>. DEFINE f == [i \in 1..N |-> found[i].level]
              Is(i) == \A j \in DOMAIN found :
                          found[i].level < found[j].level \/ (found[i].level = found[j].level /\ i <= j)
  <1>1. \A i \in 1..N : f[i] = found[i].level /\ f[i] \in Nat
    OBVIOUS
  <1>. HIDE DEF f
  <1>2. PICK i \in 1..N : \A j \in 1..N : f[i] < f[j] \/ (f[i] = f[j] /\ i <= j)
    BY <1>1, FirstLeast
  <1>3. Is(i)
    BY <1>1, <1>2
  <1>. DEFINE k == CHOOSE j \in DOMAIN found : Is(j)
  <1>4. k \in 1..N /\ Is(k)
    <2>. HIDE DEF Is
    <2>1. QED
      BY <1>3
  <1>5. Worst(found) = found[k]
    BY DEF Worst
  <1>. HIDE DEF k
  <1>6. \A j \in 1..N : found[k].level <= found[j].level
    BY <1>4
  <1>7. QED
    BY <1>4, <1>5, <1>6

LEMMA BestIs ==
    ASSUME NEW N \in Nat \ {0}, NEW found, DOMAIN found = 1..N, \A i \in 1..N : found[i].level \in 0..36
    PROVE  \E i \in 1..N : Best(found) = found[i]
  <1>. DEFINE f == [i \in 1..N |-> found[i].level]
              Is(i) == \A j \in DOMAIN found :
                          found[i].level > found[j].level \/ (found[i].level = found[j].level /\ i <= j)
  <1>1. \A i \in 1..N : f[i] = found[i].level /\ f[i] \in 0..36
    OBVIOUS
  <1>. HIDE DEF f
  <1>2. PICK i \in 1..N : \A j \in 1..N : f[i] > f[j] \/ (f[i] = f[j] /\ i <= j)
    BY <1>1, FirstMost, 36 \in Nat
  <1>3. Is(i)
    BY <1>1, <1>2
  <1>. DEFINE k == CHOOSE j \in DOMAIN found : Is(j)
  <1>4. k \in 1..N
    <2>. HIDE DEF Is
    <2>1. QED
      BY <1>3
  <1>5. Best(found) = found[k]
    BY DEF Best
  <1>6. QED
    <2>. HIDE DEF k
    <2>1. QED
      BY <1>4, <1>5

LEMMA ClampMultiplier ==
    ASSUME NEW p \in Nat, NEW f \in Nat
    PROVE  /\ Clamp(40, 100, 100 - 12 * p - 6 * f) \in 40..100
           /\ Clamp(40, 100, 100 - 12 * p - 6 * f) % 3 = 1
  <1>1. (100 - 12 * p - 6 * f) % 3 = 1
    <2>1. 100 - 12 * p - 6 * f = 3 * (33 - 4 * p - 2 * f) + 1
      OBVIOUS
    <2>2. \A k \in Int : (3 * k + 1) % 3 = 1
      OBVIOUS
    <2>3. 33 - 4 * p - 2 * f \in Int
      OBVIOUS
    <2>4. QED
      BY <2>1, <2>2, <2>3
  <1>2. QED
    BY <1>1 DEF Clamp

LEMMA MultiplierRange ==
    ASSUME NEW S, NEW log \in Seq(S)
    PROVE  /\ PasteFlags(log) \in Nat /\ FocusLost(log) \in Nat
           /\ Multiplier(log) \in 40..100 /\ Multiplier(log) % 3 = 1
  <1>. DEFINE T == {i \in DOMAIN log : log[i].type = "BURST_PASTE" \/ log[i].flagged}
  <1>1. PasteFlags(log) = Cardinality(T)
    BY DEF PasteFlags, Count
  <1>2. T \in SUBSET DOMAIN log
    OBVIOUS
  <1>. HIDE DEF T
  <1>3. PasteFlags(log) \in Nat
    BY <1>1, <1>2, Places
  <1>4. FocusLost(log) \in Nat
    BY OfMembers DEF FocusLost
  <1>5. QED
    BY <1>3, <1>4, ClampMultiplier DEF Multiplier

\* An event as it is logged: a stamp, and with some types numbers.
Typed(e) ==
    /\ {"type", "ts", "flagged"} \subseteq DOMAIN e
    /\ e.ts \in Int
    /\ e.type = "RUN" => e.ratio \in Nat
    /\ e.type = "SUBMIT_TESTS" =>
          /\ {"visible", "visibleTotal", "hidden", "hiddenTotal"} \subseteq DOMAIN e
          /\ e.visibleTotal \in Nat \ {0} /\ e.visible \in 0..e.visibleTotal
          /\ e.hiddenTotal \in Nat /\ e.hidden \in 0..e.hiddenTotal
    /\ e.type = "HYPOTHESIS" => e.level \in Rates
    /\ e.type = "JUDGE" => /\ {"kind", "levels"} \subseteq DOMAIN e
                           /\ e.levels \in Seq(Rates) /\ (e.kind = "hypothesis" => e.levels # <<>>)
    /\ e.type = "LOCATE" => e.hints \in Nat
    /\ e.type = "STUDENT_TESTS" => /\ e.written \in Nat /\ e.valid \in Nat /\ e.covered \in Nat
                                   /\ e.wanted \in Nat /\ e.killed \in Nat /\ e.total \in Nat

Readable(log) == \A i \in 1..Len(log) : Typed(log[i])

LEMMA SuiteIs ==
    ASSUME NEW S, NEW log \in Seq(S), Readable(log)
    PROVE  /\ SubmitTests(log).visible \in 0..SubmitTests(log).visibleTotal
           /\ SubmitTests(log).hidden \in 0..SubmitTests(log).hiddenTotal
           /\ SubmitTests(log).visibleTotal \in Nat /\ SubmitTests(log).hiddenTotal \in Nat
           /\ TotalOf(SubmitTests(log)) \in Nat /\ PassedOf(SubmitTests(log)) \in 0..TotalOf(SubmitTests(log))
           /\ Of(log, "SUBMIT_TESTS") # <<>> <=> TotalOf(SubmitTests(log)) > 0
  <1>1. CASE Of(log, "SUBMIT_TESTS") = <<>>
    <2>1. SubmitTests(log) = NoSuite
      BY <1>1 DEF SubmitTests
    <2>2. QED
      BY <1>1, <2>1 DEF NoSuite, TotalOf, PassedOf
  <1>2. CASE Of(log, "SUBMIT_TESTS") # <<>>
    <2>1. PICK i \in 1..Len(log) : log[i].type = "SUBMIT_TESTS" /\ SubmitTests(log) = log[i]
      BY <1>2, OfLast DEF SubmitTests
    <2>2. /\ log[i].visibleTotal \in Nat \ {0} /\ log[i].visible \in 0..log[i].visibleTotal
          /\ log[i].hiddenTotal \in Nat /\ log[i].hidden \in 0..log[i].hiddenTotal
      BY <2>1 DEF Readable, Typed
    <2>. DEFINE suite == SubmitTests(log)
    <2>3. /\ suite.visibleTotal \in Nat \ {0} /\ suite.visible \in 0..suite.visibleTotal
          /\ suite.hiddenTotal \in Nat /\ suite.hidden \in 0..suite.hiddenTotal
      BY <2>1, <2>2
    <2>. HIDE DEF suite
    <2>4. TotalOf(suite) \in Nat \ {0} /\ PassedOf(suite) \in 0..TotalOf(suite)
      BY <2>3 DEF TotalOf, PassedOf
    <2>5. QED
      BY <1>2, <2>3, <2>4 DEF suite
  <1>3. QED
    BY <1>1, <1>2

LEMMA UnderstandingRange ==
    ASSUME NEW S, NEW log \in Seq(S), NEW explain \in Nat
    PROVE  Understanding(log, explain) \in Nat
  <1>. DEFINE prompts == Of(log, "PROMPT")
              T == {i \in DOMAIN prompts : prompts[i].shallow}
  <1>1. prompts \in Seq(S) /\ T \in SUBSET DOMAIN prompts
    BY OfMembers
  <1>2. Shallow(log) = AtMost(4, Cardinality(T))
    BY DEF Shallow, Count
  <1>. HIDE DEF T, prompts
  <1>3. Cardinality(T) \in Nat
    BY <1>1, Places
  <1>4. Shallow(log) \in Int
    BY <1>2, <1>3 DEF AtMost
  <1>5. (90 * explain) \div 100 \in Int
    OBVIOUS
  <1>. DEFINE x == (90 * explain) \div 100 + Points(200, AnyPass(log)) - 200 * Shallow(log) - Points(300, Rushed(log))
  <1>6. x \in Int
    BY <1>4, <1>5 DEF Points
  <1>7. Understanding(log, explain) = Clamp(0, 2000, x)
    BY DEF Understanding
  <1>. HIDE DEF x
  <1>8. QED
    BY <1>6, <1>7 DEF Clamp

LEMMA HypothesisRange ==
    ASSUME NEW S, NEW log \in Seq(S)
    PROVE  Hypothesis(log) \in Nat
  <1>. DEFINE hyps == Of(log, "HYPOTHESIS")
              T == {i \in DOMAIN hyps : hyps[i].correct}
  <1>1. hyps \in Seq(S) /\ T \in SUBSET DOMAIN hyps
    BY OfMembers
  <1>. DEFINE x == 300 + 900 * Cardinality(T) + Points(500, HypothesisBeforeCode(log))
  <1>2. Hypothesis(log) = IF hyps = <<>> THEN 0 ELSE Clamp(0, 2000, x)
    BY DEF Hypothesis, Count
  <1>. HIDE DEF T, hyps
  <1>3. Cardinality(T) \in Nat
    BY <1>1, Places
  <1>4. x \in Int
    BY <1>3 DEF Points
  <1>. HIDE DEF x
  <1>5. Clamp(0, 2000, x) \in Nat
    BY <1>4 DEF Clamp
  <1>6. QED
    BY <1>2, <1>5

LEMMA PromptingRange ==
    ASSUME NEW S, NEW log \in Seq(S)
    PROVE  Prompting(log) \in IF Of(log, "PROMPT") = <<>> THEN {NA} ELSE Nat
  <1>. DEFINE prompts == Of(log, "PROMPT")
              T == {i \in DOMAIN prompts : prompts[i].specific}
              U == {i \in DOMAIN prompts : prompts[i].short}
              V == {i \in DOMAIN prompts : ~prompts[i].constrained}
              top == IF 10 * Cardinality(U) > 3 * Len(prompts) THEN 1200 ELSE 2000
              earned == 1000 + 300 * Specific(log) - 200 * Cardinality(U) - 300 * NearDuplicates(prompts)
                             - 100 * Cardinality(V)
  <1>1. prompts \in Seq(S) /\ T \in SUBSET DOMAIN prompts /\ U \in SUBSET DOMAIN prompts /\ V \in SUBSET DOMAIN prompts
    BY OfMembers
  <1>2. Prompting(log) = IF prompts = <<>> THEN NA ELSE Clamp(0, top, earned)
    BY DEF Prompting, Count
  <1>3. Specific(log) = AtMost(4, Cardinality(T))
    BY DEF Specific, Count
  <1>. HIDE DEF prompts, T, U, V
  <1>4. Cardinality(T) \in Nat /\ Cardinality(U) \in Nat /\ Cardinality(V) \in Nat
    BY <1>1, Places
  <1>5. NearDuplicates(prompts) \in Nat
    BY <1>1, NearDuplicatesNat
  <1>6. Specific(log) \in Int
    BY <1>3, <1>4 DEF AtMost
  <1>7. earned \in Int
    BY <1>4, <1>5, <1>6
  <1>8. top \in {1200, 2000}
    OBVIOUS
  <1>. HIDE DEF top, earned
  <1>9. Clamp(0, top, earned) \in Nat
    <2>1. CASE top = 1200
      BY <1>7, <2>1 DEF Clamp
    <2>2. CASE top = 2000
      BY <1>7, <2>2 DEF Clamp
    <2>3. QED
      BY <1>8, <2>1, <2>2
  <1>10. QED
    BY <1>2, <1>9 DEF prompts

LEMMA SpeedAcceptsNat ==
    ASSUME NEW S, NEW log \in Seq(S)
    PROVE  SpeedAccepts(log) \in Nat
  <1>. DEFINE T == {i \in 1..(Len(log) - 1) :
                     log[i].type = "AI_REPLY" /\ log[i].loc >= 20 /\ (log[i + 1].ts - log[i].ts) * Tick < 15000}
  <1>1. T \in SUBSET DOMAIN log
    OBVIOUS
  <1>2. SpeedAccepts(log) = Cardinality(T)
    BY DEF SpeedAccepts
  <1>. HIDE DEF T
  <1>3. QED
    BY <1>1, <1>2, Places

LEMMA VerificationRange ==
    ASSUME NEW S, NEW log \in Seq(S)
    PROVE  Verification(log) \in IF CodeReplies(log) = <<>> /\ Traps(log) = <<>> THEN {NA} ELSE Nat
  <1>. DEFINE earned == Points(12, CaughtTrap(log)) + Points(8, TestedAiCode(log))
              penalty == Points(10, Traps(log) # <<>> /\ ~CaughtTrap(log)) + 4 * SpeedAccepts(log)
                         + Points(6, PastedBlind(log))
              top == 8 + Points(12, Traps(log) # <<>>)
  <1>. DEFINE x == (2000 * earned) \div top - 100 * penalty
  <1>1. Verification(log) = IF CodeReplies(log) = <<>> /\ ~(Traps(log) # <<>>) THEN NA ELSE Clamp(0, 2000, x)
    BY DEF Verification
  <1>2. earned \in Nat /\ penalty \in Nat /\ top \in {8, 20}
    BY SpeedAcceptsNat DEF Points
  <1>. HIDE DEF earned, penalty, top
  <1>3. x \in Int
    BY <1>2
  <1>. HIDE DEF x
  <1>4. Clamp(0, 2000, x) \in Nat
    BY <1>3 DEF Clamp
  <1>5. QED
    BY <1>1, <1>4

LEMMA TestingRange ==
    ASSUME NEW S, NEW log \in Seq(S), Readable(log)
    PROVE  Testing(log) \in Nat
  <1>. DEFINE suite == SubmitTests(log)
              runs == Of(log, "RUN")
  <1>1. Testing(log) = IF TotalOf(suite) > 0 THEN (2000 * PassedOf(suite)) \div TotalOf(suite)
                       ELSE IF runs = <<>> THEN 0 ELSE 20 * Last(runs).ratio
    BY DEF Testing
  <1>2. CASE TotalOf(suite) > 0
    <2>1. TotalOf(suite) \in Nat \ {0} /\ PassedOf(suite) \in 0..TotalOf(suite)
      BY <1>2, SuiteIs
    <2>. HIDE DEF suite, runs
    <2>. DEFINE share == (2000 * PassedOf(suite)) \div TotalOf(suite)
    <2>2. share \in Nat
      BY <2>1
    <2>3. Testing(log) = share
      BY <1>1, <1>2
    <2>. HIDE DEF share
    <2>4. QED
      BY <2>2, <2>3
  <1>3. CASE ~(TotalOf(suite) > 0) /\ runs # <<>>
    <2>1. PICK i \in 1..Len(log) : log[i].type = "RUN" /\ Last(runs) = log[i]
      BY <1>3, OfLast
    <2>2. Last(runs).ratio \in Nat
      BY <2>1 DEF Readable, Typed
    <2>. HIDE DEF runs, suite
    <2>3. QED
      BY <1>1, <1>3, <2>2
  <1>4. CASE ~(TotalOf(suite) > 0) /\ runs = <<>>
    <2>. HIDE DEF runs, suite
    <2>1. QED
      BY <1>1, <1>4
  <1>5. QED
    BY <1>2, <1>3, <1>4

LEMMA RealFailsNat ==
    ASSUME NEW S, NEW log \in Seq(S)
    PROVE  RealFailsBeforeFirstPass(log) \in Nat
  <1>. DEFINE runs == Of(log, "RUN")
              T == {i \in DOMAIN runs : ~runs[i].starter /\ \A j \in 1..i : ~runs[j].passed}
  <1>1. runs \in Seq(S) /\ T \in SUBSET DOMAIN runs
    BY OfMembers
  <1>2. RealFailsBeforeFirstPass(log) = Cardinality(T)
    BY DEF RealFailsBeforeFirstPass
  <1>. HIDE DEF T, runs
  <1>3. QED
    BY <1>1, <1>2, Places

LEMMA DebuggingRange ==
    ASSUME NEW S, NEW log \in Seq(S), NEW kind
    PROVE  Debugging(log, kind) \in
              IF kind # "debug" /\ RealFailsBeforeFirstPass(log) = 0 THEN {NA} ELSE Nat
  <1>1. RealFailsBeforeFirstPass(log) \in Nat
    BY RealFailsNat
  <1>. DEFINE fails == RealFailsBeforeFirstPass(log)
  <1>2. Debugging(log, kind) = IF kind # "debug" /\ fails = 0 THEN NA
                               ELSE IF ~AnyPass(log) THEN 0
                               ELSE IF kind = "debug" THEN Clamp(1200, 2000, 2000 - 200 * fails)
                               ELSE FixedTop(fails)
    BY DEF Debugging
  <1>3. fails \in Nat
    BY <1>1
  <1>. HIDE DEF fails
  <1>4. Clamp(1200, 2000, 2000 - 200 * fails) \in Nat
    BY <1>3 DEF Clamp
  <1>5. FixedTop(fails) \in Nat
    BY <1>3 DEF FixedTop, Clamp
  <1>6. kind # "debug" /\ fails = 0 => Debugging(log, kind) = NA
    BY <1>2
  <1>7. ~(kind # "debug" /\ fails = 0) => Debugging(log, kind) \in Nat
    BY <1>2, <1>4, <1>5
  <1>8. QED
    BY <1>6, <1>7 DEF fails

LEMMA RawScores ==
    ASSUME NEW S, NEW log \in Seq(S), Readable(log), NEW explain \in Nat, NEW kind
    PROVE  \A a \in Axes : RawAxes(log, explain, kind)[a] \in Score
  <1>1. /\ Understanding(log, explain) \in Score /\ Hypothesis(log) \in Score /\ Prompting(log) \in Score
        /\ Verification(log) \in Score /\ Testing(log) \in Score /\ Debugging(log, kind) \in Score
    <2>1. Understanding(log, explain) \in Nat
      BY UnderstandingRange
    <2>2. Hypothesis(log) \in Nat
      BY HypothesisRange
    <2>3. Prompting(log) \in IF Of(log, "PROMPT") = <<>> THEN {NA} ELSE Nat
      BY PromptingRange
    <2>4. Verification(log) \in IF CodeReplies(log) = <<>> /\ Traps(log) = <<>> THEN {NA} ELSE Nat
      BY VerificationRange
    <2>5. Testing(log) \in Nat
      BY TestingRange
    <2>6. Debugging(log, kind) \in IF kind # "debug" /\ RealFailsBeforeFirstPass(log) = 0 THEN {NA} ELSE Nat
      BY DebuggingRange
    <2>7. QED
      BY <2>1, <2>2, <2>3, <2>4, <2>5, <2>6 DEF Score
  <1>2. QED
    BY <1>1 DEF RawAxes, Axes

\* One score is no more than another of the same axis: where one applies the other does.
AtMostScore(x, y) == (x = NA /\ y = NA) \/ (x \in Nat /\ y \in Nat /\ x <= y)

\* What an axis adds to the weighted mean.
Part(weight, x) == IF x = NA THEN 0 ELSE weight * x

WeightedSum(axes) ==
    Part(25, axes["understanding"]) + Part(22, axes["hypothesis"]) + Part(18, axes["prompting"])
    + Part(15, axes["verification"]) + Part(10, axes["testing"]) + Part(10, axes["debugging"])

\* With the same axes applicable, a higher weighted sum is a higher overall score.
LEMMA OverallBySum ==
    ASSUME NEW axes \in [Axes -> Score], NEW those \in [Axes -> Score],
           \A a \in Axes : axes[a] = NA <=> those[a] = NA, WeightedSum(axes) <= WeightedSum(those)
    PROVE  Overall(axes) <= Overall(those)
  <1>. DEFINE W(f) == [a \in Axes |-> IF a \in {b \in Axes : f[b] # NA} THEN WEIGHTS[a] ELSE 0]
              C(f) == [a \in Axes |-> W(f)[a] * f[a]]
              d == AxisSum(W(axes))
  <1>1. {a \in Axes : axes[a] # NA} = {a \in Axes : those[a] # NA}
    OBVIOUS
  <1>2. W(axes) = W(those)
    BY <1>1
  <1>3. ASSUME NEW f \in [Axes -> Score] PROVE AxisSum(C(f)) = WeightedSum(f) /\ AxisSum(C(f)) \in Nat
    <2>1. \A a \in Axes : C(f)[a] = Part(WEIGHTS[a], f[a])
      <3>1. TAKE a \in Axes
      <3>2. WEIGHTS[a] \in Nat /\ f[a] \in Score
        BY DEF WEIGHTS, Axes
      <3>3. QED
        BY <3>2 DEF Part, Score, NA
    <2>. HIDE DEF C
    <2>2. AxisSum(C(f)) = WeightedSum(f)
      BY <2>1 DEF AxisSum, WeightedSum, WEIGHTS, Axes
    <2>3. \A a \in Axes : f[a] \in Score
      OBVIOUS
    <2>4. \A x \in Score : /\ Part(25, x) \in Nat /\ Part(22, x) \in Nat /\ Part(18, x) \in Nat
                            /\ Part(15, x) \in Nat /\ Part(10, x) \in Nat
      BY DEF Part, Score
    <2>5. WeightedSum(f) \in Nat
      BY <2>3, <2>4 DEF WeightedSum, Axes
    <2>6. QED
      BY <2>2, <2>5
  <1>4. d \in Nat /\ ({a \in Axes : axes[a] # NA} # {} => d # 0)
    <2>1. /\ \A a \in Axes : W(axes)[a] = (IF axes[a] # NA THEN WEIGHTS[a] ELSE 0) /\ W(axes)[a] \in Nat
          /\ \A a \in Axes : axes[a] # NA => W(axes)[a] # 0
      BY DEF WEIGHTS, Axes
    <2>. DEFINE w == W(axes)
    <2>2. /\ w["understanding"] \in Nat /\ w["hypothesis"] \in Nat /\ w["prompting"] \in Nat
          /\ w["verification"] \in Nat /\ w["testing"] \in Nat /\ w["debugging"] \in Nat
      BY <2>1 DEF Axes
    <2>3. \A a \in Axes : axes[a] # NA => w[a] # 0
      BY <2>1
    <2>4. d = w["understanding"] + w["hypothesis"] + w["prompting"]
              + w["verification"] + w["testing"] + w["debugging"]
      BY DEF AxisSum
    <2>. HIDE DEF W, w, d
    <2>5. d \in Nat
      BY <2>2, <2>4
    <2>6. \A a \in Axes : w[a] # 0 => d # 0
      <3>1. PICK t \in Nat, u \in Nat, v \in Nat, x \in Nat, y \in Nat, z \in Nat :
               /\ t = w["understanding"] /\ u = w["hypothesis"] /\ v = w["prompting"]
               /\ x = w["verification"] /\ y = w["testing"] /\ z = w["debugging"]
        BY <2>2
      <3>2. d = t + u + v + x + y + z
        BY <2>4, <3>1
      <3>3. d = 0 => t = 0 /\ u = 0 /\ v = 0 /\ x = 0 /\ y = 0 /\ z = 0
        BY <3>2
      <3>4. QED
        BY <3>1, <3>3 DEF Axes
    <2>7. QED
      BY <2>3, <2>5, <2>6
  <1>5. /\ Overall(axes) = IF {a \in Axes : axes[a] # NA} = {} THEN 0
                           ELSE Clamp(0, 10000, Rounded(5 * AxisSum(C(axes)), d))
        /\ Overall(those) = IF {a \in Axes : those[a] # NA} = {} THEN 0
                            ELSE Clamp(0, 10000, Rounded(5 * AxisSum(C(those)), AxisSum(W(those))))
    BY DEF Overall
  <1>6. AxisSum(W(those)) = d
    BY <1>2
  <1>7. AxisSum(C(axes)) \in Nat /\ AxisSum(C(those)) \in Nat /\ AxisSum(C(axes)) <= AxisSum(C(those))
    BY <1>3
  <1>. HIDE DEF C, W, d
  <1>8. CASE {a \in Axes : axes[a] # NA} = {}
    BY <1>1, <1>5, <1>8
  <1>9. CASE {a \in Axes : axes[a] # NA} # {}
    <2>. DEFINE m == 5 * AxisSum(C(axes))
                n == 5 * AxisSum(C(those))
    <2>1. m \in Nat /\ n \in Nat /\ m <= n /\ d \in Nat \ {0}
      BY <1>4, <1>7, <1>9
    <2>2. Overall(axes) = Clamp(0, 10000, Rounded(m, d)) /\ Overall(those) = Clamp(0, 10000, Rounded(n, d))
      BY <1>1, <1>5, <1>6, <1>9
    <2>. HIDE DEF m, n
    <2>3. Rounded(m, d) \in Nat /\ Rounded(n, d) \in Nat /\ Rounded(m, d) <= Rounded(n, d)
      BY <2>1, RoundedMonotone
    <2>4. QED
      BY <2>2, <2>3 DEF Clamp
  <1>10. QED
    BY <1>8, <1>9

\* With no axis lower, the overall score is no lower.
LEMMA OverallMonotone ==
    ASSUME NEW axes, NEW those, DOMAIN axes = Axes, DOMAIN those = Axes,
           axes \in [Axes -> Score], those \in [Axes -> Score],
           \A a \in Axes : AtMostScore(axes[a], those[a])
    PROVE  Overall(axes) <= Overall(those)
  <1>1. \A a \in Axes : axes[a] = NA <=> those[a] = NA
    BY DEF AtMostScore, NA
  <1>2. \A x, y : AtMostScore(x, y) => /\ Part(25, x) \in Nat /\ Part(25, y) \in Nat /\ Part(25, x) <= Part(25, y)
                                       /\ Part(22, x) \in Nat /\ Part(22, y) \in Nat /\ Part(22, x) <= Part(22, y)
                                       /\ Part(18, x) \in Nat /\ Part(18, y) \in Nat /\ Part(18, x) <= Part(18, y)
                                       /\ Part(15, x) \in Nat /\ Part(15, y) \in Nat /\ Part(15, x) <= Part(15, y)
                                       /\ Part(10, x) \in Nat /\ Part(10, y) \in Nat /\ Part(10, x) <= Part(10, y)
    BY DEF AtMostScore, Part, NA
  <1>3. WeightedSum(axes) <= WeightedSum(those)
    BY <1>2 DEF WeightedSum, Axes
  <1>4. QED
    BY <1>1, <1>3, OverallBySum

LEMMA ScaledMonotone ==
    ASSUME NEW x, NEW y, AtMostScore(x, y), NEW m \in 0..100, NEW n \in 0..100, m <= n
    PROVE  /\ AtMostScore(IF x = NA THEN NA ELSE Rounded(x * m, 100), IF y = NA THEN NA ELSE Rounded(y * n, 100))
           /\ x # NA => Rounded(x * m, 100) \in Nat
  <1>1. CASE x = NA /\ y = NA
    BY <1>1 DEF AtMostScore
  <1>2. CASE x \in Nat /\ y \in Nat /\ x <= y
    <2>1. x * m \in Nat /\ y * n \in Nat /\ x * m <= y * n
      BY <1>2, ProductMonotone
    <2>2. Rounded(x * m, 100) \in Nat /\ Rounded(y * n, 100) \in Nat /\ Rounded(x * m, 100) <= Rounded(y * n, 100)
      BY <2>1, RoundedMonotone, 100 \in Nat \ {0}
    <2>3. x # NA /\ y # NA
      BY <1>2 DEF NA
    <2>4. QED
      BY <2>2, <2>3 DEF AtMostScore
  <1>3. QED
    BY <1>1, <1>2 DEF AtMostScore

\* The first engine: no lower axes and no lower multiplier are no lower an overall score.
LEMMA ScoredMonotone ==
    ASSUME NEW raw, NEW those, \A a \in Axes : AtMostScore(raw[a], those[a]),
           NEW m \in 0..100, NEW n \in 0..100, m <= n
    PROVE  Scored(raw, m).overall <= Scored(those, n).overall
  <1>. DEFINE x == Scaled(raw, m)
              y == Scaled(those, n)
  <1>1. \A a \in Axes : /\ x[a] = (IF raw[a] = NA THEN NA ELSE Rounded(raw[a] * m, 100))
                        /\ y[a] = (IF those[a] = NA THEN NA ELSE Rounded(those[a] * n, 100))
    BY DEF Scaled
  <1>2. DOMAIN x = Axes /\ DOMAIN y = Axes /\ x = [a \in Axes |-> x[a]] /\ y = [a \in Axes |-> y[a]]
    BY DEF Scaled
  <1>. HIDE DEF x, y
  <1>3. \A a \in Axes : AtMostScore(x[a], y[a])
    <2>1. TAKE a \in Axes
    <2>2. AtMostScore(IF raw[a] = NA THEN NA ELSE Rounded(raw[a] * m, 100),
                      IF those[a] = NA THEN NA ELSE Rounded(those[a] * n, 100))
      BY ScaledMonotone
    <2>3. QED
      BY <1>1, <2>2
  <1>4. \A a \in Axes : x[a] \in Score /\ y[a] \in Score
    BY <1>3 DEF AtMostScore, Score
  <1>5. x \in [Axes -> Score] /\ y \in [Axes -> Score]
    BY <1>2, <1>4
  <1>6. Overall(x) <= Overall(y)
    BY <1>2, <1>3, <1>5, OverallMonotone
  <1>7. QED
    BY <1>6 DEF Scored, x, y

\* The types of events that the axes read.
ReadTypes == {"OPEN", "PROMPT", "HYPOTHESIS", "CODE_EDIT", "AI_REPLY", "SUBMIT", "RUN", "SUBMIT_TESTS", "JUDGE",
              "STUDENT_TESTS", "LOCATE"}

\* Two logs with the same events of a type.
Alike(log, those, types) == \A type \in types : Of(those, type) = Of(log, type)

LEMMA AlikeUnderstanding ==
    ASSUME NEW log, NEW those, Alike(log, those, {"OPEN", "PROMPT", "RUN", "SUBMIT_TESTS"}), NEW explain
    PROVE  Understanding(those, explain) = Understanding(log, explain)
  <1>1. /\ Of(those, "OPEN") = Of(log, "OPEN") /\ Of(those, "PROMPT") = Of(log, "PROMPT")
        /\ Of(those, "RUN") = Of(log, "RUN") /\ Of(those, "SUBMIT_TESTS") = Of(log, "SUBMIT_TESTS")
    BY DEF Alike
  <1>2. Rushed(those) = Rushed(log)
    BY <1>1 DEF Rushed, FirstTs
  <1>3. Shallow(those) = Shallow(log)
    BY <1>1 DEF Shallow
  <1>4. SubmitTests(those) = SubmitTests(log)
    BY <1>1 DEF SubmitTests
  <1>5. AnyPass(those) = AnyPass(log)
    BY <1>1, <1>4 DEF AnyPass
  <1>6. QED
    BY <1>2, <1>3, <1>5 DEF Understanding

LEMMA AlikeHypothesis ==
    ASSUME NEW log, NEW those, Alike(log, those, {"HYPOTHESIS", "CODE_EDIT"})
    PROVE  Hypothesis(those) = Hypothesis(log)
  <1>1. Of(those, "HYPOTHESIS") = Of(log, "HYPOTHESIS") /\ Of(those, "CODE_EDIT") = Of(log, "CODE_EDIT")
    BY DEF Alike
  <1>2. HypothesisBeforeCode(those) = HypothesisBeforeCode(log)
    BY <1>1 DEF HypothesisBeforeCode, FirstTs
  <1>3. QED
    BY <1>1, <1>2 DEF Hypothesis

LEMMA AlikePrompting ==
    ASSUME NEW log, NEW those, Alike(log, those, {"PROMPT"})
    PROVE  Prompting(those) = Prompting(log)
  <1>1. Of(those, "PROMPT") = Of(log, "PROMPT")
    BY DEF Alike
  <1>2. Specific(those) = Specific(log)
    BY <1>1 DEF Specific
  <1>3. QED
    BY <1>1, <1>2 DEF Prompting

LEMMA AlikeTesting ==
    ASSUME NEW log, NEW those, Alike(log, those, {"RUN", "SUBMIT_TESTS"})
    PROVE  Testing(those) = Testing(log)
  <1>1. Of(those, "RUN") = Of(log, "RUN") /\ Of(those, "SUBMIT_TESTS") = Of(log, "SUBMIT_TESTS")
    BY DEF Alike
  <1>2. SubmitTests(those) = SubmitTests(log)
    BY <1>1 DEF SubmitTests
  <1>3. QED
    BY <1>1, <1>2 DEF Testing

LEMMA AlikeDebugging ==
    ASSUME NEW log, NEW those, Alike(log, those, {"RUN", "SUBMIT_TESTS"}), NEW kind
    PROVE  Debugging(those, kind) = Debugging(log, kind)
  <1>1. Of(those, "RUN") = Of(log, "RUN") /\ Of(those, "SUBMIT_TESTS") = Of(log, "SUBMIT_TESTS")
    BY DEF Alike
  <1>2. SubmitTests(those) = SubmitTests(log)
    BY <1>1 DEF SubmitTests
  <1>3. AnyPass(those) = AnyPass(log)
    BY <1>1, <1>2 DEF AnyPass
  <1>4. RealFailsBeforeFirstPass(those) = RealFailsBeforeFirstPass(log)
    BY <1>1 DEF RealFailsBeforeFirstPass
  <1>5. QED
    BY <1>3, <1>4 DEF Debugging

LEMMA AlikeReplies ==
    ASSUME NEW log, NEW those, Alike(log, those, {"AI_REPLY", "RUN"})
    PROVE  /\ Traps(those) = Traps(log) /\ CodeReplies(those) = CodeReplies(log)
           /\ TestedAiCode(those) = TestedAiCode(log)
  <1>1. Of(those, "AI_REPLY") = Of(log, "AI_REPLY") /\ Of(those, "RUN") = Of(log, "RUN")
    BY DEF Alike
  <1>2. Traps(those) = Traps(log)
    BY <1>1 DEF Traps
  <1>3. CodeReplies(those) = CodeReplies(log)
    BY <1>1 DEF CodeReplies
  <1>4. TestedAiCode(those) = TestedAiCode(log)
    BY <1>1, <1>3 DEF TestedAiCode
  <1>5. QED
    BY <1>2, <1>3, <1>4

-----------------------------------------------------------------------------
(* The second engine reads some types of events                            *)

LEMMA AlikeJudge ==
    ASSUME NEW log, NEW those, Alike(log, those, {"JUDGE"}), NEW kind
    PROVE  Verdicts(those, kind) = Verdicts(log, kind) /\ LatestJudge(those, kind) = LatestJudge(log, kind)
  <1>1. Of(those, "JUDGE") = Of(log, "JUDGE")
    BY DEF Alike
  <1>2. Verdicts(those, kind) = Verdicts(log, kind)
    BY <1>1 DEF Verdicts
  <1>3. QED
    BY <1>2 DEF LatestJudge

LEMMA AlikeRuns ==
    ASSUME NEW log, NEW those, Alike(log, those, {"RUN", "SUBMIT_TESTS"})
    PROVE  /\ RealRuns(those) = RealRuns(log) /\ FailingRuns(those) = FailingRuns(log)
           /\ SubmitTests(those) = SubmitTests(log) /\ Solved(those) = Solved(log)
           /\ Correctness(those) = Correctness(log) /\ FixedLevel(those) = FixedLevel(log)
  <1>1. Of(those, "RUN") = Of(log, "RUN") /\ Of(those, "SUBMIT_TESTS") = Of(log, "SUBMIT_TESTS")
    BY DEF Alike
  <1>2. SubmitTests(those) = SubmitTests(log)
    BY <1>1 DEF SubmitTests
  <1>3. RealRuns(those) = RealRuns(log)
    BY <1>1 DEF RealRuns
  <1>4. FailingRuns(those) = FailingRuns(log)
    BY <1>3 DEF FailingRuns
  <1>5. Solved(those) = Solved(log)
    BY <1>2, <1>3 DEF Solved
  <1>6. Correctness(those) = Correctness(log)
    BY <1>1, <1>2 DEF Correctness
  <1>7. FixedLevel(those) = FixedLevel(log)
    BY <1>2, <1>3, <1>5 DEF FixedLevel
  <1>8. QED
    BY <1>2, <1>3, <1>4, <1>5, <1>6, <1>7

\* The evidence of two attempts that differ in their logs.
SameButLog(ev, ew) ==
    /\ ew.kind = ev.kind /\ ew.level = ev.level /\ ew.regions = ev.regions
    /\ ew.replies = ev.replies /\ ew.snaps = ev.snaps

\* What judges rate is read from their verdicts, the prompts, the hypotheses and the first edit.
LEMMA AlikeJudged ==
    ASSUME NEW ev, NEW ew, NEW log, NEW those, log = ev.log, those = ew.log,
           Alike(log, those, {"PROMPT", "HYPOTHESIS", "CODE_EDIT", "JUDGE"})
    PROVE  /\ UnderstandingLevel(ew) = UnderstandingLevel(ev) /\ BestHypothesis(ew) = BestHypothesis(ev)
           /\ PromptingLevel(ew) = PromptingLevel(ev)
  <1>1. ev.log = log /\ ew.log = those
    OBVIOUS
  <1>2. /\ Of(those, "PROMPT") = Of(log, "PROMPT") /\ Of(those, "HYPOTHESIS") = Of(log, "HYPOTHESIS")
        /\ Of(those, "CODE_EDIT") = Of(log, "CODE_EDIT")
    BY DEF Alike
  <1>3. \A k : Verdicts(those, k) = Verdicts(log, k) /\ LatestJudge(those, k) = LatestJudge(log, k)
    BY AlikeJudge DEF Alike
  <1>5. UnderstandingLevel(ew) = UnderstandingLevel(ev)
    BY <1>1, <1>3 DEF UnderstandingLevel
  <1>6. \A e : HypothesisLevel(those, e) = HypothesisLevel(log, e)
    <2>1. TAKE e
    <2>. DEFINE Level(later, late) ==
                    LET l == IF e.level = NA /\ later # <<>> THEN Last(later).levels[1] ELSE e.level
                    IN  IF l = NA THEN Indicator(12 * (IF e.correct THEN 2 ELSE 1), "verdict_only")
                        ELSE IF l = 3 /\ late THEN Indicator(24, "after_code")
                        ELSE Indicator(12 * l, "")
                Later(verdicts) == Where(verdicts, LAMBDA v : v.for_ts = e.ts)
                Late(l) == Of(l, "CODE_EDIT") # <<>> /\ e.ts > FirstTs(l, "CODE_EDIT")
    <2>2. Late(those) = Late(log)
      BY <1>2 DEF FirstTs
    <2>3. \A l : HypothesisLevel(l, e) = Level(Later(Verdicts(l, "hypothesis")), Late(l))
      BY DEF HypothesisLevel
    <2>. HIDE DEF Level, Later, Late
    <2>4. QED
      BY <1>3, <2>2, <2>3
  <1>7. BestHypothesis(ew) = BestHypothesis(ev)
    BY <1>1, <1>2, <1>6 DEF BestHypothesis
  <1>8. PromptingLevel(ew) = PromptingLevel(ev)
    BY <1>1, <1>2, <1>3 DEF PromptingLevel
  <1>9. QED
    BY <1>5, <1>7, <1>8

\* What became of the code in a reply, but for the marks of an unsolved attempt.
LEMMA AlikePasted ==
    ASSUME NEW ev, NEW ew, SameButLog(ev, ew)
    PROVE  FinalCode(ew) = FinalCode(ev) /\ \A reply : PastedLines(ew, reply) = PastedLines(ev, reply)
  <1>1. ew.snaps = ev.snaps
    BY DEF SameButLog
  <1>2. FinalCode(ew) = FinalCode(ev)
    BY <1>1 DEF FinalCode
  <1>3. \A at : CodeAt(ew, at) = CodeAt(ev, at)
    BY <1>1 DEF CodeAt
  <1>4. \A reply : PastedLines(ew, reply) = PastedLines(ev, reply)
    <2>1. TAKE reply
    <2>. DEFINE Pasted(shots, code) ==
                    LET new  == reply.lines \ code
                        took == Where(shots, LAMBDA s : s.at > reply.at
                                  /\ 10 * Cardinality(new \intersect s.lines) >= 7 * Cardinality(new))
                    IN  IF Cardinality(new) < 2 \/ took = <<>> THEN {} ELSE new \intersect took[1].lines
    <2>2. \A e : PastedLines(e, reply) = Pasted(e.snaps, CodeAt(e, reply.at))
      BY DEF PastedLines
    <2>. HIDE DEF Pasted
    <2>3. QED
      BY <1>1, <1>3, <2>2
  <1>5. QED
    BY <1>2, <1>4

LEMMA AlikeIndicators ==
    ASSUME NEW ev, NEW ew, SameButLog(ev, ew), NEW log, NEW those, log = ev.log, those = ew.log,
           Alike(log, those, {"PROMPT", "HYPOTHESIS", "CODE_EDIT", "RUN", "SUBMIT_TESTS", "JUDGE", "STUDENT_TESTS", "LOCATE"})
    PROVE  Indicators(ew) = Indicators(ev)
  <1>1. /\ ew.kind = ev.kind /\ ew.level = ev.level /\ ew.regions = ev.regions
        /\ ew.replies = ev.replies /\ ew.snaps = ev.snaps /\ ev.log = log /\ ew.log = those
    BY DEF SameButLog
  <1>2. /\ Of(those, "PROMPT") = Of(log, "PROMPT") /\ Of(those, "HYPOTHESIS") = Of(log, "HYPOTHESIS")
        /\ Of(those, "CODE_EDIT") = Of(log, "CODE_EDIT") /\ Of(those, "RUN") = Of(log, "RUN")
        /\ Of(those, "STUDENT_TESTS") = Of(log, "STUDENT_TESTS") /\ Of(those, "LOCATE") = Of(log, "LOCATE")
    BY DEF Alike
  <1>3. \A k : Verdicts(those, k) = Verdicts(log, k) /\ LatestJudge(those, k) = LatestJudge(log, k)
    BY AlikeJudge DEF Alike
  <1>4. /\ RealRuns(those) = RealRuns(log) /\ FailingRuns(those) = FailingRuns(log)
        /\ SubmitTests(those) = SubmitTests(log) /\ Solved(those) = Solved(log)
        /\ Correctness(those) = Correctness(log) /\ FixedLevel(those) = FixedLevel(log)
    BY AlikeRuns DEF Alike
  <1>5. /\ UnderstandingLevel(ew) = UnderstandingLevel(ev) /\ BestHypothesis(ew) = BestHypothesis(ev)
        /\ PromptingLevel(ew) = PromptingLevel(ev)
    <2>1. Alike(log, those, {"PROMPT", "HYPOTHESIS", "CODE_EDIT", "JUDGE"})
      BY DEF Alike
    <2>2. QED
      BY <2>1, AlikeJudged
  <1>9. \A i : Outcome(ew, i) = Outcome(ev, i)
    <2>1. TAKE i
    <2>2. FinalCode(ew) = FinalCode(ev) /\ \A reply : PastedLines(ew, reply) = PastedLines(ev, reply)
      BY AlikePasted
    <2>5. Questioned(ew, i) = Questioned(ev, i)
      BY <1>1, <1>3 DEF Questioned
    <2>6. QED
      BY <1>1, <1>4, <2>2, <2>5 DEF Outcome
  <1>10. VerificationLevel(ew) = VerificationLevel(ev)
    <2>. DEFINE Coded(e) == Where([i \in DOMAIN e.replies |-> i], LAMBDA i : e.replies[i].lines # {})
                Outcomes(e) == [k \in DOMAIN Coded(e) |-> Outcome(e, Coded(e)[k])]
    <2>1. Coded(ew) = Coded(ev)
      BY <1>1
    <2>2. \A e : VerificationLevel(e) = IF Coded(e) = <<>> THEN Indicator(NA, "no_ai_code") ELSE Worst(Outcomes(e))
      BY DEF VerificationLevel
    <2>. HIDE DEF Coded
    <2>3. Outcomes(ew) = Outcomes(ev)
      BY <1>9, <2>1
    <2>. HIDE DEF Outcomes
    <2>4. QED
      BY <2>1, <2>2, <2>3
  <1>11. StudentTests(ew) = StudentTests(ev) /\ HasTestParts(ew) = HasTestParts(ev)
    BY <1>1, <1>2 DEF StudentTests, HasTestParts
  <1>12. TestParts(ew) = TestParts(ev)
    BY <1>1, <1>11 DEF TestParts
  <1>13. TestingLevel(ew) = TestingLevel(ev)
    BY <1>1, <1>4, <1>11, <1>12 DEF TestingLevel
  <1>14. HasDebugParts(ew) = HasDebugParts(ev) /\ DebugParts(ew) = DebugParts(ev)
    BY <1>1, <1>2, <1>3, <1>4 DEF HasDebugParts, DebugParts
  <1>15. DebuggingLevel(ew) = DebuggingLevel(ev)
    BY <1>1, <1>4, <1>14 DEF DebuggingLevel
  <1>16. QED
    BY <1>5, <1>10, <1>13, <1>15 DEF Indicators

\* Places of a sequence without its k-th member, of which each was one of the places before.
LEMMA FewerPlaces ==
    ASSUME NEW n \in Nat, NEW k \in Nat, NEW T \in SUBSET (1..n), NEW U \in SUBSET Int,
           \A i \in U : (IF i < k THEN i ELSE i + 1) \in T
    PROVE  Cardinality(U) \in Nat /\ Cardinality(T) \in Nat /\ Cardinality(U) <= Cardinality(T)
  <1>. DEFINE f == [i \in U |-> IF i < k THEN i ELSE i + 1]
  <1>1. IsFiniteSet(T)
    <2>1. IsFiniteSet(1..n)
      BY FS_Interval, 1 \in Int, n \in Int
    <2>2. QED
      BY <2>1, FS_Subset
  <1>2. f \in [U -> T]
    OBVIOUS
  <1>3. \A i, j \in U : f[i] = f[j] => i = j
    <2>1. TAKE i \in U, j \in U
    <2>2. i \in Int /\ j \in Int
      OBVIOUS
    <2>3. f[i] = (IF i < k THEN i ELSE i + 1) /\ f[j] = (IF j < k THEN j ELSE j + 1)
      OBVIOUS
    <2>. HIDE DEF f
    <2>4. QED
      BY <2>2, <2>3
  <1>. HIDE DEF f
  <1>4. f \in Injection(U, T)
    BY <1>2, <1>3 DEF Injection, IsInjective
  <1>5. IsFiniteSet(U) /\ Cardinality(U) <= Cardinality(T)
    BY <1>1, <1>4, FS_Injection
  <1>6. QED
    BY <1>1, <1>5, FS_CardinalityType

Sorted(log) == \A i, j \in 1..Len(log) : i <= j => log[i].ts <= log[j].ts

LEMMA SignalKeepsEvents ==
    ASSUME NEW S, NEW log \in Seq(S), NEW k \in 1..Len(log), log[k].type \notin ReadTypes
    PROVE  /\ Alike(log, RemoveAt(log, k), ReadTypes)
           /\ \A i \in 1..Len(log) : log[i].type \in ReadTypes =>
                 \E j \in DOMAIN RemoveAt(log, k) : RemoveAt(log, k)[j] = log[i]
           /\ \A j \in DOMAIN RemoveAt(log, k) : \E i \in DOMAIN log : RemoveAt(log, k)[j] = log[i]
  <1>. DEFINE t == RemoveAt(log, k)
  <1>0. /\ t \in Seq(S) /\ Len(t) = Len(log) - 1 /\ Len(log) - 1 \in Nat
        /\ \A i \in 1..(Len(log) - 1) : t[i] = log[IF i < k THEN i ELSE i + 1]
    BY Without
  <1>1. Alike(log, t, ReadTypes)
    <2>1. SUFFICES ASSUME NEW type \in ReadTypes PROVE Of(t, type) = Of(log, type)
      BY DEF Alike
    <2>2. log[k].type # type
      OBVIOUS
    <2>3. QED
      BY <2>2, OfWithout
  <1>. HIDE DEF t
  <1>2. DOMAIN t = 1..(Len(log) - 1)
    BY <1>0
  <1>3. ASSUME NEW i \in 1..Len(log), log[i].type \in ReadTypes PROVE \E j \in DOMAIN t : t[j] = log[i]
    <2>1. i # k /\ i \in Int /\ k \in Int /\ k >= 1 /\ k <= Len(log) /\ Len(log) \in Int
      BY <1>3
    <2>2. CASE i < k
      <3>1. i \in 1..(Len(log) - 1) /\ t[i] = log[i]
        BY <1>0, <2>1, <2>2
      <3>2. QED
        BY <1>2, <3>1
    <2>3. CASE i > k
      <3>1. i - 1 \in 1..(Len(log) - 1) /\ ~(i - 1 < k) /\ i - 1 + 1 = i
        BY <2>1, <2>3
      <3>2. t[i - 1] = log[i]
        BY <1>0, <3>1
      <3>3. QED
        BY <1>2, <3>1, <3>2
    <2>4. QED
      BY <2>1, <2>2, <2>3
  <1>4. ASSUME NEW j \in DOMAIN t PROVE \E i \in DOMAIN log : t[j] = log[i]
    <2>1. j \in 1..(Len(log) - 1) /\ t[j] = log[IF j < k THEN j ELSE j + 1]
      BY <1>0, <1>2
    <2>2. (IF j < k THEN j ELSE j + 1) \in DOMAIN log
      BY <1>0, <2>1
    <2>3. QED
      BY <2>1, <2>2
  <1>5. QED
    BY <1>1, <1>3, <1>4 DEF t

LEMMA OfCount ==
    ASSUME NEW S, NEW log \in Seq(S), NEW type
    PROVE  Len(Of(log, type)) = Cardinality({i \in 1..Len(log) : log[i].type = type})
  <1>. DEFINE marked == [i \in DOMAIN log |-> log[i].type = type]
  <1>1. Of(log, type) = Kept(log, marked)
    BY DEF Of, Where
  <1>2. \A i \in 1..Len(log) : marked[i] = (log[i].type = type)
    OBVIOUS
  <1>. HIDE DEF marked
  <1>3. {i \in 1..Len(log) : marked[i]} = {i \in 1..Len(log) : log[i].type = type}
    BY <1>2
  <1>4. Len(Kept(log, marked)) = Cardinality({i \in 1..Len(log) : marked[i]})
    BY KeptCount
  <1>5. QED
    BY <1>1, <1>3, <1>4

LEMMA SignalScales ==
    ASSUME NEW S, NEW log \in Seq(S), NEW k \in 1..Len(log)
    PROVE  Multiplier(log) <= Multiplier(RemoveAt(log, k))
  <1>. DEFINE t == RemoveAt(log, k)
              n == Len(log)
              T == {i \in DOMAIN log : log[i].type = "BURST_PASTE" \/ log[i].flagged}
              U == {i \in DOMAIN t : t[i].type = "BURST_PASTE" \/ t[i].flagged}
              V == {i \in 1..Len(log) : log[i].type = "FOCUS_LOST"}
              W == {i \in 1..Len(t) : t[i].type = "FOCUS_LOST"}
  <1>0. /\ t \in Seq(S) /\ Len(t) = Len(log) - 1 /\ Len(log) - 1 \in Nat
        /\ \A i \in 1..(Len(log) - 1) : t[i] = log[IF i < k THEN i ELSE i + 1]
    BY Without
  <1>1. PasteFlags(log) = Cardinality(T) /\ PasteFlags(t) = Cardinality(U)
    BY DEF PasteFlags, Count
  <1>2. FocusLost(log) = Cardinality(V)
    BY OfCount DEF FocusLost
  <1>. HIDE DEF t
  <1>3. FocusLost(t) = Cardinality(W)
    BY <1>0, OfCount DEF FocusLost
  <1>4. T \in SUBSET (1..n) /\ U \in SUBSET Int /\ V \in SUBSET (1..n) /\ W \in SUBSET Int /\ n \in Nat /\ k \in Nat
    BY <1>0
  <1>5. \A i \in U : (IF i < k THEN i ELSE i + 1) \in T
    <2>1. TAKE i \in U
    <2>. DEFINE h == IF i < k THEN i ELSE i + 1
    <2>2. i \in 1..(Len(log) - 1) /\ (t[i].type = "BURST_PASTE" \/ t[i].flagged)
      BY <1>0
    <2>3. h \in DOMAIN log /\ t[i] = log[h]
      BY <1>0, <2>2
    <2>. HIDE DEF h
    <2>4. h \in T
      BY <2>2, <2>3
    <2>5. QED
      BY <2>4 DEF h
  <1>6. \A i \in W : (IF i < k THEN i ELSE i + 1) \in V
    <2>1. TAKE i \in W
    <2>. DEFINE h == IF i < k THEN i ELSE i + 1
    <2>2. i \in 1..(Len(log) - 1) /\ t[i].type = "FOCUS_LOST"
      BY <1>0
    <2>3. h \in DOMAIN log /\ t[i] = log[h]
      BY <1>0, <2>2
    <2>. HIDE DEF h
    <2>4. h \in V
      BY <2>2, <2>3
    <2>5. QED
      BY <2>4 DEF h
  <1>. HIDE DEF T, U, V, W, n
  <1>7. Cardinality(U) \in Nat /\ Cardinality(T) \in Nat /\ Cardinality(U) <= Cardinality(T)
    BY <1>4, <1>5, FewerPlaces
  <1>8. Cardinality(W) \in Nat /\ Cardinality(V) \in Nat /\ Cardinality(W) <= Cardinality(V)
    BY <1>4, <1>6, FewerPlaces
  <1>9. QED
    BY <1>1, <1>2, <1>3, <1>7, <1>8 DEF Multiplier, Clamp, t

LEMMA SignalSlows ==
    ASSUME NEW S, NEW log \in Seq(S), NEW k \in 1..Len(log), log[k].type # "AI_REPLY",
           Sorted(log), \A i \in 1..Len(log) : log[i].ts \in Int, Tick \in Nat
    PROVE  /\ SpeedAccepts(log) \in Nat /\ SpeedAccepts(RemoveAt(log, k)) \in Nat
           /\ SpeedAccepts(RemoveAt(log, k)) <= SpeedAccepts(log)
  <1>. DEFINE t == RemoveAt(log, k)
              n == Len(log)
              T == {i \in 1..(Len(log) - 1) :
                     log[i].type = "AI_REPLY" /\ log[i].loc >= 20 /\ (log[i + 1].ts - log[i].ts) * Tick < 15000}
              U == {i \in 1..(Len(t) - 1) :
                     t[i].type = "AI_REPLY" /\ t[i].loc >= 20 /\ (t[i + 1].ts - t[i].ts) * Tick < 15000}
  <1>0. /\ t \in Seq(S) /\ Len(t) = Len(log) - 1 /\ Len(log) - 1 \in Nat
        /\ \A i \in 1..(Len(log) - 1) : t[i] = log[IF i < k THEN i ELSE i + 1]
    BY Without
  <1>1. SpeedAccepts(log) = Cardinality(T) /\ SpeedAccepts(t) = Cardinality(U)
    BY DEF SpeedAccepts
  <1>. HIDE DEF t
  <1>2. T \in SUBSET (1..n) /\ U \in SUBSET Int /\ n \in Nat /\ k \in Nat
    BY <1>0
  <1>3. ASSUME NEW i \in U PROVE (IF i < k THEN i ELSE i + 1) \in T
    <2>. DEFINE h == IF i < k THEN i ELSE i + 1
                g == IF i + 1 < k THEN i + 1 ELSE i + 2
    <2>1. /\ i \in 1..(Len(log) - 2) /\ t[i].type = "AI_REPLY" /\ t[i].loc >= 20
          /\ (t[i + 1].ts - t[i].ts) * Tick < 15000
      BY <1>0
    <2>2. t[i] = log[h] /\ h \in 1..(Len(log) - 1)
      BY <1>0, <2>1
    <2>3. t[i + 1] = log[g] /\ g \in 1..Len(log)
      <3>1. i + 1 \in 1..(Len(log) - 1) /\ (i + 1) + 1 = i + 2
        BY <1>0, <2>1
      <3>2. t[i + 1] = log[IF i + 1 < k THEN i + 1 ELSE (i + 1) + 1]
        BY <1>0, <3>1
      <3>3. QED
        BY <1>0, <2>1, <3>1, <3>2
    <2>4. h + 1 \in 1..Len(log) /\ h + 1 <= g /\ g \in 1..Len(log)
      BY <1>0, <2>1, <2>2, <2>3
    <2>. HIDE DEF h, g
    <2>5. /\ log[h + 1].ts <= log[g].ts /\ log[h + 1].ts \in Int /\ log[g].ts \in Int /\ log[h].ts \in Int
      BY <1>0, <2>2, <2>4 DEF Sorted
    <2>. DEFINE x == log[h + 1].ts
                y == log[g].ts
                z == log[h].ts
    <2>6. x \in Int /\ y \in Int /\ z \in Int /\ x <= y /\ (y - z) * Tick < 15000
      BY <2>1, <2>2, <2>3, <2>5
    <2>. HIDE DEF x, y, z
    <2>7. (x - z) * Tick < 15000
      <3>. DEFINE a == x - z
                  b == y - z
      <3>1. a \in Int /\ b \in Int /\ a <= b /\ b * Tick < 15000
        BY <2>6
      <3>. HIDE DEF a, b
      <3>. DEFINE p == a * Tick
                  q == b * Tick
      <3>2. p \in Int /\ q \in Int /\ p <= q
        BY <3>1
      <3>3. q < 15000
        BY <3>1
      <3>. HIDE DEF p, q
      <3>4. p < 15000
        BY <3>2, <3>3
      <3>5. QED
        BY <3>4 DEF a, p
    <2>. USE DEF x, y, z
    <2>8. h \in T
      BY <2>1, <2>2, <2>7
    <2>9. QED
      BY <2>8 DEF h
  <1>. HIDE DEF T, U, n
  <1>4. Cardinality(U) \in Nat /\ Cardinality(T) \in Nat /\ Cardinality(U) <= Cardinality(T)
    BY <1>2, <1>3, FewerPlaces
  <1>5. QED
    BY <1>1, <1>4 DEF t

LEMMA SignalVerification ==
    ASSUME NEW S, NEW log \in Seq(S), NEW k \in 1..Len(log), log[k].type \notin ReadTypes,
           Sorted(log), \A i \in 1..Len(log) : log[i].ts \in Int, Tick \in Nat
    PROVE  AtMostScore(Verification(log), Verification(RemoveAt(log, k)))
  <1>. DEFINE t == RemoveAt(log, k)
              Earned(l) == Points(12, CaughtTrap(l)) + Points(8, TestedAiCode(l))
              Penalty(l) == Points(10, Traps(l) # <<>> /\ ~CaughtTrap(l)) + 4 * SpeedAccepts(l)
                            + Points(6, PastedBlind(l))
              Top(l) == 8 + Points(12, Traps(l) # <<>>)
              Sum(l) == (2000 * Earned(l)) \div Top(l) - 100 * Penalty(l)
  <1>1. /\ Alike(log, t, ReadTypes)
        /\ \A i \in 1..Len(log) : log[i].type \in ReadTypes => \E j \in DOMAIN t : t[j] = log[i]
        /\ \A j \in DOMAIN t : \E i \in DOMAIN log : t[j] = log[i]
    BY SignalKeepsEvents
  <1>2. SpeedAccepts(log) \in Nat /\ SpeedAccepts(t) \in Nat /\ SpeedAccepts(t) <= SpeedAccepts(log)
    <2>1. log[k].type # "AI_REPLY"
      BY DEF ReadTypes
    <2>2. QED
      BY <2>1, SignalSlows
  <1>. HIDE DEF t
  <1>3. /\ Of(t, "AI_REPLY") = Of(log, "AI_REPLY") /\ Of(t, "SUBMIT") = Of(log, "SUBMIT")
        /\ Alike(log, t, {"AI_REPLY", "RUN"})
    BY <1>1 DEF Alike, ReadTypes
  <1>4. Traps(t) = Traps(log) /\ CodeReplies(t) = CodeReplies(log) /\ TestedAiCode(t) = TestedAiCode(log)
    BY <1>3, AlikeReplies
  <1>5. \A i \in DOMAIN log : log[i].type = "CODE_EDIT" => \E j \in DOMAIN t : t[j] = log[i]
    BY <1>1 DEF ReadTypes
  <1>6. CaughtTrap(t) = CaughtTrap(log)
    <2>. DEFINE Edited(e) == /\ e.type = "CODE_EDIT" /\ e.ts > Traps(log)[1].ts
                             /\ Of(log, "SUBMIT") # <<>> => e.ts <= FirstTs(log, "SUBMIT")
    <2>1. FirstTs(t, "SUBMIT") = FirstTs(log, "SUBMIT")
      BY <1>3 DEF FirstTs
    <2>2. CaughtTrap(log) = (Traps(log) # <<>> /\ \E i \in DOMAIN log : Edited(log[i]))
      BY DEF CaughtTrap
    <2>3. CaughtTrap(t) = (Traps(log) # <<>> /\ \E i \in DOMAIN t : Edited(t[i]))
      BY <1>3, <1>4, <2>1 DEF CaughtTrap
    <2>4. \A i \in DOMAIN log : Edited(log[i]) => log[i].type = "CODE_EDIT"
      OBVIOUS
    <2>. HIDE DEF Edited
    <2>5. (\E i \in DOMAIN log : Edited(log[i])) = (\E i \in DOMAIN t : Edited(t[i]))
      BY <1>1, <1>5, <2>4
    <2>6. QED
      BY <2>2, <2>3, <2>5
  <1>7. PastedBlind(t) = PastedBlind(log)
    <2>. DEFINE After(e) == e.type = "CODE_EDIT" /\ e.ts > Last(Of(log, "AI_REPLY")).ts
    <2>1. PastedBlind(log) = (Loc(Of(log, "AI_REPLY")) >= 50 /\ ~ \E i \in DOMAIN log : After(log[i]))
      BY DEF PastedBlind
    <2>2. PastedBlind(t) = (Loc(Of(log, "AI_REPLY")) >= 50 /\ ~ \E i \in DOMAIN t : After(t[i]))
      BY <1>3 DEF PastedBlind
    <2>3. \A i \in DOMAIN log : After(log[i]) => log[i].type = "CODE_EDIT"
      OBVIOUS
    <2>. HIDE DEF After
    <2>4. (\E i \in DOMAIN log : After(log[i])) = (\E i \in DOMAIN t : After(t[i]))
      BY <1>1, <1>5, <2>3
    <2>5. QED
      BY <2>1, <2>2, <2>4
  <1>8. \A l : Verification(l) = IF CodeReplies(l) = <<>> /\ ~(Traps(l) # <<>>) THEN NA ELSE Clamp(0, 2000, Sum(l))
    BY DEF Verification
  <1>9. Earned(t) = Earned(log) /\ Top(t) = Top(log) /\ Earned(log) \in Nat /\ Top(log) \in {8, 20}
    BY <1>4, <1>6 DEF Points
  <1>10. Penalty(t) \in Nat /\ Penalty(log) \in Nat /\ Penalty(t) <= Penalty(log)
    BY <1>2, <1>4, <1>6, <1>7 DEF Points
  <1>. HIDE DEF Earned, Top, Penalty
  <1>11. Sum(t) \in Int /\ Sum(log) \in Int /\ Sum(log) <= Sum(t)
    <2>. DEFINE share == (2000 * Earned(log)) \div Top(log)
    <2>1. share \in Int
      BY <1>9
    <2>2. Sum(t) = share - 100 * Penalty(t) /\ Sum(log) = share - 100 * Penalty(log)
      BY <1>9
    <2>. HIDE DEF share
    <2>. HIDE DEF Sum
    <2>3. QED
      BY <1>10, <2>1, <2>2
  <1>. HIDE DEF Sum
  <1>12. Clamp(0, 2000, Sum(log)) \in Nat /\ Clamp(0, 2000, Sum(t)) \in Nat
         /\ Clamp(0, 2000, Sum(log)) <= Clamp(0, 2000, Sum(t))
    BY <1>11 DEF Clamp
  <1>13. AtMostScore(Verification(log), Verification(t))
    BY <1>4, <1>8, <1>12 DEF AtMostScore
  <1>14. QED
    BY <1>13 DEF t

LEMMA SameScore ==
    ASSUME NEW x \in Score
    PROVE  AtMostScore(x, x)
  BY DEF Score, AtMostScore

\* Without a signal no axis of the first engine is lower, before the multiplier.
LEMMA SignalRaw ==
    ASSUME NEW S, NEW log \in Seq(S), NEW k \in 1..Len(log), log[k].type \notin ReadTypes,
           Sorted(log), Readable(log), Tick \in Nat, NEW explain \in Nat, NEW kind
    PROVE  \A a \in Axes : AtMostScore(RawAxes(log, explain, kind)[a], RawAxes(RemoveAt(log, k), explain, kind)[a])
  <1>. DEFINE t == RemoveAt(log, k)
              raw == RawAxes(log, explain, kind)
              those == RawAxes(t, explain, kind)
  <1>1. Alike(log, t, ReadTypes)
    BY SignalKeepsEvents
  <1>2. AtMostScore(Verification(log), Verification(t))
    BY SignalVerification DEF Readable, Typed
  <1>. HIDE DEF t
  <1>3. \A types \in SUBSET ReadTypes : Alike(log, t, types)
    BY <1>1 DEF Alike
  <1>4. Understanding(t, explain) = Understanding(log, explain)
    <2>1. Alike(log, t, {"OPEN", "PROMPT", "RUN", "SUBMIT_TESTS"})
      BY <1>3 DEF ReadTypes
    <2>2. QED
      BY <2>1, AlikeUnderstanding
  <1>5. Hypothesis(t) = Hypothesis(log)
    <2>1. Alike(log, t, {"HYPOTHESIS", "CODE_EDIT"})
      BY <1>3 DEF ReadTypes
    <2>2. QED
      BY <2>1, AlikeHypothesis
  <1>6. Prompting(t) = Prompting(log)
    <2>1. Alike(log, t, {"PROMPT"})
      BY <1>3 DEF ReadTypes
    <2>2. QED
      BY <2>1, AlikePrompting
  <1>7. Testing(t) = Testing(log) /\ Debugging(t, kind) = Debugging(log, kind)
    <2>1. Alike(log, t, {"RUN", "SUBMIT_TESTS"})
      BY <1>3 DEF ReadTypes
    <2>2. QED
      BY <2>1, AlikeTesting, AlikeDebugging
  <1>8. \A a \in Axes : raw[a] \in Score
    BY RawScores
  <1>9. raw["verification"] = Verification(log) /\ those["verification"] = Verification(t)
    BY DEF RawAxes
  <1>10. \A a \in Axes \ {"verification"} : those[a] = raw[a]
    BY <1>4, <1>5, <1>6, <1>7 DEF RawAxes, Axes
  <1>. HIDE DEF raw, those
  <1>11. ASSUME NEW a \in Axes PROVE AtMostScore(raw[a], those[a])
    <2>1. CASE a = "verification"
      BY <1>2, <1>9, <2>1
    <2>2. CASE a # "verification"
      BY <1>8, <1>10, <2>2, SameScore
    <2>3. QED
      BY <2>1, <2>2
  <1>12. QED
    BY <1>11 DEF raw, those, t

LEMMA SignalNeverPaysV1 ==
    ASSUME NEW S, NEW log \in Seq(S), NEW k \in 1..Len(log), log[k].type \notin ReadTypes,
           Sorted(log), Readable(log), Tick \in Nat, NEW explain \in Nat, NEW kind
    PROVE  ScoreAttempt(log, explain, kind).overall <= ScoreAttempt(RemoveAt(log, k), explain, kind).overall
  <1>. DEFINE t == RemoveAt(log, k)
  <1>1. \A a \in Axes : AtMostScore(RawAxes(log, explain, kind)[a], RawAxes(t, explain, kind)[a])
    BY SignalRaw
  <1>2. Multiplier(log) <= Multiplier(t)
    BY SignalScales
  <1>3. t \in Seq(S)
    BY Without
  <1>. HIDE DEF t
  <1>4. Multiplier(log) \in 40..100 /\ Multiplier(t) \in 40..100
    BY <1>3, MultiplierRange
  <1>. DEFINE m == Multiplier(log)
              n == Multiplier(t)
  <1>5. m \in 0..100 /\ n \in 0..100 /\ m <= n
    BY <1>2, <1>4
  <1>6. ScoreAttempt(log, explain, kind) = Scored(RawAxes(log, explain, kind), m)
        /\ ScoreAttempt(t, explain, kind) = Scored(RawAxes(t, explain, kind), n)
    BY DEF ScoreAttempt
  <1>. HIDE DEF m, n
  <1>7. Scored(RawAxes(log, explain, kind), m).overall <= Scored(RawAxes(t, explain, kind), n).overall
    BY <1>1, <1>5, ScoredMonotone
  <1>8. QED
    BY <1>6, <1>7 DEF t

-----------------------------------------------------------------------------
(* The levels of the second engine                                         *)

LEMMA IndicatorIs ==
    \A level, reason : Indicator(level, reason).level = level /\ Indicator(level, reason).reason = reason
  BY DEF Indicator

LEMMA WhereMembers ==
    ASSUME NEW S, NEW s \in Seq(S), NEW marked
    PROVE  Kept(s, marked) # <<>> => \E i \in 1..Len(s) : marked[i] /\ Last(Kept(s, marked)) = s[i]
  <1>1. SUFFICES ASSUME Kept(s, marked) # <<>>
        PROVE \E i \in 1..Len(s) : marked[i] /\ Last(Kept(s, marked)) = s[i]
    OBVIOUS
  <1>2. Kept(s, marked) \in Seq(S)
    BY KeptMembers
  <1>3. Len(Kept(s, marked)) \in 1..Len(Kept(s, marked))
    BY <1>1, <1>2
  <1>4. \A k \in 1..Len(Kept(s, marked)) : \E i \in 1..Len(s) : marked[i] /\ Kept(s, marked)[k] = s[i]
    BY KeptMembers
  <1>5. PICK i \in 1..Len(s) : marked[i] /\ Kept(s, marked)[Len(Kept(s, marked))] = s[i]
    BY <1>3, <1>4
  <1>6. Last(Kept(s, marked)) = Kept(s, marked)[Len(Kept(s, marked))]
    BY DEF Last
  <1>7. QED
    BY <1>5, <1>6

LEMMA VerdictsAre ==
    ASSUME NEW S, NEW log \in Seq(S), NEW kind
    PROVE  /\ Verdicts(log, kind) \in Seq(S)
           /\ \A k \in 1..Len(Verdicts(log, kind)) : \E i \in 1..Len(log) :
                 log[i].type = "JUDGE" /\ log[i].kind = kind /\ Verdicts(log, kind)[k] = log[i]
  <1>. DEFINE judged == Of(log, "JUDGE")
              marked == [i \in DOMAIN judged |-> judged[i].kind = kind]
  <1>1. Verdicts(log, kind) = Kept(judged, marked)
    BY DEF Verdicts, Where
  <1>2. judged \in Seq(S)
    BY OfMembers
  <1>3. \A k \in 1..Len(judged) : \E i \in 1..Len(log) : log[i].type = "JUDGE" /\ judged[k] = log[i]
    BY OfMembers
  <1>. HIDE DEF judged
  <1>4. \A k \in 1..Len(judged) : marked[k] = (judged[k].kind = kind)
    BY <1>2
  <1>. HIDE DEF marked
  <1>5. Kept(judged, marked) \in Seq(S)
    BY <1>2, KeptMembers
  <1>6. \A k \in 1..Len(Kept(judged, marked)) : \E i \in 1..Len(judged) : marked[i] /\ Kept(judged, marked)[k] = judged[i]
    BY <1>2, KeptMembers
  <1>7. ASSUME NEW k \in 1..Len(Kept(judged, marked))
        PROVE  \E i \in 1..Len(log) : log[i].type = "JUDGE" /\ log[i].kind = kind /\ Kept(judged, marked)[k] = log[i]
    <2>1. PICK j \in 1..Len(judged) : marked[j] /\ Kept(judged, marked)[k] = judged[j]
      BY <1>6
    <2>2. judged[j].kind = kind
      BY <1>4, <2>1
    <2>3. PICK i \in 1..Len(log) : log[i].type = "JUDGE" /\ judged[j] = log[i]
      BY <1>3
    <2>4. QED
      BY <2>1, <2>2, <2>3
  <1>8. QED
    BY <1>1, <1>5, <1>7

LEMMA LatestLevels ==
    ASSUME NEW S, NEW log \in Seq(S), Readable(log), NEW kind
    PROVE  LatestJudge(log, kind).levels \in Seq(Rates)
  <1>1. Verdicts(log, kind) \in Seq(S)
    BY VerdictsAre
  <1>2. \A k \in 1..Len(Verdicts(log, kind)) : \E i \in 1..Len(log) :
                 log[i].type = "JUDGE" /\ log[i].kind = kind /\ Verdicts(log, kind)[k] = log[i]
    BY VerdictsAre
  <1>. DEFINE given == Verdicts(log, kind)
  <1>. HIDE DEF given
  <1>3. CASE given = <<>>
    <2>1. LatestJudge(log, kind) = NoVerdict
      BY <1>3 DEF LatestJudge, given
    <2>2. QED
      BY <2>1 DEF NoVerdict
  <1>4. CASE given # <<>>
    <2>1. Len(given) \in 1..Len(given) /\ Last(given) = given[Len(given)]
      BY <1>1, <1>4 DEF given, Last
    <2>2. PICK i \in 1..Len(log) : log[i].type = "JUDGE" /\ given[Len(given)] = log[i]
      BY <1>2, <2>1 DEF given
    <2>3. LatestJudge(log, kind) = log[i]
      BY <1>4, <2>1, <2>2 DEF LatestJudge, given
    <2>4. Typed(log[i])
      BY DEF Readable
    <2>5. QED
      BY <2>2, <2>3, <2>4 DEF Typed
  <1>5. QED
    BY <1>3, <1>4

\* The levels of an axis: in twelfths, or none.
Levels == {NA} \union 0..36

LEMMA UnderstandingIs ==
    ASSUME NEW S, NEW ev, ev.log \in Seq(S), Readable(ev.log)
    PROVE  \/ UnderstandingLevel(ev) = Indicator(NA, "unrated")
           \/ UnderstandingLevel(ev).level \in 0..36
  <1>. DEFINE log == ev.log
              levels == LatestJudge(log, "explain").levels
              rated == Known(levels)
  <1>1. log \in Seq(S) /\ Readable(log)
    OBVIOUS
  <1>2. UnderstandingLevel(ev) = IF rated = <<>> THEN Indicator(NA, "unrated") ELSE Indicator(MeanLevel(rated), "")
    BY DEF UnderstandingLevel
  <1>. HIDE DEF log
  <1>3. levels \in Seq(Rates)
    BY <1>1, LatestLevels
  <1>. HIDE DEF levels
  <1>4. rated \in Seq(0..3)
    BY <1>3, KnownLevels
  <1>. HIDE DEF rated
  <1>5. rated # <<>> => MeanLevel(rated) \in 0..36
    BY <1>4, MeanLevelRange
  <1>6. QED
    BY <1>2, <1>5, IndicatorIs

LEMMA PromptingIs ==
    ASSUME NEW S, NEW ev, ev.log \in Seq(S), Readable(ev.log)
    PROVE  IF Of(ev.log, "PROMPT") = <<>> THEN PromptingLevel(ev) = Indicator(NA, "no_ai_use")
           ELSE PromptingLevel(ev) = Indicator(NA, "unrated") \/ PromptingLevel(ev).level \in 0..36
  <1>. DEFINE log == ev.log
              levels == LatestJudge(log, "prompts").levels
              rated == Known(levels)
  <1>1. log \in Seq(S) /\ Readable(log)
    OBVIOUS
  <1>2. PromptingLevel(ev) = IF Of(log, "PROMPT") = <<>> THEN Indicator(NA, "no_ai_use")
                             ELSE IF rated = <<>> THEN Indicator(NA, "unrated") ELSE Indicator(MedianLevel(rated), "")
    BY DEF PromptingLevel
  <1>. HIDE DEF log
  <1>3. levels \in Seq(Rates)
    BY <1>1, LatestLevels
  <1>. HIDE DEF levels
  <1>4. rated \in Seq(0..3)
    BY <1>3, KnownLevels
  <1>. HIDE DEF rated
  <1>5. rated # <<>> => MedianLevel(rated) \in 0..36
    BY <1>4, MedianLevelRange
  <1>6. QED
    BY <1>2, <1>5, IndicatorIs DEF log

LEMMA HypothesisIs ==
    ASSUME NEW S, NEW ev, ev.log \in Seq(S), Readable(ev.log)
    PROVE  BestHypothesis(ev).level \in 0..36 /\ BestHypothesis(ev).reason # "unrated"
  <1>. DEFINE log == ev.log
              hyps == Of(log, "HYPOTHESIS")
              found == [i \in DOMAIN hyps |-> HypothesisLevel(log, hyps[i])]
  <1>1. log \in Seq(S) /\ Readable(log)
    OBVIOUS
  <1>2. BestHypothesis(ev) = IF hyps = <<>> THEN Indicator(0, "no_hypothesis") ELSE Best(found)
    BY DEF BestHypothesis
  <1>. HIDE DEF log
  <1>3. hyps \in Seq(S) /\ \A k \in 1..Len(hyps) : \E i \in 1..Len(log) : log[i].type = "HYPOTHESIS" /\ hyps[k] = log[i]
    BY <1>1, OfMembers
  <1>. HIDE DEF hyps
  <1>4. ASSUME NEW k \in 1..Len(hyps)
        PROVE  HypothesisLevel(log, hyps[k]).level \in 0..36 /\ HypothesisLevel(log, hyps[k]).reason # "unrated"
    <2>. DEFINE e == hyps[k]
                given == Verdicts(log, "hypothesis")
                marked == [i \in DOMAIN given |-> given[i].for_ts = e.ts]
                later == Kept(given, marked)
                level == IF e.level = NA /\ later # <<>> THEN Last(later).levels[1] ELSE e.level
                late  == Of(log, "CODE_EDIT") # <<>> /\ e.ts > FirstTs(log, "CODE_EDIT")
    <2>1. HypothesisLevel(log, e) = IF level = NA THEN Indicator(12 * (IF e.correct THEN 2 ELSE 1), "verdict_only")
                                    ELSE IF level = 3 /\ late THEN Indicator(24, "after_code")
                                    ELSE Indicator(12 * level, "")
      BY DEF HypothesisLevel, Where
    <2>2. e.level \in Rates
      <3>1. PICK i \in 1..Len(log) : log[i].type = "HYPOTHESIS" /\ hyps[k] = log[i]
        BY <1>3
      <3>2. QED
        BY <1>1, <3>1 DEF Readable, Typed
    <2>. HIDE DEF e, late
    <2>3. given \in Seq(S)
      BY <1>1, VerdictsAre
    <2>4. \A j \in 1..Len(given) : \E i \in 1..Len(log) :
             log[i].type = "JUDGE" /\ log[i].kind = "hypothesis" /\ given[j] = log[i]
      BY <1>1, VerdictsAre
    <2>. HIDE DEF given
    <2>. HIDE DEF marked
    <2>6. later # <<>> => \E i \in 1..Len(given) : Last(later) = given[i]
      BY <2>3, WhereMembers
    <2>. HIDE DEF later
    <2>7. later # <<>> => Last(later).levels[1] \in Rates
      <3>1. SUFFICES ASSUME later # <<>> PROVE Last(later).levels[1] \in Rates
        OBVIOUS
      <3>2. PICK j \in 1..Len(given) : Last(later) = given[j]
        BY <2>6, <3>1
      <3>3. PICK i \in 1..Len(log) : log[i].type = "JUDGE" /\ log[i].kind = "hypothesis" /\ given[j] = log[i]
        BY <2>4
      <3>4. Typed(log[i])
        BY <1>1 DEF Readable
      <3>5. log[i].levels \in Seq(Rates) /\ log[i].levels # <<>>
        BY <3>3, <3>4 DEF Typed
      <3>6. log[i].levels[1] \in Rates
        BY <3>5
      <3>7. QED
        BY <3>2, <3>3, <3>6
    <2>8. level \in Rates
      BY <2>2, <2>7
    <2>. HIDE DEF level
    <2>9. HypothesisLevel(log, e).level \in 0..36 /\ HypothesisLevel(log, e).reason # "unrated"
      <3>1. CASE level = NA
        <4>1. 12 * (IF e.correct THEN 2 ELSE 1) \in 0..36
          OBVIOUS
        <4>2. HypothesisLevel(log, e) = Indicator(12 * (IF e.correct THEN 2 ELSE 1), "verdict_only")
          BY <2>1, <3>1
        <4>3. QED
          BY <4>1, <4>2, IndicatorIs
      <3>2. CASE level # NA /\ level = 3 /\ late
        <4>1. HypothesisLevel(log, e) = Indicator(24, "after_code")
          BY <2>1, <3>2
        <4>2. QED
          BY <4>1, IndicatorIs
      <3>3. CASE level # NA /\ ~(level = 3 /\ late)
        <4>1. HypothesisLevel(log, e) = Indicator(12 * level, "")
          BY <2>1, <3>3
        <4>2. level \in 0..3
          BY <2>8, <3>3 DEF Rates
        <4>. DEFINE x == 12 * level
        <4>3. x \in 0..36
          BY <4>2
        <4>4. HypothesisLevel(log, e) = Indicator(x, "")
          BY <4>1
        <4>. HIDE DEF x
        <4>5. Indicator(x, "").level = x /\ Indicator(x, "").reason = ""
          BY IndicatorIs
        <4>6. QED
          BY <4>3, <4>4, <4>5
      <3>4. QED
        BY <3>1, <3>2, <3>3
    <2>10. QED
      BY <2>9 DEF e
  <1>5. CASE hyps = <<>>
    BY <1>2, <1>5, IndicatorIs
  <1>6. CASE hyps # <<>>
    <2>. DEFINE N == Len(hyps)
    <2>1. N \in Nat \ {0} /\ DOMAIN hyps = 1..N
      BY <1>3, <1>6
    <2>2. DOMAIN found = 1..N /\ \A i \in 1..N : found[i] = HypothesisLevel(log, hyps[i])
      BY <2>1
    <2>. HIDE DEF found
    <2>3. \A i \in 1..N : found[i].level \in 0..36 /\ found[i].reason # "unrated"
      BY <1>4, <2>2
    <2>. HIDE DEF N
    <2>4. PICK i \in 1..N : Best(found) = found[i]
      BY <2>1, <2>2, <2>3, BestIs
    <2>5. QED
      BY <1>2, <1>6, <2>3, <2>4
  <1>7. QED
    BY <1>5, <1>6

\* What may become of a reply's code, and what it is worth.
LEMMA OutcomeIs ==
    ASSUME NEW ev, NEW i
    PROVE  \/ Outcome(ev, i) = Indicator(IF Solved(ev.log) THEN 12 ELSE 0, "pasted_unchanged")
           \/ Outcome(ev, i) = Indicator(IF Solved(ev.log) THEN 36 ELSE 24, "pasted_changed")
           \/ Outcome(ev, i) = Indicator(36, "questioned")
           \/ Outcome(ev, i) = Indicator(24, "not_used")
  <1>. DEFINE solved == Solved(ev.log)
  <1>1. /\ 12 * (IF solved THEN 1 ELSE 0) = (IF solved THEN 12 ELSE 0)
        /\ 12 * (IF solved THEN 3 ELSE 2) = (IF solved THEN 36 ELSE 24)
    <2>. HIDE DEF solved
    <2>1. QED
      OBVIOUS
  <1>. DEFINE pasted == PastedLines(ev, ev.replies[i])
  <1>2. Outcome(ev, i) =
           IF pasted # {} /\ pasted \subseteq FinalCode(ev)
           THEN Indicator(12 * (IF solved THEN 1 ELSE 0), "pasted_unchanged")
           ELSE IF pasted # {} THEN Indicator(12 * (IF solved THEN 3 ELSE 2), "pasted_changed")
           ELSE IF Questioned(ev, i) THEN Indicator(36, "questioned")
           ELSE Indicator(24, "not_used")
    BY DEF Outcome
  <1>3. Outcome(ev, i) =
           IF pasted # {} /\ pasted \subseteq FinalCode(ev)
           THEN Indicator(IF solved THEN 12 ELSE 0, "pasted_unchanged")
           ELSE IF pasted # {} THEN Indicator(IF solved THEN 36 ELSE 24, "pasted_changed")
           ELSE IF Questioned(ev, i) THEN Indicator(36, "questioned")
           ELSE Indicator(24, "not_used")
    BY <1>1, <1>2
  <1>4. QED
    BY <1>3

LEMMA OutcomeLevel ==
    ASSUME NEW ev, NEW i
    PROVE  Outcome(ev, i).level \in 0..36 /\ Outcome(ev, i).reason # "unrated"
  <1>1. \A l \in {0, 12, 24, 36} : l \in 0..36
    OBVIOUS
  <1>2. \/ Outcome(ev, i) = Indicator(IF Solved(ev.log) THEN 12 ELSE 0, "pasted_unchanged")
        \/ Outcome(ev, i) = Indicator(IF Solved(ev.log) THEN 36 ELSE 24, "pasted_changed")
        \/ Outcome(ev, i) = Indicator(36, "questioned")
        \/ Outcome(ev, i) = Indicator(24, "not_used")
    BY OutcomeIs
  <1>3. QED
    BY <1>1, <1>2, IndicatorIs

\* The replies that hold code.
Coded(ev) == Where([i \in DOMAIN ev.replies |-> i], LAMBDA i : ev.replies[i].lines # {})

LEMMA CodedAre ==
    ASSUME NEW R, NEW ev, ev.replies \in Seq(R)
    PROVE  /\ Coded(ev) \in Seq(1..Len(ev.replies))
           /\ Coded(ev) # <<>> <=> \E i \in 1..Len(ev.replies) : ev.replies[i].lines # {}
  <1>. DEFINE N == Len(ev.replies)
              all == [i \in DOMAIN ev.replies |-> i]
              marked == [k \in DOMAIN all |-> ev.replies[all[k]].lines # {}]
  <1>1. Coded(ev) = Kept(all, marked)
    BY DEF Coded, Where
  <1>2. N \in Nat /\ DOMAIN ev.replies = 1..N
    OBVIOUS
  <1>. HIDE DEF N
  <1>3. all \in Seq(1..N) /\ Len(all) = N /\ \A i \in 1..N : all[i] = i
    BY <1>2
  <1>4. \A i \in 1..N : marked[i] = (ev.replies[i].lines # {})
    BY <1>2
  <1>. HIDE DEF all, marked
  <1>. DEFINE D == 1..N
  <1>11. all \in Seq(D)
    BY <1>3
  <1>. HIDE DEF D
  <1>5. Kept(all, marked) \in Seq(D)
    BY <1>11, KeptMembers
  <1>6. \A k \in 1..Len(Kept(all, marked)) : \E i \in 1..Len(all) : marked[i] /\ Kept(all, marked)[k] = all[i]
    BY <1>11, KeptMembers
  <1>7. \A i \in 1..Len(all) : marked[i] => \E k \in 1..Len(Kept(all, marked)) : Kept(all, marked)[k] = all[i]
    BY <1>11, KeptMembers
  <1>8. ASSUME Kept(all, marked) # <<>> PROVE \E i \in 1..N : ev.replies[i].lines # {}
    <2>1. 1 \in 1..Len(Kept(all, marked))
      BY <1>5, <1>8
    <2>2. PICK i \in 1..N : marked[i]
      BY <1>3, <1>6, <2>1
    <2>3. QED
      BY <1>4, <2>2
  <1>9. ASSUME NEW i \in 1..N, ev.replies[i].lines # {} PROVE Kept(all, marked) # <<>>
    <2>1. marked[i]
      BY <1>4, <1>9
    <2>2. PICK k \in 1..Len(Kept(all, marked)) : TRUE
      BY <1>3, <1>7, <2>1
    <2>3. QED
      BY <1>5, <2>2
  <1>10. QED
    BY <1>1, <1>5, <1>8, <1>9 DEF D, N

LEMMA VerificationIs ==
    ASSUME NEW R, NEW ev, ev.replies \in Seq(R)
    PROVE  IF Coded(ev) = <<>> THEN VerificationLevel(ev) = Indicator(NA, "no_ai_code")
           ELSE \E k \in DOMAIN Coded(ev) :
                   /\ VerificationLevel(ev) = Outcome(ev, Coded(ev)[k])
                   /\ \A j \in DOMAIN Coded(ev) : VerificationLevel(ev).level <= Outcome(ev, Coded(ev)[j]).level
  <1>. DEFINE found == [k \in DOMAIN Coded(ev) |-> Outcome(ev, Coded(ev)[k])]
  <1>1. VerificationLevel(ev) = IF Coded(ev) = <<>> THEN Indicator(NA, "no_ai_code") ELSE Worst(found)
    BY DEF VerificationLevel, Coded
  <1>2. Coded(ev) \in Seq(1..Len(ev.replies))
    BY CodedAre
  <1>3. CASE Coded(ev) = <<>>
    BY <1>1, <1>3
  <1>4. CASE Coded(ev) # <<>>
    <2>. DEFINE N == Len(Coded(ev))
    <2>1. N \in Nat \ {0} /\ DOMAIN Coded(ev) = 1..N
      BY <1>2, <1>4
    <2>2. DOMAIN found = 1..N /\ \A k \in 1..N : found[k] = Outcome(ev, Coded(ev)[k])
      BY <2>1
    <2>. HIDE DEF found
    <2>3. \A k \in 1..N : found[k].level \in Nat
      <3>1. TAKE k \in 1..N
      <3>2. Outcome(ev, Coded(ev)[k]).level \in 0..36
        BY OutcomeLevel
      <3>6. \A x \in 0..36 : x \in Nat
        OBVIOUS
      <3>3. Outcome(ev, Coded(ev)[k]).level \in Nat
        BY <3>2, <3>6
      <3>4. found[k] = Outcome(ev, Coded(ev)[k])
        BY <2>2
      <3>5. QED
        BY <3>3, <3>4
    <2>. HIDE DEF N
    <2>4. PICK k \in 1..N : Worst(found) = found[k] /\ \A j \in 1..N : found[k].level <= found[j].level
      BY <2>1, <2>2, <2>3, WorstIs
    <2>5. QED
      BY <1>1, <1>4, <2>1, <2>2, <2>4
  <1>5. QED
    BY <1>3, <1>4

LEMMA CorrectnessIs ==
    ASSUME NEW log
    PROVE  /\ Correctness(log).level \in {0, 12, 24, 36}
           /\ Correctness(log).reason \in
                 {"all_pass", "never_ran", "hidden_fail", "mostly_failing", "visible_fail", "no_suite"}
  <1>. DEFINE suite == SubmitTests(log)
              runs == Of(log, "RUN")
  <1>1. \E l \in {0, 12, 24, 36},
           r \in {"all_pass", "never_ran", "hidden_fail", "mostly_failing", "visible_fail", "no_suite"} :
           Correctness(log) = Indicator(l, r)
    <2>1. Correctness(log) =
            IF TotalOf(suite) > 0
            THEN IF PassedOf(suite) = TotalOf(suite) THEN Indicator(36, "all_pass")
                 ELSE IF runs = <<>> THEN Indicator(0, "never_ran")
                 ELSE IF VisibleOk(suite) THEN Indicator(24, "hidden_fail")
                 ELSE IF 2 * PassedOf(suite) < TotalOf(suite) THEN Indicator(0, "mostly_failing")
                 ELSE Indicator(12, "visible_fail")
            ELSE IF runs = <<>> THEN Indicator(0, "never_ran")
            ELSE Indicator(IF Last(runs).ratio = 100 THEN 24 ELSE IF Last(runs).ratio > 0 THEN 12 ELSE 0, "no_suite")
      BY DEF Correctness
    <2>. HIDE DEF suite, runs
    <2>2. QED
      BY <2>1
  <1>2. QED
    BY <1>1, IndicatorIs

LEMMA PartsAre ==
    ASSUME NEW S, NEW ev, ev.log \in Seq(S), Readable(ev.log)
    PROVE  RatedParts(TestParts(ev)) \in Seq(0..3)
  <1>. DEFINE parts == TestParts(ev)
  <1>1. parts.valid \in Rates /\ parts.coverage \in Rates /\ parts.mutation \in Rates
    BY DEF TestParts, ShareLevel, CoverageLevel, MutationLevel, Rates
  <1>. HIDE DEF parts
  <1>2. <<parts.valid, parts.coverage, parts.mutation>> \in Seq(Rates)
    BY <1>1
  <1>3. QED
    BY <1>2, KnownLevels DEF RatedParts, parts

LEMMA TestingIs ==
    ASSUME NEW S, NEW ev, ev.log \in Seq(S), Readable(ev.log)
    PROVE  /\ TestingLevel(ev).level \in 0..36
           /\ TestingLevel(ev).reason = Correctness(ev.log).reason
  <1>. DEFINE rated == RatedParts(TestParts(ev))
              correct == Correctness(ev.log)
  <1>1. TestingLevel(ev) = IF HasTestParts(ev) THEN WithTests(rated, correct) ELSE correct
    BY DEF TestingLevel
  <1>2. correct.level \in {0, 12, 24, 36}
    BY CorrectnessIs
  <1>3. rated \in Seq(0..3)
    BY PartsAre
  <1>. HIDE DEF rated, correct
  <1>4. Len(rated) \in Nat /\ Summed(rated) \in 0..(3 * Len(rated))
    <2>1. Summed(rated) \in 0..(3 * Len(rated))
      BY <1>3, SummedBounds, 3 \in Nat
    <2>2. QED
      BY <1>3, <2>1
  <1>. DEFINE n == Len(rated) + 1
              x == 12 * Summed(rated) + correct.level
  <1>5. n \in Nat \ {0} /\ x \in 0..(36 * n)
    BY <1>2, <1>4
  <1>6. WithTests(rated, correct) = Indicator(x \div n, correct.reason)
    BY DEF WithTests
  <1>. HIDE DEF n, x
  <1>7. x \div n \in 0..36
    BY <1>5, MeanRange, 36 \in Nat
  <1>. DEFINE q == x \div n
  <1>10. q \in 0..36 /\ WithTests(rated, correct) = Indicator(q, correct.reason)
    BY <1>6, <1>7
  <1>. HIDE DEF q
  <1>11. Indicator(q, correct.reason).level = q /\ Indicator(q, correct.reason).reason = correct.reason
    BY IndicatorIs
  <1>8. WithTests(rated, correct).level \in 0..36 /\ WithTests(rated, correct).reason = correct.reason
    BY <1>10, <1>11
  <1>9. QED
    BY <1>1, <1>2, <1>8 DEF correct

LEMMA FailingRunsNat ==
    ASSUME NEW S, NEW log \in Seq(S)
    PROVE  FailingRuns(log) \in Nat /\ RealRuns(log) \in Seq(S)
  <1>. DEFINE runs == RealRuns(log)
              T == {i \in DOMAIN runs : runs[i].ratio < 100}
  <1>1. runs \in Seq(S)
    <2>1. Of(log, "RUN") \in Seq(S)
      BY OfMembers
    <2>2. QED
      BY <2>1, KeptMembers DEF RealRuns, Where
  <1>2. FailingRuns(log) = Cardinality(T) /\ T \in SUBSET DOMAIN runs
    BY DEF FailingRuns, Count
  <1>. HIDE DEF T, runs
  <1>3. FailingRuns(log) \in Nat
    BY <1>1, <1>2, Places
  <1>4. QED
    BY <1>1, <1>3 DEF runs

LEMMA FixedIs ==
    ASSUME NEW log
    PROVE  FixedLevel(log) \in 0..3 /\ (FixedLevel(log) = 3 <=> Solved(log))
  BY DEF FixedLevel

LEMMA DebugPartsAre ==
    ASSUME NEW S, NEW ev, ev.log \in Seq(S), Readable(ev.log), HasDebugParts(ev)
    PROVE  /\ DebugParts(ev).located \in 0..3 /\ DebugParts(ev).explained \in Rates
           /\ DebugParts(ev).fixed = FixedLevel(ev.log)
           /\ DebugParts(ev).efficiency = (IF Solved(ev.log) THEN Efficiency(FailingRuns(ev.log)) ELSE NA)
           /\ DebugParts(ev).efficiency \in Rates
  <1>. DEFINE log == ev.log
              at == Of(log, "LOCATE")[1]
              judged == LatestJudge(log, "locate").levels
              fixed == FixedLevel(log)
              located == IF at.skipped THEN 0 ELSE LocatedLevel(HitRegions(ev.regions, at.lines), at.hints)
              explained == IF judged # <<>> /\ judged[1] # NA THEN judged[1] ELSE IF at.skipped THEN 0 ELSE NA
              efficiency == IF fixed = 3 THEN Efficiency(FailingRuns(log)) ELSE NA
  <1>1. DebugParts(ev) = [skipped |-> at.skipped, located |-> located, explained |-> explained, fixed |-> fixed,
                          efficiency |-> efficiency]
    BY DEF DebugParts
  <1>0. log \in Seq(S) /\ Readable(log) /\ Of(log, "LOCATE") # <<>>
    BY DEF HasDebugParts
  <1>2. at.hints \in Nat
    <2>. HIDE DEF log
    <2>1. Of(log, "LOCATE") # <<>>
      BY <1>0
    <2>2. Of(log, "LOCATE") \in Seq(S)
      BY <1>0, OfMembers
    <2>3. 1 \in 1..Len(Of(log, "LOCATE"))
      BY <2>1, <2>2
    <2>4. \A k \in 1..Len(Of(log, "LOCATE")) : \E i \in 1..Len(log) :
             log[i].type = "LOCATE" /\ Of(log, "LOCATE")[k] = log[i]
      BY <1>0, OfMembers
    <2>5. PICK i \in 1..Len(log) : log[i].type = "LOCATE" /\ at = log[i]
      BY <2>3, <2>4
    <2>6. QED
      BY <1>0, <2>5 DEF Readable, Typed
  <1>3. judged \in Seq(Rates)
    BY LatestLevels
  <1>4. located \in 0..3
    <2>. HIDE DEF at
    <2>1. QED
      BY <1>2 DEF LocatedLevel, MaxOf
  <1>5. explained \in Rates
    <2>. HIDE DEF at, judged
    <2>1. judged # <<>> => judged[1] \in Rates
      BY <1>3
    <2>2. QED
      BY <2>1 DEF Rates
  <1>6. fixed = 3 <=> Solved(log)
    BY FixedIs
  <1>7. efficiency \in Rates
    BY DEF Efficiency, Rates
  <1>. HIDE DEF located, explained, fixed, efficiency, at
  <1>8. /\ DebugParts(ev).located = located /\ DebugParts(ev).explained = explained
        /\ DebugParts(ev).fixed = fixed /\ DebugParts(ev).efficiency = efficiency
    BY <1>1
  <1>9. efficiency = IF Solved(log) THEN Efficiency(FailingRuns(log)) ELSE NA
    BY <1>6 DEF efficiency
  <1>10. QED
    BY <1>4, <1>5, <1>7, <1>8, <1>9 DEF fixed

\* The levels of the four parts, of which those that are known count.
PartLevels(parts) == <<parts.located, parts.explained, parts.fixed, parts.efficiency>>

LEMMA DebuggingIs ==
    ASSUME NEW S, NEW ev, ev.log \in Seq(S), Readable(ev.log)
    PROVE  IF ev.kind # "debug" /\ FailingRuns(ev.log) = 0 THEN DebuggingLevel(ev) = Indicator(NA, "no_failure")
           ELSE /\ DebuggingLevel(ev).level \in 0..36
                /\ DebuggingLevel(ev).reason \in {"fixed", "partially_fixed", "not_fixed"}
                /\ DebuggingLevel(ev).reason = "fixed" <=> Solved(ev.log)
  <1>. DEFINE log == ev.log
              fails == FailingRuns(log)
              parts == DebugParts(ev)
  <1>1. DebuggingLevel(ev) =
          IF ev.kind # "debug" /\ fails = 0 THEN Indicator(NA, "no_failure")
          ELSE IF HasDebugParts(ev) THEN OfParts(parts)
          ELSE IF Solved(log) THEN Indicator(12 * Efficiency(fails), "fixed")
          ELSE IF VisibleOk(SubmitTests(log)) THEN Indicator(24, "partially_fixed")
          ELSE Indicator(0, "not_fixed")
    BY DEF DebuggingLevel
  <1>2. fails \in Nat
    BY FailingRunsNat
  <1>3. ASSUME HasDebugParts(ev)
        PROVE  /\ OfParts(parts).level \in 0..36
               /\ OfParts(parts).reason \in {"fixed", "partially_fixed", "not_fixed"}
               /\ OfParts(parts).reason = "fixed" <=> Solved(log)
    <2>1. /\ parts.located \in 0..3 /\ parts.explained \in Rates
          /\ parts.fixed = FixedLevel(log) /\ parts.efficiency \in Rates
      BY <1>3, DebugPartsAre
    <2>2. parts.fixed \in 0..3 /\ (parts.fixed = 3 <=> Solved(log))
      BY <2>1, FixedIs
    <2>. HIDE DEF parts
    <2>. DEFINE all == PartLevels(parts)
    <2>3. all \in Seq(Rates) /\ 1 \in 1..Len(all) /\ all[1] # NA
      <3>1. \A x \in 0..3 : x \in Rates /\ x # NA
        BY DEF Rates, NA
      <3>2. QED
        BY <2>1, <2>2, <3>1 DEF PartLevels
    <2>. HIDE DEF all
    <2>4. Known(all) \in Seq(0..3)
      BY <2>3, KnownLevels
    <2>5. Known(all) # <<>>
      BY <2>3, KnownLevels
    <2>6. MeanLevel(Known(all)) \in 0..36
      BY <2>4, <2>5, MeanLevelRange
    <2>7. OfParts(parts) = Indicator(MeanLevel(Known(all)),
             IF parts.fixed = 3 THEN "fixed" ELSE IF parts.fixed = 2 THEN "partially_fixed" ELSE "not_fixed")
      BY DEF OfParts, all, PartLevels
    <2>8. QED
      BY <2>2, <2>6, <2>7, IndicatorIs
  <1>. HIDE DEF fails, parts, log
  <1>4. CASE ev.kind # "debug" /\ fails = 0
    BY <1>1, <1>4 DEF fails, log
  <1>5. CASE ~(ev.kind # "debug" /\ fails = 0) /\ HasDebugParts(ev)
    BY <1>1, <1>3, <1>5 DEF fails, log
  <1>6. CASE ~(ev.kind # "debug" /\ fails = 0) /\ ~HasDebugParts(ev) /\ Solved(log)
    <2>. DEFINE x == 12 * Efficiency(fails)
    <2>1. x \in 0..36
      BY <1>2 DEF Efficiency
    <2>2. DebuggingLevel(ev) = Indicator(x, "fixed")
      BY <1>1, <1>6
    <2>. HIDE DEF x
    <2>3. QED
      BY <1>6, <2>1, <2>2, IndicatorIs DEF fails, log
  <1>7. CASE ~(ev.kind # "debug" /\ fails = 0) /\ ~HasDebugParts(ev) /\ ~Solved(log)
    <2>1. DebuggingLevel(ev) \in {Indicator(24, "partially_fixed"), Indicator(0, "not_fixed")}
      BY <1>1, <1>7
    <2>2. QED
      BY <1>7, <2>1, IndicatorIs DEF fails, log
  <1>8. QED
    BY <1>4, <1>5, <1>6, <1>7

LevelPoints(level, mult) == Rounded(2000 * level * mult, 3600)

LEMMA LevelScaled ==
    ASSUME NEW k \in 0..36, NEW l \in 0..36, k <= l, NEW m \in 0..100, NEW n \in 0..100, m <= n
    PROVE  /\ LevelPoints(k, m) \in Nat /\ LevelPoints(l, n) \in Nat
           /\ LevelPoints(k, m) <= LevelPoints(l, n)
  <1>1. 2000 * k \in Nat /\ 2000 * l \in Nat /\ 2000 * k <= 2000 * l /\ m \in Nat /\ n \in Nat
    OBVIOUS
  <1>. DEFINE a == 2000 * k
              b == 2000 * l
  <1>2. a \in Nat /\ b \in Nat /\ a <= b
    BY <1>1
  <1>. HIDE DEF a, b
  <1>3. a * m \in Nat /\ b * n \in Nat /\ a * m <= b * n
    BY <1>1, <1>2, ProductMonotone
  <1>4. Rounded(a * m, 3600) \in Nat /\ Rounded(b * n, 3600) \in Nat /\ Rounded(a * m, 3600) <= Rounded(b * n, 3600)
    BY <1>3, RoundedMonotone, 3600 \in Nat \ {0}
  <1>5. QED
    BY <1>4 DEF a, b, LevelPoints

\* The points of an axis in the second engine.
PointsV2(level, standIn, mult) ==
    IF level # NA THEN LevelPoints(level, mult)
    ELSE IF standIn # NA THEN Rounded(standIn * mult, 100) ELSE NA

\* One level is no more than another, or both are none and their stand-ins are in that order.
AtMostFound(level, standIn, those, stands) ==
    \/ level \in 0..36 /\ those \in 0..36 /\ level <= those
    \/ level = NA /\ those = NA /\ AtMostScore(standIn, stands)

LEMMA PointsMonotone ==
    ASSUME NEW level, NEW standIn, NEW those, NEW stands, AtMostFound(level, standIn, those, stands),
           NEW m \in 0..100, NEW n \in 0..100, m <= n
    PROVE  AtMostScore(PointsV2(level, standIn, m), PointsV2(those, stands, n))
  <1>1. CASE level \in 0..36 /\ those \in 0..36 /\ level <= those
    <2>. DEFINE x == LevelPoints(level, m)
                y == LevelPoints(those, n)
    <2>1. x \in Nat /\ y \in Nat /\ x <= y
      BY <1>1, LevelScaled
    <2>2. level # NA /\ those # NA
      BY <1>1 DEF NA
    <2>3. PointsV2(level, standIn, m) = x /\ PointsV2(those, stands, n) = y
      BY <2>2 DEF PointsV2
    <2>. HIDE DEF x, y
    <2>4. QED
      BY <2>1, <2>3 DEF AtMostScore
  <1>2. CASE level = NA /\ those = NA /\ AtMostScore(standIn, stands)
    <2>. DEFINE x == IF standIn = NA THEN NA ELSE Rounded(standIn * m, 100)
                y == IF stands = NA THEN NA ELSE Rounded(stands * n, 100)
    <2>1. AtMostScore(x, y)
      BY <1>2, ScaledMonotone
    <2>2. PointsV2(level, standIn, m) = x /\ PointsV2(those, stands, n) = y
      BY <1>2 DEF PointsV2
    <2>. HIDE DEF x, y
    <2>3. QED
      BY <2>1, <2>2
  <1>3. QED
    BY <1>1, <1>2 DEF AtMostFound

\* The second engine: no lower levels and no lower multiplier are no lower an overall score.
LEMMA ScoredV2Monotone ==
    ASSUME NEW found, NEW standIn, NEW those, NEW stands,
           \A a \in Axes : AtMostFound(found[a].level, standIn[a], those[a].level, stands[a]),
           NEW m \in 0..100, NEW n \in 0..100, m <= n
    PROVE  ScoredV2(found, standIn, m).overall <= ScoredV2(those, stands, n).overall
  <1>. DEFINE x == [a \in Axes |-> PointsV2(found[a].level, standIn[a], m)]
              y == [a \in Axes |-> PointsV2(those[a].level, stands[a], n)]
  <1>1. ScoredV2(found, standIn, m).overall = Overall(x) /\ ScoredV2(those, stands, n).overall = Overall(y)
    BY DEF ScoredV2, PointsV2, LevelPoints
  <1>2. \A a \in Axes : AtMostScore(x[a], y[a])
    BY PointsMonotone
  <1>3. DOMAIN x = Axes /\ DOMAIN y = Axes /\ x = [a \in Axes |-> x[a]] /\ y = [a \in Axes |-> y[a]]
    OBVIOUS
  <1>. HIDE DEF x, y
  <1>4. \A a \in Axes : x[a] \in Score /\ y[a] \in Score
    BY <1>2 DEF AtMostScore, Score
  <1>5. x \in [Axes -> Score] /\ y \in [Axes -> Score]
    BY <1>3, <1>4
  <1>6. QED
    BY <1>1, <1>2, <1>3, <1>5, OverallMonotone

-----------------------------------------------------------------------------
(* The axes that apply                                                     *)

\* The evidence of an attempt, as the engines read it.
Evident(ev) ==
    /\ \E S : ev.log \in Seq(S)
    /\ \E R : ev.replies \in Seq(R)
    /\ Readable(ev.log)

\* The axes that apply: three always, the others where there is something to rate.
Applicable(ev) ==
    {"understanding", "hypothesis", "testing"}
    \union {a \in {"prompting"} : Of(ev.log, "PROMPT") # <<>>}
    \union {a \in {"verification"} : Coded(ev) # <<>>}
    \union {a \in {"debugging"} : ev.kind = "debug" \/ FailingRuns(ev.log) # 0}

LEMMA IndicatorLevels ==
    ASSUME NEW ev, Evident(ev)
    PROVE  \A a \in Axes : /\ Indicators(ev)[a].level \in Levels
                           /\ Indicators(ev)[a].level = NA =>
                                 IF a \in Applicable(ev)
                                 THEN a \in {"understanding", "prompting"} /\ Indicators(ev)[a].reason = "unrated"
                                 ELSE Indicators(ev)[a].reason # "unrated"
                           /\ a \notin Applicable(ev) => Indicators(ev)[a].level = NA
  <1>1. PICK S : ev.log \in Seq(S)
    BY DEF Evident
  <1>2. PICK R : ev.replies \in Seq(R)
    BY DEF Evident
  <1>3. Readable(ev.log)
    BY DEF Evident
  <1>4. \/ UnderstandingLevel(ev) = Indicator(NA, "unrated")
        \/ UnderstandingLevel(ev).level \in 0..36
    BY <1>1, <1>3, UnderstandingIs
  <1>5. BestHypothesis(ev).level \in 0..36
    BY <1>1, <1>3, HypothesisIs
  <1>6. IF Of(ev.log, "PROMPT") = <<>> THEN PromptingLevel(ev) = Indicator(NA, "no_ai_use")
        ELSE PromptingLevel(ev) = Indicator(NA, "unrated") \/ PromptingLevel(ev).level \in 0..36
    BY <1>1, <1>3, PromptingIs
  <1>7. IF Coded(ev) = <<>> THEN VerificationLevel(ev) = Indicator(NA, "no_ai_code")
        ELSE VerificationLevel(ev).level \in 0..36
    <2>1. IF Coded(ev) = <<>> THEN VerificationLevel(ev) = Indicator(NA, "no_ai_code")
          ELSE \E k \in DOMAIN Coded(ev) : VerificationLevel(ev) = Outcome(ev, Coded(ev)[k])
      BY <1>2, VerificationIs
    <2>2. QED
      BY <2>1, OutcomeLevel
  <1>8. TestingLevel(ev).level \in 0..36
    BY <1>1, <1>3, TestingIs
  <1>9. IF ev.kind # "debug" /\ FailingRuns(ev.log) = 0 THEN DebuggingLevel(ev) = Indicator(NA, "no_failure")
        ELSE DebuggingLevel(ev).level \in 0..36
    BY <1>1, <1>3, DebuggingIs
  <1>10. \A x \in 0..36 : x \in Levels /\ x # NA
    BY DEF Levels, NA
  <1>11. NA \in Levels
    BY DEF Levels
  <1>. DEFINE found == Indicators(ev)
  <1>12. /\ found["understanding"] = UnderstandingLevel(ev) /\ found["hypothesis"] = BestHypothesis(ev)
         /\ found["prompting"] = PromptingLevel(ev) /\ found["verification"] = VerificationLevel(ev)
         /\ found["testing"] = TestingLevel(ev) /\ found["debugging"] = DebuggingLevel(ev)
    BY DEF Indicators
  <1>13. /\ "understanding" \in Applicable(ev) /\ "hypothesis" \in Applicable(ev) /\ "testing" \in Applicable(ev)
         /\ "prompting" \in Applicable(ev) <=> Of(ev.log, "PROMPT") # <<>>
         /\ "verification" \in Applicable(ev) <=> Coded(ev) # <<>>
         /\ "debugging" \in Applicable(ev) <=> ev.kind = "debug" \/ FailingRuns(ev.log) # 0
    BY DEF Applicable
  <1>. HIDE DEF found
  <1>. DEFINE Is(a) == /\ found[a].level \in Levels
                       /\ found[a].level = NA =>
                                 IF a \in Applicable(ev)
                                 THEN a \in {"understanding", "prompting"} /\ found[a].reason = "unrated"
                                 ELSE found[a].reason # "unrated"
                       /\ a \notin Applicable(ev) => found[a].level = NA
  <1>21. \A r : Indicator(NA, r).level = NA /\ Indicator(NA, r).reason = r
    BY IndicatorIs
  <1>14. Is("understanding")
    <2>1. \/ found["understanding"].level = NA /\ found["understanding"].reason = "unrated"
          \/ found["understanding"].level \in 0..36
      BY <1>4, <1>12, <1>21
    <2>2. QED
      BY <1>10, <1>11, <1>13, <2>1
  <1>15. Is("hypothesis")
    BY <1>5, <1>10, <1>12, <1>13
  <1>16. Is("prompting")
    <2>1. IF Of(ev.log, "PROMPT") = <<>>
          THEN found["prompting"].level = NA /\ found["prompting"].reason = "no_ai_use"
          ELSE \/ found["prompting"].level = NA /\ found["prompting"].reason = "unrated"
               \/ found["prompting"].level \in 0..36
      BY <1>6, <1>12, <1>21
    <2>2. QED
      BY <1>10, <1>11, <1>13, <2>1
  <1>17. Is("verification")
    <2>1. IF Coded(ev) = <<>>
          THEN found["verification"].level = NA /\ found["verification"].reason = "no_ai_code"
          ELSE found["verification"].level \in 0..36
      BY <1>7, <1>12, <1>21
    <2>2. QED
      BY <1>10, <1>11, <1>13, <2>1
  <1>18. Is("testing")
    BY <1>8, <1>10, <1>12, <1>13
  <1>19. Is("debugging")
    <2>1. IF ev.kind # "debug" /\ FailingRuns(ev.log) = 0
          THEN found["debugging"].level = NA /\ found["debugging"].reason = "no_failure"
          ELSE found["debugging"].level \in 0..36
      BY <1>9, <1>12, <1>21
    <2>2. QED
      BY <1>10, <1>11, <1>13, <2>1
  <1>20. QED
    <2>. HIDE DEF Is
    <2>1. \A a \in Axes : Is(a)
      BY <1>14, <1>15, <1>16, <1>17, <1>18, <1>19 DEF Axes
    <2>2. QED
      BY <2>1 DEF Is, found

LEMMA PointsApply ==
    ASSUME NEW level \in Levels, NEW standIn \in Score, NEW m \in 0..100
    PROVE  /\ PointsV2(level, standIn, m) \in Score
           /\ PointsV2(level, standIn, m) = NA <=> level = NA /\ standIn = NA
  <1>1. CASE level # NA
    <2>1. level \in 0..36 /\ m <= m /\ level <= level
      BY <1>1 DEF Levels
    <2>2. LevelPoints(level, m) \in Nat
      BY <2>1, LevelScaled
    <2>3. PointsV2(level, standIn, m) \in Nat
      BY <1>1, <2>2 DEF PointsV2
    <2>4. \A x \in Nat : x # NA /\ x \in Score
      BY DEF NA, Score
    <2>5. QED
      BY <1>1, <2>3, <2>4
  <1>2. CASE level = NA
    <2>1. AtMostScore(standIn, standIn) /\ m <= m
      BY SameScore
    <2>2. standIn # NA => Rounded(standIn * m, 100) \in Nat
      BY <2>1, ScaledMonotone
    <2>3. PointsV2(level, standIn, m) = IF standIn # NA THEN Rounded(standIn * m, 100) ELSE NA
      BY <1>2 DEF PointsV2
    <2>4. \A x \in Nat : x # NA /\ x \in Score
      BY DEF NA, Score
    <2>5. NA \in Score
      BY DEF Score
    <2>6. QED
      BY <1>2, <2>2, <2>3, <2>4, <2>5
  <1>3. QED
    BY <1>1, <1>2

\* What stands in for the axes the judges did not rate.
StandInsOf(ev, explain) == StandIns(Indicators(ev), ScoreAttempt(ev.log, explain, ev.kind), explain)

LEMMA StandInIs ==
    ASSUME NEW ev, NEW explain
    PROVE  \A a \in Axes : StandInsOf(ev, explain)[a] =
              IF Indicators(ev)[a].reason = "unrated"
              THEN IF a = "understanding" THEN explain ELSE RawAxes(ev.log, explain, ev.kind)[a] ELSE NA
  <1>1. ScoreAttempt(ev.log, explain, ev.kind).raw = RawAxes(ev.log, explain, ev.kind)
    BY DEF ScoreAttempt, Scored
  <1>2. QED
    BY <1>1 DEF StandInsOf, StandIns, Unrated

LEMMA StandInsAre ==
    ASSUME NEW ev, Evident(ev), NEW explain \in Nat
    PROVE  \A a \in Axes : /\ StandInsOf(ev, explain)[a] \in Score
                           /\ Indicators(ev)[a].level = NA =>
                                 (StandInsOf(ev, explain)[a] # NA <=> a \in Applicable(ev))
  <1>1. PICK S : ev.log \in Seq(S)
    BY DEF Evident
  <1>2. Readable(ev.log)
    BY DEF Evident
  <1>. DEFINE raw == RawAxes(ev.log, explain, ev.kind)
              found == Indicators(ev)
  <1>3. \A a \in Axes : raw[a] \in Score
    BY <1>1, <1>2, RawScores
  <1>4. raw["prompting"] = Prompting(ev.log)
    BY DEF RawAxes
  <1>5. "prompting" \in Applicable(ev) => raw["prompting"] \in Nat
    <2>1. "prompting" \in Applicable(ev) => Of(ev.log, "PROMPT") # <<>>
      BY DEF Applicable
    <2>2. Prompting(ev.log) \in IF Of(ev.log, "PROMPT") = <<>> THEN {NA} ELSE Nat
      BY <1>1, PromptingRange
    <2>3. QED
      BY <1>4, <2>1, <2>2
  <1>6. \A a \in Axes : found[a].level = NA =>
           IF a \in Applicable(ev) THEN a \in {"understanding", "prompting"} /\ found[a].reason = "unrated"
           ELSE found[a].reason # "unrated"
    BY IndicatorLevels
  <1>7. \A x \in Nat : x \in Score /\ x # NA
    BY DEF Score, NA
  <1>8. NA \in Score
    BY DEF Score
  <1>9. \A a \in Axes : StandInsOf(ev, explain)[a] =
              IF found[a].reason = "unrated" THEN IF a = "understanding" THEN explain ELSE raw[a] ELSE NA
    BY StandInIs
  <1>. HIDE DEF raw, found
  <1>10. ASSUME NEW a \in Axes PROVE StandInsOf(ev, explain)[a] \in Score
    BY <1>3, <1>7, <1>8, <1>9
  <1>11. ASSUME NEW a \in Axes, found[a].level = NA
         PROVE  StandInsOf(ev, explain)[a] # NA <=> a \in Applicable(ev)
    <2>1. CASE a \in Applicable(ev)
      <3>1. a \in {"understanding", "prompting"} /\ found[a].reason = "unrated"
        BY <1>6, <1>11, <2>1
      <3>2. StandInsOf(ev, explain)[a] \in Nat
        BY <1>5, <1>9, <2>1, <3>1
      <3>3. QED
        BY <1>7, <2>1, <3>2
    <2>2. CASE a \notin Applicable(ev)
      BY <1>6, <1>9, <1>11, <2>2
    <2>3. QED
      BY <2>1, <2>2
  <1>12. QED
    BY <1>10, <1>11 DEF found

\* The axes of a report of the second engine, and those of them that apply.
LEMMA AxesV2 ==
    ASSUME NEW ev, Evident(ev), NEW explain \in Nat
    PROVE  /\ ScoreAttemptV2(ev, explain).axes =
                 [a \in Axes |-> PointsV2(Indicators(ev)[a].level, StandInsOf(ev, explain)[a], Multiplier(ev.log))]
           /\ \A a \in Axes : ScoreAttemptV2(ev, explain).axes[a] # NA <=> a \in Applicable(ev)
  <1>1. ScoreAttemptV2(ev, explain).axes =
           [a \in Axes |-> PointsV2(Indicators(ev)[a].level, StandInsOf(ev, explain)[a], Multiplier(ev.log))]
    BY DEF ScoreAttemptV2, ScoreFound, ScoredV2, StandInsOf, PointsV2, LevelPoints
  <1>. DEFINE m == Multiplier(ev.log)
              found == Indicators(ev)
              standIn == StandInsOf(ev, explain)
  <1>2. m \in 0..100
    <2>1. PICK S : ev.log \in Seq(S)
      BY DEF Evident
    <2>2. m \in 40..100
      BY <2>1, MultiplierRange
    <2>3. QED
      BY <2>2
  <1>. HIDE DEF m
  <1>3. \A a \in Axes : /\ found[a].level \in Levels
                        /\ a \notin Applicable(ev) => found[a].level = NA
    BY IndicatorLevels
  <1>4. \A a \in Axes : /\ standIn[a] \in Score
                        /\ found[a].level = NA => (standIn[a] # NA <=> a \in Applicable(ev))
    BY StandInsAre
  <1>. HIDE DEF found, standIn
  <1>5. ASSUME NEW a \in Axes PROVE PointsV2(found[a].level, standIn[a], m) # NA <=> a \in Applicable(ev)
    <2>1. PointsV2(found[a].level, standIn[a], m) = NA <=> found[a].level = NA /\ standIn[a] = NA
      BY <1>2, <1>3, <1>4, PointsApply
    <2>2. QED
      BY <1>3, <1>4, <2>1
  <1>6. \A a \in Axes : ScoreAttemptV2(ev, explain).axes[a] = PointsV2(found[a].level, standIn[a], m)
    BY <1>1 DEF found, standIn, m
  <1>7. QED
    BY <1>1, <1>5, <1>6

\* The second engine's overall, from the levels and what stands in for them.
LEMMA OverallV2 ==
    ASSUME NEW ev, NEW explain
    PROVE  ScoreAttemptV2(ev, explain).overall =
              ScoredV2(Indicators(ev), StandInsOf(ev, explain), Multiplier(ev.log)).overall
  BY DEF ScoreAttemptV2, ScoreFound, StandInsOf

-----------------------------------------------------------------------------
(* An integrity signal never pays, with the second engine                  *)

LEMMA SignalNeverPaysV2 ==
    ASSUME NEW ev, NEW ew, SameButLog(ev, ew), Evident(ev), NEW k \in 1..Len(ev.log),
           ew.log = RemoveAt(ev.log, k), ev.log[k].type \notin ReadTypes,
           Sorted(ev.log), Tick \in Nat, NEW explain \in Nat
    PROVE  ScoreAttemptV2(ev, explain).overall <= ScoreAttemptV2(ew, explain).overall
  <1>. DEFINE log == ev.log
              t == RemoveAt(log, k)
  <1>0. PICK S : log \in Seq(S)
    BY DEF Evident
  <1>1. /\ log \in Seq(S) /\ Readable(log) /\ k \in 1..Len(log) /\ log[k].type \notin ReadTypes /\ Sorted(log)
        /\ ew.log = t /\ ew.kind = ev.kind
    BY <1>0 DEF Evident, SameButLog
  <1>. HIDE DEF log
  <1>2. t \in Seq(S)
    BY <1>1, Without
  <1>3. Alike(log, t, ReadTypes)
    BY <1>1, SignalKeepsEvents
  <1>4. \A a \in Axes : AtMostScore(RawAxes(log, explain, ev.kind)[a], RawAxes(t, explain, ev.kind)[a])
    BY <1>1, SignalRaw
  <1>5. Multiplier(log) <= Multiplier(t)
    BY <1>1, SignalScales
  <1>. HIDE DEF t
  <1>6. Indicators(ew) = Indicators(ev)
    <2>1. Alike(log, t, {"PROMPT", "HYPOTHESIS", "CODE_EDIT", "RUN", "SUBMIT_TESTS", "JUDGE", "STUDENT_TESTS", "LOCATE"})
      BY <1>3 DEF Alike, ReadTypes
    <2>2. log = ev.log /\ t = ew.log
      BY <1>1 DEF log
    <2>3. QED
      BY <2>1, <2>2, AlikeIndicators
  <1>7. Multiplier(log) \in 40..100 /\ Multiplier(t) \in 40..100
    BY <1>1, <1>2, MultiplierRange
  <1>. DEFINE found == Indicators(ev)
              standIn == StandInsOf(ev, explain)
              stands == StandInsOf(ew, explain)
              m == Multiplier(log)
              n == Multiplier(t)
  <1>8. m \in 0..100 /\ n \in 0..100 /\ m <= n
    BY <1>5, <1>7
  <1>9. \A a \in Axes : /\ standIn[a] = (IF found[a].reason = "unrated"
                              THEN IF a = "understanding" THEN explain ELSE RawAxes(log, explain, ev.kind)[a] ELSE NA)
                        /\ stands[a] = (IF found[a].reason = "unrated"
                              THEN IF a = "understanding" THEN explain ELSE RawAxes(t, explain, ev.kind)[a] ELSE NA)
    BY <1>1, <1>6, StandInIs DEF log
  <1>10. \A a \in Axes : found[a].level \in Levels
    BY IndicatorLevels
  <1>. HIDE DEF found, standIn, stands, m, n
  <1>11. ASSUME NEW a \in Axes PROVE AtMostFound(found[a].level, standIn[a], found[a].level, stands[a])
    <2>1. AtMostScore(standIn[a], stands[a])
      <3>1. AtMostScore(explain, explain) /\ AtMostScore(NA, NA)
        BY DEF AtMostScore
      <3>2. QED
        BY <1>4, <1>9, <3>1
    <2>2. found[a].level = NA \/ (found[a].level \in 0..36 /\ found[a].level <= found[a].level)
      <3>1. \A x \in 0..36 : x <= x
        OBVIOUS
      <3>2. found[a].level = NA \/ found[a].level \in 0..36
        BY <1>10 DEF Levels
      <3>3. QED
        BY <3>1, <3>2
    <2>3. QED
      BY <2>1, <2>2 DEF AtMostFound
  <1>12. ScoredV2(found, standIn, m).overall <= ScoredV2(found, stands, n).overall
    BY <1>8, <1>11, ScoredV2Monotone
  <1>13. /\ ScoreAttemptV2(ev, explain).overall = ScoredV2(found, standIn, m).overall
         /\ ScoreAttemptV2(ew, explain).overall = ScoredV2(found, stands, n).overall
    BY <1>1, <1>6, OverallV2 DEF found, standIn, stands, m, n, log
  <1>14. QED
    BY <1>12, <1>13

-----------------------------------------------------------------------------
(* A judge's outage                                                        *)

\* The event, a verdict with no level below the lowest.
Lowest(e) == IF e.type # "JUDGE" THEN e
             ELSE [e EXCEPT !.levels = [j \in DOMAIN e.levels |-> MaxOf(0, e.levels[j])]]

LEMMA LowestIs ==
    ASSUME NEW e, Typed(e)
    PROVE  Typed(Lowest(e)) /\ Lowest(e).type = e.type /\ (e.type # "JUDGE" => Lowest(e) = e)
  <1>1. CASE e.type # "JUDGE"
    BY <1>1 DEF Lowest
  <1>2. CASE e.type = "JUDGE"
    <2>. DEFINE levels == [j \in DOMAIN e.levels |-> MaxOf(0, e.levels[j])]
                f == [e EXCEPT !.levels = levels]
    <2>1. Lowest(e) = f
      BY <1>2 DEF Lowest
    <2>2. /\ e.ts \in Int /\ {"type", "ts", "flagged", "kind", "levels"} \subseteq DOMAIN e
          /\ e.levels \in Seq(Rates) /\ (e.kind = "hypothesis" => e.levels # <<>>)
      BY <1>2 DEF Typed
    <2>3. levels \in Seq(Rates) /\ Len(levels) = Len(e.levels)
      <3>1. \A x \in Rates : MaxOf(0, x) \in Rates
        BY DEF Rates, MaxOf, NA
      <3>2. \A j \in 1..Len(e.levels) : MaxOf(0, e.levels[j]) \in Rates
        BY <2>2, <3>1
      <3>3. QED
        BY <2>2, <3>2
    <2>4. e.kind = "hypothesis" => levels # <<>>
      BY <2>2, <2>3
    <2>. HIDE DEF levels
    <2>5. /\ DOMAIN f = DOMAIN e /\ f.levels = levels /\ f.ts = e.ts /\ f.type = e.type /\ f.kind = e.kind
      BY <2>2
    <2>. HIDE DEF f
    <2>6. Typed(f)
      BY <1>2, <2>2, <2>3, <2>4, <2>5 DEF Typed
    <2>7. QED
      BY <1>2, <2>1, <2>5, <2>6
  <1>3. QED
    BY <1>1, <1>2

\* The axes that apply are those that would apply had every judge given the lowest level.
LEMMA OutageApplies ==
    ASSUME NEW ev, NEW ew, SameButLog(ev, ew), Evident(ev),
           ew.log = [i \in DOMAIN ev.log |-> Lowest(ev.log[i])]
    PROVE  Evident(ew) /\ Applicable(ew) = Applicable(ev)
  <1>. DEFINE log == ev.log
              t == [i \in DOMAIN log |-> Lowest(log[i])]
  <1>0. PICK S : log \in Seq(S)
    BY DEF Evident
  <1>1. log \in Seq(S) /\ Readable(log) /\ ew.log = t /\ ev.log = log
    BY <1>0 DEF Evident
  <1>. HIDE DEF log
  <1>. DEFINE T == {Lowest(log[i]) : i \in DOMAIN log}
  <1>2. t \in Seq(T) /\ Len(t) = Len(log) /\ \A i \in 1..Len(log) : t[i] = Lowest(log[i])
    BY <1>1
  <1>. HIDE DEF T, t
  <1>3. \A i \in 1..Len(log) : /\ Typed(t[i]) /\ t[i].type = log[i].type
                               /\ log[i].type # "JUDGE" => t[i] = log[i]
    BY <1>1, <1>2, LowestIs DEF Readable
  <1>4. Readable(t)
    BY <1>2, <1>3 DEF Readable
  <1>5. ASSUME NEW type, type # "JUDGE" PROVE Of(t, type) = Of(log, type)
    <2>1. \A i \in 1..Len(log) : log[i].type = t[i].type /\ (log[i].type = type => log[i] = t[i])
      BY <1>3, <1>5
    <2>2. QED
      BY <1>1, <1>2, <2>1, OfSame
  <1>6. Of(t, "PROMPT") = Of(log, "PROMPT") /\ Of(t, "RUN") = Of(log, "RUN")
    BY <1>5
  <1>7. FailingRuns(t) = FailingRuns(log)
    BY <1>6 DEF FailingRuns, RealRuns
  <1>8. ew.replies = ev.replies /\ ew.kind = ev.kind
    BY DEF SameButLog
  <1>9. Coded(ew) = Coded(ev)
    BY <1>8 DEF Coded
  <1>10. Evident(ew)
    BY <1>1, <1>2, <1>4, <1>8 DEF Evident
  <1>11. Applicable(ew) = Applicable(ev)
    BY <1>1, <1>6, <1>7, <1>8, <1>9 DEF Applicable
  <1>12. QED
    BY <1>10, <1>11

-----------------------------------------------------------------------------
(* Logging an event                                                        *)

\* The places of the events with a stamp up to that of a new one are a beginning.
LEMMA PlaceOf ==
    ASSUME NEW S, NEW log \in Seq(S), \A i \in 1..Len(log) : log[i].ts \in Int, Sorted(log), NEW t \in Int
    PROVE  \E n \in 0..Len(log) :
              /\ n = Cardinality({i \in DOMAIN log : log[i].ts <= t})
              /\ \A i \in 1..Len(log) : i <= n <=> log[i].ts <= t
  <1>. DEFINE T == {i \in DOMAIN log : log[i].ts <= t}
              U == {i \in 1..Len(log) : log[i].ts > t}
  <1>1. Len(log) \in Nat /\ DOMAIN log = 1..Len(log)
    OBVIOUS
  <1>2. \E n \in 0..Len(log) : \A i \in 1..Len(log) : i <= n <=> log[i].ts <= t
    <2>1. CASE U = {}
      <3>1. \A i \in 1..Len(log) : log[i].ts <= t /\ i <= Len(log)
        BY <2>1
      <3>2. Len(log) \in 0..Len(log)
        BY <1>1
      <3>3. QED
        BY <3>1, <3>2
    <2>2. CASE U # {}
      <3>1. U \in SUBSET Nat
        OBVIOUS
      <3>2. PICK m \in U : \A i \in U : m <= i
        <4>. HIDE DEF U
        <4>1. QED
          BY <2>2, <3>1, LeastNumber
      <3>3. m \in 1..Len(log) /\ log[m].ts > t
        BY <3>2
      <3>4. ASSUME NEW i \in 1..Len(log) PROVE i <= m - 1 <=> log[i].ts <= t
        <4>1. CASE i < m
          <5>1. i \notin U
            BY <3>2, <3>3, <4>1
          <5>2. QED
            BY <3>3, <4>1, <5>1
        <4>2. CASE m <= i
          <5>1. log[m].ts <= log[i].ts
            BY <3>3, <4>2 DEF Sorted
          <5>2. QED
            BY <3>3, <4>2, <5>1
        <4>3. QED
          BY <3>3, <4>1, <4>2
      <3>5. m - 1 \in 0..Len(log)
        BY <1>1, <3>3
      <3>6. QED
        BY <3>4, <3>5
    <2>3. QED
      BY <2>1, <2>2
  <1>3. PICK n \in 0..Len(log) : \A i \in 1..Len(log) : i <= n <=> log[i].ts <= t
    BY <1>2
  <1>4. T = 1..n
    <2>1. \A i \in 1..n : i \in 1..Len(log) /\ i <= n
      BY <1>1
    <2>2. \A i \in 1..Len(log) : i <= n => i \in 1..n
      BY <1>1
    <2>3. QED
      BY <1>1, <1>3, <2>1, <2>2
  <1>5. Cardinality(1..n) = n
    <2>1. Cardinality(1..n) = (IF 1 > n THEN 0 ELSE n - 1 + 1)
      BY <1>1, FS_Interval, 1 \in Int, n \in Int
    <2>2. QED
      BY <1>1, <2>1
  <1>. HIDE DEF T
  <1>6. n = Cardinality(T)
    BY <1>4, <1>5
  <1>7. QED
    BY <1>3, <1>6 DEF T

\* Logging keeps the order of the stamps, and adds the event to those of the log.
LEMMA LoggedIs ==
    ASSUME NEW S, NEW log \in Seq(S), NEW e \in S, \A i \in 1..Len(log) : log[i].ts \in Int, Sorted(log), e.ts \in Int
    PROVE  /\ Logged(log, e) \in Seq(S) /\ Sorted(Logged(log, e))
           /\ \A i \in 1..Len(log) : \E j \in 1..Len(Logged(log, e)) : Logged(log, e)[j] = log[i]
           /\ \E j \in 1..Len(Logged(log, e)) : Logged(log, e)[j] = e
  <1>1. PICK n \in 0..Len(log) :
           /\ n = Cardinality({i \in DOMAIN log : log[i].ts <= e.ts})
           /\ \A i \in 1..Len(log) : i <= n <=> log[i].ts <= e.ts
    BY PlaceOf
  <1>. DEFINE N == Len(log)
              u == SubSeq(log, 1, n)
              v == SubSeq(log, n + 1, N)
              w == u \o <<e>> \o v
  <1>2. Logged(log, e) = w
    BY <1>1 DEF Logged
  <1>3. N \in Nat /\ n \in 0..N /\ \A i \in 1..N : log[i] \in S
    OBVIOUS
  <1>4. u \in Seq(S) /\ Len(u) = n /\ \A i \in 1..n : u[i] = log[i]
    <2>1. \A i \in 1..n : log[i] \in S
      BY <1>3
    <2>2. u \in Seq(S) /\ Len(u) = (IF 1 <= n THEN n - 1 + 1 ELSE 0) /\ \A i \in 1..(n - 1 + 1) : u[i] = log[1 + i - 1]
      BY <1>3, <2>1, SubSeqProperties, 1 \in Int, n \in Int
    <2>. HIDE DEF u
    <2>3. QED
      BY <1>3, <2>2
  <1>5. v \in Seq(S) /\ Len(v) = N - n /\ \A i \in 1..(N - n) : v[i] = log[n + i]
    <2>1. \A i \in (n + 1)..N : log[i] \in S
      BY <1>3
    <2>2. v \in Seq(S) /\ Len(v) = (IF n + 1 <= N THEN N - (n + 1) + 1 ELSE 0)
          /\ \A i \in 1..(N - (n + 1) + 1) : v[i] = log[(n + 1) + i - 1]
      BY <1>3, <2>1, SubSeqProperties, N \in Int, n + 1 \in Int
    <2>. HIDE DEF v
    <2>3. QED
      BY <1>3, <2>2
  <1>. HIDE DEF u, v, N
  <1>6. /\ w \in Seq(S) /\ Len(w) = N + 1
        /\ \A i \in 1..n : w[i] = log[i]
        /\ w[n + 1] = e
        /\ \A i \in (n + 2)..(N + 1) : w[i] = log[i - 1]
    <2>. DEFINE x == u \o <<e>>
    <2>0. <<e>> \in Seq(S) /\ Len(<<e>>) = 1 /\ <<e>>[1] = e
      OBVIOUS
    <2>1. /\ x \in Seq(S) /\ Len(x) = Len(u) + Len(<<e>>)
          /\ \A i \in 1..(Len(u) + Len(<<e>>)) : x[i] = IF i <= Len(u) THEN u[i] ELSE <<e>>[i - Len(u)]
      BY <1>4, <2>0, ConcatProperties
    <2>. HIDE DEF x
    <2>2. x \in Seq(S) /\ Len(x) = n + 1 /\ (\A i \in 1..n : x[i] = log[i]) /\ x[n + 1] = e
      <3>1. n \in Int /\ n >= 0 /\ n + 1 - n = 1
        BY <1>3
      <3>2. \A i \in 1..n : i \in 1..(n + 1) /\ i <= n
        BY <3>1
      <3>3. n + 1 \in 1..(n + 1) /\ ~(n + 1 <= n)
        BY <3>1
      <3>4. x \in Seq(S) /\ Len(x) = n + 1
        BY <1>4, <2>0, <2>1
      <3>5. \A i \in 1..(n + 1) : x[i] = IF i <= n THEN u[i] ELSE <<e>>[i - n]
        BY <1>4, <2>0, <2>1
      <3>6. x[n + 1] = e
        BY <2>0, <3>1, <3>3, <3>5
      <3>7. QED
        BY <1>4, <3>2, <3>4, <3>5, <3>6
    <2>3. /\ x \o v \in Seq(S) /\ Len(x \o v) = Len(x) + Len(v)
          /\ \A i \in 1..(Len(x) + Len(v)) : (x \o v)[i] = IF i <= Len(x) THEN x[i] ELSE v[i - Len(x)]
      BY <1>5, <2>2, ConcatProperties
    <2>4. w = x \o v
      BY DEF x
    <2>. HIDE DEF w
    <2>5. w \in Seq(S) /\ Len(w) = N + 1
      BY <1>3, <1>5, <2>2, <2>3, <2>4
    <2>6. (\A i \in 1..n : w[i] = log[i]) /\ w[n + 1] = e
      BY <1>3, <1>5, <2>2, <2>3, <2>4
    <2>7. ASSUME NEW i \in (n + 2)..(N + 1) PROVE w[i] = log[i - 1]
      <3>1. w[i] = v[i - (n + 1)] /\ i - (n + 1) \in 1..(N - n)
        BY <1>3, <1>5, <2>2, <2>3, <2>4
      <3>2. v[i - (n + 1)] = log[n + (i - (n + 1))] /\ n + (i - (n + 1)) = i - 1
        BY <1>3, <1>5, <3>1
      <3>3. QED
        BY <3>1, <3>2
    <2>8. QED
      BY <2>5, <2>6, <2>7
  <1>. HIDE DEF w
  <1>7. Sorted(w)
    <2>1. SUFFICES ASSUME NEW i \in 1..(N + 1), NEW j \in 1..(N + 1), i <= j PROVE w[i].ts <= w[j].ts
      BY <1>6 DEF Sorted
    <2>2. \A a, b \in 1..N : a <= b => log[a].ts <= log[b].ts
      BY DEF Sorted, N
    <2>3. \A a \in 1..N : (a <= n <=> log[a].ts <= e.ts) /\ log[a].ts \in Int
      BY <1>1 DEF N
    <2>4. CASE i <= n /\ j <= n
      <3>1. w[i] = log[i] /\ w[j] = log[j] /\ i \in 1..N /\ j \in 1..N
        BY <1>3, <1>6, <2>4
      <3>2. QED
        BY <2>1, <2>2, <3>1
    <2>5. CASE i <= n /\ j = n + 1
      <3>1. w[i] = log[i] /\ w[j] = e /\ i \in 1..N
        BY <1>3, <1>6, <2>5
      <3>2. QED
        BY <2>3, <2>5, <3>1
    <2>6. CASE i <= n /\ j > n + 1
      <3>1. w[i] = log[i] /\ w[j] = log[j - 1] /\ i \in 1..N /\ j - 1 \in 1..N /\ i <= j - 1
        BY <1>3, <1>6, <2>6
      <3>2. QED
        BY <2>2, <3>1
    <2>7. CASE i = n + 1 /\ j = n + 1
      <3>1. w[i] = e /\ w[j] = e
        BY <1>6, <2>7
      <3>2. QED
        BY <3>1
    <2>8. CASE i = n + 1 /\ j > n + 1
      <3>1. w[i] = e /\ w[j] = log[j - 1] /\ j - 1 \in 1..N /\ ~(j - 1 <= n)
        BY <1>3, <1>6, <2>8
      <3>2. log[j - 1].ts \in Int /\ ~(log[j - 1].ts <= e.ts)
        BY <2>3, <3>1
      <3>3. QED
        BY <3>1, <3>2
    <2>9. CASE i > n + 1
      <3>1. w[i] = log[i - 1] /\ w[j] = log[j - 1] /\ i - 1 \in 1..N /\ j - 1 \in 1..N /\ i - 1 <= j - 1
        BY <1>3, <1>6, <2>1, <2>9
      <3>2. QED
        BY <2>2, <3>1
    <2>10. QED
      BY <1>3, <2>1, <2>4, <2>5, <2>6, <2>7, <2>8, <2>9
  <1>8. ASSUME NEW i \in 1..N PROVE \E j \in 1..Len(w) : w[j] = log[i]
    <2>1. CASE i <= n
      <3>1. i \in 1..Len(w) /\ w[i] = log[i]
        BY <1>3, <1>6, <2>1
      <3>2. QED
        BY <3>1
    <2>2. CASE i > n
      <3>1. i + 1 \in 1..Len(w) /\ w[i + 1] = log[i]
        BY <1>3, <1>6, <2>2
      <3>2. QED
        BY <3>1
    <2>3. QED
      BY <1>3, <2>1, <2>2
  <1>9. \E j \in 1..Len(w) : w[j] = e
    <2>1. n + 1 \in 1..Len(w)
      BY <1>3, <1>6
    <2>2. QED
      BY <1>6, <2>1
  <1>10. QED
    BY <1>2, <1>6, <1>7, <1>8, <1>9 DEF N

-----------------------------------------------------------------------------
(* What a diagnosis may say                                                *)

\* Every code a finding may have, but the one about integrity.
FindingCodes ==
    {"explain_missing", "explain_shallow", "explain_strong", "no_hypothesis", "hypothesis_after_code",
     "hypothesis_vague", "hypothesis_strong", "asked_for_solution", "prompts_vague", "prompts_strong",
     "pasted_ai_failing", "pasted_ai_unchecked", "adapted_ai_code", "questioned_ai_code", "no_student_tests",
     "invalid_tests", "missing_test_categories", "mutants_survived", "strong_tests", "never_ran_tests",
     "submitted_failing", "hidden_edge_failed", "all_tests_passed", "bug_not_located", "bug_located",
     "bug_explanation_weak", "bug_explained_well", "bug_not_fixed", "partial_fix", "trial_and_error", "quick_fix"}
Findings == [code : FindingCodes, axis : Axes, kind : {"risk", "strength"}, severity : {"high", "medium", "low"}]

\* The codes that are only found of a solved exercise, and only of one that is not.
Solving == {"quick_fix", "trial_and_error", "pasted_ai_unchecked", "adapted_ai_code", "all_tests_passed"}
Failing == {"bug_not_fixed", "partial_fix", "submitted_failing", "pasted_ai_failing"}

\* What may be found of an exercise that is solved, or not, on the axes that apply.
Says(solved, axes) ==
    {f \in Findings : /\ f.axis \in axes
                      /\ f.code \in Solving => solved
                      /\ f.code \in Failing => ~solved}
MaySay(found, solved, axes) == found \in Seq(Says(solved, axes))

LEMMA MayRisk ==
    ASSUME NEW solved, NEW axes, NEW axis \in Axes, NEW code \in FindingCodes,
           NEW severity \in {"high", "medium", "low"}, NEW condition,
           condition => axis \in axes /\ (code \in Solving => solved) /\ (code \in Failing => ~solved)
    PROVE  MaySay(When(condition, Risk(code, axis, severity)), solved, axes)
  <1>. DEFINE f == [code |-> code, axis |-> axis, kind |-> "risk", severity |-> severity]
  <1>1. f \in Findings /\ f.code = code /\ f.axis = axis
    BY DEF Findings
  <1>2. Risk(code, axis, severity) = <<f>>
    BY DEF Risk
  <1>. HIDE DEF f
  <1>3. CASE condition
    <2>1. f \in Says(solved, axes)
      BY <1>1, <1>3 DEF Says
    <2>2. When(condition, Risk(code, axis, severity)) = <<f>>
      BY <1>2, <1>3 DEF When
    <2>3. QED
      BY <2>1, <2>2 DEF MaySay
  <1>4. CASE ~condition
    BY <1>4 DEF When, MaySay
  <1>5. QED
    BY <1>3, <1>4

LEMMA MayStrength ==
    ASSUME NEW solved, NEW axes, NEW axis \in Axes, NEW code \in FindingCodes, NEW condition,
           condition => axis \in axes /\ (code \in Solving => solved) /\ (code \in Failing => ~solved)
    PROVE  MaySay(When(condition, Strength(code, axis)), solved, axes)
  <1>. DEFINE f == [code |-> code, axis |-> axis, kind |-> "strength", severity |-> "low"]
  <1>1. f \in Findings /\ f.code = code /\ f.axis = axis
    BY DEF Findings
  <1>2. Strength(code, axis) = <<f>>
    BY DEF Strength
  <1>. HIDE DEF f
  <1>3. CASE condition
    <2>1. f \in Says(solved, axes)
      BY <1>1, <1>3 DEF Says
    <2>2. When(condition, Strength(code, axis)) = <<f>>
      BY <1>2, <1>3 DEF When
    <2>3. QED
      BY <2>1, <2>2 DEF MaySay
  <1>4. CASE ~condition
    BY <1>4 DEF When, MaySay
  <1>5. QED
    BY <1>3, <1>4

\* A risk said on no condition.
LEMMA MayAlways ==
    ASSUME NEW solved, NEW axes, NEW found, MaySay(When(TRUE, found), solved, axes)
    PROVE  MaySay(found, solved, axes)
  BY DEF When

LEMMA MayNothing ==
    ASSUME NEW solved, NEW axes
    PROVE  MaySay(<<>>, solved, axes)
  BY DEF MaySay

LEMMA MayBoth ==
    ASSUME NEW solved, NEW axes, NEW a, NEW b, MaySay(a, solved, axes), MaySay(b, solved, axes)
    PROVE  MaySay(a \o b, solved, axes)
  <1>. DEFINE F == Says(solved, axes)
  <1>1. a \in Seq(F) /\ b \in Seq(F)
    BY DEF MaySay
  <1>. HIDE DEF F
  <1>2. a \o b \in Seq(F)
    BY <1>1
  <1>3. QED
    BY <1>2 DEF MaySay, F

LEMMA OnUnderstandingSays ==
    ASSUME NEW solved, NEW axes, "understanding" \in axes, NEW level
    PROVE  MaySay(OnUnderstanding(level), solved, axes)
  <1>. DEFINE a == When(level = 0, Risk("explain_missing", "understanding", "high"))
              b == When(level \in {1, 2}, Risk("explain_shallow", "understanding", "medium"))
              c == When(level = 3, Strength("explain_strong", "understanding"))
  <1>1. MaySay(a, solved, axes)
    <2>1. "understanding" \in Axes /\ "explain_missing" \in FindingCodes
      BY DEF Axes, FindingCodes
    <2>2. ("explain_missing" \in Solving => FALSE) /\ ("explain_missing" \in Failing => FALSE)
      BY DEF Solving, Failing
    <2>3. QED
      BY <2>1, <2>2, MayRisk
  <1>2. MaySay(b, solved, axes)
    <2>1. "understanding" \in Axes /\ "explain_shallow" \in FindingCodes
      BY DEF Axes, FindingCodes
    <2>2. ("explain_shallow" \in Solving => FALSE) /\ ("explain_shallow" \in Failing => FALSE)
      BY DEF Solving, Failing
    <2>3. QED
      BY <2>1, <2>2, MayRisk
  <1>3. MaySay(c, solved, axes)
    <2>1. "understanding" \in Axes /\ "explain_strong" \in FindingCodes
      BY DEF Axes, FindingCodes
    <2>2. ("explain_strong" \in Solving => FALSE) /\ ("explain_strong" \in Failing => FALSE)
      BY DEF Solving, Failing
    <2>3. QED
      BY <2>1, <2>2, MayStrength
  <1>4. OnUnderstanding(level) = a \o b \o c
    BY DEF OnUnderstanding
  <1>. HIDE DEF a, b, c
  <1>5. MaySay(a \o b, solved, axes)
    BY <1>1, <1>2, MayBoth
  <1>6. MaySay(a \o b \o c, solved, axes)
    BY <1>5, <1>3, MayBoth
  <1>7. QED
    BY <1>4, <1>6

LEMMA OnHypothesisSays ==
    ASSUME NEW solved, NEW axes, "hypothesis" \in axes, NEW level, NEW reason
    PROVE  MaySay(OnHypothesis(level, reason), solved, axes)
  <1>. DEFINE a == When(TRUE, Risk("no_hypothesis", "hypothesis", "medium"))
              b == When(TRUE, Risk("hypothesis_after_code", "hypothesis", "low"))
              c == When(level = 1, Risk("hypothesis_vague", "hypothesis", "low"))
              d == When(level = 3, Strength("hypothesis_strong", "hypothesis"))
  <1>1. MaySay(a, solved, axes)
    <2>1. "hypothesis" \in Axes /\ "no_hypothesis" \in FindingCodes
      BY DEF Axes, FindingCodes
    <2>2. ("no_hypothesis" \in Solving => FALSE) /\ ("no_hypothesis" \in Failing => FALSE)
      BY DEF Solving, Failing
    <2>3. QED
      BY <2>1, <2>2, MayRisk
  <1>2. MaySay(b, solved, axes)
    <2>1. "hypothesis" \in Axes /\ "hypothesis_after_code" \in FindingCodes
      BY DEF Axes, FindingCodes
    <2>2. ("hypothesis_after_code" \in Solving => FALSE) /\ ("hypothesis_after_code" \in Failing => FALSE)
      BY DEF Solving, Failing
    <2>3. QED
      BY <2>1, <2>2, MayRisk
  <1>3. MaySay(c, solved, axes)
    <2>1. "hypothesis" \in Axes /\ "hypothesis_vague" \in FindingCodes
      BY DEF Axes, FindingCodes
    <2>2. ("hypothesis_vague" \in Solving => FALSE) /\ ("hypothesis_vague" \in Failing => FALSE)
      BY DEF Solving, Failing
    <2>3. QED
      BY <2>1, <2>2, MayRisk
  <1>4. MaySay(d, solved, axes)
    <2>1. "hypothesis" \in Axes /\ "hypothesis_strong" \in FindingCodes
      BY DEF Axes, FindingCodes
    <2>2. ("hypothesis_strong" \in Solving => FALSE) /\ ("hypothesis_strong" \in Failing => FALSE)
      BY DEF Solving, Failing
    <2>3. QED
      BY <2>1, <2>2, MayStrength
  <1>5. OnHypothesis(level, reason) = IF reason = "no_hypothesis" THEN a ELSE IF reason = "after_code" THEN b ELSE c \o d
    BY DEF OnHypothesis, When
  <1>. HIDE DEF a, b, c, d
  <1>6. MaySay(c \o d, solved, axes)
    BY <1>3, <1>4, MayBoth
  <1>7. QED
    BY <1>1, <1>2, <1>5, <1>6

LEMMA OnPromptingSays ==
    ASSUME NEW solved, NEW axes, NEW level, level # NA => "prompting" \in axes, NEW ev
    PROVE  MaySay(OnPrompting(level, ev), solved, axes)
  <1>. DEFINE asks == LatestJudge(ev.log, "prompts").asks
              asked == \E i \in DOMAIN asks : asks[i]
              a == When(level # NA /\ asked, Risk("asked_for_solution", "prompting", "high"))
              b == When(level \in {0, 1} /\ ~asked, Risk("prompts_vague", "prompting", "medium"))
              c == When(level = 3, Strength("prompts_strong", "prompting"))
  <1>1. MaySay(a, solved, axes)
    <2>1. "prompting" \in Axes /\ "asked_for_solution" \in FindingCodes
      BY DEF Axes, FindingCodes
    <2>2. ("asked_for_solution" \in Solving => FALSE) /\ ("asked_for_solution" \in Failing => FALSE)
      BY DEF Solving, Failing
    <2>3. QED
      BY <2>1, <2>2, MayRisk
  <1>2. MaySay(b, solved, axes)
    <2>0. level \in {0, 1} /\ ~asked => "prompting" \in axes
      BY DEF NA
    <2>1. "prompting" \in Axes /\ "prompts_vague" \in FindingCodes
      BY DEF Axes, FindingCodes
    <2>2. ("prompts_vague" \in Solving => FALSE) /\ ("prompts_vague" \in Failing => FALSE)
      BY DEF Solving, Failing
    <2>3. QED
      BY <2>1, <2>2, MayRisk, <2>0
  <1>3. MaySay(c, solved, axes)
    <2>0. level = 3 => "prompting" \in axes
      BY DEF NA
    <2>1. "prompting" \in Axes /\ "prompts_strong" \in FindingCodes
      BY DEF Axes, FindingCodes
    <2>2. ("prompts_strong" \in Solving => FALSE) /\ ("prompts_strong" \in Failing => FALSE)
      BY DEF Solving, Failing
    <2>3. QED
      BY <2>1, <2>2, MayStrength, <2>0
  <1>4. OnPrompting(level, ev) = a \o b \o c
    BY DEF OnPrompting
  <1>. HIDE DEF a, b, c
  <1>5. MaySay(a \o b, solved, axes)
    BY <1>1, <1>2, MayBoth
  <1>6. MaySay(a \o b \o c, solved, axes)
    BY <1>5, <1>3, MayBoth
  <1>7. QED
    BY <1>4, <1>6

LEMMA OnVerificationSays ==
    ASSUME NEW solved, NEW axes, NEW level, NEW reason,
           reason \in {"pasted_unchanged", "pasted_changed", "questioned"} => "verification" \in axes,
           reason = "pasted_unchanged" => (level = 0 <=> ~solved),
           reason = "pasted_changed" => (level = 3 <=> solved)
    PROVE  MaySay(OnVerification(level, reason), solved, axes)
  <1>. DEFINE d == When(reason = "pasted_unchanged" /\ level = 0, Risk("pasted_ai_failing", "verification", "high"))
              e == When(reason = "pasted_unchanged" /\ level # 0, Risk("pasted_ai_unchecked", "verification", "medium"))
              b == When(reason = "pasted_changed" /\ level = 3, Strength("adapted_ai_code", "verification"))
              c == When(reason = "questioned", Strength("questioned_ai_code", "verification"))
  <1>1. MaySay(d, solved, axes)
    <2>1. "verification" \in Axes /\ "pasted_ai_failing" \in FindingCodes
      BY DEF Axes, FindingCodes
    <2>2. ("pasted_ai_failing" \in Solving => FALSE) /\ ("pasted_ai_failing" \in Failing => TRUE)
      BY DEF Solving, Failing
    <2>3. QED
      BY <2>1, <2>2, MayRisk
  <1>2. MaySay(e, solved, axes)
    <2>1. "verification" \in Axes /\ "pasted_ai_unchecked" \in FindingCodes
      BY DEF Axes, FindingCodes
    <2>2. ("pasted_ai_unchecked" \in Solving => TRUE) /\ ("pasted_ai_unchecked" \in Failing => FALSE)
      BY DEF Solving, Failing
    <2>3. QED
      BY <2>1, <2>2, MayRisk
  <1>3. MaySay(b, solved, axes)
    <2>1. "verification" \in Axes /\ "adapted_ai_code" \in FindingCodes
      BY DEF Axes, FindingCodes
    <2>2. ("adapted_ai_code" \in Solving => TRUE) /\ ("adapted_ai_code" \in Failing => FALSE)
      BY DEF Solving, Failing
    <2>3. QED
      BY <2>1, <2>2, MayStrength
  <1>4. MaySay(c, solved, axes)
    <2>1. "verification" \in Axes /\ "questioned_ai_code" \in FindingCodes
      BY DEF Axes, FindingCodes
    <2>2. ("questioned_ai_code" \in Solving => FALSE) /\ ("questioned_ai_code" \in Failing => FALSE)
      BY DEF Solving, Failing
    <2>3. QED
      BY <2>1, <2>2, MayStrength
  <1>. DEFINE a == When(reason = "pasted_unchanged",
                        IF level = 0 THEN Risk("pasted_ai_failing", "verification", "high")
                        ELSE Risk("pasted_ai_unchecked", "verification", "medium"))
  <1>5. OnVerification(level, reason) = a \o b \o c
    BY DEF OnVerification
  <1>6. a = IF level = 0 THEN d ELSE e
    BY DEF When
  <1>. HIDE DEF a, b, c, d, e
  <1>7. MaySay(a, solved, axes)
    BY <1>1, <1>2, <1>6
  <1>8. MaySay(a \o b, solved, axes)
    BY <1>3, <1>7, MayBoth
  <1>9. MaySay(a \o b \o c, solved, axes)
    BY <1>4, <1>8, MayBoth
  <1>10. QED
    BY <1>5, <1>9

LEMMA OnStudentTestsSays ==
    ASSUME NEW solved, NEW axes, "testing" \in axes, NEW t, NEW parts
    PROVE  MaySay(OnStudentTests(t, parts), solved, axes)
  <1>. DEFINE z == When(TRUE, Risk("no_student_tests", "testing", "high"))
              a == When(t.valid < t.written, Risk("invalid_tests", "testing", "medium"))
              b == When(t.valid > 0 /\ t.covered < t.wanted, Risk("missing_test_categories", "testing", "low"))
              c == When(t.valid > 0 /\ parts.mutation \in 0..2, Risk("mutants_survived", "testing", "medium"))
              d == When(parts.valid = 3 /\ parts.coverage \in {3, NA} /\ parts.mutation \in {3, NA}, Strength("strong_tests", "testing"))
  <1>1. MaySay(z, solved, axes)
    <2>1. "testing" \in Axes /\ "no_student_tests" \in FindingCodes
      BY DEF Axes, FindingCodes
    <2>2. ("no_student_tests" \in Solving => FALSE) /\ ("no_student_tests" \in Failing => FALSE)
      BY DEF Solving, Failing
    <2>3. QED
      BY <2>1, <2>2, MayRisk
  <1>2. MaySay(a, solved, axes)
    <2>1. "testing" \in Axes /\ "invalid_tests" \in FindingCodes
      BY DEF Axes, FindingCodes
    <2>2. ("invalid_tests" \in Solving => FALSE) /\ ("invalid_tests" \in Failing => FALSE)
      BY DEF Solving, Failing
    <2>3. QED
      BY <2>1, <2>2, MayRisk
  <1>3. MaySay(b, solved, axes)
    <2>1. "testing" \in Axes /\ "missing_test_categories" \in FindingCodes
      BY DEF Axes, FindingCodes
    <2>2. ("missing_test_categories" \in Solving => FALSE) /\ ("missing_test_categories" \in Failing => FALSE)
      BY DEF Solving, Failing
    <2>3. QED
      BY <2>1, <2>2, MayRisk
  <1>4. MaySay(c, solved, axes)
    <2>1. "testing" \in Axes /\ "mutants_survived" \in FindingCodes
      BY DEF Axes, FindingCodes
    <2>2. ("mutants_survived" \in Solving => FALSE) /\ ("mutants_survived" \in Failing => FALSE)
      BY DEF Solving, Failing
    <2>3. QED
      BY <2>1, <2>2, MayRisk
  <1>5. MaySay(d, solved, axes)
    <2>1. "testing" \in Axes /\ "strong_tests" \in FindingCodes
      BY DEF Axes, FindingCodes
    <2>2. ("strong_tests" \in Solving => FALSE) /\ ("strong_tests" \in Failing => FALSE)
      BY DEF Solving, Failing
    <2>3. QED
      BY <2>1, <2>2, MayStrength
  <1>6. OnStudentTests(t, parts) = IF parts.valid = NA THEN <<>> ELSE IF t.written = 0 THEN z ELSE a \o b \o c \o d
    BY DEF OnStudentTests, When
  <1>. HIDE DEF z, a, b, c, d
  <1>7. MaySay(a \o b, solved, axes)
    BY <1>2, <1>3, MayBoth
  <1>8. MaySay(a \o b \o c, solved, axes)
    BY <1>7, <1>4, MayBoth
  <1>9. MaySay(a \o b \o c \o d, solved, axes)
    BY <1>8, <1>5, MayBoth
  <1>10. QED
    BY <1>1, <1>6, <1>9, MayNothing

LEMMA OnCorrectnessSays ==
    ASSUME NEW solved, NEW axes, "testing" \in axes, NEW level, NEW reason, level = 3 <=> solved
    PROVE  MaySay(OnCorrectness(level, reason), solved, axes)
  <1>. DEFINE z == When(TRUE, Risk("never_ran_tests", "testing", "high"))
              a == When(level \in {0, 1}, Risk("submitted_failing", "testing", "high"))
              b == When(level = 2 /\ reason = "hidden_fail", Risk("hidden_edge_failed", "testing", "medium"))
              c == When(level = 3, Strength("all_tests_passed", "testing"))
  <1>1. MaySay(z, solved, axes)
    <2>1. "testing" \in Axes /\ "never_ran_tests" \in FindingCodes
      BY DEF Axes, FindingCodes
    <2>2. ("never_ran_tests" \in Solving => FALSE) /\ ("never_ran_tests" \in Failing => FALSE)
      BY DEF Solving, Failing
    <2>3. QED
      BY <2>1, <2>2, MayRisk
  <1>2. MaySay(a, solved, axes)
    <2>0. level \in {0, 1} => ~solved
      OBVIOUS
    <2>1. "testing" \in Axes /\ "submitted_failing" \in FindingCodes
      BY DEF Axes, FindingCodes
    <2>2. ("submitted_failing" \in Solving => FALSE) /\ ("submitted_failing" \in Failing => TRUE)
      BY DEF Solving, Failing
    <2>3. QED
      BY <2>1, <2>2, MayRisk, <2>0
  <1>3. MaySay(b, solved, axes)
    <2>1. "testing" \in Axes /\ "hidden_edge_failed" \in FindingCodes
      BY DEF Axes, FindingCodes
    <2>2. ("hidden_edge_failed" \in Solving => FALSE) /\ ("hidden_edge_failed" \in Failing => FALSE)
      BY DEF Solving, Failing
    <2>3. QED
      BY <2>1, <2>2, MayRisk
  <1>4. MaySay(c, solved, axes)
    <2>1. "testing" \in Axes /\ "all_tests_passed" \in FindingCodes
      BY DEF Axes, FindingCodes
    <2>2. ("all_tests_passed" \in Solving => TRUE) /\ ("all_tests_passed" \in Failing => FALSE)
      BY DEF Solving, Failing
    <2>3. QED
      BY <2>1, <2>2, MayStrength
  <1>5. OnCorrectness(level, reason) = IF reason = "never_ran" THEN z ELSE a \o b \o c
    BY DEF OnCorrectness, When
  <1>. HIDE DEF z, a, b, c
  <1>6. MaySay(a \o b, solved, axes)
    BY <1>2, <1>3, MayBoth
  <1>7. MaySay(a \o b \o c, solved, axes)
    BY <1>6, <1>4, MayBoth
  <1>8. QED
    BY <1>1, <1>5, <1>7, MayNothing

LEMMA OnLocateSays ==
    ASSUME NEW solved, NEW axes, "debugging" \in axes, NEW parts
    PROVE  MaySay(OnLocate(parts), solved, axes)
  <1>. DEFINE a == When(parts.located = 0, Risk("bug_not_located", "debugging", "medium"))
              b == When(parts.located = 3, Strength("bug_located", "debugging"))
              c == When(~parts.skipped /\ parts.explained \in {0, 1}, Risk("bug_explanation_weak", "debugging", "low"))
              d == When(~parts.skipped /\ parts.explained = 3, Strength("bug_explained_well", "debugging"))
  <1>1. MaySay(a, solved, axes)
    <2>1. "debugging" \in Axes /\ "bug_not_located" \in FindingCodes
      BY DEF Axes, FindingCodes
    <2>2. ("bug_not_located" \in Solving => FALSE) /\ ("bug_not_located" \in Failing => FALSE)
      BY DEF Solving, Failing
    <2>3. QED
      BY <2>1, <2>2, MayRisk
  <1>2. MaySay(b, solved, axes)
    <2>1. "debugging" \in Axes /\ "bug_located" \in FindingCodes
      BY DEF Axes, FindingCodes
    <2>2. ("bug_located" \in Solving => FALSE) /\ ("bug_located" \in Failing => FALSE)
      BY DEF Solving, Failing
    <2>3. QED
      BY <2>1, <2>2, MayStrength
  <1>3. MaySay(c, solved, axes)
    <2>1. "debugging" \in Axes /\ "bug_explanation_weak" \in FindingCodes
      BY DEF Axes, FindingCodes
    <2>2. ("bug_explanation_weak" \in Solving => FALSE) /\ ("bug_explanation_weak" \in Failing => FALSE)
      BY DEF Solving, Failing
    <2>3. QED
      BY <2>1, <2>2, MayRisk
  <1>4. MaySay(d, solved, axes)
    <2>1. "debugging" \in Axes /\ "bug_explained_well" \in FindingCodes
      BY DEF Axes, FindingCodes
    <2>2. ("bug_explained_well" \in Solving => FALSE) /\ ("bug_explained_well" \in Failing => FALSE)
      BY DEF Solving, Failing
    <2>3. QED
      BY <2>1, <2>2, MayStrength
  <1>5. OnLocate(parts) = a \o b \o c \o d
    BY DEF OnLocate
  <1>. HIDE DEF a, b, c, d
  <1>6. MaySay(a \o b, solved, axes)
    BY <1>1, <1>2, MayBoth
  <1>7. MaySay(a \o b \o c, solved, axes)
    BY <1>6, <1>3, MayBoth
  <1>8. MaySay(a \o b \o c \o d, solved, axes)
    BY <1>7, <1>4, MayBoth
  <1>9. QED
    BY <1>5, <1>8

LEMMA OnFixSays ==
    ASSUME NEW solved, NEW axes, NEW reason, NEW paced,
           reason \in {"fixed", "partially_fixed", "not_fixed"} => "debugging" \in axes /\ (reason = "fixed" <=> solved)
    PROVE  MaySay(OnFix(reason, paced), solved, axes)
  <1>. DEFINE a == When(reason = "not_fixed", Risk("bug_not_fixed", "debugging", "high"))
              b == When(reason = "partially_fixed", Risk("partial_fix", "debugging", "medium"))
              c == When(reason = "fixed" /\ paced = 1, Risk("trial_and_error", "debugging", "medium"))
              d == When(reason = "fixed" /\ paced = 3, Strength("quick_fix", "debugging"))
  <1>1. MaySay(a, solved, axes)
    <2>1. "debugging" \in Axes /\ "bug_not_fixed" \in FindingCodes
      BY DEF Axes, FindingCodes
    <2>2. ("bug_not_fixed" \in Solving => FALSE) /\ ("bug_not_fixed" \in Failing => TRUE)
      BY DEF Solving, Failing
    <2>3. QED
      BY <2>1, <2>2, MayRisk
  <1>2. MaySay(b, solved, axes)
    <2>1. "debugging" \in Axes /\ "partial_fix" \in FindingCodes
      BY DEF Axes, FindingCodes
    <2>2. ("partial_fix" \in Solving => FALSE) /\ ("partial_fix" \in Failing => TRUE)
      BY DEF Solving, Failing
    <2>3. QED
      BY <2>1, <2>2, MayRisk
  <1>3. MaySay(c, solved, axes)
    <2>1. "debugging" \in Axes /\ "trial_and_error" \in FindingCodes
      BY DEF Axes, FindingCodes
    <2>2. ("trial_and_error" \in Solving => TRUE) /\ ("trial_and_error" \in Failing => FALSE)
      BY DEF Solving, Failing
    <2>3. QED
      BY <2>1, <2>2, MayRisk
  <1>4. MaySay(d, solved, axes)
    <2>1. "debugging" \in Axes /\ "quick_fix" \in FindingCodes
      BY DEF Axes, FindingCodes
    <2>2. ("quick_fix" \in Solving => TRUE) /\ ("quick_fix" \in Failing => FALSE)
      BY DEF Solving, Failing
    <2>3. QED
      BY <2>1, <2>2, MayStrength
  <1>5. OnFix(reason, paced) = a \o b \o c \o d
    BY DEF OnFix
  <1>. HIDE DEF a, b, c, d
  <1>6. MaySay(a \o b, solved, axes)
    BY <1>1, <1>2, MayBoth
  <1>7. MaySay(a \o b \o c, solved, axes)
    BY <1>6, <1>3, MayBoth
  <1>8. MaySay(a \o b \o c \o d, solved, axes)
    BY <1>7, <1>4, MayBoth
  <1>9. QED
    BY <1>5, <1>8

LEMMA SubSeqIs ==
    ASSUME NEW F, NEW s \in Seq(F), NEW m \in 1..(Len(s) + 1), NEW n \in 0..Len(s)
    PROVE  SubSeq(s, m, n) \in Seq(F)
  <1>. DEFINE k == IF m <= n THEN n - m + 1 ELSE 0
              t == [i \in 1..k |-> s[i + m - 1]]
  <1>1. Len(s) \in Nat /\ m \in Nat /\ n \in Nat /\ k \in Nat
    OBVIOUS
  <1>2. \A i \in 1..k : i + m - 1 \in 1..Len(s)
    BY <1>1
  <1>3. SubSeq(s, m, n) = t
    BY <1>1
  <1>. HIDE DEF k
  <1>4. \A i \in 1..k : s[i + m - 1] \in F
    BY <1>2
  <1>5. t \in Seq(F)
    BY <1>1, <1>4
  <1>6. QED
    BY <1>3, <1>5

LEMMA InsertIs ==
    ASSUME NEW F, NEW s \in Seq(F), NEW k \in 0..Len(s), NEW e \in F
    PROVE  InsertAt(s, k + 1, e) \in Seq(F)
  <1>1. Len(s) \in Nat /\ k \in Nat /\ 1 \in 1..(Len(s) + 1) /\ k + 1 \in 1..(Len(s) + 1)
        /\ Len(s) \in 0..Len(s) /\ (k + 1) - 1 = k
    OBVIOUS
  <1>. DEFINE a == SubSeq(s, 1, k)
              b == SubSeq(s, k + 1, Len(s))
  <1>2. a \in Seq(F) /\ b \in Seq(F)
    BY <1>1, SubSeqIs
  <1>3. InsertAt(s, k + 1, e) = a \o <<e>> \o b
    BY <1>1 DEF InsertAt
  <1>. HIDE DEF a, b
  <1>4. a \o <<e>> \o b \in Seq(F)
    BY <1>2
  <1>5. QED
    BY <1>3, <1>4

\* A ranking only puts findings in order.
LEMMA RankedIs ==
    ASSUME NEW F, NEW found \in Seq(F), NEW kind
    PROVE  Ranked(found, kind) \in Seq(F)
  <1>. DEFINE of == Where(found, LAMBDA f : f.kind = kind)
              N == Len(of)
              V == Seq(F)
              Before(v, n) == Count(v, LAMBDA f : RankOf(f) <= RankOf(of[n]))
              Put(v, n) == InsertAt(v, Before(v, n) + 1, of[n])
              Step == [n \in 1..N |-> [v \in V |-> Put(v, n)]]
              U == CHOOSE f : f = [n \in 0..N |-> IF n = 0 THEN <<>> ELSE Put(f[n - 1], n)]
  <1>1. Ranked(found, kind) = U[N]
    BY DEF Ranked
  <1>2. of \in Seq(F)
    BY KeptMembers DEF Where
  <1>. HIDE DEF of
  <1>3. N \in Nat /\ \A n \in 1..N : of[n] \in F
    BY <1>2
  <1>. HIDE DEF N
  <1>4. ASSUME NEW v \in V, NEW n \in 1..N PROVE Put(v, n) \in V
    <2>. DEFINE T == {i \in DOMAIN v : RankOf(v[i]) <= RankOf(of[n])}
    <2>1. Cardinality(T) \in Nat /\ Cardinality(T) <= Len(v) /\ Len(v) \in Nat
      BY Places
    <2>2. Before(v, n) = Cardinality(T)
      BY DEF Count
    <2>. HIDE DEF T, Before
    <2>3. Before(v, n) \in 0..Len(v) /\ of[n] \in F
      BY <1>3, <2>1, <2>2
    <2>4. QED
      BY <2>3, InsertIs
  <1>5. <<>> \in V
    OBVIOUS
  <1>. HIDE DEF Put, Before, V
  <1>6. \A v \in V, n \in 1..N : Step[n][v] = Put(v, n) /\ Step[n][v] \in V
    BY <1>4
  <1>. HIDE DEF Step, U
  <1>7. PICK f \in [0..N -> V] : f[0] = <<>> /\ \A n \in 1..N : f[n] = Step[n][f[n - 1]]
    <2>1. \A v \in V, n \in 1..N : Step[n][v] \in V
      BY <1>6
    <2>2. Recursive(N, V, <<>>, Step)
      BY <1>3, <1>5, <2>1, Recursion
    <2>3. QED
      BY <2>2 DEF Recursive
  <1>8. ASSUME NEW n \in 0..N PROVE f[n] = IF n = 0 THEN <<>> ELSE Put(f[n - 1], n)
    <2>1. CASE n = 0
      BY <1>7, <2>1
    <2>2. CASE n # 0
      <3>1. n \in 1..N /\ n - 1 \in 0..N
        BY <1>3, <2>2
      <3>2. QED
        BY <1>6, <1>7, <2>2, <3>1
    <2>3. QED
      BY <2>1, <2>2
  <1>9. f = [n \in 0..N |-> IF n = 0 THEN <<>> ELSE Put(f[n - 1], n)]
    BY <1>8
  <1>10. U = [n \in 0..N |-> IF n = 0 THEN <<>> ELSE Put(U[n - 1], n)]
    BY <1>9 DEF U
  <1>. DEFINE P == {n \in 0..N : U[n] \in V}
  <1>11. 0 \in P
    BY <1>3, <1>5, <1>10
  <1>12. ASSUME NEW n \in 1..N, n - 1 \in P PROVE n \in P
    <2>1. n \in 0..N /\ n # 0 /\ U[n - 1] \in V
      BY <1>3, <1>12
    <2>2. U[n] = Put(U[n - 1], n)
      BY <1>10, <2>1
    <2>3. QED
      BY <1>4, <2>1, <2>2
  <1>13. \A n \in 0..N : n \in P
    <2>. HIDE DEF P
    <2>1. QED
      BY <1>3, <1>11, <1>12, Induction
  <1>14. U[N] \in V
    BY <1>3, <1>13
  <1>15. QED
    BY <1>1, <1>14 DEF V

LEMMA ShownIs ==
    ASSUME NEW F, NEW s \in Seq(F), NEW n \in Nat
    PROVE  Shown(n, s) \in Seq(F)
  <1>1. AtMost(n, Len(s)) \in 0..Len(s) /\ 1 \in 1..(Len(s) + 1)
    BY DEF AtMost
  <1>. HIDE DEF AtMost
  <1>2. QED
    BY <1>1, SubSeqIs DEF Shown

\* What is picked was found.
LEMMA PickedIs ==
    ASSUME NEW F, NEW said \in Seq(F)
    PROVE  Picked(said) \in Seq(F)
  <1>. DEFINE a == Shown(MAX_RISKS, Ranked(said, "risk"))
              b == Shown(MAX_STRENGTHS, Ranked(said, "strength"))
  <1>1. Ranked(said, "risk") \in Seq(F) /\ Ranked(said, "strength") \in Seq(F)
    BY RankedIs
  <1>2. MAX_RISKS \in Nat /\ MAX_STRENGTHS \in Nat
    BY DEF MAX_RISKS, MAX_STRENGTHS
  <1>3. a \in Seq(F)
    BY <1>1, <1>2, ShownIs
  <1>4. b \in Seq(F)
    BY <1>1, <1>2, ShownIs
  <1>5. Picked(said) = a \o b
    BY DEF Picked
  <1>. HIDE DEF a, b
  <1>6. a \o b \in Seq(F)
    BY <1>3, <1>4
  <1>7. QED
    BY <1>5, <1>6

\* What is said is of what was found; the failed submit and the missed edge are said once.
LEMMA SaidIs ==
    ASSUME NEW solved, NEW axes, NEW found, MaySay(found, solved, axes), NEW kind
    PROVE  /\ MaySay(SaidOnce(found, kind), solved, axes)
           /\ ~ {"bug_not_fixed", "submitted_failing"} \subseteq Codes(SaidOnce(found, kind))
           /\ ~ {"partial_fix", "hidden_edge_failed"} \subseteq Codes(SaidOnce(found, kind))
  <1>. DEFINE F == Says(solved, axes)
              twice == {"bug_not_fixed", "submitted_failing"} \subseteq Codes(found)
              drop == IF kind = "debug" THEN "submitted_failing" ELSE "bug_not_fixed"
              marked == [i \in DOMAIN found |->
                           /\ ~(found[i].code = "hidden_edge_failed" /\ "partial_fix" \in Codes(found))
                           /\ ~(found[i].code = drop /\ twice)]
              said == Kept(found, marked)
  <1>1. SaidOnce(found, kind) = said
    BY DEF SaidOnce, Where
  <1>2. found \in Seq(F)
    BY DEF MaySay
  <1>. HIDE DEF F
  <1>3. DOMAIN found = 1..Len(found)
    BY <1>2
  <1>4. /\ said \in Seq(F)
        /\ \A k \in 1..Len(said) : \E i \in 1..Len(found) : marked[i] /\ said[k] = found[i]
    <2>. HIDE DEF marked
    <2>1. QED
      BY <1>2, KeptMembers
  <1>5. DOMAIN said = 1..Len(said)
    BY <1>4
  <1>6. \A i \in 1..Len(found) : marked[i] =>
           /\ ~(found[i].code = "hidden_edge_failed" /\ "partial_fix" \in Codes(found))
           /\ ~(found[i].code = drop /\ twice)
    BY <1>3
  <1>. HIDE DEF said, marked, drop, twice
  <1>7. \A c \in Codes(said) : \E i \in 1..Len(found) : marked[i] /\ c = found[i].code
    BY <1>4, <1>5 DEF Codes
  <1>8. Codes(said) \subseteq Codes(found)
    BY <1>3, <1>7 DEF Codes
  <1>9. "hidden_edge_failed" \in Codes(said) => "partial_fix" \notin Codes(found)
    BY <1>6, <1>7
  <1>10. drop \in Codes(said) => ~twice
    BY <1>6, <1>7
  <1>11. ~ {"partial_fix", "hidden_edge_failed"} \subseteq Codes(said)
    BY <1>8, <1>9
  <1>12. ~ {"bug_not_fixed", "submitted_failing"} \subseteq Codes(said)
    BY <1>8, <1>10 DEF twice, drop
  <1>13. QED
    BY <1>1, <1>4, <1>11, <1>12 DEF MaySay, F

\* How a level is shown.
LEMMA DisplayIs ==
    /\ DisplayLevel(0) = 0 /\ DisplayLevel(12) = 1 /\ DisplayLevel(24) = 2 /\ DisplayLevel(36) = 3
    /\ DisplayLevel(NA) = NA
  BY DEF DisplayLevel, NA

\* The levels a report of the second engine shows.
LEMMA LevelsV2 ==
    ASSUME NEW ev, Evident(ev), NEW explain \in Nat
    PROVE  /\ ScoreAttemptV2(ev, explain).found = Indicators(ev)
           /\ \A a \in Axes : Indicators(ev)[a].level # NA =>
                 ScoreAttemptV2(ev, explain).levels[a] = DisplayLevel(Indicators(ev)[a].level)
           /\ \A a \in Axes : a \notin Applicable(ev) => ScoreAttemptV2(ev, explain).levels[a] = NA
  <1>. DEFINE found == Indicators(ev)
              standIn == StandInsOf(ev, explain)
              mult == Multiplier(ev.log)
  <1>1. ScoreAttemptV2(ev, explain) = ScoredV2(found, standIn, mult)
    BY DEF ScoreAttemptV2, ScoreFound, StandInsOf
  <1>2. \A a \in Axes : a \notin Applicable(ev) => found[a].level = NA /\ found[a].reason # "unrated"
    BY IndicatorLevels
  <1>3. \A a \in Axes : found[a].reason # "unrated" => standIn[a] = NA
    BY StandInIs
  <1>. HIDE DEF found, standIn, mult
  <1>4. ScoredV2(found, standIn, mult).found = found
    BY DEF ScoredV2
  <1>5. ScoredV2(found, standIn, mult).levels =
           [a \in Axes |-> IF found[a].level # NA THEN DisplayLevel(found[a].level)
                           ELSE IF standIn[a] # NA THEN DisplayLevel((36 * standIn[a]) \div 2000) ELSE NA]
    BY DEF ScoredV2
  <1>6. \A a \in Axes : ScoredV2(found, standIn, mult).levels[a] =
           IF found[a].level # NA THEN DisplayLevel(found[a].level)
           ELSE IF standIn[a] # NA THEN DisplayLevel((36 * standIn[a]) \div 2000) ELSE NA
    BY <1>5
  <1>7. QED
    BY <1>1, <1>2, <1>3, <1>4, <1>6 DEF found

\* With a suite, the tests have the highest level just where the exercise is solved.
LEMMA CorrectnessSolved ==
    ASSUME NEW log, TotalOf(SubmitTests(log)) > 0
    PROVE  Correctness(log).level = 36 <=> Solved(log)
  <1>1. CASE PassedOf(SubmitTests(log)) = TotalOf(SubmitTests(log))
    BY <1>1, IndicatorIs DEF Correctness, Solved
  <1>2. CASE PassedOf(SubmitTests(log)) # TotalOf(SubmitTests(log))
    <2>1. ~Solved(log)
      BY <1>2 DEF Solved
    <2>2. Correctness(log) \in {Indicator(0, "never_ran"), Indicator(24, "hidden_fail"),
                                Indicator(0, "mostly_failing"), Indicator(12, "visible_fail")}
      BY <1>2 DEF Correctness
    <2>3. Correctness(log).level # 36
      BY <2>2, IndicatorIs
    <2>4. QED
      BY <2>1, <2>3
  <1>3. QED
    BY <1>1, <1>2

LEMMA ShownSolved ==
    ASSUME NEW log, TotalOf(SubmitTests(log)) > 0
    PROVE  /\ DisplayLevel(Correctness(log).level) = 3 <=> Solved(log)
           /\ Correctness(log).level \div 12 = 3 <=> Solved(log)
  <1>. DEFINE l == Correctness(log).level
  <1>1. l \in {0, 12, 24, 36} /\ (l = 36 <=> Solved(log))
    BY CorrectnessIs, CorrectnessSolved
  <1>. HIDE DEF l
  <1>2. DisplayLevel(l) = 3 <=> l = 36
    BY <1>1, DisplayIs
  <1>3. l \div 12 = 3 <=> l = 36
    BY <1>1
  <1>4. QED
    BY <1>1, <1>2, <1>3 DEF l

\* What a report shows of an axis.
ShownLevel(ev, explain, a) == ScoreAttemptV2(ev, explain).levels[a]

LEMMA ShownIsDisplay ==
    ASSUME NEW ev, Evident(ev), NEW explain \in Nat, NEW a \in Axes, Indicators(ev)[a].level # NA
    PROVE  ShownLevel(ev, explain, a) = DisplayLevel(Indicators(ev)[a].level)
  BY LevelsV2 DEF ShownLevel

LEMMA AxisIndicators ==
    ASSUME NEW ev
    PROVE  /\ Indicators(ev)["verification"] = VerificationLevel(ev)
           /\ Indicators(ev)["testing"] = TestingLevel(ev)
           /\ Indicators(ev)["debugging"] = DebuggingLevel(ev)
  BY DEF Indicators

LEMMA VerificationMay ==
    ASSUME NEW ev, Evident(ev), NEW explain \in Nat
    PROVE  MaySay(OnVerification(ShownLevel(ev, explain, "verification"), Indicators(ev)["verification"].reason),
                  Solved(ev.log), Applicable(ev))
  <1>. DEFINE level == ShownLevel(ev, explain, "verification")
              found == VerificationLevel(ev)
              reason == found.reason
              solved == Solved(ev.log)
              axes == Applicable(ev)
  <1>1. "verification" \in Axes /\ Indicators(ev)["verification"] = found
    BY AxisIndicators DEF Axes
  <1>2. found.level # NA => level = DisplayLevel(found.level)
    <2>1. Indicators(ev)["verification"].level # NA =>
             ShownLevel(ev, explain, "verification") = DisplayLevel(Indicators(ev)["verification"].level)
      BY <1>1, ShownIsDisplay
    <2>2. QED
      BY <1>1, <2>1
  <1>3. PICK R : ev.replies \in Seq(R)
    BY DEF Evident
  <1>. HIDE DEF level
  <1>4. CASE Coded(ev) = <<>>
    <2>1. found = Indicator(NA, "no_ai_code")
      BY <1>3, <1>4, VerificationIs
    <2>2. reason = "no_ai_code"
      BY <2>1, IndicatorIs
    <2>. HIDE DEF reason, found, solved, axes
    <2>3. /\ reason \in {"pasted_unchanged", "pasted_changed", "questioned"} => "verification" \in axes
          /\ reason = "pasted_unchanged" => (level = 0 <=> ~solved)
          /\ reason = "pasted_changed" => (level = 3 <=> solved)
      BY <2>2
    <2>4. MaySay(OnVerification(level, reason), solved, axes)
      BY <2>3, OnVerificationSays
    <2>5. QED
      BY <1>1, <2>4 DEF level, reason, solved, axes
  <1>5. CASE Coded(ev) # <<>>
    <2>1. "verification" \in axes
      BY <1>5 DEF Applicable
    <2>2. PICK i : found = Outcome(ev, i)
      BY <1>3, <1>5, VerificationIs
    <2>3. \/ found = Indicator(IF solved THEN 12 ELSE 0, "pasted_unchanged")
          \/ found = Indicator(IF solved THEN 36 ELSE 24, "pasted_changed")
          \/ found = Indicator(36, "questioned")
          \/ found = Indicator(24, "not_used")
      BY <2>2, OutcomeIs
    <2>4. \/ found.level = (IF solved THEN 12 ELSE 0) /\ reason = "pasted_unchanged"
          \/ found.level = (IF solved THEN 36 ELSE 24) /\ reason = "pasted_changed"
          \/ found.level = 36 /\ reason = "questioned"
          \/ found.level = 24 /\ reason = "not_used"
      BY <2>3, IndicatorIs
    <2>. HIDE DEF reason, found, solved, axes
    <2>5. found.level # NA
      BY <2>4 DEF NA
    <2>6. /\ reason = "pasted_unchanged" => level = IF solved THEN 1 ELSE 0
          /\ reason = "pasted_changed" => level = IF solved THEN 3 ELSE 2
      BY <1>2, <2>4, <2>5, DisplayIs
    <2>7. /\ reason = "pasted_unchanged" => (level = 0 <=> ~solved)
          /\ reason = "pasted_changed" => (level = 3 <=> solved)
      BY <2>6
    <2>8. MaySay(OnVerification(level, reason), solved, axes)
      BY <2>1, <2>7, OnVerificationSays
    <2>9. QED
      BY <1>1, <2>8 DEF level, reason, solved, axes
  <1>6. QED
    BY <1>4, <1>5

LEMMA TestingMay ==
    ASSUME NEW ev, Evident(ev), NEW explain \in Nat, TotalOf(SubmitTests(ev.log)) > 0
    PROVE  MaySay(OnTesting(ShownLevel(ev, explain, "testing"), Indicators(ev)["testing"].reason, ev),
                  Solved(ev.log), Applicable(ev))
  <1>. DEFINE level == ShownLevel(ev, explain, "testing")
              reason == Indicators(ev)["testing"].reason
              solved == Solved(ev.log)
              axes == Applicable(ev)
              k == Correctness(ev.log).level \div 12
  <1>1. "testing" \in axes /\ "testing" \in Axes
    BY DEF Applicable, Axes
  <1>2. k = 3 <=> solved
    BY ShownSolved
  <1>3. CASE HasTestParts(ev)
    <2>1. OnTesting(level, reason, ev) = OnStudentTests(StudentTests(ev), TestParts(ev)) \o OnCorrectness(k, reason)
      BY <1>3 DEF OnTesting
    <2>. HIDE DEF level, reason, solved, axes, k
    <2>2. MaySay(OnStudentTests(StudentTests(ev), TestParts(ev)), solved, axes)
      BY <1>1, OnStudentTestsSays
    <2>3. MaySay(OnCorrectness(k, reason), solved, axes)
      BY <1>1, <1>2, OnCorrectnessSays
    <2>4. MaySay(OnTesting(level, reason, ev), solved, axes)
      BY <2>1, <2>2, <2>3, MayBoth
    <2>5. QED
      BY <2>4 DEF level, reason, solved, axes
  <1>4. CASE ~HasTestParts(ev)
    <2>1. Indicators(ev)["testing"] = Correctness(ev.log)
      BY <1>4, AxisIndicators DEF TestingLevel
    <2>2. Correctness(ev.log).level # NA
      BY CorrectnessIs DEF NA
    <2>3. Indicators(ev)["testing"].level # NA
      BY <2>1, <2>2
    <2>4. level = DisplayLevel(Correctness(ev.log).level)
      BY <1>1, <2>1, <2>3, ShownIsDisplay
    <2>5. level = 3 <=> solved
      BY <2>4, ShownSolved
    <2>6. OnTesting(level, reason, ev) = OnCorrectness(level, reason)
      BY <1>4 DEF OnTesting
    <2>. HIDE DEF level, reason, solved, axes, k
    <2>7. MaySay(OnTesting(level, reason, ev), solved, axes)
      BY <1>1, <2>5, <2>6, OnCorrectnessSays
    <2>8. QED
      BY <2>7 DEF level, reason, solved, axes
  <1>5. QED
    BY <1>3, <1>4

LEMMA DebuggingMay ==
    ASSUME NEW ev, Evident(ev), NEW level
    PROVE  MaySay(OnDebugging(level, Indicators(ev)["debugging"].reason, ev), Solved(ev.log), Applicable(ev))
  <1>. DEFINE found == DebuggingLevel(ev)
              reason == found.reason
              solved == Solved(ev.log)
              axes == Applicable(ev)
  <1>1. Indicators(ev)["debugging"] = found
    BY AxisIndicators
  <1>2. PICK S : ev.log \in Seq(S)
    BY DEF Evident
  <1>3. reason \in {"fixed", "partially_fixed", "not_fixed"} => "debugging" \in axes /\ (reason = "fixed" <=> solved)
    <2>1. CASE ev.kind # "debug" /\ FailingRuns(ev.log) = 0
      <3>1. found = Indicator(NA, "no_failure")
        BY <1>2, <2>1, DebuggingIs DEF Evident
      <3>2. reason = "no_failure"
        BY <3>1, IndicatorIs
      <3>3. QED
        BY <3>2
    <2>2. CASE ~(ev.kind # "debug" /\ FailingRuns(ev.log) = 0)
      <3>1. reason = "fixed" <=> solved
        BY <1>2, <2>2, DebuggingIs DEF Evident
      <3>2. "debugging" \in axes
        BY <2>2 DEF Applicable
      <3>3. QED
        BY <3>1, <3>2
    <2>3. QED
      BY <2>1, <2>2
  <1>4. HasDebugParts(ev) => "debugging" \in axes
    BY DEF HasDebugParts, Applicable
  <1>. HIDE DEF found, reason, solved, axes
  <1>5. CASE HasDebugParts(ev)
    <2>1. MaySay(OnLocate(DebugParts(ev)), solved, axes)
      BY <1>4, <1>5, OnLocateSays
    <2>2. MaySay(OnFix(reason, DebugParts(ev).efficiency), solved, axes)
      BY <1>3, OnFixSays
    <2>3. OnDebugging(level, reason, ev) = OnLocate(DebugParts(ev)) \o OnFix(reason, DebugParts(ev).efficiency)
      BY <1>5 DEF OnDebugging
    <2>4. QED
      BY <1>1, <2>1, <2>2, <2>3, MayBoth DEF reason, solved, axes
  <1>6. CASE ~HasDebugParts(ev)
    <2>1. MaySay(OnFix(reason, level), solved, axes)
      BY <1>3, OnFixSays
    <2>2. OnDebugging(level, reason, ev) = OnFix(reason, level)
      BY <1>6 DEF OnDebugging
    <2>3. QED
      BY <1>1, <2>1, <2>2 DEF reason, solved, axes
  <1>7. QED
    BY <1>5, <1>6

\* What is found says of an exercise with a suite only what fits whether it is solved, and
\* only of axes that apply.
LEMMA FoundIs ==
    ASSUME NEW ev, Evident(ev), NEW explain \in Nat, TotalOf(SubmitTests(ev.log)) > 0
    PROVE  MaySay(Found(ScoreAttemptV2(ev, explain), ev), Solved(ev.log), Applicable(ev))
  <1>. DEFINE solved == Solved(ev.log)
              axes == Applicable(ev)
              result == ScoreAttemptV2(ev, explain)
              found == Indicators(ev)
              levels == result.levels
              a == OnUnderstanding(levels["understanding"])
              b == OnHypothesis(levels["hypothesis"], found["hypothesis"].reason)
              c == OnPrompting(levels["prompting"], ev)
              d == OnVerification(levels["verification"], found["verification"].reason)
              e == OnTesting(levels["testing"], found["testing"].reason, ev)
              f == OnDebugging(levels["debugging"], found["debugging"].reason, ev)
  <1>1. result.found = found /\ (\A x \in Axes : x \notin axes => levels[x] = NA)
    BY LevelsV2
  <1>2. Found(result, ev) = a \o b \o c \o d \o e \o f
    BY <1>1 DEF Found
  <1>3. "understanding" \in axes /\ "hypothesis" \in axes /\ "prompting" \in Axes
    BY DEF Applicable, Axes
  <1>4. MaySay(d, solved, axes)
    BY VerificationMay DEF ShownLevel
  <1>5. MaySay(e, solved, axes)
    BY TestingMay DEF ShownLevel
  <1>6. MaySay(f, solved, axes)
    BY DebuggingMay
  <1>. HIDE DEF solved, axes, result, found, levels
  <1>7. MaySay(a, solved, axes)
    BY <1>3, OnUnderstandingSays
  <1>8. MaySay(b, solved, axes)
    BY <1>3, OnHypothesisSays
  <1>9. MaySay(c, solved, axes)
    <2>1. levels["prompting"] # NA => "prompting" \in axes
      BY <1>1, <1>3
    <2>2. QED
      BY <2>1, OnPromptingSays
  <1>. HIDE DEF a, b, c, d, e, f
  <1>10. MaySay(a \o b, solved, axes)
    BY <1>7, <1>8, MayBoth
  <1>11. MaySay(a \o b \o c, solved, axes)
    BY <1>9, <1>10, MayBoth
  <1>12. MaySay(a \o b \o c \o d, solved, axes)
    BY <1>4, <1>11, MayBoth
  <1>13. MaySay(a \o b \o c \o d \o e, solved, axes)
    BY <1>5, <1>12, MayBoth
  <1>14. MaySay(a \o b \o c \o d \o e \o f, solved, axes)
    BY <1>6, <1>13, MayBoth
  <1>15. QED
    BY <1>2, <1>14 DEF result, solved, axes

\* Findings that do not contradict each other: those on the exercise are said of one that
\* is solved or of one that is not, each of an axis that applies, the failed submit and the
\* missed edge once; the other is about integrity, where something flags it.
Consistent(found, solved, axes, flagged) ==
    /\ \A i \in DOMAIN found :
          \/ found[i].code = "integrity_flags" /\ found[i].axis = "overall" /\ flagged
          \/ found[i] \in Says(solved, axes)
    /\ ~ {"bug_not_fixed", "submitted_failing"} \subseteq Codes(found)
    /\ ~ {"partial_fix", "hidden_edge_failed"} \subseteq Codes(found)

LEMMA DiagnoseIs ==
    ASSUME NEW ev, Evident(ev), NEW explain \in Nat, TotalOf(SubmitTests(ev.log)) > 0
    PROVE  Consistent(Diagnose(ScoreAttemptV2(ev, explain), ev), Solved(ev.log), Applicable(ev), Multiplier(ev.log) < 100)
  <1>. DEFINE solved == Solved(ev.log)
              axes == Applicable(ev)
              flagged == Multiplier(ev.log) < 100
              result == ScoreAttemptV2(ev, explain)
              said == SaidOnce(Found(result, ev), ev.kind)
              flag == [code |-> "integrity_flags", axis |-> "overall", kind |-> "risk", severity |-> "high"]
              flags == When(flagged, Risk("integrity_flags", "overall", "high"))
              all == said \o flags
              d == Picked(all)
  <1>1. Diagnose(result, ev) = d
    BY DEF Diagnose
  <1>2. /\ MaySay(said, solved, axes)
        /\ ~ {"bug_not_fixed", "submitted_failing"} \subseteq Codes(said)
        /\ ~ {"partial_fix", "hidden_edge_failed"} \subseteq Codes(said)
    <2>1. MaySay(Found(result, ev), solved, axes)
      BY FoundIs
    <2>. HIDE DEF result, solved, axes
    <2>2. QED
      BY <2>1, SaidIs
  <1>. DEFINE T == {said[i] : i \in DOMAIN said}
              F == Says(solved, axes)
              G == T \union {f \in {flag} : flagged}
  <1>3. said \in Seq(F)
    BY <1>2 DEF MaySay
  <1>. HIDE DEF said, solved, axes, flagged, flag, F, result
  <1>4. said \in Seq(T) /\ T \subseteq F
    BY <1>3
  <1>. HIDE DEF T
  <1>5. said \in Seq(G)
    BY <1>4
  <1>6. flags \in Seq(G)
    <2>1. flags = IF flagged THEN <<flag>> ELSE <<>>
      BY DEF When, Risk, flag
    <2>2. flagged => flag \in G
      OBVIOUS
    <2>. HIDE DEF flags, G
    <2>3. <<>> \in Seq(G) /\ (flagged => <<flag>> \in Seq(G))
      BY <2>2
    <2>4. QED
      BY <2>1, <2>3
  <1>. HIDE DEF flags, G
  <1>7. all \in Seq(G)
    BY <1>5, <1>6
  <1>. HIDE DEF all
  <1>8. d \in Seq(G)
    BY <1>7, PickedIs
  <1>. HIDE DEF d
  <1>9. \A i \in DOMAIN d : d[i] \in G
    BY <1>8
  <1>10. ASSUME NEW i \in DOMAIN d
         PROVE  \/ d[i].code = "integrity_flags" /\ d[i].axis = "overall" /\ flagged
                \/ d[i] \in F /\ d[i].code \in Codes(said)
    <2>1. CASE d[i] = flag /\ flagged
      BY <2>1 DEF flag
    <2>2. CASE d[i] \in T
      BY <1>4, <2>2 DEF T, Codes
    <2>3. QED
      BY <1>9, <2>1, <2>2 DEF G
  <1>11. \A c \in Codes(d) : c = "integrity_flags" \/ c \in Codes(said)
    BY <1>10 DEF Codes
  <1>12. ~ {"bug_not_fixed", "submitted_failing"} \subseteq Codes(d)
    BY <1>2, <1>11
  <1>13. ~ {"partial_fix", "hidden_edge_failed"} \subseteq Codes(d)
    BY <1>2, <1>11
  <1>14. Consistent(d, solved, axes, flagged)
    BY <1>10, <1>12, <1>13 DEF Consistent, F
  <1>15. QED
    BY <1>1, <1>14 DEF result, solved, axes, flagged

\* Where nothing flags the log, the multiplier is whole.
LEMMA GreenIsWhole ==
    ASSUME NEW S, NEW log \in Seq(S), Integrity(log) = "green"
    PROVE  Multiplier(log) = 100
  <1>. DEFINE T == {i \in DOMAIN log : log[i].type \in {"FOCUS_LOST", "TAB_HIDDEN", "WINDOW_BLUR", "FULLSCREEN_EXIT"}}
              L == {i \in 1..Len(log) : log[i].type = "FOCUS_LOST"}
  <1>1. Cardinality(T) \in Nat /\ IsFiniteSet(T)
    BY Places
  <1>2. L \subseteq T
    OBVIOUS
  <1>3. FlagTotal(log) = PasteFlags(log) + Cardinality(T)
    BY DEF FlagTotal, Count
  <1>4. FocusLost(log) = Cardinality(L)
    BY OfCount DEF FocusLost
  <1>. HIDE DEF T, L
  <1>5. Cardinality(L) <= Cardinality(T) /\ Cardinality(L) \in Nat
    BY <1>1, <1>2, FS_Subset, FS_CardinalityType
  <1>6. PasteFlags(log) \in Nat
    BY MultiplierRange
  <1>7. ~(FlagTotal(log) >= 4) /\ ~(FlagTotal(log) >= 1)
    BY DEF Integrity
  <1>8. PasteFlags(log) = 0 /\ FocusLost(log) = 0
    BY <1>1, <1>3, <1>4, <1>5, <1>6, <1>7
  <1>9. QED
    BY <1>8 DEF Multiplier, Clamp

\* Of findings that are consistent, each of two codes that contradict each other keeps the
\* other away.
LEMMA Apart ==
    ASSUME NEW found, NEW solved, NEW axes, NEW flagged, Consistent(found, solved, axes, flagged),
           NEW c \in Solving, NEW f \in Failing
    PROVE  ~(c \in Codes(found) /\ f \in Codes(found))
  <1>1. ASSUME NEW x \in Codes(found), x \in Solving \/ x \in Failing
        PROVE  (x \in Solving => solved) /\ (x \in Failing => ~solved)
    <2>1. PICK i \in DOMAIN found : x = found[i].code
      BY DEF Codes
    <2>2. x # "integrity_flags"
      BY <1>1 DEF Solving, Failing
    <2>3. found[i] \in Says(solved, axes)
      BY <2>1, <2>2 DEF Consistent
    <2>4. QED
      BY <2>1, <2>3 DEF Says
  <1>2. QED
    BY <1>1

-----------------------------------------------------------------------------
(* Had the whole suite passed                                              *)

\* The event, a suite's result as if all its tests had passed.
AllPassed(e) == IF e.type # "SUBMIT_TESTS" THEN e
                ELSE [e EXCEPT !.visible = e.visibleTotal, !.hidden = e.hiddenTotal]
Flawless(log) == [i \in DOMAIN log |-> AllPassed(log[i])]

LEMMA AllPassedIs ==
    ASSUME NEW e, Typed(e)
    PROVE  /\ Typed(AllPassed(e)) /\ AllPassed(e).type = e.type /\ AllPassed(e).ts = e.ts
           /\ AllPassed(e).flagged = e.flagged
           /\ e.type # "SUBMIT_TESTS" => AllPassed(e) = e
           /\ e.type = "SUBMIT_TESTS" =>
                 /\ AllPassed(e).visible = e.visibleTotal /\ AllPassed(e).visibleTotal = e.visibleTotal
                 /\ AllPassed(e).hidden = e.hiddenTotal /\ AllPassed(e).hiddenTotal = e.hiddenTotal
  <1>1. CASE e.type # "SUBMIT_TESTS"
    BY <1>1 DEF AllPassed
  <1>2. CASE e.type = "SUBMIT_TESTS"
    <2>. DEFINE f == [e EXCEPT !.visible = e.visibleTotal, !.hidden = e.hiddenTotal]
    <2>1. AllPassed(e) = f
      BY <1>2 DEF AllPassed
    <2>2. /\ e.ts \in Int
          /\ {"type", "ts", "flagged", "visible", "visibleTotal", "hidden", "hiddenTotal"} \subseteq DOMAIN e
          /\ e.visibleTotal \in Nat \ {0} /\ e.hiddenTotal \in Nat
      BY <1>2 DEF Typed
    <2>3. /\ DOMAIN f = DOMAIN e /\ f.type = e.type /\ f.ts = e.ts /\ f.flagged = e.flagged
          /\ f.visible = e.visibleTotal /\ f.visibleTotal = e.visibleTotal
          /\ f.hidden = e.hiddenTotal /\ f.hiddenTotal = e.hiddenTotal
      BY <2>2
    <2>. HIDE DEF f
    <2>4. Typed(f)
      BY <1>2, <2>2, <2>3 DEF Typed
    <2>5. QED
      BY <1>2, <2>1, <2>3, <2>4
  <1>3. QED
    BY <1>1, <1>2

LEMMA FlawlessIs ==
    ASSUME NEW S, NEW log \in Seq(S), Readable(log)
    PROVE  /\ \E T : Flawless(log) \in Seq(T)
           /\ Len(Flawless(log)) = Len(log) /\ DOMAIN log = 1..Len(log) /\ DOMAIN Flawless(log) = 1..Len(log)
           /\ Readable(Flawless(log))
           /\ \A i \in 1..Len(log) : Flawless(log)[i] = AllPassed(log[i])
           /\ \A i \in 1..Len(log) : /\ Flawless(log)[i].type = log[i].type /\ Flawless(log)[i].ts = log[i].ts
                                     /\ Flawless(log)[i].flagged = log[i].flagged
                                     /\ log[i].type # "SUBMIT_TESTS" => Flawless(log)[i] = log[i]
  <1>. DEFINE t == Flawless(log)
              T == {AllPassed(log[i]) : i \in DOMAIN log}
  <1>1. t \in Seq(T) /\ Len(t) = Len(log) /\ \A i \in 1..Len(log) : t[i] = AllPassed(log[i])
    BY DEF Flawless
  <1>. HIDE DEF t, T
  <1>2. \A i \in 1..Len(log) : /\ Typed(t[i]) /\ t[i].type = log[i].type /\ t[i].ts = log[i].ts
                               /\ t[i].flagged = log[i].flagged
                               /\ log[i].type # "SUBMIT_TESTS" => t[i] = log[i]
    BY <1>1, AllPassedIs DEF Readable
  <1>3. Readable(t)
    BY <1>1, <1>2 DEF Readable
  <1>4. DOMAIN log = 1..Len(log) /\ DOMAIN t = 1..Len(t)
    BY <1>1
  <1>5. QED
    BY <1>1, <1>2, <1>3, <1>4 DEF t

LEMMA FlawlessSame ==
    ASSUME NEW S, NEW log \in Seq(S), Readable(log), NEW type, type # "SUBMIT_TESTS"
    PROVE  Of(Flawless(log), type) = Of(log, type)
  <1>1. PICK T : Flawless(log) \in Seq(T)
    BY FlawlessIs
  <1>2. /\ Len(Flawless(log)) = Len(log)
        /\ \A i \in 1..Len(log) : log[i].type = Flawless(log)[i].type /\ (log[i].type = type => log[i] = Flawless(log)[i])
    BY FlawlessIs
  <1>3. QED
    BY <1>1, <1>2, OfSame

LEMMA FlawlessNone ==
    ASSUME NEW S, NEW log \in Seq(S), Readable(log), Of(log, "SUBMIT_TESTS") = <<>>
    PROVE  Flawless(log) = log
  <1>1. \A i \in 1..Len(log) : log[i].type # "SUBMIT_TESTS"
    BY OfNone
  <1>2. \A i \in 1..Len(log) : Flawless(log)[i] = log[i]
    BY <1>1, FlawlessIs
  <1>3. DOMAIN log = 1..Len(log)
    BY FlawlessIs
  <1>4. QED
    BY <1>2, <1>3 DEF Flawless

LEMMA FlawlessSuite ==
    ASSUME NEW S, NEW log \in Seq(S), Readable(log), Of(log, "SUBMIT_TESTS") # <<>>
    PROVE  /\ TotalOf(SubmitTests(Flawless(log))) = TotalOf(SubmitTests(log)) /\ TotalOf(SubmitTests(log)) \in Nat \ {0}
           /\ PassedOf(SubmitTests(Flawless(log))) = TotalOf(SubmitTests(log))
           /\ Solved(Flawless(log)) /\ AnyPass(Flawless(log))
  <1>. DEFINE t == Flawless(log)
              s == Of(log, "SUBMIT_TESTS")
              u == Of(t, "SUBMIT_TESTS")
  <1>1. PICK T : t \in Seq(T)
    BY FlawlessIs
  <1>2. Len(t) = Len(log) /\ \A i \in 1..Len(log) : log[i].type = t[i].type /\ t[i] = AllPassed(log[i])
    BY FlawlessIs
  <1>. HIDE DEF t
  <1>3. /\ Len(u) = Len(s)
        /\ \A k \in 1..Len(s) : \E i \in 1..Len(log) : log[i].type = "SUBMIT_TESTS" /\ s[k] = log[i] /\ u[k] = t[i]
    BY <1>1, <1>2, OfAlike
  <1>4. s \in Seq(S) /\ u \in Seq(T)
    BY <1>1, OfMembers
  <1>. HIDE DEF s, u
  <1>5. Len(s) \in 1..Len(s) /\ u # <<>> /\ Last(s) = s[Len(s)] /\ Last(u) = u[Len(s)]
    BY <1>3, <1>4 DEF s, Last
  <1>6. PICK i \in 1..Len(log) : log[i].type = "SUBMIT_TESTS" /\ Last(s) = log[i] /\ Last(u) = t[i]
    BY <1>3, <1>5
  <1>7. SubmitTests(log) = log[i] /\ SubmitTests(t) = AllPassed(log[i])
    BY <1>2, <1>5, <1>6 DEF SubmitTests, s, u
  <1>8. Typed(log[i])
    BY DEF Readable
  <1>9. log[i].visibleTotal \in Nat \ {0} /\ log[i].hiddenTotal \in Nat
    BY <1>6, <1>8 DEF Typed
  <1>10. /\ AllPassed(log[i]).visible = log[i].visibleTotal /\ AllPassed(log[i]).visibleTotal = log[i].visibleTotal
         /\ AllPassed(log[i]).hidden = log[i].hiddenTotal /\ AllPassed(log[i]).hiddenTotal = log[i].hiddenTotal
    BY <1>6, <1>8, AllPassedIs
  <1>11. /\ TotalOf(SubmitTests(t)) = TotalOf(SubmitTests(log)) /\ TotalOf(SubmitTests(log)) \in Nat \ {0}
         /\ PassedOf(SubmitTests(t)) = TotalOf(SubmitTests(log))
    BY <1>7, <1>9, <1>10 DEF TotalOf, PassedOf
  <1>12. TotalOf(SubmitTests(t)) > 0
    BY <1>11
  <1>13. Solved(t) /\ AnyPass(t)
    BY <1>11, <1>12 DEF Solved, AnyPass
  <1>14. QED
    BY <1>11, <1>13 DEF t

LEMMA FlawlessMultiplier ==
    ASSUME NEW S, NEW log \in Seq(S), Readable(log)
    PROVE  Multiplier(Flawless(log)) = Multiplier(log)
  <1>. DEFINE t == Flawless(log)
  <1>1. /\ DOMAIN t = DOMAIN log /\ DOMAIN log = 1..Len(log)
        /\ \A i \in 1..Len(log) : t[i].type = log[i].type /\ t[i].flagged = log[i].flagged
    BY FlawlessIs
  <1>2. Of(t, "FOCUS_LOST") = Of(log, "FOCUS_LOST")
    BY FlawlessSame
  <1>. HIDE DEF t
  <1>3. {i \in DOMAIN t : t[i].type = "BURST_PASTE" \/ t[i].flagged}
           = {i \in DOMAIN log : log[i].type = "BURST_PASTE" \/ log[i].flagged}
    BY <1>1
  <1>4. PasteFlags(t) = PasteFlags(log) /\ FocusLost(t) = FocusLost(log)
    BY <1>2, <1>3 DEF PasteFlags, FocusLost, Count
  <1>5. QED
    BY <1>4 DEF Multiplier, t

LEMMA FlawlessVerification ==
    ASSUME NEW S, NEW log \in Seq(S), Readable(log)
    PROVE  Verification(Flawless(log)) = Verification(log)
  <1>. DEFINE t == Flawless(log)
  <1>1. /\ DOMAIN t = 1..Len(log) /\ DOMAIN log = 1..Len(log) /\ Len(t) = Len(log) /\ Len(log) \in Nat
        /\ \A i \in 1..Len(log) : /\ t[i].type = log[i].type /\ t[i].ts = log[i].ts
                                  /\ log[i].type # "SUBMIT_TESTS" => t[i] = log[i]
    BY FlawlessIs
  <1>2. \A type : type # "SUBMIT_TESTS" => Of(t, type) = Of(log, type)
    BY FlawlessSame
  <1>. HIDE DEF t
  <1>3. Of(t, "AI_REPLY") = Of(log, "AI_REPLY") /\ Of(t, "SUBMIT") = Of(log, "SUBMIT") /\ Of(t, "RUN") = Of(log, "RUN")
    BY <1>2
  <1>4. Traps(t) = Traps(log) /\ CodeReplies(t) = CodeReplies(log) /\ TestedAiCode(t) = TestedAiCode(log)
    BY <1>3, AlikeReplies DEF Alike
  <1>5. CaughtTrap(t) = CaughtTrap(log)
    <2>1. FirstTs(t, "SUBMIT") = FirstTs(log, "SUBMIT")
      BY <1>3 DEF FirstTs
    <2>2. QED
      BY <1>1, <1>3, <1>4, <2>1 DEF CaughtTrap
  <1>6. PastedBlind(t) = PastedBlind(log)
    BY <1>1, <1>3 DEF PastedBlind
  <1>7. SpeedAccepts(t) = SpeedAccepts(log)
    <2>. DEFINE Fast(l, i) == l[i].type = "AI_REPLY" /\ l[i].loc >= 20 /\ (l[i + 1].ts - l[i].ts) * Tick < 15000
    <2>1. ASSUME NEW i \in 1..(Len(log) - 1) PROVE Fast(t, i) <=> Fast(log, i)
      <3>1. i \in 1..Len(log) /\ i + 1 \in 1..Len(log)
        BY <1>1
      <3>2. t[i].type = log[i].type /\ t[i + 1].ts = log[i + 1].ts /\ t[i].ts = log[i].ts
            /\ (log[i].type = "AI_REPLY" => t[i] = log[i])
        BY <1>1, <3>1
      <3>3. QED
        BY <3>2
    <2>0. /\ SpeedAccepts(t) = Cardinality({i \in 1..(Len(t) - 1) : Fast(t, i)})
          /\ SpeedAccepts(log) = Cardinality({i \in 1..(Len(log) - 1) : Fast(log, i)})
      BY DEF SpeedAccepts
    <2>. HIDE DEF Fast
    <2>2. {i \in 1..(Len(t) - 1) : Fast(t, i)} = {i \in 1..(Len(log) - 1) : Fast(log, i)}
      BY <1>1, <2>1
    <2>3. QED
      BY <2>0, <2>2
  <1>8. QED
    BY <1>4, <1>5, <1>6, <1>7 DEF Verification, t

LEMMA FlawlessAlike ==
    ASSUME NEW S, NEW log \in Seq(S), Readable(log), NEW types, "SUBMIT_TESTS" \notin types
    PROVE  Alike(log, Flawless(log), types)
  BY FlawlessSame DEF Alike

LEMMA FlawlessTesting ==
    ASSUME NEW S, NEW log \in Seq(S), Readable(log), Of(log, "SUBMIT_TESTS") # <<>>
    PROVE  AtMostScore(Testing(log), Testing(Flawless(log)))
  <1>. DEFINE T == TotalOf(SubmitTests(log))
              p == PassedOf(SubmitTests(log))
  <1>1. T \in Nat \ {0} /\ p \in 0..T
    BY SuiteIs, FlawlessSuite
  <1>2. Testing(log) = (2000 * p) \div T
    BY <1>1 DEF Testing
  <1>3. Testing(Flawless(log)) = (2000 * T) \div T
    BY <1>1, FlawlessSuite DEF Testing
  <1>. HIDE DEF T, p
  <1>4. (2000 * T) \div T = 2000
    BY <1>1
  <1>5. (2000 * p) \div T \in 0..2000
    <2>. DEFINE x == 2000 * p
    <2>1. x \in 0..(2000 * T)
      BY <1>1
    <2>. HIDE DEF x
    <2>2. x \div T \in 0..2000
      BY <1>1, <2>1, MeanRange
    <2>3. QED
      BY <2>2 DEF x
  <1>6. Testing(Flawless(log)) = 2000
    BY <1>3, <1>4
  <1>7. Testing(log) \in 0..2000
    BY <1>2, <1>5
  <1>8. Testing(log) \in Nat /\ Testing(Flawless(log)) \in Nat /\ Testing(log) <= Testing(Flawless(log))
    <2>. DEFINE a == Testing(log)
                b == Testing(Flawless(log))
    <2>1. a \in 0..2000 /\ b = 2000
      BY <1>6, <1>7
    <2>. HIDE DEF a, b
    <2>2. a \in Nat /\ b \in Nat /\ a <= b
      BY <2>1
    <2>3. QED
      BY <2>2 DEF a, b
  <1>9. QED
    BY <1>8 DEF AtMostScore

LEMMA FlawlessDebugging ==
    ASSUME NEW S, NEW log \in Seq(S), Readable(log), Of(log, "SUBMIT_TESTS") # <<>>, NEW kind
    PROVE  AtMostScore(Debugging(log, kind), Debugging(Flawless(log), kind))
  <1>. DEFINE t == Flawless(log)
              n == RealFailsBeforeFirstPass(log)
  <1>1. Of(t, "RUN") = Of(log, "RUN")
    BY FlawlessSame
  <1>2. RealFailsBeforeFirstPass(t) = n
    BY <1>1 DEF RealFailsBeforeFirstPass
  <1>3. AnyPass(t)
    BY FlawlessSuite
  <1>4. n \in Nat
    BY RealFailsNat
  <1>. HIDE DEF t, n
  <1>5. Debugging(t, kind) = IF kind # "debug" /\ n = 0 THEN NA
                             ELSE IF kind = "debug" THEN Clamp(1200, 2000, 2000 - 200 * n) ELSE FixedTop(n)
    BY <1>2, <1>3 DEF Debugging
  <1>6. Debugging(log, kind) = IF kind # "debug" /\ n = 0 THEN NA
                               ELSE IF ~AnyPass(log) THEN 0
                               ELSE IF kind = "debug" THEN Clamp(1200, 2000, 2000 - 200 * n) ELSE FixedTop(n)
    BY DEF Debugging, n
  <1>7. Clamp(1200, 2000, 2000 - 200 * n) \in Nat /\ FixedTop(n) \in Nat
    BY <1>4 DEF Clamp, FixedTop
  <1>8. AtMostScore(Debugging(log, kind), Debugging(t, kind))
    BY <1>5, <1>6, <1>7 DEF AtMostScore
  <1>9. QED
    BY <1>8 DEF t

LEMMA FlawlessUnderstanding ==
    ASSUME NEW S, NEW log \in Seq(S), Readable(log), Of(log, "SUBMIT_TESTS") # <<>>, NEW explain \in Nat
    PROVE  AtMostScore(Understanding(log, explain), Understanding(Flawless(log), explain))
  <1>. DEFINE t == Flawless(log)
              base == (90 * explain) \div 100
              less == 200 * Shallow(log)
              rush == Points(300, Rushed(log))
              x == base + Points(200, AnyPass(log)) - less - rush
              y == base + Points(200, AnyPass(t)) - less - rush
  <1>1. Of(t, "OPEN") = Of(log, "OPEN") /\ Of(t, "PROMPT") = Of(log, "PROMPT")
    BY FlawlessSame
  <1>2. AnyPass(t)
    BY FlawlessSuite
  <1>. HIDE DEF t
  <1>3. Rushed(t) = Rushed(log)
    BY <1>1 DEF Rushed, FirstTs
  <1>4. Shallow(t) = Shallow(log)
    BY <1>1 DEF Shallow
  <1>5. Understanding(log, explain) = Clamp(0, 2000, x) /\ Understanding(t, explain) = Clamp(0, 2000, y)
    BY <1>3, <1>4 DEF Understanding
  <1>6. Shallow(log) \in Nat
    <2>1. Of(log, "PROMPT") \in Seq(S)
      BY OfMembers
    <2>. DEFINE prompts == Of(log, "PROMPT")
                T == {i \in DOMAIN prompts : prompts[i].shallow}
    <2>2. Cardinality(T) \in Nat
      BY <2>1, Places
    <2>3. Shallow(log) = AtMost(4, Cardinality(T))
      BY DEF Shallow, Count
    <2>. HIDE DEF T
    <2>4. QED
      BY <2>2, <2>3 DEF AtMost
  <1>7. base \in Nat /\ less \in Nat /\ rush \in Nat
    BY <1>6 DEF Points
  <1>. HIDE DEF base, less, rush
  <1>8. x \in Int /\ y \in Int /\ x <= y
    BY <1>2, <1>7 DEF Points
  <1>. HIDE DEF x, y
  <1>9. Clamp(0, 2000, x) \in Nat /\ Clamp(0, 2000, y) \in Nat /\ Clamp(0, 2000, x) <= Clamp(0, 2000, y)
    BY <1>8 DEF Clamp
  <1>10. AtMostScore(Understanding(log, explain), Understanding(t, explain))
    BY <1>5, <1>9 DEF AtMostScore
  <1>11. QED
    BY <1>10 DEF t

\* With the suite passed no axis of the first engine is lower.
LEMMA FlawlessRaw ==
    ASSUME NEW S, NEW log \in Seq(S), Readable(log), Of(log, "SUBMIT_TESTS") # <<>>, NEW explain \in Nat, NEW kind
    PROVE  \A a \in Axes : AtMostScore(RawAxes(log, explain, kind)[a], RawAxes(Flawless(log), explain, kind)[a])
  <1>. DEFINE t == Flawless(log)
              raw == RawAxes(log, explain, kind)
              those == RawAxes(t, explain, kind)
  <1>1. AtMostScore(Understanding(log, explain), Understanding(t, explain))
    BY FlawlessUnderstanding
  <1>2. AtMostScore(Testing(log), Testing(t))
    BY FlawlessTesting
  <1>3. AtMostScore(Debugging(log, kind), Debugging(t, kind))
    BY FlawlessDebugging
  <1>4. Alike(log, t, {"HYPOTHESIS", "CODE_EDIT"}) /\ Alike(log, t, {"PROMPT"})
    BY FlawlessAlike
  <1>5. Verification(t) = Verification(log)
    BY FlawlessVerification
  <1>. HIDE DEF t
  <1>6. Hypothesis(t) = Hypothesis(log)
    BY <1>4, AlikeHypothesis
  <1>7. Prompting(t) = Prompting(log)
    BY <1>4, AlikePrompting
  <1>8. \A a \in Axes : raw[a] \in Score
    BY RawScores
  <1>9. /\ raw["understanding"] = Understanding(log, explain) /\ those["understanding"] = Understanding(t, explain)
        /\ raw["testing"] = Testing(log) /\ those["testing"] = Testing(t)
        /\ raw["debugging"] = Debugging(log, kind) /\ those["debugging"] = Debugging(t, kind)
        /\ those["hypothesis"] = raw["hypothesis"] /\ those["prompting"] = raw["prompting"]
        /\ those["verification"] = raw["verification"]
    BY <1>5, <1>6, <1>7 DEF RawAxes
  <1>. HIDE DEF raw, those
  <1>10. ASSUME NEW a \in Axes PROVE AtMostScore(raw[a], those[a])
    <2>1. CASE a \in {"understanding", "testing", "debugging"}
      BY <1>1, <1>2, <1>3, <1>9, <2>1
    <2>2. CASE a \in {"hypothesis", "prompting", "verification"}
      BY <1>8, <1>9, <2>2, SameScore
    <2>3. QED
      BY <2>1, <2>2 DEF Axes
  <1>11. QED
    BY <1>10 DEF raw, those, t

LEMMA SolvingPaysV1 ==
    ASSUME NEW S, NEW log \in Seq(S), Readable(log), Of(log, "SUBMIT_TESTS") # <<>>, NEW explain \in Nat, NEW kind
    PROVE  ScoreAttempt(log, explain, kind).overall <= ScoreAttempt(Flawless(log), explain, kind).overall
  <1>1. \A a \in Axes : AtMostScore(RawAxes(log, explain, kind)[a], RawAxes(Flawless(log), explain, kind)[a])
    BY FlawlessRaw
  <1>2. Multiplier(Flawless(log)) = Multiplier(log) /\ Multiplier(log) \in 40..100
    BY FlawlessMultiplier, MultiplierRange
  <1>. DEFINE m == Multiplier(log)
              raw == RawAxes(log, explain, kind)
              those == RawAxes(Flawless(log), explain, kind)
  <1>3. ScoreAttempt(log, explain, kind) = Scored(raw, m) /\ ScoreAttempt(Flawless(log), explain, kind) = Scored(those, m)
    BY <1>2 DEF ScoreAttempt
  <1>. HIDE DEF raw, those
  <1>6. m \in 40..100
    BY <1>2
  <1>. HIDE DEF m
  <1>4. m \in 0..100 /\ m <= m
    BY <1>6
  <1>5. Scored(raw, m).overall <= Scored(those, m).overall
    BY <1>1, <1>4, ScoredMonotone DEF raw, those
  <1>7. QED
    BY <1>3, <1>5

-----------------------------------------------------------------------------
(* Means of the parts that are known                                       *)

LEMMA SummedAppend ==
    ASSUME NEW s \in Seq(Int), NEW x \in Int
    PROVE  Summed(s) \in Int /\ Summed(Append(s, x)) = Summed(s) + x
  <1>. DEFINE t == Append(s, x)
              N == Len(s)
  <1>1. /\ t \in Seq(Int) /\ Len(t) = N + 1 /\ N \in Nat /\ t[N + 1] = x
        /\ \A n \in 1..N : t[n] = s[n]
    BY AppendProperties
  <1>2. PICK f \in [0..N -> Int] : f[0] = 0 /\ (\A n \in 1..N : f[n] = f[n - 1] + s[n]) /\ Summed(s) = f[N]
    BY SummedUnfolds
  <1>. HIDE DEF t
  <1>3. PICK g \in [0..Len(t) -> Int] :
           g[0] = 0 /\ (\A n \in 1..Len(t) : g[n] = g[n - 1] + t[n]) /\ Summed(t) = g[Len(t)]
    BY <1>1, SummedUnfolds
  <1>. HIDE DEF N
  <1>. DEFINE P == {n \in 0..N : f[n] = g[n]}
  <1>4. 0 \in P
    BY <1>1, <1>2, <1>3
  <1>5. ASSUME NEW n \in 1..N, n - 1 \in P PROVE n \in P
    <2>1. n \in 1..Len(t) /\ n \in 0..N /\ f[n - 1] = g[n - 1]
      BY <1>1, <1>5
    <2>2. f[n] = f[n - 1] + s[n] /\ g[n] = g[n - 1] + t[n] /\ t[n] = s[n]
      BY <1>1, <1>2, <1>3, <2>1
    <2>3. QED
      BY <2>1, <2>2
  <1>6. \A n \in 0..N : n \in P
    <2>. HIDE DEF P
    <2>1. QED
      BY <1>1, <1>4, <1>5, Induction
  <1>7. f[N] = g[N] /\ f[N] \in Int
    BY <1>1, <1>2, <1>6
  <1>8. g[N + 1] = g[N] + x
    <2>1. N + 1 \in 1..Len(t) /\ (N + 1) - 1 = N
      BY <1>1
    <2>2. g[N + 1] = g[(N + 1) - 1] + t[N + 1]
      BY <1>3, <2>1
    <2>3. QED
      BY <1>1, <2>1, <2>2
  <1>9. QED
    BY <1>1, <1>2, <1>3, <1>7, <1>8 DEF t

\* What a part adds to the number and to the sum of those that are known.
One(v) == IF v = NA THEN 0 ELSE 1
Val(v) == IF v = NA THEN 0 ELSE v

LEMMA KnownFour ==
    ASSUME NEW a \in Rates, NEW b \in Rates, NEW c \in Rates, NEW d \in Rates
    PROVE  /\ Len(Known(<<a, b, c, d>>)) = One(a) + One(b) + One(c) + One(d)
           /\ Summed(Known(<<a, b, c, d>>)) = Val(a) + Val(b) + Val(c) + Val(d)
  <1>. DEFINE s == <<a, b, c, d>>
              marked == [i \in DOMAIN s |-> s[i] # NA]
              F == KeptUpTo(s, marked)
  <1>1. s \in Seq(Rates) /\ Len(s) = 4 /\ s[1] = a /\ s[2] = b /\ s[3] = c /\ s[4] = d
    OBVIOUS
  <1>2. Known(s) = F[4]
    BY <1>1, KeptByBeginnings DEF Known, Where
  <1>3. \A n \in 1..4 : marked[n] = (s[n] # NA) /\ s[n] \in Rates
    BY <1>1
  <1>. HIDE DEF s, marked
  <1>4. /\ F[0] = <<>>
        /\ \A n \in 1..4 : F[n] = IF marked[n] THEN Append(F[n - 1], s[n]) ELSE F[n - 1]
    <2>1. s \in Seq(Rates)
      BY <1>1
    <2>2. /\ F[0] = <<>>
          /\ \A n \in 1..Len(s) : F[n] = IF marked[n] THEN Append(F[n - 1], s[n]) ELSE F[n - 1]
      BY <2>1, KeptUnfolds
    <2>3. QED
      BY <1>1, <2>2
  <1>. HIDE DEF F
  <1>. DEFINE Adds(n, l, v) == F[n] \in Seq(Int) /\ Len(F[n]) = l /\ Summed(F[n]) = v /\ l \in Int /\ v \in Int
  <1>5. Adds(0, 0, 0)
    <2>1. <<>> \in Seq(Int) /\ Len(<<>>) = 0
      OBVIOUS
    <2>2. Summed(<<>>) = 0
      <3>1. PICK f \in [0..0 -> Int] : f[0] = 0 /\ Summed(<<>>) = f[0]
        BY <2>1, SummedUnfolds
      <3>2. QED
        BY <3>1
    <2>3. QED
      BY <1>4, <2>1, <2>2
  <1>6. ASSUME NEW n \in 1..4, NEW l, NEW v, Adds(n - 1, l, v) PROVE Adds(n, l + One(s[n]), v + Val(s[n]))
    <2>1. CASE s[n] = NA
      <3>1. F[n] = F[n - 1] /\ One(s[n]) = 0 /\ Val(s[n]) = 0
        BY <1>3, <1>4, <2>1 DEF One, Val
      <3>2. l + 0 = l /\ v + 0 = v
        BY <1>6
      <3>3. QED
        BY <1>6, <3>1, <3>2
    <2>2. CASE s[n] # NA
      <3>0. s[n] \in 0..3
        BY <1>3, <2>2 DEF Rates
      <3>8. F[n] = Append(F[n - 1], s[n])
        BY <1>3, <1>4, <2>2
      <3>9. One(s[n]) = 1 /\ Val(s[n]) = s[n]
        BY <2>2 DEF One, Val
      <3>1. F[n] = Append(F[n - 1], s[n]) /\ One(s[n]) = 1 /\ Val(s[n]) = s[n] /\ s[n] \in Int
        BY <3>0, <3>8, <3>9
      <3>. DEFINE x == s[n]
                  k == F[n - 1]
      <3>2. k \in Seq(Int) /\ x \in Int /\ Len(k) = l /\ Summed(k) = v /\ l \in Int /\ v \in Int
        BY <1>6, <3>1
      <3>3. F[n] = Append(k, x) /\ One(s[n]) = 1 /\ Val(s[n]) = x
        BY <3>1
      <3>. HIDE DEF x, k
      <3>4. Append(k, x) \in Seq(Int) /\ Len(Append(k, x)) = l + 1
        BY <3>2, AppendProperties
      <3>5. Summed(Append(k, x)) = v + x
        BY <3>2, SummedAppend
      <3>6. l + 1 \in Int /\ v + x \in Int
        BY <3>2
      <3>7. QED
        BY <3>3, <3>4, <3>5, <3>6
    <2>3. QED
      BY <2>1, <2>2
  <1>. HIDE DEF Adds
  <1>7. Adds(1, 0 + One(a), 0 + Val(a))
    <2>1. 1 \in 1..4 /\ 1 - 1 = 0
      OBVIOUS
    <2>2. Adds(1, 0 + One(s[1]), 0 + Val(s[1]))
      BY <1>5, <1>6, <2>1
    <2>3. QED
      BY <1>1, <2>2
  <1>8. Adds(2, 0 + One(a) + One(b), 0 + Val(a) + Val(b))
    <2>1. 2 \in 1..4 /\ 2 - 1 = 1
      OBVIOUS
    <2>2. Adds(2, (0 + One(a)) + One(s[2]), (0 + Val(a)) + Val(s[2]))
      BY <1>6, <1>7, <2>1
    <2>3. QED
      BY <1>1, <2>2
  <1>9. Adds(3, 0 + One(a) + One(b) + One(c), 0 + Val(a) + Val(b) + Val(c))
    <2>1. 3 \in 1..4 /\ 3 - 1 = 2
      OBVIOUS
    <2>2. Adds(3, (0 + One(a) + One(b)) + One(s[3]), (0 + Val(a) + Val(b)) + Val(s[3]))
      BY <1>6, <1>8, <2>1
    <2>3. QED
      BY <1>1, <2>2
  <1>10. Adds(4, 0 + One(a) + One(b) + One(c) + One(d), 0 + Val(a) + Val(b) + Val(c) + Val(d))
    <2>1. 4 \in 1..4 /\ 4 - 1 = 3
      OBVIOUS
    <2>2. Adds(4, (0 + One(a) + One(b) + One(c)) + One(s[4]), (0 + Val(a) + Val(b) + Val(c)) + Val(s[4]))
      BY <1>6, <1>9, <2>1
    <2>3. QED
      BY <1>1, <2>2
  <1>11. /\ Len(F[4]) = 0 + One(a) + One(b) + One(c) + One(d)
         /\ Summed(F[4]) = 0 + Val(a) + Val(b) + Val(c) + Val(d)
    BY <1>10 DEF Adds
  <1>12. /\ 0 + One(a) + One(b) + One(c) + One(d) = One(a) + One(b) + One(c) + One(d)
         /\ 0 + Val(a) + Val(b) + Val(c) + Val(d) = Val(a) + Val(b) + Val(c) + Val(d)
    <2>1. \A x \in Rates : One(x) \in Int /\ Val(x) \in Int
      BY DEF One, Val, Rates
    <2>2. QED
      BY <2>1
  <1>13. QED
    BY <1>2, <1>11, <1>12 DEF s

-----------------------------------------------------------------------------
(* A level lost in debugging against what is gained in testing             *)

LEMMA LevelPointsNat ==
    ASSUME NEW k \in 0..36, NEW m \in 0..100
    PROVE  LevelPoints(k, m) \in Nat
  <1>1. k <= k /\ m <= m
    OBVIOUS
  <1>2. QED
    BY <1>1, LevelScaled

LEMMA LevelBounds ==
    ASSUME NEW k \in 0..36, NEW m \in 0..100
    PROVE  /\ LevelPoints(k, m) \in Nat /\ k * m \in Nat
           /\ 7200 * LevelPoints(k, m) <= 4000 * (k * m) + 3600
           /\ 4000 * (k * m) + 3600 < 7200 * LevelPoints(k, m) + 7200
  <1>1. LevelPoints(k, m) \in Nat
    BY LevelPointsNat
  <1>. DEFINE p == k * m
  <1>2. p \in Nat
    BY DEF p
  <1>3. 2 * (2000 * k * m) + 3600 = 4000 * p + 3600
    <2>1. 2000 * k * m = 2000 * p
      OBVIOUS
    <2>. HIDE DEF p
    <2>2. QED
      BY <1>2, <2>1
  <1>4. LevelPoints(k, m) = (4000 * p + 3600) \div 7200
    BY <1>3 DEF LevelPoints, Rounded
  <1>. HIDE DEF p
  <1>5. /\ 7200 * ((4000 * p + 3600) \div 7200) <= 4000 * p + 3600
        /\ 4000 * p + 3600 < 7200 * ((4000 * p + 3600) \div 7200) + 7200
    BY <1>2
  <1>6. QED
    BY <1>1, <1>2, <1>4, <1>5 DEF p

\* The levels of testing and debugging, and those they become: none falls, or debugging falls
\* by two at most where testing rises by three, or by a whole one where testing, not shared
\* with the student's tests, rises by as much from two to three.
Trades(t, d, t2, d2) ==
    \/ t <= t2 /\ d <= d2
    \/ t + 3 <= t2 /\ d <= d2 + 2
    \/ t <= 24 /\ t2 = 36 /\ d = 24 /\ d2 = 12

LEMMA TradePays ==
    ASSUME NEW t \in 0..36, NEW d \in 0..36, NEW t2 \in 0..36, NEW d2 \in 0..36, Trades(t, d, t2, d2),
           NEW m \in 40..100, m % 3 = 1
    PROVE  LevelPoints(t, m) + LevelPoints(d, m) <= LevelPoints(t2, m) + LevelPoints(d2, m)
  <1>1. m \in 0..100 /\ m <= m /\ m \in Nat
    OBVIOUS
  <1>. DEFINE a == LevelPoints(t, m)
              b == LevelPoints(d, m)
              c == LevelPoints(t2, m)
              e == LevelPoints(d2, m)
  <1>2. a \in Nat /\ b \in Nat /\ c \in Nat /\ e \in Nat
    BY <1>1, LevelPointsNat
  <1>3. CASE t <= t2 /\ d <= d2
    <2>1. a <= c /\ b <= e
      BY <1>1, <1>3, LevelScaled
    <2>. HIDE DEF a, b, c, e
    <2>2. a + b <= c + e
      BY <1>2, <2>1
    <2>3. QED
      BY <2>2 DEF a, b, c, e
  <1>4. CASE t + 3 <= t2 /\ d <= d2 + 2
    <2>. DEFINE A == t * m
                B == d * m
                C == t2 * m
                D == d2 * m
    <2>1. /\ A \in Nat /\ 7200 * a <= 4000 * A + 3600
          /\ B \in Nat /\ 7200 * b <= 4000 * B + 3600
          /\ C \in Nat /\ 4000 * C + 3600 < 7200 * c + 7200
          /\ D \in Nat /\ 4000 * D + 3600 < 7200 * e + 7200
      BY <1>1, LevelBounds
    <2>2. A + 3 * m <= C
      <3>1. (t + 3) * m <= t2 * m
        BY <1>1, <1>4, ProductMonotone
      <3>2. (t + 3) * m = A + 3 * m
        OBVIOUS
      <3>3. QED
        BY <3>1, <3>2
    <2>3. B <= D + 2 * m
      <3>1. d * m <= (d2 + 2) * m
        BY <1>1, <1>4, ProductMonotone
      <3>2. (d2 + 2) * m = D + 2 * m
        OBVIOUS
      <3>3. QED
        BY <3>1, <3>2
    <2>. HIDE DEF a, b, c, e, A, B, C, D
    <2>4. a + b <= c + e
      BY <1>2, <2>1, <2>2, <2>3
    <2>5. QED
      BY <2>4 DEF a, b, c, e
  <1>5. CASE t <= 24 /\ t2 = 36 /\ d = 24 /\ d2 = 12
    <2>1. PICK q \in Nat : m = 3 * q + 1
      <3>1. m = 3 * (m \div 3) + 1 /\ m \div 3 \in Nat
        OBVIOUS
      <3>2. QED
        BY <3>1
    <2>2. a <= LevelPoints(24, m)
      BY <1>1, <1>5, LevelScaled
    <2>3. LevelPoints(24, m) = 40 * q + 13 /\ LevelPoints(12, m) = 20 * q + 7 /\ LevelPoints(36, m) = 60 * q + 20
      BY <2>1 DEF LevelPoints, Rounded
    <2>4. b = 40 * q + 13 /\ e = 20 * q + 7 /\ c = 60 * q + 20 /\ a <= 40 * q + 13
      BY <1>5, <2>2, <2>3
    <2>. HIDE DEF a, b, c, e
    <2>5. a + b <= c + e
      BY <1>2, <2>1, <2>4
    <2>6. QED
      BY <2>5 DEF a, b, c, e
  <1>6. QED
    BY <1>3, <1>4, <1>5 DEF Trades

-----------------------------------------------------------------------------
(* The second engine, had the whole suite passed                           *)

\* The evidence of an attempt, and that of the same attempt with its suite passed.
Mended(ev, ew) ==
    /\ SameButLog(ev, ew) /\ Evident(ev) /\ Of(ev.log, "SUBMIT_TESTS") # <<>>
    /\ ew.log = Flawless(ev.log)

LEMMA PassingIs ==
    ASSUME NEW ev, NEW ew, Mended(ev, ew)
    PROVE  /\ Evident(ew) /\ SameButLog(ev, ew) /\ Solved(ew.log) /\ Multiplier(ew.log) = Multiplier(ev.log)
           /\ \A type : type # "SUBMIT_TESTS" => Of(ew.log, type) = Of(ev.log, type)
           /\ \A kind : LatestJudge(ew.log, kind) = LatestJudge(ev.log, kind)
           /\ FailingRuns(ew.log) = FailingRuns(ev.log) /\ Applicable(ew) = Applicable(ev)
  <1>. DEFINE log == ev.log
              t == ew.log
  <1>1. PICK S : log \in Seq(S)
    BY DEF Mended, Evident
  <1>2. Readable(log) /\ Of(log, "SUBMIT_TESTS") # <<>> /\ t = Flawless(log) /\ SameButLog(ev, ew)
        /\ \E R : ev.replies \in Seq(R)
    BY DEF Mended, Evident
  <1>. HIDE DEF log, t
  <1>3. \A type : type # "SUBMIT_TESTS" => Of(t, type) = Of(log, type)
    BY <1>1, <1>2, FlawlessSame
  <1>4. Solved(t)
    BY <1>1, <1>2, FlawlessSuite
  <1>5. Multiplier(t) = Multiplier(log)
    BY <1>1, <1>2, FlawlessMultiplier
  <1>6. \A kind : LatestJudge(t, kind) = LatestJudge(log, kind)
    <2>1. Alike(log, t, {"JUDGE"})
      BY <1>3 DEF Alike
    <2>2. QED
      BY <2>1, AlikeJudge
  <1>7. FailingRuns(t) = FailingRuns(log)
    <2>1. RealRuns(t) = RealRuns(log)
      BY <1>3 DEF RealRuns
    <2>2. QED
      BY <2>1 DEF FailingRuns
  <1>8. Readable(t) /\ \E T : t \in Seq(T)
    BY <1>1, <1>2, FlawlessIs
  <1>9. Evident(ew)
    BY <1>2, <1>8 DEF Evident, SameButLog, t
  <1>10. Applicable(ew) = Applicable(ev)
    <2>1. Coded(ew) = Coded(ev) /\ ew.kind = ev.kind
      BY <1>2 DEF SameButLog, Coded
    <2>2. Of(ew.log, "PROMPT") = Of(ev.log, "PROMPT") /\ FailingRuns(ew.log) = FailingRuns(ev.log)
      BY <1>3, <1>7 DEF t, log
    <2>3. QED
      BY <2>1, <2>2 DEF Applicable
  <1>11. QED
    BY <1>2, <1>3, <1>4, <1>5, <1>6, <1>7, <1>9, <1>10 DEF t, log

LEMMA PassingJudged ==
    ASSUME NEW ev, NEW ew, Mended(ev, ew)
    PROVE  /\ UnderstandingLevel(ew) = UnderstandingLevel(ev) /\ BestHypothesis(ew) = BestHypothesis(ev)
           /\ PromptingLevel(ew) = PromptingLevel(ev)
  <1>1. Alike(ev.log, ew.log, {"PROMPT", "HYPOTHESIS", "CODE_EDIT", "JUDGE"})
    BY PassingIs DEF Alike
  <1>2. QED
    BY <1>1, AlikeJudged

\* Pasted code counts for more when it solved the exercise.
LEMMA PassingOutcome ==
    ASSUME NEW ev, NEW ew, Mended(ev, ew), NEW i
    PROVE  Outcome(ev, i).level \in 0..36 /\ Outcome(ew, i).level \in 0..36 /\ Outcome(ev, i).level <= Outcome(ew, i).level
  <1>1. /\ FinalCode(ew) = FinalCode(ev) /\ \A reply : PastedLines(ew, reply) = PastedLines(ev, reply)
        /\ ew.replies = ev.replies
    BY PassingIs, AlikePasted DEF SameButLog
  <1>2. Questioned(ew, i) = Questioned(ev, i)
    BY PassingIs DEF Questioned
  <1>3. Solved(ew.log)
    BY PassingIs
  <1>. DEFINE pasted == PastedLines(ev, ev.replies[i])
              Is(solved) == IF pasted # {} /\ pasted \subseteq FinalCode(ev)
                            THEN Indicator(12 * (IF solved THEN 1 ELSE 0), "pasted_unchanged")
                            ELSE IF pasted # {} THEN Indicator(12 * (IF solved THEN 3 ELSE 2), "pasted_changed")
                            ELSE IF Questioned(ev, i) THEN Indicator(36, "questioned")
                            ELSE Indicator(24, "not_used")
  <1>4. Outcome(ev, i) = Is(Solved(ev.log)) /\ Outcome(ew, i) = Is(Solved(ew.log))
    BY <1>1, <1>2 DEF Outcome
  <1>. HIDE DEF pasted
  <1>5. \/ Outcome(ev, i) = Outcome(ew, i)
        \/ Outcome(ev, i) = Indicator(0, "pasted_unchanged") /\ Outcome(ew, i) = Indicator(12, "pasted_unchanged")
        \/ Outcome(ev, i) = Indicator(24, "pasted_changed") /\ Outcome(ew, i) = Indicator(36, "pasted_changed")
    BY <1>3, <1>4
  <1>6. Outcome(ev, i).level \in 0..36 /\ Outcome(ew, i).level \in 0..36
    BY OutcomeLevel
  <1>7. Outcome(ev, i).level <= Outcome(ew, i).level
    BY <1>5, <1>6, IndicatorIs
  <1>8. QED
    BY <1>6, <1>7

LEMMA PassingVerification ==
    ASSUME NEW ev, NEW ew, Mended(ev, ew)
    PROVE  \/ VerificationLevel(ev) = Indicator(NA, "no_ai_code") /\ VerificationLevel(ew) = Indicator(NA, "no_ai_code")
           \/ /\ VerificationLevel(ev).level \in 0..36 /\ VerificationLevel(ew).level \in 0..36
              /\ VerificationLevel(ev).level <= VerificationLevel(ew).level
  <1>1. PICK R : ev.replies \in Seq(R)
    BY DEF Mended, Evident
  <1>2. ew.replies \in Seq(R) /\ Coded(ew) = Coded(ev)
    BY <1>1 DEF Mended, SameButLog, Coded
  <1>3. CASE Coded(ev) = <<>>
    BY <1>1, <1>2, <1>3, VerificationIs
  <1>4. CASE Coded(ev) # <<>>
    <2>1. \A j \in DOMAIN Coded(ev) : VerificationLevel(ev).level <= Outcome(ev, Coded(ev)[j]).level
      BY <1>1, <1>4, VerificationIs
    <2>2. PICK k \in DOMAIN Coded(ev) : VerificationLevel(ew) = Outcome(ew, Coded(ev)[k])
      BY <1>2, <1>4, VerificationIs
    <2>3. PICK h \in DOMAIN Coded(ev) : VerificationLevel(ev) = Outcome(ev, Coded(ev)[h])
      BY <1>1, <1>4, VerificationIs
    <2>4. /\ Outcome(ev, Coded(ev)[k]).level \in 0..36 /\ Outcome(ew, Coded(ev)[k]).level \in 0..36
          /\ Outcome(ev, Coded(ev)[k]).level <= Outcome(ew, Coded(ev)[k]).level
      BY PassingOutcome
    <2>5. VerificationLevel(ev).level \in 0..36
      BY <2>3, OutcomeLevel
    <2>6. VerificationLevel(ev).level <= Outcome(ev, Coded(ev)[k]).level
      BY <2>1
    <2>. DEFINE a == VerificationLevel(ev).level
                b == Outcome(ev, Coded(ev)[k]).level
                c == Outcome(ew, Coded(ev)[k]).level
    <2>7. a \in 0..36 /\ b \in 0..36 /\ c \in 0..36 /\ a <= b /\ b <= c /\ VerificationLevel(ew).level = c
      BY <2>2, <2>4, <2>5, <2>6
    <2>. HIDE DEF a, b, c
    <2>8. a \in 0..36 /\ c \in 0..36 /\ a <= c
      BY <2>7
    <2>9. QED
      BY <2>7, <2>8 DEF a
  <1>5. QED
    BY <1>3, <1>4

LEMMA MeanRises ==
    ASSUME NEW x \in Nat, NEW c \in 0..24, NEW n \in 1..4
    PROVE  (x + c) \div n + 3 <= (x + 36) \div n
  <1>1. CASE n = 1
    BY <1>1
  <1>2. CASE n = 2
    BY <1>2
  <1>3. CASE n = 3
    BY <1>3
  <1>4. CASE n = 4
    BY <1>4
  <1>5. QED
    BY <1>1, <1>2, <1>3, <1>4

LEMMA FewParts ==
    ASSUME NEW S, NEW ev, ev.log \in Seq(S), Readable(ev.log)
    PROVE  Len(RatedParts(TestParts(ev))) \in 0..3
  <1>. DEFINE parts == TestParts(ev)
              s == <<parts.valid, parts.coverage, parts.mutation>>
              marked == [i \in DOMAIN s |-> s[i] # NA]
              T == {i \in 1..Len(s) : marked[i]}
  <1>1. RatedParts(TestParts(ev)) = Kept(s, marked)
    BY DEF RatedParts, Known, Where
  <1>2. s \in Seq({s[1], s[2], s[3]}) /\ Len(s) = 3 /\ DOMAIN s = 1..3
    OBVIOUS
  <1>. HIDE DEF s
  <1>3. Len(Kept(s, marked)) = Cardinality(T)
    BY <1>2, KeptCount
  <1>4. T \in SUBSET DOMAIN s
    BY <1>2
  <1>. HIDE DEF T
  <1>5. Cardinality(T) \in Nat /\ Cardinality(T) <= Len(s)
    BY <1>2, <1>4, Places
  <1>. HIDE DEF marked
  <1>6. Cardinality(T) \in 0..3
    BY <1>2, <1>5
  <1>7. QED
    BY <1>1, <1>3, <1>6

\* With a suite the rating of correctness is whole, or two levels at most.
LEMMA CorrectnessOfSuite ==
    ASSUME NEW S, NEW log \in Seq(S), Readable(log), Of(log, "SUBMIT_TESTS") # <<>>
    PROVE  IF Solved(log) THEN Correctness(log).level = 36 ELSE Correctness(log).level \in {0, 12, 24}
  <1>. DEFINE suite == SubmitTests(log)
              runs == Of(log, "RUN")
  <1>1. TotalOf(suite) > 0
    BY SuiteIs
  <1>2. Solved(log) <=> PassedOf(suite) = TotalOf(suite)
    BY <1>1 DEF Solved
  <1>3. Correctness(log) =
          IF PassedOf(suite) = TotalOf(suite) THEN Indicator(36, "all_pass")
          ELSE IF runs = <<>> THEN Indicator(0, "never_ran")
          ELSE IF VisibleOk(suite) THEN Indicator(24, "hidden_fail")
          ELSE IF 2 * PassedOf(suite) < TotalOf(suite) THEN Indicator(0, "mostly_failing")
          ELSE Indicator(12, "visible_fail")
    BY <1>1 DEF Correctness
  <1>. HIDE DEF suite, runs
  <1>4. CASE Solved(log)
    BY <1>2, <1>3, <1>4, IndicatorIs
  <1>5. CASE ~Solved(log)
    <2>1. Correctness(log) \in {Indicator(0, "never_ran"), Indicator(24, "hidden_fail"),
                                Indicator(0, "mostly_failing"), Indicator(12, "visible_fail")}
      BY <1>2, <1>3, <1>5
    <2>2. QED
      BY <1>5, <2>1, IndicatorIs
  <1>6. QED
    BY <1>4, <1>5

\* The student's own tests share the rating.
Shares(ev) == HasTestParts(ev) /\ RatedParts(TestParts(ev)) # <<>>

LEMMA PassingTesting ==
    ASSUME NEW ev, NEW ew, Mended(ev, ew)
    PROVE  /\ TestingLevel(ev).level \in 0..36 /\ TestingLevel(ew).level \in 0..36
           /\ Solved(ev.log) => TestingLevel(ev).level = TestingLevel(ew).level
           /\ ~Solved(ev.log) => TestingLevel(ev).level + 3 <= TestingLevel(ew).level
           /\ ~Solved(ev.log) /\ ~Shares(ev) => TestingLevel(ev).level <= 24 /\ TestingLevel(ew).level = 36
  <1>. DEFINE rated == RatedParts(TestParts(ev))
              r == Len(rated)
              s == Summed(rated)
              c == Correctness(ev.log).level
              t == TestingLevel(ev).level
              u == TestingLevel(ew).level
  <1>1. PICK S : ev.log \in Seq(S)
    BY DEF Mended, Evident
  <1>2. Readable(ev.log) /\ Of(ev.log, "SUBMIT_TESTS") # <<>>
    BY DEF Mended, Evident
  <1>3. PICK T : ew.log \in Seq(T)
    BY PassingIs DEF Evident
  <1>4. Readable(ew.log) /\ Solved(ew.log)
    BY PassingIs DEF Evident
  <1>5. IF Solved(ev.log) THEN c = 36 ELSE c \in {0, 12, 24}
    BY <1>1, <1>2, CorrectnessOfSuite
  <1>6. Correctness(ew.log).level = 36
    <2>1. Of(ew.log, "SUBMIT_TESTS") # <<>>
      <3>1. TotalOf(SubmitTests(ew.log)) = TotalOf(SubmitTests(ev.log)) /\ TotalOf(SubmitTests(ev.log)) \in Nat \ {0}
        BY <1>1, <1>2, FlawlessSuite DEF Mended
      <3>2. TotalOf(SubmitTests(ew.log)) > 0
        BY <3>1
      <3>3. QED
        BY <1>3, <1>4, <3>2, SuiteIs
    <2>2. QED
      BY <1>3, <1>4, <2>1, CorrectnessOfSuite
  <1>7. HasTestParts(ew) = HasTestParts(ev) /\ TestParts(ew) = TestParts(ev)
    <2>1. Of(ew.log, "STUDENT_TESTS") = Of(ev.log, "STUDENT_TESTS") /\ ew.level = ev.level
      BY PassingIs DEF SameButLog
    <2>2. StudentTests(ew) = StudentTests(ev) /\ HasTestParts(ew) = HasTestParts(ev)
      BY <2>1 DEF StudentTests, HasTestParts
    <2>3. TestParts(ew) = TestParts(ev)
      BY <2>1, <2>2 DEF TestParts
    <2>4. QED
      BY <2>2, <2>3
  <1>8. t \in 0..36 /\ u \in 0..36
    BY <1>1, <1>2, <1>3, <1>4, TestingIs
  <1>9. r \in 0..3 /\ s \in 0..(3 * r)
    <2>1. rated \in Seq(0..3) /\ r \in 0..3
      BY <1>1, <1>2, PartsAre, FewParts
    <2>2. QED
      BY <2>1, SummedBounds, 3 \in Nat
  <1>10. rated = <<>> => r = 0
    OBVIOUS
  <1>11. HasTestParts(ev) => t = (12 * s + c) \div (r + 1) /\ u = (12 * s + 36) \div (r + 1)
    BY <1>6, <1>7 DEF TestingLevel, WithTests, Indicator
  <1>12. ~HasTestParts(ev) => t = c /\ u = 36
    BY <1>6, <1>7 DEF TestingLevel
  <1>13. ~Shares(ev) => ~HasTestParts(ev) \/ r = 0
    BY <1>10 DEF Shares
  <1>. HIDE DEF rated, r, s, c, t, u
  <1>14. Solved(ev.log) => t = u
    BY <1>5, <1>11, <1>12
  <1>15. ~Solved(ev.log) => t + 3 <= u
    <2>. SUFFICES ASSUME ~Solved(ev.log) PROVE t + 3 <= u
      OBVIOUS
    <2>1. c \in 0..24
      BY <1>5
    <2>2. CASE HasTestParts(ev)
      <3>. DEFINE x == 12 * s
                  n == r + 1
      <3>1. x \in Nat /\ n \in 1..4
        BY <1>9
      <3>2. t = (x + c) \div n /\ u = (x + 36) \div n
        BY <1>11, <2>2
      <3>. HIDE DEF x, n
      <3>3. (x + c) \div n + 3 <= (x + 36) \div n
        BY <2>1, <3>1, MeanRises
      <3>4. QED
        BY <3>2, <3>3
    <2>3. CASE ~HasTestParts(ev)
      BY <1>12, <2>1, <2>3
    <2>4. QED
      BY <2>2, <2>3
  <1>16. ~Solved(ev.log) /\ ~Shares(ev) => t <= 24 /\ u = 36
    <2>. SUFFICES ASSUME ~Solved(ev.log), ~Shares(ev) PROVE t <= 24 /\ u = 36
      OBVIOUS
    <2>1. c \in 0..24
      BY <1>5
    <2>2. CASE ~HasTestParts(ev)
      BY <1>12, <2>1, <2>2
    <2>3. CASE HasTestParts(ev) /\ r = 0
      <3>1. s = 0
        BY <1>9, <2>3
      <3>2. t = c \div 1 /\ u = 36 \div 1
        BY <1>11, <2>1, <2>3, <3>1
      <3>3. QED
        BY <2>1, <3>2
    <2>4. QED
      BY <1>13, <2>2, <2>3
  <1>17. QED
    BY <1>8, <1>14, <1>15, <1>16 DEF t, u

\* Four parts where there were two or three: the mean falls by two twelfths at most.
LEMMA MeanFalls ==
    ASSUME NEW l \in 0..3, NEW e \in Rates, NEW f \in 0..2, NEW g \in 1..3
    PROVE  (12 * (l + Val(e) + f)) \div (2 + One(e)) <= (12 * (l + Val(e) + 3 + g)) \div (3 + One(e)) + 2
  <1>1. CASE e = NA
    <2>1. One(e) = 0 /\ Val(e) = 0
      BY <1>1 DEF One, Val
    <2>2. (12 * (l + 0 + f)) \div (2 + 0) <= (12 * (l + 0 + 3 + g)) \div (3 + 0) + 2
      OBVIOUS
    <2>3. QED
      BY <2>1, <2>2
  <1>2. CASE e # NA
    <2>1. One(e) = 1 /\ Val(e) = e /\ e \in 0..3
      BY <1>2 DEF One, Val, Rates
    <2>2. (12 * (l + e + f)) \div (2 + 1) <= (12 * (l + e + 3 + g)) \div (3 + 1) + 2
      BY <2>1
    <2>3. QED
      BY <2>1, <2>2
  <1>3. QED
    BY <1>1, <1>2

LEMMA MeanOfParts ==
    ASSUME NEW parts, parts.located \in 0..3, parts.explained \in Rates, parts.fixed \in 0..3, parts.efficiency \in Rates
    PROVE  OfParts(parts).level =
              (12 * (parts.located + Val(parts.explained) + parts.fixed + Val(parts.efficiency)))
                  \div (2 + One(parts.explained) + One(parts.efficiency))
  <1>. DEFINE a == parts.located
              b == parts.explained
              c == parts.fixed
              d == parts.efficiency
              all == <<a, b, c, d>>
  <1>1. OfParts(parts).level = (12 * Summed(Known(all))) \div Len(Known(all))
    BY IndicatorIs DEF OfParts, MeanLevel
  <1>2. a \in Rates /\ b \in Rates /\ c \in Rates /\ d \in Rates /\ a \in 0..3 /\ c \in 0..3
    BY DEF Rates
  <1>. HIDE DEF a, b, c, d
  <1>3. /\ Len(Known(all)) = One(a) + One(b) + One(c) + One(d)
        /\ Summed(Known(all)) = Val(a) + Val(b) + Val(c) + Val(d)
    BY <1>2, KnownFour
  <1>4. One(a) = 1 /\ Val(a) = a /\ One(c) = 1 /\ Val(c) = c
    BY <1>2 DEF One, Val, NA
  <1>5. One(b) \in Nat /\ One(d) \in Nat
    BY DEF One
  <1>6. Len(Known(all)) = 2 + One(b) + One(d) /\ Summed(Known(all)) = a + Val(b) + c + Val(d)
    BY <1>3, <1>4, <1>5
  <1>. HIDE DEF all
  <1>7. QED
    BY <1>1, <1>6 DEF a, b, c, d

\* A late fix: the visible tests pass after four failing runs or more, without a located bug.
Late(ev) == FailingRuns(ev.log) >= 4 /\ VisibleOk(SubmitTests(ev.log)) /\ ~HasDebugParts(ev)

LEMMA PassingParts ==
    ASSUME NEW ev, NEW ew, Mended(ev, ew), HasDebugParts(ev)
    PROVE  /\ DebuggingLevel(ev).level \in 0..36 /\ DebuggingLevel(ew).level \in 0..36
           /\ Solved(ev.log) => DebuggingLevel(ev).level = DebuggingLevel(ew).level
           /\ ~Solved(ev.log) => DebuggingLevel(ev).level <= DebuggingLevel(ew).level + 2
  <1>. DEFINE p == DebugParts(ev)
              q == DebugParts(ew)
              fails == FailingRuns(ev.log)
  <1>1. PICK S : ev.log \in Seq(S)
    BY DEF Mended, Evident
  <1>2. Readable(ev.log)
    BY DEF Mended, Evident
  <1>3. PICK T : ew.log \in Seq(T)
    BY PassingIs DEF Evident
  <1>4. Readable(ew.log) /\ Solved(ew.log) /\ FailingRuns(ew.log) = fails
    BY PassingIs DEF Evident
  <1>5. /\ ew.kind = ev.kind /\ ew.regions = ev.regions /\ Of(ew.log, "LOCATE") = Of(ev.log, "LOCATE")
        /\ LatestJudge(ew.log, "locate") = LatestJudge(ev.log, "locate")
    BY PassingIs DEF SameButLog
  <1>6. HasDebugParts(ew)
    BY <1>5 DEF HasDebugParts
  <1>7. q.located = p.located /\ q.explained = p.explained
    BY <1>5 DEF DebugParts
  <1>8. /\ p.located \in 0..3 /\ p.explained \in Rates /\ p.fixed = FixedLevel(ev.log)
        /\ p.efficiency = (IF Solved(ev.log) THEN Efficiency(fails) ELSE NA) /\ p.efficiency \in Rates
    BY <1>1, <1>2, DebugPartsAre
  <1>9. /\ q.fixed = FixedLevel(ew.log) /\ q.efficiency = Efficiency(fails) /\ q.efficiency \in Rates
    <2>1. q.fixed = FixedLevel(ew.log) /\ q.efficiency \in Rates
      BY <1>3, <1>4, <1>6, DebugPartsAre
    <2>2. q.efficiency = (IF Solved(ew.log) THEN Efficiency(FailingRuns(ew.log)) ELSE NA)
      BY <1>3, <1>4, <1>6, DebugPartsAre
    <2>3. QED
      BY <1>4, <2>1, <2>2
  <1>10. p.fixed \in 0..3 /\ (p.fixed = 3 <=> Solved(ev.log)) /\ q.fixed = 3
    BY <1>4, <1>8, <1>9, FixedIs
  <1>11. Efficiency(fails) \in 1..3
    BY DEF Efficiency
  <1>12. ~(ev.kind # "debug" /\ FailingRuns(ev.log) = 0) /\ ~(ew.kind # "debug" /\ FailingRuns(ew.log) = 0)
    BY <1>5 DEF HasDebugParts
  <1>13. DebuggingLevel(ev) = OfParts(p) /\ DebuggingLevel(ew) = OfParts(q)
    BY <1>6, <1>12 DEF DebuggingLevel
  <1>14. DebuggingLevel(ev).level \in 0..36 /\ DebuggingLevel(ew).level \in 0..36
    BY <1>1, <1>2, <1>3, <1>4, <1>12, DebuggingIs
  <1>. HIDE DEF p, q, fails
  <1>15. OfParts(p).level = (12 * (p.located + Val(p.explained) + p.fixed + Val(p.efficiency)))
                                \div (2 + One(p.explained) + One(p.efficiency))
    BY <1>8, <1>10, MeanOfParts
  <1>16. OfParts(q).level = (12 * (p.located + Val(p.explained) + q.fixed + Val(q.efficiency)))
                                \div (2 + One(p.explained) + One(q.efficiency))
    <2>1. q.located \in 0..3 /\ q.explained \in Rates /\ q.fixed \in 0..3
      BY <1>7, <1>8, <1>10
    <2>2. OfParts(q).level = (12 * (q.located + Val(q.explained) + q.fixed + Val(q.efficiency)))
                                \div (2 + One(q.explained) + One(q.efficiency))
      BY <1>9, <2>1, MeanOfParts
    <2>3. QED
      BY <1>7, <2>2
  <1>17. Solved(ev.log) => OfParts(p).level = OfParts(q).level
    BY <1>8, <1>9, <1>10, <1>15, <1>16
  <1>18. ~Solved(ev.log) => OfParts(p).level <= OfParts(q).level + 2
    <2>. SUFFICES ASSUME ~Solved(ev.log) PROVE OfParts(p).level <= OfParts(q).level + 2
      OBVIOUS
    <2>. DEFINE l == p.located
                e == p.explained
                f == p.fixed
                g == Efficiency(fails)
    <2>1. l \in 0..3 /\ e \in Rates /\ f \in 0..2 /\ g \in 1..3
      BY <1>8, <1>10, <1>11
    <2>2. One(p.efficiency) = 0 /\ Val(p.efficiency) = 0
      BY <1>8 DEF One, Val
    <2>3. One(q.efficiency) = 1 /\ Val(q.efficiency) = g
      BY <1>9, <1>11 DEF One, Val, NA
    <2>4. One(e) \in Nat /\ Val(e) \in Nat
      BY <2>1 DEF One, Val, Rates
    <2>. HIDE DEF l, e, f, g
    <2>5. OfParts(p).level = (12 * (l + Val(e) + f + 0)) \div (2 + One(e) + 0)
      BY <1>15, <2>2 DEF l, e, f
    <2>6. OfParts(q).level = (12 * (l + Val(e) + 3 + g)) \div (2 + One(e) + 1)
      BY <1>10, <1>16, <2>3 DEF l, e
    <2>7. l + Val(e) + f + 0 = l + Val(e) + f /\ 2 + One(e) + 0 = 2 + One(e) /\ 2 + One(e) + 1 = 3 + One(e)
      BY <2>1, <2>4
    <2>8. OfParts(p).level = (12 * (l + Val(e) + f)) \div (2 + One(e))
          /\ OfParts(q).level = (12 * (l + Val(e) + 3 + g)) \div (3 + One(e))
      BY <2>5, <2>6, <2>7
    <2>9. (12 * (l + Val(e) + f)) \div (2 + One(e)) <= (12 * (l + Val(e) + 3 + g)) \div (3 + One(e)) + 2
      BY <2>1, MeanFalls
    <2>10. QED
      BY <2>8, <2>9
  <1>19. QED
    BY <1>13, <1>14, <1>17, <1>18

LEMMA PassingDebugging ==
    ASSUME NEW ev, NEW ew, Mended(ev, ew)
    PROVE  \/ DebuggingLevel(ev) = Indicator(NA, "no_failure") /\ DebuggingLevel(ew) = Indicator(NA, "no_failure")
           \/ /\ DebuggingLevel(ev).level \in 0..36 /\ DebuggingLevel(ew).level \in 0..36
              /\ Solved(ev.log) => DebuggingLevel(ev).level = DebuggingLevel(ew).level
              /\ ~Solved(ev.log) => \/ DebuggingLevel(ev).level <= DebuggingLevel(ew).level + 2
                                    \/ Late(ev) /\ DebuggingLevel(ev).level = 24 /\ DebuggingLevel(ew).level = 12
  <1>. DEFINE fails == FailingRuns(ev.log)
  <1>1. ew.kind = ev.kind /\ ew.regions = ev.regions /\ Of(ew.log, "LOCATE") = Of(ev.log, "LOCATE")
        /\ FailingRuns(ew.log) = fails /\ Solved(ew.log)
    BY PassingIs DEF SameButLog
  <1>2. HasDebugParts(ew) = HasDebugParts(ev)
    BY <1>1 DEF HasDebugParts
  <1>3. fails \in Nat
    BY FailingRunsNat DEF Mended, Evident
  <1>4. CASE ev.kind # "debug" /\ fails = 0
    BY <1>1, <1>4 DEF DebuggingLevel
  <1>5. CASE HasDebugParts(ev)
    BY <1>5, PassingParts
  <1>6. CASE ~(ev.kind # "debug" /\ fails = 0) /\ ~HasDebugParts(ev)
    <2>. DEFINE x == 12 * Efficiency(fails)
    <2>1. DebuggingLevel(ew) = Indicator(x, "fixed")
      BY <1>1, <1>2, <1>6 DEF DebuggingLevel
    <2>2. DebuggingLevel(ev) = IF Solved(ev.log) THEN Indicator(x, "fixed")
                               ELSE IF VisibleOk(SubmitTests(ev.log)) THEN Indicator(24, "partially_fixed")
                               ELSE Indicator(0, "not_fixed")
      BY <1>6 DEF DebuggingLevel
    <2>3. x \in {12, 24, 36} /\ (x = 12 => fails >= 4)
      BY <1>3 DEF Efficiency
    <2>. HIDE DEF x, fails
    <2>4. DebuggingLevel(ew).level = x
      BY <2>1, IndicatorIs
    <2>5. DebuggingLevel(ev).level = IF Solved(ev.log) THEN x ELSE IF VisibleOk(SubmitTests(ev.log)) THEN 24 ELSE 0
      BY <2>2, IndicatorIs
    <2>6. CASE Solved(ev.log) \/ ~VisibleOk(SubmitTests(ev.log))
      BY <2>3, <2>4, <2>5, <2>6
    <2>7. CASE ~Solved(ev.log) /\ VisibleOk(SubmitTests(ev.log)) /\ x # 12
      BY <2>3, <2>4, <2>5, <2>7
    <2>8. CASE ~Solved(ev.log) /\ VisibleOk(SubmitTests(ev.log)) /\ x = 12
      <3>1. Late(ev)
        BY <1>6, <2>3, <2>8 DEF Late, fails
      <3>2. DebuggingLevel(ev).level = 24 /\ DebuggingLevel(ew).level = 12
        BY <2>4, <2>5, <2>8
      <3>3. QED
        BY <2>8, <3>1, <3>2
    <2>9. QED
      BY <2>6, <2>7, <2>8
  <1>7. QED
    BY <1>4, <1>5, <1>6

\* A higher score on four axes, and on the two of equal weight together.
LEMMA OverallTrades ==
    ASSUME NEW axes \in [Axes -> Score], NEW those \in [Axes -> Score],
           \A a \in {"understanding", "hypothesis", "prompting", "verification"} : AtMostScore(axes[a], those[a]),
           axes["testing"] \in Nat, those["testing"] \in Nat,
           \/ axes["debugging"] = NA /\ those["debugging"] = NA /\ axes["testing"] <= those["testing"]
           \/ /\ axes["debugging"] \in Nat /\ those["debugging"] \in Nat
              /\ axes["testing"] + axes["debugging"] <= those["testing"] + those["debugging"]
    PROVE  Overall(axes) <= Overall(those)
  <1>0. \A n \in Nat : n # NA
    BY DEF NA
  <1>1. \A a \in Axes : axes[a] = NA <=> those[a] = NA
    BY <1>0 DEF Axes, AtMostScore
  <1>2. \A x, y : AtMostScore(x, y) =>
           /\ Part(25, x) \in Nat /\ Part(25, y) \in Nat /\ Part(25, x) <= Part(25, y)
           /\ Part(22, x) \in Nat /\ Part(22, y) \in Nat /\ Part(22, x) <= Part(22, y)
           /\ Part(18, x) \in Nat /\ Part(18, y) \in Nat /\ Part(18, x) <= Part(18, y)
           /\ Part(15, x) \in Nat /\ Part(15, y) \in Nat /\ Part(15, x) <= Part(15, y)
    BY <1>0 DEF AtMostScore, Part
  <1>. DEFINE t == axes["testing"]
              u == those["testing"]
              d == axes["debugging"]
              e == those["debugging"]
  <1>3. Part(10, t) + Part(10, d) \in Nat /\ Part(10, u) + Part(10, e) \in Nat
        /\ Part(10, t) + Part(10, d) <= Part(10, u) + Part(10, e)
    <2>1. t \in Nat /\ u \in Nat /\ t # NA /\ u # NA
      BY <1>0
    <2>2. CASE d = NA /\ e = NA /\ t <= u
      <3>. HIDE DEF t, u, d, e
      <3>1. QED
        BY <2>1, <2>2 DEF Part
    <2>3. CASE d \in Nat /\ e \in Nat /\ t + d <= u + e
      <3>1. d # NA /\ e # NA
        BY <1>0, <2>3
      <3>. HIDE DEF t, u, d, e
      <3>2. QED
        BY <2>1, <2>3, <3>1 DEF Part
    <2>4. QED
      BY <2>2, <2>3
  <1>4. WeightedSum(axes) <= WeightedSum(those)
    <2>. DEFINE A == Part(25, axes["understanding"])
                B == Part(22, axes["hypothesis"])
                C == Part(18, axes["prompting"])
                D == Part(15, axes["verification"])
                P == Part(25, those["understanding"])
                Q == Part(22, those["hypothesis"])
                R == Part(18, those["prompting"])
                V == Part(15, those["verification"])
                X == Part(10, t)
                Y == Part(10, d)
                Z == Part(10, u)
                W == Part(10, e)
    <2>1. /\ A \in Nat /\ P \in Nat /\ A <= P /\ B \in Nat /\ Q \in Nat /\ B <= Q
          /\ C \in Nat /\ R \in Nat /\ C <= R /\ D \in Nat /\ V \in Nat /\ D <= V
      BY <1>2
    <2>2. X \in Nat /\ Y \in Nat /\ Z \in Nat /\ W \in Nat
      BY <1>0 DEF Part
    <2>3. X + Y <= Z + W
      BY <1>3
    <2>4. WeightedSum(axes) = A + B + C + D + X + Y /\ WeightedSum(those) = P + Q + R + V + Z + W
      BY DEF WeightedSum
    <2>. HIDE DEF A, B, C, D, P, Q, R, V, X, Y, Z, W
    <2>5. A + B + C + D + X + Y <= P + Q + R + V + Z + W
      BY <2>1, <2>2, <2>3
    <2>6. QED
      BY <2>4, <2>5
  <1>5. QED
    BY <1>1, <1>4, OverallBySum

LEMMA PassingStandIns ==
    ASSUME NEW ev, NEW ew, Mended(ev, ew), NEW explain \in Nat, NEW a \in {"understanding", "hypothesis", "prompting"}
    PROVE  Indicators(ew)[a] = Indicators(ev)[a] /\ StandInsOf(ew, explain)[a] = StandInsOf(ev, explain)[a]
  <1>1. Indicators(ew)[a] = Indicators(ev)[a]
    BY PassingJudged DEF Indicators
  <1>2. \A type : type # "SUBMIT_TESTS" => Of(ew.log, type) = Of(ev.log, type)
    BY PassingIs
  <1>3. Hypothesis(ew.log) = Hypothesis(ev.log)
    <2>1. Alike(ev.log, ew.log, {"HYPOTHESIS", "CODE_EDIT"})
      BY <1>2 DEF Alike
    <2>2. QED
      BY <2>1, AlikeHypothesis
  <1>4. Prompting(ew.log) = Prompting(ev.log)
    <2>1. Alike(ev.log, ew.log, {"PROMPT"})
      BY <1>2 DEF Alike
    <2>2. QED
      BY <2>1, AlikePrompting
  <1>5. a = "understanding" \/ RawAxes(ew.log, explain, ew.kind)[a] = RawAxes(ev.log, explain, ev.kind)[a]
    BY <1>3, <1>4 DEF RawAxes
  <1>6. a \in Axes
    BY DEF Axes
  <1>7. \A e : StandInsOf(e, explain)[a] =
           IF Indicators(e)[a].reason = "unrated"
           THEN IF a = "understanding" THEN explain ELSE RawAxes(e.log, explain, e.kind)[a] ELSE NA
    BY <1>6, StandInIs
  <1>8. QED
    BY <1>1, <1>5, <1>7

LEMMA OverallOfAxes ==
    ASSUME NEW ev, NEW explain
    PROVE  ScoreAttemptV2(ev, explain).overall = Overall(ScoreAttemptV2(ev, explain).axes)
  BY DEF ScoreAttemptV2, ScoreFound, ScoredV2

\* With the suite passed no axis of the second engine is lower, but that of debugging, which
\* the axis of testing makes up for, unless a late fix meets the student's own tests.
LEMMA SolvingPaysV2 ==
    ASSUME NEW ev, NEW ew, Mended(ev, ew), NEW explain \in Nat, ~(Late(ev) /\ Shares(ev))
    PROVE  ScoreAttemptV2(ev, explain).overall <= ScoreAttemptV2(ew, explain).overall
  <1>. DEFINE found == Indicators(ev)
              best == Indicators(ew)
              standIn == StandInsOf(ev, explain)
              stands == StandInsOf(ew, explain)
              m == Multiplier(ev.log)
              axes == ScoreAttemptV2(ev, explain).axes
              those == ScoreAttemptV2(ew, explain).axes
  <1>1. Evident(ev) /\ Evident(ew) /\ Multiplier(ew.log) = m
    BY PassingIs DEF Mended
  <1>2. m \in 40..100 /\ m % 3 = 1
    BY MultiplierRange DEF Mended, Evident
  <1>3. /\ axes = [a \in Axes |-> PointsV2(found[a].level, standIn[a], m)]
        /\ those = [a \in Axes |-> PointsV2(best[a].level, stands[a], m)]
    <2>1. axes = [a \in Axes |-> PointsV2(found[a].level, standIn[a], m)]
      BY <1>1, AxesV2
    <2>2. those = [a \in Axes |-> PointsV2(best[a].level, stands[a], Multiplier(ew.log))]
      BY <1>1, AxesV2
    <2>3. QED
      BY <1>1, <2>1, <2>2
  <1>4. \A a \in Axes : found[a].level \in Levels /\ best[a].level \in Levels
    BY <1>1, IndicatorLevels
  <1>5. \A a \in Axes : standIn[a] \in Score /\ stands[a] \in Score
    BY <1>1, StandInsAre
  <1>6. /\ ScoreAttemptV2(ev, explain).overall = Overall(axes)
        /\ ScoreAttemptV2(ew, explain).overall = Overall(those)
    BY OverallOfAxes
  <1>7. \A a \in {"understanding", "hypothesis", "prompting"} : best[a] = found[a] /\ stands[a] = standIn[a]
    BY PassingStandIns
  <1>8. /\ found["verification"] = VerificationLevel(ev) /\ best["verification"] = VerificationLevel(ew)
        /\ found["testing"] = TestingLevel(ev) /\ best["testing"] = TestingLevel(ew)
        /\ found["debugging"] = DebuggingLevel(ev) /\ best["debugging"] = DebuggingLevel(ew)
    BY DEF Indicators
  <1>9. \A a \in Axes : (found[a].reason # "unrated" => standIn[a] = NA) /\ (best[a].reason # "unrated" => stands[a] = NA)
    BY StandInIs
  <1>10. m \in 0..100 /\ m <= m
    BY <1>2
  <1>. HIDE DEF found, best, standIn, stands, m, axes, those
  <1>11. \A a \in Axes : axes[a] = PointsV2(found[a].level, standIn[a], m) /\ those[a] = PointsV2(best[a].level, stands[a], m)
    BY <1>3
  <1>12. \A a \in Axes : axes[a] \in Score /\ those[a] \in Score
    BY <1>4, <1>5, <1>10, <1>11, PointsApply
  <1>13. axes \in [Axes -> Score] /\ those \in [Axes -> Score]
    BY <1>3, <1>12
  <1>14. {"understanding", "hypothesis", "prompting", "verification", "testing", "debugging"} \subseteq Axes
    BY DEF Axes
  <1>15. ASSUME NEW a \in {"understanding", "hypothesis", "prompting"} PROVE AtMostScore(axes[a], those[a])
    <2>1. a \in Axes
      BY <1>14
    <2>2. axes[a] = those[a] /\ axes[a] \in Score
      BY <1>7, <1>11, <1>12, <2>1
    <2>3. QED
      BY <2>2, SameScore
  <1>16. AtMostScore(axes["verification"], those["verification"])
    <2>. DEFINE a == "verification"
    <2>1. a \in Axes
      BY <1>14
    <2>2. CASE found[a] = Indicator(NA, "no_ai_code") /\ best[a] = Indicator(NA, "no_ai_code")
      <3>1. found[a].level = NA /\ best[a].level = NA /\ standIn[a] = NA /\ stands[a] = NA
        BY <1>9, <2>1, <2>2, IndicatorIs
      <3>2. axes[a] = NA /\ those[a] = NA
        BY <1>11, <2>1, <3>1 DEF PointsV2
      <3>3. QED
        BY <3>2 DEF AtMostScore
    <2>3. CASE found[a].level \in 0..36 /\ best[a].level \in 0..36 /\ found[a].level <= best[a].level
      <3>1. AtMostFound(found[a].level, standIn[a], best[a].level, stands[a])
        BY <2>3 DEF AtMostFound
      <3>2. AtMostScore(PointsV2(found[a].level, standIn[a], m), PointsV2(best[a].level, stands[a], m))
        BY <1>10, <3>1, PointsMonotone
      <3>3. QED
        BY <1>11, <2>1, <3>2
    <2>4. QED
      BY <1>8, <2>2, <2>3, PassingVerification
  <1>17. \A a \in {"understanding", "hypothesis", "prompting", "verification"} : AtMostScore(axes[a], those[a])
    BY <1>15, <1>16
  <1>. DEFINE t == TestingLevel(ev).level
              u == TestingLevel(ew).level
              d == DebuggingLevel(ev).level
              e == DebuggingLevel(ew).level
              solved == Solved(ev.log)
  <1>18. /\ t \in 0..36 /\ u \in 0..36 /\ (solved => t = u) /\ (~solved => t + 3 <= u)
         /\ ~solved /\ ~Shares(ev) => t <= 24 /\ u = 36
    BY PassingTesting
  <1>19. \/ DebuggingLevel(ev) = Indicator(NA, "no_failure") /\ DebuggingLevel(ew) = Indicator(NA, "no_failure")
         \/ d \in 0..36 /\ e \in 0..36 /\ (solved => d = e) /\ (~solved => d <= e + 2 \/ (Late(ev) /\ d = 24 /\ e = 12))
    BY PassingDebugging
  <1>20. \A k \in 0..36 : k # NA
    BY DEF NA
  <1>21. axes["testing"] = LevelPoints(t, m) /\ those["testing"] = LevelPoints(u, m)
    <2>1. "testing" \in Axes
      BY <1>14
    <2>2. t # NA /\ u # NA
      BY <1>18, <1>20
    <2>. HIDE DEF t, u
    <2>3. found["testing"].level = t /\ best["testing"].level = u
      BY <1>8 DEF t, u
    <2>4. QED
      BY <1>11, <2>1, <2>2, <2>3 DEF PointsV2
  <1>22. LevelPoints(t, m) \in Nat /\ LevelPoints(u, m) \in Nat
    BY <1>10, <1>18, LevelPointsNat
  <1>23. CASE DebuggingLevel(ev) = Indicator(NA, "no_failure") /\ DebuggingLevel(ew) = Indicator(NA, "no_failure")
    <2>1. axes["debugging"] = NA /\ those["debugging"] = NA
      <3>1. "debugging" \in Axes
        BY <1>14
      <3>2. /\ found["debugging"].level = NA /\ best["debugging"].level = NA
            /\ standIn["debugging"] = NA /\ stands["debugging"] = NA
        BY <1>8, <1>9, <1>23, <3>1, IndicatorIs
      <3>3. QED
        BY <1>11, <3>1, <3>2 DEF PointsV2
    <2>2. t <= u
      <3>. HIDE DEF t, u, solved
      <3>1. QED
        BY <1>18
    <2>. HIDE DEF t, u
    <2>3. LevelPoints(t, m) <= LevelPoints(u, m)
      BY <1>10, <1>18, <2>2, LevelScaled
    <2>4. axes["testing"] \in Nat /\ those["testing"] \in Nat /\ axes["testing"] <= those["testing"]
      BY <1>21, <1>22, <2>3
    <2>5. Overall(axes) <= Overall(those)
      BY <1>13, <1>17, <2>1, <2>4, OverallTrades
    <2>6. QED
      BY <1>6, <2>5
  <1>24. CASE d \in 0..36 /\ e \in 0..36 /\ (solved => d = e) /\ (~solved => d <= e + 2 \/ (Late(ev) /\ d = 24 /\ e = 12))
    <2>1. axes["debugging"] = LevelPoints(d, m) /\ those["debugging"] = LevelPoints(e, m)
      <3>1. "debugging" \in Axes
        BY <1>14
      <3>2. d # NA /\ e # NA
        BY <1>20, <1>24
      <3>. HIDE DEF d, e
      <3>3. found["debugging"].level = d /\ best["debugging"].level = e
        BY <1>8 DEF d, e
      <3>4. QED
        BY <1>11, <3>1, <3>2, <3>3 DEF PointsV2
    <2>2. LevelPoints(d, m) \in Nat /\ LevelPoints(e, m) \in Nat
      BY <1>10, <1>24, LevelPointsNat
    <2>. HIDE DEF t, u, d, e, solved
    <2>3. Trades(t, d, u, e)
      <3>1. CASE solved
        <4>1. t <= u /\ d <= e
          BY <1>18, <1>24, <3>1
        <4>2. QED
          BY <4>1 DEF Trades
      <3>2. CASE ~solved /\ d <= e + 2
        BY <1>18, <3>2 DEF Trades
      <3>3. CASE ~solved /\ Late(ev) /\ d = 24 /\ e = 12
        BY <1>18, <3>3 DEF Trades
      <3>4. QED
        BY <1>24, <3>1, <3>2, <3>3
    <2>4. LevelPoints(t, m) + LevelPoints(d, m) <= LevelPoints(u, m) + LevelPoints(e, m)
      BY <1>2, <1>18, <1>24, <2>3, TradePays
    <2>5. /\ axes["testing"] \in Nat /\ those["testing"] \in Nat /\ axes["debugging"] \in Nat /\ those["debugging"] \in Nat
          /\ axes["testing"] + axes["debugging"] <= those["testing"] + those["debugging"]
      BY <1>21, <1>22, <2>1, <2>2, <2>4
    <2>6. Overall(axes) <= Overall(those)
      BY <1>13, <1>17, <2>5, OverallTrades
    <2>7. QED
      BY <1>6, <2>6
  <1>25. QED
    BY <1>19, <1>23, <1>24
=============================================================================
