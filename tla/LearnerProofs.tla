---------------------------- MODULE LearnerProofs ----------------------------
(***************************************************************************)
(* Proofs about LearnerModel, for every set of attempts, students,         *)
(* exercises and skills, and any number of rebuilds.                       *)
(*                                                                         *)
(* A request writes numbers it computed from rows it read long before.     *)
(* What it read stays fit to write (JobFits): made of attempts that were   *)
(* reported, which excludes its own as long as it has no report, and, if   *)
(* it moves the difficulty, of none of its student's that is scored still. *)
(* What the rebuild computed is fit by induction over the number of        *)
(* reports it replayed.  While everything has happened in step, what was   *)
(* read is what is there (InStepJobs, AloneRebuild).                       *)
(***************************************************************************)
EXTENDS LearnerModel, FiniteSetTheorems, WellFoundedInduction, TLAPS

\* A nonempty set of numbers has a least member.
LEMMA LeastNumber ==
    ASSUME NEW T \in SUBSET Nat, T # {}
    PROVE  \E m \in T : \A n \in T : m <= n
  <1>1. PICK m \in T : \A n \in T : ~ (<<n, m>> \in OpToRel(<, Nat))
    BY NatLessThanWellFounded, WFMin
  <1>2. \A n \in T : ~(n < m) /\ n \in Nat /\ m \in Nat
    BY <1>1 DEF OpToRel
  <1>3. \A n \in T : m <= n
    BY <1>2
  <1>4. QED
    BY <1>3

\* Among sets of attempts there is one that leaves the family by losing any element.
LEMMA SmallestSet ==
    ASSUME NEW F \in SUBSET (SUBSET Attempts), F # {}
    PROVE  \E D \in F : \A x \in D : D \ {x} \notin F
  <1>. DEFINE T == {Cardinality(D) : D \in F}
  <1>1. \A D \in SUBSET Attempts : IsFiniteSet(D) /\ Cardinality(D) \in Nat
    BY LearnerAssumption, FS_Subset, FS_CardinalityType
  <1>2. T \in SUBSET Nat /\ T # {}
    BY <1>1
  <1>3. \E m \in T : \A n \in T : m <= n
    <2>. HIDE DEF T
    <2>1. QED
      BY <1>2, LeastNumber
  <1>4. PICK D \in F : \A E \in F : Cardinality(D) <= Cardinality(E)
    BY <1>3
  <1>5. ASSUME NEW x \in D, D \ {x} \in F PROVE FALSE
    <2>1. Cardinality(D \ {x}) = Cardinality(D) - 1 /\ Cardinality(D) \in Nat
      BY <1>1, FS_RemoveElement
    <2>2. Cardinality(D) <= Cardinality(D \ {x})
      BY <1>4, <1>5
    <2>3. QED
      BY <2>1, <2>2
  <1>6. QED
    BY <1>5

-----------------------------------------------------------------------------
(* The replay                                                              *)

LEMMA NewestOf ==
    ASSUME NEW D \in SUBSET Attempts, D # {}, NEW time \in [Attempts -> Nat]
    PROVE  Newest(D, time) \in D /\ \A b \in D : time[b] <= time[Newest(D, time)]
  <1>. DEFINE F == {E \in SUBSET Attempts : E # {} /\ ~ \E a \in E : \A b \in E : time[b] <= time[a]}
  <1>1. \A a \in Attempts : time[a] \in Nat
    OBVIOUS
  <1>2. F = {}
    <2>1. SUFFICES ASSUME F # {} PROVE FALSE
      OBVIOUS
    <2>2. PICK E \in F : \A x \in E : E \ {x} \notin F
      BY <2>1, SmallestSet
    <2>3. PICK x \in E : TRUE
      BY <2>2
    <2>4. CASE E \ {x} = {}
      <3>1. \A b \in E : b = x
        BY <2>4
      <3>2. time[x] <= time[x]
        BY <1>1, <2>2, <2>3
      <3>3. QED
        BY <2>2, <2>3, <3>1, <3>2
    <2>5. CASE E \ {x} # {}
      <3>1. PICK g \in E \ {x} : \A b \in E \ {x} : time[b] <= time[g]
        BY <2>2, <2>5
      <3>2. time[x] \in Nat /\ time[g] \in Nat /\ \A b \in E : time[b] \in Nat
        BY <1>1, <2>2, <2>3, <3>1
      <3>3. CASE time[x] <= time[g]
        BY <2>2, <3>1, <3>3
      <3>4. CASE time[g] < time[x]
        <4>1. \A b \in E : time[b] <= time[x]
          BY <3>1, <3>2, <3>4
        <4>2. QED
          BY <2>2, <2>3, <4>1
      <3>5. QED
        BY <3>2, <3>3, <3>4
    <2>6. QED
      BY <2>4, <2>5
  <1>3. \E a \in D : \A b \in D : time[b] <= time[a]
    BY <1>2
  <1>4. QED
    BY <1>3 DEF Newest

\* The function of the replay, on the sets of at most n attempts.
Upto(n) == {d \in SUBSET Attempts : Cardinality(d) <= n}

After(f, d, time) == IF d = {} THEN EmptyTables ELSE Play(f[d \ {Newest(d, time)}], Newest(d, time))

LEMMA ReplayUpto ==
    ASSUME NEW n \in Nat, NEW time \in [Attempts -> Nat]
    PROVE  \E f : f = [d \in Upto(n) |-> After(f, d, time)]
  <1>. DEFINE T == {k \in Nat : ~ \E f : f = [d \in Upto(k) |-> After(f, d, time)]}
  <1>0. \A d \in SUBSET Attempts : IsFiniteSet(d) /\ Cardinality(d) \in Nat
    BY LearnerAssumption, FS_Subset, FS_CardinalityType
  <1>1. T \in SUBSET Nat
    OBVIOUS
  <1>2. SUFFICES ASSUME T # {} PROVE FALSE
    OBVIOUS
  <1>3. \E m \in T : \A k \in T : m <= k
    <2>. HIDE DEF T
    <2>1. QED
      BY <1>1, <1>2, LeastNumber
  <1>4. PICK m \in T : \A k \in T : m <= k
    BY <1>3
  <1>5. ASSUME NEW g, \A d \in Upto(m) : d # {} => d \ {Newest(d, time)} \in Upto(m) /\
                         g[d \ {Newest(d, time)}] = After(g, d \ {Newest(d, time)}, time)
        PROVE  FALSE
    <2>. DEFINE f == [d \in Upto(m) |-> After(g, d, time)]
    <2>1. ASSUME NEW d \in Upto(m) PROVE f[d] = After(f, d, time)
      <3>1. CASE d = {}
        BY <3>1 DEF After
      <3>2. CASE d # {}
        <4>1. f[d \ {Newest(d, time)}] = g[d \ {Newest(d, time)}]
          BY <1>5, <3>2
        <4>2. f[d] = After(g, d, time)
          OBVIOUS
        <4>. HIDE DEF f
        <4>3. QED
          BY <3>2, <4>1, <4>2 DEF After
      <3>3. QED
        BY <3>1, <3>2
    <2>2. f = [d \in Upto(m) |-> f[d]]
      OBVIOUS
    <2>. HIDE DEF f
    <2>3. f = [d \in Upto(m) |-> After(f, d, time)]
      BY <2>1, <2>2
    <2>4. QED
      BY <1>4, <2>3
  <1>6. ASSUME NEW d \in Upto(m), d # {}
        PROVE  /\ d \ {Newest(d, time)} \in SUBSET Attempts /\ m # 0
               /\ Cardinality(d \ {Newest(d, time)}) <= m - 1
    <2>1. Newest(d, time) \in d /\ d \in SUBSET Attempts
      BY <1>6, NewestOf DEF Upto
    <2>2. /\ IsFiniteSet(d) /\ Cardinality(d) \in Nat /\ Cardinality(d) <= m /\ m \in Nat
          /\ Cardinality(d \ {Newest(d, time)}) = Cardinality(d) - 1
      BY <1>0, <1>4, <2>1, FS_RemoveElement DEF Upto
    <2>3. Cardinality(d) # 0
      BY <1>6, <2>2, FS_EmptySet
    <2>4. QED
      BY <2>1, <2>2, <2>3
  <1>7. CASE m = 0
    <2>1. \A d \in Upto(m) : d = {}
      BY <1>6, <1>7
    <2>2. QED
      BY <1>5, <2>1
  <1>8. CASE m # 0
    <2>1. m - 1 \in Nat /\ m - 1 \notin T /\ m - 1 <= m
      BY <1>4, <1>8
    <2>2. PICK g : g = [d \in Upto(m - 1) |-> After(g, d, time)]
      BY <2>1
    <2>3. ASSUME NEW d \in Upto(m), d # {}
          PROVE  /\ d \ {Newest(d, time)} \in Upto(m)
                 /\ g[d \ {Newest(d, time)}] = After(g, d \ {Newest(d, time)}, time)
      <3>1. d \ {Newest(d, time)} \in Upto(m - 1)
        BY <1>6, <2>3 DEF Upto
      <3>2. d \ {Newest(d, time)} \in Upto(m)
        BY <1>0, <2>1, <3>1 DEF Upto
      <3>3. QED
        BY <2>2, <3>1, <3>2
    <2>4. QED
      BY <1>5, <2>3
  <1>9. QED
    BY <1>7, <1>8

\* What the replay computes: the newest played on the replay of the others.
LEMMA ReplayValues ==
    ASSUME NEW time \in [Attempts -> Nat]
    PROVE  /\ Replay({}, time) = EmptyTables
           /\ \A D \in SUBSET Attempts : D # {} => Replay(D, time) = Play(Replay(D \ {Newest(D, time)}, time), Newest(D, time))
  <1>. DEFINE n == Cardinality(Attempts)
  <1>1. n \in Nat /\ \A d \in SUBSET Attempts : Cardinality(d) <= n
    BY LearnerAssumption, FS_Subset, FS_CardinalityType
  <1>2. Upto(n) = SUBSET Attempts
    BY <1>1 DEF Upto
  <1>3. \E f : f = [d \in SUBSET Attempts |-> After(f, d, time)]
    <2>1. \E f : f = [d \in Upto(n) |-> After(f, d, time)]
      BY <1>1, ReplayUpto
    <2>2. QED
      BY <1>2, <2>1
  <1>. DEFINE g == CHOOSE f : f = [d \in SUBSET Attempts |-> After(f, d, time)]
  <1>4. g = [d \in SUBSET Attempts |-> After(g, d, time)]
    BY <1>3
  <1>5. \A d : Replay(d, time) = g[d]
    BY Zenon DEF Replay, After
  <1>. HIDE DEF g
  <1>6. \A d \in SUBSET Attempts : g[d] = After(g, d, time)
    BY <1>4
  <1>7. QED
    BY <1>5, <1>6 DEF After

-----------------------------------------------------------------------------
(* Tables that are made of the attempts of a set, each counted once        *)

RatingFits(r, v, done) ==
    /\ v.attempts = Len(v.games)
    /\ \A i \in 1..Len(v.games) : LET a == v.games[i].attempt IN
         /\ a \in done /\ Student[a] = r[1] /\ r[2] \in Skills[Exercise[a]]
         /\ \A k \in 1..Len(v.games) : v.games[k].attempt = a => k = i

\* Of the attempts of done, those of keep count as a student's first and only.
DifficultyFits(e, q, done, keep) ==
    \A i \in 1..Len(q) :
        /\ q[i] \in done /\ Exercise[q[i]] = e /\ Student[q[i]] \notin Simulated
        /\ \A k \in 1..Len(q) : q[i] = q[k] => i = k
        /\ \A k \in 1..Len(q) : i < k /\ Student[q[i]] = Student[q[k]] => q[i] \notin keep

Ratings      == [Rows -> Rating \union {None}]
Difficulties == [Exercises -> Seq(Attempts)]

Fit(rs, ds, done, keep) ==
    /\ \A r \in Rows : rs[r] # None => RatingFits(r, rs[r], done)
    /\ \A e \in Exercises : DifficultyFits(e, ds[e], done, keep)

LEMMA RatingStaysFit ==
    ASSUME NEW r, NEW v, NEW done, NEW more, done \subseteq more, RatingFits(r, v, done)
    PROVE  RatingFits(r, v, more)
  BY DEF RatingFits

LEMMA DifficultyStaysFit ==
    ASSUME NEW e, NEW q, NEW done, NEW more, NEW keep, NEW less, done \subseteq more,
           less \intersect done \subseteq keep, DifficultyFits(e, q, done, keep)
    PROVE  DifficultyFits(e, q, more, less)
  BY DEF DifficultyFits

\* An attempt that was not counted yet is counted once.
LEMMA RatedFits ==
    ASSUME NEW r \in Rows, NEW old \in Rating \union {None}, NEW done, NEW a \in Attempts,
           NEW met \in Seq(Attempts), NEW row \in Attempts \union Nat,
           old # None => RatingFits(r, old, done),
           a \notin done, Student[a] = r[1], r[2] \in Skills[Exercise[a]]
    PROVE  /\ Rated(old, a, met, row) \in Rating
           /\ RatingFits(r, Rated(old, a, met, row), done \union {a})
           /\ Rated(old, a, met, row).games =
                IF old = None THEN <<Game(a, met)>> ELSE Append(old.games, Game(a, met))
  <1>. DEFINE g == Game(a, met)  v == Rated(old, a, met, row)
  <1>1. g \in [attempt : Attempts, met : Seq(Attempts)] /\ g.attempt = a
    BY DEF Game
  <1>. HIDE DEF g
  <1>2. CASE old = None
    <2>1. v = [games |-> <<g>>, attempts |-> 1, row |-> row]
      BY <1>2 DEF Rated, g
    <2>2. v.games = <<g>> /\ v.attempts = 1 /\ Len(v.games) = 1 /\ v.games[1] = g
      BY <2>1
    <2>3. <<g>> \in Seq([attempt : Attempts, met : Seq(Attempts)])
      BY <1>1
    <2>4. v \in Rating
      BY <2>1, <2>3 DEF Rating
    <2>. HIDE DEF v
    <2>5. \A i \in 1..Len(v.games) : i = 1
      BY <2>2
    <2>6. RatingFits(r, v, done \union {a})
      BY <1>1, <2>2, <2>5 DEF RatingFits
    <2>7. QED
      BY <1>2, <2>2, <2>4, <2>6 DEF v, g
  <1>3. CASE old # None
    <2>. DEFINE n == Len(old.games)
    <2>1. /\ old \in Rating /\ old.games \in Seq([attempt : Attempts, met : Seq(Attempts)])
          /\ old.attempts \in Nat
      BY <1>3 DEF Rating
    <2>2. v = [old EXCEPT !.games = Append(old.games, g), !.attempts = old.attempts + 1]
      BY <1>3 DEF Rated, g
    <2>3. /\ v.games = Append(old.games, g) /\ v.attempts = old.attempts + 1
          /\ v.games \in Seq([attempt : Attempts, met : Seq(Attempts)])
      BY <1>1, <2>1, <2>2 DEF Rating
    <2>4. v \in Rating
      <3>1. v = [games |-> v.games, attempts |-> old.attempts + 1, row |-> old.row]
        BY <2>1, <2>2, <2>3 DEF Rating
      <3>2. old.attempts + 1 \in Nat /\ old.row \in Attempts \union Nat
        BY <2>1 DEF Rating
      <3>3. \A games \in Seq([attempt : Attempts, met : Seq(Attempts)]), k \in Nat,
               row2 \in Attempts \union Nat :
                 [games |-> games, attempts |-> k, row |-> row2] \in Rating
        BY DEF Rating
      <3>. HIDE DEF v
      <3>4. QED
        BY <2>3, <3>1, <3>2, <3>3
    <2>. HIDE DEF v
    <2>5. /\ n \in Nat /\ Len(v.games) = n + 1 /\ v.games[n + 1] = g
          /\ \A i \in 1..n : v.games[i] = old.games[i]
      BY <1>1, <2>1, <2>3
    <2>6. /\ old.attempts = n
          /\ \A i \in 1..n : /\ old.games[i].attempt \in done
                             /\ Student[old.games[i].attempt] = r[1]
                             /\ r[2] \in Skills[Exercise[old.games[i].attempt]]
                             /\ \A k \in 1..n : old.games[k].attempt = old.games[i].attempt => k = i
      BY <1>3 DEF RatingFits
    <2>. HIDE DEF n
    <2>7. \A i \in 1..(n + 1) : i \in 1..n \/ i = n + 1
      BY <2>5
    <2>8. ASSUME NEW i \in 1..(n + 1)
          PROVE  LET b == v.games[i].attempt IN
                   /\ b \in done \union {a} /\ Student[b] = r[1] /\ r[2] \in Skills[Exercise[b]]
                   /\ \A k \in 1..(n + 1) : v.games[k].attempt = b => k = i
      BY SMTT(40), <1>1, <2>5, <2>6, <2>7
    <2>9. v.attempts = Len(v.games)
      BY <2>3, <2>5, <2>6
    <2>10. RatingFits(r, v, done \union {a})
      BY <2>5, <2>8, <2>9 DEF RatingFits
    <2>11. QED
      BY <1>3, <2>3, <2>4, <2>10 DEF v, g
  <1>4. QED
    BY <1>2, <1>3

\* An attempt that was not counted yet moves the difficulty, past its student's that are not kept.
LEMMA MovedFits ==
    ASSUME NEW e, NEW q \in Seq(Attempts), NEW done, NEW keep, NEW less, NEW a \in Attempts,
           DifficultyFits(e, q, done, keep), less \intersect done \subseteq keep, a \notin done,
           Exercise[a] = e, Student[a] \notin Simulated,
           \A i \in 1..Len(q) : Student[q[i]] = Student[a] => q[i] \notin keep
    PROVE  DifficultyFits(e, Append(q, a), done \union {a}, less) /\ Append(q, a) \in Seq(Attempts)
  <1>. DEFINE n == Len(q)  v == Append(q, a)
  <1>1. /\ n \in Nat /\ Len(v) = n + 1 /\ v[n + 1] = a /\ v \in Seq(Attempts)
        /\ \A i \in 1..n : v[i] = q[i]
    OBVIOUS
  <1>2. \A i \in 1..n : /\ q[i] \in done /\ Exercise[q[i]] = e /\ Student[q[i]] \notin Simulated
                        /\ \A k \in 1..n : q[i] = q[k] => i = k
                        /\ \A k \in 1..n : i < k /\ Student[q[i]] = Student[q[k]] => q[i] \notin less
                        /\ Student[q[i]] = Student[a] => q[i] \notin less
    BY DEF DifficultyFits
  <1>. HIDE DEF n, v
  <1>3. \A i \in 1..(n + 1) : i \in 1..n \/ i = n + 1
    BY <1>1
  <1>4. ASSUME NEW i \in 1..(n + 1)
        PROVE  /\ v[i] \in done \union {a} /\ Exercise[v[i]] = e /\ Student[v[i]] \notin Simulated
               /\ \A k \in 1..(n + 1) : v[i] = v[k] => i = k
    BY <1>1, <1>2, <1>3
  <1>5. ASSUME NEW i \in 1..(n + 1), NEW k \in 1..(n + 1), i < k, Student[v[i]] = Student[v[k]]
        PROVE  v[i] \notin less
    <2>1. i \in 1..n /\ v[i] = q[i]
      BY <1>1, <1>3, <1>5
    <2>2. CASE k \in 1..n
      BY <1>1, <1>2, <1>5, <2>1, <2>2
    <2>3. CASE k = n + 1
      BY <1>1, <1>2, <1>5, <2>1, <2>3
    <2>4. QED
      BY <1>3, <2>2, <2>3
  <1>6. DifficultyFits(e, v, done \union {a}, less)
    BY <1>1, <1>4, <1>5 DEF DifficultyFits
  <1>7. QED
    BY <1>1, <1>6 DEF v

Tables == [ratings : Ratings, difficulty : Difficulties, seen : SUBSET Attempts]

\* The replay keeps every attempt: each student moves a difficulty once.
ReplayFits(D, time) ==
    /\ Replay(D, time) \in Tables /\ Replay(D, time).seen = D
    /\ Fit(Replay(D, time).ratings, Replay(D, time).difficulty, D, D)

LEMMA EmptyFits == EmptyTables \in Tables /\ EmptyTables.seen = {}
                   /\ Fit(EmptyTables.ratings, EmptyTables.difficulty, {}, {})
  <1>1. EmptyTables \in Tables /\ EmptyTables.seen = {}
    <2>1. [e \in Exercises |-> <<>>] \in Difficulties
      BY DEF Difficulties
    <2>2. [r \in Rows |-> None] \in Ratings
      BY DEF Ratings
    <2>3. QED
      BY <2>1, <2>2 DEF EmptyTables, Tables
  <1>2. /\ \A r \in Rows : EmptyTables.ratings[r] = None
        /\ \A e \in Exercises : EmptyTables.difficulty[e] = <<>>
    BY DEF EmptyTables
  <1>3. \A e : DifficultyFits(e, <<>>, {}, {})
    BY DEF DifficultyFits
  <1>4. QED
    BY <1>1, <1>2, <1>3 DEF Fit

\* One more attempt is played on tables that fit.
LEMMA PlayFits ==
    ASSUME NEW t \in Tables, NEW a \in Attempts, a \notin t.seen,
           Fit(t.ratings, t.difficulty, t.seen, t.seen)
    PROVE  /\ Play(t, a) \in Tables /\ Play(t, a).seen = t.seen \union {a}
           /\ Fit(Play(t, a).ratings, Play(t, a).difficulty, t.seen \union {a}, t.seen \union {a})
  <1>. DEFINE e == Exercise[a]  u == Play(t, a)  more == t.seen \union {a}
  <1>1. /\ t.ratings \in Ratings /\ t.difficulty \in Difficulties /\ t.seen \in SUBSET Attempts
        /\ e \in Exercises
    BY DEF Tables, Exercises
  <1>2. /\ u.ratings = [r \in Rows |->
             IF r[1] = Student[a] /\ r[2] \in Skills[e]
             THEN Rated(t.ratings[r], a, t.difficulty[e], 0) ELSE t.ratings[r]]
        /\ u.difficulty = IF Moves(a, t.seen)
                          THEN [t.difficulty EXCEPT ![e] = Append(@, a)] ELSE t.difficulty
        /\ u.seen = more
        /\ u = [ratings |-> u.ratings, difficulty |-> u.difficulty, seen |-> u.seen]
    BY DEF Play
  <1>. HIDE DEF u
  <1>3. t.difficulty[e] \in Seq(Attempts) /\ 0 \in Attempts \union Nat
    BY <1>1 DEF Difficulties
  <1>4. ASSUME NEW r \in Rows
        PROVE  /\ u.ratings[r] \in Rating \union {None}
               /\ u.ratings[r] # None => RatingFits(r, u.ratings[r], more)
    <2>1. /\ t.ratings[r] \in Rating \union {None}
          /\ t.ratings[r] # None => RatingFits(r, t.ratings[r], t.seen)
      BY <1>1 DEF Ratings, Fit
    <2>2. CASE r[1] = Student[a] /\ r[2] \in Skills[e]
      <3>1. u.ratings[r] = Rated(t.ratings[r], a, t.difficulty[e], 0)
        BY <1>2, <2>2
      <3>2. /\ Rated(t.ratings[r], a, t.difficulty[e], 0) \in Rating
            /\ RatingFits(r, Rated(t.ratings[r], a, t.difficulty[e], 0), more)
        BY <1>3, <2>1, <2>2, RatedFits
      <3>3. QED
        BY <3>1, <3>2
    <2>3. CASE ~(r[1] = Student[a] /\ r[2] \in Skills[e])
      <3>1. u.ratings[r] = t.ratings[r]
        BY <1>2, <2>3
      <3>2. QED
        BY <2>1, <3>1, RatingStaysFit
    <2>4. QED
      BY <2>2, <2>3
  <1>5. ASSUME NEW d \in Exercises
        PROVE  u.difficulty[d] \in Seq(Attempts) /\ DifficultyFits(d, u.difficulty[d], more, more)
    <2>1. t.difficulty[d] \in Seq(Attempts) /\ DifficultyFits(d, t.difficulty[d], t.seen, t.seen)
      BY <1>1 DEF Difficulties, Fit
    <2>2. CASE Moves(a, t.seen) /\ d = e
      <3>1. u.difficulty[d] = Append(t.difficulty[d], a)
        BY <1>1, <1>2, <2>2 DEF Difficulties
      <3>2. Student[a] \notin Simulated
        BY <2>2 DEF Moves
      <3>3. \A i \in 1..Len(t.difficulty[d]) : Student[t.difficulty[d][i]] # Student[a]
        BY <2>1, <2>2 DEF DifficultyFits, Moves, SameTask
      <3>4. more \intersect t.seen \subseteq t.seen
        OBVIOUS
      <3>5. QED
        BY <2>1, <2>2, <3>1, <3>2, <3>3, <3>4, MovedFits
    <2>3. CASE ~(Moves(a, t.seen) /\ d = e)
      <3>1. u.difficulty[d] = t.difficulty[d]
        BY <1>1, <1>2, <2>3 DEF Difficulties
      <3>2. t.seen \subseteq more /\ more \intersect t.seen \subseteq t.seen
        OBVIOUS
      <3>3. QED
        BY <2>1, <3>1, <3>2, DifficultyStaysFit
    <2>4. QED
      BY <2>2, <2>3
  <1>6. u.ratings \in Ratings
    <2>1. u.ratings = [r \in Rows |-> u.ratings[r]]
      BY <1>2
    <2>2. QED
      BY <1>4, <2>1 DEF Ratings
  <1>7. u.difficulty \in Difficulties
    <2>1. u.difficulty = [d \in Exercises |-> u.difficulty[d]]
      BY <1>1, <1>2 DEF Difficulties
    <2>2. QED
      BY <1>5, <2>1 DEF Difficulties
  <1>8. u \in Tables
    BY <1>1, <1>2, <1>6, <1>7 DEF Tables
  <1>9. QED
    BY <1>2, <1>4, <1>5, <1>8 DEF u, Fit

\* However many attempts are replayed: the tables fit them.
LEMMA ReplayIsFit ==
    ASSUME NEW D \in SUBSET Attempts, NEW time \in [Attempts -> Nat]
    PROVE  ReplayFits(D, time)
  <1>. DEFINE F == {E \in SUBSET Attempts : ~ReplayFits(E, time)}
  <1>1. F = {}
    <2>1. SUFFICES ASSUME F # {} PROVE FALSE
      OBVIOUS
    <2>2. PICK E \in F : \A x \in E : E \ {x} \notin F
      <3>. HIDE DEF F
      <3>1. F \in SUBSET (SUBSET Attempts)
        BY DEF F
      <3>2. QED
        BY <2>1, <3>1, SmallestSet
    <2>3. CASE E = {}
      BY <2>2, <2>3, ReplayValues, EmptyFits DEF ReplayFits
    <2>4. CASE E # {}
      <3>. DEFINE a == Newest(E, time)
      <3>1. a \in E /\ E \in SUBSET Attempts
        BY <2>2, <2>4, NewestOf
      <3>2. ReplayFits(E \ {a}, time)
        BY <2>2, <3>1
      <3>3. Replay(E, time) = Play(Replay(E \ {a}, time), a)
        BY <2>4, <3>1, ReplayValues
      <3>4. (E \ {a}) \union {a} = E
        BY <3>1
      <3>. HIDE DEF a
      <3>5. ReplayFits(E, time)
        BY <3>1, <3>2, <3>3, <3>4, PlayFits DEF ReplayFits
      <3>6. QED
        BY <2>2, <3>5
    <2>5. QED
      BY <2>3, <2>4
  <1>2. QED
    BY <1>1

-----------------------------------------------------------------------------
(* The invariant                                                           *)

Done == Range(reports)

\* What a scoring and the rebuild carry, by their step.
ScoreJobs(a) ==
         {Idle}
  \union [at : {"loaded"}, met : Seq(Attempts)]
  \union [at : {"read"}, met : Seq(Attempts), rows : [Skills[Exercise[a]] -> Rating \union {None}]]
  \union [at : {"counted"}, met : Seq(Attempts),
          rows : [Skills[Exercise[a]] -> Rating \union {None}], moves : BOOLEAN]

RebuildJobs ==
         {Idle}
  \union [at : {"begun"}, loaded : Difficulties, alone : BOOLEAN]
  \union [at : {"replayed"}, loaded : Difficulties, alone : BOOLEAN, result : Tables]
  \union [at : {"deleted"}, loaded : Difficulties, alone : BOOLEAN, result : Tables,
          gone : SUBSET Rows]

LearnerFits ==
    /\ ratings \in Ratings /\ difficulty \in Difficulties /\ reports \in Seq(Attempts)
    /\ scored \subseteq Done /\ submitted \in [Attempts -> Nat]
    /\ DOMAIN scoring = Attempts /\ \A a \in Attempts : scoring[a] \in ScoreJobs(a)
    /\ rebuild \in RebuildJobs /\ rebuilds \in 0..MaxRebuilds /\ inStep \in BOOLEAN

\* What scoring a has read, j, fits the reports and leaves room for a, if a has none.
JobFits(a, j, done, keep) ==
    /\ j.at # "idle" => DifficultyFits(Exercise[a], j.met, done, keep)
    /\ j.at \in {"read", "counted"} =>
         \A s \in Skills[Exercise[a]] : j.rows[s] # None => RatingFits(<<Student[a], s>>, j.rows[s], done)
    /\ j.at = "counted" /\ j.moves /\ a \notin done =>
         /\ Student[a] \notin Simulated
         /\ \A i \in 1..Len(j.met) : Student[j.met[i]] = Student[a] => j.met[i] \notin keep

ResultFits == rebuild.at \in {"replayed", "deleted"} =>
                 Fit(rebuild.result.ratings, rebuild.result.difficulty, Done, scored)

\* In step, the only scoring under way has read what is there.
InStepJobs ==
    inStep => \A a \in Writing :
        /\ Writing = {a}
        /\ scoring[a].met = difficulty[Exercise[a]]
        /\ scoring[a].at \in {"read", "counted"} =>
             \A s \in Skills[Exercise[a]] : scoring[a].rows[s] = ratings[<<Student[a], s>>]
        /\ scoring[a].at = "counted" =>
             scoring[a].moves = Moves(a, scored)

\* A rebuild that is alone replays what is there.
AloneRebuild ==
    rebuild # Idle /\ rebuild.alone =>
        /\ Writing = {} /\ rebuild.loaded = difficulty
        /\ rebuild.at \in {"replayed", "deleted"} => rebuild.result = Replay(Done, submitted)
        /\ rebuild.at = "deleted" => rebuild.gone = {r \in Rows : ratings[r] # None}

CountInv == /\ LearnerFits /\ Fit(ratings, difficulty, Done, scored) /\ ResultFits
            /\ \A a \in Attempts : JobFits(a, scoring[a], Done, scored)
StepInv  == InStepJobs /\ AloneRebuild /\ ExactInStep

-----------------------------------------------------------------------------
(* What the steps find and leave                                           *)

LEMMA ScoreJobFields ==
    ASSUME NEW a \in Attempts, NEW j \in ScoreJobs(a)
    PROVE  /\ j.at \in {"idle", "loaded", "read", "counted"}
           /\ j.at = "idle" <=> j = Idle
           /\ j.at # "idle" => j.met \in Seq(Attempts)
           /\ j.at \in {"read", "counted"} => j.rows \in [Skills[Exercise[a]] -> Rating \union {None}]
           /\ j.at = "counted" => j.moves \in BOOLEAN
  BY DEF ScoreJobs, Idle

LEMMA RebuildFields ==
    ASSUME NEW j \in RebuildJobs
    PROVE  /\ j.at \in {"idle", "begun", "replayed", "deleted"}
           /\ j.at = "idle" <=> j = Idle
           /\ j.at # "idle" => j.loaded \in Difficulties /\ j.alone \in BOOLEAN
           /\ j.at \in {"replayed", "deleted"} => j.result \in Tables
           /\ j.at = "deleted" => j.gone \in SUBSET Rows
  BY DEF RebuildJobs, Idle

LEMMA ExerciseFacts ==
    ASSUME NEW a \in Attempts
    PROVE  /\ Exercise[a] \in Exercises /\ Student[a] \in Students
           /\ \A s \in Skills[Exercise[a]] : <<Student[a], s>> \in Rows
  BY DEF Exercises, Students, Rows, AllSkills

LEMMA RowFacts ==
    ASSUME NEW r \in Rows
    PROVE  r = <<r[1], r[2]>>
  BY DEF Rows

LEMMA DoneGrows ==
    ASSUME reports \in Seq(Attempts), NEW a \in Attempts, reports' = Append(reports, a)
    PROVE  Done' = Done \union {a} /\ reports' \in Seq(Attempts)
  <1>1. /\ Len(reports') = Len(reports) + 1 /\ Len(reports) \in Nat
        /\ DOMAIN reports = 1..Len(reports) /\ DOMAIN reports' = 1..(Len(reports) + 1)
        /\ reports'[Len(reports) + 1] = a
        /\ \A i \in 1..Len(reports) : reports'[i] = reports[i]
        /\ reports' \in Seq(Attempts)
    OBVIOUS
  <1>2. \A i \in 1..(Len(reports) + 1) : i \in 1..Len(reports) \/ i = Len(reports) + 1
    BY <1>1
  <1>3. 1..Len(reports) \subseteq 1..(Len(reports) + 1) /\ Len(reports) + 1 \in 1..(Len(reports) + 1)
    BY <1>1
  <1>4. QED
    BY <1>1, <1>2, <1>3 DEF Done, Range

LEMMA DoneIsAttempts ==
    ASSUME reports \in Seq(Attempts)
    PROVE  Done \in SUBSET Attempts
  BY DEF Done, Range

\* One scoring moves on; the others and the reports stay.
LEMMA JobsMoveOn ==
    ASSUME CountInv, NEW a \in Attempts, NEW j \in ScoreJobs(a), JobFits(a, j, Done, scored),
           scoring' = [scoring EXCEPT ![a] = j],
           UNCHANGED <<ratings, difficulty, reports, scored, submitted, rebuilds>>,
           rebuild' \in RebuildJobs, inStep' \in BOOLEAN,
           \/ rebuild' = rebuild
           \/ /\ rebuild'.at = rebuild.at
              /\ rebuild.at \in {"replayed", "deleted"} => rebuild'.result = rebuild.result
    PROVE  CountInv'
  <1>1. DOMAIN scoring = Attempts /\ \A b \in Attempts : scoring[b] \in ScoreJobs(b) /\ JobFits(b, scoring[b], Done, scored)
    BY DEF CountInv, LearnerFits
  <1>2. /\ DOMAIN scoring' = Attempts
        /\ \A b \in Attempts : scoring'[b] = IF b = a THEN j ELSE scoring[b]
    BY <1>1
  <1>3. Done' = Done
    BY DEF Done
  <1>4. \A b \in Attempts : scoring'[b] \in ScoreJobs(b) /\ JobFits(b, scoring'[b], Done', scored')
    BY <1>1, <1>2, <1>3
  <1>5. LearnerFits'
    BY <1>2, <1>3, <1>4 DEF CountInv, LearnerFits
  <1>6. Fit(ratings, difficulty, Done, scored)' /\ ResultFits'
    BY <1>3 DEF CountInv, ResultFits
  <1>7. \A a_1 \in Attempts : JobFits(a_1, scoring[a_1], Done, scored)'
    BY <1>4
  <1>8. QED
    BY <1>5, <1>6, <1>7 DEF CountInv

LEMMA LoadKeepsCount ==
    ASSUME CountInv, NEW a \in Attempts, LoadExercise(a)
    PROVE  CountInv'
  <1>. DEFINE j == [at |-> "loaded", met |-> difficulty[Exercise[a]]]
  <1>1. difficulty[Exercise[a]] \in Seq(Attempts) /\ DifficultyFits(Exercise[a], difficulty[Exercise[a]], Done, scored)
    BY ExerciseFacts DEF CountInv, LearnerFits, Difficulties, Fit
  <1>2. j \in ScoreJobs(a)
    BY <1>1 DEF ScoreJobs
  <1>3. JobFits(a, j, Done, scored)
    BY <1>1 DEF JobFits
  <1>4. /\ rebuild' \in RebuildJobs
        /\ \/ rebuild' = rebuild
           \/ /\ rebuild'.at = rebuild.at
              /\ rebuild.at \in {"replayed", "deleted"} => rebuild'.result = rebuild.result
    <2>1. CASE rebuild = Idle
      BY <2>1 DEF LoadExercise, RebuildJobs
    <2>2. CASE rebuild # Idle
      BY <2>2 DEF LoadExercise, RebuildJobs, CountInv, LearnerFits
    <2>3. QED
      BY <2>1, <2>2
  <1>. HIDE DEF j
  <1>5. inStep' \in BOOLEAN
    BY DEF LoadExercise, CountInv, LearnerFits
  <1>6. /\ scoring' = [scoring EXCEPT ![a] = j]
        /\ UNCHANGED <<ratings, difficulty, reports, scored, submitted, rebuilds>>
    BY DEF LoadExercise, j
  <1>7. QED
    BY <1>2, <1>3, <1>4, <1>5, <1>6, JobsMoveOn

LEMMA ReadKeepsCount ==
    ASSUME CountInv, NEW a \in Attempts, ReadRows(a)
    PROVE  CountInv'
  <1>. DEFINE rs == [s \in Skills[Exercise[a]] |-> ratings[<<Student[a], s>>]]
              j == [at |-> "read", met |-> scoring[a].met, rows |-> rs]
  <1>0. /\ scoring[a] \in ScoreJobs(a) /\ scoring[a].at = "loaded" /\ JobFits(a, scoring[a], Done, scored)
        /\ rebuild \in RebuildJobs /\ inStep \in BOOLEAN
    BY DEF ReadRows, CountInv, LearnerFits
  <1>1. scoring[a].met \in Seq(Attempts) /\ DifficultyFits(Exercise[a], scoring[a].met, Done, scored)
    BY <1>0, ScoreJobFields DEF JobFits
  <1>2. \A s \in Skills[Exercise[a]] :
           /\ ratings[<<Student[a], s>>] \in Rating \union {None}
           /\ ratings[<<Student[a], s>>] # None => RatingFits(<<Student[a], s>>, ratings[<<Student[a], s>>], Done)
    BY ExerciseFacts DEF CountInv, LearnerFits, Ratings, Fit
  <1>3. rs \in [Skills[Exercise[a]] -> Rating \union {None}] /\ \A s \in Skills[Exercise[a]] : rs[s] = ratings[<<Student[a], s>>]
    BY <1>2
  <1>. HIDE DEF rs
  <1>4. j \in ScoreJobs(a)
    BY <1>1, <1>3 DEF ScoreJobs
  <1>5. JobFits(a, j, Done, scored)
    BY <1>1, <1>2, <1>3 DEF JobFits
  <1>6. scoring' = [scoring EXCEPT ![a] = j] /\ UNCHANGED <<ratings, difficulty, reports, scored, submitted, rebuild, rebuilds, inStep>>
    BY DEF ReadRows, rs
  <1>. HIDE DEF j
  <1>7. QED
    BY <1>0, <1>4, <1>5, <1>6, JobsMoveOn

LEMMA CountKeepsCount ==
    ASSUME CountInv, NEW a \in Attempts, CountEarlier(a)
    PROVE  CountInv'
  <1>. DEFINE m == Moves(a, scored)
              j == [at |-> "counted", met |-> scoring[a].met, rows |-> scoring[a].rows, moves |-> m]
  <1>0. /\ scoring[a] \in ScoreJobs(a) /\ scoring[a].at = "read" /\ JobFits(a, scoring[a], Done, scored)
        /\ rebuild \in RebuildJobs /\ inStep \in BOOLEAN
    BY DEF CountEarlier, CountInv, LearnerFits
  <1>1. /\ scoring[a].met \in Seq(Attempts)
        /\ DifficultyFits(Exercise[a], scoring[a].met, Done, scored)
        /\ scoring[a].rows \in [Skills[Exercise[a]] -> Rating \union {None}]
        /\ \A s \in Skills[Exercise[a]] : scoring[a].rows[s] # None =>
              RatingFits(<<Student[a], s>>, scoring[a].rows[s], Done)
    BY <1>0, ScoreJobFields DEF JobFits
  <1>2. m \in BOOLEAN
    BY DEF Moves
  <1>3. m /\ a \notin Done => /\ Student[a] \notin Simulated
                             /\ \A i \in 1..Len(scoring[a].met) :
                                  Student[scoring[a].met[i]] = Student[a] => scoring[a].met[i] \notin scored
    BY <1>1 DEF Moves, SameTask, DifficultyFits
  <1>6. scoring' = [scoring EXCEPT ![a] = j] /\ UNCHANGED <<ratings, difficulty, reports, scored, submitted, rebuild, rebuilds, inStep>>
    BY DEF CountEarlier
  <1>. HIDE DEF m
  <1>4. j \in ScoreJobs(a)
    BY <1>1, <1>2 DEF ScoreJobs
  <1>5. JobFits(a, j, Done, scored)
    BY <1>1, <1>3 DEF JobFits
  <1>. HIDE DEF j
  <1>7. QED
    BY <1>0, <1>4, <1>5, <1>6, JobsMoveOn

LEMMA FailKeepsCount ==
    ASSUME CountInv, NEW a \in Attempts, FailScore(a)
    PROVE  CountInv'
  <1>1. Idle \in ScoreJobs(a) /\ JobFits(a, Idle, Done, scored)
    BY DEF ScoreJobs, JobFits, Idle
  <1>2. rebuild \in RebuildJobs /\ inStep \in BOOLEAN
    BY DEF CountInv, LearnerFits
  <1>3. scoring' = [scoring EXCEPT ![a] = Idle] /\ UNCHANGED <<ratings, difficulty, reports, scored, submitted, rebuild, rebuilds, inStep>>
    BY DEF FailScore
  <1>4. QED
    BY <1>1, <1>2, <1>3, JobsMoveOn

\* What a scoring writes, fits the reports with its own.
LEMMA CommitKeepsCount ==
    ASSUME CountInv, NEW a \in Attempts, CommitScore(a)
    PROVE  CountInv'
  <1>. DEFINE j == scoring[a]  e == Exercise[a]  more == Done \union {a}
              new(r) == Rated(j.rows[r[2]], a, j.met, a)
  <1>1. /\ j \in ScoreJobs(a) /\ j.at = "counted" /\ JobFits(a, j, Done, scored)
        /\ ratings \in Ratings /\ difficulty \in Difficulties /\ reports \in Seq(Attempts)
        /\ Fit(ratings, difficulty, Done, scored) /\ DOMAIN scoring = Attempts /\ e \in Exercises
    BY ExerciseFacts DEF CommitScore, CountInv, LearnerFits
  <1>2. /\ j.met \in Seq(Attempts) /\ j.rows \in [Skills[e] -> Rating \union {None}]
        /\ j.moves \in BOOLEAN /\ a \notin Done /\ DifficultyFits(e, j.met, Done, scored)
        /\ \A s \in Skills[e] : j.rows[s] # None => RatingFits(<<Student[a], s>>, j.rows[s], Done)
        /\ j.moves => /\ Student[a] \notin Simulated
                      /\ \A i \in 1..Len(j.met) : Student[j.met[i]] = Student[a] => j.met[i] \notin scored
        /\ scored \subseteq Done /\ submitted \in [Attempts -> Nat]
    BY <1>1, ScoreJobFields DEF JobFits, CommitScore, Reported, Done, CountInv, LearnerFits
  <1>3. /\ ratings' = [r \in Rows |-> IF r[1] = Student[a] /\ r[2] \in Skills[e]
                                      THEN new(r) ELSE ratings[r]]
        /\ difficulty' = IF j.moves THEN [difficulty EXCEPT ![e] = Append(j.met, a)] ELSE difficulty
        /\ reports' = Append(reports, a) /\ scored' = scored \union {a}
        /\ scoring' = [scoring EXCEPT ![a] = Idle]
        /\ inStep' = (inStep /\ InOrder(a) /\ NonePutBack(a))
        /\ UNCHANGED <<submitted, rebuild, rebuilds>>
    BY DEF CommitScore, NewDifficulty
  <1>4. /\ Done' = more /\ reports' \in Seq(Attempts)
        /\ scored' \subseteq more /\ Done \subseteq more /\ scored' \intersect Done \subseteq scored
    BY <1>1, <1>2, <1>3, DoneGrows
  <1>. HIDE DEF j
  <1>5. ASSUME NEW r \in Rows
        PROVE  /\ ratings'[r] \in Rating \union {None}
               /\ ratings'[r] # None => RatingFits(r, ratings'[r], more)
    <2>1. CASE r[1] = Student[a] /\ r[2] \in Skills[e]
      <3>1. r = <<Student[a], r[2]>>
        BY <2>1, RowFacts
      <3>2. /\ j.rows[r[2]] \in Rating \union {None}
            /\ j.rows[r[2]] # None => RatingFits(r, j.rows[r[2]], Done)
        BY <1>2, <2>1, <3>1
      <3>3. new(r) \in Rating /\ RatingFits(r, new(r), more)
        BY <1>2, <2>1, <3>2, RatedFits
      <3>4. ratings'[r] = new(r)
        BY <1>3, <2>1
      <3>5. QED
        BY <3>3, <3>4
    <2>2. CASE ~(r[1] = Student[a] /\ r[2] \in Skills[e])
      <3>1. ratings'[r] = ratings[r]
        BY <1>3, <2>2
      <3>2. /\ ratings[r] \in Rating \union {None}
            /\ ratings[r] # None => RatingFits(r, ratings[r], Done)
        BY <1>1 DEF Ratings, Fit
      <3>3. QED
        BY <3>1, <3>2, RatingStaysFit
    <2>3. QED
      BY <2>1, <2>2
  <1>6. ratings' \in Ratings
    <2>1. ratings' = [r \in Rows |-> ratings'[r]]
      BY <1>3
    <2>2. QED
      BY <1>5, <2>1 DEF Ratings
  <1>7. ASSUME NEW d \in Exercises
        PROVE  difficulty'[d] \in Seq(Attempts) /\ DifficultyFits(d, difficulty'[d], more, scored')
    <2>1. difficulty[d] \in Seq(Attempts) /\ DifficultyFits(d, difficulty[d], Done, scored)
      BY <1>1 DEF Difficulties, Fit
    <2>2. CASE j.moves /\ d = e
      <3>1. difficulty'[d] = Append(j.met, a)
        BY <1>1, <1>3, <2>2 DEF Difficulties
      <3>2. DifficultyFits(e, Append(j.met, a), more, scored') /\ Append(j.met, a) \in Seq(Attempts)
        BY <1>2, <1>4, <2>2, MovedFits
      <3>3. QED
        BY <2>2, <3>1, <3>2
    <2>3. CASE ~(j.moves /\ d = e)
      <3>1. difficulty'[d] = difficulty[d]
        BY <1>1, <1>3, <2>3 DEF Difficulties
      <3>2. QED
        BY <1>4, <2>1, <3>1, DifficultyStaysFit
    <2>4. QED
      BY <2>2, <2>3
  <1>8. difficulty' \in Difficulties
    <2>1. difficulty' = [d \in Exercises |-> difficulty'[d]]
      BY <1>1, <1>3 DEF Difficulties
    <2>2. QED
      BY <1>7, <2>1 DEF Difficulties
  <1>9. \A b \in Attempts : scoring'[b] = IF b = a THEN Idle ELSE scoring[b]
    BY <1>1, <1>3
  <1>10. ASSUME NEW b \in Attempts
         PROVE  scoring'[b] \in ScoreJobs(b) /\ JobFits(b, scoring'[b], more, scored')
    <2>1. CASE b = a
      BY <1>9, <2>1 DEF ScoreJobs, JobFits, Idle
    <2>2. CASE b # a
      <3>1. scoring[b] \in ScoreJobs(b) /\ JobFits(b, scoring[b], Done, scored)
        BY DEF CountInv, LearnerFits
      <3>2. JobFits(b, scoring[b], more, scored')
        <4>1. scoring[b].at # "idle" => DifficultyFits(Exercise[b], scoring[b].met, more, scored')
          BY <1>4, <3>1, DifficultyStaysFit DEF JobFits
        <4>2. scoring[b].at \in {"read", "counted"} => \A s \in Skills[Exercise[b]] :
                scoring[b].rows[s] # None => RatingFits(<<Student[b], s>>, scoring[b].rows[s], more)
          BY <1>4, <3>1, RatingStaysFit DEF JobFits
        <4>3. scoring[b].at = "counted" /\ scoring[b].moves /\ b \notin more =>
                /\ Student[b] \notin Simulated
                /\ \A i \in 1..Len(scoring[b].met) :
                     Student[scoring[b].met[i]] = Student[b] => scoring[b].met[i] \notin scored'
          BY <1>4, <3>1 DEF JobFits, DifficultyFits
        <4>4. QED
          BY <4>1, <4>2, <4>3 DEF JobFits
      <3>3. QED
        BY <1>9, <2>2, <3>1, <3>2
    <2>3. QED
      BY <2>1, <2>2
  <1>11. LearnerFits'
    <2>1. inStep' \in BOOLEAN
      BY <1>3 DEF CountInv, LearnerFits
    <2>2. DOMAIN scoring' = Attempts
      BY <1>1, <1>3
    <2>3. QED
      BY <1>3, <1>4, <1>6, <1>8, <1>10, <2>1, <2>2 DEF CountInv, LearnerFits
  <1>12. Fit(ratings, difficulty, Done, scored)'
    BY <1>4, <1>5, <1>7 DEF Fit
  <1>13. ResultFits'
    BY <1>3, <1>4, RatingStaysFit, DifficultyStaysFit DEF CountInv, ResultFits, Fit
  <1>14. \A b \in Attempts : JobFits(b, scoring[b], Done, scored)'
    BY <1>4, <1>10
  <1>15. QED
    BY <1>11, <1>12, <1>13, <1>14 DEF CountInv

\* The steps of the rebuild before its commit, and its failure, change nothing but itself.
LEMMA RebuildKeepsCount ==
    ASSUME CountInv, BeginRebuild \/ ReadReports \/ DeleteRows \/ FailRebuild
    PROVE  CountInv'
  <1>1. /\ UNCHANGED <<ratings, difficulty, reports, scored, submitted, scoring, inStep>>
        /\ rebuilds' \in 0..MaxRebuilds
    BY LearnerAssumption DEF BeginRebuild, ReadReports, DeleteRows, FailRebuild, CountInv, LearnerFits
  <1>2. /\ rebuild \in RebuildJobs /\ difficulty \in Difficulties /\ Done \in SUBSET Attempts
        /\ scored \subseteq Done /\ submitted \in [Attempts -> Nat]
    BY DoneIsAttempts DEF CountInv, LearnerFits
  <1>3. rebuild' \in RebuildJobs /\ ResultFits'
    <2>1. CASE BeginRebuild
      <3>1. rebuild' \in [at : {"begun"}, loaded : Difficulties, alone : BOOLEAN]
        BY <1>2, <2>1 DEF BeginRebuild
      <3>2. QED
        BY <3>1 DEF RebuildJobs, ResultFits
    <2>2. CASE ReadReports
      <3>1. rebuild.loaded \in Difficulties /\ rebuild.alone \in BOOLEAN
        BY <1>2, <2>2, RebuildFields DEF ReadReports
      <3>2. ReplayFits(Done, submitted)
        BY <1>2, ReplayIsFit
      <3>3. rebuild' = [at |-> "replayed", loaded |-> rebuild.loaded, alone |-> rebuild.alone,
                        result |-> Replay(Done, submitted)]
        BY <2>2 DEF ReadReports, Done
      <3>4. rebuild' \in RebuildJobs
        BY <3>1, <3>2, <3>3 DEF RebuildJobs, ReplayFits
      <3>5. rebuild'.result = Replay(Done, submitted) /\ Done' = Done /\ scored' = scored
        BY <1>1, <3>3 DEF Done
      <3>6. Done \subseteq Done /\ scored \intersect Done \subseteq Done
        BY <1>2
      <3>7. Fit(rebuild'.result.ratings, rebuild'.result.difficulty, Done, scored)
        BY <3>2, <3>5, <3>6, DifficultyStaysFit DEF ReplayFits, Fit
      <3>8. QED
        BY <3>4, <3>5, <3>7 DEF ResultFits
    <2>3. CASE DeleteRows
      <3>1. /\ rebuild.loaded \in Difficulties /\ rebuild.alone \in BOOLEAN
            /\ rebuild.result \in Tables /\ rebuild.at = "replayed"
        BY <1>2, <2>3, RebuildFields DEF DeleteRows
      <3>2. rebuild' = [at |-> "deleted", loaded |-> rebuild.loaded, alone |-> rebuild.alone,
                        result |-> rebuild.result, gone |-> {r \in Rows : ratings[r] # None}]
        BY <2>3 DEF DeleteRows
      <3>3. {r \in Rows : ratings[r] # None} \in SUBSET Rows
        OBVIOUS
      <3>4. rebuild' \in RebuildJobs
        BY <3>1, <3>2, <3>3 DEF RebuildJobs
      <3>5. rebuild'.result = rebuild.result /\ Done' = Done /\ scored' = scored
        BY <1>1, <3>2 DEF Done
      <3>6. QED
        BY <3>1, <3>4, <3>5 DEF CountInv, ResultFits
    <2>4. CASE FailRebuild
      BY <2>4 DEF FailRebuild, RebuildJobs, ResultFits, Idle
    <2>5. QED
      BY <2>1, <2>2, <2>3, <2>4
  <1>4. Done' = Done
    BY <1>1 DEF Done
  <1>5. LearnerFits'
    BY <1>1, <1>3, <1>4 DEF CountInv, LearnerFits
  <1>6. Fit(ratings, difficulty, Done, scored)' /\ \A a \in Attempts : JobFits(a, scoring[a], Done, scored)'
    BY <1>1, <1>4 DEF CountInv
  <1>7. QED
    BY <1>3, <1>5, <1>6 DEF CountInv

\* A row of the replay is the same row under the number of the rebuild.
LEMMA RenamedFits ==
    ASSUME NEW v \in Rating, NEW n \in Nat
    PROVE  /\ [v EXCEPT !.row = n] \in Rating
           /\ [v EXCEPT !.row = n].games = v.games
           /\ [v EXCEPT !.row = n].attempts = v.attempts
  BY DEF Rating

LEMMA ReplaceKeepsCount ==
    ASSUME CountInv, CommitRebuild
    PROVE  CountInv'
  <1>. DEFINE new == rebuild.result
  <1>1. /\ ratings \in Ratings /\ difficulty \in Difficulties /\ rebuilds \in Nat
        /\ new \in Tables /\ rebuild.loaded \in Difficulties /\ rebuild.alone \in BOOLEAN
        /\ Fit(ratings, difficulty, Done, scored) /\ Fit(new.ratings, new.difficulty, Done, scored)
    BY RebuildFields, LearnerAssumption DEF CommitRebuild, CountInv, LearnerFits, ResultFits
  <1>2. /\ ratings' = [r \in Rows |->
            IF new.ratings[r] # None THEN [new.ratings[r] EXCEPT !.row = rebuilds]
            ELSE IF r \in rebuild.gone THEN None ELSE ratings[r]]
        /\ difficulty' = [e \in Exercises |->
            IF new.difficulty[e] = rebuild.loaded[e] THEN difficulty[e] ELSE new.difficulty[e]]
        /\ inStep' = rebuild.alone /\ rebuild' = Idle
        /\ UNCHANGED <<reports, scored, submitted, scoring, rebuilds>>
    BY DEF CommitRebuild
  <1>. HIDE DEF new
  <1>3. ASSUME NEW r \in Rows
        PROVE  /\ ratings'[r] \in Rating \union {None}
               /\ ratings'[r] # None => RatingFits(r, ratings'[r], Done)
    <2>1. /\ ratings[r] \in Rating \union {None} /\ new.ratings[r] \in Rating \union {None}
          /\ ratings[r] # None => RatingFits(r, ratings[r], Done)
          /\ new.ratings[r] # None => RatingFits(r, new.ratings[r], Done)
      BY <1>1 DEF Tables, Ratings, Fit
    <2>2. CASE new.ratings[r] # None
      <3>. DEFINE v == [new.ratings[r] EXCEPT !.row = rebuilds]
      <3>1. /\ v \in Rating /\ v.games = new.ratings[r].games
            /\ v.attempts = new.ratings[r].attempts
        BY <1>1, <2>1, <2>2, RenamedFits
      <3>2. ratings'[r] = v
        BY <1>2, <2>2
      <3>. HIDE DEF v
      <3>3. RatingFits(r, v, Done)
        BY <2>1, <2>2, <3>1 DEF RatingFits
      <3>4. QED
        BY <3>1, <3>2, <3>3
    <2>3. CASE new.ratings[r] = None
      BY <1>2, <2>1, <2>3
    <2>4. QED
      BY <2>2, <2>3
  <1>4. ASSUME NEW e \in Exercises
        PROVE  difficulty'[e] \in Seq(Attempts) /\ DifficultyFits(e, difficulty'[e], Done, scored)
    BY <1>1, <1>2 DEF Tables, Difficulties, Fit
  <1>5. ratings' \in Ratings
    <2>1. ratings' = [r \in Rows |-> ratings'[r]]
      BY <1>2
    <2>2. QED
      BY <1>3, <2>1 DEF Ratings
  <1>6. difficulty' \in Difficulties
    BY <1>2, <1>4 DEF Difficulties
  <1>7. Done' = Done
    BY <1>2 DEF Done
  <1>8. LearnerFits'
    BY <1>1, <1>2, <1>5, <1>6, <1>7 DEF CountInv, LearnerFits, RebuildJobs
  <1>9. Fit(ratings, difficulty, Done, scored)'
    BY <1>2, <1>3, <1>4, <1>7 DEF Fit
  <1>10. ResultFits'
    BY <1>2 DEF ResultFits, Idle
  <1>11. \A a \in Attempts : JobFits(a, scoring[a], Done, scored)'
    BY <1>2, <1>7 DEF CountInv
  <1>12. QED
    BY <1>8, <1>9, <1>10, <1>11 DEF CountInv

\* What a late submit puts back is kept no longer.
LEMMA LateKeepsCount ==
    ASSUME CountInv, NEW a \in Attempts, NEW now \in 1..LastInstant, LateSubmit(a, now)
    PROVE  CountInv'
  <1>1. /\ scored' \subseteq scored /\ scored \subseteq Done /\ now \in Nat
        /\ submitted' = [submitted EXCEPT ![a] = now] /\ inStep' = FALSE
        /\ UNCHANGED <<ratings, difficulty, reports, scoring, rebuilds>>
    BY LearnerAssumption DEF LateSubmit, CountInv, LearnerFits
  <1>2. Done' = Done /\ submitted' \in [Attempts -> Nat]
    BY <1>1 DEF Done, CountInv, LearnerFits
  <1>3. /\ rebuild' \in RebuildJobs
        /\ \/ rebuild' = rebuild
           \/ /\ rebuild'.at = rebuild.at
              /\ rebuild.at \in {"replayed", "deleted"} => rebuild'.result = rebuild.result
    <2>1. CASE rebuild = Idle
      BY <2>1 DEF LateSubmit, RebuildJobs
    <2>2. CASE rebuild # Idle
      BY <2>2 DEF LateSubmit, RebuildJobs, CountInv, LearnerFits
    <2>3. QED
      BY <2>1, <2>2
  <1>4. scored' \intersect Done \subseteq scored /\ Done \subseteq Done
    BY <1>1
  <1>5. /\ Fit(ratings, difficulty, Done, scored')
        /\ rebuild.at \in {"replayed", "deleted"} =>
             Fit(rebuild.result.ratings, rebuild.result.difficulty, Done, scored')
    BY <1>4, DifficultyStaysFit DEF Fit, CountInv, ResultFits
  <1>6. \A b \in Attempts : JobFits(b, scoring[b], Done, scored)'
    <2>1. SUFFICES ASSUME NEW b \in Attempts PROVE JobFits(b, scoring[b], Done, scored')
      BY <1>1, <1>2
    <2>2. JobFits(b, scoring[b], Done, scored)
      BY DEF CountInv
    <2>3. QED
      BY <1>1, <1>4, <2>2, DifficultyStaysFit DEF JobFits
  <1>7. LearnerFits'
    BY <1>1, <1>2, <1>3 DEF CountInv, LearnerFits
  <1>8. Fit(ratings, difficulty, Done, scored)'
    BY <1>1, <1>2, <1>5
  <1>9. ResultFits'
    BY <1>2, <1>3, <1>5 DEF ResultFits
  <1>10. QED
    BY <1>6, <1>7, <1>8, <1>9 DEF CountInv

LEMMA NextCount == CountInv /\ [LearnerNext]_learnerVars => CountInv'
  <1>. SUFFICES ASSUME CountInv, [LearnerNext]_learnerVars PROVE CountInv'
    OBVIOUS
  <1>1. CASE UNCHANGED learnerVars
    BY <1>1 DEF learnerVars, CountInv, LearnerFits, ResultFits, Done
  <1>2. CASE LearnerNext
    BY <1>2, LoadKeepsCount, ReadKeepsCount, CountKeepsCount, CommitKeepsCount, FailKeepsCount,
       LateKeepsCount, RebuildKeepsCount, ReplaceKeepsCount DEF LearnerNext
  <1>3. QED
    BY <1>1, <1>2

LEMMA InitCount == LearnerInit => CountInv
  <1>. SUFFICES ASSUME LearnerInit PROVE CountInv
    OBVIOUS
  <1>1. Done = {}
    BY DEF LearnerInit, Done, Range
  <1>2. \A a \in Attempts : scoring[a] = Idle
    BY DEF LearnerInit
  <1>3. LearnerFits
    BY <1>2, LearnerAssumption DEF LearnerInit, LearnerFits, Ratings, Difficulties, ScoreJobs, RebuildJobs
  <1>4. Fit(ratings, difficulty, Done, scored)
    BY DEF LearnerInit, Fit, DifficultyFits
  <1>5. ResultFits /\ \A a \in Attempts : JobFits(a, scoring[a], Done, scored)
    BY <1>2 DEF LearnerInit, ResultFits, JobFits, Idle
  <1>6. QED
    BY <1>3, <1>4, <1>5 DEF CountInv

\* Whatever overlaps, each reported attempt is counted once: lost updates may lose it, nothing
\* counts it twice, and an attempt that was not reported is never counted.  Two attempts of a
\* student move a difficulty only where the status of the earlier one was put back.
THEOREM AttemptsCountOnce == LearnerSpec => []EachAttemptCountsOnce
  <1>1. CountInv => EachAttemptCountsOnce
    <2>. SUFFICES ASSUME CountInv PROVE EachAttemptCountsOnce
      OBVIOUS
    <2>1. ASSUME NEW r \in Rows, ratings[r] # None
          PROVE  /\ ratings[r].attempts = Len(ratings[r].games)
                 /\ \A i \in DOMAIN ratings[r].games : LET a == ratings[r].games[i].attempt IN
                      /\ Reported(a) /\ Student[a] = r[1] /\ r[2] \in Skills[Exercise[a]]
                      /\ \A k \in DOMAIN ratings[r].games : ratings[r].games[k].attempt = a => k = i
      <3>1. RatingFits(r, ratings[r], Done) /\ ratings[r] \in Rating
        BY <2>1 DEF CountInv, LearnerFits, Fit, Ratings
      <3>2. DOMAIN ratings[r].games = 1..Len(ratings[r].games)
        BY <3>1 DEF Rating
      <3>3. QED
        BY <3>1, <3>2 DEF RatingFits, Reported, Done
    <2>2. ASSUME NEW e \in Exercises, NEW i \in DOMAIN difficulty[e], NEW k \in DOMAIN difficulty[e]
          PROVE  /\ Reported(difficulty[e][i]) /\ Student[difficulty[e][i]] \notin Simulated
                 /\ difficulty[e][i] = difficulty[e][k] => i = k
                 /\ i < k /\ Student[difficulty[e][i]] = Student[difficulty[e][k]] =>
                      difficulty[e][i] \notin scored
      <3>1. DifficultyFits(e, difficulty[e], Done, scored) /\ difficulty[e] \in Seq(Attempts)
        BY DEF CountInv, LearnerFits, Fit, Difficulties
      <3>2. QED
        BY <2>2, <3>1 DEF DifficultyFits, Reported, Done
    <2>3. QED
      BY <2>1, <2>2 DEF EachAttemptCountsOnce
  <1>2. QED
    BY <1>1, InitCount, NextCount, PTL DEF LearnerSpec

\* The type invariant of LearnerModel.
THEOREM LearnerTypeCorrect == LearnerSpec => []LearnerTypeOK
  <1>1. CountInv => LearnerTypeOK
    BY ScoreJobFields, RebuildFields
    DEF CountInv, LearnerFits, LearnerTypeOK, Ratings, Difficulties, Done
  <1>2. QED
    BY <1>1, InitCount, NextCount, PTL DEF LearnerSpec

-----------------------------------------------------------------------------
(* In step                                                                 *)

\* The tables are those of t, up to who inserted a row.
Exact(ds, rs, t) ==
    /\ ds = t.difficulty
    /\ \A r \in Rows : IF t.ratings[r] = None THEN rs[r] = None
         ELSE rs[r] # None /\ rs[r].games = t.ratings[r].games

LEMMA ExactMeans ==
    /\ ExactInStep <=> (inStep => Exact(difficulty, ratings, Replay(Done, submitted)))
    /\ ExactInStep' <=> (inStep' => Exact(difficulty', ratings', Replay(Done', submitted')))
  BY DEF ExactInStep, Exact, Done

\* While a scoring is under way no rebuild is alone.
LEMMA NoneIsAlone ==
    ASSUME CountInv, StepInv, NEW a \in Attempts, scoring[a].at # "idle"
    PROVE  a \in Writing /\ ~(rebuild # Idle /\ rebuild.alone)
  BY DEF StepInv, AloneRebuild, Writing

LEMMA LoadInStep ==
    ASSUME CountInv, StepInv, NEW a \in Attempts, LoadExercise(a)
    PROVE  StepInv'
  <1>1. DOMAIN scoring = Attempts /\ rebuild \in RebuildJobs
    BY DEF CountInv, LearnerFits
  <1>2. /\ scoring' = [scoring EXCEPT ![a] = [at |-> "loaded", met |-> difficulty[Exercise[a]]]]
        /\ inStep' = (inStep /\ Writing = {} /\ rebuild = Idle)
        /\ UNCHANGED <<ratings, difficulty, reports, scored, submitted>>
    BY DEF LoadExercise
  <1>3. /\ scoring'[a] = [at |-> "loaded", met |-> difficulty[Exercise[a]]]
        /\ \A b \in Attempts \ {a} : scoring'[b] = scoring[b]
    BY <1>1, <1>2
  <1>4. Done' = Done
    BY <1>2 DEF Done
  <1>5. InStepJobs'
    <2>1. SUFFICES ASSUME inStep' PROVE /\ Writing' = {a} /\ scoring'[a].met = difficulty'[Exercise[a]]
                                        /\ scoring'[a].at = "loaded"
      BY DEF InStepJobs
    <2>2. Writing' = {a}
      <3>1. \A b \in Attempts \ {a} : scoring'[b].at = "idle"
        BY <1>2, <1>3, <2>1 DEF Writing
      <3>2. scoring'[a].at = "loaded"
        BY <1>3
      <3>3. QED
        BY <3>1, <3>2 DEF Writing
    <2>3. QED
      BY <1>2, <1>3, <2>2
  <1>6. AloneRebuild'
    <2>1. CASE rebuild = Idle
      <3>1. rebuild' = Idle
        BY <2>1 DEF LoadExercise
      <3>2. QED
        BY <3>1 DEF AloneRebuild
    <2>2. CASE rebuild # Idle
      <3>1. rebuild' = [rebuild EXCEPT !.alone = FALSE]
        BY <2>2 DEF LoadExercise
      <3>2. rebuild'.alone = FALSE
        BY <1>1, <2>2, <3>1 DEF RebuildJobs
      <3>3. QED
        BY <3>2 DEF AloneRebuild
    <2>3. QED
      BY <2>1, <2>2
  <1>7. ExactInStep'
    BY <1>2, <1>4 DEF StepInv, ExactInStep
  <1>8. QED
    BY <1>5, <1>6, <1>7 DEF StepInv

LEMMA ReadInStep ==
    ASSUME CountInv, StepInv, NEW a \in Attempts, ReadRows(a) \/ CountEarlier(a)
    PROVE  StepInv'
  <1>1. /\ DOMAIN scoring = Attempts /\ scoring[a] \in ScoreJobs(a)
        /\ scoring[a].at \in {"loaded", "read"}
    BY DEF CountInv, LearnerFits, ReadRows, CountEarlier
  <1>2. UNCHANGED <<ratings, difficulty, reports, scored, submitted, rebuild, inStep>>
    BY DEF ReadRows, CountEarlier
  <1>3. /\ ReadRows(a) => scoring'[a] = [at |-> "read", met |-> scoring[a].met,
              rows |-> [s \in Skills[Exercise[a]] |-> ratings[<<Student[a], s>>]]]
        /\ CountEarlier(a) => scoring'[a] = [at |-> "counted", met |-> scoring[a].met,
              rows |-> scoring[a].rows, moves |-> Moves(a, scored)]
        /\ \A b \in Attempts \ {a} : scoring'[b] = scoring[b]
    BY <1>1 DEF ReadRows, CountEarlier, Done
  <1>4. /\ scoring'[a].at \in {"read", "counted"} /\ scoring'[a].met = scoring[a].met
        /\ ReadRows(a) => \A s \in Skills[Exercise[a]] : scoring'[a].rows[s] = ratings[<<Student[a], s>>]
        /\ CountEarlier(a) => /\ scoring'[a].rows = scoring[a].rows /\ scoring[a].at = "read"
                              /\ scoring'[a].moves = Moves(a, scored)
        /\ ReadRows(a) => scoring'[a].at = "read"
    BY <1>3 DEF CountEarlier
  <1>5. Done' = Done /\ Writing' = Writing /\ a \in Writing
    BY <1>1, <1>2, <1>3, <1>4 DEF Done, Writing
  <1>6. InStepJobs'
    <2>1. SUFFICES ASSUME inStep'
            PROVE /\ Writing' = {a} /\ scoring'[a].met = difficulty'[Exercise[a]]
                  /\ \A s \in Skills[Exercise[a]] : scoring'[a].rows[s] = ratings'[<<Student[a], s>>]
                  /\ scoring'[a].at = "counted" =>
                       scoring'[a].moves = Moves(a, scored')
      BY DEF InStepJobs
    <2>2. /\ Writing = {a} /\ scoring[a].met = difficulty[Exercise[a]]
          /\ scoring[a].at \in {"read", "counted"} =>
               \A s \in Skills[Exercise[a]] : scoring[a].rows[s] = ratings[<<Student[a], s>>]
      BY <1>2, <1>5, <2>1 DEF StepInv, InStepJobs
    <2>3. CASE ReadRows(a)
      BY <1>2, <1>4, <1>5, <2>2, <2>3
    <2>4. CASE CountEarlier(a)
      BY <1>2, <1>4, <1>5, <2>2, <2>4
    <2>5. QED
      BY <2>3, <2>4
  <1>7. AloneRebuild'
    BY <1>1, <1>2, NoneIsAlone DEF AloneRebuild
  <1>8. ExactInStep'
    BY <1>2 DEF StepInv, ExactInStep
  <1>9. QED
    BY <1>6, <1>7, <1>8 DEF StepInv

LEMMA FailInStep ==
    ASSUME CountInv, StepInv, NEW a \in Attempts, FailScore(a)
    PROVE  StepInv'
  <1>1. /\ DOMAIN scoring = Attempts /\ scoring[a].at = "counted"
        /\ scoring' = [scoring EXCEPT ![a] = Idle]
        /\ UNCHANGED <<ratings, difficulty, reports, scored, submitted, rebuild, inStep>>
    BY DEF CountInv, LearnerFits, FailScore
  <1>2. a \in Writing /\ Writing' = Writing \ {a}
    BY <1>1 DEF Writing, Idle
  <1>3. InStepJobs'
    <2>1. inStep' => Writing' = {}
      BY <1>1, <1>2 DEF StepInv, InStepJobs
    <2>2. QED
      BY <2>1 DEF InStepJobs
  <1>4. AloneRebuild'
    BY <1>1, NoneIsAlone DEF AloneRebuild
  <1>5. ExactInStep'
    BY <1>1 DEF StepInv, ExactInStep
  <1>6. QED
    BY <1>3, <1>4, <1>5 DEF StepInv

\* The newest report is played last.
LEMMA ReplayOfNewest ==
    ASSUME NEW D \in SUBSET Attempts, NEW time \in [Attempts -> Nat], NEW a \in Attempts, a \notin D,
           \A b \in D : time[b] < time[a]
    PROVE  Replay(D \union {a}, time) = Play(Replay(D, time), a)
  <1>1. D \union {a} \in SUBSET Attempts /\ D \union {a} # {}
    OBVIOUS
  <1>2. /\ Newest(D \union {a}, time) \in D \union {a}
        /\ time[a] <= time[Newest(D \union {a}, time)]
    BY <1>1, NewestOf
  <1>3. \A b \in Attempts : time[b] \in Nat
    OBVIOUS
  <1>4. Newest(D \union {a}, time) = a
    BY <1>2, <1>3
  <1>5. (D \union {a}) \ {a} = D
    OBVIOUS
  <1>6. QED
    BY <1>1, <1>4, <1>5, ReplayValues

\* The same game added to the same games: who inserted the row makes no difference.
LEMMA PlayedAlike ==
    ASSUME NEW r \in Rows, NEW old \in Rating \union {None}, NEW new \in Rating \union {None},
           NEW done, NEW a \in Attempts, NEW met \in Seq(Attempts),
           old # None => RatingFits(r, old, done), new # None => RatingFits(r, new, done),
           a \notin done, Student[a] = r[1], r[2] \in Skills[Exercise[a]],
           new = None <=> old = None, new # None => old.games = new.games
    PROVE  /\ Rated(old, a, met, a) # None /\ Rated(new, a, met, 0) # None
           /\ Rated(old, a, met, a).games = Rated(new, a, met, 0).games
  <1>1. a \in Attempts \union Nat /\ 0 \in Attempts \union Nat
    OBVIOUS
  <1>2. /\ Rated(old, a, met, a) \in Rating
        /\ Rated(old, a, met, a).games =
             IF old = None THEN <<Game(a, met)>> ELSE Append(old.games, Game(a, met))
    BY ZenonT(60), <1>1, RatedFits
  <1>3. /\ Rated(new, a, met, 0) \in Rating
        /\ Rated(new, a, met, 0).games =
             IF new = None THEN <<Game(a, met)>> ELSE Append(new.games, Game(a, met))
    BY ZenonT(60), <1>1, RatedFits
  <1>4. QED
    BY <1>2, <1>3, NoneIsNoRating

LEMMA CommitInStep ==
    ASSUME CountInv, StepInv, NEW a \in Attempts, CommitScore(a)
    PROVE  StepInv'
  <1>. DEFINE j == scoring[a]  e == Exercise[a]
  <1>1. /\ DOMAIN scoring = Attempts /\ j \in ScoreJobs(a) /\ j.at = "counted"
        /\ ratings \in Ratings /\ difficulty \in Difficulties /\ reports \in Seq(Attempts)
        /\ a \notin Done /\ e \in Exercises /\ JobFits(a, j, Done, scored)
        /\ scored \subseteq Done /\ submitted \in [Attempts -> Nat]
    BY ExerciseFacts DEF CountInv, LearnerFits, CommitScore, Reported, Done
  <1>2. /\ scoring' = [scoring EXCEPT ![a] = Idle] /\ reports' = Append(reports, a)
        /\ inStep' = (inStep /\ InOrder(a) /\ NonePutBack(a))
        /\ UNCHANGED <<submitted, rebuild>>
        /\ ratings' = [r \in Rows |-> IF r[1] = Student[a] /\ r[2] \in Skills[e]
                                      THEN Rated(j.rows[r[2]], a, j.met, a) ELSE ratings[r]]
        /\ difficulty' = IF j.moves THEN [difficulty EXCEPT ![e] = Append(j.met, a)] ELSE difficulty
    BY DEF CommitScore, NewDifficulty
  <1>3. a \in Writing /\ Writing' = Writing \ {a}
    BY <1>1, <1>2 DEF Writing, Idle
  <1>4. Done' = Done \union {a} /\ Done \in SUBSET Attempts
    BY <1>1, <1>2, DoneGrows, DoneIsAttempts
  <1>5. InStepJobs'
    <2>1. inStep' => Writing' = {}
      BY <1>2, <1>3 DEF StepInv, InStepJobs
    <2>2. QED
      BY <2>1 DEF InStepJobs
  <1>6. AloneRebuild'
    BY <1>1, <1>2, NoneIsAlone DEF AloneRebuild
  <1>7. ExactInStep'
    <2>. SUFFICES ASSUME inStep' PROVE Exact(difficulty', ratings', Replay(Done', submitted'))
      BY ExactMeans
    <2>. PICK t : t = Replay(Done, submitted)
      OBVIOUS
    <2>. PICK u : u = Play(t, a)
      OBVIOUS
    <2>0. Replay(Done', submitted') = u
      <3>1. \A b \in Done : submitted[b] < submitted[a]
        BY <1>2 DEF InOrder, Done
      <3>2. Replay(Done \union {a}, submitted) = Play(Replay(Done, submitted), a)
        BY <1>1, <1>4, <3>1, ReplayOfNewest
      <3>3. QED
        BY <1>2, <1>4, <3>2
    <2>1. inStep /\ Exact(difficulty, ratings, t)
      BY <1>2, ExactMeans DEF StepInv
    <2>2. /\ j.met = difficulty[e]
          /\ \A s \in Skills[e] : j.rows[s] = ratings[<<Student[a], s>>]
          /\ j.moves = Moves(a, Done)
      <3>1. /\ j.met = difficulty[e] /\ j.moves = Moves(a, scored)
            /\ \A s \in Skills[e] : j.rows[s] = ratings[<<Student[a], s>>]
        BY <1>1, <1>3, <2>1 DEF StepInv, InStepJobs
      <3>2. \A b \in Done : SameTask(a, b) => b \in scored
        BY <1>2 DEF NonePutBack, Done
      <3>3. Moves(a, scored) = Moves(a, Done)
        BY <1>1, <3>2 DEF Moves
      <3>4. QED
        BY <3>1, <3>3
    <2>3. t \in Tables /\ t.seen = Done /\ difficulty = t.difficulty /\ Fit(t.ratings, t.difficulty, Done, Done)
      BY <1>1, <1>4, <2>1, ReplayIsFit DEF ReplayFits, Exact
    <2>4. Fit(ratings, difficulty, Done, scored)
      BY DEF CountInv
    <2>5. difficulty' = u.difficulty
      <3>1. u.difficulty = IF Moves(a, Done)
                           THEN [difficulty EXCEPT ![e] = Append(difficulty[e], a)] ELSE difficulty
        BY <2>3 DEF Play
      <3>2. QED
        BY <1>2, <2>2, <3>1
    <2>6. ASSUME NEW r \in Rows
          PROVE  IF u.ratings[r] = None THEN ratings'[r] = None
                 ELSE ratings'[r] # None /\ ratings'[r].games = u.ratings[r].games
      <3>1. /\ ratings[r] \in Rating \union {None} /\ t.ratings[r] \in Rating \union {None}
            /\ t.ratings[r] # None => RatingFits(r, t.ratings[r], Done)
            /\ ratings[r] # None => RatingFits(r, ratings[r], Done)
            /\ IF t.ratings[r] = None THEN ratings[r] = None
               ELSE ratings[r] # None /\ ratings[r].games = t.ratings[r].games
        BY <1>1, <2>1, <2>3, <2>4 DEF Ratings, Tables, Exact, Fit
      <3>2. CASE r[1] = Student[a] /\ r[2] \in Skills[e]
        <4>1. r = <<Student[a], r[2]>>
          BY <3>2, RowFacts
        <4>2. ratings'[r] = Rated(ratings[r], a, difficulty[e], a)
          BY <1>2, <2>2, <3>2, <4>1
        <4>3. u.ratings[r] = Rated(t.ratings[r], a, difficulty[e], 0)
          BY <2>3, <3>2 DEF Play
        <4>4. difficulty[e] \in Seq(Attempts) /\ a \in Attempts \union Nat /\ 0 \in Attempts \union Nat
          BY <1>1 DEF Difficulties
        <4>. PICK old : old = ratings[r]
          OBVIOUS
        <4>. PICK new : new = t.ratings[r]
          OBVIOUS
        <4>. PICK met : met = difficulty[e]
          OBVIOUS
        <4>. PICK D : D = Done
          OBVIOUS
        <4>5. /\ old \in Rating \union {None} /\ new \in Rating \union {None}
              /\ met \in Seq(Attempts) /\ a \notin D
              /\ old # None => RatingFits(r, old, D)
              /\ new # None => RatingFits(r, new, D)
              /\ Student[a] = r[1] /\ r[2] \in Skills[Exercise[a]]
              /\ new = None <=> old = None
              /\ new # None => old.games = new.games
          BY <1>1, <3>1, <3>2, <4>4
        <4>6. /\ Rated(old, a, met, a) # None /\ Rated(new, a, met, 0) # None
              /\ Rated(old, a, met, a).games = Rated(new, a, met, 0).games
          BY <4>5, PlayedAlike, SMTT(60)
        <4>7. ratings'[r] = Rated(old, a, met, a) /\ u.ratings[r] = Rated(new, a, met, 0)
          BY <4>2, <4>3
        <4>8. QED
          BY <4>6, <4>7
      <3>3. CASE ~(r[1] = Student[a] /\ r[2] \in Skills[e])
        <4>1. ratings'[r] = ratings[r]
          BY <1>2, <3>3
        <4>2. u.ratings[r] = t.ratings[r]
          BY <3>3 DEF Play
        <4>3. QED
          BY <3>1, <4>1, <4>2
      <3>4. QED
        BY <3>2, <3>3
    <2>7. QED
      BY <2>0, <2>5, <2>6 DEF Exact
  <1>8. QED
    BY <1>5, <1>6, <1>7 DEF StepInv

LEMMA RebuildInStep ==
    ASSUME CountInv, StepInv, BeginRebuild \/ ReadReports \/ DeleteRows \/ FailRebuild
    PROVE  StepInv'
  <1>1. UNCHANGED <<ratings, difficulty, reports, scored, submitted, scoring, inStep>>
    BY DEF BeginRebuild, ReadReports, DeleteRows, FailRebuild
  <1>2. InStepJobs' /\ ExactInStep' /\ Writing' = Writing /\ Done' = Done
    BY <1>1 DEF StepInv, InStepJobs, ExactInStep, Writing, Done
  <1>3. AloneRebuild'
    <2>1. CASE BeginRebuild
      BY <1>1, <1>2, <2>1 DEF BeginRebuild, AloneRebuild
    <2>2. CASE ReadReports
      <3>1. /\ rebuild' = [at |-> "replayed", loaded |-> rebuild.loaded, alone |-> rebuild.alone,
                           result |-> Replay(Done, submitted)]
            /\ rebuild.at = "begun"
        BY <2>2 DEF ReadReports, Done
      <3>2. rebuild # Idle
        BY <3>1 DEF Idle
      <3>3. QED
        BY <1>1, <1>2, <3>1, <3>2 DEF StepInv, AloneRebuild
    <2>3. CASE DeleteRows
      <3>1. /\ rebuild' = [at |-> "deleted", loaded |-> rebuild.loaded, alone |-> rebuild.alone,
                           result |-> rebuild.result, gone |-> {r \in Rows : ratings[r] # None}]
            /\ rebuild.at = "replayed"
        BY <2>3 DEF DeleteRows
      <3>2. rebuild # Idle
        BY <3>1 DEF Idle
      <3>3. QED
        BY <1>1, <1>2, <3>1, <3>2 DEF StepInv, AloneRebuild
    <2>4. CASE FailRebuild
      BY <2>4 DEF FailRebuild, AloneRebuild
    <2>5. QED
      BY <2>1, <2>2, <2>3, <2>4
  <1>4. QED
    BY <1>2, <1>3 DEF StepInv

LEMMA ReplaceInStep ==
    ASSUME CountInv, StepInv, CommitRebuild
    PROVE  StepInv'
  <1>. PICK new : new = rebuild.result
    OBVIOUS
  <1>1. /\ rebuild.at = "deleted" /\ rebuild # Idle /\ rebuild \in RebuildJobs /\ rebuilds \in Nat
        /\ new \in Tables /\ difficulty \in Difficulties
    BY RebuildFields, LearnerAssumption DEF CommitRebuild, CountInv, LearnerFits
  <1>2. /\ ratings' = [r \in Rows |->
            IF new.ratings[r] # None THEN [new.ratings[r] EXCEPT !.row = rebuilds]
            ELSE IF r \in rebuild.gone THEN None ELSE ratings[r]]
        /\ difficulty' = [e \in Exercises |->
            IF new.difficulty[e] = rebuild.loaded[e] THEN difficulty[e] ELSE new.difficulty[e]]
        /\ inStep' = rebuild.alone /\ rebuild' = Idle
        /\ UNCHANGED <<reports, scored, submitted, scoring>>
    BY DEF CommitRebuild
  <1>3. Writing' = Writing /\ Done' = Done
    BY <1>2 DEF Writing, Done
  <1>4. ASSUME inStep'
        PROVE  /\ Writing' = {} /\ rebuild.loaded = difficulty /\ new = Replay(Done, submitted)
               /\ rebuild.gone = {r \in Rows : ratings[r] # None}
    BY <1>1, <1>2, <1>3, <1>4 DEF StepInv, AloneRebuild
  <1>5. InStepJobs'
    BY <1>4 DEF InStepJobs
  <1>6. AloneRebuild'
    BY <1>2 DEF AloneRebuild
  <1>7. ExactInStep'
    <2>. SUFFICES ASSUME inStep' PROVE Exact(difficulty', ratings', new)
      BY <1>2, <1>3, <1>4, ExactMeans
    <2>1. difficulty' = new.difficulty
      <3>1. new.difficulty \in Difficulties
        BY <1>1 DEF Tables
      <3>2. difficulty' = [e \in Exercises |-> new.difficulty[e]]
        BY <1>2, <1>4
      <3>3. QED
        BY <3>1, <3>2 DEF Difficulties
    <2>2. ASSUME NEW r \in Rows
          PROVE  IF new.ratings[r] = None THEN ratings'[r] = None
                 ELSE ratings'[r] # None /\ ratings'[r].games = new.ratings[r].games
      <3>1. CASE new.ratings[r] = None
        BY <1>2, <1>4, <3>1
      <3>2. CASE new.ratings[r] # None
        <4>. DEFINE v == [new.ratings[r] EXCEPT !.row = rebuilds]
        <4>1. new.ratings[r] \in Rating
          BY <1>1, <3>2 DEF Tables, Ratings
        <4>2. v \in Rating /\ v.games = new.ratings[r].games
          BY <1>1, <4>1, RenamedFits
        <4>3. ratings'[r] = v
          BY <1>2, <3>2
        <4>. HIDE DEF v
        <4>4. QED
          BY <3>2, <4>2, <4>3, NoneIsNoRating
      <3>3. QED
        BY <3>1, <3>2
    <2>3. QED
      BY <2>1, <2>2 DEF Exact
  <1>8. QED
    BY <1>5, <1>6, <1>7 DEF StepInv

\* A late submit takes everything out of step.
LEMMA LateInStep ==
    ASSUME CountInv, StepInv, NEW a \in Attempts, NEW now \in 1..LastInstant, LateSubmit(a, now)
    PROVE  StepInv'
  <1>1. inStep' = FALSE
    BY DEF LateSubmit
  <1>2. AloneRebuild'
    <2>1. CASE rebuild = Idle
      BY <2>1 DEF LateSubmit, AloneRebuild
    <2>2. CASE rebuild # Idle
      <3>1. rebuild' = [rebuild EXCEPT !.alone = FALSE] /\ rebuild \in RebuildJobs
        BY <2>2 DEF LateSubmit, CountInv, LearnerFits
      <3>2. rebuild'.alone = FALSE
        BY <2>2, <3>1 DEF RebuildJobs
      <3>3. QED
        BY <3>2 DEF AloneRebuild
    <2>3. QED
      BY <2>1, <2>2
  <1>3. QED
    BY <1>1, <1>2 DEF StepInv, InStepJobs, ExactInStep

LEMMA NextInStep == CountInv /\ StepInv /\ [LearnerNext]_learnerVars => StepInv'
  <1>. SUFFICES ASSUME CountInv, StepInv, [LearnerNext]_learnerVars PROVE StepInv'
    OBVIOUS
  <1>1. CASE UNCHANGED learnerVars
    BY <1>1 DEF learnerVars, StepInv, InStepJobs, AloneRebuild, ExactInStep, Writing, Done
  <1>2. CASE LearnerNext
    BY <1>2, LoadInStep, ReadInStep, FailInStep, CommitInStep, LateInStep, RebuildInStep, ReplaceInStep
    DEF LearnerNext
  <1>3. QED
    BY <1>1, <1>2

LEMMA InitInStep == LearnerInit => StepInv
  <1>. SUFFICES ASSUME LearnerInit PROVE StepInv
    OBVIOUS
  <1>1. Done = {} /\ Writing = {}
    BY DEF LearnerInit, Done, Range, Writing, Idle
  <1>2. Exact(difficulty, ratings, EmptyTables)
    BY DEF LearnerInit, Exact, EmptyTables
  <1>3. submitted \in [Attempts -> Nat]
    BY InitCount DEF CountInv, LearnerFits
  <1>4. ExactInStep
    BY <1>1, <1>2, <1>3, ReplayValues, ExactMeans
  <1>5. QED
    BY <1>1, <1>4 DEF LearnerInit, StepInv, InStepJobs, AloneRebuild

\* Scored one at a time and in the order of submission, with no status put back, the tables are
\* those the replay computes from the reports, and again after a rebuild that nothing overlapped.
THEOREM InStepIsExact == LearnerSpec => []ExactInStep
  <1>1. StepInv => ExactInStep
    BY DEF StepInv
  <1>2. QED
    BY <1>1, InitCount, NextCount, InitInStep, NextInStep, PTL DEF LearnerSpec
=============================================================================
