------------------------- MODULE ScoredSessionProofs -------------------------
(***************************************************************************)
(* Proofs about ScoredSession, for every session: whatever is logged in    *)
(* whatever order, by clocks that differ by any time.                      *)
(*                                                                         *)
(* The invariant (SessionInv) is that the log is in the order of its       *)
(* stamps and all its events can be read.  What the engines promise of     *)
(* such a log (ScoringProofs) then holds of every report.                  *)
(***************************************************************************)
EXTENDS ScoredSession, ScoringProofs

\* Any sequence, whatever its members.
IsSequence(s) == s \in Seq({s[i] : i \in DOMAIN s})

\* A suite of the exercise has its tests.
OfExercise(e) == e.type = "SUBMIT_TESTS" => e.visibleTotal = VisibleTotal /\ e.hiddenTotal = HiddenTotal

\* Events that may be logged.
Good(events) == IsSequence(events) /\ \A i \in 1..Len(events) : Typed(events[i]) /\ OfExercise(events[i])

\* One event may be logged when it can be read.
LEMMA GoodOne ==
    ASSUME NEW e, Typed(e), OfExercise(e)
    PROVE  Good(<<e>>)
  BY DEF Good, IsSequence

LEMMA SequenceIs ==
    ASSUME NEW S, NEW s \in Seq(S)
    PROVE  IsSequence(s)
  <1>1. Len(s) \in Nat /\ DOMAIN s = 1..Len(s)
    OBVIOUS
  <1>. DEFINE T == {s[i] : i \in DOMAIN s}
  <1>2. \A i \in 1..Len(s) : s[i] \in T
    BY <1>1
  <1>3. s = [i \in 1..Len(s) |-> s[i]]
    OBVIOUS
  <1>. HIDE DEF T
  <1>4. s \in [1..Len(s) -> T]
    BY <1>2, <1>3
  <1>5. s \in Seq(T)
    BY <1>1, <1>4, SeqDef
  <1>6. QED
    BY <1>5 DEF IsSequence, T

LEMMA GoodNone == Good(<<>>)
  <1>1. IsSequence(<<>>)
    BY <<>> \in Seq({}), SequenceIs
  <1>2. QED
    BY <1>1 DEF Good

LEMMA GoodConcat ==
    ASSUME NEW s, Good(s), NEW t, Good(t)
    PROVE  Good(s \o t) /\ Len(s \o t) = Len(s) + Len(t) /\ Len(s) \in Nat /\ Len(t) \in Nat
           /\ \A i \in 1..Len(s) : (s \o t)[i] = s[i]
  <1>. DEFINE S == {s[i] : i \in DOMAIN s}
              T == {t[i] : i \in DOMAIN t}
              U == S \union T
              w == s \o t
  <1>1. s \in Seq(S) /\ t \in Seq(T)
    BY DEF Good, IsSequence
  <1>. HIDE DEF S, T
  <1>2. s \in Seq(U) /\ t \in Seq(U)
    BY <1>1
  <1>3. Len(s) \in Nat /\ Len(t) \in Nat
    BY <1>1
  <1>. HIDE DEF U
  <1>4. /\ w \in Seq(U) /\ Len(w) = Len(s) + Len(t)
        /\ \A i \in 1..(Len(s) + Len(t)) : w[i] = IF i <= Len(s) THEN s[i] ELSE t[i - Len(s)]
    BY <1>2, ConcatProperties
  <1>. HIDE DEF w
  <1>5. IsSequence(w)
    BY <1>4, SequenceIs
  <1>6. ASSUME NEW i \in 1..Len(w) PROVE Typed(w[i]) /\ OfExercise(w[i])
    <2>1. CASE i <= Len(s)
      <3>1. i \in 1..Len(s) /\ w[i] = s[i]
        BY <1>3, <1>4, <2>1
      <3>2. QED
        BY <3>1 DEF Good
    <2>2. CASE i > Len(s)
      <3>1. i - Len(s) \in 1..Len(t) /\ w[i] = t[i - Len(s)]
        BY <1>3, <1>4, <2>2
      <3>2. QED
        BY <3>1 DEF Good
    <2>3. QED
      BY <1>3, <1>4, <2>1, <2>2
  <1>7. \A i \in 1..Len(s) : w[i] = s[i]
    BY <1>3, <1>4
  <1>8. QED
    BY <1>3, <1>4, <1>5, <1>6, <1>7 DEF Good, w

\* A log that may be: good events in the order of their stamps.
GoodLog(events) == Good(events) /\ Sorted(events)

\* One log has all the events of another.
Keeps(these, those) == \A i \in 1..Len(those) : \E j \in 1..Len(these) : these[j] = those[i]

LEMMA LoggedGood ==
    ASSUME NEW events, GoodLog(events), NEW e, Typed(e), OfExercise(e)
    PROVE  /\ GoodLog(Logged(events, e)) /\ Keeps(Logged(events, e), events)
           /\ \E j \in 1..Len(Logged(events, e)) : Logged(events, e)[j] = e
  <1>. DEFINE T == {events[i] : i \in DOMAIN events}
              S == {x \in T \union {e} : Typed(x) /\ OfExercise(x)}
              w == Logged(events, e)
  <1>1. events \in Seq(T) /\ \A i \in 1..Len(events) : Typed(events[i]) /\ OfExercise(events[i])
    BY DEF GoodLog, Good, IsSequence
  <1>. HIDE DEF T
  <1>2. events \in Seq(S) /\ e \in S
    <2>1. \A i \in 1..Len(events) : events[i] \in S
      BY <1>1
    <2>2. e \in S
      OBVIOUS
    <2>. HIDE DEF S
    <2>3. QED
      BY <1>1, <2>1, <2>2
  <1>3. (\A i \in 1..Len(events) : events[i].ts \in Int) /\ e.ts \in Int
    BY <1>1 DEF Typed
  <1>4. Sorted(events)
    BY DEF GoodLog
  <1>5. \A x \in S : Typed(x) /\ OfExercise(x)
    OBVIOUS
  <1>. HIDE DEF S
  <1>6. /\ w \in Seq(S) /\ Sorted(w)
        /\ \A i \in 1..Len(events) : \E j \in 1..Len(w) : w[j] = events[i]
        /\ \E j \in 1..Len(w) : w[j] = e
    <2>1. w \in Seq(S) /\ Sorted(w)
      BY <1>2, <1>3, <1>4, LoggedIs
    <2>2. \A i \in 1..Len(events) : \E j \in 1..Len(w) : w[j] = events[i]
      BY <1>2, <1>3, <1>4, LoggedIs
    <2>3. \E j \in 1..Len(w) : w[j] = e
      BY <1>2, <1>3, <1>4, LoggedIs
    <2>4. QED
      BY <2>1, <2>2, <2>3
  <1>. HIDE DEF w
  <1>7. IsSequence(w) /\ \A i \in 1..Len(w) : Typed(w[i]) /\ OfExercise(w[i])
    <2>1. \A i \in 1..Len(w) : w[i] \in S
      BY <1>6
    <2>2. IsSequence(w)
      BY <1>6, SequenceIs
    <2>3. QED
      BY <1>5, <2>1, <2>2
  <1>8. QED
    BY <1>6, <1>7 DEF GoodLog, Good, Keeps, w

LEMMA WithAllGood ==
    ASSUME GoodLog(log), NEW events, Good(events)
    PROVE  /\ GoodLog(WithAll(events)) /\ Keeps(WithAll(events), log)
           /\ \A i \in 1..Len(events) : \E j \in 1..Len(WithAll(events)) : WithAll(events)[j] = events[i]
  <1>. DEFINE N == Len(events)
              A == {log[i] : i \in DOMAIN log}
              B == {events[i] : i \in DOMAIN events}
              S == {x \in A \union B : Typed(x) /\ OfExercise(x)}
              V == {w \in Seq(S) : Sorted(w)}
              Step == [n \in 1..N |-> [v \in V |-> Logged(v, events[n])]]
              U == CHOOSE f : f = [n \in 0..N |-> IF n = 0 THEN log ELSE Logged(f[n - 1], events[n])]
  <1>1. WithAll(events) = U[N]
    BY DEF WithAll
  <1>2. /\ log \in Seq(A) /\ events \in Seq(B) /\ N \in Nat
        /\ \A i \in 1..Len(log) : Typed(log[i]) /\ OfExercise(log[i])
        /\ \A i \in 1..N : Typed(events[i]) /\ OfExercise(events[i])
    BY DEF GoodLog, Good, IsSequence
  <1>. HIDE DEF A, B
  <1>3. \A i \in 1..N : events[i] \in S
    BY <1>2
  <1>4. log \in V
    <2>1. \A i \in 1..Len(log) : log[i] \in S
      BY <1>2
    <2>. HIDE DEF S
    <2>2. log \in Seq(S)
      BY <1>2, <2>1
    <2>3. QED
      BY <2>2 DEF GoodLog
  <1>5. \A x \in S : Typed(x) /\ OfExercise(x) /\ x.ts \in Int
    BY DEF Typed
  <1>. HIDE DEF S, N, U
  <1>6. ASSUME NEW v \in V, NEW n \in 1..N
        PROVE  /\ Logged(v, events[n]) \in V
               /\ \A i \in 1..Len(v) : \E j \in 1..Len(Logged(v, events[n])) : Logged(v, events[n])[j] = v[i]
               /\ \E j \in 1..Len(Logged(v, events[n])) : Logged(v, events[n])[j] = events[n]
    <2>1. v \in Seq(S) /\ Sorted(v) /\ events[n] \in S
      BY <1>3
    <2>2. (\A i \in 1..Len(v) : v[i].ts \in Int) /\ events[n].ts \in Int
      <3>1. \A i \in 1..Len(v) : v[i] \in S
        BY <2>1
      <3>2. QED
        BY <1>5, <2>1, <3>1
    <2>. HIDE DEF V
    <2>. DEFINE w == Logged(v, events[n])
    <2>3. /\ w \in Seq(S) /\ Sorted(w)
          /\ \A i \in 1..Len(v) : \E j \in 1..Len(w) : w[j] = v[i]
          /\ \E j \in 1..Len(w) : w[j] = events[n]
      BY <2>1, <2>2, LoggedIs
    <2>. HIDE DEF w
    <2>4. w \in V
      BY <2>3 DEF V
    <2>5. QED
      BY <2>3, <2>4 DEF w
  <1>7. \A v \in V, n \in 1..N : Step[n][v] = Logged(v, events[n]) /\ Step[n][v] \in V
    <2>. HIDE DEF V
    <2>1. QED
      BY <1>6
  <1>. HIDE DEF Step, V
  <1>8. PICK f \in [0..N -> V] : f[0] = log /\ \A n \in 1..N : f[n] = Step[n][f[n - 1]]
    <2>1. \A v \in V, n \in 1..N : Step[n][v] \in V
      BY <1>7
    <2>2. Recursive(N, V, log, Step)
      BY <1>2, <1>4, <2>1, Recursion DEF N
    <2>3. QED
      BY <2>2 DEF Recursive
  <1>9. N \in Nat
    BY <1>2 DEF N
  <1>10. ASSUME NEW n \in 0..N PROVE f[n] = IF n = 0 THEN log ELSE Logged(f[n - 1], events[n])
    <2>1. CASE n = 0
      BY <1>8, <2>1
    <2>2. CASE n # 0
      <3>1. n \in 1..N /\ n - 1 \in 0..N
        BY <1>9, <2>2
      <3>2. QED
        BY <1>7, <1>8, <2>2, <3>1
    <2>3. QED
      BY <2>1, <2>2
  <1>11. f = [n \in 0..N |-> IF n = 0 THEN log ELSE Logged(f[n - 1], events[n])]
    BY <1>10
  <1>12. U = [n \in 0..N |-> IF n = 0 THEN log ELSE Logged(U[n - 1], events[n])]
    BY <1>11 DEF U, N
  <1>. DEFINE P == {n \in 0..N : /\ U[n] \in V
                                 /\ \A i \in 1..Len(log) : \E j \in 1..Len(U[n]) : U[n][j] = log[i]
                                 /\ \A i \in 1..n : \E j \in 1..Len(U[n]) : U[n][j] = events[i]}
  <1>13. 0 \in P
    <2>1. U[0] = log /\ 0 \in 0..N
      BY <1>9, <1>12
    <2>2. \A i \in 1..Len(log) : \E j \in 1..Len(log) : log[j] = log[i]
      OBVIOUS
    <2>3. QED
      BY <1>4, <2>1, <2>2
  <1>14. ASSUME NEW n \in 1..N, n - 1 \in P PROVE n \in P
    <2>1. n \in 0..N /\ n # 0 /\ n - 1 \in 0..N
      BY <1>9
    <2>2. /\ U[n - 1] \in V
          /\ \A i \in 1..Len(log) : \E j \in 1..Len(U[n - 1]) : U[n - 1][j] = log[i]
          /\ \A i \in 1..(n - 1) : \E j \in 1..Len(U[n - 1]) : U[n - 1][j] = events[i]
      BY <1>14
    <2>3. U[n] = Logged(U[n - 1], events[n])
      BY <1>12, <2>1
    <2>4. /\ U[n] \in V
          /\ \A i \in 1..Len(U[n - 1]) : \E j \in 1..Len(U[n]) : U[n][j] = U[n - 1][i]
          /\ \E j \in 1..Len(U[n]) : U[n][j] = events[n]
      <3>1. PICK v \in V : v = U[n - 1]
        BY <2>2
      <3>2. U[n] = Logged(v, events[n])
        BY <2>3, <3>1
      <3>3. U[n] \in V
        BY <1>6, <3>2
      <3>. DEFINE w == Logged(v, events[n])
      <3>3a. /\ \A i \in 1..Len(v) : \E j \in 1..Len(w) : w[j] = v[i]
             /\ \E j \in 1..Len(w) : w[j] = events[n]
        BY <1>6
      <3>. HIDE DEF w
      <3>3b. U[n] = w
        BY <3>2 DEF w
      <3>4. \A i \in 1..Len(v) : \E j \in 1..Len(U[n]) : U[n][j] = v[i]
        BY <3>3a, <3>3b
      <3>5. \E j \in 1..Len(U[n]) : U[n][j] = events[n]
        BY <3>3a, <3>3b
      <3>6. QED
        BY <3>1, <3>3, <3>4, <3>5
    <2>5. \A i \in 1..Len(log) : \E j \in 1..Len(U[n]) : U[n][j] = log[i]
      <3>1. TAKE i \in 1..Len(log)
      <3>2. PICK k \in 1..Len(U[n - 1]) : U[n - 1][k] = log[i]
        BY <2>2
      <3>3. PICK j \in 1..Len(U[n]) : U[n][j] = U[n - 1][k]
        BY <2>4
      <3>4. QED
        BY <3>2, <3>3
    <2>6. ASSUME NEW i \in 1..n PROVE \E j \in 1..Len(U[n]) : U[n][j] = events[i]
      <3>1. CASE i = n
        BY <2>4, <3>1
      <3>2. CASE i # n
        <4>1. i \in 1..(n - 1)
          BY <1>9, <3>2
        <4>2. PICK k \in 1..Len(U[n - 1]) : U[n - 1][k] = events[i]
          BY <2>2, <4>1
        <4>3. PICK j \in 1..Len(U[n]) : U[n][j] = U[n - 1][k]
          BY <2>4
        <4>4. QED
          BY <4>2, <4>3
      <3>3. QED
        BY <3>1, <3>2
    <2>7. QED
      BY <2>1, <2>4, <2>5, <2>6
  <1>15. \A n \in 0..N : n \in P
    <2>. HIDE DEF P
    <2>1. QED
      BY <1>9, <1>13, <1>14, Induction
  <1>16. N \in P
    BY <1>9, <1>15
  <1>. DEFINE w == WithAll(events)
  <1>17. /\ w \in V
         /\ \A i \in 1..Len(log) : \E j \in 1..Len(w) : w[j] = log[i]
         /\ \A i \in 1..N : \E j \in 1..Len(w) : w[j] = events[i]
    BY <1>1, <1>16
  <1>. HIDE DEF w, P
  <1>18. w \in Seq(S) /\ Sorted(w)
    BY <1>17 DEF V
  <1>19. \A i \in 1..Len(w) : Typed(w[i]) /\ OfExercise(w[i])
    <2>1. \A i \in 1..Len(w) : w[i] \in S
      BY <1>18
    <2>2. QED
      BY <1>5, <2>1
  <1>20. IsSequence(w)
    BY <1>18, SequenceIs
  <1>21. QED
    BY <1>17, <1>18, <1>19, <1>20 DEF GoodLog, Good, Keeps, w, N

-----------------------------------------------------------------------------
(* The events that the session logs                                        *)

\* A record with the fields of two, those of the first before those of the second.
IsMerged(e, more, r) ==
    /\ DOMAIN e = DOMAIN r \union DOMAIN more
    /\ \A f \in DOMAIN more : e[f] = more[f]
    /\ \A f \in DOMAIN r \ DOMAIN more : e[f] = r[f]

LEMMA MergedIs ==
    ASSUME NEW more, NEW r
    PROVE  IsMerged(Merged(more, r), more, r)
  BY DEF Merged, IsMerged

\* An event of a type and a stamp, with what it carries.
IsEvent(e, type, ts, payload) ==
    /\ e["type"] = type /\ e["ts"] = ts
    /\ DOMAIN e = {"type", "ts", "flagged"} \union DOMAIN payload
    /\ \A f \in DOMAIN payload : e[f] = payload[f]

LEMMA EventIs ==
    ASSUME NEW type, NEW ts, NEW payload, "type" \notin DOMAIN payload, "ts" \notin DOMAIN payload
    PROVE  IsEvent(Event(type, ts, payload), type, ts, payload)
  <1>. DEFINE r == [type |-> type, ts |-> ts, flagged |-> FALSE]
              e == Merged(payload, r)
  <1>1. Event(type, ts, payload) = e
    BY DEF Event
  <1>2. DOMAIN r = {"type", "ts", "flagged"} /\ r["type"] = type /\ r["ts"] = ts
    OBVIOUS
  <1>. HIDE DEF r
  <1>3. IsMerged(e, payload, r)
    BY MergedIs
  <1>. HIDE DEF e
  <1>4. QED
    BY <1>1, <1>2, <1>3 DEF IsMerged, IsEvent

\* An event without numbers.
LEMMA PlainEvent ==
    ASSUME NEW type, type \notin {"RUN", "SUBMIT_TESTS", "HYPOTHESIS", "JUDGE", "LOCATE", "STUDENT_TESTS"},
           NEW ts \in Int, NEW payload, "type" \notin DOMAIN payload, "ts" \notin DOMAIN payload
    PROVE  Typed(Event(type, ts, payload)) /\ OfExercise(Event(type, ts, payload))
  <1>. DEFINE e == Event(type, ts, payload)
  <1>1. IsEvent(e, type, ts, payload)
    BY EventIs
  <1>. HIDE DEF e
  <1>2. Typed(e) /\ OfExercise(e)
    BY <1>1 DEF IsEvent, Typed, OfExercise
  <1>3. QED
    BY <1>2 DEF e

LEMMA HypothesisEvent ==
    ASSUME NEW ts \in Int, NEW h \in Hypotheses
    PROVE  Typed(Event("HYPOTHESIS", ts, h)) /\ OfExercise(Event("HYPOTHESIS", ts, h))
  <1>. DEFINE e == Event("HYPOTHESIS", ts, h)
  <1>1. h \in [correct : BOOLEAN, level : RatedAs]
    BY SessionAssumption DEF SessionAssumption
  <1>2. DOMAIN h = {"correct", "level"} /\ h["level"] \in RatedAs
    BY <1>1
  <1>. HIDE DEF e
  <1>3. /\ e.type = "HYPOTHESIS" /\ e.ts = ts /\ {"type", "ts", "flagged"} \subseteq DOMAIN e
        /\ e["level"] = h["level"]
    <2>1. IsEvent(e, "HYPOTHESIS", ts, h)
      BY <1>2, EventIs DEF e
    <2>2. QED
      BY <1>2, <2>1 DEF IsEvent
  <1>4. Typed(e) /\ OfExercise(e)
    BY <1>2, <1>3 DEF Typed, OfExercise, Rates, RatedAs
  <1>5. QED
    BY <1>4 DEF e

LEMMA RunEvent ==
    ASSUME NEW ts \in Int, NEW payload, DOMAIN payload = {"passed", "ratio", "starter"}, payload["ratio"] \in Nat
    PROVE  Typed(Event("RUN", ts, payload)) /\ OfExercise(Event("RUN", ts, payload))
  <1>. DEFINE e == Event("RUN", ts, payload)
  <1>1. IsEvent(e, "RUN", ts, payload)
    BY EventIs
  <1>. HIDE DEF e
  <1>2. Typed(e) /\ OfExercise(e)
    BY <1>1 DEF IsEvent, Typed, OfExercise
  <1>3. QED
    BY <1>2 DEF e

LEMMA LocateEvent ==
    ASSUME NEW ts \in Int, NEW payload, DOMAIN payload = {"lines", "skipped", "hints"}, payload["hints"] \in Nat
    PROVE  Typed(Event("LOCATE", ts, payload)) /\ OfExercise(Event("LOCATE", ts, payload))
  <1>. DEFINE e == Event("LOCATE", ts, payload)
  <1>1. IsEvent(e, "LOCATE", ts, payload)
    BY EventIs
  <1>. HIDE DEF e
  <1>2. Typed(e) /\ OfExercise(e)
    BY <1>1 DEF IsEvent, Typed, OfExercise
  <1>3. QED
    BY <1>2 DEF e

LEMMA TestsEvent ==
    ASSUME NEW ts \in Int, NEW tests \in Suites
    PROVE  Typed(Event("STUDENT_TESTS", ts, tests)) /\ OfExercise(Event("STUDENT_TESTS", ts, tests))
  <1>. DEFINE e == Event("STUDENT_TESTS", ts, tests)
  <1>1. tests \in [written : Nat, valid : Nat, covered : Nat, wanted : Nat, killed : Nat, total : Nat]
    BY SessionAssumption DEF SessionAssumption
  <1>2. /\ DOMAIN tests = {"written", "valid", "covered", "wanted", "killed", "total"}
        /\ tests["written"] \in Nat /\ tests["valid"] \in Nat /\ tests["covered"] \in Nat
        /\ tests["wanted"] \in Nat /\ tests["killed"] \in Nat /\ tests["total"] \in Nat
    BY <1>1
  <1>3a. IsEvent(e, "STUDENT_TESTS", ts, tests)
    BY <1>2, EventIs
  <1>. HIDE DEF e
  <1>3. /\ e.type = "STUDENT_TESTS" /\ e.ts = ts /\ {"type", "ts", "flagged"} \subseteq DOMAIN e
        /\ \A f \in DOMAIN tests : e[f] = tests[f]
    BY <1>3a DEF IsEvent
  <1>4. /\ e["written"] \in Nat /\ e["valid"] \in Nat /\ e["covered"] \in Nat
        /\ e["wanted"] \in Nat /\ e["killed"] \in Nat /\ e["total"] \in Nat
    BY <1>2, <1>3
  <1>5. Typed(e) /\ OfExercise(e)
    BY <1>3, <1>4 DEF Typed, OfExercise
  <1>6. QED
    BY <1>5 DEF e

LEMMA SuiteEvent ==
    ASSUME NEW ts \in Int, NEW lines \in SUBSET AllLines
    PROVE  LET e == Event("SUBMIT_TESTS", ts, Merged(SuiteResult(lines),
                                [visibleTotal |-> VisibleTotal, hiddenTotal |-> HiddenTotal]))
           IN  Typed(e) /\ OfExercise(e) /\ e.type = "SUBMIT_TESTS"
  <1>. DEFINE got == SuiteResult(lines)
              of == [visibleTotal |-> VisibleTotal, hiddenTotal |-> HiddenTotal]
              suite == Merged(got, of)
              e == Event("SUBMIT_TESTS", ts, suite)
  <1>1. VisibleTotal \in Nat \ {0} /\ HiddenTotal \in Nat /\ got \in [visible : 0..VisibleTotal, hidden : 0..HiddenTotal]
    BY SessionAssumption DEF SessionAssumption
  <1>. HIDE DEF got
  <1>2. DOMAIN got = {"visible", "hidden"} /\ got["visible"] \in 0..VisibleTotal /\ got["hidden"] \in 0..HiddenTotal
    BY <1>1
  <1>3. DOMAIN of = {"visibleTotal", "hiddenTotal"} /\ of["visibleTotal"] = VisibleTotal /\ of["hiddenTotal"] = HiddenTotal
    OBVIOUS
  <1>. HIDE DEF of
  <1>4. IsMerged(suite, got, of)
    BY MergedIs
  <1>. HIDE DEF suite
  <1>5. /\ DOMAIN suite = {"visible", "hidden", "visibleTotal", "hiddenTotal"}
        /\ suite["visible"] \in 0..VisibleTotal /\ suite["hidden"] \in 0..HiddenTotal
        /\ suite["visibleTotal"] = VisibleTotal /\ suite["hiddenTotal"] = HiddenTotal
    BY <1>2, <1>3, <1>4 DEF IsMerged
  <1>6. /\ e.type = "SUBMIT_TESTS" /\ e.ts = ts
        /\ DOMAIN e = {"type", "ts", "flagged"} \union DOMAIN suite
        /\ \A f \in DOMAIN suite : e[f] = suite[f]
    <2>1. IsEvent(e, "SUBMIT_TESTS", ts, suite)
      BY <1>5, EventIs
    <2>. HIDE DEF e
    <2>2. QED
      BY <2>1 DEF IsEvent
  <1>. HIDE DEF e
  <1>7. /\ e["visible"] \in 0..VisibleTotal /\ e["hidden"] \in 0..HiddenTotal
        /\ e["visibleTotal"] = VisibleTotal /\ e["hiddenTotal"] = HiddenTotal
    BY <1>5, <1>6
  <1>8. {"type", "ts", "flagged", "visible", "visibleTotal", "hidden", "hiddenTotal"} \subseteq DOMAIN e
    BY <1>5, <1>6
  <1>9. Typed(e) /\ OfExercise(e) /\ e.type = "SUBMIT_TESTS"
    BY <1>1, <1>6, <1>7, <1>8 DEF Typed, OfExercise
  <1>10. QED
    BY <1>9 DEF e, suite, got, of

LEMMA JudgeEvent ==
    ASSUME NEW ts \in Int, NEW verdict, "type" \notin DOMAIN verdict, "ts" \notin DOMAIN verdict,
           {"kind", "levels"} \subseteq DOMAIN verdict, verdict["levels"] \in Seq(RatedAs),
           verdict["kind"] = "hypothesis" => verdict["levels"] # <<>>
    PROVE  Typed(Event("JUDGE", ts, verdict)) /\ OfExercise(Event("JUDGE", ts, verdict))
  <1>. DEFINE e == Event("JUDGE", ts, verdict)
  <1>1. /\ e.type = "JUDGE" /\ e.ts = ts
        /\ DOMAIN e = {"type", "ts", "flagged"} \union DOMAIN verdict
        /\ \A f \in DOMAIN verdict : e[f] = verdict[f]
    <2>1. IsEvent(e, "JUDGE", ts, verdict)
      BY EventIs
    <2>. HIDE DEF e
    <2>2. QED
      BY <2>1 DEF IsEvent
  <1>. HIDE DEF e
  <1>2. e["kind"] = verdict["kind"] /\ e["levels"] = verdict["levels"]
    BY <1>1
  <1>3. e.levels \in Seq(Rates)
    BY <1>2 DEF Rates, RatedAs
  <1>4. Typed(e) /\ OfExercise(e)
    BY <1>1, <1>2, <1>3 DEF Typed, OfExercise
  <1>5. QED
    BY <1>4 DEF e

LEMMA JudgeIs ==
    ASSUME NEW ts \in Int, NEW kind, NEW levels \in Seq(RatedAs), kind # "hypothesis" \/ levels # <<>>
    PROVE  Typed(Event("JUDGE", ts, Judge(kind, levels))) /\ OfExercise(Event("JUDGE", ts, Judge(kind, levels)))
  <1>. DEFINE verdict == Judge(kind, levels)
  <1>1. /\ DOMAIN verdict = {"kind", "levels", "asks", "questions"}
        /\ verdict["kind"] = kind /\ verdict["levels"] = levels
    BY DEF Judge
  <1>. HIDE DEF verdict
  <1>2. QED
    BY <1>1, JudgeEvent DEF verdict

LEMMA LaterJudgeIs ==
    ASSUME NEW ts \in Int, NEW for, NEW level \in RatedAs
    PROVE  LET e == Event("JUDGE", ts, Merged([for_ts |-> for], Judge("hypothesis", <<level>>)))
           IN  Typed(e) /\ OfExercise(e)
  <1>. DEFINE base == Judge("hypothesis", <<level>>)
              more == [for_ts |-> for]
              verdict == Merged(more, base)
  <1>1. /\ DOMAIN base = {"kind", "levels", "asks", "questions"}
        /\ base["kind"] = "hypothesis" /\ base["levels"] = <<level>>
    BY DEF Judge
  <1>2. DOMAIN more = {"for_ts"}
    OBVIOUS
  <1>. HIDE DEF base, more
  <1>3. IsMerged(verdict, more, base)
    BY MergedIs
  <1>. HIDE DEF verdict
  <1>4. /\ "type" \notin DOMAIN verdict /\ "ts" \notin DOMAIN verdict /\ {"kind", "levels"} \subseteq DOMAIN verdict
        /\ verdict["kind"] = "hypothesis" /\ verdict["levels"] = <<level>>
    BY <1>1, <1>2, <1>3 DEF IsMerged
  <1>5. <<level>> \in Seq(RatedAs) /\ <<level>> # <<>>
    OBVIOUS
  <1>6. Typed(Event("JUDGE", ts, verdict)) /\ OfExercise(Event("JUDGE", ts, verdict))
    BY <1>4, <1>5, JudgeEvent
  <1>7. QED
    BY <1>6 DEF verdict, base, more

LEMMA PromptJudgeIs ==
    ASSUME NEW ts \in Int, NEW R, NEW seq \in Seq(R), NEW rated \in [DOMAIN seq -> PromptVerdicts]
    PROVE  Typed(Event("JUDGE", ts, PromptVerdict(rated))) /\ OfExercise(Event("JUDGE", ts, PromptVerdict(rated)))
  <1>. DEFINE verdict == PromptVerdict(rated)
  <1>1. DOMAIN rated = 1..Len(seq) /\ Len(seq) \in Nat /\ \A i \in 1..Len(seq) : rated[i] \in PromptVerdicts
    OBVIOUS
  <1>2. \A v \in PromptVerdicts : v.level \in RatedAs
    BY SessionAssumption DEF SessionAssumption
  <1>. DEFINE levels == [i \in DOMAIN rated |-> rated[i].level]
  <1>3. levels \in Seq(RatedAs)
    BY <1>1, <1>2
  <1>4. /\ DOMAIN verdict = {"kind", "levels", "asks", "questions"}
        /\ verdict["kind"] = "prompts" /\ verdict["levels"] = levels
    BY DEF PromptVerdict
  <1>. HIDE DEF verdict, levels
  <1>5. QED
    BY <1>3, <1>4, JudgeEvent DEF verdict

-----------------------------------------------------------------------------
(* The invariant of a session                                              *)

\* Sequences of good events put together.
LEMMA GoodAppend ==
    ASSUME NEW s, Good(s), NEW e, Typed(e), OfExercise(e)
    PROVE  Good(Append(s, e))
  <1>. DEFINE S == {s[i] : i \in DOMAIN s} \union {e}
  <1>1. s \in Seq(S)
    <2>. DEFINE T == {s[i] : i \in DOMAIN s}
    <2>1. s \in Seq(T)
      BY DEF Good, IsSequence
    <2>. HIDE DEF T
    <2>2. s \in Seq(T \union {e})
      BY <2>1
    <2>3. QED
      BY <2>2 DEF T
  <1>2. e \in S
    OBVIOUS
  <1>. HIDE DEF S
  <1>. DEFINE w == Append(s, e)
  <1>3. w \in Seq(S) /\ Len(w) = Len(s) + 1 /\ Len(s) \in Nat
        /\ \A i \in 1..(Len(s) + 1) : w[i] = IF i <= Len(s) THEN s[i] ELSE e
    BY <1>1, <1>2
  <1>. HIDE DEF w
  <1>4. ASSUME NEW i \in 1..Len(w) PROVE Typed(w[i]) /\ OfExercise(w[i])
    <2>1. CASE i <= Len(s)
      <3>1. i \in 1..Len(s) /\ w[i] = s[i]
        BY <1>3, <2>1
      <3>2. QED
        BY <3>1 DEF Good
    <2>2. CASE i > Len(s)
      BY <1>3, <2>2
    <2>3. QED
      BY <1>3, <2>1, <2>2
  <1>5. IsSequence(w)
    BY <1>3, SequenceIs
  <1>6. QED
    BY <1>4, <1>5 DEF Good, w

LEMMA GoodTwo ==
    ASSUME NEW d, Typed(d), OfExercise(d), NEW e, Typed(e), OfExercise(e)
    PROVE  Good(<<d, e>>)
  <1>. DEFINE S == {d, e}
              w == <<d, e>>
  <1>1. d \in S /\ e \in S
    OBVIOUS
  <1>. HIDE DEF S
  <1>2. w \in Seq(S) /\ Len(w) = 2 /\ w[1] = d /\ w[2] = e
    BY <1>1
  <1>. HIDE DEF w
  <1>3. \A i \in 1..Len(w) : i = 1 \/ i = 2
    BY <1>2
  <1>4. IsSequence(w)
    BY <1>2, SequenceIs
  <1>5. QED
    BY <1>2, <1>3, <1>4 DEF Good, w

LEMMA GoodWhen ==
    ASSUME NEW condition, NEW e, condition => Typed(e) /\ OfExercise(e)
    PROVE  Good(When(condition, <<e>>))
  <1>1. CASE condition
    BY <1>1, GoodOne DEF When
  <1>2. CASE ~condition
    BY <1>2, GoodNone DEF When
  <1>3. QED
    BY <1>1, <1>2

\* A mapped sequence of good events.
LEMMA GoodMapped ==
    ASSUME NEW n \in Nat, NEW w, w = [i \in 1..n |-> w[i]], \A i \in 1..n : Typed(w[i]) /\ OfExercise(w[i])
    PROVE  Good(w)
  <1>. DEFINE S == {w[i] : i \in 1..n}
  <1>1. w \in Seq(S) /\ Len(w) = n
    <2>1. \A i \in 1..n : w[i] \in S
      OBVIOUS
    <2>. HIDE DEF S
    <2>2. w \in [1..n -> S]
      BY <2>1
    <2>3. w \in Seq(S)
      BY <2>2, SeqDef
    <2>4. QED
      BY <2>2, <2>3
  <1>. HIDE DEF S
  <1>2. IsSequence(w)
    BY <1>1, SequenceIs
  <1>3. QED
    BY <1>1, <1>2 DEF Good

HasSuite(events) == \E i \in 1..Len(events) : events[i].type = "SUBMIT_TESTS"

\* The log is in the order of its stamps, and its events and those the browser has not
\* posted are readable; an attempt that was submitted has its suite's result.
SessionInv ==
    /\ clock \in Int /\ skew \in Int /\ explained \in Nat
    /\ GoodLog(log) /\ Good(pending) /\ IsSequence(replies)
    /\ \A i \in 1..Len(replies) : replies[i].lines \subseteq AllLines
    /\ code \subseteq AllLines
    /\ asking.at # NA => asking.prompt \in Prompts
    /\ status # "in_progress" => HasSuite(log)

LEMMA KeepsSuite ==
    ASSUME NEW these, NEW those, Keeps(these, those), HasSuite(those)
    PROVE  HasSuite(these)
  BY DEF Keeps, HasSuite

LEMMA InitInv == Init => SessionInv
  <1>. SUFFICES ASSUME Init PROVE SessionInv
    OBVIOUS
  <1>. DEFINE e == Event("OPEN", 10, [unread |-> FALSE])
  <1>1. PICK s \in Sessions : skew = s.skew
    BY DEF Init
  <1>2. skew \in Int
    BY <1>1, SessionAssumption DEF SessionAssumption
  <1>3. Typed(e) /\ OfExercise(e)
    BY PlainEvent
  <1>. HIDE DEF e
  <1>4. log = <<e>> /\ pending = <<>> /\ replies = <<>> /\ code = {} /\ asking = Idle
        /\ status = "in_progress" /\ explained = 0 /\ clock = 10
    BY DEF Init, e
  <1>5. Good(log)
    BY <1>3, <1>4, GoodOne
  <1>6. Sorted(log)
    <2>1. Len(log) = 1 /\ log[1].ts \in Int
      BY <1>3, <1>4 DEF Typed
    <2>2. QED
      BY <2>1 DEF Sorted
  <1>7. Good(pending)
    BY <1>4, GoodNone
  <1>8. IsSequence(replies) /\ Len(replies) = 0
    BY <1>4, <1>7 DEF Good
  <1>9. QED
    BY <1>2, <1>4, <1>5, <1>6, <1>7, <1>8 DEF SessionInv, GoodLog, Idle

LEMMA ClockInt ==
    ASSUME SessionInv, NEW kind, NEW n \in Int, Passing(kind, n)
    PROVE  clock' \in Int
  BY DEF SessionInv, Passing

LEMMA BrowserInt ==
    ASSUME SessionInv
    PROVE  clock + skew \in Int
  BY DEF SessionInv

LEMMA OpenInv == SessionInv /\ Open => SessionInv'
  <1>. SUFFICES ASSUME SessionInv, Open PROVE SessionInv'
    OBVIOUS
  <1>. DEFINE e == Browser("OPEN", [unread |-> TRUE])
  <1>1. clock' \in Int
    BY ClockInt DEF Open
  <1>2. Typed(e) /\ OfExercise(e)
    BY BrowserInt, PlainEvent DEF Browser
  <1>. HIDE DEF e
  <1>3. pending' = Append(pending, e)
    BY DEF Open, e
  <1>4. Good(pending')
    BY <1>2, <1>3, GoodAppend DEF SessionInv
  <1>5. QED
    BY <1>1, <1>4 DEF SessionInv, Open

LEMMA EditInv == SessionInv /\ Edit => SessionInv'
  <1>. SUFFICES ASSUME SessionInv, Edit PROVE SessionInv'
    OBVIOUS
  <1>1. clock' \in Int
    BY ClockInt DEF Edit
  <1>2. PICK new \in {code \union {l} : l \in Lines} \union {code \ {l} : l \in code}
                     \union {code \union replies[i].lines : i \in DOMAIN replies} :
          /\ code' = new
          /\ \E burst \in {FALSE, Cardinality(new \ code) > 1} :
                pending' = Append(pending, Browser("CODE_EDIT", [flagged |-> burst]))
    BY DEF Edit
  <1>3. PICK burst : pending' = Append(pending, Browser("CODE_EDIT", [flagged |-> burst]))
    BY <1>2
  <1>. DEFINE e == Browser("CODE_EDIT", [flagged |-> burst])
  <1>4. Typed(e) /\ OfExercise(e)
    BY BrowserInt, PlainEvent DEF Browser
  <1>. HIDE DEF e
  <1>5. Good(pending')
    BY <1>3, <1>4, GoodAppend DEF SessionInv, e
  <1>6. code' \subseteq AllLines
    <2>1. DOMAIN replies = 1..Len(replies)
      BY DEF SessionInv, IsSequence
    <2>2. QED
      BY <1>2, <2>1 DEF SessionInv, AllLines
  <1>7. QED
    BY <1>1, <1>5, <1>6 DEF SessionInv, Edit

LEMMA SignalInv == SessionInv /\ Signal => SessionInv'
  <1>. SUFFICES ASSUME SessionInv, Signal PROVE SessionInv'
    OBVIOUS
  <1>1. clock' \in Int
    BY ClockInt DEF Signal
  <1>2. PICK types \in Signals : pending' = pending \o [i \in DOMAIN types |-> Browser(types[i], Plain)]
    BY DEF Signal
  <1>3. types \in Seq(SignalTypes)
    BY SessionAssumption DEF SessionAssumption
  <1>4. DOMAIN types = 1..Len(types) /\ Len(types) \in Nat /\ \A i \in 1..Len(types) : types[i] \in SignalTypes
    BY <1>3
  <1>5. \A i \in 1..Len(types) : Typed(Browser(types[i], Plain)) /\ OfExercise(Browser(types[i], Plain))
    BY <1>4, BrowserInt, PlainEvent DEF Browser, Plain, SignalTypes
  <1>. DEFINE w == [i \in 1..Len(types) |-> Browser(types[i], Plain)]
  <1>6. Good(w)
    <2>1. w = [i \in 1..Len(types) |-> w[i]] /\ \A i \in 1..Len(types) : Typed(w[i]) /\ OfExercise(w[i])
      BY <1>5
    <2>. HIDE DEF w
    <2>2. QED
      BY <1>4, <2>1, GoodMapped
  <1>7. Good(pending')
    <2>1. pending' = pending \o w /\ Good(pending)
      BY <1>2, <1>4 DEF SessionInv
    <2>. HIDE DEF w
    <2>2. QED
      BY <1>6, <2>1, GoodConcat
  <1>8. QED
    BY <1>1, <1>7 DEF SessionInv, Signal

LEMMA PauseInv == SessionInv /\ Pause => SessionInv'
  BY ClockInt DEF SessionInv, Pause

LEMMA AskInv == SessionInv /\ Ask => SessionInv'
  <1>. SUFFICES ASSUME SessionInv, Ask PROVE SessionInv'
    OBVIOUS
  <1>1. clock' \in Int
    BY ClockInt DEF Ask
  <1>2. PICK p \in Prompts : asking' = [prompt |-> p, at |-> clock]
    BY DEF Ask
  <1>3. asking'.prompt \in Prompts
    BY <1>2
  <1>4. QED
    BY <1>1, <1>3 DEF SessionInv, Ask

\* An action that logs one good event, or several.
LEMMA LogsOne ==
    ASSUME SessionInv, NEW e, Typed(e), OfExercise(e), log' = Logged(log, e), status' = status
    PROVE  GoodLog(log') /\ (status' # "in_progress" => HasSuite(log'))
  <1>1. GoodLog(log') /\ Keeps(log', log)
    BY LoggedGood DEF SessionInv
  <1>2. QED
    BY <1>1, KeepsSuite DEF SessionInv

LEMMA LogsAll ==
    ASSUME SessionInv, NEW events, Good(events), log' = WithAll(events), status' = status \/ status # "in_progress"
    PROVE  GoodLog(log') /\ (status' # "in_progress" => HasSuite(log'))
  <1>1. GoodLog(log)
    BY DEF SessionInv
  <1>2. GoodLog(log') /\ Keeps(log', log)
    BY <1>1, WithAllGood
  <1>3. QED
    BY <1>2, KeepsSuite DEF SessionInv

LEMMA AnswerInv == SessionInv /\ Answer => SessionInv'
  <1>. SUFFICES ASSUME SessionInv, Answer PROVE SessionInv'
    OBVIOUS
  <1>1. clock \in Int /\ clock' \in Int /\ asking.prompt \in Prompts
    BY DEF Answer, SessionInv
  <1>2. PICK r \in Replies :
          /\ replies' = Append(replies, [lines |-> r.lines, at |-> asking.at])
          /\ log' = WithAll(<<Event("PROMPT", clock, asking.prompt),
                              Event("AI_REPLY", clock, [loc |-> r.loc, injected |-> r.injected])>>)
    BY DEF Answer
  <1>. DEFINE p == Event("PROMPT", clock, asking.prompt)
              a == Event("AI_REPLY", clock, [loc |-> r.loc, injected |-> r.injected])
              answered == [lines |-> r.lines, at |-> asking.at]
  <1>3. Typed(p) /\ OfExercise(p)
    <2>1. asking.prompt \in [short : BOOLEAN, shallow : BOOLEAN, specific : BOOLEAN, constrained : BOOLEAN, text : STRING]
      BY <1>1, SessionAssumption DEF SessionAssumption
    <2>2. DOMAIN (asking.prompt) = {"short", "shallow", "specific", "constrained", "text"}
      BY <2>1
    <2>3. QED
      BY <1>1, <2>2, PlainEvent
  <1>4. Typed(a) /\ OfExercise(a)
    BY <1>1, PlainEvent
  <1>. HIDE DEF p, a
  <1>5. Good(<<p, a>>)
    BY <1>3, <1>4, GoodTwo
  <1>6. log' = WithAll(<<p, a>>)
    BY <1>2 DEF p, a
  <1>7. GoodLog(log') /\ (status' # "in_progress" => HasSuite(log'))
    BY <1>5, <1>6, LogsAll DEF Answer
  <1>8. answered.lines \subseteq AllLines
    BY DEF AllLines
  <1>. HIDE DEF answered
  <1>9. IsSequence(replies') /\ \A i \in 1..Len(replies') : replies'[i].lines \subseteq AllLines
    <2>. DEFINE T == {replies[i] : i \in DOMAIN replies}
                U == T \union {answered}
                w == Append(replies, answered)
    <2>1. replies \in Seq(T) /\ \A i \in 1..Len(replies) : replies[i].lines \subseteq AllLines
      BY DEF SessionInv, IsSequence
    <2>. HIDE DEF T
    <2>2. w \in Seq(U) /\ Len(w) = Len(replies) + 1 /\ Len(replies) \in Nat
          /\ \A i \in 1..(Len(replies) + 1) : w[i] = IF i <= Len(replies) THEN replies[i] ELSE answered
      BY <2>1
    <2>3. replies' = w
      BY <1>2 DEF answered
    <2>. HIDE DEF w, U
    <2>4. IsSequence(w)
      BY <2>2, SequenceIs
    <2>5. \A i \in 1..Len(w) : w[i].lines \subseteq AllLines
      <3>1. TAKE i \in 1..Len(w)
      <3>2. CASE i <= Len(replies)
        BY <2>1, <2>2, <3>2
      <3>3. CASE i > Len(replies)
        BY <1>8, <2>2, <3>3
      <3>4. QED
        BY <2>2, <3>2, <3>3
    <2>6. QED
      BY <2>3, <2>4, <2>5
  <1>10. asking'.at = NA
    BY DEF Answer, Idle
  <1>11. QED
    BY <1>1, <1>7, <1>9, <1>10 DEF SessionInv, Answer

LEMMA HypothesizeInv == SessionInv /\ Hypothesize => SessionInv'
  <1>. SUFFICES ASSUME SessionInv, Hypothesize PROVE SessionInv'
    OBVIOUS
  <1>1. clock \in Int /\ clock' \in Int
    BY ClockInt DEF Hypothesize, SessionInv
  <1>2. PICK h \in Hypotheses : log' = Logged(log, Event("HYPOTHESIS", clock, h))
    BY DEF Hypothesize
  <1>. DEFINE e == Event("HYPOTHESIS", clock, h)
  <1>3. Typed(e) /\ OfExercise(e)
    BY <1>1, HypothesisEvent
  <1>. HIDE DEF e
  <1>4. GoodLog(log') /\ (status' # "in_progress" => HasSuite(log'))
    BY <1>2, <1>3, LogsOne DEF Hypothesize, e
  <1>5. QED
    BY <1>1, <1>4 DEF SessionInv, Hypothesize

LEMMA RunInv == SessionInv /\ Run => SessionInv'
  <1>. SUFFICES ASSUME SessionInv, Run PROVE SessionInv'
    OBVIOUS
  <1>1. clock \in Int /\ clock' \in Int
    BY ClockInt DEF Run, SessionInv
  <1>. DEFINE passed == SuiteResult(code).visible
              ratio == (100 * passed) \div VisibleTotal
              payload == [passed |-> passed = VisibleTotal, ratio |-> ratio, starter |-> code = {}]
              e == Event("RUN", clock, payload)
  <1>2. passed \in Nat /\ VisibleTotal \in Nat \ {0}
    <2>1. code \in SUBSET AllLines
      BY DEF SessionInv
    <2>2. SuiteResult(code) \in [visible : 0..VisibleTotal, hidden : 0..HiddenTotal] /\ VisibleTotal \in Nat \ {0}
      BY <2>1, SessionAssumption DEF SessionAssumption
    <2>3. passed \in 0..VisibleTotal
      BY <2>2
    <2>. HIDE DEF passed
    <2>4. QED
      BY <2>2, <2>3
  <1>. HIDE DEF passed
  <1>3. ratio \in Nat
    <2>. DEFINE q == 100 * passed
    <2>1. q \in Nat
      BY <1>2
    <2>. HIDE DEF q
    <2>2. q \div VisibleTotal \in Nat
      BY <1>2, <2>1
    <2>3. QED
      BY <2>2 DEF q
  <1>. HIDE DEF ratio
  <1>4. DOMAIN payload = {"passed", "ratio", "starter"} /\ payload["ratio"] = ratio
    OBVIOUS
  <1>. HIDE DEF payload
  <1>5. Typed(e) /\ OfExercise(e)
    BY <1>1, <1>3, <1>4, RunEvent
  <1>. HIDE DEF e
  <1>6. log' = Logged(log, e)
    BY DEF Run, e, payload, ratio, passed
  <1>7. GoodLog(log') /\ (status' # "in_progress" => HasSuite(log'))
    BY <1>5, <1>6, LogsOne DEF Run
  <1>8. QED
    BY <1>1, <1>7 DEF SessionInv, Run

LEMMA LogIs ==
    ASSUME SessionInv
    PROVE  /\ \E S : log \in Seq(S)
           /\ Readable(log) /\ Sorted(log)
           /\ \E R : replies \in Seq(R)
  BY DEF SessionInv, GoodLog, Good, IsSequence, Readable

LEMMA HintInv == SessionInv /\ Hint => SessionInv'
  <1>. SUFFICES ASSUME SessionInv, Hint PROVE SessionInv'
    OBVIOUS
  <1>1. clock \in Int /\ clock' \in Int
    BY ClockInt DEF Hint, SessionInv
  <1>. DEFINE e == Event("DEBUG_HINT", clock, Plain)
  <1>2. Typed(e) /\ OfExercise(e)
    BY <1>1, PlainEvent DEF Plain
  <1>. HIDE DEF e
  <1>3. GoodLog(log') /\ (status' # "in_progress" => HasSuite(log'))
    BY <1>2, LogsOne DEF Hint, e
  <1>4. QED
    BY <1>1, <1>3 DEF SessionInv, Hint

LEMMA LocateInv == SessionInv /\ Locate => SessionInv'
  <1>. SUFFICES ASSUME SessionInv, Locate PROVE SessionInv'
    OBVIOUS
  <1>1. clock \in Int /\ clock' \in Int
    BY ClockInt DEF Locate, SessionInv
  <1>2. PICK lines \in Locations :
           log' = Logged(log, Event("LOCATE", clock, [lines |-> lines, skipped |-> lines = {}, hints |-> Hints]))
    BY DEF Locate
  <1>3. Hints \in Nat
    <2>1. PICK S : log \in Seq(S)
      BY LogIs
    <2>2. QED
      BY <2>1, OfMembers DEF Hints
  <1>. DEFINE payload == [lines |-> lines, skipped |-> lines = {}, hints |-> Hints]
              e == Event("LOCATE", clock, payload)
  <1>4. DOMAIN payload = {"lines", "skipped", "hints"} /\ payload["hints"] = Hints
    OBVIOUS
  <1>. HIDE DEF payload
  <1>5. Typed(e) /\ OfExercise(e)
    BY <1>1, <1>3, <1>4, LocateEvent
  <1>. HIDE DEF e
  <1>6. log' = Logged(log, e)
    BY <1>2 DEF e, payload
  <1>7. GoodLog(log') /\ (status' # "in_progress" => HasSuite(log'))
    BY <1>5, <1>6, LogsOne DEF Locate
  <1>8. QED
    BY <1>1, <1>7 DEF SessionInv, Locate

LEMMA PostInv == SessionInv /\ Post => SessionInv'
  <1>. SUFFICES ASSUME SessionInv, Post PROVE SessionInv'
    OBVIOUS
  <1>1. Good(pending) /\ Good(pending')
    BY GoodNone DEF Post, SessionInv
  <1>2. GoodLog(log') /\ (status' # "in_progress" => HasSuite(log'))
    BY <1>1, LogsAll DEF Post
  <1>3. QED
    BY <1>1, <1>2 DEF SessionInv, Post

LEMMA SubmitInv == SessionInv /\ Submit => SessionInv'
  <1>. SUFFICES ASSUME SessionInv, Submit PROVE SessionInv'
    OBVIOUS
  <1>1. clock \in Int /\ clock' \in Int /\ code \in SUBSET AllLines /\ GoodLog(log)
    BY ClockInt DEF Submit, SessionInv
  <1>. DEFINE suite == Event("SUBMIT_TESTS", clock,
                             Merged(SuiteResult(code), [visibleTotal |-> VisibleTotal, hiddenTotal |-> HiddenTotal]))
              submit == Event("SUBMIT", clock, Plain)
  <1>2. PICK tests \in Suites :
           log' = WithAll(<<suite>> \o When(exercise.tested, <<Event("STUDENT_TESTS", clock, tests)>>) \o <<submit>>)
    BY DEF Submit
  <1>. DEFINE test == Event("STUDENT_TESTS", clock, tests)
              own == When(exercise.tested, <<test>>)
  <1>3. Typed(suite) /\ OfExercise(suite) /\ suite.type = "SUBMIT_TESTS"
    BY <1>1, SuiteEvent
  <1>4. Typed(submit) /\ OfExercise(submit)
    BY <1>1, PlainEvent DEF Plain
  <1>5. Typed(test) /\ OfExercise(test)
    BY <1>1, TestsEvent
  <1>. HIDE DEF suite, submit, test
  <1>6. Good(<<suite>>) /\ Good(<<submit>>) /\ Good(own)
    BY <1>3, <1>4, <1>5, GoodOne, GoodWhen
  <1>. HIDE DEF own
  <1>. DEFINE two == <<suite>> \o own
              all == two \o <<submit>>
  <1>7. Good(two) /\ Len(two) = Len(<<suite>>) + Len(own) /\ Len(own) \in Nat
    BY <1>6, GoodConcat
  <1>8. \A i \in 1..Len(<<suite>>) : two[i] = <<suite>>[i]
    BY <1>6, GoodConcat
  <1>9. Len(two) \in Nat /\ 1 \in 1..Len(two) /\ two[1] = suite
    BY <1>7, <1>8
  <1>. HIDE DEF two
  <1>10. Good(all) /\ Len(all) = Len(two) + Len(<<submit>>)
    BY <1>6, <1>7, GoodConcat
  <1>11. \A i \in 1..Len(two) : all[i] = two[i]
    BY <1>6, <1>7, GoodConcat
  <1>12. 1 \in 1..Len(all) /\ all[1] = suite
    BY <1>9, <1>10, <1>11
  <1>. HIDE DEF all
  <1>13. log' = WithAll(all)
    BY <1>2 DEF all, two, own, test
  <1>14. GoodLog(WithAll(all))
    BY <1>1, <1>10, WithAllGood
  <1>15. \A i \in 1..Len(all) : \E j \in 1..Len(WithAll(all)) : WithAll(all)[j] = all[i]
    BY <1>1, <1>10, WithAllGood
  <1>16. PICK j \in 1..Len(WithAll(all)) : WithAll(all)[j] = suite
    BY <1>12, <1>15
  <1>17. HasSuite(log')
    BY <1>3, <1>13, <1>16 DEF HasSuite
  <1>18. QED
    BY <1>1, <1>13, <1>14, <1>17 DEF SessionInv, Submit

LEMMA SummedNat ==
    ASSUME NEW s \in Seq(Nat)
    PROVE  Summed(s) \in Nat
  <1>1. PICK f \in [0..Len(s) -> Int] :
              /\ f[0] = 0 /\ \A n \in 1..Len(s) : f[n] = f[n - 1] + s[n]
              /\ Summed(s) = f[Len(s)]
    <2>1. Nat \subseteq Int
      OBVIOUS
    <2>2. QED
      BY <2>1, SummedUnfolds
  <1>. DEFINE N == Len(s)
              P == {n \in 0..N : f[n] \in Nat}
  <1>2. N \in Nat /\ \A n \in 1..N : s[n] \in Nat
    OBVIOUS
  <1>. HIDE DEF N
  <1>3. 0 \in P
    BY <1>1, <1>2
  <1>4. ASSUME NEW n \in 1..N, n - 1 \in P PROVE n \in P
    <2>1. f[n] = f[n - 1] + s[n] /\ f[n - 1] \in Nat /\ s[n] \in Nat
      BY <1>1, <1>2, <1>4 DEF N
    <2>2. n \in 0..N
      BY <1>2
    <2>3. QED
      BY <2>1, <2>2
  <1>5. \A n \in 0..N : n \in P
    <2>. HIDE DEF P
    <2>1. QED
      BY <1>2, <1>3, <1>4, Induction
  <1>6. N \in P
    BY <1>2, <1>5
  <1>7. QED
    BY <1>1, <1>6 DEF N

LEMMA AnswerVerdictIs ==
    ASSUME NEW answers \in Answers
    PROVE  /\ AnswerVerdict(answers).score \in Nat
           /\ \E levels \in Seq(RatedAs) : AnswerVerdict(answers).judge = Judge("explain", levels)
  <1>. DEFINE N == Len(answers)
              scores == [i \in DOMAIN answers |-> answers[i].score]
              levels == [i \in DOMAIN answers |-> answers[i].level]
  <1>1. answers \in Seq([score : Nat, level : RatedAs])
    BY SessionAssumption DEF SessionAssumption
  <1>2. N \in Nat /\ DOMAIN answers = 1..N /\ (answers # <<>> => N # 0)
    BY <1>1
  <1>3. \A i \in 1..N : answers[i].score \in Nat /\ answers[i].level \in RatedAs
    <2>. DEFINE R == [score : Nat, level : RatedAs]
    <2>1. \A r \in R : r.score \in Nat /\ r.level \in RatedAs
      OBVIOUS
    <2>. HIDE DEF R
    <2>2. \A i \in 1..N : answers[i] \in R
      <3>1. answers \in Seq(R)
        BY <1>1 DEF R
      <3>2. QED
        BY <3>1 DEF N
    <2>3. QED
      BY <2>1, <2>2
  <1>. HIDE DEF N
  <1>4. scores \in Seq(Nat) /\ levels \in Seq(RatedAs)
    BY <1>2, <1>3
  <1>5. Summed(scores) \in Nat
    <2>. HIDE DEF scores
    <2>1. QED
      BY <1>4, SummedNat
  <1>. DEFINE sum == Summed(scores)
  <1>6. AnswerVerdict(answers).score = (IF answers = <<>> THEN 0 ELSE sum \div N)
    BY DEF AnswerVerdict, N
  <1>7. AnswerVerdict(answers).judge = Judge("explain", levels)
    BY DEF AnswerVerdict
  <1>8. AnswerVerdict(answers).score \in Nat
    <2>1. sum \in Nat
      BY <1>5
    <2>. HIDE DEF sum
    <2>2. N # 0 => sum \div N \in Nat
      BY <1>2, <2>1
    <2>3. QED
      BY <1>2, <1>6, <2>2
  <1>9. QED
    BY <1>4, <1>7, <1>8

LEMMA JudgedGood ==
    ASSUME SessionInv, NEW rated \in [DOMAIN replies -> PromptVerdicts],
           NEW located \in IF Located THEN LocateVerdicts ELSE {NA}
    PROVE  Good(Judged(rated, located, clock))
  <1>1. PICK R : replies \in Seq(R)
    BY LogIs
  <1>2. clock \in Int
    BY DEF SessionInv
  <1>. DEFINE p == Event("JUDGE", clock, PromptVerdict(rated))
              l == Event("JUDGE", clock, Judge("locate", <<located>>))
  <1>3. Typed(p) /\ OfExercise(p)
    BY <1>1, <1>2, PromptJudgeIs
  <1>4. <<located>> \in Seq(RatedAs)
    <2>1. located \in RatedAs
      BY SessionAssumption DEF SessionAssumption, RatedAs, NA
    <2>2. QED
      BY <2>1
  <1>5. Typed(l) /\ OfExercise(l)
    BY <1>2, <1>4, JudgeIs
  <1>. HIDE DEF p, l
  <1>6. Good(When(replies # <<>>, <<p>>)) /\ Good(When(Located, <<l>>))
    BY <1>3, <1>5, GoodWhen
  <1>7. Judged(rated, located, clock) = When(replies # <<>>, <<p>>) \o When(Located, <<l>>)
    BY DEF Judged, p, l
  <1>8. QED
    BY <1>6, <1>7, GoodConcat

\* What an explain-back logs, and the report it makes.
LEMMA ExplainBackDoes ==
    ASSUME SessionInv, ExplainBack
    PROVE  /\ GoodLog(log') /\ HasSuite(log') /\ explained' \in Nat
           /\ \E usable : report' = Worded(ReportOf("v2", EvidenceOf(log'), explained'), usable)
  <1>1. PICK answers \in Answers, rated \in [DOMAIN replies -> PromptVerdicts],
             located \in (IF Located THEN LocateVerdicts ELSE {NA}), usable \in {{}, WRITTEN_CODES} :
          LET verdict == AnswerVerdict(answers)
              events  == WithAll(<<Event("EXPLAIN_BACK", clock, Plain), Event("JUDGE", clock, verdict.judge)>>
                                 \o Judged(rated, located, clock))
          IN  /\ log' = events
              /\ explained' = verdict.score
              /\ report' = Worded(ReportOf("v2", EvidenceOf(events), verdict.score), usable)
    BY DEF ExplainBack
  <1>. DEFINE verdict == AnswerVerdict(answers)
              b == Event("EXPLAIN_BACK", clock, Plain)
              j == Event("JUDGE", clock, verdict.judge)
              more == Judged(rated, located, clock)
              all == <<b, j>> \o more
  <1>2. log' = WithAll(all) /\ explained' = verdict.score
    BY <1>1
  <1>3. report' = Worded(ReportOf("v2", EvidenceOf(log'), explained'), usable)
    BY <1>1
  <1>4. clock \in Int /\ GoodLog(log)
    BY DEF SessionInv
  <1>5. Typed(b) /\ OfExercise(b)
    BY <1>4, PlainEvent DEF Plain
  <1>6. verdict.score \in Nat
    BY AnswerVerdictIs
  <1>7. PICK levels \in Seq(RatedAs) : verdict.judge = Judge("explain", levels)
    BY AnswerVerdictIs
  <1>8. Typed(j) /\ OfExercise(j)
    BY <1>4, <1>7, JudgeIs
  <1>9. Good(more)
    BY JudgedGood
  <1>. HIDE DEF b, j, more, verdict
  <1>10. Good(<<b, j>>)
    BY <1>5, <1>8, GoodTwo
  <1>11. Good(all)
    BY <1>9, <1>10, GoodConcat
  <1>. HIDE DEF all
  <1>12. GoodLog(log') /\ Keeps(log', log)
    BY <1>2, <1>4, <1>11, WithAllGood
  <1>13. HasSuite(log')
    BY <1>12, KeepsSuite DEF SessionInv, ExplainBack
  <1>14. QED
    BY <1>2, <1>3, <1>6, <1>12, <1>13

LEMMA ExplainBackInv == SessionInv /\ ExplainBack => SessionInv'
  <1>. SUFFICES ASSUME SessionInv, ExplainBack PROVE SessionInv'
    OBVIOUS
  <1>1. clock' \in Int
    BY DEF SessionInv, ExplainBack
  <1>2. GoodLog(log') /\ HasSuite(log') /\ explained' \in Nat
    BY ExplainBackDoes
  <1>3. QED
    BY <1>1, <1>2 DEF SessionInv, ExplainBack

LEMMA BackfillInv == SessionInv /\ Backfill => SessionInv'
  <1>. SUFFICES ASSUME SessionInv, Backfill PROVE SessionInv'
    OBVIOUS
  <1>1. clock \in Int /\ clock' \in Int
    BY ClockInt DEF Backfill, SessionInv
  <1>2. PICK level \in LocateVerdicts, rated \in [DOMAIN replies -> PromptVerdicts] :
          log' = WithAll(When(PromptsUnjudged, <<Event("JUDGE", clock, PromptVerdict(rated))>>)
                         \o [i \in DOMAIN Unjudged |->
                               Event("JUDGE", clock, Merged([for_ts |-> Unjudged[i].ts],
                                                            Judge("hypothesis", <<level>>)))])
    BY DEF Backfill
  <1>. DEFINE p == Event("JUDGE", clock, PromptVerdict(rated))
              n == Len(Unjudged)
              later == [i \in 1..n |-> Event("JUDGE", clock, Merged([for_ts |-> Unjudged[i].ts],
                                                            Judge("hypothesis", <<level>>)))]
  <1>3. DOMAIN Unjudged = 1..n /\ n \in Nat
    <2>1. PICK S : log \in Seq(S)
      BY LogIs
    <2>2. Of(log, "HYPOTHESIS") \in Seq(S)
      BY <2>1, OfMembers
    <2>. DEFINE hyps == Of(log, "HYPOTHESIS")
                done == {v.for_ts : v \in ToSet(Verdicts(log, "hypothesis"))}
                marked == [i \in DOMAIN hyps |-> hyps[i].level = NA /\ hyps[i].ts \notin done]
    <2>3. Unjudged = Kept(hyps, marked)
      BY DEF Unjudged, Where
    <2>4. \A i \in 1..Len(hyps) : marked[i] = (hyps[i].level = NA /\ hyps[i].ts \notin done)
      BY <2>2
    <2>. HIDE DEF hyps, marked
    <2>5. hyps \in Seq(S)
      BY <2>2 DEF hyps
    <2>6. Kept(hyps, marked) \in Seq(S)
      BY <2>5, KeptMembers
    <2>7. QED
      BY <2>3, <2>6
  <1>4. \A i \in 1..n : Typed(later[i]) /\ OfExercise(later[i])
    <2>1. level \in RatedAs
      BY SessionAssumption DEF SessionAssumption
    <2>2. \A for : LET e == Event("JUDGE", clock, Merged([for_ts |-> for], Judge("hypothesis", <<level>>)))
                   IN  Typed(e) /\ OfExercise(e)
      BY <1>1, <2>1, LaterJudgeIs
    <2>3. QED
      BY <2>2
  <1>5. later = [i \in 1..n |-> later[i]]
    OBVIOUS
  <1>6. Typed(p) /\ OfExercise(p)
    <2>1. PICK R : replies \in Seq(R)
      BY LogIs
    <2>2. QED
      BY <1>1, <2>1, PromptJudgeIs
  <1>7. log' = WithAll(When(PromptsUnjudged, <<p>>) \o later)
    BY <1>2, <1>3
  <1>. HIDE DEF p, later, n
  <1>8. Good(later)
    BY <1>3, <1>4, <1>5, GoodMapped
  <1>9. Good(When(PromptsUnjudged, <<p>>))
    BY <1>6, GoodWhen
  <1>10. Good(When(PromptsUnjudged, <<p>>) \o later)
    BY <1>8, <1>9, GoodConcat
  <1>11. GoodLog(log') /\ (status' # "in_progress" => HasSuite(log'))
    BY <1>7, <1>10, LogsAll DEF Backfill
  <1>12. QED
    BY <1>1, <1>11 DEF SessionInv, Backfill

LEMMA RescoreInv == SessionInv /\ Rescore => SessionInv'
  <1>. SUFFICES ASSUME SessionInv, Rescore PROVE SessionInv'
    OBVIOUS
  <1>1. clock' \in Int
    BY ClockInt, 0 \in Int DEF Rescore
  <1>2. QED
    BY <1>1 DEF SessionInv, Rescore

\* However a session goes, its log stays in the order of its stamps, every event in it can be read by
\* the engines and a submit brings the result of the exercise's own suite: events.ts sorts what
\* add_event and ingest_events store.
THEOREM SessionInvariant == Spec => []SessionInv
  <1>1. Init => SessionInv
    BY InitInv
  <1>2. SessionInv /\ [Next]_vars => SessionInv'
    <2>. SUFFICES ASSUME SessionInv, [Next]_vars PROVE SessionInv'
      OBVIOUS
    <2>1. CASE Open
      BY <2>1, OpenInv
    <2>2. CASE Edit
      BY <2>2, EditInv
    <2>3. CASE Signal
      BY <2>3, SignalInv
    <2>4. CASE Pause
      BY <2>4, PauseInv
    <2>5. CASE Ask
      BY <2>5, AskInv
    <2>6. CASE Answer
      BY <2>6, AnswerInv
    <2>7. CASE Hypothesize
      BY <2>7, HypothesizeInv
    <2>8. CASE Run
      BY <2>8, RunInv
    <2>9. CASE Hint
      BY <2>9, HintInv
    <2>10. CASE Locate
      BY <2>10, LocateInv
    <2>11. CASE Post
      BY <2>11, PostInv
    <2>12. CASE Submit
      BY <2>12, SubmitInv
    <2>13. CASE ExplainBack
      BY <2>13, ExplainBackInv
    <2>14. CASE Backfill
      BY <2>14, BackfillInv
    <2>15. CASE Rescore
      BY <2>15, RescoreInv
    <2>16. CASE UNCHANGED vars
      BY <2>16 DEF SessionInv, vars
    <2>17. QED
      BY <2>1, <2>2, <2>3, <2>4, <2>5, <2>6, <2>7, <2>8, <2>9, <2>10, <2>11, <2>12, <2>13, <2>14, <2>15, <2>16
         DEF Next
  <1>3. QED
    BY <1>1, <1>2, PTL DEF Spec

\* The evidence of a session can be read.
LEMMA EvidenceIs ==
    ASSUME NEW events, \E S : events \in Seq(S), Readable(events), \E R : replies \in Seq(R)
    PROVE  /\ Evident(EvidenceOf(events)) /\ EvidenceOf(events).log = events
           /\ EvidenceOf(events).kind = exercise.kind
  <1>. DEFINE ev == EvidenceOf(events)
  <1>1. ev.log = events /\ ev.replies = replies /\ ev.kind = exercise.kind
    BY DEF EvidenceOf
  <1>. HIDE DEF ev
  <1>2. Evident(ev)
    BY <1>1 DEF Evident
  <1>3. QED
    BY <1>1, <1>2 DEF ev

\* Of one session, only the log differs.
LEMMA SameEvidence ==
    ASSUME NEW events, NEW those
    PROVE  SameButLog(EvidenceOf(events), EvidenceOf(those))
  BY DEF SameButLog, EvidenceOf

\* What a log is worth is what either engine gives it.
LEMMA OverallsAre ==
    ASSUME NEW events
    PROVE  /\ Overalls(events).v1 = ScoreAttempt(events, explained, exercise.kind).overall
           /\ Overalls(events).v2 = ScoreAttemptV2(EvidenceOf(events), explained).overall
  <1>. DEFINE ev == EvidenceOf(events)
              v1 == ScoreAttempt(events, explained, exercise.kind)
  <1>1. ev.log = events /\ ev.kind = exercise.kind
    BY DEF EvidenceOf
  <1>. HIDE DEF ev
  <1>2. ScoreAttemptV2(ev, explained) = ScoreFound(ev, explained, Indicators(ev), v1)
    BY <1>1 DEF ScoreAttemptV2
  <1>. HIDE DEF v1
  <1>3. Overalls(events) = [v1 |-> v1.overall, v2 |-> ScoreFound(ev, explained, Indicators(ev), v1).overall]
    BY DEF Overalls, ev, v1
  <1>4. QED
    BY <1>2, <1>3 DEF ev, v1

\* No engine reads a signal.
LEMMA SignalsAre == \A type \in SignalTypes : type \notin ReadTypes
  BY DEF SignalTypes, ReadTypes

\* Taking a signal out of a log that can be read lowers neither overall.
LEMMA SignalsHold == SessionInv => SignalsNeverPay
  <1>. SUFFICES ASSUME SessionInv, NEW i \in DOMAIN log, log[i].type \in SignalTypes
                PROVE  NoHigher(Overalls(log), Overalls(RemoveAt(log, i)))
    BY DEF SignalsNeverPay
  <1>1. PICK S : log \in Seq(S)
    BY LogIs
  <1>2. Readable(log) /\ Sorted(log) /\ \E R : replies \in Seq(R)
    BY LogIs
  <1>3. i \in 1..Len(log) /\ log[i].type \notin ReadTypes
    BY <1>1, SignalsAre
  <1>4. Tick \in Nat /\ explained \in Nat
    BY SessionAssumption DEF SessionAssumption, SessionInv
  <1>. DEFINE t == RemoveAt(log, i)
              ev == EvidenceOf(log)
              ew == EvidenceOf(t)
  <1>5. ScoreAttempt(log, explained, exercise.kind).overall <= ScoreAttempt(t, explained, exercise.kind).overall
    BY <1>1, <1>2, <1>3, <1>4, SignalNeverPaysV1
  <1>6. Evident(ev) /\ ev.log = log
    BY <1>1, <1>2, EvidenceIs
  <1>7. ew.log = t /\ SameButLog(ev, ew)
    BY SameEvidence DEF EvidenceOf
  <1>. HIDE DEF ev, ew, t
  <1>8. ew.log = RemoveAt(ev.log, i) /\ i \in 1..Len(ev.log) /\ ev.log[i].type \notin ReadTypes /\ Sorted(ev.log)
    BY <1>2, <1>3, <1>6, <1>7 DEF t
  <1>9. ScoreAttemptV2(ev, explained).overall <= ScoreAttemptV2(ew, explained).overall
    BY <1>4, <1>6, <1>7, <1>8, SignalNeverPaysV2
  <1>10. /\ Overalls(log).v1 = ScoreAttempt(log, explained, exercise.kind).overall
         /\ Overalls(log).v2 = ScoreAttemptV2(ev, explained).overall
    BY OverallsAre DEF ev
  <1>11. /\ Overalls(t).v1 = ScoreAttempt(t, explained, exercise.kind).overall
         /\ Overalls(t).v2 = ScoreAttemptV2(ew, explained).overall
    BY OverallsAre DEF ew
  <1>12. QED
    BY <1>5, <1>9, <1>10, <1>11 DEF NoHigher, t

\* The verdicts missing in a log that can be read change no axis into one that does not apply.
LEMMA OutageHolds == SessionInv => OutageKeepsAxes
  <1>. SUFFICES ASSUME SessionInv PROVE OutageKeepsAxes
    OBVIOUS
  <1>. DEFINE lowest == [i \in DOMAIN log |->
                     IF log[i].type # "JUDGE" THEN log[i]
                     ELSE [log[i] EXCEPT !.levels = [j \in DOMAIN log[i].levels |-> MaxOf(0, log[i].levels[j])]]]
              ev == EvidenceOf(log)
              ew == EvidenceOf(lowest)
  <1>1. (\E S : log \in Seq(S)) /\ Readable(log) /\ (\E R : replies \in Seq(R)) /\ explained \in Nat
    BY LogIs DEF SessionInv
  <1>2. lowest = [i \in DOMAIN log |-> Lowest(log[i])]
    BY DEF Lowest
  <1>3. Evident(ev) /\ ev.log = log
    BY <1>1, EvidenceIs
  <1>4. SameButLog(ev, ew) /\ ew.log = lowest
    BY SameEvidence DEF EvidenceOf
  <1>. HIDE DEF lowest, ev, ew
  <1>5. ew.log = [i \in DOMAIN ev.log |-> Lowest(ev.log[i])]
    BY <1>2, <1>3, <1>4
  <1>6. Evident(ew) /\ Applicable(ew) = Applicable(ev)
    BY <1>3, <1>4, <1>5, OutageApplies
  <1>7. \A a \in Axes : ScoreAttemptV2(ev, explained).axes[a] # NA <=> a \in Applicable(ev)
    BY <1>1, <1>3, AxesV2
  <1>8. \A a \in Axes : ScoreAttemptV2(ew, explained).axes[a] # NA <=> a \in Applicable(ew)
    BY <1>1, <1>6, AxesV2
  <1>9. {a \in Axes : ScoreAttemptV2(ev, explained).axes[a] # NA}
           = {a \in Axes : ScoreAttemptV2(ew, explained).axes[a] # NA}
    BY <1>6, <1>7, <1>8
  <1>10. QED
    BY <1>9 DEF OutageKeepsAxes, ev, ew, lowest

\* No session gains by an integrity event (a paste, a tab left, ...), by either engine.
THEOREM NoSignalPays == Spec => []SignalsNeverPay
  BY SessionInvariant, SignalsHold, PTL

\* Where judges failed, score_attempt_v2 gives a score to the axes it would have given one by the
\* lowest verdicts: no axis goes missing and none is invented.
THEOREM OutageKeepsTheAxes == Spec => []OutageKeepsAxes
  BY SessionInvariant, OutageHolds, PTL

\* What ReportIsConsistent says of a report.
IsConsistent(r) ==
    r.engine = "v2" =>
        /\ \A pair \in Contradictions : ~ pair \subseteq Codes(r.findings)
        /\ \A i \in DOMAIN r.findings : r.findings[i].axis # "overall" => r.axes[r.findings[i].axis] # NA
        /\ r.integrity = "green" => "integrity_flags" \notin Codes(r.findings)

\* None of the pairs is found of an exercise with a suite.
LEMMA NoContradiction ==
    ASSUME NEW found, NEW solved, NEW axes, NEW flagged, Consistent(found, solved, axes, flagged),
           NEW pair \in Contradictions
    PROVE  ~ pair \subseteq Codes(found)
  <1>1. CASE pair \in {{"bug_not_fixed", "submitted_failing"}, {"partial_fix", "hidden_edge_failed"}}
    BY <1>1 DEF Consistent
  <1>2. CASE \E c \in Solving, f \in Failing : pair = {c, f}
    BY <1>2, Apart
  <1>3. pair \in {{"bug_not_fixed", "submitted_failing"}, {"partial_fix", "hidden_edge_failed"}}
        \/ \E c \in Solving, f \in Failing : pair = {c, f}
    BY DEF Contradictions, Solving, Failing
  <1>4. QED
    BY <1>1, <1>2, <1>3

\* Every report of the second engine, on any evidence with a suite.
LEMMA ReportedIsConsistent ==
    ASSUME NEW ev, Evident(ev), NEW explain \in Nat, TotalOf(SubmitTests(ev.log)) > 0, NEW engine, NEW usable
    PROVE  IsConsistent(Worded(ReportOf(engine, ev, explain), usable))
  <1>. DEFINE r == Worded(ReportOf(engine, ev, explain), usable)
              result == ScoreAttemptV2(ev, explain)
              found == Diagnose(result, ev)
              solved == Solved(ev.log)
              axes == Applicable(ev)
              flagged == Multiplier(ev.log) < 100
  <1>1. r.engine = engine /\ r.integrity = Integrity(ev.log)
    BY DEF Worded, ReportOf, Report
  <1>2. CASE engine # "v2"
    <2>. HIDE DEF r
    <2>1. QED
      BY <1>1, <1>2 DEF IsConsistent, r
  <1>3. CASE engine = "v2"
    <2>1. r.findings = found /\ r.axes = result.axes
      BY <1>3 DEF Worded, ReportOf, Report, Result
    <2>2. Consistent(found, solved, axes, flagged)
      BY DiagnoseIs
    <2>3. \A a \in Axes : result.axes[a] # NA <=> a \in axes
      BY AxesV2
    <2>4. Integrity(ev.log) = "green" => ~flagged
      <3>1. PICK S : ev.log \in Seq(S)
        BY DEF Evident
      <3>2. Integrity(ev.log) = "green" => Multiplier(ev.log) = 100
        BY <3>1, GreenIsWhole
      <3>3. QED
        BY <3>2
    <2>. HIDE DEF r, result, found, solved, axes, flagged
    <2>5. \A pair \in Contradictions : ~ pair \subseteq Codes(found)
      BY <2>2, NoContradiction
    <2>6. ASSUME NEW i \in DOMAIN found, found[i].axis # "overall" PROVE result.axes[found[i].axis] # NA
      <3>1. found[i] \in Says(solved, axes)
        BY <2>2, <2>6 DEF Consistent
      <3>2. found[i].axis \in axes /\ found[i].axis \in Axes
        BY <3>1 DEF Says, Findings
      <3>3. QED
        BY <2>3, <3>2
    <2>7. ASSUME ~flagged PROVE "integrity_flags" \notin Codes(found)
      <3>1. \A i \in DOMAIN found : found[i].code \in FindingCodes
        BY <2>2, <2>7 DEF Consistent, Says, Findings
      <3>2. "integrity_flags" \notin FindingCodes
        BY DEF FindingCodes
      <3>3. QED
        BY <3>1, <3>2 DEF Codes
    <2>8. IsConsistent(r)
      BY <1>1, <2>1, <2>4, <2>5, <2>6, <2>7 DEF IsConsistent
    <2>9. QED
      BY <2>8 DEF r
  <1>4. QED
    BY <1>2, <1>3

\* Once a suite has run there are tests.
LEMMA SuiteHasTests ==
    ASSUME NEW events, \E S : events \in Seq(S), Readable(events), HasSuite(events)
    PROVE  TotalOf(SubmitTests(events)) > 0
  <1>1. PICK S : events \in Seq(S)
    OBVIOUS
  <1>2. Of(events, "SUBMIT_TESTS") # <<>>
    BY <1>1, OfNone DEF HasSuite
  <1>3. QED
    BY <1>1, <1>2, SuiteIs

\* The report of a session with a suite says nothing that contradicts.
LEMMA SessionReportIs ==
    ASSUME NEW events, GoodLog(events), HasSuite(events), IsSequence(replies), NEW explain \in Nat, NEW engine, NEW usable
    PROVE  IsConsistent(Worded(ReportOf(engine, EvidenceOf(events), explain), usable))
  <1>1. (\E S : events \in Seq(S)) /\ Readable(events) /\ (\E R : replies \in Seq(R))
    BY DEF GoodLog, Good, IsSequence, Readable
  <1>. DEFINE ev == EvidenceOf(events)
  <1>2. Evident(ev) /\ ev.log = events
    BY <1>1, EvidenceIs
  <1>3. TotalOf(SubmitTests(events)) > 0
    BY <1>1, SuiteHasTests
  <1>. HIDE DEF ev
  <1>4. IsConsistent(Worded(ReportOf(engine, ev, explain), usable))
    BY <1>2, <1>3, ReportedIsConsistent
  <1>5. QED
    BY <1>4 DEF ev

ReportInv == SessionInv /\ IsConsistent(report)

\* A report is written by an explain-back or a rescoring, of a log that can be read.
LEMMA ReportStep == ReportInv /\ [Next]_vars => IsConsistent(report')
  <1>. SUFFICES ASSUME ReportInv, [Next]_vars PROVE IsConsistent(report')
    OBVIOUS
  <1>. USE DEF ReportInv
  <1>1. CASE ExplainBack
    <2>1. GoodLog(log') /\ HasSuite(log') /\ explained' \in Nat
      BY <1>1, ExplainBackDoes
    <2>2. PICK usable : report' = Worded(ReportOf("v2", EvidenceOf(log'), explained'), usable)
      BY <1>1, ExplainBackDoes
    <2>3. IsSequence(replies)
      BY DEF SessionInv
    <2>4. QED
      BY <2>1, <2>2, <2>3, SessionReportIs
  <1>2. CASE Rescore
    <2>1. PICK engine \in {"v1", "v2"} : report' = Worded(ReportOf(engine, EvidenceOf(log), explained), report.written)
      BY <1>2 DEF Rescore
    <2>2. GoodLog(log) /\ HasSuite(log) /\ IsSequence(replies) /\ explained \in Nat
      BY <1>2 DEF SessionInv, Rescore
    <2>3. QED
      BY <2>1, <2>2, SessionReportIs
  <1>3. CASE ~ExplainBack /\ ~Rescore
    <2>1. report' = report
      BY <1>3 DEF Next, vars, Open, Edit, Signal, Pause, Ask, Answer, Hypothesize, Run, Hint, Locate, Post, Submit, Backfill
    <2>2. QED
      BY <2>1
  <1>4. QED
    BY <1>1, <1>2, <1>3

\* A stored report never says two things that contradict one another, speaks only of axes that have
\* a score, and raises no alarm of integrity where the integrity is green: diagnose and write_feedback.
THEOREM ReportsAreConsistent == Spec => []ReportIsConsistent
  <1>1. Init => IsConsistent(report)
    BY DEF Init, NoReport, IsConsistent
  <1>2. SessionInv /\ IsConsistent(report) /\ [Next]_vars => IsConsistent(report')
    BY ReportStep DEF ReportInv
  <1>3. IsConsistent(report) => ReportIsConsistent
    BY DEF IsConsistent, ReportIsConsistent
  <1>. DEFINE C == IsConsistent(report)
  <1>4. C' <=> IsConsistent(report')
    BY DEF C
  <1>. HIDE DEF C
  <1>5. Init => C
    BY <1>1 DEF C
  <1>6. SessionInv /\ C /\ [Next]_vars => C'
    BY <1>2, <1>4 DEF C
  <1>7. C => ReportIsConsistent
    BY <1>3 DEF C
  <1>8. QED
    BY SessionInvariant, <1>5, <1>6, <1>7, PTL DEF Spec

-----------------------------------------------------------------------------
(* What solving the exercise is worth                                      *)

\* The session's log had its suite passed, as SolvingPays has it.
PassedLog == [i \in DOMAIN log |->
                IF log[i].type # "SUBMIT_TESTS" THEN log[i]
                ELSE [log[i] EXCEPT !.visible = VisibleTotal, !.hidden = HiddenTotal]]

\* The suite of the log is the exercise's.
LEMMA PassedIsFlawless ==
    ASSUME SessionInv
    PROVE  PassedLog = Flawless(log)
  <1>1. DOMAIN log = 1..Len(log) /\ \A i \in 1..Len(log) : OfExercise(log[i])
    BY DEF SessionInv, GoodLog, Good, IsSequence
  <1>2. \A i \in DOMAIN log : AllPassed(log[i]) =
           IF log[i].type # "SUBMIT_TESTS" THEN log[i]
           ELSE [log[i] EXCEPT !.visible = VisibleTotal, !.hidden = HiddenTotal]
    BY <1>1 DEF AllPassed, OfExercise
  <1>3. QED
    BY <1>2 DEF PassedLog, Flawless

\* Where the log has a suite, passing it lowers neither overall.
LEMMA SolvingHolds ==
    ASSUME SessionInv, HasSuite(log)
    PROVE  SolvingPays
  <1>1. PICK S : log \in Seq(S)
    BY LogIs
  <1>2. Readable(log) /\ (\E R : replies \in Seq(R)) /\ explained \in Nat
    BY LogIs DEF SessionInv
  <1>3. Of(log, "SUBMIT_TESTS") # <<>>
    BY <1>1, OfNone DEF HasSuite
  <1>. DEFINE t == Flawless(log)
              ev == EvidenceOf(log)
              ew == EvidenceOf(t)
  <1>4. ScoreAttempt(log, explained, exercise.kind).overall <= ScoreAttempt(t, explained, exercise.kind).overall
    BY <1>1, <1>2, <1>3, SolvingPaysV1
  <1>5. Evident(ev) /\ ev.log = log
    BY <1>1, <1>2, EvidenceIs
  <1>6. ew.log = t /\ SameButLog(ev, ew)
    BY SameEvidence DEF EvidenceOf
  <1>7. /\ Overalls(log).v1 = ScoreAttempt(log, explained, exercise.kind).overall
        /\ Overalls(log).v2 = ScoreAttemptV2(ev, explained).overall
    BY OverallsAre DEF ev
  <1>8. /\ Overalls(t).v1 = ScoreAttempt(t, explained, exercise.kind).overall
        /\ Overalls(t).v2 = ScoreAttemptV2(ew, explained).overall
    BY OverallsAre DEF ew
  <1>9. PassedLog = t
    BY PassedIsFlawless
  <1>. HIDE DEF ev, ew, t
  <1>10. Mended(ev, ew)
    BY <1>3, <1>5, <1>6 DEF Mended, t
  <1>11. ASSUME ~LateFix(ev)
         PROVE  ScoreAttemptV2(ev, explained).overall <= ScoreAttemptV2(ew, explained).overall
    <2>1. ~(Late(ev) /\ Shares(ev))
      BY <1>11 DEF LateFix, Late, Shares
    <2>2. QED
      BY <1>2, <1>10, <2>1, SolvingPaysV2
  <1>12. Overalls(log).v1 <= Overalls(PassedLog).v1
    BY <1>4, <1>7, <1>8, <1>9
  <1>13. LateFix(ev) \/ Overalls(log).v2 <= Overalls(PassedLog).v2
    BY <1>7, <1>8, <1>9, <1>11
  <1>14. QED
    BY <1>12, <1>13 DEF SolvingPays, PassedLog, ev

\* A report is written once the session is submitted.
ReportedLate == report.engine = "v2" => status # "in_progress"

LEMMA ReportedStep == ReportedLate /\ [Next]_vars => ReportedLate'
  <1>. SUFFICES ASSUME ReportedLate, [Next]_vars PROVE ReportedLate'
    OBVIOUS
  <1>1. CASE ExplainBack
    BY <1>1 DEF ExplainBack, ReportedLate
  <1>2. CASE Rescore
    BY <1>2 DEF Rescore, ReportedLate
  <1>3. CASE Submit
    BY <1>3 DEF Submit, ReportedLate
  <1>4. CASE ~ExplainBack /\ ~Rescore /\ ~Submit
    <2>1. report' = report /\ status' = status
      BY <1>4 DEF Next, vars, Open, Edit, Signal, Pause, Ask, Answer, Hypothesize, Run, Hint, Locate, Post, Backfill
    <2>2. QED
      BY <2>1 DEF ReportedLate
  <1>5. QED
    BY <1>1, <1>2, <1>3, <1>4

\* A submission whose tests all pass is worth no less than the same attempt with some that fail: by
\* the first engine axis by axis, by the second because what debugging may lose testing makes up for.
THEOREM SolvingNeverCosts == Spec => []SolvingPays
  <1>1. Init => ReportedLate
    BY DEF Init, NoReport, ReportedLate
  <1>2. ReportedLate /\ [Next]_vars => ReportedLate'
    BY ReportedStep
  <1>3. SessionInv /\ ReportedLate => SolvingPays
    <2>1. CASE report.engine = "v2"
      BY <2>1, SolvingHolds DEF SessionInv, ReportedLate
    <2>2. CASE report.engine # "v2"
      BY <2>2 DEF SolvingPays
    <2>3. QED
      BY <2>1, <2>2
  <1>4. QED
    BY SessionInvariant, <1>1, <1>2, <1>3, PTL DEF Spec
=============================================================================
