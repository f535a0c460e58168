--------------------------- MODULE AttemptsProofs ---------------------------
(***************************************************************************)
(* Theorems about Attempts for every set of students, attempts and workers, *)
(* every limit and every value of the bounds.                               *)
(***************************************************************************)
EXTENDS Attempts, FiniteSetTheorems, TLAPS

\* A request under way knows its attempt, an idle worker nothing.
JobIsComplete ==
    \A w \in Workers :
        /\ pc[w] = "idle" => job[w] = NoJob
        /\ pc[w] # "idle" => job[w].attempt \in Attempts

\* No submission is stamped with a day that is still to come.
StampsArePast ==
    /\ \A a \in Attempts : attempts[a].submitted # None => attempts[a].submitted <= today
    /\ \A w \in Workers : job[w].at <= today

\* The requests that found a hint left and have not yet taken it, and those that
\* passed the monthly limit and have not yet committed their submission.
TakesHint(w, a) == pc[w] = "takeHint" /\ job[w].attempt = a /\ job[w].n < MAX_HINTS
TakingHint(a) == {w \in Workers : TakesHint(w, a)}
Past == {"suite", "tests", "mark", "questions"}
Allowed(u) == {a \in Attempts : Owner[a] = u /\ \E w \in Workers : pc[w] \in Past /\ job[w].attempt = a}

\* What the checks let through is what is in the tables and what is still to come there.
HintsAreCounted ==
    \A a \in Attempts :
        Used(a, "DEBUG_HINT") + Cardinality(TakingHint(a)) < MAX_HINTS + Cardinality(Workers)
SubmissionsAreCounted ==
    \A u \in Free :
        Cardinality(SubmittedThisMonth(u) \cup Allowed(u)) < Limit + Cardinality(Workers)

SnapsAreFinite == \A a \in Attempts : IsFiniteSet(snaps[a])

\* What the proofs know of the row locks.
LockIsASubmits ==
    \A a \in Attempts : rowLock[a] # None =>
        /\ pc[rowLock[a]] = "questions"
        /\ job[rowLock[a]].attempt = a

Typed == TypeOK /\ JobIsComplete /\ SnapsAreFinite

IInv ==
    /\ Typed
    /\ LockIsASubmits
    /\ ScoreIsTheReports
    /\ StampsArePast
    /\ HintsAreCounted
    /\ SubmissionsAreCounted

-----------------------------------------------------------------------------
(* What a step does to the worker that takes it, and to the log            *)

LEMMA Constants ==
    /\ None \notin Attempts /\ None \notin Workers /\ None \notin Scores /\ None \notin Nat
    /\ 0 \in Days /\ Days \subseteq Nat
    /\ Limit \in Nat \ {0} /\ MaxDays \in Nat
    /\ IsFiniteSet(Attempts) /\ IsFiniteSet(Workers)
    /\ NoJob \in Job /\ NoAttempt \in Attempt /\ NoEvents \in Events
  BY ConstantsAssumption
  DEF Days, NoJob, Job, NoAttempt, Attempt, Statuses, NoEvents, Events

LEMMA EndFacts ==
    ASSUME Typed, NEW w \in Workers, End(w)
    PROVE  /\ pc' = [pc EXCEPT ![w] = "idle"] /\ pc'[w] = "idle"
           /\ job' = [job EXCEPT ![w] = NoJob] /\ job'[w] = NoJob
           /\ rowLock' \in [Attempts -> Workers \cup {None}]
           /\ \A a \in Attempts : rowLock'[a] # None => rowLock'[a] = rowLock[a] /\ rowLock[a] # w
           /\ \A x \in Workers \ {w} : pc'[x] = pc[x] /\ job'[x] = job[x]
  BY Constants DEF Typed, TypeOK, End, Freed

LEMMA AddEventFacts ==
    ASSUME Typed, NEW a \in Attempts, NEW type \in EventTypes, NEW n \in Nat,
           AddEvent(a, type, n)
    PROVE  /\ log' \in [Attempts -> [EventTypes -> Events]]
           /\ Used(a, type)' = Used(a, type) + 1
           /\ \A b \in Attempts, t \in EventTypes :
                 (b # a \/ t # type) => Used(b, t)' = Used(b, t)
  <1> DEFINE new == [rows |-> log[a][type].rows + 1, last |-> n]
  <1>1. log \in [Attempts -> [EventTypes -> Events]]
    BY DEF Typed, TypeOK
  <1>2. new \in Events
    BY <1>1 DEF Events
  <1>3. log' = [log EXCEPT ![a] = [log[a] EXCEPT ![type] = new]]
    BY <1>1 DEF AddEvent
  <1>4. [log[a] EXCEPT ![type] = new] \in [EventTypes -> Events]
    BY <1>1, <1>2
  <1> HIDE DEF new
  <1>5. log' \in [Attempts -> [EventTypes -> Events]]
    BY <1>1, <1>3, <1>4
  <1>6. /\ log'[a][type] = new
        /\ \A b \in Attempts, t \in EventTypes :
              (b # a \/ t # type) => log'[b][t] = log[b][t]
    BY <1>1, <1>3
  <1>7. Used(a, type)' = Used(a, type) + 1
    BY <1>6 DEF Used, new
  <1>8. \A b \in Attempts, t \in EventTypes : (b # a \/ t # type) => Used(b, t)' = Used(b, t)
    BY <1>6 DEF Used
  <1>9. QED
    BY <1>5, <1>7, <1>8

\* A worker that ends its request, with the tables left in shape.
LEMMA EndTyped ==
    ASSUME Typed, NEW w \in Workers, End(w),
           attempts' \in [Attempts -> Attempt],
           log' \in [Attempts -> [EventTypes -> Events]],
           snaps' \in [Attempts -> SUBSET CodeSnapshot],
           reports' \subseteq FluencyReport,
           known' \in [Attempts -> Nat],
           fails' \in Nat,
           SnapsAreFinite',
           UNCHANGED <<today, editor>>
    PROVE  Typed'
  <1>1. TypeOK'
    <2>1. pc \in [Workers -> Statements] /\ job \in [Workers -> Job] /\ "idle" \in Statements
      BY DEF Typed, TypeOK, Statements
    <2>2. /\ pc' = [pc EXCEPT ![w] = "idle"] /\ job' = [job EXCEPT ![w] = NoJob]
          /\ rowLock' \in [Attempts -> Workers \cup {None}]
      BY EndFacts
    <2>3. pc' \in [Workers -> Statements] /\ job' \in [Workers -> Job]
      BY <2>1, <2>2, Constants
    <2>4. QED
      BY <2>2, <2>3 DEF Typed, TypeOK
  <1>2. JobIsComplete'
    BY EndFacts DEF Typed, JobIsComplete
  <1>3. QED
    BY <1>1, <1>2 DEF Typed

\* A worker that goes on with its request.
LEMMA ContinueTyped ==
    ASSUME Typed, NEW w \in Workers, NEW to, NEW j \in Job, pc[w] # "idle",
           Continue(w, to, j), j.attempt = job[w].attempt,
           to \in {"takeHint", "locate", "suite", "tests", "mark", "questions"},
           rowLock' \in [Attempts -> Workers \cup {None}]
    PROVE  Typed'
  <1>1. TypeOK'
    <2>1. pc' \in [Workers -> Statements] /\ job' \in [Workers -> Job]
      BY DEF Typed, TypeOK, Continue, Statements, Submitting
    <2>2. QED
      BY <2>1 DEF Typed, TypeOK, Continue, tables, world
  <1>2. JobIsComplete'
    <2>1. /\ pc'[w] = to /\ job'[w] = j
          /\ \A x \in Workers \ {w} : pc'[x] = pc[x] /\ job'[x] = job[x]
      BY DEF Typed, TypeOK, Continue
    <2>2. QED
      BY <2>1 DEF Typed, JobIsComplete
  <1>3. SnapsAreFinite'
    BY DEF Continue, tables, Typed, SnapsAreFinite
  <1>4. QED
    BY <1>1, <1>2, <1>3 DEF Typed

LEMMA BeginTyped ==
    ASSUME Typed, NEW w \in Workers, NEW a \in Attempts, NEW to, Begin(w, a, to),
           to \in {"run", "save", "hint", "mark bug", "quota", "judge"}
    PROVE  Typed'
  <1> DEFINE j == [NoJob EXCEPT !.attempt = a, !.seen = attempts[a].status, !.code = editor[a]]
  <1>1. j \in Job /\ j.attempt = a
    <2>1. attempts[a].status \in Statuses /\ editor[a] \in Nat
      BY DEF Typed, TypeOK, Attempt
    <2>2. QED
      BY <2>1, Constants DEF NoJob, Job
  <1>2. pc' = [pc EXCEPT ![w] = to] /\ job' = [job EXCEPT ![w] = j]
    BY DEF Begin
  <1> HIDE DEF j
  <1>3. TypeOK'
    <2>1. pc' \in [Workers -> Statements] /\ job' \in [Workers -> Job]
      BY <1>1, <1>2 DEF Typed, TypeOK, Statements, Submitting
    <2>2. QED
      BY <2>1 DEF Typed, TypeOK, Begin, tables, world
  <1>4. JobIsComplete'
    <2>1. /\ pc'[w] = to /\ job'[w] = j
          /\ \A x \in Workers \ {w} : pc'[x] = pc[x] /\ job'[x] = job[x]
      BY <1>2 DEF Typed, TypeOK
    <2>2. QED
      BY <1>1, <2>1 DEF Typed, JobIsComplete
  <1>5. SnapsAreFinite'
    BY DEF Begin, tables, Typed, SnapsAreFinite
  <1>6. QED
    BY <1>3, <1>4, <1>5 DEF Typed

\* A request only begins.
LEMMA RequestBegins ==
    ASSUME NEW w \in Workers, NEW a \in Attempts, Request(w, a)
    PROVE  /\ \E to \in {"run", "save", "hint", "mark bug", "quota", "judge"} : Begin(w, a, to)
           /\ UNCHANGED <<tables, world>>
  <1>1. ASSUME NEW to, Begin(w, a, to)
        PROVE  UNCHANGED <<tables, world>>
    BY <1>1 DEF Begin
  <1>2. \E to \in {"run", "save", "hint", "mark bug", "quota", "judge"} : Begin(w, a, to)
    BY DEF Request, Run, SaveTests, OpenStep, Submit, ExplainBack
  <1>3. QED
    BY <1>1, <1>2

LEMMA RequestTyped ==
    ASSUME Typed, NEW w \in Workers, NEW a \in Attempts, Request(w, a)
    PROVE  Typed'
  BY BeginTyped, RequestBegins

LEMMA CommitTyped ==
    ASSUME Typed, NEW w \in Workers,
           \/ CommitRun(w) \/ CommitTests(w) \/ TakeHint(w) \/ Locate(w)
           \/ CommitSubmit(w) \/ CommitScore(w)
    PROVE  Typed'
  <1> DEFINE a == job[w].attempt
  <1>1. a \in Attempts /\ job[w] \in Job
    BY DEF Typed, TypeOK, JobIsComplete, CommitRun, CommitTests, TakeHint, Locate,
           CommitSubmit, CommitScore
  <1>2. End(w) /\ UNCHANGED <<today, editor>> /\ fails' \in Nat
    BY DEF CommitRun, CommitTests, TakeHint, Locate, CommitSubmit, CommitScore, world,
           Typed, TypeOK
  <1>3. log' \in [Attempts -> [EventTypes -> Events]]
    <2>1. job[w].n \in Nat /\ Latest(a, "TESTS_SAVED") \in Nat
      BY <1>1 DEF Job, Typed, TypeOK, Events, Latest, EventTypes
    <2>2. CASE CommitRun(w)
      BY <2>2 DEF CommitRun, Typed, TypeOK
    <2>3. CASE CommitTests(w)
      BY <1>1, <2>1, <2>3, AddEventFacts DEF CommitTests, EventTypes
    <2>4. CASE TakeHint(w)
      BY <1>1, <2>1, <2>4, AddEventFacts DEF TakeHint, EventTypes
    <2>5. CASE Locate(w)
      BY <1>1, <2>1, <2>5, AddEventFacts DEF Locate, EventTypes
    <2>6. CASE CommitSubmit(w)
      BY <1>1, <2>1, <2>6, AddEventFacts DEF CommitSubmit, EventTypes
    <2>7. CASE CommitScore(w)
      BY <1>1, <2>7, AddEventFacts DEF CommitScore, EventTypes
    <2>8. QED
      BY <2>2, <2>3, <2>4, <2>5, <2>6, <2>7
  <1>4. attempts' \in [Attempts -> Attempt] /\ reports' \subseteq FluencyReport
    <2>0. attempts \in [Attempts -> Attempt] /\ reports \subseteq FluencyReport
      BY DEF Typed, TypeOK
    <2>1. CASE CommitSubmit(w)
      <3>1. NewStatus(job[w].seen, attempts[a].status) \in Statuses /\ job[w].at \in Days
        BY <1>1, <2>0 DEF NewStatus, Statuses, Attempt, Job
      <3>2. PICK row : row = [attempts[a] EXCEPT
                                !.status = NewStatus(job[w].seen, attempts[a].status),
                                !.submitted = job[w].at]
        OBVIOUS
      <3>3. row \in Attempt
        BY <1>1, <2>0, <3>1, <3>2 DEF Attempt
      <3>4. attempts' = [attempts EXCEPT ![a] = row] /\ reports' = reports
        BY <2>1, <3>2 DEF CommitSubmit
      <3>5. QED
        BY <2>0, <3>3, <3>4
    <2>2. CASE CommitScore(w)
      <3>1. PICK score \in Scores :
               /\ reports' = reports \cup {[attempt |-> a, score |-> score]}
               /\ attempts' = [attempts EXCEPT
                                 ![a] = [@ EXCEPT !.status = "scored", !.score = score]]
        BY <2>2 DEF CommitScore
      <3>2. PICK row : row = [attempts[a] EXCEPT !.status = "scored", !.score = score]
        OBVIOUS
      <3>3. row \in Attempt
        BY <1>1, <2>0, <3>2 DEF Attempt, Statuses
      <3>4. attempts' = [attempts EXCEPT ![a] = row]
        BY <3>1, <3>2
      <3>5. [attempt |-> a, score |-> score] \in FluencyReport
        BY <1>1 DEF FluencyReport
      <3>6. QED
        BY <2>0, <3>1, <3>3, <3>4, <3>5
    <2>3. CASE UNCHANGED <<attempts, reports>>
      BY <2>0, <2>3
    <2>4. QED
      BY <2>1, <2>2, <2>3 DEF CommitRun, CommitTests, TakeHint, Locate
  <1>5. /\ snaps' \in [Attempts -> SUBSET CodeSnapshot] /\ known' \in [Attempts -> Nat]
        /\ SnapsAreFinite'
    <2>0. /\ snaps \in [Attempts -> SUBSET CodeSnapshot] /\ known \in [Attempts -> Nat]
          /\ \A b \in Attempts : IsFiniteSet(snaps[b])
      BY DEF Typed, TypeOK, SnapsAreFinite
    <2>1. CASE CommitRun(w)
      <3>1. [version |-> NextVersion(snaps[a]), code |-> job[w].code] \in CodeSnapshot
        <4>1. NextVersion(snaps[a]) \in Nat
          BY <1>1, <2>0, FS_CardinalityType DEF NextVersion
        <4>2. QED
          BY <1>1, <4>1 DEF CodeSnapshot, Job
      <3>2. snaps' = [snaps EXCEPT ![a] =
                         @ \cup {[version |-> NextVersion(@), code |-> job[w].code]}]
        BY <2>1 DEF CommitRun
      <3>3. SnapsAreFinite'
        <4>1. \A S, x : IsFiniteSet(S) => IsFiniteSet(S \cup {x})
          BY FS_AddElement
        <4>2. QED
          BY <1>1, <2>0, <3>2, <4>1 DEF SnapsAreFinite
      <3>4. QED
        BY <1>1, <2>0, <2>1, <3>1, <3>2, <3>3 DEF CommitRun
    <2>2. CASE UNCHANGED <<snaps, known>>
      BY <2>0, <2>2 DEF SnapsAreFinite
    <2>3. QED
      BY <2>1, <2>2 DEF CommitTests, TakeHint, Locate, CommitSubmit, CommitScore, world
  <1>6. QED
    BY <1>2, <1>3, <1>4, <1>5, EndTyped

LEMMA ResumeTyped ==
    ASSUME Typed, NEW w \in Workers, Resume(w) \/ Fail(w)
    PROVE  Typed'
  <1>0. job[w] \in Job /\ today \in Days /\ rowLock \in [Attempts -> Workers \cup {None}]
    BY DEF Typed, TypeOK
  <1>1. CASE RefuseStep(w) \/ RefuseSubmit(w) \/ ScoreFails(w) \/ Fail(w)
    <2>1. /\ End(w) /\ UNCHANGED <<tables, today, editor, known>>
          /\ fails' = fails \/ fails' = fails + 1
      BY <1>1 DEF RefuseStep, RefuseSubmit, ScoreFails, Fail, world
    <2>2. SnapsAreFinite' /\ fails' \in Nat
      BY <2>1 DEF tables, Typed, TypeOK, SnapsAreFinite
    <2>3. QED
      BY <2>1, <2>2, EndTyped DEF tables, Typed, TypeOK
  <1>2. CASE CountHints(w)
    <2>1. job[w].attempt \in Attempts
      BY <1>2 DEF CountHints, Typed, JobIsComplete
    <2>2. Used(job[w].attempt, "DEBUG_HINT") \in Nat
      BY <2>1 DEF Used, Typed, TypeOK, Events, EventTypes
    <2>3. PICK j : j = [job[w] EXCEPT !.n = Used(job[w].attempt, "DEBUG_HINT")]
      OBVIOUS
    <2>3a. /\ Continue(w, "takeHint", j) \/ Continue(w, "locate", j)
           /\ pc[w] # "idle" /\ rowLock' = rowLock
      BY <1>2, <2>3 DEF CountHints
    <2>4. j \in Job /\ j.attempt = job[w].attempt
      BY <1>0, <2>2, <2>3 DEF Job
    <2>5. QED
      BY <1>0, <2>3a, <2>4, ContinueTyped
  <1>3. CASE CheckQuota(w)
    BY <1>0, <1>3, ContinueTyped DEF CheckQuota
  <1>4. CASE RunSuite(w)
    <2>1. job[w].attempt \in Attempts
      BY <1>4 DEF RunSuite, Typed, JobIsComplete
    <2>2. PICK code \in IF snaps[job[w].attempt] = {} THEN {0} ELSE LatestCode(job[w].attempt) :
             Continue(w, "tests", [job[w] EXCEPT !.judged = code])
      BY <1>4 DEF RunSuite
    <2>3. code \in Nat
      BY <2>1, <2>2 DEF LatestCode, Typed, TypeOK, CodeSnapshot
    <2>4. PICK j : j = [job[w] EXCEPT !.judged = code]
      OBVIOUS
    <2>5. j \in Job /\ j.attempt = job[w].attempt
      BY <1>0, <2>3, <2>4 DEF Job
    <2>6. QED
      BY <1>0, <1>4, <2>2, <2>4, <2>5, ContinueTyped DEF RunSuite
  <1>5. CASE EvaluateTests(w)
    <2>1. job[w].attempt \in Attempts
      BY <1>5 DEF EvaluateTests, Typed, JobIsComplete
    <2>2. PICK j : j = [job[w] EXCEPT !.n = Latest(job[w].attempt, "TESTS_SAVED"), !.at = today]
      OBVIOUS
    <2>2a. Latest(job[w].attempt, "TESTS_SAVED") \in Nat
      <3>1. log[job[w].attempt]["TESTS_SAVED"] \in Events
        BY <2>1 DEF Typed, TypeOK, EventTypes
      <3>2. QED
        BY <3>1 DEF Latest, Events
    <2>3. j \in Job /\ j.attempt = job[w].attempt
      BY <1>0, <2>2, <2>2a DEF Job
    <2>4. QED
      BY <1>0, <1>5, <2>2, <2>3, ContinueTyped DEF EvaluateTests
  <1>6. CASE MarkSubmitted(w)
    <2>1. rowLock' \in [Attempts -> Workers \cup {None}]
      BY <1>0, <1>6 DEF MarkSubmitted
    <2>2. QED
      BY <1>0, <1>6, <2>1, ContinueTyped DEF MarkSubmitted
  <1>7. QED
    BY <1>1, <1>2, <1>3, <1>4, <1>5, <1>6, CommitTyped DEF Resume

LEMMA WorldTyped ==
    ASSUME Typed,
           \/ \E a \in Attempts : Create(a) \/ Edit(a) \/ SaveSnapshot(a)
           \/ NextDay
           \/ UNCHANGED vars
    PROVE  Typed'
  <1>1. UNCHANGED <<log, reports, rowLock, pc, job, fails>>
    BY DEF Create, Edit, SaveSnapshot, NextDay, vars, tables, world
  <1>2. attempts' \in [Attempts -> Attempt]
    <2>0. attempts \in [Attempts -> Attempt]
      BY DEF Typed, TypeOK
    <2>1. CASE \E a \in Attempts : Create(a)
      BY <2>0, <2>1 DEF Create, Attempt, Statuses
    <2>2. CASE UNCHANGED attempts
      BY <2>0, <2>2
    <2>3. QED
      BY <2>1, <2>2 DEF Edit, SaveSnapshot, NextDay, vars, tables
  <1>3. /\ snaps' \in [Attempts -> SUBSET CodeSnapshot] /\ known' \in [Attempts -> Nat]
        /\ SnapsAreFinite'
    <2>0. /\ snaps \in [Attempts -> SUBSET CodeSnapshot] /\ known \in [Attempts -> Nat]
          /\ editor \in [Attempts -> Nat]
          /\ \A b \in Attempts : IsFiniteSet(snaps[b])
      BY DEF Typed, TypeOK, SnapsAreFinite
    <2>1. CASE \E a \in Attempts : SaveSnapshot(a)
      <3>1. PICK a \in Attempts : SaveSnapshot(a)
        BY <2>1
      <3>2. [version |-> known[a] + 1, code |-> editor[a]] \in CodeSnapshot
        BY <2>0 DEF CodeSnapshot
      <3>3. SnapsAreFinite'
        <4>1. \A S, x : IsFiniteSet(S) => IsFiniteSet(S \cup {x})
          BY FS_AddElement
        <4>2. QED
          BY <2>0, <3>1, <4>1 DEF SaveSnapshot, SnapsAreFinite
      <3>4. QED
        BY <2>0, <3>1, <3>2, <3>3 DEF SaveSnapshot
    <2>2. CASE UNCHANGED <<snaps, known>>
      BY <2>0, <2>2 DEF SnapsAreFinite
    <2>3. QED
      BY <2>1, <2>2 DEF Create, Edit, NextDay, vars, tables, world
  <1>4. editor' \in [Attempts -> Nat]
    <2>1. editor \in [Attempts -> Nat]
      BY DEF Typed, TypeOK
    <2>2. QED
      BY <2>1 DEF Create, Edit, SaveSnapshot, NextDay, vars, world
  <1>5. today' \in Days
    <2>1. CASE NextDay
      BY <2>1, Constants DEF NextDay, Typed, TypeOK, Days
    <2>2. CASE UNCHANGED today
      BY <2>2 DEF Typed, TypeOK
    <2>3. QED
      BY <2>1, <2>2 DEF Create, Edit, SaveSnapshot, vars, world
  <1>6. QED
    BY <1>1, <1>2, <1>3, <1>4, <1>5 DEF Typed, TypeOK, JobIsComplete

LEMMA NextTyped == Typed /\ [Next]_vars => Typed'
  BY RequestTyped, ResumeTyped, WorldTyped DEF Next

-----------------------------------------------------------------------------
(* What a step may be, seen from the workers                               *)

LEMMA StepKinds ==
    ASSUME [Next]_vars
    PROVE  \/ \E w \in Workers : End(w) /\ pc[w] # "idle"
           \/ \E w \in Workers, a \in Attempts :
                 \E to \in {"run", "save", "hint", "mark bug", "quota", "judge"} : Begin(w, a, to)
           \/ \E w \in Workers : CountHints(w)
           \/ \E w \in Workers : CheckQuota(w) \/ RunSuite(w) \/ EvaluateTests(w)
           \/ \E w \in Workers : MarkSubmitted(w)
           \/ UNCHANGED <<rowLock, pc, job>>
  <1>1. CASE \E w \in Workers, a \in Attempts : Request(w, a)
    BY <1>1, RequestBegins
  <1>2. CASE \E w \in Workers : Resume(w) \/ Fail(w)
    BY <1>2
    DEF Resume, CommitRun, CommitTests, TakeHint, Locate, RefuseStep, RefuseSubmit,
        CommitSubmit, CommitScore, ScoreFails, Fail
  <1>3. CASE \/ \E a \in Attempts : Create(a) \/ Edit(a) \/ SaveSnapshot(a)
             \/ NextDay \/ UNCHANGED vars
    BY <1>3 DEF Create, Edit, SaveSnapshot, NextDay, vars
  <1>4. QED
    BY <1>1, <1>2, <1>3 DEF Next

\* A step of worker w on its own request leaves the others where they are.
LEMMA ContinueFacts ==
    ASSUME Typed, NEW w \in Workers, NEW to, NEW j, Continue(w, to, j)
    PROVE  /\ pc'[w] = to /\ job'[w] = j
           /\ \A x \in Workers \ {w} : pc'[x] = pc[x] /\ job'[x] = job[x]
  BY DEF Typed, TypeOK, Continue

LEMMA BeginFacts ==
    ASSUME Typed, NEW w \in Workers, NEW a \in Attempts, NEW to, Begin(w, a, to)
    PROVE  /\ pc[w] = "idle" /\ pc'[w] = to /\ job'[w].attempt = a /\ job'[w].at = 0
           /\ \A x \in Workers \ {w} : pc'[x] = pc[x] /\ job'[x] = job[x]
           /\ rowLock' = rowLock
  BY DEF Typed, TypeOK, Begin, NoJob

LEMMA OnwardFacts ==
    ASSUME Typed, NEW w \in Workers,
           CountHints(w) \/ CheckQuota(w) \/ RunSuite(w) \/ EvaluateTests(w) \/ MarkSubmitted(w)
    PROVE  /\ pc[w] \in {"hint", "mark bug", "quota", "suite", "tests", "mark"}
           /\ job'[w].attempt = job[w].attempt
           /\ job'[w].at \in {job[w].at, today}
           /\ \A x \in Workers \ {w} : pc'[x] = pc[x] /\ job'[x] = job[x]
           /\ CountHints(w) => /\ pc'[w] \in {"takeHint", "locate"}
                               /\ pc[w] \in {"hint", "mark bug"}
                               /\ job'[w].n = Used(job[w].attempt, "DEBUG_HINT")
           /\ ~CountHints(w) => pc'[w] \in Past
           /\ CheckQuota(w) \/ CountHints(w) \/ pc[w] \in Past
  <1>0. job[w] \in Job /\ job \in [Workers -> Job] /\ pc \in [Workers -> Statements]
    BY DEF Typed, TypeOK
  <1>1. CASE CountHints(w)
    <2>1. PICK j : j = [job[w] EXCEPT !.n = Used(job[w].attempt, "DEBUG_HINT")]
      OBVIOUS
    <2>2. j.attempt = job[w].attempt /\ j.at = job[w].at /\ j.n = Used(job[w].attempt, "DEBUG_HINT")
      BY <1>0, <2>1 DEF Job
    <2>3. \/ pc[w] = "hint" /\ Continue(w, "takeHint", j)
          \/ pc[w] = "mark bug" /\ Continue(w, "locate", j)
      BY <1>1, <2>1 DEF CountHints
    <2>4. QED
      BY <1>1, <2>2, <2>3, ContinueFacts
  <1>2. CASE CheckQuota(w)
    BY <1>2, ContinueFacts DEF CheckQuota, CountHints, Past
  <1>3. CASE RunSuite(w)
    <2>1. PICK code : Continue(w, "tests", [job[w] EXCEPT !.judged = code])
      BY <1>3 DEF RunSuite
    <2>2. PICK j : j = [job[w] EXCEPT !.judged = code]
      OBVIOUS
    <2>3. j.attempt = job[w].attempt /\ j.at = job[w].at
      BY <1>0, <2>2 DEF Job
    <2>4. pc[w] = "suite" /\ ~CountHints(w)
      BY <1>3 DEF RunSuite, CountHints
    <2>5. Continue(w, "tests", j)
      BY <2>1, <2>2
    <2>6. /\ pc'[w] = "tests" /\ job'[w] = j
          /\ \A x \in Workers \ {w} : pc'[x] = pc[x] /\ job'[x] = job[x]
      BY <2>5, ContinueFacts
    <2>7. QED
      BY <2>3, <2>4, <2>6 DEF Past
  <1>4. CASE EvaluateTests(w)
    <2>1. PICK j : j = [job[w] EXCEPT !.n = Latest(job[w].attempt, "TESTS_SAVED"), !.at = today]
      OBVIOUS
    <2>2. j.attempt = job[w].attempt /\ j.at = today
      BY <1>0, <2>1 DEF Job
    <2>3. pc[w] = "tests" /\ ~CountHints(w) /\ Continue(w, "mark", j)
      BY <1>4, <2>1 DEF EvaluateTests, CountHints
    <2>4. QED
      BY <2>2, <2>3, ContinueFacts DEF Past
  <1>5. CASE MarkSubmitted(w)
    <2>1. pc[w] = "mark" /\ ~CountHints(w) /\ Continue(w, "questions", job[w])
      BY <1>5 DEF MarkSubmitted, CountHints
    <2>2. QED
      BY <2>1, ContinueFacts DEF Past
  <1>6. QED
    BY <1>1, <1>2, <1>3, <1>4, <1>5

-----------------------------------------------------------------------------
(* The parts of the invariant                                              *)

LEMMA NextLock == Typed /\ LockIsASubmits /\ [Next]_vars => LockIsASubmits'
  <1> SUFFICES ASSUME Typed, LockIsASubmits, [Next]_vars,
                      NEW a \in Attempts, rowLock'[a] # None
               PROVE  pc'[rowLock'[a]] = "questions" /\ job'[rowLock'[a]].attempt = a
    BY DEF LockIsASubmits
  <1>0. rowLock \in [Attempts -> Workers \cup {None}]
    BY DEF Typed, TypeOK
  <1>1. ASSUME NEW w \in Workers, End(w)
        PROVE  pc'[rowLock'[a]] = "questions" /\ job'[rowLock'[a]].attempt = a
    BY <1>0, <1>1, EndFacts DEF LockIsASubmits
  <1>2. ASSUME NEW w \in Workers, NEW b \in Attempts, NEW to, Begin(w, b, to)
        PROVE  pc'[rowLock'[a]] = "questions" /\ job'[rowLock'[a]].attempt = a
    BY <1>0, <1>2, BeginFacts DEF LockIsASubmits
  <1>3. ASSUME NEW w \in Workers,
               CountHints(w) \/ CheckQuota(w) \/ RunSuite(w) \/ EvaluateTests(w)
        PROVE  pc'[rowLock'[a]] = "questions" /\ job'[rowLock'[a]].attempt = a
    <2>1. rowLock' = rowLock
      BY <1>3 DEF CountHints, CheckQuota, RunSuite, EvaluateTests
    <2>2. pc[w] # "questions" /\ \A x \in Workers \ {w} : pc'[x] = pc[x] /\ job'[x] = job[x]
      BY <1>3, OnwardFacts
    <2>3. QED
      BY <1>0, <2>1, <2>2 DEF LockIsASubmits
  <1>4. ASSUME NEW w \in Workers, MarkSubmitted(w)
        PROVE  pc'[rowLock'[a]] = "questions" /\ job'[rowLock'[a]].attempt = a
    <2>1. pc[w] = "mark" /\ rowLock' = [rowLock EXCEPT ![job[w].attempt] = w]
      BY <1>4 DEF MarkSubmitted
    <2>2. pc'[w] = "questions"
      BY <1>4 DEF MarkSubmitted, Continue, Typed, TypeOK
    <2>3. /\ job'[w].attempt = job[w].attempt
          /\ \A x \in Workers \ {w} : pc'[x] = pc[x] /\ job'[x] = job[x]
      BY <1>4, OnwardFacts
    <2>4. CASE a = job[w].attempt
      BY <1>0, <2>1, <2>2, <2>3, <2>4
    <2>5. CASE a # job[w].attempt
      BY <1>0, <2>1, <2>3, <2>5 DEF LockIsASubmits
    <2>6. QED
      BY <2>4, <2>5
  <1>5. QED
    BY <1>1, <1>2, <1>3, <1>4, StepKinds DEF LockIsASubmits

\* The steps that write what an attempt's score rests on.
LEMMA RecordKinds ==
    ASSUME Typed, [Next]_vars
    PROVE  \/ \E a \in Attempts : Create(a)
           \/ \E w \in Workers : CommitSubmit(w) \/ CommitScore(w)
           \/ /\ attempts' = attempts /\ reports' = reports
              /\ \A a \in Attempts : Used(a, "EXPLAIN_BACK")' = Used(a, "EXPLAIN_BACK")
  <1>1. ASSUME NEW w \in Workers, CommitTests(w) \/ TakeHint(w) \/ Locate(w)
        PROVE  /\ attempts' = attempts /\ reports' = reports
               /\ \A a \in Attempts : Used(a, "EXPLAIN_BACK")' = Used(a, "EXPLAIN_BACK")
    <2>1. PICK type \in {"TESTS_SAVED", "DEBUG_HINT", "LOCATE"}, n \in Nat :
             AddEvent(job[w].attempt, type, n)
      <3>1. job[w] \in Job /\ job[w].attempt \in Attempts
        BY <1>1 DEF CommitTests, TakeHint, Locate, Typed, TypeOK, JobIsComplete
      <3>2. job[w].n \in Nat /\ Latest(job[w].attempt, "TESTS_SAVED") \in Nat
        BY <3>1 DEF Job, Latest, Typed, TypeOK, Events, EventTypes
      <3>3. CASE CommitTests(w)
        BY <3>2, <3>3 DEF CommitTests
      <3>4. CASE TakeHint(w)
        BY <3>2, <3>4 DEF TakeHint
      <3>5. CASE Locate(w)
        BY <3>2, <3>5 DEF Locate
      <3>6. QED
        BY <1>1, <3>3, <3>4, <3>5
    <2>2. job[w].attempt \in Attempts
      BY <1>1 DEF CommitTests, TakeHint, Locate, Typed, JobIsComplete
    <2>2a. type \in EventTypes /\ type # "EXPLAIN_BACK" /\ "EXPLAIN_BACK" \in EventTypes
      BY <2>1 DEF EventTypes
    <2>3. \A a \in Attempts : Used(a, "EXPLAIN_BACK")' = Used(a, "EXPLAIN_BACK")
      BY <2>1, <2>2, <2>2a, AddEventFacts
    <2>4. QED
      BY <1>1, <2>3 DEF CommitTests, TakeHint, Locate
  <1>2. ASSUME UNCHANGED <<attempts, reports, log>>
        PROVE  /\ attempts' = attempts /\ reports' = reports
               /\ \A a \in Attempts : Used(a, "EXPLAIN_BACK")' = Used(a, "EXPLAIN_BACK")
    BY <1>2 DEF Used
  <1>3. CASE \E w \in Workers, a \in Attempts : Request(w, a)
    <2>1. UNCHANGED tables
      BY <1>3, RequestBegins
    <2>2. QED
      BY <1>2, <2>1 DEF tables
  <1>4. CASE \E w \in Workers : Resume(w) \/ Fail(w)
    <2>1. PICK w \in Workers : Resume(w) \/ Fail(w)
      BY <1>4
    <2>2. CASE CommitRun(w)
      BY <1>2, <2>2 DEF CommitRun
    <2>3. CASE \/ CountHints(w) \/ RefuseStep(w) \/ CheckQuota(w) \/ RefuseSubmit(w)
               \/ RunSuite(w) \/ EvaluateTests(w) \/ MarkSubmitted(w) \/ ScoreFails(w) \/ Fail(w)
      <3>1. UNCHANGED tables
        BY <2>3 DEF CountHints, RefuseStep, CheckQuota, RefuseSubmit, RunSuite, EvaluateTests,
                    MarkSubmitted, ScoreFails, Fail, Continue
      <3>2. QED
        BY <1>2, <3>1 DEF tables
    <2>4. QED
      BY <1>1, <2>1, <2>2, <2>3 DEF Resume
  <1>5. CASE \/ \E a \in Attempts : Edit(a) \/ SaveSnapshot(a)
             \/ NextDay \/ UNCHANGED vars
    BY <1>2, <1>5 DEF Edit, SaveSnapshot, NextDay, vars, tables
  <1>6. QED
    BY <1>3, <1>4, <1>5 DEF Next

Own(a) == {r \in reports : r.attempt = a}

LEMMA NextScore == Typed /\ ScoreIsTheReports /\ [Next]_vars => ScoreIsTheReports'
  <1> SUFFICES ASSUME Typed, ScoreIsTheReports, [Next]_vars, NEW a \in Attempts
               PROVE  /\ Own(a)' = {} => attempts'[a].score = None /\ attempts'[a].status # "scored"
                      /\ Own(a)' # {} => Own(a)' = {[attempt |-> a, score |-> attempts'[a].score]}
                      /\ Used(a, "EXPLAIN_BACK")' = Cardinality(Own(a)')
    BY DEF ScoreIsTheReports, Own
  <1>1. /\ Own(a) = {} => attempts[a].score = None /\ attempts[a].status # "scored"
        /\ Own(a) # {} => Own(a) = {[attempt |-> a, score |-> attempts[a].score]}
        /\ Used(a, "EXPLAIN_BACK") = Cardinality(Own(a))
    BY DEF ScoreIsTheReports, Own
  <1>2. attempts \in [Attempts -> Attempt] /\ reports \subseteq FluencyReport
    BY DEF Typed, TypeOK
  <1>3. CASE \E b \in Attempts : Create(b)
    <2>1. PICK b \in Attempts : Create(b)
      BY <1>3
    <2>2. /\ Own(a)' = Own(a) /\ Used(a, "EXPLAIN_BACK")' = Used(a, "EXPLAIN_BACK")
          /\ attempts'[a].score = attempts[a].score
          /\ attempts'[a].status \in {attempts[a].status, "in_progress"}
      BY <1>2, <2>1 DEF Create, Own, Used, Attempt
    <2>3. QED
      BY <1>1, <2>2
  <1>4. CASE \E w \in Workers : CommitSubmit(w)
    <2>1. PICK w \in Workers : CommitSubmit(w)
      BY <1>4
    <2>2. job[w].attempt \in Attempts /\ job[w] \in Job
      BY <2>1 DEF CommitSubmit, Typed, TypeOK, JobIsComplete
    <2>3. Used(a, "EXPLAIN_BACK")' = Used(a, "EXPLAIN_BACK")
      BY <2>1, <2>2, AddEventFacts DEF CommitSubmit, EventTypes, Job
    <2>4. Own(a)' = Own(a)
      BY <2>1 DEF CommitSubmit, Own
    <2>5. /\ attempts'[a].score = attempts[a].score
          /\ attempts'[a].status \in {attempts[a].status, "submitted"}
      BY <1>2, <2>1, <2>2 DEF CommitSubmit, NewStatus, Attempt
    <2>6. QED
      BY <1>1, <2>3, <2>4, <2>5
  <1>5. CASE \E w \in Workers : CommitScore(w)
    <2>1. PICK w \in Workers : CommitScore(w)
      BY <1>5
    <2>2. job[w].attempt \in Attempts
      BY <2>1 DEF CommitScore, Typed, JobIsComplete
    <2>3. PICK score \in Scores, b \in Attempts :
             /\ b = job[w].attempt
             /\ reports' = reports \cup {[attempt |-> b, score |-> score]}
             /\ attempts' = [attempts EXCEPT
                               ![b] = [@ EXCEPT !.status = "scored", !.score = score]]
      BY <2>1, <2>2 DEF CommitScore
    <2>4. /\ AddEvent(b, "EXPLAIN_BACK", 0)
          /\ Own(b) = {}
      BY <2>1, <2>3 DEF CommitScore, HasReport, Own
    <2>5. CASE a = b
      <3>1. Own(a)' = {[attempt |-> a, score |-> score]}
        BY <2>3, <2>4, <2>5 DEF Own
      <3>2. attempts'[a].score = score
        BY <1>2, <2>3, <2>5 DEF Attempt
      <3>3. Used(a, "EXPLAIN_BACK")' = Used(a, "EXPLAIN_BACK") + 1
        BY <2>4, <2>5, AddEventFacts DEF EventTypes
      <3>4. Cardinality(Own(a)) = 0 /\ Cardinality(Own(a)') = 1
        BY <2>4, <2>5, <3>1, FS_EmptySet, FS_Singleton
      <3>5. Used(a, "EXPLAIN_BACK")' = Cardinality(Own(a)')
        BY <1>1, <3>3, <3>4
      <3>6. Own(a)' # {}
        BY <3>1
      <3>7. QED
        BY <3>1, <3>2, <3>5, <3>6
    <2>6. CASE a # b
      <3>1. Own(a)' = Own(a) /\ attempts'[a] = attempts[a]
        BY <1>2, <2>3, <2>6 DEF Own
      <3>2. Used(a, "EXPLAIN_BACK")' = Used(a, "EXPLAIN_BACK")
        BY <2>4, <2>6, AddEventFacts DEF EventTypes
      <3>3. QED
        BY <1>1, <3>1, <3>2
    <2>7. QED
      BY <2>5, <2>6
  <1>6. CASE /\ attempts' = attempts /\ reports' = reports
             /\ \A b \in Attempts : Used(b, "EXPLAIN_BACK")' = Used(b, "EXPLAIN_BACK")
    <2>1. Own(a)' = Own(a)
      BY <1>6 DEF Own
    <2>2. QED
      BY <1>1, <1>6, <2>1
  <1>7. QED
    BY <1>3, <1>4, <1>5, <1>6, RecordKinds

LEMMA TimeGoesOn ==
    ASSUME Typed, [Next]_vars
    PROVE  today' \in Nat /\ today <= today'
  <1>1. today \in Nat
    BY Constants DEF Typed, TypeOK
  <1>2. CASE NextDay
    BY <1>1, <1>2 DEF NextDay
  <1>3. CASE UNCHANGED today
    BY <1>1, <1>3
  <1>4. CASE \E w \in Workers, a \in Attempts : Request(w, a)
    BY <1>3, <1>4, RequestBegins DEF world
  <1>5. CASE \E w \in Workers : Resume(w) \/ Fail(w)
    <2>1. ASSUME NEW w \in Workers,
                 \/ CountHints(w) \/ CheckQuota(w) \/ RunSuite(w) \/ EvaluateTests(w)
                 \/ MarkSubmitted(w)
          PROVE  today' = today
      BY <2>1 DEF CountHints, CheckQuota, RunSuite, EvaluateTests, MarkSubmitted, Continue, world
    <2>2. ASSUME NEW w \in Workers,
                 \/ CommitRun(w) \/ CommitTests(w) \/ TakeHint(w) \/ Locate(w)
                 \/ CommitSubmit(w) \/ CommitScore(w)
          PROVE  today' = today
      BY <2>2 DEF CommitRun, CommitTests, TakeHint, Locate, CommitSubmit, CommitScore, world
    <2>3. ASSUME NEW w \in Workers,
                 RefuseStep(w) \/ RefuseSubmit(w) \/ ScoreFails(w) \/ Fail(w)
          PROVE  today' = today
      BY <2>3 DEF RefuseStep, RefuseSubmit, ScoreFails, Fail, world
    <2>4. QED
      BY <1>3, <1>5, <2>1, <2>2, <2>3 DEF Resume
  <1>6. CASE \/ \E a \in Attempts : Create(a) \/ Edit(a) \/ SaveSnapshot(a)
             \/ UNCHANGED vars
    BY <1>3, <1>6 DEF Create, Edit, SaveSnapshot, vars, world
  <1>7. QED
    BY <1>2, <1>4, <1>5, <1>6 DEF Next

\* Only a submit stamps an attempt.
LEMMA StampKinds ==
    ASSUME Typed, [Next]_vars, NEW a \in Attempts
    PROVE  \/ attempts'[a].submitted = attempts[a].submitted
           \/ \E w \in Workers : /\ CommitSubmit(w) /\ a = job[w].attempt
                                 /\ attempts'[a].submitted = job[w].at
  <1>0. attempts \in [Attempts -> Attempt]
    BY DEF Typed, TypeOK
  <1>1. CASE attempts' = attempts
    BY <1>1
  <1>2. CASE \E w \in Workers : CommitSubmit(w)
    <2>1. PICK w \in Workers : CommitSubmit(w)
      BY <1>2
    <2>2. PICK row : row = [attempts[job[w].attempt] EXCEPT
                              !.status = NewStatus(job[w].seen, attempts[job[w].attempt].status),
                              !.submitted = job[w].at]
      OBVIOUS
    <2>3. attempts' = [attempts EXCEPT ![job[w].attempt] = row]
      BY <2>1, <2>2 DEF CommitSubmit
    <2>4. a = job[w].attempt => row.submitted = job[w].at
      BY <1>0, <2>2 DEF Attempt
    <2>5. QED
      BY <1>0, <2>1, <2>3, <2>4
  <1>3. CASE \E w \in Workers : CommitScore(w)
    BY <1>0, <1>3 DEF CommitScore, Attempt
  <1>4. CASE \E b \in Attempts : Create(b)
    BY <1>0, <1>4 DEF Create, Attempt
  <1>5. QED
    BY <1>1, <1>2, <1>3, <1>4, RecordKinds

LEMMA NextStamps == Typed /\ StampsArePast /\ [Next]_vars => StampsArePast'
  <1> SUFFICES ASSUME Typed, StampsArePast, [Next]_vars
               PROVE  StampsArePast'
    OBVIOUS
  <1>0. /\ today \in Nat /\ attempts \in [Attempts -> Attempt] /\ job \in [Workers -> Job]
        /\ \A a \in Attempts : attempts[a].submitted \in Nat \cup {None}
        /\ \A w \in Workers : job[w].at \in Nat
    BY Constants DEF Typed, TypeOK, Attempt, Job
  <1>1. today' \in Nat /\ today <= today'
    BY TimeGoesOn
  <1>2. ASSUME NEW a \in Attempts, attempts'[a].submitted # None
        PROVE  attempts'[a].submitted <= today
    BY <1>2, StampKinds DEF StampsArePast
  <1>3. ASSUME NEW x \in Workers
        PROVE  job'[x].at <= today
    <2>1. job'[x].at \in {job[x].at, 0, today}
      <3>1. ASSUME NEW w \in Workers, End(w)
            PROVE  job'[x].at \in {job[x].at, 0}
        BY <3>1, EndFacts DEF NoJob
      <3>2. ASSUME NEW w \in Workers, NEW b \in Attempts, NEW to, Begin(w, b, to)
            PROVE  job'[x].at \in {job[x].at, 0}
        BY <3>2, BeginFacts
      <3>3. ASSUME NEW w \in Workers,
                   \/ CountHints(w) \/ CheckQuota(w) \/ RunSuite(w) \/ EvaluateTests(w)
                   \/ MarkSubmitted(w)
            PROVE  job'[x].at \in {job[x].at, today}
        BY <3>3, OnwardFacts
      <3>4. QED
        BY <3>1, <3>2, <3>3, StepKinds
    <2>2. job[x].at <= today
      BY DEF StampsArePast
    <2>3. QED
      BY <1>0, <2>1, <2>2
  <1>4. ASSUME NEW a \in Attempts, attempts'[a].submitted # None
        PROVE  attempts'[a].submitted <= today'
    <2>1. attempts'[a].submitted \in Nat /\ attempts'[a].submitted <= today
      BY <1>2, <1>4, NextTyped, Constants DEF Typed, TypeOK, Attempt
    <2>2. QED
      BY <1>0, <1>1, <2>1
  <1>5. ASSUME NEW x \in Workers
        PROVE  job'[x].at <= today'
    <2>1. job'[x].at \in Nat
      BY NextTyped, Constants DEF Typed, TypeOK, Job
    <2>2. QED
      BY <1>0, <1>1, <1>3, <2>1
  <1>6. QED
    BY <1>4, <1>5 DEF StampsArePast

LEMMA TakingIsFinite ==
    \A a \in Attempts : /\ IsFiniteSet(TakingHint(a))
                        /\ Cardinality(TakingHint(a)) \in Nat
                        /\ Cardinality(TakingHint(a)) <= Cardinality(Workers)
  <1>1. ASSUME NEW a \in Attempts
        PROVE  TakingHint(a) \in SUBSET Workers
    BY DEF TakingHint
  <1>2. QED
    BY <1>1, Constants, FS_Subset, FS_CardinalityType

\* The steps that use up a hint are TakeHint's.
LEMMA HintKinds ==
    ASSUME Typed, [Next]_vars
    PROVE  \/ \E w \in Workers : TakeHint(w)
           \/ \A a \in Attempts : Used(a, "DEBUG_HINT")' = Used(a, "DEBUG_HINT")
  <1>1. ASSUME NEW w \in Workers,
               CommitTests(w) \/ Locate(w) \/ CommitSubmit(w) \/ CommitScore(w)
        PROVE  \A a \in Attempts : Used(a, "DEBUG_HINT")' = Used(a, "DEBUG_HINT")
    <2>1. PICK type \in {"TESTS_SAVED", "LOCATE", "SUBMIT", "EXPLAIN_BACK"}, n \in Nat :
             AddEvent(job[w].attempt, type, n)
      <3>1. job[w] \in Job /\ job[w].attempt \in Attempts
        BY <1>1 DEF CommitTests, Locate, CommitSubmit, CommitScore, Typed, TypeOK, JobIsComplete
      <3>2. job[w].n \in Nat /\ Latest(job[w].attempt, "TESTS_SAVED") \in Nat
        BY <3>1 DEF Job, Latest, Typed, TypeOK, Events, EventTypes
      <3>3. CASE CommitTests(w)
        BY <3>2, <3>3 DEF CommitTests
      <3>4. CASE Locate(w)
        BY <3>2, <3>4 DEF Locate
      <3>5. CASE CommitSubmit(w)
        <4>1. AddEvent(job[w].attempt, "SUBMIT", job[w].n)
          BY <3>5 DEF CommitSubmit
        <4>2. QED
          BY <3>2, <4>1
      <3>6. CASE CommitScore(w)
        <4>1. AddEvent(job[w].attempt, "EXPLAIN_BACK", 0)
          BY <3>6 DEF CommitScore
        <4>2. QED
          BY <4>1
      <3>7. QED
        BY <1>1, <3>3, <3>4, <3>5, <3>6
    <2>2. job[w].attempt \in Attempts
      BY <1>1 DEF CommitTests, Locate, CommitSubmit, CommitScore, Typed, JobIsComplete
    <2>3. type \in EventTypes /\ type # "DEBUG_HINT" /\ "DEBUG_HINT" \in EventTypes
      BY <2>1 DEF EventTypes
    <2>4. QED
      BY <2>1, <2>2, <2>3, AddEventFacts
  <1>2. ASSUME UNCHANGED log
        PROVE  \A a \in Attempts : Used(a, "DEBUG_HINT")' = Used(a, "DEBUG_HINT")
    BY <1>2 DEF Used
  <1>3. CASE \E w \in Workers, a \in Attempts : Request(w, a)
    BY <1>2, <1>3, RequestBegins DEF tables
  <1>4. CASE \E w \in Workers : Resume(w) \/ Fail(w)
    <2>1. ASSUME NEW w \in Workers,
                 \/ CountHints(w) \/ CheckQuota(w) \/ RunSuite(w) \/ EvaluateTests(w)
                 \/ MarkSubmitted(w)
          PROVE  log' = log
      BY <2>1 DEF CountHints, CheckQuota, RunSuite, EvaluateTests, MarkSubmitted, Continue, tables
    <2>2. ASSUME NEW w \in Workers,
                 \/ CommitRun(w) \/ RefuseStep(w) \/ RefuseSubmit(w) \/ ScoreFails(w) \/ Fail(w)
          PROVE  log' = log
      BY <2>2 DEF CommitRun, RefuseStep, RefuseSubmit, ScoreFails, Fail, tables
    <2>3. QED
      BY <1>1, <1>2, <1>4, <2>1, <2>2 DEF Resume
  <1>5. CASE \/ \E a \in Attempts : Create(a) \/ Edit(a) \/ SaveSnapshot(a)
             \/ NextDay \/ UNCHANGED vars
    BY <1>2, <1>5 DEF Create, Edit, SaveSnapshot, NextDay, vars, tables
  <1>6. QED
    BY <1>3, <1>4, <1>5 DEF Next

\* Only counting the hints lets another request take one.
LEMMA TakingShrinks ==
    ASSUME Typed, [Next]_vars, NEW a \in Attempts, NEW x \in Workers,
           TakesHint(x, a)', ~TakesHint(x, a)
    PROVE  Used(a, "DEBUG_HINT") < MAX_HINTS /\ ~\E w \in Workers : TakeHint(w)
  <1>0. MAX_HINTS' = MAX_HINTS
    BY DEF MAX_HINTS
  <1>1. ASSUME pc'[x] = pc[x], job'[x] = job[x]
        PROVE  FALSE
    BY <1>0, <1>1 DEF TakesHint
  <1>2. ASSUME NEW w \in Workers, End(w)
        PROVE  FALSE
    <2>1. pc'[w] # "takeHint"
      BY <1>2, EndFacts
    <2>2. x # w
      BY <2>1 DEF TakesHint
    <2>3. QED
      BY <1>1, <1>2, <2>2, EndFacts
  <1>3. ASSUME NEW w \in Workers, NEW b \in Attempts,
               NEW to \in {"run", "save", "hint", "mark bug", "quota", "judge"}, Begin(w, b, to)
        PROVE  FALSE
    <2>1. pc'[w] # "takeHint"
      BY <1>3, BeginFacts
    <2>2. x # w
      BY <2>1 DEF TakesHint
    <2>3. QED
      BY <1>1, <1>3, <2>2, BeginFacts
  <1>4. ASSUME NEW w \in Workers,
               CheckQuota(w) \/ RunSuite(w) \/ EvaluateTests(w) \/ MarkSubmitted(w)
        PROVE  FALSE
    <2>1. ~CountHints(w)
      BY <1>4 DEF CheckQuota, RunSuite, EvaluateTests, MarkSubmitted, CountHints
    <2>2. pc'[w] # "takeHint" /\ \A y \in Workers \ {w} : pc'[y] = pc[y] /\ job'[y] = job[y]
      BY <1>4, <2>1, OnwardFacts DEF Past
    <2>3. x # w
      BY <2>2 DEF TakesHint
    <2>4. QED
      BY <1>1, <2>2, <2>3
  <1>5. ASSUME UNCHANGED <<rowLock, pc, job>>
        PROVE  FALSE
    BY <1>1, <1>5
  <1>6. PICK w \in Workers : CountHints(w)
    BY <1>2, <1>3, <1>4, <1>5, StepKinds
  <1>7. x = w
    BY <1>1, <1>6, OnwardFacts
  <1>8. Used(a, "DEBUG_HINT") < MAX_HINTS
    BY <1>0, <1>6, <1>7, OnwardFacts DEF TakesHint
  <1>9. ~\E y \in Workers : TakeHint(y)
    BY <1>2 DEF TakeHint
  <1>10. QED
    BY <1>8, <1>9

LEMMA NextHints == Typed /\ HintsAreCounted /\ [Next]_vars => HintsAreCounted'
  <1> SUFFICES ASSUME Typed, HintsAreCounted, [Next]_vars, NEW a \in Attempts
               PROVE  Used(a, "DEBUG_HINT")' + Cardinality(TakingHint(a)')
                         < MAX_HINTS + Cardinality(Workers)
    BY DEF HintsAreCounted, MAX_HINTS
  <1>1. /\ Used(a, "DEBUG_HINT") \in Nat /\ Used(a, "DEBUG_HINT")' \in Nat
        /\ Cardinality(Workers) \in Nat
    <2>1. /\ log[a]["DEBUG_HINT"] \in Events
          /\ log'[a]["DEBUG_HINT"] \in Events
      BY NextTyped DEF Typed, TypeOK, EventTypes
    <2>2. Cardinality(Workers) \in Nat
      BY Constants, FS_CardinalityType
    <2>3. QED
      BY <2>1, <2>2 DEF Used, Events
  <1>2. /\ IsFiniteSet(TakingHint(a)) /\ Cardinality(TakingHint(a)) \in Nat
        /\ Cardinality(TakingHint(a)') \in Nat
        /\ Cardinality(TakingHint(a)') <= Cardinality(Workers)
    <2>1. TakingHint(a) \in SUBSET Workers /\ TakingHint(a)' \in SUBSET Workers
      BY DEF TakingHint
    <2>2. QED
      BY <2>1, Constants, FS_Subset, FS_CardinalityType
  <1>3. Used(a, "DEBUG_HINT") + Cardinality(TakingHint(a)) < MAX_HINTS + Cardinality(Workers)
    BY DEF HintsAreCounted
  <1>4. CASE \E x \in Workers : TakesHint(x, a)' /\ ~TakesHint(x, a)
    <2>1. /\ Used(a, "DEBUG_HINT") < MAX_HINTS
          /\ Used(a, "DEBUG_HINT")' = Used(a, "DEBUG_HINT")
      BY <1>4, TakingShrinks, HintKinds
    <2>2. QED
      BY <1>1, <1>2, <2>1 DEF MAX_HINTS
  <1>5. CASE \A x \in Workers : TakesHint(x, a)' => TakesHint(x, a)
    <2>1. TakingHint(a)' \in SUBSET TakingHint(a)
      BY <1>5 DEF TakingHint
    <2>2. Cardinality(TakingHint(a)') <= Cardinality(TakingHint(a))
      BY <1>2, <2>1, FS_Subset
    <2>3. CASE Used(a, "DEBUG_HINT")' = Used(a, "DEBUG_HINT")
      BY <1>1, <1>2, <1>3, <2>2, <2>3 DEF MAX_HINTS
    <2>4. CASE Used(a, "DEBUG_HINT")' # Used(a, "DEBUG_HINT")
      <3>1. PICK w \in Workers : TakeHint(w)
        BY <2>4, HintKinds
      <3>2. job[w].attempt \in Attempts /\ job[w].n \in Nat
        BY <3>1 DEF TakeHint, Typed, TypeOK, JobIsComplete, Job
      <3>3. job[w].attempt = a /\ Used(a, "DEBUG_HINT")' = Used(a, "DEBUG_HINT") + 1
        <4>1. AddEvent(job[w].attempt, "DEBUG_HINT", job[w].n + 1)
          BY <3>1 DEF TakeHint
        <4>2. QED
          BY <2>4, <3>2, <4>1, AddEventFacts DEF EventTypes
      <3>4. w \in TakingHint(a) /\ w \notin TakingHint(a)'
        <4>1. pc'[w] = "idle"
          BY <3>1, EndFacts DEF TakeHint
        <4>2. QED
          BY <3>1, <3>3, <4>1 DEF TakingHint, TakesHint, TakeHint, HintLeft
      <3>5. TakingHint(a)' \in SUBSET (TakingHint(a) \ {w})
        BY <2>1, <3>4
      <3>6. Cardinality(TakingHint(a)') <= Cardinality(TakingHint(a)) - 1
        BY <1>2, <3>4, <3>5, FS_Subset, FS_RemoveElement
      <3>7. QED
        BY <1>1, <1>2, <1>3, <3>3, <3>6 DEF MAX_HINTS
    <2>5. QED
      BY <2>3, <2>4
  <1>6. QED
    BY <1>4, <1>5

-----------------------------------------------------------------------------
(* The monthly limit                                                       *)

LEMMA ImageIsSmall ==
    ASSUME NEW S, NEW T, NEW f, IsFiniteSet(S), \A t \in T : \E s \in S : f[s] = t
    PROVE  IsFiniteSet(T) /\ Cardinality(T) \in Nat /\ Cardinality(T) <= Cardinality(S)
  <1> DEFINE W == {s \in S : f[s] \in T}
             g == [s \in W |-> f[s]]
  <1>1. g \in Surjection(W, T)
    BY DEF Surjection
  <1>2. IsFiniteSet(W) /\ Cardinality(W) <= Cardinality(S)
    BY FS_Subset
  <1> HIDE DEF W, g
  <1>3. IsFiniteSet(T) /\ Cardinality(T) <= Cardinality(W)
    BY <1>1, <1>2, FS_Surjection
  <1>4. Cardinality(T) \in Nat /\ Cardinality(W) \in Nat /\ Cardinality(S) \in Nat
    BY <1>2, <1>3, FS_CardinalityType
  <1>5. QED
    BY <1>2, <1>3, <1>4

Through(u) == SubmittedThisMonth(u) \cup Allowed(u)

\* Attempts come to count only by CheckQuota: a submission that is committed was
\* allowed before, and no month begins with attempts of an earlier one.
LEMMA OnlyTheQuotaLetsThrough ==
    ASSUME Typed, StampsArePast, [Next]_vars, NEW u \in Users, NEW b \in Through(u)'
    PROVE  b \in Through(u) \/ \E w \in Workers : CheckQuota(w) /\ job[w].attempt = b
  <1>1. CASE b \in Allowed(u)'
    <2>1. PICK x \in Workers : pc'[x] \in Past /\ job'[x].attempt = b /\ b \in Attempts /\ Owner[b] = u
      BY <1>1 DEF Allowed, Past
    <2>2. CASE pc[x] \in Past /\ job[x].attempt = b
      BY <2>1, <2>2 DEF Through, Allowed
    <2>3. CASE ~(pc[x] \in Past /\ job[x].attempt = b)
      <3>1. ~(pc'[x] = pc[x] /\ job'[x] = job[x])
        BY <2>1, <2>3
      <3>2. ~\E w \in Workers : End(w)
        BY <2>1, <3>1, EndFacts DEF Past
      <3>3. ~\E w \in Workers, a \in Attempts :
                \E to \in {"run", "save", "hint", "mark bug", "quota", "judge"} : Begin(w, a, to)
        BY <2>1, <3>1, BeginFacts DEF Past
      <3>4. ~UNCHANGED <<rowLock, pc, job>>
        BY <3>1
      <3>5. ~\E w \in Workers : CountHints(w)
        BY <2>1, <3>1, OnwardFacts DEF Past
      <3>6. PICK w \in Workers :
               CheckQuota(w) \/ RunSuite(w) \/ EvaluateTests(w) \/ MarkSubmitted(w)
        BY <3>2, <3>3, <3>4, <3>5, StepKinds
      <3>7. x = w /\ job'[w].attempt = job[w].attempt
        BY <3>1, <3>6, OnwardFacts
      <3>8. CheckQuota(w) \/ pc[w] \in Past
        BY <3>5, <3>6, OnwardFacts
      <3>9. QED
        BY <2>1, <2>3, <3>7, <3>8
    <2>4. QED
      BY <2>2, <2>3
  <1>2. CASE b \in SubmittedThisMonth(u)'
    <2>1. /\ b \in Attempts /\ Owner[b] = u /\ attempts'[b].submitted # None
          /\ Month[attempts'[b].submitted] = Month[today']
      BY <1>2 DEF SubmittedThisMonth
    <2>2. CASE \E w \in Workers : CommitSubmit(w) /\ b = job[w].attempt
      BY <2>1, <2>2 DEF Through, Allowed, CommitSubmit, Past
    <2>3. CASE attempts'[b].submitted = attempts[b].submitted
      <3>1. attempts[b].submitted \in Days /\ today \in Days /\ today' \in Days
        BY <2>1, <2>3, NextTyped DEF Typed, TypeOK, Attempt
      <3>2. attempts[b].submitted <= today /\ today <= today'
        BY <2>1, <2>3, TimeGoesOn DEF StampsArePast
      <3>3. /\ Month[attempts[b].submitted] <= Month[today] /\ Month[today] <= Month[today']
            /\ Month[attempts[b].submitted] \in Nat /\ Month[today] \in Nat
        BY <3>1, <3>2, MonthsFollow
      <3>4. Month[attempts[b].submitted] = Month[today]
        BY <2>1, <2>3, <3>3
      <3>5. QED
        BY <2>1, <2>3, <3>4 DEF Through, SubmittedThisMonth
    <2>4. QED
      BY <2>1, <2>2, <2>3, StampKinds
  <1>3. QED
    BY <1>1, <1>2 DEF Through

LEMMA NextSubmissions ==
    Typed /\ StampsArePast /\ SubmissionsAreCounted /\ [Next]_vars => SubmissionsAreCounted'
  <1> SUFFICES ASSUME Typed, StampsArePast, SubmissionsAreCounted, [Next]_vars, NEW u \in Free
               PROVE  Cardinality(Through(u)') < Limit + Cardinality(Workers)
    BY DEF SubmissionsAreCounted, Through
  <1>0. u \in Users
    BY ConstantsAssumption
  <1>1. Cardinality(Workers) \in Nat /\ Limit \in Nat
    BY Constants, FS_CardinalityType
  <1>2. /\ IsFiniteSet(Through(u)) /\ Cardinality(Through(u)) \in Nat
        /\ Cardinality(Through(u)) < Limit + Cardinality(Workers)
    <2>1. Through(u) \in SUBSET Attempts
      BY DEF Through, SubmittedThisMonth, Allowed
    <2>2. QED
      BY <2>1, Constants, FS_Subset, FS_CardinalityType DEF SubmissionsAreCounted, Through
  <1>3. CASE Through(u)' \in SUBSET Through(u)
    <2>1. Cardinality(Through(u)') <= Cardinality(Through(u)) /\ IsFiniteSet(Through(u)')
      BY <1>2, <1>3, FS_Subset
    <2>2. Cardinality(Through(u)') \in Nat
      BY <2>1, FS_CardinalityType
    <2>3. QED
      BY <1>1, <1>2, <2>1, <2>2
  <1>4. CASE ~(Through(u)' \in SUBSET Through(u))
    <2>1. PICK b \in Through(u)', w \in Workers : CheckQuota(w) /\ job[w].attempt = b
      BY <1>0, <1>4, OnlyTheQuotaLetsThrough
    <2>2. b \in Attempts /\ Owner[b] = u
      BY <2>1 DEF Through, SubmittedThisMonth, Allowed
    <2>3. Cardinality(SubmittedThisMonth(u) \ {b}) < Limit
      BY <2>1, <2>2 DEF CheckQuota, WithinLimit
    <2>4. SubmittedThisMonth(u)' = SubmittedThisMonth(u)
      BY <2>1 DEF CheckQuota, Continue, tables, world, SubmittedThisMonth
    <2>5. b \in Allowed(u)'
      <3>1. pc'[w] \in Past /\ job'[w].attempt = b
        <4>1. ~CountHints(w)
          BY <2>1 DEF CheckQuota, CountHints
        <4>2. QED
          BY <2>1, <4>1, OnwardFacts
      <3>2. QED
        BY <2>2, <3>1 DEF Allowed, Past
    <2>6. Through(u)' = (SubmittedThisMonth(u) \ {b}) \cup Allowed(u)'
      BY <2>4, <2>5 DEF Through
    <2>7. /\ IsFiniteSet(Allowed(u)') /\ Cardinality(Allowed(u)') \in Nat
          /\ Cardinality(Allowed(u)') <= Cardinality(Workers)
      <3>1. PICK f : f = [x \in Workers |-> job'[x].attempt]
        OBVIOUS
      <3>2. \A t \in Allowed(u)' : \E x \in Workers : f[x] = t
        BY <3>1 DEF Allowed
      <3>3. QED
        BY <3>2, Constants, ImageIsSmall
    <2>8. /\ IsFiniteSet(SubmittedThisMonth(u) \ {b})
          /\ Cardinality(SubmittedThisMonth(u) \ {b}) \in Nat
      <3>1. SubmittedThisMonth(u) \ {b} \in SUBSET Attempts
        BY DEF SubmittedThisMonth
      <3>2. QED
        BY <3>1, Constants, FS_Subset, FS_CardinalityType
    <2>9. \A S, T : IsFiniteSet(S) /\ IsFiniteSet(T) =>
             Cardinality(S \cup T) <= Cardinality(S) + Cardinality(T)
      <3>1. SUFFICES ASSUME NEW S, NEW T, IsFiniteSet(S), IsFiniteSet(T)
                     PROVE  Cardinality(S \cup T) <= Cardinality(S) + Cardinality(T)
        OBVIOUS
      <3>2. /\ Cardinality(S \cup T) = Cardinality(S) + Cardinality(T) - Cardinality(S \cap T)
            /\ IsFiniteSet(S \cap T)
        BY <3>1, FS_Union, FS_Intersection
      <3>3. Cardinality(S) \in Nat /\ Cardinality(T) \in Nat /\ Cardinality(S \cap T) \in Nat
        BY <3>1, <3>2, FS_CardinalityType
      <3>4. QED
        BY <3>2, <3>3
    <2>10. /\ Cardinality(Through(u)')
                <= Cardinality(SubmittedThisMonth(u) \ {b}) + Cardinality(Allowed(u)')
           /\ Cardinality(Through(u)') \in Nat
      BY <2>6, <2>7, <2>8, <2>9, FS_Union, FS_CardinalityType
    <2>11. QED
      BY <1>1, <2>3, <2>7, <2>8, <2>10
  <1>5. QED
    BY <1>3, <1>4

-----------------------------------------------------------------------------
(* Theorems                                                                *)

LEMMA InitIInv == Init => IInv
  <1> SUFFICES ASSUME Init PROVE IInv
    OBVIOUS
  <1>1. TypeOK /\ JobIsComplete
    BY Constants DEF Init, TypeOK, JobIsComplete, Statements
  <1>2. SnapsAreFinite
    BY FS_EmptySet DEF Init, SnapsAreFinite
  <1>3. LockIsASubmits
    BY DEF Init, LockIsASubmits
  <1>4. ASSUME NEW a \in Attempts, NEW type \in EventTypes
        PROVE  Used(a, type) = 0
    BY DEF Init, Used, NoEvents
  <1>5. ScoreIsTheReports
    <2>1. ASSUME NEW a \in Attempts
          PROVE  /\ Own(a) = {} /\ attempts[a].score = None /\ attempts[a].status # "scored"
                 /\ Used(a, "EXPLAIN_BACK") = Cardinality(Own(a))
      <3>1. Own(a) = {} /\ attempts[a].score = None /\ attempts[a].status # "scored"
        BY DEF Init, Own, NoAttempt
      <3>2. Used(a, "EXPLAIN_BACK") = 0
        BY <1>4 DEF EventTypes
      <3>3. QED
        BY <3>1, <3>2, FS_EmptySet
    <2>2. QED
      BY <2>1 DEF ScoreIsTheReports, Own
  <1>6. StampsArePast
    BY DEF Init, StampsArePast, NoAttempt, NoJob
  <1>7. Cardinality(Workers) \in Nat /\ Limit \in Nat \ {0}
    BY Constants, FS_CardinalityType
  <1>8. HintsAreCounted
    <2>1. ASSUME NEW a \in Attempts
          PROVE  Used(a, "DEBUG_HINT") = 0 /\ Cardinality(TakingHint(a)) = 0
      <3>1. TakingHint(a) = {}
        BY DEF Init, TakingHint, TakesHint
      <3>2. QED
        BY <1>4, <3>1, FS_EmptySet DEF EventTypes
    <2>2. QED
      BY <1>7, <2>1 DEF HintsAreCounted, MAX_HINTS
  <1>9. SubmissionsAreCounted
    <2>1. ASSUME NEW u \in Free
          PROVE  Cardinality(Through(u)) = 0
      <3>1. Through(u) = {}
        BY DEF Init, Through, SubmittedThisMonth, Allowed, NoAttempt, Past
      <3>2. QED
        BY <3>1, FS_EmptySet
    <2>2. QED
      BY <1>7, <2>1 DEF SubmissionsAreCounted, Through
  <1>10. QED
    BY <1>1, <1>2, <1>3, <1>5, <1>6, <1>8, <1>9 DEF IInv, Typed

LEMMA NextIInv == IInv /\ [Next]_vars => IInv'
  BY NextTyped, NextLock, NextScore, NextStamps, NextHints, NextSubmissions DEF IInv

LEMMA Invariance == Spec => []IInv
  BY InitIInv, NextIInv, PTL DEF Spec

\* Every variable keeps its shape in every reachable state.
THEOREM TypeCorrect == Spec => []TypeOK
  <1>1. IInv => TypeOK
    BY DEF IInv, Typed
  <1>2. QED
    BY <1>1, Invariance, PTL

\* However many explain-backs and submits of an attempt overlap, its score is that of
\* its one report and stands on the one explain-back in the log.
THEOREM ScoreStandsOnOneReport == Spec => []ScoreIsTheReports
  <1>1. IInv => ScoreIsTheReports
    BY DEF IInv
  <1>2. QED
    BY <1>1, Invariance, PTL

\* A report and the score beside it never change once they are written.
THEOREM ReportStays == Spec => ReportIsFinal
  <1>1. ASSUME IInv, [Next]_vars
        PROVE  [\A r \in reports : r \in reports' /\ attempts'[r.attempt].score = r.score]_vars
    <2>1. ASSUME NEW r \in reports
          PROVE  r \in reports' /\ attempts'[r.attempt].score = r.score
      <3>0. /\ attempts \in [Attempts -> Attempt] /\ r.attempt \in Attempts /\ Typed
        BY <1>1 DEF IInv, Typed, TypeOK, FluencyReport
      <3>1. attempts[r.attempt].score = r.score
        <4>1. r \in Own(r.attempt)
          BY DEF Own
        <4>2. Own(r.attempt) = {[attempt |-> r.attempt, score |-> attempts[r.attempt].score]}
          BY <1>1, <3>0, <4>1 DEF IInv, ScoreIsTheReports, Own
        <4>3. r = [attempt |-> r.attempt, score |-> attempts[r.attempt].score]
          BY <4>1, <4>2
        <4>4. QED
          BY <4>3
      <3>2. CASE \E w \in Workers : CommitScore(w)
        <4>1. PICK w \in Workers : CommitScore(w)
          BY <3>2
        <4>2. r.attempt # job[w].attempt
          BY <4>1 DEF CommitScore, HasReport
        <4>3. reports \subseteq reports' /\ attempts'[r.attempt] = attempts[r.attempt]
          BY <3>0, <4>1, <4>2 DEF CommitScore
        <4>4. QED
          BY <3>1, <4>3
      <3>3. CASE \E w \in Workers : CommitSubmit(w)
        <4>1. reports' = reports /\ attempts'[r.attempt].score = attempts[r.attempt].score
          BY <3>0, <3>3 DEF CommitSubmit, Attempt
        <4>2. QED
          BY <3>1, <4>1
      <3>4. CASE \E a \in Attempts : Create(a)
        <4>1. reports' = reports /\ attempts'[r.attempt].score = attempts[r.attempt].score
          BY <3>0, <3>4 DEF Create, Attempt
        <4>2. QED
          BY <3>1, <4>1
      <3>5. QED
        BY <1>1, <3>0, <3>1, <3>2, <3>3, <3>4, RecordKinds
    <2>2. QED
      BY <2>1
  <1>2. QED
    BY <1>1, Invariance, PTL DEF Spec, ReportIsFinal

\* A check that reads and a commit that comes later let no more through than one
\* hint per further request in flight.
THEOREM HintOverrun == Spec => []HintOverrunIsBounded
  <1>1. IInv => HintOverrunIsBounded
    <2>1. SUFFICES ASSUME IInv, NEW a \in Attempts
                   PROVE  Used(a, "DEBUG_HINT") < MAX_HINTS + Cardinality(Workers)
      BY DEF HintOverrunIsBounded
    <2>2. log[a]["DEBUG_HINT"] \in Events
      BY <2>1 DEF IInv, Typed, TypeOK, EventTypes
    <2>3. Used(a, "DEBUG_HINT") \in Nat
      BY <2>2 DEF Used, Events
    <2>4. Cardinality(TakingHint(a)) \in Nat
      BY TakingIsFinite
    <2>5. Cardinality(Workers) \in Nat
      BY Constants, FS_CardinalityType
    <2>6. Used(a, "DEBUG_HINT") + Cardinality(TakingHint(a)) < MAX_HINTS + Cardinality(Workers)
      BY <2>1 DEF IInv, HintsAreCounted
    <2>7. QED
      BY <2>3, <2>4, <2>5, <2>6 DEF MAX_HINTS
  <1>2. QED
    BY <1>1, Invariance, PTL

\* A free student's submissions of a month exceed the limit by fewer than the
\* requests that can be in flight, whatever the attempts, months and answers.
THEOREM MonthlyOverrun == Spec => []OverrunIsBounded
  <1>1. IInv => OverrunIsBounded
    <2>1. SUFFICES ASSUME IInv, NEW u \in Free
                   PROVE  Cardinality(SubmittedThisMonth(u)) < Limit + Cardinality(Workers)
      BY DEF OverrunIsBounded
    <2>2. Through(u) \in SUBSET Attempts /\ SubmittedThisMonth(u) \in SUBSET Through(u)
      BY DEF Through, SubmittedThisMonth, Allowed
    <2>3. /\ IsFiniteSet(Through(u)) /\ Cardinality(Through(u)) \in Nat
          /\ Cardinality(Workers) \in Nat /\ Limit \in Nat
      BY <2>2, Constants, FS_Subset, FS_CardinalityType
    <2>4. /\ Cardinality(SubmittedThisMonth(u)) <= Cardinality(Through(u))
          /\ Cardinality(SubmittedThisMonth(u)) \in Nat
      BY <2>2, <2>3, FS_Subset, FS_CardinalityType
    <2>5. Cardinality(Through(u)) < Limit + Cardinality(Workers)
      BY <2>1 DEF IInv, SubmissionsAreCounted, Through
    <2>6. QED
      BY <2>3, <2>4, <2>5
  <1>2. QED
    BY <1>1, Invariance, PTL

-----------------------------------------------------------------------------
(* The code that is judged.  The invariant beside IInv: the client's        *)
(* counter and the server's count of rows give the same numbers, and the    *)
(* numbers follow the codes; while a run or a submit is awaited the screen  *)
(* stays what was sent; a submit's code was saved before.                   *)

Sends == Submitting \cup {"run"}

ScreenIsSent == \A w \in Workers : pc[w] \in Sends => job[w].code = editor[job[w].attempt]

SubmitIsSaved ==
    \A w \in Workers : pc[w] \in Submitting => \E s \in snaps[job[w].attempt] : s.code = job[w].code

Follow(rows, n, e) ==
    /\ n = Cardinality(rows)
    /\ \A s \in rows :
        /\ s.version \in 1..n /\ s.code <= e
        /\ \A t \in rows : s.version <= t.version => s.code <= t.code

VersionsFollow == \A a \in Attempts : Follow(snaps[a], known[a], editor[a])

SnapsInv == ScreenIsSent /\ SubmitIsSaved /\ VersionsFollow /\ SubmittedCodeIsJudged

\* The next version, of the code on the screen, follows all there are.
LEMMA NextFollows ==
    ASSUME NEW rows \in SUBSET CodeSnapshot, IsFiniteSet(rows), NEW n \in Nat, NEW e \in Nat,
           Follow(rows, n, e)
    PROVE  Follow(rows \cup {[version |-> n + 1, code |-> e]}, n + 1, e)
  <1>. DEFINE new == [version |-> n + 1, code |-> e]
  <1>1. new \notin rows
    BY DEF Follow
  <1>2. Cardinality(rows \cup {new}) = Cardinality(rows) + 1
    BY <1>1, FS_AddElement
  <1>3. \A s \in rows : s.version \in Nat /\ s.code \in Nat /\ s.version <= n /\ 1 <= s.version
                        /\ s.code <= e
    BY DEF Follow, CodeSnapshot
  <1>4. new.version = n + 1 /\ new.code = e
    OBVIOUS
  <1>5. ASSUME NEW s \in rows \cup {new}
        PROVE  s.version \in 1..(n + 1) /\ s.code <= e
    BY <1>3, <1>4, <1>5
  <1>6. ASSUME NEW s \in rows \cup {new}, NEW t \in rows \cup {new}, s.version <= t.version
        PROVE  s.code <= t.code
    <2>1. CASE s \in rows /\ t \in rows
      BY <1>6, <2>1 DEF Follow
    <2>2. CASE t = new
      BY <1>4, <1>5, <2>2
    <2>3. CASE s = new /\ t \in rows
      BY <1>3, <1>4, <1>6, <2>3
    <2>4. QED
      BY <2>1, <2>2, <2>3
  <1>7. n + 1 = Cardinality(rows \cup {new})
    BY <1>2 DEF Follow
  <1>. HIDE DEF new
  <1>8. Follow(rows \cup {new}, n + 1, e)
    BY <1>5, <1>6, <1>7 DEF Follow
  <1>9. QED
    BY <1>8 DEF new

\* A request that goes on keeps its code; only the suite sets what was judged.
LEMMA OnwardCodes ==
    ASSUME Typed, NEW w \in Workers,
           CountHints(w) \/ CheckQuota(w) \/ RunSuite(w) \/ EvaluateTests(w) \/ MarkSubmitted(w)
    PROVE  /\ UNCHANGED <<tables, world>>
           /\ job'[w].code = job[w].code
           /\ pc'[w] \in Submitting => pc[w] \in Submitting
           /\ pc'[w] # "run"
           /\ ~RunSuite(w) /\ pc'[w] \in {"tests", "mark", "questions"} =>
                job'[w].judged = job[w].judged /\ pc[w] \in {"tests", "mark"}
           /\ RunSuite(w) => job'[w].judged \in
                IF snaps[job[w].attempt] = {} THEN {0} ELSE LatestCode(job[w].attempt)
  <1>0. job[w] \in Job /\ job \in [Workers -> Job] /\ pc \in [Workers -> Statements]
    BY DEF Typed, TypeOK
  <1>1. CASE CountHints(w)
    <2>1. PICK j : j = [job[w] EXCEPT !.n = Used(job[w].attempt, "DEBUG_HINT")]
      OBVIOUS
    <2>2. j.code = job[w].code
      BY <1>0, <2>1 DEF Job
    <2>3. \/ pc[w] = "hint" /\ Continue(w, "takeHint", j)
          \/ pc[w] = "mark bug" /\ Continue(w, "locate", j)
      BY <1>1, <2>1 DEF CountHints
    <2>4. pc'[w] \in {"takeHint", "locate"} /\ job'[w] = j /\ ~RunSuite(w)
      BY <2>3, ContinueFacts DEF RunSuite
    <2>5. UNCHANGED <<tables, world>>
      BY <2>3 DEF Continue
    <2>6. QED
      BY <2>2, <2>4, <2>5 DEF Submitting
  <1>2. CASE CheckQuota(w)
    <2>1. pc[w] = "quota" /\ ~RunSuite(w) /\ Continue(w, "suite", job[w])
      BY <1>2 DEF CheckQuota, RunSuite
    <2>2. pc'[w] = "suite" /\ job'[w] = job[w]
      BY <2>1, ContinueFacts
    <2>3. UNCHANGED <<tables, world>>
      BY <2>1 DEF Continue
    <2>4. QED
      BY <2>1, <2>2, <2>3 DEF Submitting
  <1>3. CASE RunSuite(w)
    <2>1. PICK code \in IF snaps[job[w].attempt] = {} THEN {0} ELSE LatestCode(job[w].attempt) :
             Continue(w, "tests", [job[w] EXCEPT !.judged = code])
      BY <1>3 DEF RunSuite
    <2>2. PICK j : j = [job[w] EXCEPT !.judged = code]
      OBVIOUS
    <2>3. j.code = job[w].code /\ j.judged = code
      BY <1>0, <2>2 DEF Job
    <2>4. pc[w] = "suite" /\ Continue(w, "tests", j)
      BY <1>3, <2>1, <2>2 DEF RunSuite
    <2>5. pc'[w] = "tests" /\ job'[w] = j
      BY <2>4, ContinueFacts
    <2>6. UNCHANGED <<tables, world>>
      BY <2>4 DEF Continue
    <2>7. QED
      BY <1>3, <2>1, <2>3, <2>4, <2>5, <2>6 DEF Submitting
  <1>4. CASE EvaluateTests(w)
    <2>1. PICK j : j = [job[w] EXCEPT !.n = Latest(job[w].attempt, "TESTS_SAVED"), !.at = today]
      OBVIOUS
    <2>2. j.code = job[w].code /\ j.judged = job[w].judged
      BY <1>0, <2>1 DEF Job
    <2>3. pc[w] = "tests" /\ ~RunSuite(w) /\ Continue(w, "mark", j)
      BY <1>4, <2>1 DEF EvaluateTests, RunSuite
    <2>4. pc'[w] = "mark" /\ job'[w] = j
      BY <2>3, ContinueFacts
    <2>5. UNCHANGED <<tables, world>>
      BY <2>3 DEF Continue
    <2>6. QED
      BY <2>2, <2>3, <2>4, <2>5 DEF Submitting
  <1>5. CASE MarkSubmitted(w)
    <2>1. pc[w] = "mark" /\ ~RunSuite(w) /\ Continue(w, "questions", job[w])
      BY <1>5 DEF MarkSubmitted, RunSuite
    <2>2. pc'[w] = "questions" /\ job'[w] = job[w]
      BY <2>1, ContinueFacts
    <2>3. UNCHANGED <<tables, world>>
      BY <2>1 DEF Continue
    <2>4. QED
      BY <2>1, <2>2, <2>3 DEF Submitting
  <1>6. QED
    BY <1>1, <1>2, <1>3, <1>4, <1>5

\* What happens to the snapshots, the browser's counter and the screen.
LEMMA NextVersions ==
    ASSUME Typed, ScreenIsSent, VersionsFollow, [Next]_vars
    PROVE  /\ VersionsFollow'
           /\ \A a \in Attempts : snaps[a] \subseteq snaps'[a]
  <1>0. /\ snaps \in [Attempts -> SUBSET CodeSnapshot] /\ known \in [Attempts -> Nat]
        /\ editor \in [Attempts -> Nat] /\ \A a \in Attempts : IsFiniteSet(snaps[a])
    BY DEF Typed, TypeOK, SnapsAreFinite
  <1>1. ASSUME NEW a \in Attempts, editor' = editor, known' = [known EXCEPT ![a] = @ + 1],
               snaps' = [snaps EXCEPT ![a] =
                            @ \cup {[version |-> known[a] + 1, code |-> editor[a]]}]
        PROVE  VersionsFollow' /\ \A b \in Attempts : snaps[b] \subseteq snaps'[b]
    <2>1. Follow(snaps'[a], known'[a], editor'[a])
      <3>1. Follow(snaps[a] \cup {[version |-> known[a] + 1, code |-> editor[a]]},
                   known[a] + 1, editor[a])
        BY <1>0, NextFollows DEF VersionsFollow
      <3>2. snaps'[a] = snaps[a] \cup {[version |-> known[a] + 1, code |-> editor[a]]}
        BY <1>0, <1>1
      <3>3. known'[a] = known[a] + 1 /\ editor'[a] = editor[a]
        BY <1>0, <1>1
      <3>4. QED
        BY <3>1, <3>2, <3>3
    <2>2. \A b \in Attempts \ {a} : snaps'[b] = snaps[b] /\ known'[b] = known[b]
      BY <1>0, <1>1
    <2>3. \A b \in Attempts \ {a} : Follow(snaps'[b], known'[b], editor'[b])
      BY <1>1, <2>2 DEF VersionsFollow
    <2>4. VersionsFollow'
      BY <2>1, <2>3 DEF VersionsFollow
    <2>5. \A b \in Attempts : snaps[b] \subseteq snaps'[b]
      BY <1>0, <1>1
    <2>6. QED
      BY <2>4, <2>5
  <1>2. CASE \E a \in Attempts : SaveSnapshot(a)
    BY <1>1, <1>2 DEF SaveSnapshot
  <1>3. CASE \E w \in Workers : CommitRun(w)
    <2>1. PICK w \in Workers : CommitRun(w)
      BY <1>3
    <2>. DEFINE a == job[w].attempt
    <2>2. pc[w] = "run" /\ a \in Attempts
      BY <2>1 DEF CommitRun, Typed, JobIsComplete
    <2>3. job[w].code = editor[a]
      BY <2>2 DEF ScreenIsSent, Sends
    <2>4. NextVersion(snaps[a]) = known[a] + 1
      BY <2>2 DEF NextVersion, VersionsFollow, Follow
    <2>5. /\ editor' = editor /\ known' = [known EXCEPT ![a] = @ + 1]
          /\ snaps' = [snaps EXCEPT ![a] =
                          @ \cup {[version |-> NextVersion(@), code |-> job[w].code]}]
      BY <2>1 DEF CommitRun
    <2>6. snaps' = [snaps EXCEPT ![a] = @ \cup {[version |-> known[a] + 1, code |-> editor[a]]}]
      BY <2>3, <2>4, <2>5
    <2>7. QED
      BY <1>1, <2>2, <2>5, <2>6
  <1>4. CASE \E a \in Attempts : Edit(a)
    <2>1. PICK a \in Attempts : Edit(a)
      BY <1>4
    <2>2. /\ UNCHANGED <<snaps, known>> /\ editor' = [editor EXCEPT ![a] = @ + 1]
      BY <2>1 DEF Edit, tables
    <2>3. \A b \in Attempts : editor[b] \in Nat /\ editor'[b] \in Nat /\ editor[b] <= editor'[b]
      BY <1>0, <2>2
    <2>4. ASSUME NEW b \in Attempts
          PROVE  Follow(snaps[b], known[b], editor'[b])
      <3>1. Follow(snaps[b], known[b], editor[b]) /\ \A s \in snaps[b] : s.code \in Nat
        BY <1>0 DEF VersionsFollow, CodeSnapshot
      <3>2. \A s \in snaps[b] : s.code <= editor[b] => s.code <= editor'[b]
        BY <2>3, <3>1
      <3>3. QED
        BY <3>1, <3>2 DEF Follow
    <2>5. QED
      BY <2>2, <2>4 DEF VersionsFollow
  <1>5. CASE UNCHANGED <<snaps, known, editor>>
    BY <1>5 DEF VersionsFollow
  <1>6. UNCHANGED <<snaps, known, editor>> \/ (\E a \in Attempts : Edit(a) \/ SaveSnapshot(a))
           \/ \E w \in Workers : CommitRun(w)
    <2>1. CASE \E w \in Workers, a \in Attempts : Request(w, a)
      BY <2>1, RequestBegins DEF tables, world
    <2>2. CASE \E w \in Workers : Resume(w) \/ Fail(w)
      BY <2>2, OnwardCodes
      DEF Resume, CommitTests, TakeHint, Locate, RefuseStep, RefuseSubmit, CommitSubmit,
          CommitScore, ScoreFails, Fail, tables, world
    <2>3. QED
      BY <2>1, <2>2 DEF Next, Create, NextDay, vars, tables, world
  <1>7. QED
    BY <1>2, <1>3, <1>4, <1>5, <1>6

\* The screen does not change while a run or a submit is awaited.
LEMMA ScreenStays ==
    ASSUME Typed, [Next]_vars, NEW w \in Workers, pc[w] \in Sends
    PROVE  editor'[job[w].attempt] = editor[job[w].attempt]
  <1>0. job[w].attempt \in Attempts /\ editor \in [Attempts -> Nat]
    BY DEF Typed, TypeOK, JobIsComplete, Sends, Submitting
  <1>1. CASE \E a \in Attempts : Edit(a)
    <2>1. PICK a \in Attempts : Edit(a)
      BY <1>1
    <2>2. ~Waiting(a) /\ editor' = [editor EXCEPT ![a] = @ + 1]
      BY <2>1 DEF Edit
    <2>3. a # job[w].attempt
      BY <2>2 DEF Waiting, Sends
    <2>4. QED
      BY <1>0, <2>2, <2>3
  <1>2. CASE UNCHANGED editor
    BY <1>2
  <1>3. (\E a \in Attempts : Edit(a)) \/ UNCHANGED editor
    <2>1. CASE \E x \in Workers, a \in Attempts : Request(x, a)
      BY <2>1, RequestBegins DEF world
    <2>2. CASE \E x \in Workers : Resume(x) \/ Fail(x)
      BY <2>2, OnwardCodes
      DEF Resume, CommitRun, CommitTests, TakeHint, Locate, RefuseStep, RefuseSubmit,
          CommitSubmit, CommitScore, ScoreFails, Fail, world
    <2>3. QED
      BY <2>1, <2>2 DEF Next, Create, SaveSnapshot, NextDay, vars, world
  <1>4. QED
    BY <1>1, <1>2, <1>3

\* A request to come to the code it judges: what it sends, what it saved, what was judged.
CodeRight(w) ==
    /\ pc[w] \in Sends => job[w].code = editor[job[w].attempt]
    /\ pc[w] \in Submitting => \E s \in snaps[job[w].attempt] : s.code = job[w].code
    /\ pc[w] \in {"tests", "mark", "questions"} => job[w].judged = job[w].code

LEMMA CodesStayRight ==
    ASSUME "snapshot" \in Kinds, Typed, SnapsInv, [Next]_vars, NEW w \in Workers
    PROVE  CodeRight(w)'
  <1>0. CodeRight(w)
    BY DEF SnapsInv, ScreenIsSent, SubmitIsSaved, SubmittedCodeIsJudged, CodeRight
  <1>. USE DEF CodeRight
  <1>1. \A a \in Attempts : snaps[a] \subseteq snaps'[a]
    BY NextVersions DEF SnapsInv
  <1>2. CASE pc'[w] = pc[w] /\ job'[w] = job[w]
    <2>1. CASE pc[w] \in Sends
      <3>1. job[w].attempt \in Attempts
        BY <2>1 DEF Typed, JobIsComplete, Sends, Submitting
      <3>2. job'[w].code = editor'[job'[w].attempt]
        BY <1>0, <1>2, <2>1, ScreenStays
      <3>3. pc'[w] \in Submitting => \E s \in snaps'[job'[w].attempt] : s.code = job'[w].code
        BY <1>0, <1>1, <1>2, <3>1
      <3>4. QED
        BY <1>0, <1>2, <3>2, <3>3
    <2>2. CASE pc[w] \notin Sends
      BY <1>2, <2>2 DEF Sends, Submitting
    <2>3. QED
      BY <2>1, <2>2
  <1>3. CASE pc'[w] = "idle"
    BY <1>3 DEF Sends, Submitting
  <1>4. CASE \E a \in Attempts : Request(w, a)
    <2>1. PICK a \in Attempts : Request(w, a)
      BY <1>4
    <2>2. PICK to \in {"run", "save", "hint", "mark bug", "quota", "judge"} : Begin(w, a, to)
      BY <2>1, RequestBegins
    <2>3. pc'[w] = to /\ job'[w].attempt = a /\ job'[w].code = editor[a]
      BY <2>2 DEF Typed, TypeOK, Begin, NoJob
    <2>4. UNCHANGED <<editor, snaps>>
      BY <2>2 DEF Begin, tables, world
    <2>5. to = "quota" => \E s \in snaps[a] : s.code = editor[a]
      <3>1. SUFFICES ASSUME to = "quota" PROVE Submit(w, a)
        BY DEF Submit
      <3>2. pc'[w] = "quota"
        BY <2>3, <3>1
      <3>3. ASSUME NEW t \in {"run", "save", "hint", "mark bug", "judge"}, Begin(w, a, t)
            PROVE  FALSE
        BY <3>2, <3>3, BeginFacts
      <3>4. QED
        BY <2>1, <3>3 DEF Request, Run, SaveTests, OpenStep, ExplainBack
    <2>6. QED
      BY <2>3, <2>4, <2>5 DEF Sends, Submitting
  <1>5. CASE \/ CountHints(w) \/ CheckQuota(w) \/ RunSuite(w)
             \/ EvaluateTests(w) \/ MarkSubmitted(w)
    <2>1. /\ UNCHANGED <<snaps, editor>> /\ job'[w].attempt = job[w].attempt
          /\ job'[w].code = job[w].code /\ pc'[w] # "run"
          /\ pc'[w] \in Submitting => pc[w] \in Submitting
      BY <1>5, OnwardFacts, OnwardCodes DEF tables, world
    <2>2. CASE RunSuite(w)
      <3>. DEFINE a == job[w].attempt
      <3>1. pc[w] = "suite" /\ a \in Attempts
        BY <2>2 DEF RunSuite, Typed, JobIsComplete
      <3>2. PICK s \in snaps[a] : s.code = job[w].code
        BY <1>0, <3>1 DEF Submitting
      <3>3. job[w].code = editor[a]
        BY <1>0, <3>1 DEF Sends, Submitting
      <3>4. job'[w].judged \in LatestCode(a)
        BY <2>2, <3>2, OnwardCodes
      <3>5. PICK t \in snaps[a] : (\A r \in snaps[a] : r.version <= t.version)
                                  /\ t.code = job'[w].judged
        BY <3>4 DEF LatestCode
      <3>6. t.code <= editor[a] /\ s.code <= t.code
        BY <3>1, <3>2, <3>5 DEF SnapsInv, VersionsFollow, Follow
      <3>7. t.code \in Nat /\ s.code \in Nat /\ editor[a] \in Nat
        BY <3>1, <3>2, <3>5 DEF Typed, TypeOK, CodeSnapshot
      <3>8. t.code = editor[a]
        BY <3>2, <3>3, <3>6, <3>7
      <3>9. job'[w].judged = job'[w].code
        BY <2>1, <3>3, <3>5, <3>8
      <3>10. QED
        BY <1>0, <2>1, <3>9 DEF Sends
    <2>3. CASE ~RunSuite(w)
      BY <1>0, <1>5, <2>1, <2>3, OnwardCodes DEF Sends
    <2>4. QED
      BY <2>2, <2>3
  <1>6. QED
    <2>1. CASE \E x \in Workers, a \in Attempts : Request(x, a)
      <3>1. PICK x \in Workers, a \in Attempts : Request(x, a)
        BY <2>1
      <3>2. CASE x = w
        BY <1>4, <3>1, <3>2
      <3>3. CASE x # w
        <4>1. PICK to : Begin(x, a, to)
          BY <3>1, RequestBegins
        <4>2. \A y \in Workers \ {x} : pc'[y] = pc[y] /\ job'[y] = job[y]
          BY <4>1, BeginFacts
        <4>3. pc'[w] = pc[w] /\ job'[w] = job[w]
          BY <3>3, <4>2
        <4>4. QED
          BY <1>2, <4>3
      <3>4. QED
        BY <3>2, <3>3
    <2>2. CASE \E x \in Workers : Resume(x) \/ Fail(x)
      <3>1. PICK x \in Workers : Resume(x) \/ Fail(x)
        BY <2>2
      <3>2. CASE End(x)
        BY <1>2, <1>3, <3>2, EndFacts
      <3>3. CASE \/ CountHints(x) \/ CheckQuota(x) \/ RunSuite(x)
                 \/ EvaluateTests(x) \/ MarkSubmitted(x)
        <4>1. CASE x = w
          BY <1>5, <3>3, <4>1
        <4>2. CASE x # w
          BY <1>2, <3>3, <4>2, OnwardFacts
        <4>3. QED
          BY <4>1, <4>2
      <3>4. QED
        BY <3>1, <3>2, <3>3
        DEF Resume, CommitRun, CommitTests, TakeHint, Locate, RefuseStep, RefuseSubmit,
            CommitSubmit, CommitScore, ScoreFails, Fail
    <2>3. CASE UNCHANGED <<pc, job>>
      BY <1>2, <2>3
    <2>4. QED
      BY <2>1, <2>2, <2>3 DEF Next, Create, Edit, SaveSnapshot, NextDay, vars

LEMMA NextCodes == "snapshot" \in Kinds /\ Typed /\ SnapsInv /\ [Next]_vars => SnapsInv'
  <1>. SUFFICES ASSUME "snapshot" \in Kinds, Typed, SnapsInv, [Next]_vars PROVE SnapsInv'
    OBVIOUS
  <1>1. VersionsFollow'
    BY NextVersions DEF SnapsInv
  <1>2. \A w \in Workers : CodeRight(w)'
    BY CodesStayRight
  <1>3. QED
    BY <1>1, <1>2
    DEF SnapsInv, ScreenIsSent, SubmitIsSaved, SubmittedCodeIsJudged, CodeRight

LEMMA InitCodes == Init => SnapsInv
  <1>. SUFFICES ASSUME Init PROVE SnapsInv
    OBVIOUS
  <1>1. \A a \in Attempts : Follow(snaps[a], known[a], editor[a])
    BY FS_EmptySet DEF Init, Follow
  <1>2. QED
    BY <1>1 DEF Init, SnapsInv, ScreenIsSent, SubmitIsSaved, VersionsFollow,
                SubmittedCodeIsJudged, Sends, Submitting

\* Of clients that save before they submit, the suite judges the code the student submitted:
\* in every interleaving of edits, saves, runs, failed requests and repeated submits, of any
\* number of attempts.
THEOREM SubmittedIsJudged ==
    ASSUME "snapshot" \in Kinds
    PROVE  Spec => []SubmittedCodeIsJudged
  <1>1. SnapsInv => SubmittedCodeIsJudged
    BY DEF SnapsInv
  <1>2. IInv /\ SnapsInv /\ [Next]_vars => SnapsInv'
    BY NextCodes DEF IInv
  <1>3. QED
    BY <1>1, <1>2, InitCodes, Invariance, PTL DEF Spec
=============================================================================
