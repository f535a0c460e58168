------------------------------ MODULE Attempts ------------------------------
(***************************************************************************)
(* A student's work on an exercise (app/features/attempts, student_tests    *)
(* and mentor/quota): the editor's snapshots and runs, the saved tests,     *)
(* hints and the location of a debug exercise, then submit and the          *)
(* explain-back that scores the attempt.                                    *)
(*                                                                          *)
(* A worker runs one request at a time, as one READ COMMITTED transaction.  *)
(* No statement here is a SELECT ... FOR UPDATE: a handler acts on what it  *)
(* read, however long the sandbox or the language model took since.  The    *)
(* only lock is the one an UPDATE of the attempts row takes; submit takes   *)
(* it before it asks the model for questions (the query that loads the      *)
(* exercise flushes the row) and holds it until it commits.                 *)
(* Refusals that change nothing are no steps, except those of a request     *)
(* already under way.                                                       *)
(***************************************************************************)
EXTENDS Naturals, FiniteSets

CONSTANTS
    Users,       \* students
    Attempts,    \* ids of attempts
    Owner,       \* Owner[a]: the student attempt a belongs to
    Free,        \* the students without a paid plan
    Workers,     \* requests that can be in flight at a time
    None,        \* no attempt, score or date; a free row
    Scores,      \* what the judges and the engine may answer
    Limit,       \* free_submits_per_month
    Month,       \* Month[d]: the month of day d
    Kinds,       \* bound: the kinds of request an instance looks at
    MaxEdits,    \* bound: changes of the code of an attempt; runs while snapshots exceed it by one
    MaxEvents,   \* bound: saved suites, submits and scores of an attempt when a request starts
    MaxDays,     \* bound: the last day
    MaxFails     \* bound: requests that die before they commit

MAX_HINTS == 2

ASSUME ConstantsAssumption ==
    /\ Owner \in [Attempts -> Users]
    /\ Free \subseteq Users
    /\ None \notin Attempts \cup Workers \cup Scores \cup Nat
    /\ Limit \in Nat \ {0}
    /\ MaxEdits \in Nat /\ MaxEvents \in Nat /\ MaxDays \in Nat /\ MaxFails \in Nat
    /\ IsFiniteSet(Attempts) /\ IsFiniteSet(Workers)

Days == 0..MaxDays

ASSUME MonthsFollow ==
    /\ Month \in [Days -> Nat]
    /\ \A d, e \in Days : d <= e => Month[d] <= Month[e]

VARIABLES
    today,       \* the clock, in days
    attempts,    \* attempts[a]: the attempts row with id a, or NoAttempt
    log,         \* log[a][type]: the events of a of that type
    snaps,       \* snaps[a]: its code_snapshots rows
    reports,     \* the fluency_reports table
    rowLock,     \* rowLock[a]: the worker whose transaction has updated row a
    editor,      \* editor[a]: the code on the student's screen (a new number per edit)
    known,       \* known[a]: snapshots of a the browser knows of
    pc,          \* pc[w]: the statement worker w runs next
    job,         \* job[w]: the arguments and local variables of w's request
    fails        \* requests that died

tables == <<attempts, log, snaps, reports>>
world  == <<today, editor, known, fails>>
vars   == <<tables, world, rowLock, pc, job>>

-----------------------------------------------------------------------------
(* Rows and transactions                                                   *)

Statuses == {"none", "in_progress", "submitted", "scored"}

Attempt == [status: Statuses, score: Scores \cup {None}, submitted: Days \cup {None}]
NoAttempt == [status |-> "none", score |-> None, submitted |-> None]

\* The events of a type: how many rows, and what the last one carries (the number
\* of a saved suite, the suite a submit judged, or the hints used).
EventTypes == {"TESTS_SAVED", "DEBUG_HINT", "LOCATE", "SUBMIT", "EXPLAIN_BACK"}
Events == [rows: Nat, last: Nat]
NoEvents == [rows |-> 0, last |-> 0]

CodeSnapshot == [version: Nat, code: Nat]

\* Where a request may stand, and where one that submits may.
Submitting == {"quota", "suite", "tests", "mark", "questions"}
Statements == Submitting \cup {"idle", "run", "save", "hint", "mark bug", "takeHint",
                               "locate", "judge"}

FluencyReport == [attempt: Attempts, score: Scores]

Job == [attempt: Attempts \cup {None},
        seen: Statuses,   \* attempt.status as require_attempt loaded it
        n: Nat,           \* hints counted, or the saved suite read
        code: Nat,        \* the code on the screen when the student clicked
        judged: Nat,      \* the code the full suite ran on
        at: Days]         \* the day written to submitted_at
NoJob == [attempt |-> None, seen |-> "none", n |-> 0, code |-> 0, judged |-> 0, at |-> 0]

Used(a, type) == log[a][type].rows
Latest(a, type) == log[a][type].last

Freed_Never(w) == rowLock
Freed(w) == [a \in Attempts |-> IF rowLock[a] = w THEN None ELSE rowLock[a]]

\* Worker w's transaction ends, committed or rolled back.
End(w) ==
    /\ rowLock' = Freed(w)
    /\ pc' = [pc EXCEPT ![w] = "idle"]
    /\ job' = [job EXCEPT ![w] = NoJob]

\* Worker w starts a request on attempt a and loads its row.
Begin(w, a, to) ==
    /\ pc[w] = "idle"
    /\ attempts[a] # NoAttempt
    /\ \A type \in {"TESTS_SAVED", "SUBMIT", "EXPLAIN_BACK"} : Used(a, type) < MaxEvents
    /\ pc' = [pc EXCEPT ![w] = to]
    /\ job' = [job EXCEPT ![w] = [NoJob EXCEPT !.attempt = a,
                                               !.seen = attempts[a].status,
                                               !.code = editor[a]]]
    /\ UNCHANGED <<tables, world, rowLock>>

\* Worker w goes on with its request, having computed j.
Continue(w, to, j) ==
    /\ pc' = [pc EXCEPT ![w] = to]
    /\ job' = [job EXCEPT ![w] = j]
    /\ UNCHANGED <<tables, world>>

AddEvent(a, type, n) ==
    log' = [log EXCEPT ![a][type] = [rows |-> @.rows + 1, last |-> n]]

-----------------------------------------------------------------------------
(* The student, the browser and the clock                                  *)

\* POST /attempts
Create(a) ==
    /\ attempts[a] = NoAttempt
    /\ attempts' = [attempts EXCEPT ![a].status = "in_progress"]
    /\ UNCHANGED <<log, snaps, reports, world, rowLock, pc, job>>

\* The client waits for the answer of a run or a submit before it goes on.
Waiting(a) == \E w \in Workers : job[w].attempt = a /\ pc[w] \in Submitting \cup {"run"}

Edit(a) ==
    /\ attempts[a].status = "in_progress"
    /\ ~Waiting(a)
    /\ editor[a] < MaxEdits
    /\ editor' = [editor EXCEPT ![a] = @ + 1]
    /\ UNCHANGED <<tables, today, known, fails, rowLock, pc, job>>

\* POST /snapshots.  The client numbers its own snapshots, one above all it knows of.
SaveSnapshot(a) ==
    /\ "snapshot" \in Kinds
    /\ attempts[a] # NoAttempt
    /\ ~Waiting(a)
    /\ \A s \in snaps[a] : s.code # editor[a]
    /\ snaps' = [snaps EXCEPT ![a] =
                    @ \cup {[version |-> known[a] + 1, code |-> editor[a]]}]
    /\ known' = [known EXCEPT ![a] = @ + 1]
    /\ UNCHANGED <<attempts, log, reports, today, editor, fails, rowLock, pc, job>>

NextDay ==
    /\ today < MaxDays
    /\ today' = today + 1
    /\ UNCHANGED <<tables, editor, known, fails, rowLock, pc, job>>

-----------------------------------------------------------------------------
(* Working on the exercise                                                 *)

\* POST /run: the sandbox runs the code sent; then it becomes a snapshot whose
\* version is one more than the rows there are (the client has no other run or save
\* under way that could come between the count and the insert).
Run(w, a) ==
    /\ "run" \in Kinds
    /\ ~Waiting(a)
    /\ Cardinality(snaps[a]) <= MaxEdits + 1
    /\ Begin(w, a, "run")

NextVersion_Count(rows) == Cardinality(rows)
NextVersion(rows) == Cardinality(rows) + 1

CommitRun(w) ==
    LET a == job[w].attempt
    IN  /\ pc[w] = "run"
        /\ snaps' = [snaps EXCEPT ![a] =
                        @ \cup {[version |-> NextVersion(@), code |-> job[w].code]}]
        /\ known' = [known EXCEPT ![a] = @ + 1]
        /\ End(w)
        /\ UNCHANGED <<attempts, log, reports, today, editor, fails>>

\* PUT /tests: refused once the attempt row it loaded says submitted.
SaveTests(w, a) ==
    /\ "tests" \in Kinds
    /\ attempts[a].status = "in_progress"
    /\ Begin(w, a, "save")

CommitTests(w) ==
    LET a == job[w].attempt
    IN  /\ pc[w] = "save"
        /\ AddEvent(a, "TESTS_SAVED", Latest(a, "TESTS_SAVED") + 1)
        /\ End(w)
        /\ UNCHANGED <<attempts, snaps, reports, world>>

\* POST /debug/hint and /debug/locate: _open_step refuses a submitted attempt
\* and a located bug, and counts the hints.
OpenStep(w, a, to) ==
    /\ "debug" \in Kinds
    /\ attempts[a].status = "in_progress"
    /\ Begin(w, a, to)

CountHints(w) ==
    LET a == job[w].attempt
    IN  /\ \/ pc[w] = "hint" /\ Continue(w, "takeHint", [job[w] EXCEPT !.n = Used(a, "DEBUG_HINT")])
           \/ pc[w] = "mark bug" /\ Continue(w, "locate", [job[w] EXCEPT !.n = Used(a, "DEBUG_HINT")])
        /\ Used(a, "LOCATE") = 0
        /\ UNCHANGED rowLock

HintLeft_OneMore(n) == n <= MAX_HINTS
HintLeft(n) == n < MAX_HINTS

TakeHint(w) ==
    LET a == job[w].attempt
    IN  /\ pc[w] = "takeHint"
        /\ HintLeft(job[w].n)
        /\ AddEvent(a, "DEBUG_HINT", job[w].n + 1)
        /\ End(w)
        /\ UNCHANGED <<attempts, snaps, reports, world>>

Locate(w) ==
    /\ pc[w] = "locate"
    /\ AddEvent(job[w].attempt, "LOCATE", job[w].n)
    /\ End(w)
    /\ UNCHANGED <<attempts, snaps, reports, world>>

\* 409: already located, or no more hints.
RefuseStep(w) ==
    /\ \/ pc[w] \in {"hint", "mark bug"} /\ Used(job[w].attempt, "LOCATE") > 0
       \/ pc[w] = "takeHint" /\ ~HintLeft(job[w].n)
    /\ End(w)
    /\ UNCHANGED <<tables, world>>

-----------------------------------------------------------------------------
(* Submit                                                                  *)

\* The client force-saves a snapshot of the screen, then sends POST /submit.
Submit(w, a) ==
    /\ "submit" \in Kinds
    /\ attempts[a].status # "scored"
    /\ "snapshot" \in Kinds => \E s \in snaps[a] : s.code = editor[a]
    /\ \A w2 \in Workers : job[w2].attempt = a => pc[w2] # "run"
    /\ Begin(w, a, "quota")

\* The student's attempts that count as submitted this month.
SubmittedThisMonth(u) ==
    {a \in Attempts : /\ Owner[a] = u
                      /\ attempts[a].submitted # None
                      /\ Month[attempts[a].submitted] = Month[today]}

\* enforce_monthly_submits: this attempt itself does not count.
WithinLimit_OneMore(a) ==
    Owner[a] \in Free =>
        Cardinality(SubmittedThisMonth(Owner[a]) \ {a}) <= Limit
WithinLimit(a) ==
    Owner[a] \in Free =>
        Cardinality(SubmittedThisMonth(Owner[a]) \ {a}) < Limit

CheckQuota(w) ==
    /\ pc[w] = "quota"
    /\ WithinLimit(job[w].attempt)
    /\ Continue(w, "suite", job[w])
    /\ UNCHANGED rowLock

RefuseSubmit(w) ==
    /\ pc[w] = "quota"
    /\ ~WithinLimit(job[w].attempt)
    /\ End(w)
    /\ UNCHANGED <<tables, world>>

\* The rows with the highest version: ORDER BY version DESC picks any of them.
LatestCode(a) ==
    {s.code : s \in {t \in snaps[a] : \A r \in snaps[a] : r.version <= t.version}}

\* The full suite runs on the latest snapshot.
RunSuite(w) ==
    LET a == job[w].attempt
    IN  /\ pc[w] = "suite"
        /\ \E code \in IF snaps[a] = {} THEN {0} ELSE LatestCode(a) :
              Continue(w, "tests", [job[w] EXCEPT !.judged = code])
        /\ UNCHANGED rowLock

\* The tests the student saved last are judged, then submitted_at takes the time.
EvaluateTests(w) ==
    /\ pc[w] = "tests"
    /\ Continue(w, "mark", [job[w] EXCEPT !.n = Latest(job[w].attempt, "TESTS_SAVED"),
                                         !.at = today])
    /\ UNCHANGED rowLock

RowFree(a) == rowLock[a] = None

\* The row is updated, but not committed: others read the old one until then.
MarkSubmitted(w) ==
    LET a == job[w].attempt
    IN  /\ pc[w] = "mark"
        /\ RowFree(a)
        /\ rowLock' = [rowLock EXCEPT ![a] = w]
        /\ Continue(w, "questions", job[w])

\* The questions are there.  The UPDATE named only what differs from the row that
\* was loaded: a status loaded as submitted is not written again.
NewStatus(seen, current) == IF seen = "submitted" THEN current ELSE "submitted"

CommitSubmit(w) ==
    LET a == job[w].attempt
    IN  /\ pc[w] = "questions"
        /\ attempts' = [attempts EXCEPT
                          ![a] = [@ EXCEPT !.status = NewStatus(job[w].seen, attempts[a].status),
                                           !.submitted = job[w].at]]
        /\ AddEvent(a, "SUBMIT", job[w].n)
        /\ End(w)
        /\ UNCHANGED <<snaps, reports, world>>

-----------------------------------------------------------------------------
(* Explain-back                                                            *)

\* POST /explain-back: only a scored attempt is refused.
ExplainBack(w, a) ==
    /\ "explain" \in Kinds
    /\ attempts[a].status # "scored"
    /\ Begin(w, a, "judge")

\* fluency_reports.attempt_id is unique.
HasReport_NoUniqueKey(a) == FALSE
HasReport(a) == \E r \in reports : r.attempt = a

\* The answers are judged and the report is written with the attempt's score.
CommitScore(w) ==
    LET a == job[w].attempt
    IN  /\ pc[w] = "judge"
        /\ RowFree(a)
        /\ ~HasReport(a)
        /\ \E score \in Scores :
              /\ reports' = reports \cup {[attempt |-> a, score |-> score]}
              /\ attempts' = [attempts EXCEPT ![a] = [@ EXCEPT !.status = "scored", !.score = score]]
        /\ AddEvent(a, "EXPLAIN_BACK", 0)
        /\ End(w)
        /\ UNCHANGED <<snaps, world>>

\* The insert of a second report fails: the request is answered 500 and leaves nothing.
ScoreFails(w) ==
    /\ pc[w] = "judge"
    /\ RowFree(job[w].attempt)
    /\ HasReport(job[w].attempt)
    /\ End(w)
    /\ UNCHANGED <<tables, world>>

\* The sandbox, the language model or the process fails: the transaction is rolled back.
Fail(w) ==
    /\ pc[w] # "idle"
    /\ fails < MaxFails
    /\ fails' = fails + 1
    /\ End(w)
    /\ UNCHANGED <<tables, today, editor, known>>

-----------------------------------------------------------------------------
(* The specification                                                       *)

Init ==
    /\ today = 0
    /\ attempts = [a \in Attempts |-> NoAttempt]
    /\ log = [a \in Attempts |-> [type \in EventTypes |-> NoEvents]]
    /\ snaps = [a \in Attempts |-> {}]
    /\ reports = {}
    /\ rowLock = [a \in Attempts |-> None]
    /\ editor = [a \in Attempts |-> 0]
    /\ known = [a \in Attempts |-> 0]
    /\ pc = [w \in Workers |-> "idle"]
    /\ job = [w \in Workers |-> NoJob]
    /\ fails = 0

Request(w, a) ==
    \/ Run(w, a)
    \/ SaveTests(w, a)
    \/ OpenStep(w, a, "hint")
    \/ OpenStep(w, a, "mark bug")
    \/ Submit(w, a)
    \/ ExplainBack(w, a)

\* Worker w runs the next statement of its request.
Resume(w) ==
    \/ CommitRun(w)
    \/ CommitTests(w)
    \/ CountHints(w) \/ TakeHint(w) \/ Locate(w) \/ RefuseStep(w)
    \/ CheckQuota(w) \/ RefuseSubmit(w)
    \/ RunSuite(w) \/ EvaluateTests(w) \/ MarkSubmitted(w) \/ CommitSubmit(w)
    \/ CommitScore(w) \/ ScoreFails(w)

Next ==
    \/ \E a \in Attempts : Create(a) \/ Edit(a) \/ SaveSnapshot(a)
    \/ \E w \in Workers, a \in Attempts : Request(w, a)
    \/ \E w \in Workers : Resume(w) \/ Fail(w)
    \/ NextDay

Spec == Init /\ [][Next]_vars

\* The server runs every statement of a request it has begun, and PostgreSQL
\* hands a row's lock to those that wait for it in their order.
FairSpec == Spec /\ \A w \in Workers : SF_vars(Resume(w))

-----------------------------------------------------------------------------
(* Properties                                                              *)

\* Every variable keeps the shape the code gives it.
TypeOK ==
    /\ today \in Days
    /\ attempts \in [Attempts -> Attempt]
    /\ log \in [Attempts -> [EventTypes -> Events]]
    /\ snaps \in [Attempts -> SUBSET CodeSnapshot]
    /\ reports \subseteq FluencyReport
    /\ rowLock \in [Attempts -> Workers \cup {None}]
    /\ editor \in [Attempts -> Nat]
    /\ known \in [Attempts -> Nat]
    /\ pc \in [Workers -> Statements]
    /\ job \in [Workers -> Job]
    /\ fails \in Nat

\* The score of an attempt is its report's, and stands on one explain-back: however
\* many were sent, and whatever a slow submit wrote meanwhile, an attempt has at most
\* one report, the score column shows it, and the log holds the answers it judged and
\* none of a request that failed.
ScoreIsTheReports ==
    \A a \in Attempts :
        LET own == {r \in reports : r.attempt = a}
        IN  /\ own = {} => attempts[a].score = None /\ attempts[a].status # "scored"
            /\ own # {} => own = {[attempt |-> a, score |-> attempts[a].score]}
            /\ Used(a, "EXPLAIN_BACK") = Cardinality(own)

\* A report, once written, and the score shown beside it never change: neither a
\* second explain-back nor a submit that is still running may touch them.
ReportIsFinal ==
    [][\A r \in reports : r \in reports' /\ attempts'[r.attempt].score = r.score]_vars

\* The monthly limit is checked long before the submission it allows is committed.
\* It can be overrun, but by no more than the requests that were in flight together:
\* neither a second submit of the same attempt, nor scoring, nor the turn of the
\* month lets more through.
OverrunIsBounded ==
    \A u \in Free :
        Cardinality(SubmittedThisMonth(u)) < Limit + Cardinality(Workers)

\* The suite runs on the code the student submitted.  Two parties number the
\* snapshots, the client by its own counter and the server by its count of rows: no
\* order of saves, runs, failed requests and repeated submits puts an older code last.
SubmittedCodeIsJudged ==
    \A w \in Workers : pc[w] \in {"tests", "mark", "questions"} => job[w].judged = job[w].code

\* Hints are counted, then taken: of all requests that count together, the attempt
\* gets at most one hint more per further request in flight.
HintOverrunIsBounded ==
    \A a \in Attempts : Used(a, "DEBUG_HINT") < MAX_HINTS + Cardinality(Workers)

\* An explain-back that is not hit by a failure leaves a report behind, its own or
\* one of another explain-back: submits holding the row and double answers may
\* delay it, never prevent it.
AnsweredIsReported ==
    \A a \in Attempts :
        (\E w \in Workers : pc[w] = "judge" /\ job[w].attempt = a) ~> HasReport(a)

\* Every request ends: nobody waits for a row forever.
RequestsEnd == \A w \in Workers : (pc[w] # "idle") ~> (pc[w] = "idle")

\* What the 409 "Attempt already scored" of submit says: a scored attempt stays scored.
ScoredIsFinal ==
    [][\A a \in Attempts :
          attempts[a].status = "scored" => attempts'[a].status = "scored"]_vars
=============================================================================
