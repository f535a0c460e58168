----------------------------- MODULE ScoredSession -----------------------------
(***************************************************************************)
(* How the log of an attempt comes to be, and what its report says of it.  *)
(* The server logs runs, answers, hypotheses, submits and verdicts by its   *)
(* own clock; the browser logs edits and integrity signals by its own and  *)
(* posts them later, in batches, also after the score.  A mentor's reply   *)
(* dates from the start of its request.  An operator may ask for missing   *)
(* verdicts and rescore with either engine at any time.                    *)
(*                                                                         *)
(* The sandbox is external: SuiteResult says which tests a code passes.  The   *)
(* overlap of requests that write is left to Attempts.                     *)
(***************************************************************************)
EXTENDS Feedback

CONSTANTS
    Sessions,       \* records [exercise, skew, steps], see Init
    Lines,          \* lines a student may write
    SuiteResult(_), \* tests a code passes, [visible, hidden]
    VisibleTotal, HiddenTotal,
    Prompts, Replies, Hypotheses, Signals, Locations, Suites,
    Answers,        \* explain-back: records [score, level]
    PromptVerdicts, \* records [level, asks, questions]
    LocateVerdicts  \* levels or NA

\* Any line that code may hold.
AllLines == Lines \union UNION {r.lines : r \in Replies}
SignalTypes == {"FOCUS_LOST", "TAB_HIDDEN", "WINDOW_BLUR", "FULLSCREEN_EXIT", "BURST_PASTE"}
RatedAs == {NA} \union 0..3

\* An exercise has a visible test (content/validate.py:34), and no code passes more tests
\* than there are; a judge's level is one of the scale, or none.
ASSUME SessionAssumption ==
    /\ Tick \in Nat /\ VisibleTotal \in Nat \ {0} /\ HiddenTotal \in Nat
    /\ \A lines \in SUBSET AllLines :
          SuiteResult(lines) \in [visible : 0..VisibleTotal, hidden : 0..HiddenTotal]
    /\ \A s \in Sessions : s.skew \in Int
    /\ Prompts \subseteq [short : BOOLEAN, shallow : BOOLEAN, specific : BOOLEAN, constrained : BOOLEAN, text : STRING]
    /\ Hypotheses \subseteq [correct : BOOLEAN, level : RatedAs]
    /\ \A types \in Signals : types \in Seq(SignalTypes)
    /\ Suites \subseteq [written : Nat, valid : Nat, covered : Nat, wanted : Nat, killed : Nat, total : Nat]
    /\ \A answers \in Answers : answers \in Seq([score : Nat, level : RatedAs])
    /\ PromptVerdicts \subseteq [level : RatedAs, asks : BOOLEAN, questions : BOOLEAN]
    /\ LocateVerdicts \subseteq RatedAs

VARIABLES
    exercise,       \* [kind, level, regions, tested]
    skew,           \* ticks by which the browser's clock is ahead
    clock,
    left,           \* steps of each kind the session may still take: a bound
    code,           \* the lines in the editor
    pending,        \* browser events not posted yet
    asking,         \* the prompt being answered
    log, replies, snaps, status,
    explained,      \* FluencyReport.explanation_score
    report

vars == <<exercise, skew, clock, left, code, pending, asking, log, replies, snaps, status, explained, report>>

Idle == [at |-> NA]      \* no prompt is being answered
NoReport == [engine |-> "none"]

\* An event is its type, its stamp, whether it is flagged, and its payload.
Merged(more, r) == [f \in DOMAIN r \union DOMAIN more |-> IF f \in DOMAIN more THEN more[f] ELSE r[f]]
Event(type, ts, payload) == Merged(payload, [type |-> type, ts |-> ts, flagged |-> FALSE])
Plain == [flagged |-> FALSE]
WithAll(events) ==
    LET upTo[n \in 0..Len(events)] == IF n = 0 THEN log ELSE Logged(upTo[n - 1], events[n])
    IN  upTo[Len(events)]
Judge(kind, levels) == [kind |-> kind, levels |-> levels, asks |-> <<>>, questions |-> <<>>]

\* The evidence gathered for the attempt, with what is being logged.
EvidenceOf(events) ==
    [kind |-> exercise.kind, level |-> exercise.level, regions |-> exercise.regions,
     log |-> events, replies |-> replies, snaps |-> snaps]

-----------------------------------------------------------------------------
(* The judges: a verdict without a level from 0 to 3 is unrated            *)

\* The verdict on a one-line answer is 0 without asking; a malformed one scores 0.
AnswerVerdict(answers) ==
    [score |-> IF answers = <<>> THEN 0 ELSE Summed([i \in DOMAIN answers |-> answers[i].score]) \div Len(answers),
     judge |-> Judge("explain", [i \in DOMAIN answers |-> answers[i].level])]

\* One call rates all prompts sent so far; when it fails they are all unrated.
PromptVerdict(rated) ==
    [kind |-> "prompts", levels |-> [i \in DOMAIN rated |-> rated[i].level],
     asks |-> [i \in DOMAIN rated |-> rated[i].asks], questions |-> [i \in DOMAIN rated |-> rated[i].questions]]

HasLocateStep == exercise.kind = "debug" /\ exercise.regions # <<>>
Located == HasLocateStep /\ Of(log, "LOCATE") # <<>>

\* The JUDGE events on prompts and location, where there is something to judge.
Judged(rated, located, ts) ==
    When(replies # <<>>, <<Event("JUDGE", ts, PromptVerdict(rated))>>)
    \o When(Located, <<Event("JUDGE", ts, Judge("locate", <<located>>))>>)

-----------------------------------------------------------------------------
(* The report                                                              *)

\* The integrity status and the timeline come from the first engine's features.
Report(engine, result, ev, explain) ==
    [engine |-> engine, axes |-> result.axes, overall |-> result.overall, tier |-> TierFor(result.overall),
     feedback |-> Feedback(result.axes, ev.log), timeline |-> Timeline(ev.log, explain),
     integrity |-> Integrity(ev.log), written |-> {},
     findings |-> IF engine = "v2" THEN Diagnose(result, ev) ELSE <<>>]

Result(engine, ev, explain) ==
    IF engine = "v2" THEN ScoreAttemptV2(ev, explain) ELSE ScoreAttempt(ev.log, explain, ev.kind)

ReportOf(engine, ev, explain) == Report(engine, Result(engine, ev, explain), ev, explain)

\* The line on what happened is the writer's for a finding on the student's own words
\* that it gave a usable line for, and the template's for all others.  Rescoring keeps a
\* written line while its finding is made, even for other words of the student's.
Worded(r, usable) == [r EXCEPT !.written = usable \intersect WRITTEN_CODES \intersect Codes(r.findings)]

-----------------------------------------------------------------------------
(* The student's session                                                   *)

\* A step of the session takes a tick; a pause takes four more.
Passing(kind, n) ==
    /\ left[kind] > 0
    /\ left' = [left EXCEPT ![kind] = @ - 1]
    /\ clock' = clock + n

Browser(type, payload) == Event(type, clock + skew, payload)

Init ==
    /\ \E s \in Sessions : exercise = s.exercise /\ skew = s.skew /\ left = s.steps
    /\ clock = 10
    /\ code = {} /\ pending = <<>> /\ asking = Idle
    /\ log = <<Event("OPEN", 10, [unread |-> FALSE])>>
    /\ replies = <<>> /\ snaps = <<>> /\ status = "in_progress"
    /\ explained = 0 /\ report = NoReport

\* The browser logs an opening of its own, with how much of the problem was seen.
Open ==
    /\ Passing("open", 1)
    /\ pending' = Append(pending, Browser("OPEN", [unread |-> TRUE]))
    /\ UNCHANGED <<exercise, skew, code, asking, log, replies, snaps, status, explained, report>>

\* One line typed or deleted, or the lines of the last reply pasted at once.
Edit ==
    /\ Passing("edit", 1)
    /\ \E new \in {code \union {l} : l \in Lines} \union {code \ {l} : l \in code}
                  \union {code \union replies[i].lines : i \in DOMAIN replies} :
          /\ new # code /\ code' = new
          /\ \E burst \in {FALSE, Cardinality(new \ code) > 1} :
                pending' = Append(pending, Browser("CODE_EDIT", [flagged |-> burst]))
    /\ UNCHANGED <<exercise, skew, asking, log, replies, snaps, status, explained, report>>

Signal ==
    /\ Passing("signal", 1)
    /\ \E types \in Signals : pending' = pending \o [i \in DOMAIN types |-> Browser(types[i], Plain)]
    /\ UNCHANGED <<exercise, skew, code, asking, log, replies, snaps, status, explained, report>>

Pause ==
    /\ Passing("pause", 5)
    /\ UNCHANGED <<exercise, skew, code, pending, asking, log, replies, snaps, status, explained, report>>

\* A message to the mentor, and its answer; both are logged with the answer.
Ask ==
    /\ asking.at = NA /\ Passing("ask", 1)
    /\ \E p \in Prompts : asking' = [prompt |-> p, at |-> clock]
    /\ UNCHANGED <<exercise, skew, code, pending, log, replies, snaps, status, explained, report>>

Answer ==
    /\ asking.at # NA
    /\ clock' = clock + 1
    /\ \E r \in Replies :
          /\ replies' = Append(replies, [lines |-> r.lines, at |-> asking.at])
          /\ log' = WithAll(<<Event("PROMPT", clock, asking.prompt),
                              Event("AI_REPLY", clock, [loc |-> r.loc, injected |-> r.injected])>>)
    /\ asking' = Idle
    /\ UNCHANGED <<exercise, skew, left, code, pending, snaps, status, explained, report>>

Hypothesize ==
    /\ Passing("hypothesis", 1)
    /\ \E h \in Hypotheses : log' = Logged(log, Event("HYPOTHESIS", clock, h))
    /\ UNCHANGED <<exercise, skew, code, pending, asking, replies, snaps, status, explained, report>>

Saved == Append(snaps, [version |-> Len(snaps) + 1, lines |-> code, at |-> clock])

\* A run saves the code and tries the visible tests; an attempt of any status may run.
Run ==
    /\ Passing("run", 1)
    /\ LET passed == SuiteResult(code).visible
       IN  log' = Logged(log, Event("RUN", clock, [passed |-> passed = VisibleTotal,
                     ratio |-> (100 * passed) \div VisibleTotal, starter |-> code = {}]))
    /\ snaps' = Saved
    /\ UNCHANGED <<exercise, skew, code, pending, asking, replies, status, explained, report>>

Hints == Len(Of(log, "DEBUG_HINT"))

Hint ==
    /\ HasLocateStep /\ status = "in_progress" /\ ~Located /\ Hints < 2
    /\ Passing("hint", 1)
    /\ log' = Logged(log, Event("DEBUG_HINT", clock, Plain))
    /\ UNCHANGED <<exercise, skew, code, pending, asking, replies, snaps, status, explained, report>>

Locate ==
    /\ HasLocateStep /\ status = "in_progress" /\ ~Located
    /\ Passing("locate", 1)
    /\ \E lines \in Locations :
          log' = Logged(log, Event("LOCATE", clock, [lines |-> lines, skipped |-> lines = {}, hints |-> Hints]))
    /\ UNCHANGED <<exercise, skew, code, pending, asking, replies, snaps, status, explained, report>>

\* The browser posts what it has logged; every status takes it.
Post ==
    /\ pending # <<>>
    /\ log' = WithAll(pending) /\ pending' = <<>>
    /\ UNCHANGED <<exercise, skew, clock, left, code, asking, replies, snaps, status, explained, report>>

-----------------------------------------------------------------------------
(* Submit, explain-back, and the operator's rescoring                      *)

\* The editor saves the code, the full suite runs on it, the student's tests are
\* evaluated where the exercise has them, and the submit is logged.
Submit ==
    /\ status # "scored" /\ Passing("submit", 1)
    /\ snaps' = Saved
    /\ \E tests \in Suites :
          LET suite == Event("SUBMIT_TESTS", clock,
                             Merged(SuiteResult(code), [visibleTotal |-> VisibleTotal, hiddenTotal |-> HiddenTotal]))
              own   == When(exercise.tested, <<Event("STUDENT_TESTS", clock, tests)>>)
          IN  log' = WithAll(<<suite>> \o own \o <<Event("SUBMIT", clock, Plain)>>)
    /\ status' = "submitted"
    /\ UNCHANGED <<exercise, skew, code, pending, asking, replies, explained, report>>

\* The answers are judged, then the prompts and the location, and the report written.
\* The endpoint does not ask that the attempt was submitted; the page does.
ExplainBack ==
    /\ status = "submitted"
    /\ \E answers \in Answers, rated \in [DOMAIN replies -> PromptVerdicts],
          located \in (IF Located THEN LocateVerdicts ELSE {NA}), usable \in {{}, WRITTEN_CODES} :
          LET verdict == AnswerVerdict(answers)
              events  == WithAll(<<Event("EXPLAIN_BACK", clock, Plain), Event("JUDGE", clock, verdict.judge)>>
                                 \o Judged(rated, located, clock))
          IN  /\ log' = events
              /\ explained' = verdict.score
              /\ report' = Worded(ReportOf("v2", EvidenceOf(events), verdict.score), usable)
    /\ status' = "scored" /\ clock' = clock + 1
    /\ UNCHANGED <<exercise, skew, left, code, pending, asking, replies, snaps>>

\* Verdicts never asked for: of hypotheses logged without a level, and of prompts when
\* the first was sent after the score.
Unjudged ==
    LET done == {v.for_ts : v \in ToSet(Verdicts(log, "hypothesis"))}
    IN  Where(Of(log, "HYPOTHESIS"), LAMBDA e : e.level = NA /\ e.ts \notin done)
PromptsUnjudged == replies # <<>> /\ Verdicts(log, "prompts") = <<>>

Backfill ==
    /\ status = "scored" /\ (PromptsUnjudged \/ Unjudged # <<>>)
    /\ Passing("rescore", 1)
    /\ \E level \in LocateVerdicts, rated \in [DOMAIN replies -> PromptVerdicts] :
          log' = WithAll(When(PromptsUnjudged, <<Event("JUDGE", clock, PromptVerdict(rated))>>)
                         \o [i \in DOMAIN Unjudged |->
                               Event("JUDGE", clock, Merged([for_ts |-> Unjudged[i].ts],
                                                            Judge("hypothesis", <<level>>)))])
    /\ UNCHANGED <<exercise, skew, code, pending, asking, replies, snaps, status, explained, report>>

Rescore ==
    /\ status = "scored" /\ Passing("rescore", 0)
    /\ \E engine \in {"v1", "v2"} : report' = Worded(ReportOf(engine, EvidenceOf(log), explained), report.written)
    /\ UNCHANGED <<exercise, skew, code, pending, asking, log, replies, snaps, status, explained>>

Next ==
    \/ Open \/ Edit \/ Signal \/ Pause \/ Ask \/ Answer \/ Hypothesize \/ Run \/ Hint \/ Locate
    \/ Post \/ Submit \/ ExplainBack \/ Backfill \/ Rescore

Spec == Init /\ [][Next]_vars

-----------------------------------------------------------------------------
(* Properties                                                              *)

Overalls(events) ==
    LET ev == EvidenceOf(events)
        v1 == ScoreAttempt(events, explained, exercise.kind)
    IN  [v1 |-> v1.overall, v2 |-> ScoreFound(ev, explained, Indicators(ev), v1).overall]
NoHigher(these, those) == these.v1 <= those.v1 /\ these.v2 <= those.v2

\* An integrity signal never pays: with either engine, no report is worth more than that
\* of the same log without one of its signals, whatever else the signal comes between
\* (features.py reads the event after a reply, engine.py scales every axis).
SignalsNeverPay ==
    LET worth == Overalls(log)
    IN  report.engine = "v2" =>
            \A i \in DOMAIN log :
                log[i].type \in SignalTypes => NoHigher(worth, Overalls(RemoveAt(log, i)))

\* A late fix of an exercise with a Tests tab: the visible tests already pass, after four
\* failing runs or more, and no located bug shares the rating of the debugging.
LateFix(ev) ==
    /\ FailingRuns(ev.log) >= 4 /\ VisibleOk(SubmitTests(ev.log)) /\ ~HasDebugParts(ev)
    /\ HasTestParts(ev) /\ RatedParts(TestParts(ev)) # <<>>

\* Solving the exercise never costs: had the submitted code passed the whole suite, all
\* else the same, the overall would be no lower, although an axis that was worth 0 or not
\* applicable may change the weights of the others (engine.py weighted_overall) and a fix
\* is also rated by the runs it took (rubric.py).  The second engine's exception is a late
\* fix: it loses a level of debugging (rubric.py:252), and of the same weight gains less
\* in testing, where the student's own tests share the rating.
SolvingPays ==
    LET passed == [i \in DOMAIN log |->
                     IF log[i].type # "SUBMIT_TESTS" THEN log[i]
                     ELSE [log[i] EXCEPT !.visible = VisibleTotal, !.hidden = HiddenTotal]]
        worth == Overalls(log)
        best  == Overalls(passed)
    IN  report.engine = "v2" =>
            /\ worth.v1 <= best.v1
            /\ LateFix(EvidenceOf(log)) \/ worth.v2 <= best.v2

\* A judge's outage never turns an axis into a missing one: the axes that apply are
\* those that would apply had every judge given the lowest level (engine_v2.py:6-9).
OutageKeepsAxes ==
    LET lowest == [i \in DOMAIN log |->
                     IF log[i].type # "JUDGE" THEN log[i]
                     ELSE [log[i] EXCEPT !.levels = [j \in DOMAIN log[i].levels |-> MaxOf(0, log[i].levels[j])]]]
        Applying(events) == LET axes == ScoreAttemptV2(EvidenceOf(events), explained).axes
                            IN  {a \in Axes : axes[a] # NA}
    IN  report.engine = "v2" => Applying(log) = Applying(lowest)

\* Pairs of findings of which a report may show one at most.
Contradictions ==
    {{"bug_not_fixed", "submitted_failing"}, {"partial_fix", "hidden_edge_failed"},
     {"quick_fix", "submitted_failing"}, {"trial_and_error", "submitted_failing"},
     {"bug_not_fixed", "all_tests_passed"}, {"partial_fix", "all_tests_passed"},
     {"pasted_ai_failing", "all_tests_passed"}, {"pasted_ai_failing", "quick_fix"},
     {"pasted_ai_unchecked", "submitted_failing"}, {"adapted_ai_code", "bug_not_fixed"}}

\* A report's diagnosis does not say a thing twice or contradict itself across the axes,
\* speaks only of axes that apply, and mentions integrity flags only where the page's
\* status is not green (diagnosis.py).
ReportIsConsistent ==
    report.engine = "v2" =>
        /\ \A pair \in Contradictions : ~ pair \subseteq Codes(report.findings)
        /\ \A i \in DOMAIN report.findings :
              report.findings[i].axis # "overall" => report.axes[report.findings[i].axis] # NA
        /\ report.integrity = "green" => "integrity_flags" \notin Codes(report.findings)
=============================================================================
