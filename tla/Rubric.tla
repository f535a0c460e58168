------------------------------- MODULE Rubric --------------------------------
(***************************************************************************)
(* The second scoring engine (app/features/scoring/rubric.py, evidence.py, *)
(* engine_v2.py): each axis gets a level of the raters' scale 0..3 from    *)
(* the evidence of an attempt, or none, and a level is worth 20 x level/3. *)
(*                                                                         *)
(* Evidence is a record: the exercise's kind and level, the regions of its *)
(* bug, the log, the mentor's replies in the order they were stored, the   *)
(* snapshots in the order of their times.  Code, of a reply or a snapshot, *)
(* is the set of its lines.  A level is counted in twelfths, so that the   *)
(* mean of up to four is exact; quotes are left out.                       *)
(***************************************************************************)
EXTENDS Scoring

Indicator(level, reason) == [level |-> level, reason |-> reason]

Known(levels) == Where(levels, LAMBDA v : v # NA)
Summed(numbers) ==
    LET upTo[n \in 0..Len(numbers)] == IF n = 0 THEN 0 ELSE upTo[n - 1] + numbers[n]
    IN  upTo[Len(numbers)]
MeanLevel(levels) == (12 * Summed(levels)) \div Len(levels)

\* The k-th of the levels by size, and the mean of the middle two, or twice the middle one.
Smallest(levels, k) ==
    CHOOSE v \in {levels[i] : i \in DOMAIN levels} :
        /\ Count(levels, LAMBDA u : u < v) < k
        /\ Count(levels, LAMBDA u : u <= v) >= k
MedianLevel(levels) ==
    6 * (Smallest(levels, (Len(levels) + 1) \div 2) + Smallest(levels, (Len(levels) + 2) \div 2))

NoVerdict == [levels |-> <<>>, asks |-> <<>>, questions |-> <<>>]
Verdicts(log, kind) == Where(Of(log, "JUDGE"), LAMBDA e : e.kind = kind)
LatestJudge(log, kind) == IF Verdicts(log, kind) = <<>> THEN NoVerdict ELSE Last(Verdicts(log, kind))

RealRuns(log) == Where(Of(log, "RUN"), LAMBDA r : ~r.starter)
FailingRuns(log) == Count(RealRuns(log), LAMBDA r : r.ratio < 100)

VisibleOk(suite) == suite # NoSuite /\ suite.visible = suite.visibleTotal

\* The whole suite passed at submit; without one, the last run of the student's own code did.
Solved(log) ==
    LET suite == SubmitTests(log)
    IN  IF TotalOf(suite) > 0 THEN PassedOf(suite) = TotalOf(suite)
        ELSE RealRuns(log) # <<>> /\ Last(RealRuns(log)).ratio = 100

-----------------------------------------------------------------------------
(* Understanding, hypothesis, prompting                                    *)

UnderstandingLevel(ev) ==
    LET rated == Known(LatestJudge(ev.log, "explain").levels)
    IN  IF rated = <<>> THEN Indicator(NA, "unrated") ELSE Indicator(MeanLevel(rated), "")

\* The level of a hypothesis: as judged when logged, or asked for later; else only
\* whether it was correct counts.  The best level needs it logged before any edit.
HypothesisLevel(log, e) ==
    LET later == Where(Verdicts(log, "hypothesis"), LAMBDA v : v.for_ts = e.ts)
        level == IF e.level = NA /\ later # <<>> THEN Last(later).levels[1] ELSE e.level
        late  == Of(log, "CODE_EDIT") # <<>> /\ e.ts > FirstTs(log, "CODE_EDIT")
    IN  IF level = NA THEN Indicator(12 * (IF e.correct THEN 2 ELSE 1), "verdict_only")
        ELSE IF level = 3 /\ late THEN Indicator(24, "after_code")
        ELSE Indicator(12 * level, "")

\* Of the first of the indicators with the least, or the most, level.
Worst(found) == found[CHOOSE i \in DOMAIN found : \A j \in DOMAIN found :
                        found[i].level < found[j].level \/ (found[i].level = found[j].level /\ i <= j)]
Best(found) == found[CHOOSE i \in DOMAIN found : \A j \in DOMAIN found :
                        found[i].level > found[j].level \/ (found[i].level = found[j].level /\ i <= j)]

BestHypothesis(ev) ==
    LET hyps == Of(ev.log, "HYPOTHESIS")
    IN  IF hyps = <<>> THEN Indicator(0, "no_hypothesis")
        ELSE Best([i \in DOMAIN hyps |-> HypothesisLevel(ev.log, hyps[i])])

PromptingLevel(ev) ==
    LET rated == Known(LatestJudge(ev.log, "prompts").levels)
    IN  IF Of(ev.log, "PROMPT") = <<>> THEN Indicator(NA, "no_ai_use")
        ELSE IF rated = <<>> THEN Indicator(NA, "unrated")
        ELSE Indicator(MedianLevel(rated), "")

-----------------------------------------------------------------------------
(* Verification: what became of the code in each of the mentor's replies   *)

FinalCode(ev) ==
    IF ev.snaps = <<>> THEN {}
    ELSE ev.snaps[CHOOSE i \in DOMAIN ev.snaps :
                    \A j \in DOMAIN ev.snaps : ev.snaps[i].version >= ev.snaps[j].version].lines

CodeAt(ev, at) ==
    LET before == Where(ev.snaps, LAMBDA s : s.at <= at)
    IN  IF before = <<>> THEN {} ELSE Last(before).lines

\* The new lines of a reply that the first snapshot to hold 70% of them holds.
PastedLines(ev, reply) ==
    LET new  == reply.lines \ CodeAt(ev, reply.at)
        took == Where(ev.snaps, LAMBDA s : s.at > reply.at
                    /\ 10 * Cardinality(new \intersect s.lines) >= 7 * Cardinality(new))
    IN  IF Cardinality(new) < 2 \/ took = <<>> THEN {} ELSE new \intersect took[1].lines

\* Whether a prompt after the i-th asks about code the mentor gave.
Questioned(ev, i) ==
    LET flags == LatestJudge(ev.log, "prompts").questions
    IN  \E j \in DOMAIN flags : j > i /\ flags[j]

Outcome(ev, i) ==
    LET pasted == PastedLines(ev, ev.replies[i])
        ok(yes, no) == 12 * (IF Solved(ev.log) THEN yes ELSE no)
    IN  IF pasted # {} /\ pasted \subseteq FinalCode(ev) THEN Indicator(ok(1, 0), "pasted_unchanged")
        ELSE IF pasted # {} THEN Indicator(ok(3, 2), "pasted_changed")
        ELSE IF Questioned(ev, i) THEN Indicator(36, "questioned")
        ELSE Indicator(24, "not_used")

VerificationLevel(ev) ==
    LET coded == Where([i \in DOMAIN ev.replies |-> i], LAMBDA i : ev.replies[i].lines # {})
    IN  IF coded = <<>> THEN Indicator(NA, "no_ai_code")
        ELSE Worst([k \in DOMAIN coded |-> Outcome(ev, coded[k])])

-----------------------------------------------------------------------------
(* Testing: correctness, and the tests the student wrote                   *)

Correctness(log) ==
    LET suite == SubmitTests(log)
        runs  == Of(log, "RUN")
    IN  IF TotalOf(suite) > 0
        THEN IF PassedOf(suite) = TotalOf(suite) THEN Indicator(36, "all_pass")
             ELSE IF runs = <<>> THEN Indicator(0, "never_ran")
             ELSE IF VisibleOk(suite) THEN Indicator(24, "hidden_fail")
             ELSE IF 2 * PassedOf(suite) < TotalOf(suite) THEN Indicator(0, "mostly_failing")
             ELSE Indicator(12, "visible_fail")
        ELSE IF runs = <<>> THEN Indicator(0, "never_ran")
        ELSE Indicator(IF Last(runs).ratio = 100 THEN 24 ELSE IF Last(runs).ratio > 0 THEN 12 ELSE 0,
                       "no_suite")

\* Levels of a share n/d: of valid tests, of categories covered, of mutants killed.
ShareLevel(n, d) == IF n >= d THEN 3 ELSE IF 4 * n >= 3 * d THEN 2 ELSE IF 2 * n >= d THEN 1 ELSE 0
CoverageLevel(n, d) == IF n >= d THEN 3 ELSE IF n = d - 1 /\ n > 0 THEN 2 ELSE IF n > 0 THEN 1 ELSE 0
MutationLevel(n, d) == IF n >= d THEN 3 ELSE IF 3 * n >= 2 * d THEN 2 ELSE IF 3 * n >= d THEN 1 ELSE 0

MaxOf(m, n) == IF m > n THEN m ELSE n

\* The exercise has a Tests tab; the levels of its three parts.
HasTestParts(ev) == Of(ev.log, "STUDENT_TESTS") # <<>>
StudentTests(ev) == Last(Of(ev.log, "STUDENT_TESTS"))

TestParts(ev) ==
    LET t == StudentTests(ev)
        optional == ev.level = "fresher"
        skipped  == optional /\ t.written = 0
    IN  [valid |-> IF skipped THEN NA
                   ELSE ShareLevel(t.valid, MaxOf(t.written, IF optional THEN 1 ELSE 3)),
         coverage |-> IF skipped \/ t.wanted = 0 THEN NA ELSE CoverageLevel(t.covered, t.wanted),
         mutation |-> IF skipped \/ t.total = 0 THEN NA ELSE MutationLevel(t.killed, t.total)]

WithTests(rated, correctness) ==
    Indicator((12 * Summed(rated) + correctness.level) \div (Len(rated) + 1), correctness.reason)

RatedParts(parts) == Known(<<parts.valid, parts.coverage, parts.mutation>>)

TestingLevel(ev) ==
    IF HasTestParts(ev) THEN WithTests(RatedParts(TestParts(ev)), Correctness(ev.log)) ELSE Correctness(ev.log)

-----------------------------------------------------------------------------
(* Debugging                                                               *)

Efficiency_Inverted(fails) == IF fails <= 1 THEN 1 ELSE IF fails <= 3 THEN 2 ELSE 3  \* mutant: the levels upside down
Efficiency(fails) == IF fails <= 1 THEN 3 ELSE IF fails <= 3 THEN 2 ELSE 1

\* What the student marked, and whether it hits each region of the bug.
HitRegions(regions, lines) == [i \in DOMAIN regions |-> regions[i] \intersect lines # {}]

LocatedLevel(hit, hints) ==
    IF \A i \in DOMAIN hit : hit[i] THEN MaxOf(1, 3 - hints)
    ELSE IF \E i \in DOMAIN hit : hit[i] THEN (IF hints = 0 THEN 2 ELSE 1) ELSE 0

FixedLevel(log) ==
    LET suite == SubmitTests(log)
    IN  IF Solved(log) THEN 3
        ELSE IF VisibleOk(suite) THEN 2
        ELSE IF suite # NoSuite THEN (IF suite.visible > 0 THEN 1 ELSE 0)
        ELSE IF RealRuns(log) # <<>> /\ Last(RealRuns(log)).ratio > 0 THEN 1 ELSE 0

\* A debug exercise with a locate step, that was taken; the levels of its four parts.
HasDebugParts(ev) == ev.kind = "debug" /\ Of(ev.log, "LOCATE") # <<>> /\ ev.regions # <<>>

DebugParts(ev) ==
    LET at    == Of(ev.log, "LOCATE")[1]
        judged == LatestJudge(ev.log, "locate").levels
        fixed == FixedLevel(ev.log)
    IN  [skipped |-> at.skipped,
         located |-> IF at.skipped THEN 0 ELSE LocatedLevel(HitRegions(ev.regions, at.lines), at.hints),
         explained |-> IF judged # <<>> /\ judged[1] # NA THEN judged[1] ELSE IF at.skipped THEN 0 ELSE NA,
         fixed |-> fixed,
         efficiency |-> IF fixed = 3 THEN Efficiency(FailingRuns(ev.log)) ELSE NA]

OfParts(parts) ==
    Indicator(MeanLevel(Known(<<parts.located, parts.explained, parts.fixed, parts.efficiency>>)),
              IF parts.fixed = 3 THEN "fixed" ELSE IF parts.fixed = 2 THEN "partially_fixed" ELSE "not_fixed")

DebuggingLevel(ev) ==
    LET fails == FailingRuns(ev.log)
    IN  IF ev.kind # "debug" /\ fails = 0 THEN Indicator(NA, "no_failure")
        ELSE IF HasDebugParts(ev) THEN OfParts(DebugParts(ev))
        ELSE IF Solved(ev.log) THEN Indicator(12 * Efficiency(fails), "fixed")
        ELSE IF VisibleOk(SubmitTests(ev.log)) THEN Indicator(24, "partially_fixed")
        ELSE Indicator(0, "not_fixed")

-----------------------------------------------------------------------------
(* The engine                                                              *)

Indicators(ev) ==
    [understanding |-> UnderstandingLevel(ev), hypothesis |-> BestHypothesis(ev),
     prompting |-> PromptingLevel(ev), verification |-> VerificationLevel(ev),
     testing |-> TestingLevel(ev), debugging |-> DebuggingLevel(ev)]

DisplayLevel(level) == IF level = NA THEN NA ELSE (level + 6) \div 12

\* The points of an axis before the multiplier; an axis whose judge gave no verdict
\* takes the first engine's.
Unrated_Dropped(found, fallback) == NA         \* mutant: an unrated axis is not applicable
Unrated(found, fallback) == IF found.reason = "unrated" THEN fallback ELSE NA

StandIns(found, v1, explain) ==
    [a \in Axes |-> Unrated(found[a], IF a = "understanding" THEN explain ELSE v1.raw[a])]

ScoredV2(found, standIn, mult) ==
    LET axes == [a \in Axes |-> IF found[a].level # NA THEN Rounded(2000 * found[a].level * mult, 3600)
                                ELSE IF standIn[a] # NA THEN Rounded(standIn[a] * mult, 100) ELSE NA]
    IN  [axes |-> axes, overall |-> Overall(axes), found |-> found,
         levels |-> [a \in Axes |-> IF found[a].level # NA THEN DisplayLevel(found[a].level)
                                    ELSE IF standIn[a] # NA
                                    THEN DisplayLevel((36 * standIn[a]) \div 2000) ELSE NA]]

ScoreFound(ev, explain, found, v1) == ScoredV2(found, StandIns(found, v1, explain), Multiplier(ev.log))
ScoreAttemptV2(ev, explain) == ScoreFound(ev, explain, Indicators(ev), ScoreAttempt(ev.log, explain, ev.kind))
=============================================================================
