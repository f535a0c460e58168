------------------------------ MODULE Diagnosis ------------------------------
(***************************************************************************)
(* What the feedback of a report may talk about (app/features/feedback/    *)
(* diagnosis.py): the findings drawn from a result of the second engine    *)
(* and its evidence, ranked, three risks and two strengths at most.  What   *)
(* is written about each, and its parameters, are left out.                *)
(***************************************************************************)
EXTENDS Rubric

MAX_RISKS == 3
MAX_STRENGTHS == 2

Rank == [high |-> 0, medium |-> 1, low |-> 2]
AxisRank(axis) == IF axis = "overall" THEN 100 ELSE WEIGHTS[axis]

Risk(code, axis, severity) == <<[code |-> code, axis |-> axis, kind |-> "risk", severity |-> severity]>>
Strength(code, axis) == <<[code |-> code, axis |-> axis, kind |-> "strength", severity |-> "low"]>>
When(condition, findings) == IF condition THEN findings ELSE <<>>
Codes(found) == {found[i].code : i \in DOMAIN found}

OnUnderstanding(level) ==
    When(level = 0, Risk("explain_missing", "understanding", "high"))
    \o When(level \in {1, 2}, Risk("explain_shallow", "understanding", "medium"))
    \o When(level = 3, Strength("explain_strong", "understanding"))

OnHypothesis(level, reason) ==
    IF reason = "no_hypothesis" THEN Risk("no_hypothesis", "hypothesis", "medium")
    ELSE IF reason = "after_code" THEN Risk("hypothesis_after_code", "hypothesis", "low")
    ELSE When(level = 1, Risk("hypothesis_vague", "hypothesis", "low"))
         \o When(level = 3, Strength("hypothesis_strong", "hypothesis"))

OnPrompting(level, ev) ==
    LET asks == LatestJudge(ev.log, "prompts").asks
        asked == \E i \in DOMAIN asks : asks[i]
    IN  When(level # NA /\ asked, Risk("asked_for_solution", "prompting", "high"))
        \o When(level \in {0, 1} /\ ~asked, Risk("prompts_vague", "prompting", "medium"))
        \o When(level = 3, Strength("prompts_strong", "prompting"))

OnVerification(level, reason) ==
    When(reason = "pasted_unchanged",
         IF level = 0 THEN Risk("pasted_ai_failing", "verification", "high")
         ELSE Risk("pasted_ai_unchecked", "verification", "medium"))
    \o When(reason = "pasted_changed" /\ level = 3, Strength("adapted_ai_code", "verification"))
    \o When(reason = "questioned", Strength("questioned_ai_code", "verification"))

OnStudentTests(t, parts) ==
    IF parts.valid = NA THEN <<>>
    ELSE IF t.written = 0 THEN Risk("no_student_tests", "testing", "high")
    ELSE When(t.valid < t.written, Risk("invalid_tests", "testing", "medium"))
         \o When(t.valid > 0 /\ t.covered < t.wanted, Risk("missing_test_categories", "testing", "low"))
         \o When(t.valid > 0 /\ parts.mutation \in 0..2, Risk("mutants_survived", "testing", "medium"))
         \o When(parts.valid = 3 /\ parts.coverage \in {3, NA} /\ parts.mutation \in {3, NA},
                 Strength("strong_tests", "testing"))

OnCorrectness(level, reason) ==
    IF reason = "never_ran" THEN Risk("never_ran_tests", "testing", "high")
    ELSE When(level \in {0, 1}, Risk("submitted_failing", "testing", "high"))
         \o When(level = 2 /\ reason = "hidden_fail", Risk("hidden_edge_failed", "testing", "medium"))
         \o When(level = 3, Strength("all_tests_passed", "testing"))

OnTesting(level, reason, ev) ==
    IF HasTestParts(ev)
    THEN OnStudentTests(StudentTests(ev), TestParts(ev)) \o OnCorrectness(Correctness(ev.log).level \div 12, reason)
    ELSE OnCorrectness(level, reason)

OnLocate(parts) ==
    When(parts.located = 0, Risk("bug_not_located", "debugging", "medium"))
    \o When(parts.located = 3, Strength("bug_located", "debugging"))
    \o When(~parts.skipped /\ parts.explained \in {0, 1}, Risk("bug_explanation_weak", "debugging", "low"))
    \o When(~parts.skipped /\ parts.explained = 3, Strength("bug_explained_well", "debugging"))

OnFix(reason, paced) ==
    When(reason = "not_fixed", Risk("bug_not_fixed", "debugging", "high"))
    \o When(reason = "partially_fixed", Risk("partial_fix", "debugging", "medium"))
    \o When(reason = "fixed" /\ paced = 1, Risk("trial_and_error", "debugging", "medium"))
    \o When(reason = "fixed" /\ paced = 3, Strength("quick_fix", "debugging"))

OnDebugging(level, reason, ev) ==
    IF HasDebugParts(ev) THEN OnLocate(DebugParts(ev)) \o OnFix(reason, DebugParts(ev).efficiency)
    ELSE OnFix(reason, level)

Found(result, ev) ==
    OnUnderstanding(result.levels.understanding)
    \o OnHypothesis(result.levels.hypothesis, result.found.hypothesis.reason)
    \o OnPrompting(result.levels.prompting, ev)
    \o OnVerification(result.levels.verification, result.found.verification.reason)
    \o OnTesting(result.levels.testing, result.found.testing.reason, ev)
    \o OnDebugging(result.levels.debugging, result.found.debugging.reason, ev)

\* A failed submit is both an unfixed bug and a failing suite, a missed edge both a
\* partial fix and a gap in testing: each is said once.
SaidOnce_EdgeOnly(found, kind) ==        \* mutant: the failed submit is said twice
    Where(found, LAMBDA f : ~(f.code = "hidden_edge_failed" /\ "partial_fix" \in Codes(found)))

SaidOnce(found, kind) ==
    LET twice == {"bug_not_fixed", "submitted_failing"} \subseteq Codes(found)
        drop  == IF kind = "debug" THEN "submitted_failing" ELSE "bug_not_fixed"
    IN  Where(found, LAMBDA f :
            /\ ~(f.code = "hidden_edge_failed" /\ "partial_fix" \in Codes(found))
            /\ ~(f.code = drop /\ twice))

\* Risks by severity, then risks and strengths alike by the weight of the axis.
RankOf(f) == (IF f.kind = "risk" THEN 1000 * Rank[f.severity] ELSE 0) - AxisRank(f.axis)

\* Those of a kind, each put after the ones of its rank or less that came before it.
Ranked(found, kind) ==
    LET of == Where(found, LAMBDA f : f.kind = kind)
        upTo[n \in 0..Len(of)] ==
            IF n = 0 THEN <<>>
            ELSE LET k == Count(upTo[n - 1], LAMBDA f : RankOf(f) <= RankOf(of[n]))
                 IN  InsertAt(upTo[n - 1], k + 1, of[n])
    IN  upTo[Len(of)]

Picked(said) == Shown(MAX_RISKS, Ranked(said, "risk")) \o Shown(MAX_STRENGTHS, Ranked(said, "strength"))

Diagnose(result, ev) ==
    Picked(SaidOnce(Found(result, ev), ev.kind)
           \o When(Multiplier(ev.log) < 100, Risk("integrity_flags", "overall", "high")))
=============================================================================
