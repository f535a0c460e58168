------------------------------ MODULE Feedback ------------------------------
(***************************************************************************)
(* The text of a report's findings (feedback/templates.py, writer.py): the *)
(* template of each code with the finding's numbers filled in, and the one *)
(* line a model may write instead, checked before it is used.              *)
(*                                                                         *)
(* A template is the set of names it leaves open; wording is left out. What *)
(* a model answers is a sequence of items [code, has, line], of which the   *)
(* field may be missing; a line is a sequence of parts [fenced, closed,    *)
(* rows, chars, names, copied]: prose or a block of code, its length,      *)
(* whether it names an exercise, whether it is the template's line.        *)
(***************************************************************************)
EXTENDS Diagnosis

MAX_FIELD_CHARS == 400
MAX_CODE_LINES == 2

\* Only the lines on the student's own words are asked for.
WRITTEN_CODES == {"explain_missing", "explain_shallow", "hypothesis_vague", "prompts_vague"}

\* What the first line of a code's template leaves open; the other lines are fixed.
TEMPLATES ==
    [code \in {"explain_missing", "explain_shallow", "explain_strong", "no_hypothesis", "hypothesis_vague",
               "hypothesis_after_code", "hypothesis_strong", "prompts_vague", "prompts_strong",
               "pasted_ai_failing", "pasted_ai_unchecked", "adapted_ai_code", "questioned_ai_code",
               "never_ran_tests", "all_tests_passed", "quick_fix", "no_student_tests", "strong_tests",
               "bug_located", "bug_not_located", "bug_explained_well", "bug_explanation_weak"} |-> {}]
    @@ [code \in {"asked_for_solution", "invalid_tests"} |-> {"count"}]
    @@ [code \in {"submitted_failing", "bug_not_fixed"} |-> {"passed", "total"}]
    @@ [code \in {"hidden_edge_failed", "partial_fix"} |-> {"failed_categories", "failed_tests"}]
    @@ [code \in {"trial_and_error"} |-> {"failing_runs"}]
    @@ [code \in {"missing_test_categories"} |-> {"categories"}]
    @@ [code \in {"mutants_survived"} |-> {"survived", "total"}]
    @@ [code \in {"integrity_flags"} |-> {"signals"}]

\* The params the finding of a code carries, where it is made.
ParamsOf(code) ==
    CASE code \in {"asked_for_solution", "invalid_tests"}    -> {"count"}
      [] code \in {"submitted_failing", "bug_not_fixed"}     -> {"passed", "total"}
      [] code \in {"hidden_edge_failed", "partial_fix"}      -> {"failed_categories", "failed_tests"}
      [] code = "trial_and_error"                            -> {"failing_runs"}
      [] code = "missing_test_categories"                    -> {"categories"}
      [] code = "mutants_survived"                           -> {"survived", "total"}
      [] code = "integrity_flags"                            -> {"paste", "focus_lost"}
      [] code = "bug_not_located"                            -> {"hints_used"}
      [] OTHER                                               -> {}

\* Lists always become words, and the counted signals, of which there is one, do.
Filled(code) ==
    (ParamsOf(code) \ {"paste", "focus_lost"})
    \union {"failed_categories", "failed_tests", "categories"}
    \union {n \in {"signals"} : ParamsOf(code) \intersect {"paste", "focus_lost"} # {}}

\* render: the line, what is written "?" in it, and the exercise to try next.
Render(code, next) == [line |-> <<code>>, unknown |-> TEMPLATES[code] \ Filled(code), try_next |-> next]

-----------------------------------------------------------------------------
(* The written line                                                        *)

\* Closed blocks longer than two lines go.
StripLongCode(line) == SelectSeq(line, LAMBDA p : ~(p.fenced /\ p.closed /\ p.rows > MAX_CODE_LINES))
Chars(line) == FoldLeft(LAMBDA n, p : n + p.chars, 0, line)

\* _validated: the line of an item, or why it is not used.
Validated(item) ==
    LET kept == StripLongCode(item.line)
        No(reason) == [line |-> <<>>, reason |-> reason]
    IN  IF ~item.has THEN No("missing_field")
        ELSE IF Chars(kept) = 0 THEN No("empty_field")
        ELSE IF Chars(kept) > MAX_FIELD_CHARS THEN No("too_long")
        ELSE IF \E i \in DOMAIN kept : kept[i].names THEN No("exercise_mentioned")
        ELSE IF Len(kept) = 1 /\ kept[1].copied THEN No("copied_template")
        ELSE [line |-> kept, reason |-> ""]

\* _ask: by code the first item with it, or what went wrong with the call.
AskWriter(answer) ==
    LET codes == {answer.items[i].code : i \in DOMAIN answer.items}
        FirstWith(code) == SelectSeq(answer.items, LAMBDA item : item.code = code)[1]
    IN  IF answer.outcome = "items"
        THEN [written |-> [code \in codes |-> FirstWith(code)], problem |-> "no_item"]
        ELSE [written |-> <<>>, problem |-> answer.outcome]

\* write_feedback: one entry per finding, in their order.
WriteFeedback(codes, answer, next) ==
    LET asked == AskWriter(answer)
        Entry(code) ==
            LET template == [code |-> code, text |-> Render(code, next), source |-> "template", fallback |-> ""]
                checked  == Validated(asked.written[code])
            IN  IF code \notin WRITTEN_CODES THEN template
                ELSE IF code \notin DOMAIN asked.written THEN [template EXCEPT !.fallback = asked.problem]
                ELSE IF checked.line = <<>> THEN [template EXCEPT !.fallback = checked.reason]
                ELSE [template EXCEPT !.source = "llm", !.text.line = checked.line]
    IN  [i \in DOMAIN codes |-> Entry(codes[i])]
=============================================================================
