----------------------------- MODULE MCFeedback -----------------------------
(***************************************************************************)
(* Feedback against the catalogue of findings and what the writer's notes  *)
(* promise of its lines.  TLC evaluates the assumptions when it starts.    *)
(***************************************************************************)
EXTENDS Feedback

Levels == {NA} \union 0..3
PromptsJudged(asks) ==
    [log |-> <<[type |-> "JUDGE", kind |-> "prompts", ts |-> 1, asks |-> <<asks>>]>>]
TestLevels == [valid : Levels, coverage : {NA, 2, 3}, mutation : Levels]
LocateLevels == [skipped : BOOLEAN, located : 0..3, explained : Levels]
Written == [written : 0..2, valid : 0..2, covered : 0..1, wanted : 0..1]

\* Every finding the operators of Diagnosis make, whatever they are given.
Made ==
    UNION {Codes(OnUnderstanding(n)) : n \in Levels}
    \union UNION {Codes(OnHypothesis(n, r)) : n \in Levels, r \in {"", "no_hypothesis", "after_code"}}
    \union UNION {Codes(OnPrompting(n, PromptsJudged(asks))) : n \in Levels, asks \in BOOLEAN}
    \union UNION {Codes(OnVerification(n, r)) : n \in Levels, r \in {"pasted_unchanged", "pasted_changed", "questioned"}}
    \union UNION {Codes(OnStudentTests(t, parts)) : t \in Written, parts \in TestLevels}
    \union UNION {Codes(OnCorrectness(n, r)) : n \in Levels, r \in {"never_ran", "hidden_fail", ""}}
    \union UNION {Codes(OnLocate(parts)) : parts \in LocateLevels}
    \union UNION {Codes(OnFix(r, n)) : r \in {"not_fixed", "partially_fixed", "fixed"}, n \in Levels}
    \union {"integrity_flags"}

\* Every finding has a template, none of which says "?" and none of which is of no use.
ASSUME EveryFindingHasItsText ==
    /\ Made = DOMAIN TEMPLATES
    /\ \A code \in Made : Render(code, "CP-001").unknown = {}
    /\ \A code \in WRITTEN_CODES : ParamsOf(code) = {}   \* so a rescore keeps every written line

Part(fenced, closed, rows, chars, names, copied) ==
    [fenced |-> fenced, closed |-> closed, rows |-> rows, chars |-> chars, names |-> names, copied |-> copied]
Parts == {Part(FALSE, TRUE, 1, 30, FALSE, FALSE), Part(FALSE, TRUE, 1, 380, FALSE, FALSE),
          Part(FALSE, TRUE, 1, 60, FALSE, TRUE), Part(FALSE, TRUE, 1, 30, TRUE, FALSE),
          Part(TRUE, TRUE, 2, 20, FALSE, FALSE), Part(TRUE, TRUE, 3, 90, TRUE, FALSE),
          Part(TRUE, FALSE, 9, 90, FALSE, FALSE)}
OwnLines == UNION {[1..n -> Parts] : n \in 0..3}
Item(code, line) == [code |-> code, has |-> TRUE, line |-> line]

LongCode(p) == p.fenced /\ p.rows > MAX_CODE_LINES
FitToShow(line) ==
    /\ Chars(line) \in 1..MAX_FIELD_CHARS /\ line # <<Part(FALSE, TRUE, 1, 60, FALSE, TRUE)>>
    /\ \A i \in DOMAIN line : ~line[i].names /\ ~(LongCode(line[i]) /\ line[i].closed)

\* A line that is shown keeps every promise, and one that does is shown as it is; a
\* block that is left open is not taken for code, however long.
ASSUME OnlyFitLinesAreShown ==
    /\ \A l \in OwnLines : LET shown == Validated(Item("x", l)).line IN
         /\ shown # <<>> => FitToShow(shown)
         /\ FitToShow(l) => shown = l
    /\ \E l \in OwnLines : \E i \in DOMAIN Validated(Item("x", l)).line : LongCode(Validated(Item("x", l)).line[i])

Fit == <<Part(FALSE, TRUE, 1, 30, FALSE, FALSE)>>
Unfit == <<Part(FALSE, TRUE, 1, 60, FALSE, TRUE)>>
SomeCodes == {"explain_missing", "prompts_vague", "quick_fix", "never_ran_tests"}
Findings == {s \in UNION {[1..n -> SomeCodes] : n \in 0..3} : IsInjective(s)}
Items == {[code |-> c, has |-> h, line |-> l] : c \in {"prompts_vague", "quick_fix", "made_up"},
                                               h \in BOOLEAN, l \in {Fit, Unfit}}
Answers_ == {[outcome |-> o, items |-> <<>>] : o \in {"timeout", "call_failed", "invalid_json"}}
            \union {[outcome |-> "items", items |-> s] : s \in UNION {[1..n -> Items] : n \in 0..2}}

\* Whatever the model answers, each finding has one text, in their order; the advice is
\* the template's, and where a line could have been the model's and is not, why is said.
ASSUME EveryFindingIsTold ==
    \A found \in Findings, answer \in Answers_ :
        LET entries == WriteFeedback(found, answer, "CP-001") IN
        /\ [i \in DOMAIN entries |-> entries[i].code] = found
        /\ \A i \in DOMAIN entries : LET e == entries[i] IN
             /\ e.text.line # <<>> /\ e.text.try_next = "CP-001"
             /\ e.source = "llm" => e.text.line = Fit /\ e.code \in WRITTEN_CODES /\ answer.outcome = "items"
             /\ e.fallback # "" <=> e.code \in WRITTEN_CODES /\ e.source = "template"
=============================================================================
