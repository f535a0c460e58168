------------------------------ MODULE Content ------------------------------
(***************************************************************************)
(* An exercise as it is written, checked and served: the starter a student *)
(* sees (exercises/starters.py), where a bug is and what may be said of it *)
(* (debug_regions.py), the validator of a content file (content/           *)
(* validate.py, schema.py) and the tests a student writes against it       *)
(* (student_tests/service.py, evaluate.py).                                *)
(*                                                                         *)
(* A source is a sequence of lines [kind, indent, comment].  The programs  *)
(* are Sandbox's.  The diff of two sources, difflib's, is a sequence of    *)
(* [tag, from, to] over the lines of the first, counted from 0.            *)
(***************************************************************************)
EXTENDS Sandbox, Integers

-----------------------------------------------------------------------------
(* Starters                                                                *)

Nowhere == -1
Pass(line) == [kind |-> "pass", indent |-> line.indent + 4, comment |-> FALSE]

\* Headers, imports and empty values stay; the body below a def goes, up to the first
\* line that is blank or not deeper, and so does any other statement.
Serve(served, line) ==
    LET inBody  == served.body # Nowhere /\ line.kind # "blank" /\ line.indent > served.body
        Adds(lines) == [served EXCEPT !.out = @ \o lines, !.body = Nowhere]
        Scaffold(body) == [out |-> served.out \o <<line, Pass(line)>>, body |-> body, callable |-> TRUE]
    IN  CASE inBody -> served
          [] ~inBody /\ line.kind = "import" -> Adds(<<line>>)
          [] ~inBody /\ line.kind = "value" /\ line.indent = 0 -> Adds(<<line>>)
          [] ~inBody /\ line.kind = "blank" /\ served.out # <<>> /\ Last(served.out).kind # "blank" -> Adds(<<line>>)
          [] ~inBody /\ line.kind = "class" -> Scaffold(Nowhere)
          [] ~inBody /\ line.kind = "def" -> Scaffold(line.indent)
          [] OTHER -> Adds(<<>>)

\* The text is stripped: of a last blank line, and of the first line's indent.
Stripped(lines) ==
    LET n == IF Last(lines).kind = "blank" THEN Len(lines) - 1 ELSE Len(lines)
    IN  [SubSeq(lines, 1, n) EXCEPT ![1].indent = 0]

\* A source with no header on a line of its own is served as it is.
StudentSafeStarter(source) ==
    LET served == FoldLeft(Serve, [out |-> <<>>, body |-> Nowhere, callable |-> FALSE], source)
    IN  IF served.callable THEN Stripped(served.out) ELSE source

\* A source that cannot be tokenized keeps its comments.
StripComments(source, tokenizes) ==
    LET kept == SelectSeq(source, LAMBDA l : l.kind # "comment")
    IN  IF tokenizes THEN [i \in DOMAIN kept |-> [kept[i] EXCEPT !.comment = FALSE]] ELSE source

StudentStarter(source, kind, tokenizes) ==
    IF kind = "debug" THEN StripComments(source, tokenizes) ELSE StudentSafeStarter(source)

\* normalize_code, is_untouched: blank lines do not count.
IsUntouched(source, starter) ==
    LET Code(s) == SelectSeq(s, LAMBDA l : l.kind # "blank")
    IN  Code(source) = <<>> \/ Code(source) = Code(starter)

-----------------------------------------------------------------------------
(* Where the bug is                                                        *)

\* What the fix replaces or deletes; with only insertions, the line after each.
Derive(lineCount, diff) ==
    LET changed  == SelectSeq(diff, LAMBDA op : op.tag \in {"replace", "delete"})
        inserted == SelectSeq(diff, LAMBDA op : op.tag = "insert")
        After(op) == IF op.from + 1 < lineCount THEN op.from + 1 ELSE lineCount
    IN  IF changed # <<>> THEN [i \in DOMAIN changed |-> (changed[i].from + 1)..changed[i].to]
        ELSE [i \in DOMAIN inserted |-> {After(inserted[i])}]

LinesOf(regions) == UNION ToSet(regions)

\* The second hint: from a line before the first to a line after the last.
HintRange(regions, lineCount) ==
    {n \in 1..lineCount : \E a, b \in LinesOf(regions) : a - 1 <= n /\ n <= b + 1}

-----------------------------------------------------------------------------
(* The validator.  A content is [tests, mutants, reference, minHidden,     *)
(* debug]: tests [hidden, category, description], numbered as in a program;*)
(* mutants [code, changed, bugLine], changed <<>> when the lengths differ; *)
(* debug <<>> or <<[regions, quotes]>>.  What is wrong is a set of names.  *)

When(condition, error) == IF condition THEN {error} ELSE {}

StructureErrors(c) ==
    LET Tests(hidden) == {i \in DOMAIN c.tests : c.tests[i].hidden = hidden}
    IN  When(Cardinality(Tests(FALSE)) \notin 1..2, "visible")
        \union When(Cardinality(Tests(TRUE)) \notin c.minHidden..8, "hidden")
        \union When(\E k \in {"boundary", "edge"} : \A i \in Tests(TRUE) : c.tests[i].category # k, "category")
        \union When(~IsInjective([i \in DOMAIN c.tests |-> c.tests[i].description]), "duplicate")
        \union When(Len(c.mutants) \notin 3..5, "mutants")

MutantErrors(c, m) ==
    LET result == RunTests(m.code, [i \in DOMAIN c.tests |-> i])
    IN  When(m.changed # <<{m.bugLine}>>, "lines")
        \union When(result.passed = result.total, "survives")
        \union When(result.passed = 0 /\ result.total > 0, "too_broken")

\* The regions as given, or as derived from the diff of the starter as it is served.
RegionsOf(debug, lineCount, diff) == IF debug.regions # <<>> THEN debug.regions ELSE Derive(lineCount, diff)

DebugErrors(debug, lineCount, diff) ==
    LET regions == RegionsOf(debug, lineCount, diff)
    IN  When(Len(regions) \notin 1..3, "regions")
        \union When(\E i \in DOMAIN regions : regions[i] = {}, "empty")
        \union When(\E i \in DOMAIN regions : Cardinality(regions[i]) > 3, "wide")
        \union When(~(LinesOf(regions) \subseteq 1..lineCount), "outside")
        \union When(\E i \in DOMAIN regions : /\ regions[i] # {} /\ regions[i] \subseteq 1..lineCount
                                              /\ regions[i] \intersect LinesOf(Derive(lineCount, diff)) = {}, "unchanged")
        \union When(debug.quotes, "quoted")

ValidateContent(c, kind, starter, compiles, lineCount, diff) ==
    LET cases == [i \in DOMAIN c.tests |-> i]
        AllPass(program) == RunTests(program, cases).passed = Len(cases)
    IN  StructureErrors(c)
        \union When(~compiles, "compile")
        \union When(~AllPass(c.reference) \/ RunTests(c.reference, cases).error # "none", "reference")
        \union UNION {MutantErrors(c, m) : m \in ToSet(c.mutants)}
        \union When(kind = "debug" /\ AllPass(starter), "no_bug")
        \union When((kind = "debug") # (c.debug # <<>>), "debug_block")
        \union IF kind = "debug" /\ c.debug # <<>> THEN DebugErrors(c.debug[1], lineCount, diff) ELSE {}

\* ContentReview.approved; debug_meta: what an approved block stores.
Approved(review) == review.status = "approved" /\ review.reviewer \notin {"", review.author}
DebugMeta(debug, lineCount, diff) == [regions |-> RegionsOf(debug, lineCount, diff)]

-----------------------------------------------------------------------------
(* The student's tests [test, allowed], each alone and all at submit       *)

Check(reference, t) ==
    IF ~t.allowed THEN "error"
    ELSE LET result == RunTests(reference, <<t.test>>)
         IN  IF result.passed = 1 THEN "valid"
             ELSE IF result.error # "none" \/ Outcome(reference, t.test, {}) = "raises" THEN "error"
             ELSE "wrong_expected"

Evaluate(reference, mutants, tests) ==
    LET allowed == SelectSeq(tests, LAMBDA t : t.allowed)
        result  == RunTests(reference, [i \in DOMAIN allowed |-> allowed[i].test])
        valid   == SelectSeq(result.cases, LAMBDA c : c.passed)
        Killed(code) == LET r == RunTests(code, [i \in DOMAIN valid |-> valid[i].test])
                        IN  valid # <<>> /\ r.passed < r.total
    IN  [valid |-> {valid[i].test : i \in DOMAIN valid}, killed |-> {i \in DOMAIN mutants : Killed(mutants[i].code)}]

\* report_block: the mutants that survived, of those that still have a row.
Missed(evaluation, rows) == rows \ evaluation.killed

\* run_on_own_code: what passes on the student's code; tests outside the rules are not run.
RunOnOwnCode(code, tests) ==
    LET allowed == SelectSeq(tests, LAMBDA t : t.allowed)
        cases   == ToSet(RunTests(code, [i \in DOMAIN allowed |-> allowed[i].test]).cases)
    IN  [i \in DOMAIN tests |-> tests[i].allowed /\ Case(tests[i].test, TRUE) \in cases]
=============================================================================
