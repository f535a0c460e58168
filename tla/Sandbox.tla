------------------------------ MODULE Sandbox ------------------------------
(***************************************************************************)
(* The runner of student code (features/sandbox/runner.py): one process    *)
(* loads the code and evaluates every test in the same namespace, or       *)
(* traces it line by line for the practice page (practice/router.py).      *)
(*                                                                         *)
(* A program is what a run of it does: how it loads, what a test gives it, *)
(* and what tests leave behind for the ones after them.  "raises" is an    *)
(* Exception, a MemoryError included; "exits" ends the process without a   *)
(* line of output (SystemExit, a signal); "hangs" runs into the timeout.   *)
(* The text of outputs and errors, and the limits set for the process, are *)
(* left out.                                                               *)
(***************************************************************************)
EXTENDS Naturals, Sequences, FiniteSets, SequencesExt

MAX_FRAMES == 500

Case(test, passed) == [test |-> test, passed |-> passed]

\* _result: without cases every test failed.
Result(cases, error, tests) ==
    LET all    == IF cases = <<>> THEN [i \in DOMAIN tests |-> Case(tests[i], FALSE)] ELSE cases
        passed == Cardinality({i \in DOMAIN all : all[i].passed})
    IN  [cases |-> all, passed |-> passed, total |-> Len(tests), error |-> error,
         coverage |-> IF tests = <<>> THEN 0 ELSE (1000 * passed) \div Len(tests)]

\* A test after one that left something behind may see it.
Outcome(program, test, before) ==
    IF program.does[test] = "right" /\ test \in program.fragile /\ before \intersect program.dirty # {}
    THEN "wrong" ELSE program.does[test]

\* The harness: the cases so far, the tests that ran, and what ended it early.
Harness(program, tests) ==
    LET Evaluate(run, test) ==
            LET outcome == Outcome(program, test, run.ran)
            IN  IF run.ended # "no" THEN run
                ELSE IF outcome \in {"exits", "hangs"} THEN [run EXCEPT !.ended = outcome]
                ELSE [run EXCEPT !.cases = Append(@, Case(test, outcome = "right")),
                                 !.ran = @ \union {test}]
        loaded == [cases |-> <<>>, ran |-> {}, ended |-> IF program.load = "fine" THEN "no" ELSE program.load]
    IN  FoldLeft(Evaluate, loaded, tests)

\* The cases are printed once, by a process that reaches its end.
RunTests(program, tests) ==
    LET run == Harness(program, tests)
    IN  IF run.ended = "no" THEN Result(run.cases, "none", tests)
        ELSE Result(<<>>, CASE run.ended = "raises" -> "runtime"
                            [] run.ended = "hangs"  -> "timeout"
                            [] run.ended = "exits"  -> "process", tests)

-----------------------------------------------------------------------------
(* The trace of a script, a sequence of what its lines do, alone or with a *)
(* call of its function, the lines of which are traced then.               *)

\* The lines that run, up to the one that fails.
Reached(lines) ==
    LET bad == {i \in DOMAIN lines : lines[i] # "prints"}
    IN  IF bad = {} THEN lines ELSE SubSeq(lines, 1, CHOOSE i \in bad : \A j \in bad : i <= j)

Ending(lines) == LET run == Reached(lines) IN IF run = <<>> THEN "prints" ELSE Last(run)

\* Tracing stops the code at its 501st line, which is no error.
Traced(lines) ==
    LET run == Reached(lines)
    IN  IF Len(run) > MAX_FRAMES THEN [frames |-> MAX_FRAMES, ended |-> "prints", printed |-> MAX_FRAMES]
        ELSE [frames |-> Len(run), ended |-> Ending(lines), printed |-> Len(SelectSeq(run, LAMBDA l : l = "prints"))]

\* The sample input of the first visible test drives a trace of an exercise.
CallOf(call, visible) == IF call = <<>> /\ visible # <<>> THEN visible ELSE call

\* The script runs once untraced, then its call, or all of it again, is traced
\* into the same output.
TraceCode(script, call) ==
    LET once   == Len(SelectSeq(Reached(script), LAMBDA l : l = "prints"))
        traced == Traced(IF call = <<>> THEN script ELSE call)
        ended  == IF Ending(script) = "prints" THEN traced.ended ELSE Ending(script)
    IN  IF ended \in {"exits", "hangs"} THEN [frames |-> 0, printed |-> 0, error |-> ended]
        ELSE IF Ending(script) # "prints" THEN [frames |-> 0, printed |-> once, error |-> ended]
        ELSE [frames |-> traced.frames, printed |-> once + traced.printed, error |-> ended]
=============================================================================
