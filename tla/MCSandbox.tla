----------------------------- MODULE MCSandbox -----------------------------
(***************************************************************************)
(* Sandbox against what its callers rely on, for every program of three    *)
(* tests and every short script.  TLC evaluates the assumptions when it    *)
(* starts.                                                                 *)
(***************************************************************************)
EXTENDS Sandbox

Suite == <<1, 2, 3>>    \* 2 is hidden: a run has the visible ones, a submit all
Visible == <<1, 3>>

Programs ==
    [load : {"fine", "raises", "exits", "hangs"},
     does : [1..3 -> {"right", "wrong", "raises", "exits", "hangs"}],
     dirty : {{}, {2}}, fragile : {{}, {3}}]

\* A submit reads one case per test, in the order given (submit_tests.py:43),
\* whatever the code does; a process that stops in one test fails them all.
ASSUME EveryTestHasItsCase ==
    \A p \in Programs : \A tests \in {Suite, Visible, <<>>} :
        LET r == RunTests(p, tests)
        IN  /\ [i \in DOMAIN r.cases |-> r.cases[i].test] = tests
            /\ r.coverage = 1000 <=> r.passed = r.total /\ r.total > 0
            /\ r.error # "none" => r.passed = 0
            /\ r.passed > 0 => \A i \in DOMAIN tests : p.does[tests[i]] \notin {"exits", "hangs"}

\* A visible test that passed in a run passes at the submit of the same code,
\* unless a hidden test ends the process or leaves something behind.
ASSUME RunForetellsSubmit ==
    \A p \in Programs :
        (p.does[2] \notin {"exits", "hangs"} /\ p.dirty = {}) =>
            LET seen == {c.test : c \in {d \in ToSet(RunTests(p, Visible).cases) : d.passed}}
                then == {c.test : c \in {d \in ToSet(RunTests(p, Suite).cases) : d.passed}}
            IN  seen = then \ {2}

\* Otherwise it may not.
ASSUME HiddenTestsInterfere ==
    \E p \in Programs : /\ p.dirty # {} /\ RunTests(p, Visible).passed = 2
                        /\ RunTests(p, Suite).passed = 2 /\ p.does[2] = "right"

Lines   == {"prints", "raises", "reads", "exits", "hangs"}
Scripts == UNION {[1..n -> Lines] : n \in 0..3}
Loops   == {[i \in 1..n |-> "prints"] : n \in {1, 499, 500, 501, 600}}

\* A trace is bounded, a trace that is cut is no error, and a script that fails
\* on its own shows no frame at all, not even those before the line that failed.
ASSUME TracesAreBounded ==
    /\ \A s \in Scripts, c \in Scripts \union Loops :
         LET t == TraceCode(s, c)
         IN  /\ t.frames <= MAX_FRAMES
             /\ t.error = "prints" <=> "prints" = Ending(s) /\ "prints" = Ending(c)
             /\ Ending(s) # "prints" => t.frames = 0
             /\ t.frames < Len(c) /\ t.error = "prints" => Len(c) > MAX_FRAMES
    \* A script traced without a call prints everything twice.
    /\ \A s \in Scripts : TraceCode(s, <<>>).error = "prints" => TraceCode(s, <<>>).printed = 2 * Len(s)
=============================================================================
