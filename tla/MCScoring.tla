------------------------------- MODULE MCScoring -------------------------------
(* A small instance of ScoredSession.  A code passes the visible tests with *)
(* the line "v", and the hidden one with "v" and without "h".               *)
EXTENDS ScoredSession, MCFeedback

MC_Lines == {"v", "h"}
MC_SuiteResult(lines) ==
    [visible |-> IF "v" \in lines THEN 2 ELSE IF lines = {} THEN 0 ELSE 1,
     hidden |-> IF "v" \in lines /\ "h" \notin lines THEN 1 ELSE 0]

Implement == [kind |-> "implement", level |-> "fresher", regions |-> <<>>, tested |-> FALSE]
Debug == [kind |-> "debug", level |-> "junior", regions |-> <<{2}, {5}>>, tested |-> TRUE]
Tested == [Implement EXCEPT !.tested = TRUE]

StepKinds == {"open", "edit", "signal", "pause", "ask", "hypothesis", "run", "hint", "locate", "submit", "rescore"}
Session(exercise_, skew_, steps) ==
    [exercise |-> exercise_, skew |-> skew_,
     steps |-> [k \in StepKinds |-> IF k \in DOMAIN steps THEN steps[k] ELSE 0]]

\* Each session is about something: the mentor's code, the clocks, fixing, locating,
\* integrity, submitting again, what comes after the score, fixing late.
MC_Sessions ==
    {Session(Implement, 0, [ask |-> 1, edit |-> 1, submit |-> 1]),
     Session(Implement, -3, [open |-> 1, ask |-> 1, submit |-> 1, rescore |-> 2]),
     Session(Implement, -3, [hypothesis |-> 1, edit |-> 1, submit |-> 1, rescore |-> 2]),
     Session(Implement, 0, [run |-> 2, edit |-> 2, submit |-> 1, rescore |-> 1]),
     Session(Debug, 0, [hint |-> 1, locate |-> 1, edit |-> 1, submit |-> 1, rescore |-> 1]),
     Session(Implement, 0, [signal |-> 2, pause |-> 1, submit |-> 1, rescore |-> 1]),
     Session(Implement, 0, [signal |-> 1, ask |-> 1, submit |-> 1]),
     Session(Debug, 0, [ask |-> 2, submit |-> 1]),
     Session(Debug, 0, [run |-> 1, edit |-> 1, submit |-> 2, rescore |-> 1]),
     Session(Tested, 0, [run |-> 4, edit |-> 2, submit |-> 1])}
MC_Similar == {}
MC_Prompts ==
    {[short |-> TRUE, shallow |-> TRUE, specific |-> FALSE, constrained |-> FALSE, text |-> "a"],
     [short |-> FALSE, shallow |-> FALSE, specific |-> TRUE, constrained |-> TRUE, text |-> "b"]}
MC_Replies ==
    {[loc |-> 60, lines |-> {"v", "h"}, injected |-> FALSE],
     [loc |-> 2, lines |-> {"v", "w"}, injected |-> TRUE]}
MC_Hypotheses == {[correct |-> TRUE, level |-> 3], [correct |-> FALSE, level |-> NA]}
MC_Signals == {<<"TAB_HIDDEN">>, <<"FOCUS_LOST", "FOCUS_LOST", "FOCUS_LOST">>, <<"BURST_PASTE">>}
MC_Locations == {{}, {2}, {2, 5}}
MC_Suites ==
    {[written |-> 0, valid |-> 0, covered |-> 0, wanted |-> 2, killed |-> 0, total |-> 2],
     [written |-> 3, valid |-> 3, covered |-> 2, wanted |-> 2, killed |-> 2, total |-> 2]}
MC_Answers == {<<[score |-> 1900, level |-> 3]>>, <<[score |-> 1600, level |-> NA]>>}
MC_PromptVerdicts ==
    {[level |-> NA, asks |-> FALSE, questions |-> FALSE], [level |-> 3, asks |-> TRUE, questions |-> TRUE]}
MC_LocateVerdicts == {NA, 3}
=============================================================================
