------------------------------- MODULE Scoring -------------------------------
(***************************************************************************)
(* The first scoring engine (app/features/scoring/features.py, engine.py)  *)
(* and the report built from its result (attempts/scoring_service.py): what *)
(* an attempt's log of events is worth.                                    *)
(*                                                                         *)
(* A log is the events of one attempt ordered by time stamp.  A stamp is a *)
(* number of ticks of the server's clock, or of the browser's for an event *)
(* the browser logged.  Points are counted in hundredths: an axis is worth *)
(* 0..2000, an overall score 0..10000, a weight is in percent.  A text is  *)
(* only what the features read of it.                                      *)
(***************************************************************************)
EXTENDS Integers, Sequences, FiniteSets, SequencesExt

CONSTANTS
    Tick,       \* milliseconds from a stamp to the next
    Similar     \* pairs of prompts whose texts are nearly the same, both ways

NA == -1        \* not applicable, unrated, or no stamp

Axes == {"understanding", "hypothesis", "prompting", "verification", "testing", "debugging"}

WEIGHTS == [understanding |-> 25, hypothesis |-> 22, prompting |-> 18,
            verification |-> 15, testing |-> 10, debugging |-> 10]

Clamp(lo, hi, x) == IF x < lo THEN lo ELSE IF x > hi THEN hi ELSE x
Rounded(n, d) == (2 * n + d) \div (2 * d)
AtMost(n, x) == IF x > n THEN n ELSE x
Points(credit, earned) == IF earned THEN credit ELSE 0

-----------------------------------------------------------------------------
(* Reading a log                                                           *)

\* An event takes its place by its stamp, after those with the same one.
Logged(log, e) ==
    LET n == Cardinality({i \in DOMAIN log : log[i].ts <= e.ts})
    IN  SubSeq(log, 1, n) \o <<e>> \o SubSeq(log, n + 1, Len(log))

\* The members of a sequence that are marked, in their order: SelectSeq, as a function
\* that a proof can unfold.
Kept(s, marked) ==
    LET upTo[n \in 0..Len(s)] ==
            IF n = 0 THEN <<>> ELSE IF marked[n] THEN Append(upTo[n - 1], s[n]) ELSE upTo[n - 1]
    IN  upTo[Len(s)]
Where(s, Test(_)) == Kept(s, [i \in DOMAIN s |-> Test(s[i])])

Of(log, type) == Where(log, LAMBDA e : e.type = type)
FirstTs(log, type) == IF Of(log, type) = <<>> THEN NA ELSE Of(log, type)[1].ts
Count(events, Test(_)) == Cardinality({i \in DOMAIN events : Test(events[i])})

\* The first prompt came within 20 s and most of the problem was unread by then.
Rushed(log) ==
    /\ Of(log, "OPEN") # <<>> /\ Of(log, "PROMPT") # <<>>
    /\ (FirstTs(log, "PROMPT") - FirstTs(log, "OPEN")) * Tick < 20000
    /\ Of(log, "OPEN")[1].unread

\* Groups of three prompts or more that nearly repeat the first of them.
NearDuplicates(prompts) ==
    LET Join(acc, i) ==
            LET group == {j \in i..Len(prompts) : j \notin acc.used
                            /\ (j = i \/ <<prompts[i].text, prompts[j].text>> \in Similar)}
            IN  IF i \notin acc.used /\ Cardinality(group) >= 3
                THEN [used |-> acc.used \union group, groups |-> acc.groups + 1]
                ELSE acc
        upTo[n \in 0..Len(prompts)] ==
            IF n = 0 THEN [used |-> {}, groups |-> 0] ELSE Join(upTo[n - 1], n)
    IN  upTo[Len(prompts)].groups

\* U2, P3: prompts on a concept only, and specific ones.
Shallow(log)  == AtMost(4, Count(Of(log, "PROMPT"), LAMBDA e : e.shallow))
Specific(log) == AtMost(4, Count(Of(log, "PROMPT"), LAMBDA e : e.specific))

HypothesisBeforeCode(log) ==
    /\ Of(log, "HYPOTHESIS") # <<>>
    /\ Of(log, "CODE_EDIT") # <<>> =>
          FirstTs(log, "HYPOTHESIS") < FirstTs(log, "CODE_EDIT")

Traps(log) == Where(Of(log, "AI_REPLY"), LAMBDA e : e.injected)

\* V1: the code was edited after the first trap, and before the first submit.
CaughtTrap(log) ==
    /\ Traps(log) # <<>>
    /\ \E i \in DOMAIN log :
          /\ log[i].type = "CODE_EDIT" /\ log[i].ts > Traps(log)[1].ts
          /\ Of(log, "SUBMIT") # <<>> => log[i].ts <= FirstTs(log, "SUBMIT")

\* V2: a reply of 20 lines or more with anything at all logged in the next 15 s.
SpeedAccepts(log) ==
    Cardinality({i \in 1..(Len(log) - 1) :
        log[i].type = "AI_REPLY" /\ log[i].loc >= 20 /\ (log[i + 1].ts - log[i].ts) * Tick < 15000})

\* V3: 50 lines of the mentor's or more, and no edit after its last reply.
Loc(replies) == FoldLeft(LAMBDA n, e : n + e.loc, 0, replies)
PastedBlind(log) ==
    LET replies == Of(log, "AI_REPLY")
    IN  /\ Loc(replies) >= 50
        /\ ~ \E i \in DOMAIN log : log[i].type = "CODE_EDIT" /\ log[i].ts > Last(replies).ts

CodeReplies(log) == Where(Of(log, "AI_REPLY"), LAMBDA e : e.loc > 0)

TestedAiCode(log) ==
    CodeReplies(log) # <<>> /\ Count(Of(log, "RUN"), LAMBDA r : r.ts > CodeReplies(log)[1].ts) > 0

NoSuite == [visible |-> 0, visibleTotal |-> 0, hidden |-> 0, hiddenTotal |-> 0]
SubmitTests(log) == IF Of(log, "SUBMIT_TESTS") = <<>> THEN NoSuite ELSE Last(Of(log, "SUBMIT_TESTS"))
PassedOf(suite) == suite.visible + suite.hidden
TotalOf(suite) == suite.visibleTotal + suite.hiddenTotal

AnyPass(log) ==
    \/ Count(Of(log, "RUN"), LAMBDA r : r.passed) > 0
    \/ LET suite == SubmitTests(log) IN TotalOf(suite) > 0 /\ PassedOf(suite) = TotalOf(suite)

\* Failing runs of the student's own code; whatever follows a pass is not looked at.
RealFailsBeforeFirstPass(log) ==
    LET runs == Of(log, "RUN")
    IN  Cardinality({i \in DOMAIN runs : ~runs[i].starter /\ \A j \in 1..i : ~runs[j].passed})

PasteFlags(log) == Count(log, LAMBDA e : e.type = "BURST_PASTE" \/ e.flagged)
FocusLost(log) == Len(Of(log, "FOCUS_LOST"))
FlagTotal(log) ==
    PasteFlags(log) + Count(log, LAMBDA e : e.type \in {"FOCUS_LOST", "TAB_HIDDEN", "WINDOW_BLUR", "FULLSCREEN_EXIT"})

-----------------------------------------------------------------------------
(* The six axes, before the integrity multiplier                           *)

Understanding(log, explain) ==
    Clamp(0, 2000, (90 * explain) \div 100 + Points(200, AnyPass(log))
                   - 200 * Shallow(log) - Points(300, Rushed(log)))

Hypothesis(log) ==
    LET hyps == Of(log, "HYPOTHESIS")
    IN  IF hyps = <<>> THEN 0
        ELSE Clamp(0, 2000, 300 + 900 * Count(hyps, LAMBDA e : e.correct)
                            + Points(500, HypothesisBeforeCode(log)))

Prompting(log) ==
    LET prompts == Of(log, "PROMPT")
        short == Count(prompts, LAMBDA e : e.short)
    IN  IF prompts = <<>> THEN NA
        ELSE Clamp(0, IF 10 * short > 3 * Len(prompts) THEN 1200 ELSE 2000,
                   1000 + 300 * Specific(log) - 200 * short - 300 * NearDuplicates(prompts)
                        - 100 * Count(prompts, LAMBDA e : ~e.constrained))

Verification(log) ==
    LET trapped == Traps(log) # <<>>
        earned  == Points(12, CaughtTrap(log)) + Points(8, TestedAiCode(log))
        penalty == Points(10, trapped /\ ~CaughtTrap(log)) + 4 * SpeedAccepts(log)
                   + Points(6, PastedBlind(log))
    IN  IF CodeReplies(log) = <<>> /\ ~trapped THEN NA
        ELSE Clamp(0, 2000, (2000 * earned) \div (8 + Points(12, trapped)) - 100 * penalty)

Testing(log) ==
    LET suite == SubmitTests(log)
        runs  == Of(log, "RUN")
    IN  IF TotalOf(suite) > 0 THEN (2000 * PassedOf(suite)) \div TotalOf(suite)
        ELSE IF runs = <<>> THEN 0 ELSE 20 * Last(runs).ratio

FixedTop(fails) == Clamp(1000, 1600, 1600 - 200 * (fails - 1))

Debugging(log, kind) ==
    LET fails == RealFailsBeforeFirstPass(log)
    IN  IF kind # "debug" /\ fails = 0 THEN NA
        ELSE IF ~AnyPass(log) THEN 0
        ELSE IF kind = "debug" THEN Clamp(1200, 2000, 2000 - 200 * fails)
        ELSE FixedTop(fails)

RawAxes(log, explain, kind) ==
    [understanding |-> Understanding(log, explain), hypothesis |-> Hypothesis(log),
     prompting |-> Prompting(log), verification |-> Verification(log),
     testing |-> Testing(log), debugging |-> Debugging(log, kind)]

-----------------------------------------------------------------------------
(* The result                                                              *)

Multiplier_Either(log) ==      \* mutant: the two penalties are alternatives
    Clamp(40, 100, IF PasteFlags(log) > 0 THEN 100 - 12 * PasteFlags(log) ELSE 100 - 6 * FocusLost(log))

Multiplier(log) == Clamp(40, 100, 100 - 12 * PasteFlags(log) - 6 * FocusLost(log))

Scaled(raw, mult) == [a \in Axes |-> IF raw[a] = NA THEN NA ELSE Rounded(raw[a] * mult, 100)]

AxisSum(f) == f["understanding"] + f["hypothesis"] + f["prompting"]
              + f["verification"] + f["testing"] + f["debugging"]

\* The weighted mean of the axes that apply: the weights of the others are shared out.
Overall(axes) ==
    LET active == {a \in Axes : axes[a] # NA}
        weight == [a \in Axes |-> IF a \in active THEN WEIGHTS[a] ELSE 0]
    IN  IF active = {} THEN 0
        ELSE Clamp(0, 10000, Rounded(5 * AxisSum([a \in Axes |-> weight[a] * axes[a]]), AxisSum(weight)))

Scored(raw, mult) ==
    LET axes == Scaled(raw, mult) IN [axes |-> axes, overall |-> Overall(axes), raw |-> raw]
ScoreAttempt(log, explain, kind) == Scored(RawAxes(log, explain, kind), Multiplier(log))

TierFor(overall) ==
    CASE overall >= 8500 -> "Exceptional"
      [] overall >= 7000 /\ overall < 8500 -> "Strong"
      [] overall >= 5000 /\ overall < 7000 -> "Developing"
      [] OTHER -> "Emerging"

Integrity(log) == IF FlagTotal(log) >= 4 THEN "red" ELSE IF FlagTotal(log) >= 1 THEN "yellow" ELSE "green"

AxisOrder == <<"understanding", "hypothesis", "prompting", "verification", "testing", "debugging">>
Shown(n, remarks) == SubSeq(remarks, 1, AtMost(n, Len(remarks)))

\* What the report praises and blames: the axes, then two remarks on what the log
\* shows, four of each at most.
Feedback(axes, log) ==
    [strengths |-> Shown(4, SelectSeq(AxisOrder, LAMBDA a : axes[a] >= 1600)),
     risks |-> Shown(4, SelectSeq(AxisOrder, LAMBDA a : axes[a] # NA /\ axes[a] < 1000)
                  \o (IF Traps(log) # <<>> /\ ~CaughtTrap(log) THEN <<"accepted_buggy_ai">> ELSE <<>>)
                  \o (IF Count(Of(log, "PROMPT"), LAMBDA e : e.short) > 0 THEN <<"short_prompts">> ELSE <<>>))]

\* Which steps of the timeline are shown as done.
Timeline(log, explain) ==
    [hypothesis |-> HypothesisBeforeCode(log),
     implementation |-> TotalOf(SubmitTests(log)) > 0 \/ Of(log, "RUN") # <<>>,
     explain_back |-> explain >= 1000]
=============================================================================
