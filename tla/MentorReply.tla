---------------------------- MODULE MentorReply ----------------------------
(***************************************************************************)
(* A student's messages to Ciel and checked hypotheses                     *)
(* (src/app/features/mentor): caps counted in the database, whether the    *)
(* trap was planted and what code was shown read before the model is       *)
(* called, everything stored in one commit after it answered.              *)
(*                                                                         *)
(* Code is a set of statement lines.  A draft also has a verdict of the    *)
(* guards that look at the draft itself: it holds a whole function, covers *)
(* the reference solution, passes the visible tests or points at the bug.  *)
(* The burst limit that is asked last is RateLimit's.                      *)
(***************************************************************************)
EXTENDS Naturals, Sequences, FiniteSets

CONSTANTS
    Tries,              \* attempts of the student
    CodeLines,          \* lines Ciel may write
    Editors,            \* what the student's editor may hold of them
    PerReply,           \* ciel_max_code_lines_per_reply
    PerAttempt,         \* ciel_max_code_lines_per_attempt
    AttemptCap,         \* ciel_per_attempt
    DayCap,             \* ciel_per_day of the student's plan
    HypothesisCap,      \* hypothesis_per_attempt
    LastChatDay,        \* bound: the last day
    MaxMessages,        \* bound: messages and hypotheses
    ChatWorkers

ASSUME MentorAssumption ==
    /\ {PerReply, PerAttempt} \subseteq Nat
    /\ {AttemptCap, DayCap, HypothesisCap} \subseteq Nat \ {0}
    /\ LastChatDay \in Nat \ {0} /\ MaxMessages \in Nat
    /\ Editors \subseteq SUBSET CodeLines
    /\ IsFiniteSet(CodeLines) /\ IsFiniteSet(ChatWorkers)

VARIABLES
    chatDay,
    chats,          \* prompt_logs with their AI_REPLY events, in the order of their commits
    hypotheses,     \* attempt -> its HYPOTHESIS events
    chatting,       \* worker -> the request it serves
    sent            \* how many requests have begun

mentorVars == <<chatDay, chats, hypotheses, chatting, sent>>

Silent == [at |-> "silent"]
StepOf(w, step) == chatting[w].at = step

RepliesOf(t) == {i \in DOMAIN chats : chats[i].try = t}
SentOn(d)    == {i \in DOMAIN chats : chats[i].day = d}
ShownIn(ids) == UNION {chats[i].lines : i \in ids}

MentorInit ==
    /\ chatDay = 1 /\ sent = 0
    /\ chats = <<>>
    /\ hypotheses = [t \in Tries |-> 0]
    /\ chatting = [w \in ChatWorkers |-> Silent]

NewDay == chatDay < LastChatDay /\ chatDay' = chatDay + 1 /\ UNCHANGED <<chats, hypotheses, chatting, sent>>

Turns(w, job) == chatting' = [chatting EXCEPT ![w] = job] /\ UNCHANGED <<chatDay, sent>>

Asks(w, job) ==
    /\ chatting[w] = Silent /\ sent < MaxMessages
    /\ chatting' = [chatting EXCEPT ![w] = job]
    /\ sent' = sent + 1
    /\ UNCHANGED <<chatDay, chats, hypotheses>>

-----------------------------------------------------------------------------
\* The first statement of the request begins the transaction whose time its row will carry.
BeginMessage(w, t) == Asks(w, [at |-> "quota", try |-> t, day |-> chatDay])

EnforceCiel_OneMore(w) ==     \* mutant: an attempt's cap passed by one
    /\ StepOf(w, "quota")
    /\ IF /\ Cardinality(RepliesOf(chatting[w].try)) <= AttemptCap
          /\ Cardinality(SentOn(chatDay)) < DayCap
       THEN Turns(w, [chatting[w] EXCEPT !.at = "trap"]) ELSE Turns(w, Silent)
    /\ UNCHANGED <<chats, hypotheses>>

EnforceCiel(w) ==
    /\ StepOf(w, "quota")
    /\ IF /\ Cardinality(RepliesOf(chatting[w].try)) < AttemptCap
          /\ Cardinality(SentOn(chatDay)) < DayCap
       THEN Turns(w, [chatting[w] EXCEPT !.at = "trap"]) ELSE Turns(w, Silent)
    /\ UNCHANGED <<chats, hypotheses>>

\* A trap only if the message asks for code and no reply of the attempt had one.
DecideTrap(w, asksForCode) ==
    /\ StepOf(w, "trap")
    /\ Turns(w, [at |-> "shown", try |-> chatting[w].try, day |-> chatting[w].day,
         trap |-> asksForCode /\ \A i \in RepliesOf(chatting[w].try) : ~chats[i].injected])
    /\ UNCHANGED <<chats, hypotheses>>

\* The message came with the code in the editor.
ReadShown(w, own) ==
    /\ StepOf(w, "shown")
    /\ LET j == chatting[w] IN
       Turns(w, [at |-> "draft", try |-> j.try, own |-> own, trap |-> j.trap, day |-> j.day,
                 seen |-> RepliesOf(j.try)])
    /\ UNCHANGED <<chats, hypotheses>>

TooMuchCode_PerReply(j, lines) == Cardinality(lines \ j.own) > PerReply     \* mutant: no attempt cap

TooMuchCode(j, lines) ==
    \/ Cardinality(lines \ j.own) > PerReply
    \/ Cardinality((ShownIn(j.seen) \union lines) \ j.own) > PerAttempt

\* The model answers: stored as it is, or written again once, then replaced by a fixed text.
Draft(w, lines, caught) ==
    /\ StepOf(w, "draft")
    /\ LET j == chatting[w]  withheld == caught \/ TooMuchCode(j, lines) IN
       IF withheld THEN Turns(w, [j EXCEPT !.at = "retry", !.trap = FALSE])
       ELSE Turns(w, [at |-> "store", try |-> j.try, own |-> j.own, trap |-> j.trap,
                      day |-> j.day, seen |-> j.seen, lines |-> lines, first |-> TRUE])
    /\ UNCHANGED <<chats, hypotheses>>

Retry(w, lines, caught) ==
    /\ StepOf(w, "retry")
    /\ LET j == chatting[w]  withheld == caught \/ TooMuchCode(j, lines) IN
       Turns(w, [at |-> "store", try |-> j.try, own |-> j.own, trap |-> j.trap, day |-> j.day,
                 seen |-> j.seen, lines |-> IF withheld THEN {} ELSE lines, first |-> FALSE])
    /\ UNCHANGED <<chats, hypotheses>>

StoreReply(w) ==
    /\ StepOf(w, "store") /\ Turns(w, Silent)
    /\ LET j == chatting[w] IN
       chats' = Append(chats, [try |-> j.try, day |-> j.day, lines |-> j.lines, own |-> j.own,
                               seen |-> j.seen, injected |-> j.trap, first |-> j.first])
    /\ UNCHANGED hypotheses

\* The model cannot be reached: nothing of the request is kept.
ModelFails(w) ==
    /\ chatting[w].at \in {"draft", "retry", "judge"} /\ Turns(w, Silent)
    /\ UNCHANGED <<chats, hypotheses>>

BeginHypothesis(w, t) ==
    hypotheses[t] < HypothesisCap /\ Asks(w, [at |-> "judge", try |-> t])

StoreHypothesis(w) ==
    /\ StepOf(w, "judge") /\ Turns(w, Silent)
    /\ hypotheses' = [hypotheses EXCEPT ![chatting[w].try] = @ + 1]
    /\ UNCHANGED chats

MentorNext ==
    \/ NewDay
    \/ \E w \in ChatWorkers :
        \/ EnforceCiel(w) \/ StoreReply(w) \/ ModelFails(w) \/ StoreHypothesis(w)
        \/ \E t \in Tries : BeginMessage(w, t) \/ BeginHypothesis(w, t)
        \/ \E asksForCode \in BOOLEAN : DecideTrap(w, asksForCode)
        \/ \E own \in Editors : ReadShown(w, own)
        \/ \E lines \in SUBSET CodeLines, caught \in BOOLEAN : Draft(w, lines, caught) \/ Retry(w, lines, caught)

MentorSpec == MentorInit /\ [][MentorNext]_mentorVars

-----------------------------------------------------------------------------
MentorTypeOK ==
    /\ chatDay \in 1..LastChatDay /\ sent \in 0..MaxMessages
    /\ chats \in Seq([try : Tries, day : 1..LastChatDay, lines : SUBSET CodeLines, own : Editors,
                      seen : SUBSET (1..MaxMessages), injected : BOOLEAN, first : BOOLEAN])
    /\ hypotheses \in [Tries -> 0..MaxMessages]
    /\ \A w \in ChatWorkers : chatting[w].at \in
         {"silent", "quota", "trap", "shown", "draft", "retry", "store", "judge"}

(* What Ciel has shown in an attempt when a reply with code is stored,     *)
(* apart from what the student then had, is within the attempt's cap, plus *)
(* one reply's cap for each reply stored while this one was being written  *)
(* (mentor/service.py:150), as long as the student keeps the lines that    *)
(* were in the editor when those were asked for.                           *)
CodeShownIsBounded ==
    \A i \in DOMAIN chats :
        LET r == chats[i]
            earlier == {k \in RepliesOf(r.try) : k < i}
            unseen  == earlier \ r.seen
        IN (r.lines \ r.own # {} /\ \A k \in unseen : chats[k].own \subseteq r.own) =>
             Cardinality((ShownIn(earlier) \union r.lines) \ r.own)
                 <= PerAttempt + PerReply * Cardinality(unseen)

Workers == Cardinality(ChatWorkers)

(* What is counted before the model is called and stored after it overruns *)
(* by the requests in flight together and no more: an attempt's messages   *)
(* and hypotheses (mentor/quota.py:74), the traps of an attempt, of which  *)
(* there should be one (mentor/service.py:127).  A day's messages can be   *)
(* twice that over: the row has the day on which its request began, the    *)
(* check that of its own moment.  And a trap is on record only when the    *)
(* first draft, the one that had it, was shown.                            *)
OverrunsByFlight ==
    /\ \A t \in Tries :
        /\ Cardinality(RepliesOf(t)) <= AttemptCap + Workers - 1
        /\ hypotheses[t] <= HypothesisCap + Workers - 1
        /\ Cardinality({i \in RepliesOf(t) : chats[i].injected}) <= Workers
    /\ \A d \in 1..LastChatDay : Cardinality(SentOn(d)) <= DayCap + 2 * Workers - 1
    /\ \A i \in DOMAIN chats : chats[i].injected => chats[i].first
=============================================================================
