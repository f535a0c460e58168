------------------------------- MODULE Advice -------------------------------
(***************************************************************************)
(* What is told to a student from the stored rows: the learner's profile   *)
(* and brief, the exercises recommended, the catalogue with its marks, the *)
(* dashboard, and the part of the conversation Ciel remembers              *)
(* (features/learner, feedback/next_exercise.py, exercises/service.py,     *)
(* dashboard/service.py, mentor/memory.py).  Nothing here is stored.       *)
(*                                                                         *)
(* A skill, an exercise and a finding are numbers in the order of their    *)
(* keys.  Ratings, chances and means are in hundredths.  Titles, labels,   *)
(* sentences and skills retired from the taxonomy are left out.            *)
(***************************************************************************)
EXTENDS Integers, FiniteSets, Sequences, SequencesExt

CONSTANTS
    Chance(_)    \* elo.expected: of a rating this much above the difficulty, in hundredths

AXES == <<"understanding", "hypothesis", "prompting", "verification", "testing", "debugging">>
LEVEL_ORDER == <<"fresher", "junior", "senior">>
START_RATING == 100000

\* The first n elements, or the last.
First(s, n) == SubSeq(s, 1, IF Len(s) < n THEN Len(s) ELSE n)
LastOf(s, n) == SubSeq(s, IF Len(s) < n THEN 1 ELSE Len(s) - n + 1, Len(s))

\* The elements of S by what is smaller first, ties by key.
Sorted(S) == SetToSortSeq(S, LAMBDA a, b : a.by < b.by \/ (a.by = b.by /\ a.key < b.key))

Total(s) == FoldLeft(LAMBDA sum, n : sum + n, 0, s)
Mean(s) == (200 * Total(s) + Len(s)) \div (2 * Len(s))

-----------------------------------------------------------------------------
(* Profile.  Reports, the newest first, are [overall, axes, levels, risks]; *)
(* levels is <<>> after the first engine; -1: the axis did not apply.       *)

RecentV2(reports) == First(SelectSeq(First(reports, 50), LAMBDA r : r.levels # <<>>), 5)

\* The mean of the values that apply, -1 when none does.
MeanApplying(values) ==
    LET applying == SelectSeq(values, LAMBDA v : v >= 0)
    IN  IF applying = <<>> THEN -1 ELSE Mean(applying)

AxisProfile(feedbacks) ==
    [axis \in ToSet(AXES) |-> MeanApplying([i \in DOMAIN feedbacks |-> feedbacks[i].levels[axis]])]

Seen(feedbacks, code) == Cardinality({i \in DOMAIN feedbacks : code \in feedbacks[i].risks})

\* Risks of at least two of the window's reports, the most frequent first.
RecurringIssues(feedbacks) ==
    LET codes == UNION {feedbacks[i].risks : i \in DOMAIN feedbacks}
    IN  Sorted({[key |-> c, by |-> 0 - Seen(feedbacks, c)] : c \in {c \in codes : Seen(feedbacks, c) >= 2}})

\* The rows of learner_skills, the highest rating first.
ByRating(skills, rating) ==
    Sorted({[key |-> k, by |-> 0 - rating[k], attempts |-> skills[k].attempts] : k \in DOMAIN skills})

\* The page and the brief see ratings rounded to a tenth.
Profile(skills, reports) ==
    LET feedbacks == RecentV2(reports)
    IN  [scored    |-> Len(reports),
         skills    |-> ByRating(skills, [k \in DOMAIN skills |-> (skills[k].rating + 5) \div 10]),
         axes      |-> AxisProfile(feedbacks),
         recurring |-> RecurringIssues(feedbacks),
         history   |-> Reverse(First(reports, 10))]

-----------------------------------------------------------------------------
(* The brief *)

\* Two strongest and two weakest of the skills practised twice, never both.
StrongAndWeak(skills) ==
    LET rated == SelectSeq(skills, LAMBDA s : s.attempts >= 2)
    IN  [strong |-> First(rated, 2), weak |-> First(Reverse(SubSeq(rated, 3, Len(rated))), 2)]

\* The first of the axes with the highest mean, and with the lowest, if they differ.
BestAndWorst(axes) ==
    LET known == SelectSeq(AXES, LAMBDA a : axes[a] >= 0)
        best  == SelectSeq(known, LAMBDA a : \A b \in ToSet(known) : axes[a] >= axes[b])
        worst == SelectSeq(known, LAMBDA a : \A b \in ToSet(known) : axes[a] <= axes[b])
    IN  IF known = best THEN <<>> ELSE <<best[1], worst[1]>>

LearnerBrief(profile) ==
    IF profile.scored = 0 THEN [said |-> "empty"]
    ELSE [said |-> "count", axes |-> BestAndWorst(profile.axes), issues |-> First(profile.recurring, 3)]
         @@ StrongAndWeak(profile.skills)

-----------------------------------------------------------------------------
(* Recommendation.  An exercise is [level, kind, tags, difficulty]; an      *)
(* attempt [exercise, status, hours], hours since it was started.           *)

RatingOf(skills, tag) == IF tag \in DOMAIN skills THEN skills[tag].rating ELSE START_RATING

\* The lower, the better: near a chance of 70, weak skills, a debug exercise
\* when wanted, and none that was left unfinished lately.
Fit(exercise, skills, weak, wantsDebug, left) ==
    LET tags == SetToSeq(exercise.tags)
        mean == IF tags = <<>> THEN START_RATING
                ELSE Total([i \in DOMAIN tags |-> RatingOf(skills, tags[i])]) \div Len(tags)
        miss == Chance(mean - exercise.difficulty) - 70
    IN  (IF miss < 0 THEN 0 - miss ELSE miss)
          - 10 * Cardinality(exercise.tags \intersect weak)
          - (IF wantsDebug /\ exercise.kind = "debug" THEN 10 ELSE 0)
          + (IF left THEN 30 ELSE 0)

\* The weak skills of the recommendation: from the ratings as they are stored.
WeakSkills(skills) ==
    {s.key : s \in ToSet(StrongAndWeak(ByRating(skills, [k \in DOMAIN skills |-> skills[k].rating])).weak)}

Rank(pool, exercises, skills, weak, wantsDebug, recent, limit) ==
    LET scored == Sorted({[key |-> e, by |-> Fit(exercises[e], skills, weak, wantsDebug, e \in recent)] : e \in pool})
        best == First(scored, limit)
    IN  [i \in DOMAIN best |-> best[i].key]

Recommend(exercises, attempts, skills, current, levels, wantsDebug, limit) ==
    LET solved == {a.exercise : a \in {b \in attempts : b.status = "scored"}}
        recent == {a.exercise : a \in {b \in attempts : b.status # "scored" /\ b.hours <= 24}}
        pool   == {e \in DOMAIN exercises : e \notin solved \union current /\ exercises[e].level \in levels}
    IN  Rank(pool, exercises, skills, WeakSkills(skills), wantsDebug, recent, limit)

DEBUG_RISKS == {"bug_not_fixed", "partial_fix", "trial_and_error"}

\* Feedback suggests exercises of the level of the one just solved or the next.
\* Its findings are given by name.
Candidates(exercises, attempts, skills, e, findings) ==
    LET current == CHOOSE i \in DOMAIN LEVEL_ORDER : LEVEL_ORDER[i] = exercises[e].level
    IN  Recommend(exercises, attempts, skills, {e}, ToSet(First(SubSeq(LEVEL_ORDER, current, 3), 2)),
                  findings \intersect DEBUG_RISKS # {}, 3)

-----------------------------------------------------------------------------
(* Catalogue and dashboard *)

StatusByExercise(exercises, attempts) ==
    [e \in DOMAIN exercises |->
        LET tries == {a.status : a \in {b \in attempts : b.exercise = e}}
        IN  IF "scored" \in tries THEN "solved" ELSE IF tries = {} THEN "todo" ELSE "attempted"]

\* Each level with its exercises in the order of their codes.
ListGrouped(exercises) ==
    LET at(level) == SetToSortSeq({e \in DOMAIN exercises : exercises[e].level = level}, <)
        used == SelectSeq(LEVEL_ORDER, LAMBDA level : at(level) # <<>>)
    IN  [i \in DOMAIN used |-> [level |-> used[i], exercises |-> at(used[i])]]

\* The number a page shows for an exercise.
NumberOf(exercises, e) == Cardinality({f \in 1..e \intersect DOMAIN exercises : exercises[f].level = exercises[e].level})

\* Scored attempts, the newest first; radar axes are out of 20.
Dashboard(exercises, attempts, skills, reports) ==
    [completed   |-> Len(reports),
     average     |-> IF reports = <<>> THEN 0 ELSE Mean([i \in DOMAIN reports |-> reports[i].overall]),
     radar       |-> [axis \in ToSet(AXES) |-> 5 * MeanApplying([i \in DOMAIN reports |-> reports[i].axes[axis]])],
     trend       |-> LastOf(Reverse([i \in DOMAIN reports |-> reports[i].overall]), 8),
     recent      |-> [i \in DOMAIN First(reports, 6) |-> reports[i].overall >= 50],
     recommended |-> Recommend(exercises, attempts, skills, {}, ToSet(LEVEL_ORDER), FALSE, 3)]

-----------------------------------------------------------------------------
(* Memory: a conversation is the lengths of its messages, two an exchange.  *)

MAX_MESSAGE_CHARS == 2000
MAX_TOTAL_CHARS   == 8000

Cap(n) == IF n <= MAX_MESSAGE_CHARS THEN n ELSE MAX_MESSAGE_CHARS + 1
Exchange(pair) == Cap(pair[1]) + Cap(pair[2])

\* The longest of the last six exchanges that fit, the oldest dropped first.
AttemptHistory(chat) ==
    LET last == LastOf(chat, 6)
        Drop(kept, i) == IF Total([j \in DOMAIN kept |-> Exchange(kept[j])]) > MAX_TOTAL_CHARS
                         THEN Tail(kept) ELSE kept
    IN  FoldLeft(Drop, last, last)
=============================================================================
