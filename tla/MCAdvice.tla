------------------------------ MODULE MCAdvice ------------------------------
(***************************************************************************)
(* Advice against what it should be, on every input of small sets.  TLC    *)
(* evaluates the assumptions when it starts.                               *)
(***************************************************************************)
EXTENDS Advice

\* Four practised or tried skills; the two low ratings show as the same tenth.
Skillsets == [1..4 -> [rating : {90000, 90004, 110000}, attempts : {1, 2}]]
AllRated  == {skills \in Skillsets : \A k \in 1..4 : skills[k].attempts = 2}

\* The skills named in the brief were practised twice; none is both strong and
\* weak, no weak one is rated above a strong one, and with three there is a weak one.
ASSUME NamedSkillsAreEarned ==
    \A skills \in Skillsets :
        LET named  == StrongAndWeak(Profile(skills, <<>>).skills)
            strong == ToSet(named.strong)
            weak   == ToSet(named.weak)
            rated  == {k \in 1..4 : skills[k].attempts >= 2}
        IN  /\ {s.key : s \in strong \union weak} \subseteq rated
            /\ strong \intersect weak = {}
            /\ \A s \in strong, w \in weak : s.by <= w.by
            /\ Cardinality(rated) >= 3 => weak # {}
            /\ Cardinality(rated) >= 4 => \A k \in rated : \E s \in strong \union weak : s.key = k

\* The brief and the recommendation name the same weak skills when no two
\* ratings share their tenth.  (When two do, the brief takes them in the order
\* of their keys and the recommendation by their rating.)
ASSUME WeakSkillsAgree ==
    \A skills \in AllRated :
        (\A j, k \in 1..4 : j # k => skills[j].rating # skills[k].rating + 4)
            => {s.key : s \in ToSet(LearnerBrief(Profile(skills, <<[overall |-> 50, levels |-> <<>>]>>)).weak)}
                 = WeakSkills(skills)

\* Two ratings that share their tenth may name different skills weak, although
\* brief.py:49 says both name the same.
ASSUME RoundingSeparatesThem ==
    \E skills \in AllRated :
        {s.key : s \in ToSet(StrongAndWeak(Profile(skills, <<>>).skills).weak)} # WeakSkills(skills)

\* elo.expected for the distances that occur here.
MCChance(above) == IF above > 0 THEN 91 ELSE IF above < -15000 THEN 50 ELSE 70

Catalogue ==
    1 :> [level |-> "fresher", kind |-> "implement", tags |-> {1}, difficulty |-> 90000]
    @@ 2 :> [level |-> "fresher", kind |-> "debug", tags |-> {1, 2}, difficulty |-> 100000]
    @@ 3 :> [level |-> "junior", kind |-> "implement", tags |-> {}, difficulty |-> 100000]
    @@ 4 :> [level |-> "senior", kind |-> "debug", tags |-> {4}, difficulty |-> 120000]

AnAttempt == [exercise : 1..4, status : {"in_progress", "scored"}, hours : {1, 30}]
SomeAttempts == {{}} \union {{a, b, c} : a, b, c \in AnAttempt}

\* What is recommended is not marked solved in the catalogue, nothing outside
\* fits better, and something is recommended while an exercise is unsolved.
\* After an exercise neither it nor an easier level is suggested.
ASSUME RecommendationsAreOpen ==
    \A attempts \in SomeAttempts, skills \in {[k \in 1..4 |-> [rating |-> 90000 + 5000 * k, attempts |-> 2]], <<>>} :
        LET status == StatusByExercise(Catalogue, attempts)
            open   == {e \in 1..4 : status[e] # "solved"}
            chosen == ToSet(Recommend(Catalogue, attempts, skills, {}, ToSet(LEVEL_ORDER), FALSE, 3))
            recent == {a.exercise : a \in {b \in attempts : b.status # "scored" /\ b.hours = 1}}
            fit(e) == Fit(Catalogue[e], skills, WeakSkills(skills), FALSE, e \in recent)
        IN  /\ chosen \subseteq open
            /\ Cardinality(chosen) = IF Cardinality(open) < 3 THEN Cardinality(open) ELSE 3
            /\ \A e \in chosen, f \in open \ chosen : fit(e) <= fit(f)
            /\ \A e \in 1..4 : LET next == ToSet(Candidates(Catalogue, attempts, skills, e, {"partial_fix"}))
                               IN  /\ next \subseteq open \ {e}
                                   /\ e = 4 => next = {}
                                   /\ e = 3 => next \subseteq {4}

\* Every exercise is listed once, under the number its own page shows.
ASSUME NumbersAgree ==
    \A codes \in SUBSET (1..4) :
        LET some == [e \in codes |-> Catalogue[e]]
            list == ListGrouped(some)
        IN  /\ UNION {ToSet(list[i].exercises) : i \in DOMAIN list} = codes
            /\ \A i \in DOMAIN list : \A n \in DOMAIN list[i].exercises :
                 NumberOf(some, list[i].exercises[n]) = n

NoAxes == [axis \in ToSet(AXES) |-> -1]
Reports ==
    {[overall |-> o, axes |-> NoAxes, levels |-> l, risks |-> r] :
       o \in {49, 50}, l \in {<<>>, [NoAxes EXCEPT !["testing"] = 1], [NoAxes EXCEPT !["testing"] = 3, !["debugging"] = 2]},
       r \in {{}, {1}}}

\* Reports of the first engine are in the history and on the dashboard but
\* change neither the axes nor the recurring issues, wherever they stand; one
\* report alone makes no issue recurring.
ASSUME OldReportsAreNeutral ==
    \A reports \in UNION {[1..n -> Reports] : n \in 0..3} :
        LET p  == Profile(<<>>, reports)
            v2 == Profile(<<>>, SelectSeq(reports, LAMBDA r : r.levels # <<>>))
            d  == Dashboard(Catalogue, {}, <<>>, reports)
        IN  /\ p.axes = v2.axes /\ p.recurring = v2.recurring
            /\ v2.scored < 2 => p.recurring = <<>>
            /\ d.trend = [i \in DOMAIN p.history |-> p.history[i].overall]
            /\ Len(d.recent) = p.scored

\* Ciel remembers the latest exchanges, whole, as many of six as fit.
ASSUME MemoryIsTheLatest ==
    \A chat \in UNION {[1..n -> {<<300, 500>>, <<100, 2500>>, <<3000, 3000>>}] : n \in 0..7} :
        LET kept == AttemptHistory(chat)
            size(n) == Total([i \in DOMAIN LastOf(chat, n) |-> Exchange(LastOf(chat, n)[i])])
        IN  /\ kept = LastOf(chat, Len(kept))
            /\ size(Len(kept)) <= MAX_TOTAL_CHARS
            /\ Len(kept) = 6 \/ Len(kept) = Len(chat) \/ size(Len(kept) + 1) > MAX_TOTAL_CHARS
            /\ chat # <<>> => kept # <<>>
=============================================================================
