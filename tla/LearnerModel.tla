---------------------------- MODULE LearnerModel ----------------------------
(***************************************************************************)
(* The learner model: one Elo rating per student and skill, one difficulty *)
(* per exercise (src/app/features/learner).  A scored attempt is a game of *)
(* the student against the exercise on each of its skills; the rows it     *)
(* changes commit with its report (attempts/scoring_service.py).  The      *)
(* rebuild replays every report from the oldest and replaces the tables.   *)
(*                                                                         *)
(* A number computed by elo.update is written as what it was computed      *)
(* from: a rating is the sequence of the games played, a game the attempt  *)
(* and the difficulty it met; a difficulty is the sequence of the attempts *)
(* that moved it.  Two numbers are equal whenever these are.               *)
(*                                                                         *)
(* Requests read committed rows, one statement at a time, and write at     *)
(* their commit.  An UPDATE of a row that a rebuild has deleted, or an     *)
(* INSERT of a (student, skill) that another scoring has inserted, fails   *)
(* the whole scoring.                                                      *)
(*                                                                         *)
(* Which attempt is a student's first is asked in two ways: the scoring    *)
(* counts attempts whose status is scored, the replay reads reports.  A    *)
(* submit that loaded the attempt before its report and commits after it   *)
(* (attempts/router.py:171) tells them apart: it puts the status back and  *)
(* changes the time that orders the replay.                                *)
(***************************************************************************)
EXTENDS Naturals, Sequences, FiniteSets, SequencesExt

CONSTANTS
    Attempts,       \* attempts waiting to be scored
    Student,        \* attempt -> its student
    Exercise,       \* attempt -> its exercise
    Skills,         \* exercise -> the set of its skill tags
    Submitted,      \* attempt -> the instant of its submission, all different
    Simulated,      \* students whose account the calibration made
    MaxRebuilds,    \* bound: how many times the operator rebuilds
    LastInstant,    \* bound: the last instant of a late submission
    None

Students  == {Student[a] : a \in Attempts}
Exercises == {Exercise[a] : a \in Attempts}
AllSkills == UNION {Skills[e] : e \in Exercises}

ASSUME LearnerAssumption ==
    /\ Simulated \subseteq Students
    /\ MaxRebuilds \in Nat /\ LastInstant \in Nat
    /\ IsFiniteSet(Attempts)
    /\ \A a, b \in Attempts : Submitted[a] = Submitted[b] => a = b
    /\ \A a \in Attempts : Submitted[a] \in Nat

VARIABLES
    ratings,        \* (student, skill) -> None or [games, attempts, row]
    difficulty,     \* exercise -> the attempts that moved it, <<>>: its level's default
    reports,        \* the attempts reported, in the order of their commits
    scored,         \* the attempts whose status is scored
    submitted,      \* attempt -> its submitted_at
    scoring,        \* attempt -> the step of its request and what it has read
    rebuild,        \* the rebuild under way, if any
    rebuilds,       \* how many rebuilds have begun
    inStep          \* history: nothing has overlapped since the tables were last exact

learnerVars == <<ratings, difficulty, reports, scored, submitted, scoring, rebuild, rebuilds, inStep>>

Rows == Students \X AllSkills
Idle == [at |-> "idle"]

Reported(a) == a \in Range(reports)
SameTask(a, b) == Student[a] = Student[b] /\ Exercise[a] = Exercise[b]
Writing   == {a \in Attempts : scoring[a].at # "idle"}

-----------------------------------------------------------------------------
(* elo.update over a table: attempt a plays the difficulty it has loaded on *)
(* every skill of its exercise.                                            *)

Game(a, met) == [attempt |-> a, met |-> met]

Rating == [games : Seq([attempt : Attempts, met : Seq(Attempts)]), attempts : Nat,
           row : Attempts \union Nat]      \* row: who inserted it, 0: the replay, not yet

ASSUME NoneIsNoRating == None \notin Rating

Rated(old, a, met, row) ==
    IF old = None
    THEN [games |-> <<Game(a, met)>>, attempts |-> 1, row |-> row]
    ELSE [old EXCEPT !.games = Append(old.games, Game(a, met)), !.attempts = old.attempts + 1]

\* Only a student's first attempt of an exercise among those before moves its difficulty.
Moves(a, before) ==
    /\ Skills[Exercise[a]] # {} /\ Student[a] \notin Simulated
    /\ ~ \E b \in before \ {a} : SameTask(a, b)

(* The replay: the reports in the order of submission, time, from empty    *)
(* tables; the newest is played on what the older ones gave.               *)

EmptyTables == [ratings |-> [r \in Rows |-> None],
                difficulty |-> [e \in Exercises |-> <<>>], seen |-> {}]

Play(t, a) ==
    LET e == Exercise[a] IN
    [ratings |-> [r \in Rows |->
        IF r[1] = Student[a] /\ r[2] \in Skills[e]
        THEN Rated(t.ratings[r], a, t.difficulty[e], 0) ELSE t.ratings[r]],
     difficulty |-> IF Moves(a, t.seen)
                    THEN [t.difficulty EXCEPT ![e] = Append(@, a)] ELSE t.difficulty,
     seen |-> t.seen \union {a}]

Newest_Oldest(done, time) ==     \* mutant: the order turned round
    CHOOSE a \in done : \A b \in done : time[a] <= time[b]

Newest(done, time) == CHOOSE a \in done : \A b \in done : time[b] <= time[a]

Replay(done, time) ==
    LET after[d \in SUBSET Attempts] ==
          IF d = {} THEN EmptyTables ELSE Play(after[d \ {Newest(d, time)}], Newest(d, time))
    IN after[done]

-----------------------------------------------------------------------------
LearnerInit ==
    /\ ratings = [r \in Rows |-> None]
    /\ difficulty = [e \in Exercises |-> <<>>]
    /\ reports = <<>> /\ scored = {}
    /\ submitted = [a \in Attempts |-> Submitted[a]]
    /\ scoring = [a \in Attempts |-> Idle]
    /\ rebuild = Idle
    /\ rebuilds = 0
    /\ inStep = TRUE

(* A scoring loads the exercise, then the rows of its skills, then counts  *)
(* the scored attempts of the exercise: three statements, no lock.         *)

LoadExercise(a) ==
    /\ a \notin scored /\ scoring[a].at = "idle"
    /\ scoring' = [scoring EXCEPT ![a] = [at |-> "loaded", met |-> difficulty[Exercise[a]]]]
    /\ inStep' = (inStep /\ Writing = {} /\ rebuild = Idle)
    /\ rebuild' = IF rebuild = Idle THEN rebuild ELSE [rebuild EXCEPT !.alone = FALSE]
    /\ UNCHANGED <<ratings, difficulty, reports, scored, submitted, rebuilds>>

ReadRows(a) ==
    /\ scoring[a].at = "loaded"
    /\ scoring' = [scoring EXCEPT ![a] = [at |-> "read", met |-> scoring[a].met,
         rows |-> [s \in Skills[Exercise[a]] |-> ratings[<<Student[a], s>>]]]]
    /\ UNCHANGED <<ratings, difficulty, reports, scored, submitted, rebuild, rebuilds, inStep>>

CountEarlier(a) ==
    /\ scoring[a].at = "read"
    /\ scoring' = [scoring EXCEPT ![a] = [at |-> "counted", met |-> scoring[a].met,
         rows |-> scoring[a].rows,
         moves |-> Moves(a, scored)]]
    /\ UNCHANGED <<ratings, difficulty, reports, scored, submitted, rebuild, rebuilds, inStep>>

\* The row read is still there, or there was none and there is none.
SameRow(old, new) == IF old = None THEN new = None ELSE new # None /\ new.row = old.row

Conflict(a) == \E s \in Skills[Exercise[a]] :
    ~SameRow(scoring[a].rows[s], ratings[<<Student[a], s>>])

\* A row that an uncommitted rebuild has deleted makes the write wait.
Blocked(a) ==
    /\ rebuild.at = "deleted"
    /\ \E s \in Skills[Exercise[a]] : <<Student[a], s>> \in rebuild.gone

InOrder(a) == \A b \in Range(reports) : submitted[b] < submitted[a]

\* No report of the student's on the exercise has its status put back.
NonePutBack(a) == \A b \in Range(reports) : SameTask(a, b) => b \in scored

\* The difficulty to write: the one loaded, moved by a.
NewDifficulty_Reread(a) == Append(difficulty[Exercise[a]], a)     \* mutant: not the one loaded

NewDifficulty(a) == Append(scoring[a].met, a)

CommitScore(a) ==
    /\ scoring[a].at = "counted" /\ ~Blocked(a) /\ ~Conflict(a) /\ ~Reported(a)
    /\ LET j == scoring[a]  e == Exercise[a] IN
       /\ ratings' = [r \in Rows |-> IF r[1] = Student[a] /\ r[2] \in Skills[e]
                                     THEN Rated(j.rows[r[2]], a, j.met, a) ELSE ratings[r]]
       /\ difficulty' = IF j.moves THEN [difficulty EXCEPT ![e] = NewDifficulty(a)] ELSE difficulty
    /\ reports' = Append(reports, a) /\ scored' = scored \union {a}
    /\ scoring' = [scoring EXCEPT ![a] = Idle]
    /\ inStep' = (inStep /\ InOrder(a) /\ NonePutBack(a))
    /\ UNCHANGED <<submitted, rebuild, rebuilds>>

\* The write fails, here or at the report's unique key: nothing of it stays, and the
\* explain-back may be sent again.
FailScore(a) ==
    /\ scoring[a].at = "counted" /\ ~Blocked(a) /\ (Conflict(a) \/ Reported(a))
    /\ scoring' = [scoring EXCEPT ![a] = Idle]
    /\ UNCHANGED <<ratings, difficulty, reports, scored, submitted, rebuild, rebuilds, inStep>>

\* A submit commits that had loaded the attempt before its report: as in progress, and the
\* status goes back to submitted, or as submitted already, and only the time is new.
LateSubmit(a, now) ==
    /\ Reported(a) /\ submitted[a] < now /\ \A b \in Attempts : submitted[b] # now
    /\ submitted' = [submitted EXCEPT ![a] = now]
    /\ scored' \in {scored, scored \ {a}}
    /\ inStep' = FALSE
    /\ rebuild' = IF rebuild = Idle THEN rebuild ELSE [rebuild EXCEPT !.alone = FALSE]
    /\ UNCHANGED <<ratings, difficulty, reports, scoring, rebuilds>>

-----------------------------------------------------------------------------
(* python -m app.features.learner.rebuild --apply, by hand.                *)

\* The script keeps the exercises it loads first: later writes compare with these.
BeginRebuild ==
    /\ rebuild = Idle /\ rebuilds < MaxRebuilds
    /\ rebuild' = [at |-> "begun", loaded |-> difficulty, alone |-> Writing = {}]
    /\ rebuilds' = rebuilds + 1
    /\ UNCHANGED <<ratings, difficulty, reports, scored, submitted, scoring, inStep>>

ReadReports ==
    /\ rebuild.at = "begun"
    /\ rebuild' = [at |-> "replayed", loaded |-> rebuild.loaded, alone |-> rebuild.alone,
                   result |-> Replay(Range(reports), submitted)]
    /\ UNCHANGED <<ratings, difficulty, reports, scored, submitted, scoring, rebuilds, inStep>>

DeleteRows ==
    /\ rebuild.at = "replayed"
    /\ rebuild' = [at |-> "deleted", loaded |-> rebuild.loaded, alone |-> rebuild.alone,
                   result |-> rebuild.result, gone |-> {r \in Rows : ratings[r] # None}]
    /\ UNCHANGED <<ratings, difficulty, reports, scored, submitted, scoring, rebuilds, inStep>>

\* A row another scoring inserted after the delete and the replay inserts too.
Collides == \E r \in Rows \ rebuild.gone :
    ratings[r] # None /\ rebuild.result.ratings[r] # None

CommitRebuild ==
    /\ rebuild.at = "deleted" /\ ~Collides
    /\ LET new == rebuild.result IN
       /\ ratings' = [r \in Rows |->
            IF new.ratings[r] # None THEN [new.ratings[r] EXCEPT !.row = rebuilds]
            ELSE IF r \in rebuild.gone THEN None ELSE ratings[r]]
       /\ difficulty' = [e \in Exercises |->
            IF new.difficulty[e] = rebuild.loaded[e] THEN difficulty[e] ELSE new.difficulty[e]]
    /\ inStep' = rebuild.alone
    /\ rebuild' = Idle
    /\ UNCHANGED <<reports, scored, submitted, scoring, rebuilds>>

FailRebuild ==
    /\ rebuild.at = "deleted" /\ Collides
    /\ rebuild' = Idle
    /\ UNCHANGED <<ratings, difficulty, reports, scored, submitted, scoring, rebuilds, inStep>>

LearnerNext ==
    \/ \E a \in Attempts : \/ LoadExercise(a) \/ ReadRows(a) \/ CountEarlier(a)
                           \/ CommitScore(a) \/ FailScore(a)
                           \/ \E now \in 1..LastInstant : LateSubmit(a, now)
    \/ BeginRebuild \/ ReadReports \/ DeleteRows \/ CommitRebuild \/ FailRebuild

LearnerSpec == LearnerInit /\ [][LearnerNext]_learnerVars

-----------------------------------------------------------------------------
\* Values of the right shape: the numbers are finite sequences of known attempts.
LearnerTypeOK ==
    /\ ratings \in [Rows -> Rating \union {None}]
    /\ difficulty \in [Exercises -> Seq(Attempts)]
    /\ reports \in Seq(Attempts) /\ scored \subseteq Range(reports)
    /\ submitted \in [Attempts -> Nat]
    /\ \A a \in Attempts : scoring[a].at \in {"idle", "loaded", "read", "counted"}
    /\ rebuild.at \in {"idle", "begun", "replayed", "deleted"}
    /\ rebuilds \in 0..MaxRebuilds /\ inStep \in BOOLEAN

(* Whatever overlaps, a rating is made of reported attempts of its student *)
(* that practise its skill, each once, and its counter counts them; a      *)
(* difficulty was moved by reported attempts of real students, each once,  *)
(* and by more than one of a student only if a late submit has put the     *)
(* earlier ones' status back (learner/service.py:25), although no lock is  *)
(* held from the load of the difficulty and the count to the commit.       *)
EachAttemptCountsOnce ==
    /\ \A r \in Rows : ratings[r] # None =>
         /\ ratings[r].attempts = Len(ratings[r].games)
         /\ \A i \in DOMAIN ratings[r].games : LET a == ratings[r].games[i].attempt IN
              /\ Reported(a) /\ Student[a] = r[1] /\ r[2] \in Skills[Exercise[a]]
              /\ \A k \in DOMAIN ratings[r].games : ratings[r].games[k].attempt = a => k = i
    /\ \A e \in Exercises : \A i, k \in DOMAIN difficulty[e] :
         /\ Reported(difficulty[e][i]) /\ Student[difficulty[e][i]] \notin Simulated
         /\ difficulty[e][i] = difficulty[e][k] => i = k
         /\ i < k /\ Student[difficulty[e][i]] = Student[difficulty[e][k]] =>
              difficulty[e][i] \notin scored

(* The tables are what the replay computes as long as the attempts were    *)
(* scored one at a time and in the order of their submission, no submit    *)
(* committed after the report of its attempt, and again after a rebuild    *)
(* that nothing overlapped, whatever was put back before, until an attempt *)
(* is scored whose earlier ones were (learner/service.py:4 "must give the  *)
(* same result").                                                          *)
ExactInStep ==
    inStep => LET t == Replay(Range(reports), submitted) IN
        /\ difficulty = t.difficulty
        /\ \A r \in Rows : IF t.ratings[r] = None THEN ratings[r] = None
             ELSE ratings[r] # None /\ ratings[r].games = t.ratings[r].games

=============================================================================
