----------------------------- MODULE DailyHunt -----------------------------
(***************************************************************************)
(* The daily bug hunt (src/app/features/daily): one challenge a day, made  *)
(* by a language model for whoever comes first; each player plays it once. *)
(* Requests are interleaved between the statements they send: the lookup   *)
(* of the challenge, the call of the model, the read of the player's row,  *)
(* the commit.  The unique keys on the challenge's date and on the         *)
(* player's date fail the second of two inserts.                           *)
(*                                                                         *)
(* Of a challenge only its buggy line is kept.  A right answer is green or *)
(* yellow by the hints and the seconds used, which are left open.          *)
(***************************************************************************)
EXTENDS Naturals, FiniteSets

CONSTANTS
    Players,
    Lines,          \* line numbers a player or the model may name
    LastDay,        \* bound: the last day
    MaxHunts,       \* bound: the number of requests
    Hunters         \* workers: requests in flight together

ASSUME HuntAssumption ==
    Lines \subseteq Nat \ {0} /\ LastDay \in Nat \ {0} /\ MaxHunts \in Nat

Days == 1..LastDay
Anonymous == "anonymous"

VARIABLES
    today,          \* the date in Vietnam
    challenge,      \* day -> its challenge
    plays,          \* player and day -> the row of daily_attempts
    hunts,          \* worker -> the request it serves
    hunted,         \* how many requests have begun
    regenerated     \* history: the days whose challenge was once deleted

huntVars == <<today, challenge, plays, hunts, hunted, regenerated>>

NoChallenge == [id |-> 0, line |-> 0]
NoPlay      == [line |-> 0, tier |-> "none", by |-> 0, rivals |-> {}]
Free        == [at |-> "free", no |-> 0]

Played(u, d) == plays[<<u, d>>] # NoPlay

Tiers(line, c) == IF line = c.line THEN {"green", "yellow"} ELSE {"red"}

\* compute_streak: the played days in a row up to today, or up to yesterday.
RunUpTo(dates) ==
    LET run[d \in 0..LastDay] == IF d = 0 \/ d \notin dates THEN 0 ELSE 1 + run[d - 1] IN run

Streak(dates, d) == RunUpTo(dates)[IF d \in dates THEN d ELSE d - 1]

PlayedDays(u) == {d \in Days : Played(u, d)}

-----------------------------------------------------------------------------
HuntInit ==
    /\ today = 1 /\ hunted = 0 /\ regenerated = {}
    /\ challenge = [d \in Days |-> NoChallenge]
    /\ plays = [p \in Players \X Days |-> NoPlay]
    /\ hunts = [w \in Hunters |-> Free]

Midnight == /\ today < LastDay /\ today' = today + 1
            /\ UNCHANGED <<challenge, plays, hunts, hunted, regenerated>>

Starts(w, job) ==
    /\ hunts[w] = Free /\ hunted < MaxHunts
    /\ hunts' = [hunts EXCEPT ![w] = job]
    /\ hunted' = hunted + 1
    /\ UNCHANGED <<today, challenge, plays, regenerated>>

Goes(w, job) == hunts' = [hunts EXCEPT ![w] = job] /\ UNCHANGED <<today, hunted>>
Stops(w)       == Goes(w, Free)

At(w, step) == hunts[w].at = step

(* The four requests. The router refuses a second play of the day; the     *)
(* service asks for the date again.                                        *)

BeginToday(w) ==
    Starts(w, [at |-> "look", no |-> hunted + 1, kind |-> "today", day |-> today])

BeginAttempt_Unchecked(w, u, l) ==     \* mutant: no 409
    Starts(w, [at |-> "called", no |-> hunted + 1, kind |-> "attempt", user |-> u,
               line |-> l, day |-> today])

BeginAttempt(w, u, l) ==
    /\ u # Anonymous => ~Played(u, today)
    /\ Starts(w, [at |-> "called", no |-> hunted + 1, kind |-> "attempt", user |-> u,
                  line |-> l, day |-> today])

SubmitAttempt(w) ==
    /\ At(w, "called") /\ Goes(w, [hunts[w] EXCEPT !.at = "look", !.day = today])
    /\ UNCHANGED <<challenge, plays, regenerated>>

BeginRegenerate(w) ==
    Starts(w, [at |-> IF challenge[today] = NoChallenge THEN "look" ELSE "delete",
               no |-> hunted + 1, kind |-> "regenerate", day |-> today,
               old |-> challenge[today].id])

DeleteChallenge(w) ==
    /\ At(w, "delete") /\ Goes(w, [hunts[w] EXCEPT !.at = "look"])
    /\ LET d == hunts[w].day IN
       IF challenge[d].id = hunts[w].old
       THEN challenge' = [challenge EXCEPT ![d] = NoChallenge]
            /\ regenerated' = regenerated \union {d}
       ELSE UNCHANGED <<challenge, regenerated>>
    /\ UNCHANGED plays

\* The history a browser kept: on each of some days, a line.
BeginClaim(w, u, ds, l) ==
    Starts(w, [at |-> "claim", no |-> hunted + 1, kind |-> "claim", user |-> u, line |-> l,
               left |-> ds, rows |-> {}])

-----------------------------------------------------------------------------
\* The challenge is there: an attempt is graded by it, the others are answered.
Got(w, c) ==
    IF hunts[w].kind = "attempt" /\ hunts[w].user # Anonymous
    THEN \E tier \in Tiers(hunts[w].line, c) :
           Goes(w, [at |-> "graded", no |-> hunts[w].no, kind |-> "attempt",
                    user |-> hunts[w].user, line |-> hunts[w].line, day |-> hunts[w].day,
                    tier |-> tier])
    ELSE Stops(w)

LookUp(w) ==
    /\ At(w, "look")
    /\ LET c == challenge[hunts[w].day] IN
       IF c # NoChallenge THEN Got(w, c) ELSE Goes(w, [hunts[w] EXCEPT !.at = "model"])
    /\ UNCHANGED <<challenge, plays, regenerated>>

Generate_KeepsOwn(w, l) ==     \* mutant: the loser of two inserts grades by its own challenge
    /\ At(w, "model")
    /\ LET d == hunts[w].day  new == [id |-> hunts[w].no, line |-> l] IN
       /\ Got(w, new)
       /\ challenge' = IF challenge[d] = NoChallenge THEN [challenge EXCEPT ![d] = new] ELSE challenge
    /\ UNCHANGED <<plays, regenerated>>

\* The model answers with a usable challenge; another request may have stored one.
Generate(w, l) ==
    /\ At(w, "model")
    /\ LET d == hunts[w].day  new == [id |-> hunts[w].no, line |-> l] IN
       IF challenge[d] = NoChallenge
       THEN challenge' = [challenge EXCEPT ![d] = new] /\ Got(w, new)
       ELSE Goes(w, [hunts[w] EXCEPT !.at = "lost"]) /\ UNCHANGED challenge
    /\ UNCHANGED <<plays, regenerated>>

\* No answer, or one without code, line or explanation: 503.
GenerateFails(w) ==
    /\ At(w, "model") /\ Stops(w) /\ UNCHANGED <<challenge, plays, regenerated>>

\* After the lost insert: read what the winner stored, if it is still there.
ReadBack(w) ==
    /\ At(w, "lost")
    /\ LET c == challenge[hunts[w].day] IN IF c = NoChallenge THEN Stops(w) ELSE Got(w, c)
    /\ UNCHANGED <<challenge, plays, regenerated>>

\* The player's row of the day as it was loaded, if there is one.
FindPlay(w) ==
    /\ At(w, "graded")
    /\ Goes(w, [at |-> "store", no |-> hunts[w].no, kind |-> "attempt",
                  user |-> hunts[w].user, line |-> hunts[w].line, day |-> hunts[w].day,
                  tier |-> hunts[w].tier, old |-> plays[<<hunts[w].user, hunts[w].day>>]])
    /\ UNCHANGED <<challenge, plays, regenerated>>

\* The player's other attempts under way.
Rivals(w) == {hunts[v].no : v \in {x \in Hunters \ {w} :
    hunts[x] # Free /\ hunts[x].kind = "attempt" /\ hunts[x].user = hunts[w].user}}

Row(w, tier) == [line |-> hunts[w].line, tier |-> tier, by |-> hunts[w].no, rivals |-> Rivals(w)]

\* An UPDATE names the columns that differ from the row loaded; the time is always new.
Updated(j, row) ==
    [row EXCEPT !.line = IF j.line = j.old.line THEN @ ELSE j.line,
                !.tier = IF j.tier = j.old.tier THEN @ ELSE j.tier,
                !.by = j.no]

StorePlay(w) ==
    /\ At(w, "store") /\ Stops(w)
    /\ LET j == hunts[w]  p == <<j.user, j.day>> IN
       IF j.old # NoPlay THEN plays' = [plays EXCEPT ![p] = Updated(j, plays[p])]
       ELSE IF plays[p] = NoPlay THEN plays' = [plays EXCEPT ![p] = Row(w, j.tier)]
       ELSE UNCHANGED plays
    /\ UNCHANGED <<challenge, regenerated>>

\* One day of the claimed history, the earliest left: skipped, or a row to add.
ClaimDay(w) ==
    /\ At(w, "claim") /\ hunts[w].left # {}
    /\ LET j == hunts[w]
           d == CHOOSE x \in j.left : \A y \in j.left : x <= y
           skip == challenge[d] = NoChallenge \/ Played(j.user, d)
       IN \E tier \in Tiers(j.line, challenge[d]) :
            Goes(w, [j EXCEPT !.left = @ \ {d},
                       !.rows = IF skip THEN @ ELSE @ \union {[day |-> d, tier |-> tier]}])
    /\ UNCHANGED <<challenge, plays, regenerated>>

ClaimStreak(w) ==
    /\ At(w, "claim") /\ hunts[w].left = {} /\ Stops(w)
    /\ LET u == hunts[w].user  rows == hunts[w].rows IN
       IF \E r \in rows : Played(u, r.day) THEN UNCHANGED plays
       ELSE plays' = [p \in Players \X Days |->
                IF p[1] = u /\ \E r \in rows : r.day = p[2]
                THEN Row(w, (CHOOSE r \in rows : r.day = p[2]).tier) ELSE plays[p]]
    /\ UNCHANGED <<challenge, regenerated>>

HuntNext ==
    \/ Midnight
    \/ \E w \in Hunters :
        \/ BeginToday(w) \/ BeginRegenerate(w) \/ SubmitAttempt(w) \/ DeleteChallenge(w)
        \/ LookUp(w) \/ GenerateFails(w) \/ ReadBack(w) \/ FindPlay(w) \/ StorePlay(w)
        \/ ClaimDay(w) \/ ClaimStreak(w)
        \/ \E l \in Lines : Generate(w, l)
        \/ \E l \in Lines, u \in Players \union {Anonymous} : BeginAttempt(w, u, l)
        \/ \E l \in Lines, u \in Players, ds \in SUBSET (1..today) \ {{}} : BeginClaim(w, u, ds, l)

HuntSpec == HuntInit /\ [][HuntNext]_huntVars

-----------------------------------------------------------------------------
HuntTypeOK ==
    /\ today \in Days /\ hunted \in 0..MaxHunts /\ regenerated \subseteq Days
    /\ challenge \in [Days -> [id : 0..MaxHunts, line : Lines \union {0}]]
    /\ DOMAIN plays = Players \X Days
    /\ \A p \in DOMAIN plays : plays[p].tier \in {"none", "green", "yellow", "red"}
    /\ \A w \in Hunters : hunts[w].at \in
         {"free", "called", "look", "delete", "model", "lost", "graded", "store", "claim"}

(* A stored play is replaced only by an attempt of its player that was     *)
(* under way when the day's row was inserted: the 409 looks before the     *)
(* challenge is found or generated (daily/router.py:73) and before the     *)
(* date is asked for again (daily/service.py:90).  Claimed history         *)
(* replaces nothing, and the streak a player sees falls only at a midnight *)
(* that ends a day without a play.                                         *)
PlayedDaysAreFinal ==
    [][/\ \A p \in Players \X Days : plays[p] # NoPlay /\ plays'[p] # plays[p] =>
             \E w \in Hunters : /\ At(w, "store") /\ hunts[w].user = p[1]
                                /\ plays'[p].by = hunts[w].no
                                /\ hunts[w].no \in plays[p].rivals
       /\ \A u \in Players :
            Streak(PlayedDays(u)', today') < Streak(PlayedDays(u), today) =>
                today' # today /\ ~Played(u, today)]_huntVars

\* Two attempts of the player were under way when the row was inserted.
Contested(row) == \E i, k \in row.rivals : i # k

(* A result agrees with the challenge stored for its day, also when the    *)
(* player's request generated one and lost (daily/service.py:29), unless   *)
(* that day's challenge was regenerated (daily/router.py:101), and with    *)
(* the line stored beside it, unless two more attempts of the player were  *)
(* under way when the row was inserted: each may then write the columns    *)
(* in which it differs from the row it had loaded (daily/service.py:101),  *)
(* the line of one beside the tier of another.                             *)
GradedAsStored ==
    \A u \in Players, d \in Days \ regenerated : Played(u, d) =>
        /\ challenge[d] # NoChallenge
        /\ plays[<<u, d>>].tier \in Tiers(plays[<<u, d>>].line, challenge[d])
           \/ Contested(plays[<<u, d>>])
=============================================================================
