----------------------------- MODULE MCServices -----------------------------
(***************************************************************************)
(* The smaller services, checked side by side: the learner model, the rate *)
(* limiter, the daily hunt, the admin sessions, Ciel's conversation and    *)
(* learners' accounts.                                                     *)
(* They share no row and no variable, so their steps commute and each      *)
(* behaviour follows the requests of one of them, chosen at the start.     *)
(***************************************************************************)
EXTENDS LearnerModel, RateLimit, DailyHunt, AdminSessions, MentorReply, Accounts, MCAdvice, TLC

CONSTANTS t1, t2, t3, t4    \* attempts to be scored

VARIABLE service    \* whose requests this behaviour follows

vars == <<service, learnerVars, rateVars, huntVars, adminVars, mentorVars, accountVars>>

Init ==
    /\ service \in {"learner", "late", "rate", "hunt", "admin", "mentor", "talk", "accounts"}
    /\ LearnerInit /\ RateInit /\ HuntInit /\ AdminInit /\ MentorInit /\ AccountsInit
    /\ service # "admin" => \A u \in Accounts : account[u].exists /\ ~account[u].must

\* The learner model is followed twice: every attempt, none submitted late ...
InTime == submitted = Submitted

\* ... or all but one of them, two being scored at a time, the first submitted late as well.
Fewer ==
    /\ scoring[t3] = Idle /\ Cardinality(Writing) <= 2
    /\ \A a \in Attempts \ {t1} : submitted[a] = Submitted[a]

\* In flight together: two requests of the hunt of any kind, or three attempts of players.
Crowd ==
    LET busy == {w \in Hunters : hunts[w] # Free} IN
    Cardinality(busy) > 2 => \A w \in busy : hunts[w].kind = "attempt" /\ hunts[w].user # Anonymous

\* Ciel is followed twice: a few messages of one attempt with all they may hold ...
Short == sent <= 3 /\ \A w \in ChatWorkers : chatting[w] # Silent => chatting[w].try = "m1"

\* ... or as many messages as pass every cap, of several attempts, without code or trap.
PlainTalk ==
    \A w \in ChatWorkers :
        /\ chatting[w].at \notin {"retry", "judge"}
        /\ StepOf(w, "draft") => chatting[w].own = {} /\ ~chatting[w].trap
        /\ StepOf(w, "store") => chatting[w].lines = {}

Next ==
    /\ UNCHANGED service
    /\ \/ service = "learner" /\ LearnerNext /\ InTime' /\ UNCHANGED <<rateVars, huntVars, adminVars, mentorVars, accountVars>>
       \/ service = "late" /\ LearnerNext /\ Fewer' /\ UNCHANGED <<rateVars, huntVars, adminVars, mentorVars, accountVars>>
       \/ service = "rate" /\ RateNext /\ UNCHANGED <<learnerVars, huntVars, adminVars, mentorVars, accountVars>>
       \/ service = "hunt" /\ HuntNext /\ Crowd' /\ UNCHANGED <<learnerVars, rateVars, adminVars, mentorVars, accountVars>>
       \/ service = "admin" /\ AdminNext /\ UNCHANGED <<learnerVars, rateVars, huntVars, mentorVars, accountVars>>
       \/ service = "mentor" /\ MentorNext /\ Short' /\ UNCHANGED <<learnerVars, rateVars, huntVars, adminVars, accountVars>>
       \/ service = "talk" /\ MentorNext /\ PlainTalk' /\ UNCHANGED <<learnerVars, rateVars, huntVars, adminVars, accountVars>>
       \/ service = "accounts" /\ AccountsNext /\ UNCHANGED <<learnerVars, rateVars, huntVars, adminVars, mentorVars>>

Spec == Init /\ [][Next]_vars

\* Which worker serves a request makes no difference.  (The instance has the same two
\* workers for the admins, for Ciel and for the sign-ins.)
AnyWorker == Permutations(Hunters) \cup Permutations(ChatWorkers)

-----------------------------------------------------------------------------
\* Two students, one of them simulated; the first tries one exercise twice.
MCStudent   == t1 :> "an" @@ t2 :> "an" @@ t3 :> "an" @@ t4 :> "sim"
MCExercise  == t1 :> "e1" @@ t2 :> "e1" @@ t3 :> "e2" @@ t4 :> "e1"
MCSkills    == "e1" :> {"hash", "loop"} @@ "e2" :> {"hash"}
MCSubmitted == t1 :> 1 @@ t2 :> 3 @@ t3 :> 4 @@ t4 :> 5

\* Two uses of the limiter with different windows.
MCMaxCalls == "run" :> 2 @@ "login" :> 2
MCWindow   == "run" :> 2 @@ "login" :> 3

\* The student's editor is empty or holds one of the lines Ciel may write.
MCEditors == {{}, {"x"}}
=============================================================================
