------------------------------ MODULE Accounts ------------------------------
(***************************************************************************)
(* Learners' accounts: sign-up, login, Google sign-in, the bearer tokens   *)
(* and the consent without which no AI feature answers (features/auth,     *)
(* features/privacy, core/deps.py and core/security.py).                   *)
(*                                                                         *)
(* A sign-up or a first Google sign-in looks for the email, hashes a       *)
(* password and then inserts the row: two for one email can interleave.    *)
(* A deployment may bring a new policy; it stops the requests in flight,   *)
(* not the browsers with an older text open, nor those still at Google,    *)
(* whose state is a signed token the server does not keep.                 *)
(*                                                                         *)
(* Left out: names and avatars, and the form of addresses and passwords.   *)
(***************************************************************************)
EXTENDS Naturals, FiniteSets

CONSTANTS
    People,         \* each with an email of their own
    Staff,          \* those whose email ends in @codeprove.production
    SignUpWorkers,  \* browsers signing in at a time
    StateLife,      \* how long Google's round trip may take
    TokenLife,      \* jwt_expire_minutes
    LastPolicy,     \* bound: versions of the policy
    LastHour,       \* bound: the last instant
    MaxSignIns      \* bound: sign-ins begun

ASSUME AccountsAssumption ==
    /\ Staff \subseteq People /\ IsFiniteSet(Staff)
    /\ {StateLife, TokenLife, LastPolicy, LastHour, MaxSignIns} \subseteq Nat

VARIABLES
    hour,       \* the clock
    policy,     \* POLICY_VERSION
    users,      \* the rows of users with their id
    tokens,     \* bearer tokens handed out
    forms,      \* person -> the version of the policy on the page open, 0: none
    signing,    \* worker -> the sign-in it serves
    begun,      \* sign-ins begun
    accepted,   \* history: person -> the versions they read and accepted
    created,    \* history: person -> answers that said an account was created
    answered    \* history: person -> the version in force at the last AI answer

accountVars == <<hour, policy, users, tokens, forms, signing, begun, accepted, created, answered>>

Nobody == [at |-> "none"]

\* under, a history: the policy in force when it was signed up for, 0: by Google.
Account(p, id, under) ==
    [email |-> p, id |-> id, role |-> IF p \in Staff THEN "admin" ELSE "user",
     active |-> TRUE, chosen |-> under > 0, consent |-> under, under |-> under]

Of(p) == {u \in users : u.email = p}

Learner(u) == u.role = "user" /\ u.active

\* create_access_token and decode_token: the subject is the id of the row.
TokenFor(u) == [sub |-> u.id, by |-> u.email, until |-> hour + TokenLife]
Bearer(t) == IF hour <= t.until THEN {u \in users : u.id = t.sub /\ Learner(u)} ELSE {}

\* has_consent
HasConsent(u) == u.consent = policy

-----------------------------------------------------------------------------
AccountsInit ==
    /\ hour = 0 /\ policy = 1 /\ tokens = {} /\ begun = 0
    /\ users = {Account(p, 0, 0) : p \in Staff}
    /\ forms = [p \in People |-> 0]
    /\ signing = [w \in SignUpWorkers |-> Nobody]
    /\ accepted = [p \in People |-> {}]
    /\ created = [p \in People |-> 0]
    /\ answered = [p \in People |-> 0]

\* The page of the sign-up form, or of the policy, is opened.  (Admins open it in vain.)
OpenForm(p) ==
    /\ forms' = [forms EXCEPT ![p] = policy]
    /\ UNCHANGED <<hour, policy, users, tokens, signing, begun, accepted, created, answered>>

Serve(w, request) ==
    /\ signing[w] = Nobody /\ begun < MaxSignIns
    /\ signing' = [signing EXCEPT ![w] = request]
    /\ begun' = begun + 1
    /\ UNCHANGED <<hour, policy, users, tokens, forms, accepted, created, answered>>

\* The form does not say which version it showed (schemas/auth.py:17).
LookForEmail(w, p) ==
    /\ forms[p] > 0 /\ p \notin Staff /\ Of(p) = {}
    /\ Serve(w, [at |-> "insert", person |-> p, google |-> FALSE, read |-> forms[p]])

GoogleStart(w, p) == Serve(w, [at |-> "google", person |-> p, until |-> hour + StateLife])

Answer(w) == signing' = [signing EXCEPT ![w] = Nobody]

\* Google refuses, the person gives up, or the state has expired.
GoogleFails(w) ==
    /\ signing[w].at = "google"
    /\ Answer(w)
    /\ UNCHANGED <<hour, policy, users, tokens, forms, begun, accepted, created, answered>>

GoogleCallback(w) ==
    LET p == signing[w].person
    IN  /\ signing[w].at = "google" /\ hour <= signing[w].until
        /\ p \notin Staff /\ \A u \in Of(p) : Learner(u)
        /\ IF Of(p) = {}
           THEN /\ signing' = [signing EXCEPT ![w] =
                                [at |-> "insert", person |-> p, google |-> TRUE, read |-> 0]]
                /\ UNCHANGED tokens
           ELSE Answer(w) /\ tokens' = tokens \union {TokenFor(u) : u \in Of(p)}
        /\ UNCHANGED <<hour, policy, users, forms, begun, accepted, created, answered>>

Taken_NoUniqueKey(p) == FALSE     \* mutant: email is not unique
Taken(p) == Of(p) # {}

\* The unique key on email fails the second insert: a sign-up answers 409,
\* Google's callback has no handler for it and answers 500.
Insert(w) ==
    LET p   == signing[w].person
        row == Account(p, Cardinality(users) + 1, IF signing[w].google THEN 0 ELSE policy)
    IN  /\ signing[w].at = "insert"
        /\ Answer(w)
        /\ IF Taken(p)
           THEN UNCHANGED <<users, tokens, created, accepted>>
           ELSE /\ users' = users \union {row}
                /\ tokens' = tokens \union {TokenFor(row)}
                /\ created' = [created EXCEPT ![p] = @ + 1]
                /\ accepted' = [accepted EXCEPT ![p] = @ \union ({signing[w].read} \ {0})]
        /\ UNCHANGED <<hour, policy, forms, begun, answered>>

\* authenticate: only a password that was chosen can be typed.
SignIn(p) ==
    /\ begun < MaxSignIns /\ begun' = begun + 1
    /\ \E u \in Of(p) : /\ Learner(u) /\ u.chosen
                        /\ tokens' = tokens \union {TokenFor(u)}
    /\ UNCHANGED <<hour, policy, users, forms, signing, accepted, created, answered>>

\* A text that is no longer in force is refused (privacy/router.py:26).
Outdated_Never(p) == FALSE     \* mutant: whatever was shown is accepted
Outdated(p) == forms[p] # policy

Consent(p) ==
    /\ forms[p] > 0 /\ ~Outdated(p)
    /\ \E t \in tokens : t.by = p /\ \E u \in Bearer(t) :
         users' = (users \ {u}) \union {[u EXCEPT !.consent = policy]}
    /\ accepted' = [accepted EXCEPT ![p] = @ \union {forms[p]}]
    /\ UNCHANGED <<hour, policy, tokens, forms, signing, begun, created, answered>>

\* Ciel, a hypothesis, a submit or an explain-back: require_consent.
UseAI(p) ==
    /\ \E t \in tokens : t.by = p /\ \E u \in Bearer(t) : HasConsent(u)
    /\ answered' = [answered EXCEPT ![p] = policy]
    /\ UNCHANGED <<hour, policy, users, tokens, forms, signing, begun, accepted, created>>

\* An operator closes an account, or opens it again.
SetActive(p) ==
    /\ Of(p) # {}
    /\ users' = {IF u.email = p THEN [u EXCEPT !.active = ~@] ELSE u : u \in users}
    /\ UNCHANGED <<hour, policy, tokens, forms, signing, begun, accepted, created, answered>>

Deploy ==
    /\ policy < LastPolicy /\ policy' = policy + 1
    /\ signing' = [w \in SignUpWorkers |-> IF signing[w].at = "insert" THEN Nobody ELSE signing[w]]
    /\ UNCHANGED <<hour, users, tokens, forms, begun, accepted, created, answered>>

HourPasses ==
    /\ hour < LastHour /\ hour' = hour + 1
    /\ UNCHANGED <<policy, users, tokens, forms, signing, begun, accepted, created, answered>>

AccountsNext ==
    \/ \E p \in People \ Staff : OpenForm(p) \/ Consent(p) \/ UseAI(p) \/ SetActive(p)
    \/ \E p \in People : SignIn(p)
    \/ \E w \in SignUpWorkers :
         \/ \E p \in People : LookForEmail(w, p) \/ GoogleStart(w, p)
         \/ GoogleFails(w) \/ GoogleCallback(w) \/ Insert(w)
    \/ Deploy \/ HourPasses

AccountsSpec == AccountsInit /\ [][AccountsNext]_accountVars

-----------------------------------------------------------------------------
(* However sign-ups and Google sign-ins overlap, an email has one account, *)
(* at most one answer told the page that it was created (the sign_up the   *)
(* page reports to Analytics), and a token opens only the account of the   *)
(* person it was given to.                                                 *)
OneAccountEach ==
    /\ \A p \in People : Cardinality(Of(p)) <= 1 /\ created[p] <= 1
    /\ \A t \in tokens : \A u \in users : u.id = t.sub => u.email = t.by /\ t.by \notin Staff

(* An AI feature answers a learner under a policy only if they read and    *)
(* accepted the text of that policy, on whatever page and however long ago *)
(* it was opened.  The exception is the sign-up form: it does not send the *)
(* version it showed, so one that was open across a deployment is recorded *)
(* as consent to the new text (auth/service.py:29).                        *)
ConsentIsToTheTextRead ==
    [][\A p \in People :
         answered'[p] # answered[p] =>
            \A u \in Of(p) : Learner(u) /\ (policy \in accepted[p] \/ u.under = policy)]_accountVars
=============================================================================
