# CodeProve backend: formal models

TLA+ models of the CodeProve backend (FastAPI, SQLAlchemy async, PostgreSQL), the TLC runs that
check them on small instances, and TLAPS proofs of what matters most for every instance.
`PROJECT.json` is the index: it lists the components, every run with its properties, the source
lines behind every definition (`map`), the hazards of the code, the findings and the theorems.

How to run (in this directory): `tlc -workers 2 -config BillingWebhooks.cfg MCBilling` checks a run
(the `.cfg` names of a module start with the module's name), `tlapm BillingProofs.tla` checks proofs.

## 1. The system

A browser client talks to one FastAPI process (several are possible behind a proxy). Every request
gets a database session of its own (`core/db.py`): one PostgreSQL transaction at READ COMMITTED, so
each statement sees what was committed before it, a row read without `FOR UPDATE` may be stale when
it is used, and an UPDATE or `SELECT ... FOR UPDATE` waits for the row's lock. SQLAlchemy writes only
the columns that differ from what was loaded. A handler that raises commits nothing. Handlers wait
for SePay, the student-code sandbox and a language model *inside* their transaction.

| component | state | operations | talks to |
| --- | --- | --- | --- |
| billing (`features/billing`) | `orders`, `subscriptions`, `payment_events` | checkout, cancel, read (expires stale orders), SePay webhook | SePay calls it, Analytics gets the purchase after the answer |
| admin billing (`admin/billing.py`) | the same, audit log | grant, revoke | billing's service |
| attempts (`features/attempts`, `student_tests`) | `attempts`, `events`, `code_snapshots`, `fluency_reports`, `verification_answers` | create, snapshot, run, save tests, hint, locate, submit, explain-back | sandbox, language model, quotas, learner model, scoring |
| quotas (`mentor/quota.py`) | none of its own: counts rows | monthly submits, Ciel messages, hypotheses | billing (the tier), rate limiter |
| learner model (`features/learner`) | `learner_skills`, `exercises.difficulty_elo` | record one scored attempt, rebuild everything | called by scoring |
| mentor (`features/mentor`) | `prompt_logs`, `llm_calls`, events | Ciel message with trap injection, hypothesis | language model, quotas |
| admin exercises (`admin/exercises.py`) | `exercise_drafts`, `exercises`, tests, mutants, audit log | create, revise, save, validate, submit, approve, reject, publish | content validator (sandbox) |
| content sync (`content/sync.py`) | `exercises`, tests, mutants | file synchronisation, run by an operator while the server runs | competes with publication |
| daily bug hunt (`features/daily`) | `daily_challenges`, `daily_attempts` | get or generate, play, claim a streak, regenerate | language model |
| admin accounts (`admin/router.py`, `admin/service.py`) | `users`, `admin_sessions`, audit log | login, change password, logout, create, disable, reset | rate limiter |
| rate limiter (`core/rate_limit.py`) | in-process windows and the time of the last sweep | hit | everybody |
| scoring (`features/scoring`, `attempts/scoring_service.py`) | none: reads the log of an attempt | features, axes, engines v1 and v2, judges, backfill, rescore | called by explain-back and by an operator |
| feedback (`features/feedback`) | the report's findings and their text | diagnose, render, let a model word a line, suggest the next exercise | scoring, language model |
| accounts (`features/auth`, `features/privacy`) | `users`; a browser's open page and token | sign-up, login, Google sign-in, consent, the check before AI features | Google, everybody |
| advice (`learner/profile.py`, `brief.py`, `recommend.py`, `exercises/service.py`, `dashboard`, `mentor/memory.py`) | none: queries | profile, brief, recommendation, catalogue, dashboard, Ciel's memory | reads reports, ratings, attempts, prompt logs |
| sandbox (`features/sandbox`, `practice`) | a process per call | run tests, trace | everybody that runs student code |
| content checks (`content/validate.py`, `exercises/starters.py`, `debug_regions.py`, `student_tests`) | none | validate, derive regions, serve a starter, check and evaluate a student's tests | sandbox |

Entitlements, calibration statistics, the wording of prompts and templates, seeds and migrations are
listed in `PROJECT.json` with the reason they are left out.

**What is hard here.** Almost every write is check-then-act across an await: a status, a count or a
row is read, the sandbox or a model runs for seconds, and the conclusion is written. Billing locks its
rows, but `FOR UPDATE` locks nothing while the row does not exist, the instant a handler decides with
is taken before it waits, and SePay repeats calls whose answer it did not see. Two of these
subsystems decide about money and about a student's grade; they come first.

**What makes each component correct.**

- *billing*: money that SePay has our success for is never lost and never counted twice; a plan lasts
  as long as was paid for; a running plan is replaced by an admin only; a settled order never changes;
  the log of webhooks reconciles with the orders; every transfer settles in the end; a deadlock undoes no payment.
- *attempts*: one report per attempt, with the score shown beside it, never changed; the judged code
  and tests are those the student submitted; the hint and submission limits hold, or are overrun by a
  known amount; every explain-back leads to a report.
- *learner model*: every scored attempt counts once; replay and incremental update agree while attempts are
  scored in order.
- *exercise review*: what students see was approved by somebody other than its author at exactly that
  revision; the file synchronisation never undoes a publication.
- *rate limiter*: never more than the limit in any window; the sweep forgets nothing that still counts.
- *daily*: one play a day counts; a claim never overwrites real play; a grade is about the challenge
  that was served.
- *admin sessions*: a disabled admin or an old password opens nothing.
- *mentor*: at most one trap per attempt; caps bound the paid calls; what Ciel shows in an attempt never
  adds up to the solution.
- *scoring*: a signal of cheating never raises a score, solving never lowers it, an outage of a judge
  removes no axis.
- *feedback*: a report does not contradict itself; every finding has a text; a model's line is shown only
  if it keeps the rules.
- *accounts*: one account per email; an AI feature answers only who accepted the policy in force.
- *advice*: what is named or recommended is earned, open and the same on every page.
- *sandbox and content*: a run foretells the submit; a content that is accepted can be taught with; a
  student sees nothing of the solution; a test found valid stays valid.

## 2. Plan

In this order; each module gets an MC module, runs, mutants, and proofs where they say more than TLC.

1. **Billing**, `BillingLedger` (the abstract specification), `BillingProofs` - *done*.
2. **Attempts**, `AttemptsProofs` - *done* for every write but telemetry and mentor traffic.
3. **ExerciseReview**, composed with the content synchronisation, `ReviewBoard` (the abstract
   specification), `ExerciseReviewProofs` - *done*.
4. **LearnerModel**, **RateLimit**, **DailyHunt**, **AdminSessions**, **MentorReply**, **Accounts**, one
   run of all of them, `MCServices`; `LearnerProofs`, `AccountsProofs` (of both kinds of account),
   `ServicesProofs` (of the rate limiter, the daily hunt and the mentor) - *done*.
5. **Scoring**, **Rubric**, **Diagnosis**, **ScoredSession**: both engines on logs as sessions write
   them; `ScoringProofs`, lemmas on the engines and the findings, and `ScoredSessionProofs`, the theorems
   on sessions - *done*.
6. Functions decided over bounded inputs: **Advice**, **Sandbox**, **Guard**, **Feedback**, **Content** -
   *done*; lemmas on the validator and on the guard could be proved.
7. Left: the parsing of the transfer content; the scrubbing of personal data.

## 3. Modelling conventions

- A *worker* `w` is a request in flight; `pc[w]` is the statement it runs next and `job[w]` its
  arguments and local variables. `Begin`, `Continue` and `End` are the start of a request, a step of
  it and the end of its transaction. `Fail` rolls a request back anywhere.
- Writes become visible in the one step that commits. Between two statements of a handler other
  requests may do anything; statements between which nothing observable can happen (no other read, no
  lock) are one step. A lock that is taken and released in one step needs no variable.
- A wait for a row lock is a guard (`OrderFree`, `SubFree`, `RowFree`).
- Time is a bounded counter; only its order matters.
- A response that refuses and changes nothing is no step when the request begins with it; a refusal
  after the request has taken locks or read state is a step.
- `X_Y` is a mutant of `X`: the code with a plausible bug. It is used only to show that a property can
  be violated (`PROJECT.json`, `mutants`).
- `Kinds`, `Max...` and `Payments` are bounds of an instance, named in `CONSTANTS`; nothing else is
  bounded.

## 4. Billing

`Billing.tla` follows `billing/service.py` handler by handler:

| code | actions |
| --- | --- |
| `create_checkout` | `Checkout` (tier check), `LockStale` (one stale order at a time), `FindOpenOrder` (has them all, looks an open order up), `ReuseOrder` or `PlaceOrder` |
| `cancel_order` | `CancelOrder` (locks), `CommitCancel` |
| `billing_state`, `get_order`, admin view | `ReadBilling`, `LockStale`, `ExpireStaleOrders` |
| `handle_webhook` | `ReceiveWebhook`, then `IgnoreTransfer`, `RecordDuplicate`, `RecordMismatch` or `LockOrder`, `LockPlan`, then `SettlePaid`, `SettleUnapplied` or `InsertFails`; `RefuseWebhook` for a bad key |
| `ga4.send_purchase` after the answer | `ReportPurchase` |
| `grant_subscription`, `revoke_subscription` | `AskGrant`, `LockGrant`, `CommitGrant`; `AskRevoke`, `LockRevoke`, `CommitRevoke`, `RefuseRevoke`; then the read that follows |
| external: a bank transfer; PostgreSQL rolls back one of the requests that wait for each other | `PayByTransfer`; `AbortDeadlocked` |

`LockSubscription` is the point of interest: `SELECT ... FOR UPDATE` of a row that does not exist locks
nothing, so two requests may both plan an insert; the unique key on `user_id` fails the later one
(`InsertFails`, 500, everything undone), and SePay's repetition settles the order afterwards. The
answer to SePay may get lost after the commit (`Answered`), and then it calls again.

The UPDATE of `expire_stale_orders` takes the rows of the stale orders one after another, in an order the
planner chooses, and keeps those it has; this is the only place where a request holds one row and waits for
another of the same table, besides a webhook that holds an order and waits for the plan. A checkout that hands
out an open order again may also write the ids of the visit to it, and then waits for that row with the
expired ones held (the step "reuse"). `WaitsFor` reads who waits for whom off the state, and `AbortDeadlocked`
rolls back a request on a cycle. The model's UPDATE looks for stale orders until it commits; one that is
inserted while it runs, by a checkout as old as the window, is taken for one it saw.

| run | shows | bounds |
| --- | --- | --- |
| BillingWebhooks | `BooksReconcile`, `PaidTimeIsConserved`: settled orders, log and plan agree; `AckedMoneyIsKept`, `SettledIsFinal`; `ReportedAtMostOnce`; `NeverExpiredEarly`; `ParkedOnlyAgainstRival`: money is set aside only against a running plan of another tier | 2 orders, 2 tiers, 2 transfers (right, repeated, wrong amount), cancel, expiry at a checkout, a bad key, one crash, 2 requests at a time, 2 instants (460 000 states) |
| BillingAdmin | `TransactionsHoldTheirRows`, `NoSwitchMidTerm`, `ImplementsLedger`; `DeadlocksSpareMoney`: requests that wait for each other are checkouts and reads that expire orders | 2 orders, 1 transfer (right or wrong), a grant or revoke, expiry of both orders at a read of the plan and of one at a checkout, 3 instants (950 000 states) |
| BillingLive | `MoneySettles` under fairness | 2 orders, 2 transfers (one may be of no order of ours), one crash |
| BillingLostEvent | finding: a webhook whose insert of the plan conflicts leaves no row in the log that keeps "every webhook SePay sent" | 2 orders of a new learner |

Two requests at a time are enough for each race of a lock or a missing row, since a lock has one
holder and one waiter, and a third waiter is only one more of the second kind; two orders are the least
that let a learner without a plan be paid twice (two checkouts in flight do leave two open orders of
the same plan, and these runs include that) and the least that two requests can lock in opposite orders, and
two tiers the least that conflict. BillingAdmin reaches deadlocks of two reads, each with one of the two stale
orders; a checkout waits on a cycle only when a third order is in play, which the theorem covers. The payment window is
0 instants and a plan lasts 1 or 2, which keeps window < plan and lets orders and plans end within a run.

**Refinement.** `BillingLedger.tla` is billing without requests, rows or locks: `Settle(o, i)` extends,
starts or sets aside in one step, from the plan as it stands. `ImplementsLedger` maps `subs` to `plan`
and the statuses of `orders` to open, closed, paid or unapplied, and states that every interleaving of
statements acts like such steps. It would fail if a plan were computed from a row that changed before
the commit. The one freedom the ledger keeps is the instant `i`, which a request took before it waited.

**Fairness.** `SF(Resume(w))`: the process runs every handler it has begun, and PostgreSQL serves the
waiters of a row in the order they came; strong fairness is needed because the lock is free again and
again while others take it. `SF` of the delivery of an unacknowledged transfer: SePay repeats a webhook
until it is answered with success.

**Proofs** (`BillingProofs.tla`). `TypeCorrect` and `RowsAreHeld` (`Spec => []TransactionsHoldTheirRows`)
for every set of learners, plans, transfers and workers and all bounds. `TransactionsHoldTheirRows` says
what each transaction knows of the rows it locked: the order it settles is still unsettled and its
learner's, the subscription it read is still the current one, and a lock belongs to a transaction at a
statement that needs it. Together with the type invariant it is inductive; the proof has one lemma per
group of actions, because a step of `w` must also leave the rows of every other worker alone (it could
not have locked what they hold). All else billing promises rests on it, with one more invariant for
each thing a request remembers across its statements:

- `ExpiryInv`: the instant a request holds has passed, and the orders a checkout is about to expire had
  run out when it began. It gives `WindowIsKept` (`NeverExpiredEarly`).
- `MoneyInv`: a webhook is about money that arrived and, past its checks, about money that pays the order
  it has locked; the books reconcile. It gives `Reconciles`, `MoneyIsKept` and `SettledForGood`.
- `ReportInv`: a purchase waiting to be reported is of a paid order nobody has reported or is about to.
  It gives `ReportedOnce`.

`DeadlocksAreOfExpiries` (`Spec => []DeadlocksSpareMoney`) follows from who holds what: who holds a plan waits for
nothing, so nobody on a cycle waits for a plan, and who waits for an order and holds one is a checkout or a
read (`LocksOfTheLate`, `WaitingPlaces`). An answer read before the commit of a grant would break it; that is the mutant.

`PlanChanges` says what a step can do to a plan; `OnlyAdminsSwitch`, `ParkedForAReason` and
`PaymentAddsItsDays` follow from it, and `BillingImplementsLedger` from these and from `OrderChanges`: each
step of the code maps to a step of the ledger or to a stutter.

`PaidTimeIsKept` (`Spec => []PaidTimeIsConserved`) is a statement about sums of days over any number of
orders, which `MapThenSumSet` computes by a recursion over sets. The lemmas on `Total` show what such a fold
computes (it is one function, however the elements are chosen; one more element adds its value; a sum
may be renamed, split in two or taken class by class), each from a least counterexample: if it failed for
a subset, it would fail for one that is mended by taking any element away. Then a payment keeps the
claim (`PaymentKeeps`): a running plan ends later by the days of the order, and so does every sum that
contains it; a plan that has ended starts anew at the payment's instant, which is then later than any
payment before it, since each of them gave a positive number of days. That matters because instants are taken before
the wait for the row, so payments may commit in another order than that of their instants. `IInv` gives
the rest: the order was not counted before, and the plan is computed from the row as it stands.

## 5. Attempts

`Attempts.tla` follows `attempts/router.py` and the services it calls.

| code | actions |
| --- | --- |
| `create_attempt`, the editor, `add_snapshot` | `Create`, `Edit`, `SaveSnapshot` |
| `run` | `Run`, `CommitRun` (the snapshot's version is the number of rows plus one) |
| `student_tests.save` | `SaveTests`, `CommitTests` |
| `debug_hint`, `debug_locate` | `OpenStep`, `CountHints`, then `TakeHint`, `Locate` or `RefuseStep` |
| `submit` | `Submit`, `CheckQuota` or `RefuseSubmit`, `RunSuite`, `EvaluateTests`, `MarkSubmitted`, `CommitSubmit` |
| `explain_back`, `score_with_explanations` | `ExplainBack`, `CommitScore` or `ScoreFails` |

Nothing here is read for update. `MarkSubmitted` is where autoflush sends the UPDATE of the attempt: from
there to the commit, across a model call, the row is locked. `NewStatus` is the effect of writing only
changed columns. `EventTypes` are counted and remembered by their last row, since that is all the code
asks of them (`ORDER BY id DESC`, `count`).

| run | shows | bounds |
| --- | --- | --- |
| AttemptsScoring | `ScoreIsTheReports`, `ReportIsFinal`; `OverrunIsBounded`: the monthly limit is overrun by the requests in flight at most | 3 attempts, a limit of 1, 2 months, 2 scores, 2 requests at a time, requests begin while an attempt has fewer than 2 submits and scores, one failure (300 000 states) |
| AttemptsLive | `HintOverrunIsBounded`, `SubmittedCodeIsJudged`; `AnsweredIsReported`, `RequestsEnd` under `SF(Resume(w))` | 1 attempt, every kind of request, 2 at a time, one edit, no failure (an explain-back that failed leaves nothing behind) |
| AttemptsRescored | finding: a submit that loaded the attempt before it was scored writes it back to submitted | 1 attempt, 2 requests at a time |

The overrun properties compare with the number of workers, so 2 of them already show both the bound and
that it is reached: two hint requests in flight do record a third hint. Three attempts are the least
that can break `OverrunIsBounded` with a limit of one. With one request at a time the contracts of the
endpoints hold; what breaks them (hints, the limit, a late save of the tests, a scored attempt
submitted again) needs two.

The client is part of the model only where the code relies on it: it waits for the answer of a run or a
submit before it changes or sends the code again, and submits after its last snapshot (as the simulator
in `calibration/simulate.py` does, which is the only client in the repository). A lost answer followed
by a manual repeat is a second `Submit` or `ExplainBack`, which the model allows at any time.

**Proofs** (`AttemptsProofs.tla`). The invariant `IInv` is proved inductive for every set of students,
attempts and workers, every calendar and every limit. Its parts:

- `Typed`: `TypeOK`, plus that a request in flight names an attempt and that snapshots are finite (the
  count of `/run` needs it);
- `LockIsASubmits`: a row is locked by a submit of that attempt waiting for its questions;
- `ScoreIsTheReports`: needs the two before, as a submit that commits late must not touch the score;
- `StampsArePast`: a date to be written is not after today, so a stamp never jumps to a later month;
- `HintsAreCounted`: a request about to take a hint counted `n` hints, and those taken since are at most
  the workers that counted along with it;
- `SubmissionsAreCounted`: the submissions of this month plus the requests past the check that do not
  count yet stay below `Limit` plus the number of workers. Its argument is a counting one: each request
  past the check contributes one new attempt at most, and the request that passes last saw fewer than
  `Limit` counted.

From it follow `TypeCorrect`, `ScoreStandsOnOneReport`, `ReportStays`,
`HintOverrun` and `MonthlyOverrun`.

`SubmittedIsJudged` has an invariant of its own, `SnapsInv`: the client's counter is the number of rows, and
a later version never holds an older code (`VersionsFollow`); what is on the screen while a run or
submit is unanswered is what was sent (`ScreenIsSent`), and a submit under way was preceded by a snapshot of
its code (`SubmitIsSaved`). The theorem is about clients that save before they submit, so it has the
hypothesis that the instance has snapshots (`"snapshot" \in Kinds`, as in AttemptsLive); the guard of
`Submit` that stands for such a client is void without them.

## 6. Exercise review

`ExerciseReview.tla` follows one exercise through `admin/exercises.py` and `content/sync.py`.

| code | actions |
| --- | --- |
| `create_draft`, `start_revision` | `CreateDraft`, `StartRevision`, `Snapshot`, then `InsertDraft` or `DraftExists` |
| `save_draft` | `SaveDraft`, `CommitSave` |
| `submit_draft` | `SubmitDraft`, `CommitSubmit` or `RefuseInvalid` |
| `approve_draft`, `reject_draft` | `OpenReview`, `CommitApprove` or `CommitReject` |
| `publish_draft` | `PublishDraft`, `ClaimDraft`, `CommitPublication` or `ExerciseExists` |
| `_advance` | `Advance`; its rowcount of 0 is `Conflict` |
| `sync_content --apply` | `SyncFile`, `LockExercise`, `CommitSync` |
| the seed, `set_admin_status` | `Seed`, `SetAdminStatus` |

`_advance` is a compare-and-swap on (revision, status), and a handler may spend seconds in the sandbox
between the read and the swap. For most handlers swap and commit are one step; a publication swaps first
(`ClaimDraft`), keeps the row of the draft locked (`draftLock`) and then waits for the row of the
exercise, which a synchronisation holds (`exLock`) from its first write to the end of its last file.
A payload has two parts because they behave differently at that point: `solution` stands for the columns
of the exercise row, of which an UPDATE names only those that differ from the row read (`Column`), and
`tests` for the rows of other tables, which are deleted and inserted again. The validator is a set of
payloads, `Valid`: the sandbox is deterministic up to failures, which are `Fail`.

| run | shows | bounds |
| --- | --- | --- |
| ExerciseReviewSafety | `IndependentReview`: four eyes; `ReviewedIsValid`; `DecidedAsRead`: no lost edit, no decision on another draft than the one read; `ImplementsBoard` | 2 admins, 8 revisions (two publications), 2 payloads typed in (one invalid), 2 contents of the file, accounts switched off and on, one failure, 2 transactions at a time (760 000 states) |
| ExerciseReviewLive | `RequestsEnd` under `SF(Resume(w))` | 4 revisions (to the first publication), one failure |
| ExerciseReviewStaleColumns | finding: a publication that overlaps a synchronisation leaves the file's columns beside the draft's tests | 4 revisions |

Four revisions lead to a publication, and a stale approval needs five (submit, reject, save, submit,
approve): eight contain both and what follows an edit of a published draft. Two admins are the least
that can review each other, and each of the two transactions may be of either.

**Refinement.** `ReviewBoard.tla` is the workflow as one would explain it: write, submit, approve,
reject, publish and load a file, each one step on the draft and the exercise as they stand.
`ImplementsBoard` maps the draft without its revision, the exercise as it is. It fails if a swap can
succeed on a draft that moved, or if a synchronisation overwrites an exercise that admins publish. Its
`Publish` has one freedom, which is the finding: at the first publication of a file's exercise the columns may stay
the file's.

**Proofs** (`ExerciseReviewProofs.tla`), for every set of admins, contents and workers and every `Valid`:
`TypeCorrect`, `FourEyes`, `NothingUnvalidated`, `NoLostUpdate` and the refinement,
`ReviewImplementsBoard`. The inductive invariant says for each transaction what its view is worth
(`View`): the row it loaded is the draft unless the draft has a later revision (`ReadIsPast`, which makes
the swap on the revision sound), what it checked holds of that row (`Checked`), a publication owns the
draft, and what it read of an exercise of the admins is current (`Publishing`), a synchronisation that
will write holds an exercise of a file (`OtherJobs`). `EndStep` and `ContinueStep` prove once what any
step leaves to the other workers; then every action has a lemma that says what it makes of the draft
and the exercise, from which the invariant, the action property and the refinement follow.

## 7. The smaller services

Six modules with state of their own, each a handful of handlers whose statements interleave. They share
no row: a step of one commutes with every step of another, so each behaviour of `MCServices` follows the
requests of one of them, chosen at the start, and nothing is lost by not interleaving them.

| module | code | actions |
| --- | --- | --- |
| `LearnerModel` | `learner/service.py`, `elo.py`, `rebuild.py`, the end of `score_with_explanations` | `LoadExercise`, `ReadRows`, `CountEarlier`, `CommitScore` or `FailScore`; `BeginRebuild`, `ReadReports`, `DeleteRows`, `CommitRebuild` or `FailRebuild`; `LateSubmit`, the end of `attempts/router.py`'s `submit` as the learner model sees it |
| `RateLimit` | `core/rate_limit.py` | `Hit`, `Tick` |
| `DailyHunt` | `daily/router.py`, `service.py`, `streak.py`, the call in `content.py` | `BeginToday`, `BeginAttempt`, `BeginRegenerate`, `BeginClaim`; `LookUp`, `Generate` or `GenerateFails`, `ReadBack`; `SubmitAttempt`, `FindPlay`, `StorePlay`; `DeleteChallenge`; `ClaimDay`, `ClaimStreak`; `Midnight` |
| `AdminSessions` | `admin/router.py`, `admin/service.py` | `Login`, `OpenSession`; `CheckSession`, `LoadAccount`, then `ChangePassword`, `Logout` or `LoadTarget` and `CreateAdmin`, `SetStatus`, `ResetPassword`; `Expire` |
| `MentorReply` | `mentor/router.py`, `quota.py`, `service.py`, the caps in `guard.py` | `BeginMessage`, `EnforceCiel`, `DecideTrap`, `ReadShown`, `Draft`, `Retry`, `StoreReply`; `BeginHypothesis`, `StoreHypothesis`; `ModelFails` |
| `Accounts` | `auth/router.py`, `auth/service.py`, `privacy/router.py`, `core/deps.py` | `OpenForm`, `LookForEmail`, `GoogleStart`, `GoogleCallback` or `GoogleFails`, `Insert`, `SignIn`, `Consent`, `UseAI`; `SetActive`, `Deploy` |

In `LearnerModel` a number is written as what it was computed from (a rating as the sequence of games
played, a difficulty as the attempts that moved it): two orders of the same games are different values,
which is what Elo's updates are, and a lost update is a missing game.

The scoring asks for attempts whose *status* is scored (`scored`; `learner/service.py:29`), the replay for *reports*
(`reports`; line 81). A submit that loaded the attempt before its report was written and commits after it tells
the two apart: it puts the status back, which is the finding of AttemptsRescored, and stamps a new time, by
which the replay sorts. Then a second attempt of the student counts as the first, and the difficulty moves
again: "only moves on each student's first scored attempt" (`learner/service.py:7-9`) fails from the same
cause, and the properties below say so. `CommitScore` needs the attempt's only report, so an attempt put back is
never scored twice. `_update_learner` swallows an exception of the update itself; what fails here fails at
the flush or the commit, outside of it.

In `DailyHunt` a row carries, beside what is stored, the number of the request that wrote it and the player's
other attempts under way at its insert (`rivals`). The row that a request loaded may be older than the one it
updates: `Updated` writes the columns in which the attempt differs from what it loaded, and leaves the others.

| property | says |
| --- | --- |
| `EachAttemptCountsOnce` | a rating is made of reported attempts, each once, and its counter counts them; an attempt moves a difficulty once, and a second one of the student only if a late submit put the status of the earlier back |
| `ExactInStep` | one at a time and in order of submission, the update and the replay agree, as `learner/service.py:4` says; overlapping scores may lose an update, a late submit changes the replay (history variable `inStep`) |
| `BurstIsBounded` | the limit holds in every window, except over a silence as long as the shortest window of any key: the sweep of a minute's caller drops an admin login's key of five |
| `PlayedDaysAreFinal` | only an attempt that was already under way replaces a stored play; claims replace nothing; a streak falls only at midnight |
| `GradedAsStored` | a grade is about the stored challenge, also when two requests generated one, unless it was regenerated, and about the line stored beside it, unless three attempts of the player overlapped: then one may leave the line and another the tier |
| `ResetTakesHold` | after a reset, a disabling or a change of password only a login under way can hold a session; a temporary password is forced to change, unless the reset had loaded the account before such a change committed: a flag that looked set is not written again |
| `CodeShownIsBounded`, `OverrunsByFlight` | caps hold up to what is in flight together: one reply's cap for each reply not seen, `Workers - 1` messages and hypotheses, `Workers` traps in all, `2 * Workers - 1` of a day's messages, because a row carries the day its transaction began |
| `OneAccountEach` | one row and at most one "created" answer per email; a token opens only its person's account. Google's callback has no handler for the unique key: the loser gets a 500, no second row |
| `ConsentIsToTheTextRead` | an AI feature answers only who read and accepted the policy in force; the exception is the sign-up form, which records the version in force whatever it showed |

Bounds (`Services.cfg`): two requests in flight in every service, since each race here is one between a read
and a commit of somebody else, and three attempts of the hunt, the least that mix two columns (in every
service any worker may serve any request, hence the symmetry); four attempts of two students, one simulated, over two exercises that
share a skill, one rebuild, and apart from that three of them with late submits of the first up to
instant 6; windows of 2 and 3 ticks and six instants, enough for a sweep between two calls of the longer
window; two days and three requests of the hunt; three admin requests beside a session of the chief. Ciel is
followed twice over two days: three messages of one attempt with code and traps, and five plain messages
of two attempts, of which an attempt's cap is 2 and a day's 1, so each conjunct of `OverrunsByFlight` is reached
(one day takes at most four, an attempt at most three, and more are begun). Three sign-ins, two versions of the
policy, tokens that outlive one instant.

**Proofs.** Every property above is a theorem of its module, with the module's type invariant, for all
sets of students, keys, players, admins, people and requests, all limits and all windows. The idea of each
inductive invariant:

- `LearnerProofs` (`AttemptsCountOnce`, `InStepIsExact`): a score writes numbers computed from rows read
  before, so the invariant says what they are worth by then (`JobFits`): made of reported attempts, which its
  own is not until its report is in, and, if the difficulty is to move, of others of that student only where
  their status was put back. What a rebuild has computed is fit by induction over the reports replayed:
  `Replay` is a recursive function on sets of reports that takes the newest one off. While `inStep` holds,
  what was read is what is there, and the status and the reports tell the same about the attempts of the student.
- `ServicesProofs`, of the rate limiter (`BurstBounded`): what is kept for a key is the end of the list of its calls, and those
  missing either left the key's window or a sweep found the key idle for the shortest window
  (`Forgotten`). Without the second half the bound is not inductive, and it is where the property's
  exception comes from.
- `ServicesProofs`, of the daily hunt (`PlaysGradedAsStored`, `PlayedIsFinal`): what a request found about a day stays right
  unless the day was regenerated, and a play stored meanwhile carries the number of every request that was
  under way (`JobRight`). Requests are numbered once (`Numbered`), and
  the row an attempt has loaded is the one stored when it commits, unless another attempt wrote in between: both
  are then `rivals` of the row, which makes it `Contested`. No day in the future is played. That a streak falls only at
  midnight is an argument on the least day that is missing in it.
- `AccountsProofs` (`OneAccountForEach`, `OnlyReadTextsBind`; `ResetsTakeHold`): ids are one more than the
  rows there are, rows are never taken away, so a token keeps naming its person's row; consent on a row is
  to a text its owner accepted, or the form's. For admins `ResetTakesHold` is inductive with what the
  requests in flight remember: whoever opens a session or writes a row found the account there
  (`OwnersExist`), and a request's number, of which its session's id is made, is used once.
- `ServicesProofs`, of the mentor (`CapsOverrunByFlight`, `ShownCodeIsBounded`): for each cap the sum of what is stored
  and what is on its way is bounded, because the check lets a request through only below the cap and
  at most `Workers - 1` others are past it; a day that has ended also has those that waited for the
  check. For the code shown, each reply is measured against the replies it had read (`Measured`).

The assumptions on constants are `LearnerAssumption`, `NoneIsNoRating`, `RateAssumption`, `HuntAssumption`,
`AccountsAssumption`, `AdminAssumption` and `MentorAssumption`: bounds are numbers, limits and windows are
positive, the sets that are counted are finite, submissions have distinct times.

## 8. Scoring and feedback

`Scoring` is the first engine and the features both read, `Rubric` the second engine and the evidence it
reads, `Diagnosis` the findings, `Feedback` their text, `ScoredSession` how a log comes to be. All
but the last are functions. The log is a sequence sorted as the query sorts it (by timestamp, then id):
the browser stamps edits and signals with its own clock and posts them in batches, also after the score;
a reply is stamped when it is stored but its row starts with its request.

| code | definitions |
| --- | --- |
| `attempts/service.py`, `router.py`, `debug.py`, `mentor/service.py` | `Open`, `Edit`, `Signal`, `Post`, `Ask`, `Answer`, `Hypothesize`, `Run`, `Hint`, `Locate`, `Submit` |
| `attempts/scoring_service.py`, `scoring/judges.py` | `ExplainBack`, `Judged`, `Report`, `Integrity`, `Timeline` |
| `scoring/backfill.py`, `rescore.py` | `Backfill`, `Rescore` with either engine |
| `features.py`, `engine.py`; `rubric.py`, `evidence.py`, `engine_v2.py` | `Scoring`, `Rubric` |
| `feedback/diagnosis.py`; `templates.py`, `writer.py` | `Diagnosis`; `Feedback` |

`Scoring.cfg` checks that `SignalsNeverPay`, `SolvingPays`, `OutageKeepsAxes` and `ReportIsConsistent`
hold of every report. The first three compare the score of the session's log with that of the same log
without a signal, with a passing suite, or with the lowest verdicts. A session is bounded by the number
of its steps of each kind (`Sessions`): ten sessions, each about something that could go wrong (the
mentor's code, a browser whose clock is behind, fixing, locating, integrity, a second submit, what
comes after the score, a fix after four failing runs), of three to seven steps in any order, with every
verdict of the judges. The visible tests pass with one line, the hidden one with that line and without
another, so both kinds of failure occur, and the mentor's code fails only the hidden test.

What the properties do not say, because the code does otherwise: needing fixes can beat a clean solve
below 80 on the debugging axis (a comment at `engine.py:102` says it never does); fixing the hidden test after
four failing runs lowers that axis (`rubric.py:245-252`: 2 for a partial fix, 1 for a late one), and where a
Tests tab shares the rating of testing with the solved suite, the overall of the second engine too: a lower
score for better code, the exception `LateFix` of `SolvingPays`; the second engine counts runs after the first pass as
attempts; `accepted_buggy_ai` of the first engine may contradict the second's verdict, and is dropped from
the four risks shown when others come first; signals such as a hidden tab change only the status of
integrity; how much of the problem was read comes from the server's own event, which says all of it,
unless an earlier one of the browser sorts first. Replies are paired with prompt rows by their order (`evidence.py:121-127`),
which two replies in flight can break. A rescoring by the first engine drops the writer's lines for good.

**Proofs** (`ScoringProofs.tla`, `ScoredSessionProofs.tla`). The four properties hold of every session of
every length, for every exercise, clock skew, code, reply and verdict (`NoSignalPays`, `SolvingNeverCosts`,
`OutageKeepsTheAxes`, `ReportsAreConsistent`). What the engines do to a log is a filter, a count, a sum, a
median, a ranking or a merge of records. In the modules these are functions on the numbers up to a
length, which a proof unfolds after showing that such a function exists (`Recursion`), and not `SelectSeq`,
`SortSeq` or `@@`, of which the prover knows no definition. The lemmas of `ScoringProofs` are about any log that can be
read (`Readable`: each event has the fields its type needs, stamps and numbers are integers); those of
`ScoredSessionProofs` lead to the inductive invariant `SessionInv`:

- the log is ordered by stamps, as the query orders it, and can be read. The order needs a proof because the
  browser's events arrive late with stamps of another clock, and because `SignalsNeverPay` compares an event
  with the one that comes next;
- a result of the suite in it, or in what the browser has yet to post, counts the exercise's own tests;
- once the attempt was submitted there is such a result, so a report always rests on one.

From there:

- `NoSignalPays`: taking out an event the engines do not read changes no filter; it may make a reply's next event a
  later one, so that the reply counts as accepted in haste no more often; and the multiplier of integrity does not
  fall. Both engines are monotone in each axis and in the multiplier (`ScoredMonotone`, `OverallMonotone`),
  as long as the same axes apply.
- `OutageKeepsTheAxes`: an axis has a score exactly if it applies (`AxesV2`: `Applicable` reads the log without
  its verdicts), because each axis that applies has a level or a stand-in from the first engine.
- `SolvingNeverCosts`: by the first engine no axis falls. By the second, debugging may (of 36, twelve for each
  level): by 2 where a located bug shares the rating, and from 24 to 12 at a late fix. Testing then gains 3 at
  least, or rises to 36 from 24 or less, and weighs the same (`TradePays`, `OverallTrades`). Each axis is
  rounded by itself, which spoils this for some multipliers, but not for those there are: 100 less 12 for a
  paste and 6 for a lost focus, 40 at least, one more than a multiple of three. The late fix beside the
  student's own tests is left out because there the gain can be the smaller one (`LateFix`).
- `ReportsAreConsistent`: each group of findings says only what its level and reason allow on an axis that applies
  (`MaySay`, `Says`), findings that need a solved attempt and findings that need a failed one never meet (`Apart`), and
  the ranking only picks among them (`Consistent`).

`SessionAssumption` says that an exercise has a visible test, that code passes no more tests than there are,
that the judges' levels are 0 to 3 or none, and that the choices of an instance have the fields they need.

`MCFeedback` (extended by `MCScoring`, so evaluated when the run starts) decides over all findings
`Diagnosis` makes and all short lines of a model: `EveryFindingHasItsText` (no placeholder stays open),
`OnlyFitLinesAreShown` (length, closed code, names of exercises, a copy of the template),
`EveryFindingIsTold` (one text per finding, in order, whatever the model answers). A code fence that is never closed
is not recognised, whatever its length up to the 400 characters of a line.

## 9. Sandbox, guard, content

Computations without state: each module translates the functions, its MC module states what its callers
rely on as `ASSUME`s over every input of a bound, which TLC decides when it starts. `MCGuard` extends
`MCSandbox` and is extended by `MCAttempts`, `MCContent` by `MCExerciseReview`, `MCAdvice` by
`MCServices`.

| module | code | decided |
| --- | --- | --- |
| `Sandbox` | `sandbox/runner.py`, `practice/router.py` | `EveryTestHasItsCase`; `RunForetellsSubmit`, unless a hidden test leaves something behind in the namespace all tests share (`HiddenTestsInterfere`: then it may not); `TracesAreBounded` |
| `Guard` | `mentor/guard.py`, `overlap.py` | `RenamingHidesNothing`; `PiecesNeverAddUp`: replies looked at one after the other never show half of the solution together; `WherePiecesAddUp`: side by side they may, and fragments under five tokens never count; `FunctionsAreSeen`, `PlacesAreSeen`, `OnlySolutionsSolve` |
| `Content` | `content/validate.py`, `exercises/starters.py`, `debug_regions.py`, `student_tests` | `StartersAreServed`: no statement of the solution, parsable, stable; `BugsCanBePointedAt`; `AcceptedContentTeaches`; `ChecksForetellTheSubmit`; `ApprovalIsBySomeoneElse` |
| `Advice` | `learner/profile.py`, `brief.py`, `recommend.py`, `next_exercise.py`, `exercises/service.py`, `dashboard`, `mentor/memory.py` | `NamedSkillsAreEarned`, `WeakSkillsAgree`, `RecommendationsAreOpen`, `NumbersAgree`, `OldReportsAreNeutral`, `MemoryIsTheLatest`, ... |

A program is what running it does (load, each test's outcome, what a test leaves behind, which tests
notice), a reply is what the guard's patterns find in it, a source is its lines with their kind and
indent. Three or four tests, sources of four lines, diffs of three changes and four skills contain each
distinction the functions make.

Where a promise ends is part of its statement. The starter of a source with an import or a header under
an `if`, a `try` or a `def` may not parse, and one without a plain header line (an `async def`, a
signature over several lines) is served whole. A function spread over two blocks is not seen, and of the numbers after
"lines" only two are read. One student test that hangs the reference invalidates all of them at
the submit, though each was valid alone. The brief compares ratings rounded to a tenth, the recommendation
unrounded ones, so two that share their tenth may name different weak skills
(`RoundingSeparatesThem`; `brief.py:48-49` says both name the same). A practice trace without a call runs the script
twice, and a script that fails shows no frame.

## 10. What is proved, what is only checked, what is assumed

- Proved for every instance: every safety and action property of the passing runs, both refinements, and the
  type invariants, which therefore need no run. The theorems are those of sections 4 to 8. Assumptions: `PriceListAssumption`, `BoundsAssumption`,
  `ConstantsAssumption`, `MonthsFollow` (the months follow the days), `SessionAssumption` and those of section 7 - all evaluated by
  TLC on every run; in `ExerciseReview` the assumption only says that the sets hold payloads and that
  `None` is not a value. `SubmittedIsJudged` alone has a hypothesis besides (section 5).
- Induction over data is done without a theorem of induction: a nonempty set of numbers has a least
  member (`LeastNumber`, from the well-foundedness of `<`), hence a family of subsets of a finite set has a
  member that leaves it by losing any element (`SmallestSet`), and a claim is shown by having no least
  counterexample. A recursive function, and the function inside a fold of the community modules, is
  unfolded after a lemma that such a function exists. Each proof module that needs `LeastNumber` states it again.
- Only model-checked: `MoneySettles`, `RequestsEnd` and `AnsweredIsReported` (fairness and ENABLED are out
  of the prover's reach), and what the `ASSUME`s of section 9 and of `MCFeedback` decide over bounded inputs.
- Deadlock is not checked (`CHECK_DEADLOCK FALSE`): ids, time, sessions and failures are bounded, and a
  system with nothing to do may rest. `RequestsEnd`, of attempts and of the
  review, says that nobody waits for ever; `DeadlocksSpareMoney` whom a deadlock in billing can hit.

**Abstractions.** The tier of a student does not change during an Attempts run (`Free` is a constant);
the two SELECTs of `_open_step` are one step; event ids are taken in commit order; in `Attempts` the
score is any of a small set (`ScoredSession` computes it, for one client whose requests do not overlap);
the checks of ownership and rate limits that refuse without a write are left out; a failing sandbox or
model is `Fail` or `ModelFails`; admins are not deleted, and one exercise is followed, so that a
synchronisation holds its lock for as long as its other files take. A learner update flushes before
the writer's model call, so its row locks are held across it.
`ScoredSession` assumes the page's order, in which an explain-back follows a submit: the endpoint does not require one.
The run of a second tab during a submit (`attempts/router.py:139`) is outside `SubmittedCodeIsJudged`.

**Not modelled.** Entitlements (a table of limits), calibration tools (offline floating point statistics
over exported tables), seeds, migrations and settings; the wording of prompts, templates and messages, the
language of replies, cost reports; the parsing of a transfer's content; the scrubbing of personal data
from texts; audit rows, search and paging; the admin pages (`admin/overview.py`, `payments.py`, `users.py`), which
only query. `payments.py:96` calls the rows of the payments page "transfers that paid a CodeProve order"; the
query takes every transfer that names an order, repeats and wrong amounts included. Two hazards have no property, with the reason beside them in
`PROJECT.json`: the width of an order id in a column, and a save of the tests that overlaps a submit; a third is an
assumption of `MCContent`, as it is about one computation.
