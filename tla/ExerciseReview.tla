--------------------------- MODULE ExerciseReview ---------------------------
(***************************************************************************)
(* The review of one exercise (app/features/admin/exercises.py): admins      *)
(* draft, submit, approve, reject and publish it while the synchronisation   *)
(* of the content files (app/features/content/sync.py) and the seed write    *)
(* the same exercise.                                                       *)
(*                                                                          *)
(* A worker runs one request, or one synchronisation, as a READ COMMITTED   *)
(* transaction.  The draft is guarded by compare-and-swap: a handler reads   *)
(* the row, decides (the sandbox may run for seconds), and updates the row   *)
(* only WHERE revision and status still are what it read.  A publication     *)
(* then keeps the draft's row locked while it waits for the exercise's.      *)
(* Requests that are refused with nothing changed are no steps, except those *)
(* already under way; a request quotes the revision the admin saw and is     *)
(* refused unless the row it loads has it, so the two are one here.          *)
(***************************************************************************)
EXTENDS Naturals

CONSTANTS
    Admins,        \* admin accounts
    Solutions,     \* contents of the exercise row: its solution stands for all columns
    Suites,        \* contents of its tests and mutants, rows of other tables
    Valid,         \* the payloads the sandbox validator accepts
    Workers,       \* requests and synchronisations that can be in flight at a time
    None,          \* no value; a free row
    Drafted,       \* bound: payloads the admins type in
    Files,         \* bound: contents of the file on its way from the repository
    MaxRevision,   \* bound: revisions of the draft
    MaxFails       \* bound: transactions that die before they commit

Payload == [solution : Solutions, tests : Suites]

ASSUME ConstantsAssumption ==
    /\ Valid \subseteq Payload /\ Drafted \subseteq Payload /\ Files \subseteq Payload
    /\ None \notin Admins \cup Solutions \cup Suites \cup Payload \cup Workers
    /\ MaxRevision \in Nat /\ MaxFails \in Nat

VARIABLES
    active,      \* the admins whose account is enabled
    draft,       \* the exercise_drafts row of the exercise, or NoDraft
    exercise,    \* the exercises row with its tests, or NoExercise
    draftLock,   \* the worker whose transaction has updated the draft
    exLock,      \* the worker whose transaction has locked the exercise
    pc,          \* pc[w]: the statement worker w runs next
    job,         \* job[w]: the arguments and local variables of w
    fails        \* transactions that died

tables == <<active, draft, exercise>>
locks  == <<draftLock, exLock>>
vars   == <<tables, locks, pc, job, fails>>

-----------------------------------------------------------------------------
(* Rows and transactions                                                   *)

Statuses == {"draft", "review", "approved", "published"}

Draft == [payload : Payload, status : Statuses, revision : Nat,
          author : Admins, reviewer : Admins \cup {None}]
NoDraft == [payload |-> None, status |-> "none", revision |-> 0,
            author |-> None, reviewer |-> None]

Exercise == [solution : Solutions, tests : Suites, source : {"file", "admin"}]
NoExercise == [solution |-> None, tests |-> None, source |-> "none"]

Stored(p, source) == [solution |-> p.solution, tests |-> p.tests, source |-> source]

\* Statements that update the draft, and those of other requests.
Deciding   == {"save", "submit", "approve", "reject", "publish", "write"}
Statements == Deciding \cup {"idle", "snapshot", "insert", "lock", "commit"}

Job == [admin : Admins \cup {None},                 \* principal.user
        row : Draft \cup {NoDraft},                 \* the draft as loaded
        payload : Payload \cup {None},              \* what it is to become, or the file
        exercise : Exercise \cup {NoExercise}]      \* the exercise as loaded
NoJob == [admin |-> None, row |-> NoDraft, payload |-> None, exercise |-> NoExercise]

Freed_Never(lock, w) == lock
Freed(lock, w) == IF lock = w THEN None ELSE lock

\* Worker w's transaction ends, committed or rolled back.
End(w) ==
    /\ draftLock' = Freed(draftLock, w)
    /\ exLock' = Freed(exLock, w)
    /\ pc' = [pc EXCEPT ![w] = "idle"]
    /\ job' = [job EXCEPT ![w] = NoJob]

\* Worker w starts, or goes on, with what it computed in j.
Continue(w, to, j) ==
    /\ pc' = [pc EXCEPT ![w] = to]
    /\ job' = [job EXCEPT ![w] = j]
    /\ UNCHANGED <<tables, fails>>

\* ready_admin lets enabled accounts in.
Begin(w, a, to, j) ==
    /\ pc[w] = "idle"
    /\ a \in active
    /\ Continue(w, to, [j EXCEPT !.admin = a])
    /\ UNCHANGED locks

\* A request on the draft loads it; p is the payload sent along, if any.
Load(w, a, to, p) ==
    /\ draft.revision < MaxRevision
    /\ Begin(w, a, to, [NoJob EXCEPT !.row = draft, !.payload = p])

\* _advance: the WHERE of the update.
Unmoved_Status(row) == draft.status = row.status
Unmoved(row) == draft.revision = row.revision /\ draft.status = row.status

\* _advance by w, which waits while a publication holds the row.
Advance(w, next) ==
    /\ draftLock = None
    /\ Unmoved(job[w].row)
    /\ draft' = [next EXCEPT !.revision = job[w].row.revision + 1]

-----------------------------------------------------------------------------
(* Drafts                                                                  *)

\* POST /drafts: of a code with neither exercise nor draft.
CreateDraft(w, a, p) ==
    /\ exercise = NoExercise /\ draft = NoDraft
    /\ Begin(w, a, "insert", [NoJob EXCEPT !.payload = p])

\* POST /{code}/draft: the exercise row is loaded, the tests by later statements.
StartRevision(w, a) ==
    /\ exercise # NoExercise
    /\ Begin(w, a, "snapshot", [NoJob EXCEPT !.exercise = exercise])

Snapshot(w) ==
    /\ pc[w] = "snapshot"
    /\ draft = NoDraft
    /\ Continue(w, "insert", [job[w] EXCEPT
          !.payload = [solution |-> job[w].exercise.solution, tests |-> exercise.tests]])
    /\ UNCHANGED locks

NewDraft(p, a) ==
    [payload |-> p, status |-> "draft", revision |-> 1, author |-> a, reviewer |-> None]

InsertDraft(w) ==
    /\ pc[w] = "insert"
    /\ draft = NoDraft
    /\ draft' = NewDraft(job[w].payload, job[w].admin)
    /\ End(w)
    /\ UNCHANGED <<active, exercise, fails>>

\* 409: the draft exists by now, or its insert meets the unique code.
DraftExists(w) ==
    /\ pc[w] \in {"snapshot", "insert"}
    /\ draft # NoDraft
    /\ End(w)
    /\ UNCHANGED <<tables, fails>>

\* PUT /drafts/{code}: a payload that changes nothing is not written.
SaveDraft(w, a, p) ==
    /\ draft.status \in {"draft", "published"}
    /\ p # draft.payload
    /\ Load(w, a, "save", p)

CommitSave(w) ==
    /\ pc[w] = "save"
    /\ Advance(w, [draft EXCEPT !.status = "draft", !.payload = job[w].payload,
                                !.author = job[w].admin, !.reviewer = None])
    /\ End(w)
    /\ UNCHANGED <<active, exercise, fails>>

-----------------------------------------------------------------------------
(* Review                                                                  *)

SubmitDraft(w, a) == draft.status = "draft" /\ Load(w, a, "submit", None)

CommitSubmit(w) ==
    /\ pc[w] = "submit"
    /\ job[w].row.payload \in Valid
    /\ Advance(w, [draft EXCEPT !.status = "review"])
    /\ End(w)
    /\ UNCHANGED <<active, exercise, fails>>

\* 422: the validator found errors in the payload it was given.
RefuseInvalid(w) ==
    /\ pc[w] \in {"submit", "publish"}
    /\ job[w].row.payload \notin Valid
    /\ End(w)
    /\ UNCHANGED <<tables, fails>>

\* POST /approve and /reject: by an admin other than the author.
OpenReview(w, a, to) ==
    /\ draft.status = "review"
    /\ draft.author # a
    /\ Load(w, a, to, None)

CommitApprove(w) ==
    /\ pc[w] = "approve"
    /\ Advance(w, [draft EXCEPT !.status = "approved", !.reviewer = job[w].admin])
    /\ End(w)
    /\ UNCHANGED <<active, exercise, fails>>

CommitReject(w) ==
    /\ pc[w] = "reject"
    /\ Advance(w, [draft EXCEPT !.status = "draft", !.reviewer = None])
    /\ End(w)
    /\ UNCHANGED <<active, exercise, fails>>

\* 409: the draft was changed since it was loaded.
Conflict(w) ==
    /\ pc[w] \in Deciding \ {"write"}
    /\ pc[w] \in {"submit", "publish"} => job[w].row.payload \in Valid
    /\ draftLock = None
    /\ ~Unmoved(job[w].row)
    /\ End(w)
    /\ UNCHANGED <<tables, fails>>

-----------------------------------------------------------------------------
(* Publication                                                             *)

\* Independent review, by an account that is still enabled.
PublishDraft(w, a) ==
    /\ draft.status = "approved"
    /\ draft.reviewer \notin {None, draft.author}
    /\ draft.reviewer \in active
    /\ Load(w, a, "publish", None)

\* The payload passes the validator again and the draft is updated; then the
\* exercise is read, without a lock.
ClaimDraft(w) ==
    /\ pc[w] = "publish"
    /\ job[w].row.payload \in Valid
    /\ draftLock = None
    /\ Unmoved(job[w].row)
    /\ draftLock' = w
    /\ Continue(w, "write", [job[w] EXCEPT !.exercise = exercise])
    /\ UNCHANGED exLock

\* UPDATE names a column only where its new value differs from the one read.
Column(c, read, new) == IF new[c] = read[c] THEN exercise[c] ELSE new[c]

\* _write: the row is updated (or inserted: nothing was read), the tests are deleted
\* and inserted again.
Written(read, new) ==
    [solution |-> Column("solution", read, new), tests |-> new.tests,
     source |-> Column("source", read, new)]

CommitPublication(w) ==
    /\ pc[w] = "write"
    /\ exLock = None
    /\ job[w].exercise = NoExercise => exercise = NoExercise
    /\ exercise' = Written(job[w].exercise, Stored(draft.payload, "admin"))
    /\ draft' = [draft EXCEPT !.status = "published", !.revision = job[w].row.revision + 1]
    /\ End(w)
    /\ UNCHANGED <<active, fails>>

\* 409: the exercise has been seeded since.
ExerciseExists(w) ==
    /\ pc[w] = "write"
    /\ job[w].exercise = NoExercise /\ exercise # NoExercise
    /\ End(w)
    /\ UNCHANGED <<tables, fails>>

-----------------------------------------------------------------------------
(* Content files, the seed, accounts                                       *)

FileManaged_Always(row) == row # NoExercise
FileManaged(row) == row # NoExercise /\ row.source # "admin"

\* sync_content --apply on the exercise's file p; the validator runs.
SyncFile(w, p) ==
    /\ pc[w] = "idle"
    /\ exercise # NoExercise /\ exercise.source # "admin"
    /\ p \in Valid
    /\ Continue(w, "lock", [NoJob EXCEPT !.payload = p])
    /\ UNCHANGED locks

\* SELECT ... FOR UPDATE, and a second look at who manages the exercise.  The row
\* stays locked until all files are done, also when this one is skipped.
LockExercise(w) ==
    /\ pc[w] = "lock"
    /\ exLock = None
    /\ exLock' = w
    /\ Continue(w, "commit", IF FileManaged(exercise) THEN job[w] ELSE NoJob)
    /\ UNCHANGED draftLock

CommitSync(w) ==
    /\ pc[w] = "commit"
    /\ exercise' = IF job[w].payload = None THEN exercise ELSE Stored(job[w].payload, "file")
    /\ End(w)
    /\ UNCHANGED <<active, draft, fails>>

\* The seed inserts the exercises that are not in the database.
Seed(p) ==
    /\ exercise = NoExercise
    /\ exercise' = Stored(p, "file")
    /\ UNCHANGED <<active, draft, locks, pc, job, fails>>

SetAdminStatus(a) ==
    /\ active' = IF a \in active THEN active \ {a} ELSE active \cup {a}
    /\ UNCHANGED <<draft, exercise, locks, pc, job, fails>>

\* The sandbox, the database or the process fails: the transaction is rolled back.
Fail(w) ==
    /\ pc[w] # "idle"
    /\ fails < MaxFails
    /\ fails' = fails + 1
    /\ End(w)
    /\ UNCHANGED tables

-----------------------------------------------------------------------------
(* The specification                                                       *)

Init ==
    /\ active = Admins
    /\ draft = NoDraft
    /\ exercise = NoExercise
    /\ draftLock = None /\ exLock = None
    /\ pc = [w \in Workers |-> "idle"]
    /\ job = [w \in Workers |-> NoJob]
    /\ fails = 0

Request(w, a) ==
    \/ \E p \in Drafted : CreateDraft(w, a, p) \/ SaveDraft(w, a, p)
    \/ StartRevision(w, a)
    \/ SubmitDraft(w, a)
    \/ OpenReview(w, a, "approve") \/ OpenReview(w, a, "reject")
    \/ PublishDraft(w, a)

\* Worker w runs the next statement of its transaction.
Resume(w) ==
    \/ Snapshot(w) \/ InsertDraft(w) \/ DraftExists(w)
    \/ CommitSave(w) \/ CommitSubmit(w) \/ RefuseInvalid(w)
    \/ CommitApprove(w) \/ CommitReject(w) \/ Conflict(w)
    \/ ClaimDraft(w) \/ CommitPublication(w) \/ ExerciseExists(w)
    \/ LockExercise(w) \/ CommitSync(w)

Next ==
    \/ \E w \in Workers, a \in Admins : Request(w, a)
    \/ \E w \in Workers, p \in Files : SyncFile(w, p)
    \/ \E w \in Workers : Resume(w) \/ Fail(w)
    \/ \E p \in Files : Seed(p)
    \/ \E a \in Admins : SetAdminStatus(a)

Spec == Init /\ [][Next]_vars

\* The server and the synchronisation run every statement they have come to, and
\* PostgreSQL hands a row's lock to those that wait for it in their order.
FairSpec == Spec /\ \A w \in Workers : SF_vars(Resume(w))

-----------------------------------------------------------------------------
(* Properties                                                              *)

\* Every variable keeps the shape the code gives it.
TypeOK ==
    /\ active \subseteq Admins
    /\ draft \in Draft \cup {NoDraft}
    /\ exercise \in Exercise \cup {NoExercise}
    /\ draftLock \in Workers \cup {None}
    /\ exLock \in Workers \cup {None}
    /\ pc \in [Workers -> Statements]
    /\ job \in [Workers -> Job]
    /\ fails \in Nat

\* Four eyes: an approved or published draft was approved by an admin other than the
\* one who wrote it last, and no approval outlives an edit or a rejection, whatever
\* requests of either admin were under way meanwhile.
IndependentReview ==
    /\ draft.status \in {"approved", "published"} => draft.reviewer \in Admins \ {draft.author}
    /\ draft.status \in {"draft", "review"} => draft.reviewer = None

\* What a reviewer gets to see, approves and publishes has passed the validator:
\* validation runs in the sandbox for seconds, and the payload that then goes on is
\* the one it ran on.
ReviewedIsValid ==
    draft.status \in {"review", "approved", "published"} => draft.payload \in Valid

\* Every change of a draft is made by a request that had loaded that very row,
\* content, author and reviewer: no edit is lost, and nobody approves, rejects or
\* publishes anything but what he was shown, even if the draft comes back to the
\* same status in between.
DecidedAsRead ==
    [][draft' # draft /\ draft # NoDraft =>
          \E w \in Workers : pc[w] \in Deciding /\ pc'[w] = "idle" /\ job[w].row = draft]_vars

\* Every request and every synchronisation ends: nobody waits for a row forever.
RequestsEnd == \A w \in Workers : (pc[w] # "idle") ~> (pc[w] = "idle")

\* "Revalidate and atomically update the learner exercise and tests": publication
\* leaves the exercise with the content of the draft, and nothing else.
PublishedAsReviewed ==
    [][draft.status = "approved" /\ draft'.status = "published" =>
          exercise' = Stored(draft.payload, "admin")]_vars

\* The whole of it behaves like ReviewBoard: for all its reads, waits and failures, a
\* request acts in one step on the draft and the exercise as they stand.
Board == INSTANCE ReviewBoard WITH
    draft <- [payload |-> draft.payload, status |-> draft.status,
              author |-> draft.author, reviewer |-> draft.reviewer]
ImplementsBoard == Board!Spec
=============================================================================
