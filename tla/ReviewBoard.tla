---------------------------- MODULE ReviewBoard ----------------------------
(***************************************************************************)
(* What the review of an exercise promises, without requests, revisions or  *)
(* locks: every decision is one step made on the draft as it stands, content *)
(* that fails validation never gets as far as a reviewer, nobody reviews his *)
(* own edit, and the file synchronisation leaves an exercise that the admins *)
(* publish alone.  ExerciseReview implements it (ExerciseReview!Board).     *)
(***************************************************************************)
CONSTANTS Admins, Solutions, Suites, Valid, None

VARIABLES
    draft,     \* [payload, status, author, reviewer]
    exercise   \* [solution, tests, source]: what learners get

vars == <<draft, exercise>>

Payload == [solution : Solutions, tests : Suites]
NoDraft == [payload |-> None, status |-> "none", author |-> None, reviewer |-> None]
NoExercise == [solution |-> None, tests |-> None, source |-> "none"]

Init == draft = NoDraft /\ exercise = NoExercise

\* Admin a opens a draft with content p, or edits it; earlier reviews are void.
Write(a, p) ==
    /\ draft.status \in {"none", "draft", "published"}
    /\ draft' = [payload |-> p, status |-> "draft", author |-> a, reviewer |-> None]
    /\ UNCHANGED exercise

Submit ==
    /\ draft.status = "draft"
    /\ draft.payload \in Valid
    /\ draft' = [draft EXCEPT !.status = "review"]
    /\ UNCHANGED exercise

Approve(a) ==
    /\ draft.status = "review"
    /\ a # draft.author
    /\ draft' = [payload |-> draft.payload, status |-> "approved",
                  author |-> draft.author, reviewer |-> a]
    /\ UNCHANGED exercise

Reject ==
    /\ draft.status = "review"
    /\ draft' = [draft EXCEPT !.status = "draft"]
    /\ UNCHANGED exercise

\* The exercise gets the reviewed content and belongs to the admins from now on.  Its
\* first publication may leave the columns of its row as a file has them: the promise
\* that the code does not keep in full (ExerciseReview!PublishedAsReviewed).
Publish ==
    /\ draft.status = "approved"
    /\ draft' = [draft EXCEPT !.status = "published"]
    /\ \E s \in {draft.payload.solution}
                 \cup (IF exercise.source = "file" THEN {exercise.solution} ELSE {}) :
          exercise' = [solution |-> s, tests |-> draft.payload.tests, source |-> "admin"]

\* A file, or the seed, gives the exercise its content.
Load(p) ==
    /\ exercise.source # "admin"
    /\ exercise' = [solution |-> p.solution, tests |-> p.tests, source |-> "file"]
    /\ UNCHANGED draft

Next ==
    \/ \E a \in Admins, p \in Payload : Write(a, p)
    \/ Submit
    \/ \E a \in Admins : Approve(a)
    \/ Reject
    \/ Publish
    \/ \E p \in Payload : Load(p)

Spec == Init /\ [][Next]_vars
=============================================================================
