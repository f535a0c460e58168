------------------------ MODULE ExerciseReviewProofs ------------------------
(***************************************************************************)
(* Theorems about ExerciseReview for every set of admins, contents and       *)
(* workers, every validator and every value of the bounds.                  *)
(***************************************************************************)
EXTENDS ExerciseReview, TLAPS

\* What worker w loaded of the draft is the draft, unless it has a later revision.
ReadIsPast(w) ==
    pc[w] \in Deciding =>
        /\ job[w].admin \in Admins /\ job[w].row \in Draft /\ draft \in Draft
        /\ job[w].row.revision <= draft.revision
        /\ job[w].row.revision = draft.revision => job[w].row = draft

\* The conditions w checked when it loaded the draft hold of what it loaded.
Checked(w) ==
    /\ pc[w] = "save" => job[w].payload \in Payload
    /\ pc[w] \in {"approve", "reject"} => job[w].row.status = "review"
    /\ pc[w] = "approve" => job[w].row.author # job[w].admin
    /\ pc[w] \in {"publish", "write"} => job[w].row.status = "approved"
    /\ pc[w] = "submit" => job[w].row.status = "draft"
    /\ pc[w] = "save" => job[w].row.status \in {"draft", "published"}

\* A publication holds the draft; what it read of an exercise of the admins is current.
Publishing(w) ==
    pc[w] = "write" =>
        /\ draftLock = w
        /\ job[w].row = draft
        /\ "admin" \in {exercise.source, job[w].exercise.source} => job[w].exercise = exercise
        /\ job[w].exercise # NoExercise => exercise # NoExercise

\* Requests that write no draft, or a new one.
OtherJobs(w) ==
    /\ pc[w] \in {"insert", "snapshot"} => job[w].admin \in Admins
    /\ pc[w] \in {"insert", "lock"} => job[w].payload \in Payload
    /\ pc[w] = "snapshot" => job[w].exercise \in Exercise
    /\ pc[w] \in {"snapshot", "lock", "commit"} => exercise \in Exercise
    /\ pc[w] = "commit" =>
          /\ exLock = w
          /\ job[w].payload # None => exercise.source = "file"

View(w) == ReadIsPast(w) /\ Checked(w) /\ Publishing(w) /\ OtherJobs(w)

LocksAreHeld ==
    /\ draftLock # None => pc[draftLock] = "write"
    /\ exLock # None => pc[exLock] = "commit"

Sound == TypeOK /\ LocksAreHeld /\ \A w \in Workers : View(w)
IInv == Sound /\ IndependentReview /\ ReviewedIsValid

-----------------------------------------------------------------------------
(* Constants and records                                                   *)

LEMMA Constants ==
    /\ Valid \subseteq Payload /\ Drafted \subseteq Payload /\ Files \subseteq Payload
    /\ None \notin Admins /\ None \notin Solutions /\ None \notin Suites
    /\ None \notin Payload /\ None \notin Workers
    /\ NoJob \in Job /\ NoDraft \notin Draft /\ NoExercise \notin Exercise
    /\ NoDraft.revision = 0 /\ NoDraft.status = "none" /\ NoExercise.source = "none"
  BY ConstantsAssumption
  DEF NoJob, Job, NoDraft, Draft, Statuses, NoExercise, Exercise

LEMMA StoredIsExercise ==
    ASSUME NEW p \in Payload, NEW source \in {"file", "admin"}
    PROVE  Stored(p, source) \in Exercise /\ Stored(p, source).source = source
  BY DEF Stored, Exercise, Payload

LEMMA InitIInv == Init => IInv
  BY Constants
  DEF Init, IInv, Sound, TypeOK, LocksAreHeld, View, ReadIsPast, Checked, Publishing,
      OtherJobs, IndependentReview, ReviewedIsValid, Statements, Deciding

-----------------------------------------------------------------------------
(* What a step of one worker leaves the others                             *)

\* The draft stays, or gets a later revision while no other worker has it locked.
DraftMoves(w) ==
    \/ UNCHANGED draft
    \/ /\ draft' \in Draft /\ draft'.revision > draft.revision
       /\ draftLock \in {None, w}

\* The exercise stays, or is written while no other worker has it locked: by a file
\* that may, or by the publication that has the draft locked.
ExerciseMoves(w) ==
    \/ UNCHANGED exercise
    \/ /\ exercise' \in Exercise
       /\ exLock \in {None, w} \/ exercise = NoExercise
       /\ draftLock = w \/ "admin" \notin {exercise.source, exercise'.source}

LEMMA OthersView ==
    ASSUME Sound, NEW w, NEW x \in Workers, x # w,
           pc'[x] = pc[x], job'[x] = job[x],
           DraftMoves(w), ExerciseMoves(w),
           draftLock = x => draftLock' = x, exLock = x => exLock' = x
    PROVE  View(x)'
  <1>1. View(x) /\ TypeOK
    BY DEF Sound
  <1>2. ReadIsPast(x)'
    <2>1. SUFFICES ASSUME pc[x] \in Deciding
                   PROVE  /\ job[x].admin \in Admins /\ job[x].row \in Draft /\ draft' \in Draft
                          /\ job[x].row.revision <= draft'.revision
                          /\ job[x].row.revision = draft'.revision => job[x].row = draft'
      BY DEF ReadIsPast
    <2>2. /\ job[x].admin \in Admins /\ job[x].row \in Draft /\ draft \in Draft
          /\ job[x].row.revision <= draft.revision
          /\ job[x].row.revision = draft.revision => job[x].row = draft
      BY <1>1, <2>1 DEF View, ReadIsPast
    <2>3. CASE UNCHANGED draft
      BY <2>2, <2>3
    <2>4. CASE draft' \in Draft /\ draft'.revision > draft.revision
      BY <2>2, <2>4 DEF Draft
    <2>5. QED
      BY <2>3, <2>4 DEF DraftMoves
  <1>3. Checked(x)'
    BY <1>1 DEF View, Checked
  <1>4. Publishing(x)'
    <2>1. SUFFICES ASSUME pc[x] = "write"
                   PROVE  /\ draftLock' = x
                          /\ job[x].row = draft'
                          /\ "admin" \in {exercise'.source, job[x].exercise.source} =>
                                job[x].exercise = exercise'
                          /\ job[x].exercise # NoExercise => exercise' # NoExercise
      BY DEF Publishing
    <2>2. /\ draftLock = x /\ job[x].row = draft
          /\ "admin" \in {exercise.source, job[x].exercise.source} => job[x].exercise = exercise
          /\ job[x].exercise # NoExercise => exercise # NoExercise
      BY <1>1, <2>1 DEF View, Publishing
    <2>3. draft' = draft
      BY <2>2, Constants DEF DraftMoves
    <2>4. CASE UNCHANGED exercise
      BY <2>2, <2>3, <2>4
    <2>5. CASE exercise' \in Exercise /\ "admin" \notin {exercise.source, exercise'.source}
      BY <2>2, <2>3, <2>5, Constants
    <2>6. QED
      BY <2>2, <2>4, <2>5 DEF ExerciseMoves
  <1>5. OtherJobs(x)'
    <2>1. pc[x] \in {"snapshot", "lock", "commit"} => exercise' \in Exercise
      BY <1>1 DEF View, OtherJobs, ExerciseMoves
    <2>2. pc[x] = "commit" =>
             exLock' = x /\ (job[x].payload # None => exercise'.source = "file")
      <3>1. SUFFICES ASSUME pc[x] = "commit"
                     PROVE  exLock' = x /\ (job[x].payload # None => exercise'.source = "file")
        OBVIOUS
      <3>2. /\ exLock = x /\ exercise \in Exercise
            /\ job[x].payload # None => exercise.source = "file"
        BY <1>1, <3>1 DEF View, OtherJobs
      <3>3. exercise' = exercise
        BY <3>2, Constants DEF ExerciseMoves
      <3>4. QED
        BY <3>2, <3>3
    <2>3. QED
      BY <1>1, <2>1, <2>2 DEF View, OtherJobs
  <1>6. QED
    BY <1>2, <1>3, <1>4, <1>5 DEF View

\* A worker whose transaction ends.
LEMMA EndStep ==
    ASSUME Sound, NEW w \in Workers, End(w), DraftMoves(w), ExerciseMoves(w),
           active' \subseteq Admins, fails' \in Nat
    PROVE  Sound'
  <1>1. TypeOK /\ LocksAreHeld
    BY DEF Sound
  <1>2. /\ pc' \in [Workers -> Statements] /\ job' \in [Workers -> Job]
        /\ pc'[w] = "idle" /\ job'[w] = NoJob
        /\ \A x \in Workers \ {w} : pc'[x] = pc[x] /\ job'[x] = job[x]
    BY <1>1, Constants DEF TypeOK, End, Statements
  <1>3. /\ draftLock' \in {draftLock, None} \ {w} /\ exLock' \in {exLock, None} \ {w}
        /\ \A x \in Workers \ {w} : (draftLock = x => draftLock' = x) /\ (exLock = x => exLock' = x)
    BY Constants DEF End, Freed
  <1>4. draft' \in Draft \cup {NoDraft} /\ exercise' \in Exercise \cup {NoExercise}
    BY <1>1 DEF TypeOK, DraftMoves, ExerciseMoves
  <1>5. TypeOK'
    BY <1>1, <1>2, <1>3, <1>4 DEF TypeOK
  <1>6. LocksAreHeld'
    BY <1>1, <1>2, <1>3 DEF TypeOK, LocksAreHeld
  <1>7. ASSUME NEW x \in Workers PROVE View(x)'
    <2>1. CASE x = w
      BY <1>2, <2>1 DEF View, ReadIsPast, Checked, Publishing, OtherJobs, Deciding
    <2>2. CASE x # w
      BY <1>2, <1>3, <2>2, OthersView
    <2>3. QED
      BY <2>1, <2>2
  <1>8. QED
    BY <1>5, <1>6, <1>7 DEF Sound

\* A worker that starts or goes on, with a lock more or none.
LEMMA ContinueStep ==
    ASSUME Sound, NEW w \in Workers, NEW to \in Statements \ {"idle"}, NEW j \in Job,
           Continue(w, to, j),
           UNCHANGED draftLock \/ (draftLock = None /\ draftLock' = w /\ to = "write"),
           UNCHANGED exLock \/ (exLock = None /\ exLock' = w /\ to = "commit"),
           pc[w] \notin {"write", "commit"},
           (pc'[w] = to /\ job'[w] = j) => View(w)'
    PROVE  Sound'
  <1>1. TypeOK /\ LocksAreHeld
    BY DEF Sound
  <1>2. /\ pc' \in [Workers -> Statements] /\ job' \in [Workers -> Job]
        /\ pc'[w] = to /\ job'[w] = j
        /\ \A x \in Workers \ {w} : pc'[x] = pc[x] /\ job'[x] = job[x]
    BY <1>1 DEF TypeOK, Continue
  <1>3. TypeOK'
    BY <1>1, <1>2 DEF TypeOK, Continue, tables
  <1>4. LocksAreHeld'
    BY <1>1, <1>2 DEF TypeOK, LocksAreHeld
  <1>5. DraftMoves(w) /\ ExerciseMoves(w)
    BY DEF Continue, tables, DraftMoves, ExerciseMoves
  <1>6. ASSUME NEW x \in Workers PROVE View(x)'
    <2>1. CASE x = w
      BY <1>2, <2>1
    <2>2. CASE x # w
      <3>1. (draftLock = x => draftLock' = x) /\ (exLock = x => exLock' = x)
        BY Constants
      <3>2. QED
        BY <1>2, <1>5, <2>2, <3>1, OthersView
    <2>3. QED
      BY <2>1, <2>2
  <1>7. QED
    BY <1>3, <1>4, <1>6 DEF Sound

-----------------------------------------------------------------------------
(* The draft's compare-and-swap                                            *)

\* A request that gets its update through updates the row it had loaded.
LEMMA AdvanceFacts ==
    ASSUME Sound, NEW w \in Workers, pc[w] \in Deciding, NEW next \in Draft, Advance(w, next)
    PROVE  /\ draftLock = None /\ draft \in Draft /\ job[w].row = draft
           /\ draft' \in Draft /\ draft'.revision = draft.revision + 1
           /\ draft'.payload = next.payload /\ draft'.status = next.status
           /\ draft'.author = next.author /\ draft'.reviewer = next.reviewer
           /\ DraftMoves(w)
  <1>1. /\ draftLock = None /\ job[w].row.revision = draft.revision
        /\ draft' = [next EXCEPT !.revision = job[w].row.revision + 1]
    BY DEF Advance, Unmoved
  <1>2. job[w].row = draft /\ draft \in Draft
    BY <1>1 DEF Sound, View, ReadIsPast
  <1>3. PICK n \in Nat : n = draft.revision + 1 /\ draft' = [next EXCEPT !.revision = n]
    BY <1>1, <1>2 DEF Draft
  <1>4. /\ draft' \in Draft /\ draft'.revision = n
        /\ draft'.payload = next.payload /\ draft'.status = next.status
        /\ draft'.author = next.author /\ draft'.reviewer = next.reviewer
    BY <1>3 DEF Draft
  <1>5. draft'.revision > draft.revision
    BY <1>2, <1>3, <1>4 DEF Draft
  <1>6. QED
    BY <1>1, <1>2, <1>3, <1>4, <1>5 DEF DraftMoves

\* What the four decisions make of the draft.
LEMMA DecisionFacts ==
    ASSUME IInv, NEW w \in Workers
    PROVE  /\ CommitSave(w) =>
                /\ job[w].row = draft /\ draftLock = None /\ draft \in Draft
                /\ draft.status \in {"draft", "published"}
                /\ draft' \in Draft /\ DraftMoves(w)
                /\ job[w].payload \in Payload /\ job[w].admin \in Admins
                /\ draft'.payload = job[w].payload /\ draft'.status = "draft"
                /\ draft'.author = job[w].admin /\ draft'.reviewer = None
           /\ CommitSubmit(w) =>
                /\ job[w].row = draft /\ draftLock = None /\ draft \in Draft
                /\ draft.status = "draft" /\ draft.payload \in Valid
                /\ draft' \in Draft /\ DraftMoves(w)
                /\ draft'.payload = draft.payload /\ draft'.status = "review"
                /\ draft'.author = draft.author /\ draft'.reviewer = draft.reviewer
           /\ CommitApprove(w) =>
                /\ job[w].row = draft /\ draftLock = None /\ draft \in Draft
                /\ draft.status = "review"
                /\ draft' \in Draft /\ DraftMoves(w)
                /\ job[w].admin \in Admins \ {draft.author}
                /\ draft'.payload = draft.payload /\ draft'.status = "approved"
                /\ draft'.author = draft.author /\ draft'.reviewer = job[w].admin
           /\ CommitReject(w) =>
                /\ job[w].row = draft /\ draftLock = None /\ draft \in Draft
                /\ draft.status = "review"
                /\ draft' \in Draft /\ DraftMoves(w)
                /\ draft'.payload = draft.payload /\ draft'.status = "draft"
                /\ draft'.author = draft.author /\ draft'.reviewer = None
  <1>0. Sound /\ Checked(w) /\ ReadIsPast(w)
    BY DEF IInv, Sound, View
  <1>1. ASSUME CommitSave(w)
        PROVE  /\ job[w].row = draft /\ draftLock = None /\ draft \in Draft
               /\ draft.status \in {"draft", "published"}
               /\ draft' \in Draft /\ DraftMoves(w)
               /\ job[w].payload \in Payload /\ job[w].admin \in Admins
               /\ draft'.payload = job[w].payload /\ draft'.status = "draft"
               /\ draft'.author = job[w].admin /\ draft'.reviewer = None
    <2>1. /\ pc[w] = "save" /\ pc[w] \in Deciding /\ draft \in Draft
          /\ job[w].payload \in Payload /\ job[w].admin \in Admins
          /\ job[w].row.status \in {"draft", "published"}
      BY <1>0, <1>1 DEF CommitSave, Deciding, Checked, ReadIsPast
    <2>2. PICK next : next = [draft EXCEPT !.status = "draft", !.payload = job[w].payload,
                                           !.author = job[w].admin, !.reviewer = None]
      OBVIOUS
    <2>3. /\ next \in Draft /\ next.payload = job[w].payload /\ next.status = "draft"
          /\ next.author = job[w].admin /\ next.reviewer = None
      BY <2>1, <2>2 DEF Draft, Statuses
    <2>4. Advance(w, next)
      BY <1>1, <2>2 DEF CommitSave
    <2>5. QED
      BY <1>0, <2>1, <2>3, <2>4, AdvanceFacts
  <1>2. ASSUME CommitSubmit(w)
        PROVE  /\ job[w].row = draft /\ draftLock = None /\ draft \in Draft
               /\ draft.status = "draft" /\ draft.payload \in Valid
               /\ draft' \in Draft /\ DraftMoves(w)
               /\ draft'.payload = draft.payload /\ draft'.status = "review"
               /\ draft'.author = draft.author /\ draft'.reviewer = draft.reviewer
    <2>1. /\ pc[w] = "submit" /\ pc[w] \in Deciding /\ draft \in Draft
          /\ job[w].row.status = "draft" /\ job[w].row.payload \in Valid
      BY <1>0, <1>2 DEF CommitSubmit, Deciding, Checked, ReadIsPast
    <2>2. PICK next : next = [draft EXCEPT !.status = "review"]
      OBVIOUS
    <2>3. /\ next \in Draft /\ next.payload = draft.payload /\ next.status = "review"
          /\ next.author = draft.author /\ next.reviewer = draft.reviewer
      BY <2>1, <2>2 DEF Draft, Statuses
    <2>4. Advance(w, next)
      BY <1>2, <2>2 DEF CommitSubmit
    <2>5. QED
      BY <1>0, <2>1, <2>3, <2>4, AdvanceFacts
  <1>3. ASSUME CommitApprove(w)
        PROVE  /\ job[w].row = draft /\ draftLock = None /\ draft \in Draft
               /\ draft.status = "review"
               /\ draft' \in Draft /\ DraftMoves(w)
               /\ job[w].admin \in Admins \ {draft.author}
               /\ draft'.payload = draft.payload /\ draft'.status = "approved"
               /\ draft'.author = draft.author /\ draft'.reviewer = job[w].admin
    <2>1. /\ pc[w] = "approve" /\ pc[w] \in Deciding /\ draft \in Draft
          /\ job[w].row.status = "review" /\ job[w].row.author # job[w].admin
          /\ job[w].admin \in Admins
      BY <1>0, <1>3 DEF CommitApprove, Deciding, Checked, ReadIsPast
    <2>2. PICK next : next = [draft EXCEPT !.status = "approved", !.reviewer = job[w].admin]
      OBVIOUS
    <2>3. /\ next \in Draft /\ next.payload = draft.payload /\ next.status = "approved"
          /\ next.author = draft.author /\ next.reviewer = job[w].admin
      BY <2>1, <2>2 DEF Draft, Statuses
    <2>4. Advance(w, next)
      BY <1>3, <2>2 DEF CommitApprove
    <2>5. QED
      BY <1>0, <2>1, <2>3, <2>4, AdvanceFacts
  <1>4. ASSUME CommitReject(w)
        PROVE  /\ job[w].row = draft /\ draftLock = None /\ draft \in Draft
               /\ draft.status = "review"
               /\ draft' \in Draft /\ DraftMoves(w)
               /\ draft'.payload = draft.payload /\ draft'.status = "draft"
               /\ draft'.author = draft.author /\ draft'.reviewer = None
    <2>1. /\ pc[w] = "reject" /\ pc[w] \in Deciding /\ draft \in Draft
          /\ job[w].row.status = "review"
      BY <1>0, <1>4 DEF CommitReject, Deciding, Checked, ReadIsPast
    <2>2. PICK next : next = [draft EXCEPT !.status = "draft", !.reviewer = None]
      OBVIOUS
    <2>3. /\ next \in Draft /\ next.payload = draft.payload /\ next.status = "draft"
          /\ next.author = draft.author /\ next.reviewer = None
      BY <2>1, <2>2 DEF Draft, Statuses
    <2>4. Advance(w, next)
      BY <1>4, <2>2 DEF CommitReject
    <2>5. QED
      BY <1>0, <2>1, <2>3, <2>4, AdvanceFacts
  <1>5. QED
    BY <1>1, <1>2, <1>3, <1>4

\* A publication finishes on the draft it claimed.  The row of an exercise of the admins
\* gets the columns of the draft; that of a file may keep some of its own.
LEMMA PublicationFacts ==
    ASSUME IInv, NEW w \in Workers, CommitPublication(w)
    PROVE  /\ draftLock = w /\ draft \in Draft /\ draft.status = "approved" /\ job[w].row = draft
           /\ draft' \in Draft /\ DraftMoves(w) /\ ExerciseMoves(w)
           /\ draft'.payload = draft.payload /\ draft'.status = "published"
           /\ draft'.author = draft.author /\ draft'.reviewer = draft.reviewer
           /\ \E s \in {draft.payload.solution}
                       \cup (IF exercise.source = "file" THEN {exercise.solution} ELSE {}) :
                 exercise' = [solution |-> s, tests |-> draft.payload.tests, source |-> "admin"]
  <1>0. TypeOK /\ View(w) /\ pc[w] = "write" /\ pc[w] \in Deciding
    BY DEF IInv, Sound, CommitPublication, Deciding
  <1>1. /\ draftLock = w /\ draft \in Draft /\ draft.status = "approved" /\ job[w].row = draft
        /\ "admin" \in {exercise.source, job[w].exercise.source} => job[w].exercise = exercise
        /\ job[w].exercise # NoExercise => exercise # NoExercise
    BY <1>0 DEF View, ReadIsPast, Checked, Publishing
  <1>2. /\ draft' \in Draft /\ draft'.revision = draft.revision + 1
        /\ draft'.payload = draft.payload /\ draft'.status = "published"
        /\ draft'.author = draft.author /\ draft'.reviewer = draft.reviewer
    <2>1. PICK n \in Nat : n = draft.revision + 1
      BY <1>1 DEF Draft
    <2>2. draft' = [draft EXCEPT !.status = "published", !.revision = n]
      BY <1>1, <2>1 DEF CommitPublication
    <2>3. QED
      BY <1>1, <2>1, <2>2 DEF Draft, Statuses
  <1>3. DraftMoves(w)
    BY <1>1, <1>2 DEF DraftMoves, Draft
  <1>4. \E s \in {draft.payload.solution}
                 \cup (IF exercise.source = "file" THEN {exercise.solution} ELSE {}) :
           exercise' = [solution |-> s, tests |-> draft.payload.tests, source |-> "admin"]
    <2>1. draft.payload \in Payload
      BY <1>1 DEF Draft
    <2>2. PICK read : read = job[w].exercise
      OBVIOUS
    <2>3. PICK new : new = Stored(draft.payload, "admin")
      OBVIOUS
    <2>4. /\ read \in Exercise \cup {NoExercise} /\ exercise \in Exercise \cup {NoExercise}
          /\ read = NoExercise <=> exercise = NoExercise
          /\ "admin" \in {exercise.source, read.source} => read = exercise
          /\ exercise' = Written(read, new)
      BY <1>0, <1>1, <2>2, <2>3 DEF TypeOK, Job, CommitPublication
    <2>5. /\ new.solution = draft.payload.solution /\ new.tests = draft.payload.tests
          /\ new.source = "admin" /\ new.solution \in Solutions
      BY <2>1, <2>3 DEF Stored, Payload
    <2>6. Column("source", read, new) = "admin"
      BY <2>4, <2>5 DEF Column
    <2>7. Column("solution", read, new) \in
             {new.solution} \cup (IF exercise.source = "file" THEN {exercise.solution} ELSE {})
      <3>1. CASE exercise.source = "file"
        BY <3>1 DEF Column
      <3>2. CASE exercise.source = "admin"
        BY <2>4, <3>2 DEF Column
      <3>3. CASE exercise = NoExercise
        BY <2>4, <2>5, <3>3, Constants DEF Column, NoExercise
      <3>4. QED
        BY <2>4, <3>1, <3>2, <3>3 DEF Exercise
    <2>8. QED
      BY <2>4, <2>5, <2>6, <2>7 DEF Written
  <1>5. ExerciseMoves(w)
    <2>1. draft.payload \in Payload /\ exercise \in Exercise \cup {NoExercise}
      BY <1>0, <1>1 DEF Draft, TypeOK
    <2>2. exercise' \in Exercise
      <3>1. PICK s \in {draft.payload.solution}
                       \cup (IF exercise.source = "file" THEN {exercise.solution} ELSE {}) :
               exercise' = [solution |-> s, tests |-> draft.payload.tests, source |-> "admin"]
        BY <1>4
      <3>2. s \in Solutions /\ draft.payload.tests \in Suites
        BY <2>1, Constants DEF Payload, Exercise
      <3>3. QED
        BY <3>1, <3>2 DEF Exercise
    <2>3. exLock = None
      BY DEF CommitPublication
    <2>4. QED
      BY <1>1, <2>2, <2>3 DEF ExerciseMoves
  <1>6. QED
    BY <1>1, <1>2, <1>3, <1>4, <1>5

-----------------------------------------------------------------------------
(* Every step keeps the invariant                                          *)

\* The start of a request: it knows who asks, and what it loaded.
LEMMA BeginStep ==
    ASSUME IInv, NEW w \in Workers, NEW a \in Admins, NEW to \in Statements \ {"idle"},
           NEW j \in Job, Begin(w, a, to, j),
           to \in Deciding \ {"write"} =>
               /\ j.row = draft /\ draft.status # "none"
               /\ to = "save" => j.payload \in Payload /\ draft.status \in {"draft", "published"}
               /\ to \in {"approve", "reject"} => draft.status = "review"
               /\ to = "approve" => draft.author # a
               /\ to = "publish" => draft.status = "approved"
               /\ to = "submit" => draft.status = "draft",
           to \notin {"write", "lock", "commit"},
           to = "insert" => j.payload \in Payload,
           to = "snapshot" => exercise \in Exercise /\ j.exercise = exercise
    PROVE  Sound'
  <1>1. Sound /\ TypeOK /\ pc[w] = "idle"
    BY DEF IInv, Sound, Begin
  <1>2. PICK k : k = [j EXCEPT !.admin = a]
    OBVIOUS
  <1>3. /\ k \in Job /\ k.admin = a
        /\ k.row = j.row /\ k.payload = j.payload /\ k.exercise = j.exercise
    BY <1>2 DEF Job
  <1>4. Continue(w, to, k) /\ UNCHANGED locks
    BY <1>2 DEF Begin
  <1>5. UNCHANGED <<draft, exercise>>
    BY <1>4 DEF Continue, tables
  <1>6. ASSUME pc'[w] = to, job'[w] = k PROVE View(w)'
    <2>1. to \in Deciding => draft \in Draft /\ draft.revision \in Nat
      BY <1>1, Constants DEF TypeOK, Draft
    <2>2. ReadIsPast(w)'
      BY <1>3, <1>5, <1>6, <2>1 DEF ReadIsPast
    <2>3. Checked(w)'
      BY <1>3, <1>6, <2>1 DEF Checked, Deciding
    <2>4. Publishing(w)' /\ OtherJobs(w)'
      BY <1>3, <1>5, <1>6 DEF Publishing, OtherJobs
    <2>5. QED
      BY <2>2, <2>3, <2>4 DEF View
  <1>7. QED
    BY <1>1, <1>3, <1>4, <1>6, ContinueStep DEF locks

LEMMA LoadStep ==
    ASSUME IInv, NEW w \in Workers, NEW a \in Admins, NEW to \in Deciding \ {"write"},
           NEW p \in Payload \cup {None}, Load(w, a, to, p),
           draft.status # "none",
           to = "save" => p \in Payload /\ draft.status \in {"draft", "published"},
           to \in {"approve", "reject"} => draft.status = "review",
           to = "approve" => draft.author # a,
           to = "publish" => draft.status = "approved",
           to = "submit" => draft.status = "draft"
    PROVE  Sound'
  <1>1. TypeOK
    BY DEF IInv, Sound
  <1>2. PICK j : j = [NoJob EXCEPT !.row = draft, !.payload = p]
    OBVIOUS
  <1>3. j \in Job /\ j.row = draft /\ j.payload = p
    BY <1>1, <1>2, Constants DEF Job, NoJob, TypeOK
  <1>4. to \in Statements \ {"idle"} /\ to \notin {"insert", "snapshot", "lock", "commit"}
    BY DEF Statements, Deciding
  <1>5. Begin(w, a, to, j)
    BY <1>2 DEF Load
  <1>6. QED
    BY <1>3, <1>4, <1>5, BeginStep

LEMMA RequestStep ==
    ASSUME IInv, NEW w \in Workers, NEW a \in Admins, Request(w, a)
    PROVE  Sound' /\ UNCHANGED <<draft, exercise>>
  <1>0. TypeOK
    BY DEF IInv, Sound
  <1>1. UNCHANGED <<draft, exercise>>
    BY DEF Request, CreateDraft, SaveDraft, StartRevision, SubmitDraft, OpenReview, PublishDraft,
           Load, Begin, Continue, tables
  <1>2. ASSUME NEW p \in Drafted, CreateDraft(w, a, p) PROVE Sound'
    <2>1. PICK j : j = [NoJob EXCEPT !.payload = p]
      OBVIOUS
    <2>2. j \in Job /\ j.payload \in Payload
      BY <2>1, Constants DEF Job, NoJob
    <2>3. Begin(w, a, "insert", j)
      BY <1>2, <2>1 DEF CreateDraft
    <2>4. QED
      BY <2>2, <2>3, BeginStep DEF Statements, Deciding
  <1>3. ASSUME NEW p \in Drafted, SaveDraft(w, a, p) PROVE Sound'
    BY <1>3, LoadStep, Constants DEF SaveDraft, Deciding
  <1>4. ASSUME StartRevision(w, a) PROVE Sound'
    <2>1. PICK j : j = [NoJob EXCEPT !.exercise = exercise]
      OBVIOUS
    <2>2. j \in Job /\ j.exercise = exercise /\ exercise \in Exercise
      BY <1>0, <1>4, <2>1, Constants DEF Job, NoJob, TypeOK, StartRevision
    <2>3. Begin(w, a, "snapshot", j)
      BY <1>4, <2>1 DEF StartRevision
    <2>4. QED
      BY <2>2, <2>3, BeginStep DEF Statements, Deciding
  <1>5. ASSUME SubmitDraft(w, a) PROVE Sound'
    BY <1>5, LoadStep DEF SubmitDraft, Deciding
  <1>6. ASSUME OpenReview(w, a, "approve") PROVE Sound'
    BY <1>6, LoadStep DEF OpenReview, Deciding
  <1>7. ASSUME OpenReview(w, a, "reject") PROVE Sound'
    BY <1>7, LoadStep DEF OpenReview, Deciding
  <1>8. ASSUME PublishDraft(w, a) PROVE Sound'
    BY <1>8, LoadStep DEF PublishDraft, Deciding
  <1>9. QED
    BY <1>1, <1>2, <1>3, <1>4, <1>5, <1>6, <1>7, <1>8 DEF Request

\* A request that ends without writing anything.
Dismissed(w) == DraftExists(w) \/ RefuseInvalid(w) \/ Conflict(w) \/ ExerciseExists(w) \/ Fail(w)

LEMMA DismissedStep ==
    ASSUME Sound, NEW w \in Workers, Dismissed(w)
    PROVE  Sound' /\ UNCHANGED <<draft, exercise>>
  <1>1. End(w) /\ UNCHANGED tables /\ fails' \in Nat /\ TypeOK
    BY DEF Dismissed, DraftExists, RefuseInvalid, Conflict, ExerciseExists, Fail, Sound, TypeOK
  <1>2. UNCHANGED <<draft, exercise>> /\ active' \subseteq Admins
    BY <1>1 DEF tables, TypeOK
  <1>3. DraftMoves(w) /\ ExerciseMoves(w)
    BY <1>2 DEF DraftMoves, ExerciseMoves
  <1>4. QED
    BY <1>1, <1>2, <1>3, EndStep

\* Steps in the middle of a request or a synchronisation.
Onward(w) == Snapshot(w) \/ ClaimDraft(w) \/ LockExercise(w) \/ \E p \in Files : SyncFile(w, p)

LEMMA OnwardStep ==
    ASSUME IInv, NEW w \in Workers, Onward(w)
    PROVE  Sound' /\ UNCHANGED <<draft, exercise>>
  <1>0. Sound /\ TypeOK /\ LocksAreHeld /\ View(w) /\ job[w] \in Job
    BY DEF IInv, Sound, TypeOK
  <1>1. UNCHANGED <<draft, exercise>>
    BY DEF Onward, Snapshot, ClaimDraft, LockExercise, SyncFile, Continue, tables
  <1>2. ASSUME Snapshot(w) PROVE Sound'
    <2>1. PICK j : j = [job[w] EXCEPT !.payload =
                  [solution |-> job[w].exercise.solution, tests |-> exercise.tests]]
      OBVIOUS
    <2>2. job[w].admin \in Admins /\ job[w].exercise \in Exercise /\ exercise \in Exercise
      BY <1>0, <1>2 DEF Snapshot, View, OtherJobs
    <2>3. j \in Job /\ j.payload \in Payload /\ j.admin \in Admins
      BY <1>0, <2>1, <2>2 DEF Job, Exercise, Payload
    <2>4. Continue(w, "insert", j) /\ UNCHANGED locks /\ pc[w] = "snapshot"
      BY <1>2, <2>1 DEF Snapshot
    <2>5. (pc'[w] = "insert" /\ job'[w] = j) => View(w)'
      BY <2>3 DEF View, ReadIsPast, Checked, Publishing, OtherJobs, Deciding
    <2>6. QED
      BY <1>0, <2>3, <2>4, <2>5, ContinueStep DEF locks, Statements
  <1>3. ASSUME ClaimDraft(w) PROVE Sound'
    <2>1. PICK j : j = [job[w] EXCEPT !.exercise = exercise]
      OBVIOUS
    <2>2. /\ pc[w] = "publish" /\ pc[w] \in Deciding /\ job[w].row.status = "approved"
          /\ job[w].admin \in Admins /\ job[w].row = draft /\ draft \in Draft
      BY <1>0, <1>3 DEF ClaimDraft, Unmoved, View, ReadIsPast, Checked, Deciding
    <2>3. /\ j \in Job /\ j.row = draft /\ j.admin \in Admins
          /\ j.exercise = exercise
      BY <1>0, <2>1, <2>2 DEF Job, TypeOK
    <2>4. /\ Continue(w, "write", j) /\ UNCHANGED exLock
          /\ draftLock = None /\ draftLock' = w
      BY <1>3, <2>1 DEF ClaimDraft
    <2>5. ASSUME pc'[w] = "write", job'[w] = j PROVE View(w)'
      <3>1. ReadIsPast(w)' /\ Checked(w)'
        BY <1>1, <2>2, <2>3, <2>5 DEF ReadIsPast, Checked, Draft
      <3>2. Publishing(w)' /\ OtherJobs(w)'
        BY <1>1, <2>3, <2>4, <2>5 DEF Publishing, OtherJobs
      <3>3. QED
        BY <3>1, <3>2 DEF View
    <2>6. QED
      BY <1>0, <2>2, <2>3, <2>4, <2>5, ContinueStep DEF Statements, Deciding
  <1>4. ASSUME LockExercise(w) PROVE Sound'
    <2>1. PICK j : j = (IF FileManaged(exercise) THEN job[w] ELSE NoJob)
      OBVIOUS
    <2>2. exercise \in Exercise /\ pc[w] = "lock"
      BY <1>0, <1>4 DEF LockExercise, View, OtherJobs
    <2>3. j \in Job /\ (j.payload # None => exercise.source = "file")
      BY <1>0, <2>1, <2>2, Constants DEF FileManaged, NoJob, Exercise
    <2>4. /\ Continue(w, "commit", j) /\ UNCHANGED draftLock
          /\ exLock = None /\ exLock' = w
      BY <1>4, <2>1 DEF LockExercise
    <2>5. (pc'[w] = "commit" /\ job'[w] = j) => View(w)'
      BY <1>1, <2>2, <2>3, <2>4
      DEF View, ReadIsPast, Checked, Publishing, OtherJobs, Deciding
    <2>6. QED
      BY <1>0, <2>2, <2>3, <2>4, <2>5, ContinueStep DEF Statements
  <1>5. ASSUME NEW p \in Files, SyncFile(w, p) PROVE Sound'
    <2>1. PICK j : j = [NoJob EXCEPT !.payload = p]
      OBVIOUS
    <2>2. j \in Job /\ j.payload \in Payload /\ exercise \in Exercise
      BY <1>0, <1>5, <2>1, Constants DEF Job, NoJob, SyncFile, TypeOK
    <2>3. Continue(w, "lock", j) /\ UNCHANGED locks /\ pc[w] = "idle"
      BY <1>5, <2>1 DEF SyncFile
    <2>4. (pc'[w] = "lock" /\ job'[w] = j) => View(w)'
      BY <1>1, <2>2 DEF View, ReadIsPast, Checked, Publishing, OtherJobs, Deciding
    <2>5. QED
      BY <1>0, <2>2, <2>3, <2>4, ContinueStep DEF locks, Statements
  <1>6. QED
    BY <1>1, <1>2, <1>3, <1>4, <1>5 DEF Onward

\* The first revision of a draft.
LEMMA InsertFacts ==
    ASSUME IInv, NEW w \in Workers, InsertDraft(w)
    PROVE  /\ draft = NoDraft /\ draft' \in Draft /\ DraftMoves(w)
           /\ job[w].payload \in Payload /\ job[w].admin \in Admins
           /\ draft'.payload = job[w].payload /\ draft'.status = "draft"
           /\ draft'.author = job[w].admin /\ draft'.reviewer = None
  <1>1. /\ TypeOK /\ LocksAreHeld /\ draft = NoDraft
        /\ job[w].payload \in Payload /\ job[w].admin \in Admins
    BY DEF IInv, Sound, View, OtherJobs, InsertDraft
  <1>2. /\ draft' \in Draft /\ draft'.revision = 1
        /\ draft'.payload = job[w].payload /\ draft'.status = "draft"
        /\ draft'.author = job[w].admin /\ draft'.reviewer = None
    BY <1>1 DEF InsertDraft, NewDraft, Draft, Statuses
  <1>3. draftLock = None
    <2>1. ASSUME draftLock # None PROVE FALSE
      <3>1. draftLock \in Workers /\ pc[draftLock] = "write"
        BY <1>1, <2>1 DEF TypeOK, LocksAreHeld
      <3>2. draft \in Draft
        BY <3>1 DEF IInv, Sound, View, ReadIsPast, Deciding
      <3>3. QED
        BY <1>1, <3>2, Constants
    <2>2. QED
      BY <2>1
  <1>4. QED
    BY <1>1, <1>2, <1>3, Constants DEF DraftMoves

\* A synchronisation writes an exercise that is still a file's.
LEMMA SyncFacts ==
    ASSUME IInv, NEW w \in Workers, CommitSync(w)
    PROVE  /\ UNCHANGED draft /\ ExerciseMoves(w)
           /\ \/ UNCHANGED exercise
              \/ /\ exercise.source # "admin"
                 /\ \E p \in Payload : exercise' = Stored(p, "file")
  <1>1. /\ TypeOK /\ exLock = w /\ exercise \in Exercise
        /\ job[w].payload # None => exercise.source = "file"
        /\ job[w].payload \in Payload \cup {None}
    BY DEF IInv, Sound, View, OtherJobs, CommitSync, TypeOK, Job
  <1>2. UNCHANGED draft
    BY DEF CommitSync
  <1>3. CASE job[w].payload = None
    BY <1>2, <1>3 DEF CommitSync, ExerciseMoves
  <1>4. CASE job[w].payload # None
    <2>1. exercise' = Stored(job[w].payload, "file") /\ job[w].payload \in Payload
      BY <1>1, <1>4 DEF CommitSync
    <2>2. exercise' \in Exercise /\ exercise'.source = "file"
      BY <2>1, StoredIsExercise
    <2>3. QED
      BY <1>1, <1>2, <1>4, <2>1, <2>2 DEF ExerciseMoves
  <1>5. QED
    BY <1>3, <1>4

\* Steps that belong to no request: the seed, an account, time that passes.
Outside == (\E p \in Files : Seed(p)) \/ (\E a \in Admins : SetAdminStatus(a)) \/ UNCHANGED vars

LEMMA OutsideStep ==
    ASSUME IInv, Outside
    PROVE  /\ Sound' /\ UNCHANGED draft
           /\ \/ UNCHANGED exercise
              \/ /\ exercise.source # "admin"
                 /\ \E p \in Payload : exercise' = Stored(p, "file")
  <1>0. Sound /\ TypeOK /\ LocksAreHeld
    BY DEF IInv, Sound
  <1>1. /\ UNCHANGED <<draft, locks, pc, job, fails>> /\ active' \subseteq Admins
        /\ \/ UNCHANGED exercise
           \/ exercise = NoExercise /\ \E p \in Payload : exercise' = Stored(p, "file")
    BY <1>0, Constants DEF Outside, Seed, SetAdminStatus, vars, tables, TypeOK
  <1>2. exercise' = exercise \/ (exercise' \in Exercise /\ exercise'.source = "file")
    BY <1>1, StoredIsExercise
  <1>3. TypeOK' /\ LocksAreHeld'
    BY <1>0, <1>1, <1>2 DEF TypeOK, LocksAreHeld, locks
  <1>4. ASSUME NEW x \in Workers PROVE View(x)'
    <2>1. DraftMoves(None) /\ ExerciseMoves(None)
      BY <1>1, <1>2, Constants DEF DraftMoves, ExerciseMoves
    <2>2. x # None /\ draftLock' = draftLock /\ exLock' = exLock
      BY <1>1, Constants DEF locks
    <2>3. QED
      BY <1>0, <1>1, <2>1, <2>2, OthersView
  <1>5. QED
    BY <1>1, <1>3, <1>4, Constants DEF Sound

Decision(w) ==
    \/ CommitSave(w) \/ CommitSubmit(w) \/ CommitApprove(w) \/ CommitReject(w)

\* The steps of the system, by what they write.
LEMMA StepCases ==
    ASSUME [Next]_vars
    PROVE  \/ \E w \in Workers, a \in Admins : Request(w, a)
           \/ \E w \in Workers : \/ Onward(w) \/ Dismissed(w) \/ InsertDraft(w) \/ Decision(w)
                                 \/ CommitPublication(w) \/ CommitSync(w)
           \/ Outside
  BY DEF Next, Resume, Onward, Dismissed, Decision, Outside

LEMMA WritesAreSound ==
    ASSUME IInv, NEW w \in Workers,
           InsertDraft(w) \/ Decision(w) \/ CommitPublication(w) \/ CommitSync(w)
    PROVE  Sound'
  <1>0. Sound /\ TypeOK
    BY DEF IInv, Sound
  <1>1. CASE InsertDraft(w)
    <2>1. DraftMoves(w) /\ ExerciseMoves(w)
      BY <1>1, InsertFacts DEF InsertDraft, ExerciseMoves
    <2>2. QED
      BY <1>0, <1>1, <2>1, EndStep DEF InsertDraft, TypeOK
  <1>2. CASE Decision(w)
    <2>1. End(w) /\ UNCHANGED <<active, exercise, fails>>
      BY <1>2 DEF Decision, CommitSave, CommitSubmit, CommitApprove, CommitReject
    <2>2. DraftMoves(w) /\ ExerciseMoves(w)
      BY <1>2, <2>1, DecisionFacts DEF Decision, ExerciseMoves
    <2>3. QED
      BY <1>0, <2>1, <2>2, EndStep DEF TypeOK
  <1>3. CASE CommitPublication(w)
    BY <1>0, <1>3, PublicationFacts, EndStep DEF CommitPublication, TypeOK
  <1>4. CASE CommitSync(w)
    <2>1. DraftMoves(w) /\ ExerciseMoves(w)
      BY <1>4, SyncFacts DEF DraftMoves
    <2>2. QED
      BY <1>0, <1>4, <2>1, EndStep DEF CommitSync, TypeOK
  <1>5. QED
    BY <1>1, <1>2, <1>3, <1>4

LEMMA StepIInv == IInv /\ [Next]_vars => IInv'
  <1> SUFFICES ASSUME IInv, [Next]_vars PROVE IInv'
    OBVIOUS
  <1>1. ASSUME Sound', UNCHANGED draft PROVE IInv'
    BY <1>1 DEF IInv, IndependentReview, ReviewedIsValid
  <1>2. ASSUME NEW w \in Workers, NEW a \in Admins, Request(w, a) PROVE IInv'
    BY <1>1, <1>2, RequestStep
  <1>3. ASSUME NEW w \in Workers, Onward(w) PROVE IInv'
    BY <1>1, <1>3, OnwardStep
  <1>4. ASSUME NEW w \in Workers, Dismissed(w) PROVE IInv'
    BY <1>1, <1>4, DismissedStep DEF IInv
  <1>5. ASSUME NEW w \in Workers, InsertDraft(w) PROVE IInv'
    <2>1. Sound'
      BY <1>5, WritesAreSound
    <2>2. IndependentReview' /\ ReviewedIsValid'
      BY <1>5, InsertFacts DEF IndependentReview, ReviewedIsValid
    <2>3. QED
      BY <2>1, <2>2 DEF IInv
  <1>6. ASSUME NEW w \in Workers, Decision(w) PROVE IInv'
    <2>1. Sound'
      BY <1>6, WritesAreSound
    <2>2. IndependentReview'
      BY <1>6, DecisionFacts DEF IInv, Decision, IndependentReview
    <2>3. ReviewedIsValid'
      BY <1>6, DecisionFacts DEF IInv, Decision, ReviewedIsValid
    <2>4. QED
      BY <2>1, <2>2, <2>3 DEF IInv
  <1>7. ASSUME NEW w \in Workers, CommitPublication(w) PROVE IInv'
    <2>1. Sound'
      BY <1>7, WritesAreSound
    <2>2. IndependentReview' /\ ReviewedIsValid'
      BY <1>7, PublicationFacts DEF IInv, IndependentReview, ReviewedIsValid
    <2>3. QED
      BY <2>1, <2>2 DEF IInv
  <1>8. ASSUME NEW w \in Workers, CommitSync(w) PROVE IInv'
    BY <1>1, <1>8, WritesAreSound, SyncFacts
  <1>9. ASSUME Outside PROVE IInv'
    BY <1>1, <1>9, OutsideStep
  <1>10. QED
    BY <1>2, <1>3, <1>4, <1>5, <1>6, <1>7, <1>8, <1>9, StepCases

LEMMA Invariance == Spec => []IInv
  BY InitIInv, StepIInv, PTL DEF Spec

-----------------------------------------------------------------------------
(* Theorems                                                                *)

\* Every variable of ExerciseReview keeps its shape.
THEOREM TypeCorrect == Spec => []TypeOK
  <1>1. IInv => TypeOK
    BY DEF IInv, Sound
  <1>2. QED
    BY <1>1, Invariance, PTL

\* Four eyes: whatever requests overlap, an approved or published draft was approved
\* by an admin who did not write it, and an approval ends with the next edit.
THEOREM FourEyes == Spec => []IndependentReview
  <1>1. IInv => IndependentReview
    BY DEF IInv
  <1>2. QED
    BY <1>1, Invariance, PTL

\* Reviewers see and publish only what the validator accepted.
THEOREM NothingUnvalidated == Spec => []ReviewedIsValid
  <1>1. IInv => ReviewedIsValid
    BY DEF IInv
  <1>2. QED
    BY <1>1, Invariance, PTL

\* No edit is lost and no decision hits another draft than the one that was read.
THEOREM NoLostUpdate == Spec => DecidedAsRead
  <1> DEFINE Moved == draft' # draft /\ draft # NoDraft =>
                \E w \in Workers : pc[w] \in Deciding /\ pc'[w] = "idle" /\ job[w].row = draft
  <1>1. ASSUME IInv, [Next]_vars PROVE Moved
    <2>1. TypeOK
      BY <1>1 DEF IInv, Sound
    <2>2. ASSUME NEW w \in Workers, Decision(w) PROVE Moved
      <3>1. job[w].row = draft
        BY <1>1, <2>2, DecisionFacts DEF Decision
      <3>2. pc[w] \in Deciding /\ End(w)
        BY <2>2 DEF Decision, CommitSave, CommitSubmit, CommitApprove, CommitReject, Deciding
      <3>3. pc'[w] = "idle"
        BY <2>1, <3>2 DEF End, TypeOK
      <3>4. QED
        BY <3>1, <3>2, <3>3
    <2>3. ASSUME NEW w \in Workers, CommitPublication(w) PROVE Moved
      <3>1. job[w].row = draft
        BY <1>1, <2>3, PublicationFacts
      <3>2. pc[w] \in Deciding /\ pc'[w] = "idle"
        BY <2>1, <2>3 DEF CommitPublication, Deciding, End, TypeOK
      <3>3. QED
        BY <3>1, <3>2
    <2>4. ASSUME NEW w \in Workers, InsertDraft(w) PROVE Moved
      BY <2>4 DEF InsertDraft
    <2>5. ASSUME UNCHANGED draft PROVE Moved
      BY <2>5
    <2>6. QED
      BY <1>1, <2>2, <2>3, <2>4, <2>5, StepCases, RequestStep, OnwardStep, DismissedStep,
         SyncFacts, OutsideStep DEF IInv
  <1>2. IInv /\ [Next]_vars => [Moved]_vars
    BY <1>1
  <1>3. QED
    BY <1>2, Invariance, PTL DEF Spec, DecidedAsRead

-----------------------------------------------------------------------------
(* Refinement                                                              *)

LEMMA BoardInit == Init => Board!Init
  BY DEF Init, Board!Init, NoDraft, NoExercise, Board!NoDraft, Board!NoExercise

LEMMA BoardStutters ==
    ASSUME UNCHANGED <<draft, exercise>>
    PROVE  UNCHANGED Board!vars
  BY DEF Board!vars

LEMMA BoardLoads ==
    ASSUME UNCHANGED draft, exercise.source # "admin",
           NEW p \in Payload, exercise' = Stored(p, "file")
    PROVE  Board!Next
  <1>1. Board!Load(p)
    BY DEF Board!Load, Stored
  <1>2. QED
    BY <1>1 DEF Board!Next, Board!Payload, Payload

LEMMA BoardDecides ==
    ASSUME IInv, NEW w \in Workers, Decision(w)
    PROVE  Board!Next
  <1>0. UNCHANGED exercise
    BY DEF Decision, CommitSave, CommitSubmit, CommitApprove, CommitReject
  <1>1. CASE CommitSave(w)
    <2>1. Board!Write(job[w].admin, job[w].payload)
      BY <1>0, <1>1, DecisionFacts DEF Board!Write
    <2>2. job[w].admin \in Admins /\ job[w].payload \in Board!Payload
      BY <1>1, DecisionFacts DEF Board!Payload, Payload
    <2>3. QED
      BY <2>1, <2>2 DEF Board!Next
  <1>2. CASE CommitSubmit(w)
    <2>1. draft.reviewer = draft'.reviewer /\ draft.author = draft'.author
      BY <1>2, DecisionFacts
    <2>2. Board!Submit
      BY <1>0, <1>2, <2>1, DecisionFacts DEF Board!Submit
    <2>3. QED
      BY <2>2 DEF Board!Next
  <1>3. CASE CommitApprove(w)
    <2>1. /\ draft.status = "review" /\ job[w].admin \in Admins /\ job[w].admin # draft.author
          /\ draft'.payload = draft.payload /\ draft'.status = "approved"
          /\ draft'.author = draft.author /\ draft'.reviewer = job[w].admin
      BY <1>3, DecisionFacts
    <2>2. Board!Approve(job[w].admin)
      BY <1>0, <2>1 DEF Board!Approve
    <2>3. QED
      BY <2>1, <2>2 DEF Board!Next
  <1>4. CASE CommitReject(w)
    <2>1. draft.reviewer = None
      BY <1>4, DecisionFacts DEF IInv, IndependentReview
    <2>2. Board!Reject
      BY <1>0, <1>4, <2>1, DecisionFacts DEF Board!Reject
    <2>3. QED
      BY <2>2 DEF Board!Next
  <1>5. QED
    BY <1>1, <1>2, <1>3, <1>4 DEF Decision

LEMMA BoardStep == IInv /\ [Next]_vars => [Board!Next]_Board!vars
  <1> SUFFICES ASSUME IInv, [Next]_vars PROVE [Board!Next]_Board!vars
    OBVIOUS
  <1>1. ASSUME UNCHANGED <<draft, exercise>> PROVE [Board!Next]_Board!vars
    BY <1>1, BoardStutters
  <1>2. ASSUME NEW w \in Workers, InsertDraft(w) PROVE Board!Next
    <2>1. UNCHANGED exercise
      BY <1>2 DEF InsertDraft
    <2>2. Board!Write(job[w].admin, job[w].payload)
      BY <1>2, <2>1, InsertFacts, Constants DEF Board!Write
    <2>3. job[w].admin \in Admins /\ job[w].payload \in Board!Payload
      BY <1>2, InsertFacts DEF Board!Payload, Payload
    <2>4. QED
      BY <2>2, <2>3 DEF Board!Next
  <1>3. ASSUME NEW w \in Workers, CommitPublication(w) PROVE Board!Next
    <2>1. Board!Publish
      BY <1>3, PublicationFacts DEF Board!Publish
    <2>2. QED
      BY <2>1 DEF Board!Next
  <1>4. ASSUME NEW w \in Workers, CommitSync(w) PROVE [Board!Next]_Board!vars
    BY <1>1, <1>4, SyncFacts, BoardLoads
  <1>5. ASSUME Outside PROVE [Board!Next]_Board!vars
    BY <1>1, <1>5, OutsideStep, BoardLoads
  <1>6. ASSUME NEW w \in Workers, NEW a \in Admins, Request(w, a)
        PROVE  [Board!Next]_Board!vars
    BY <1>1, <1>6, RequestStep
  <1>7. ASSUME NEW w \in Workers, Onward(w) \/ Dismissed(w)
        PROVE  [Board!Next]_Board!vars
    BY <1>1, <1>7, OnwardStep, DismissedStep DEF IInv
  <1>8. QED
    BY <1>2, <1>3, <1>4, <1>5, <1>6, <1>7, BoardDecides, StepCases

\* The handlers, with their unlocked reads, compare-and-swaps and waits, implement the
\* atomic workflow of ReviewBoard: each acts in one step on the rows as they stand.
THEOREM ReviewImplementsBoard == Spec => ImplementsBoard
  <1>1. Spec => Board!Init /\ [][Board!Next]_Board!vars
    BY BoardInit, BoardStep, Invariance, PTL DEF Spec
  <1>2. QED
    BY <1>1 DEF ImplementsBoard, Board!Spec
=============================================================================
