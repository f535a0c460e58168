-------------------------- MODULE MCExerciseReview --------------------------
(***************************************************************************)
(* Small instances of ExerciseReview for TLC.                               *)
(***************************************************************************)
EXTENDS ExerciseReview, MCContent, TLC

\* What the file holds, a revision that changes the tests alone, and one the validator
\* rejects.
FromFile == [solution |-> "s1", tests |-> "t1"]
NewTests == [solution |-> "s1", tests |-> "t2"]
NewFile  == [solution |-> "s2", tests |-> "t1"]
Broken   == [solution |-> "s2", tests |-> "t2"]

MCValid   == {FromFile, NewTests, NewFile}
MCDrafted == {NewTests, Broken}
MCFiles   == {FromFile, NewFile}

\* Less content, for the liveness run.
OneDraft == {NewTests}
OneFile  == {NewFile}

\* Workers are interchangeable, and so are the admins.
Symmetry == Permutations(Workers) \cup Permutations(Admins)
=============================================================================
