----------------------------- MODULE MCAttempts -----------------------------
(***************************************************************************)
(* Small instances of Attempts for TLC: one student on the free plan, whose  *)
(* limit is one submission a month.                                         *)
(***************************************************************************)
EXTENDS Attempts, MCGuard, TLC

\* A month is one day long.
MCMonth == [d \in Days |-> d]

MCOwner == [a \in Attempts |-> CHOOSE u \in Users : TRUE]

\* Workers are interchangeable, and so are the attempts: they have one owner.
Symmetry == Permutations(Workers) \cup Permutations(Attempts)
=============================================================================
