------------------------------ MODULE MCExams ------------------------------
(***************************************************************************)
(* Small instances of Exams for TLC.                                       *)
(***************************************************************************)
EXTENDS Exams, TLC

\* Students and requests of one kind are interchangeable.
Symmetry == Permutations(Candidates) \cup Permutations(Desks) \cup Permutations(Examiners)

=============================================================================
