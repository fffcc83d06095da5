------------------------------ MODULE MCJournal ------------------------------
(* Small instance of Journal for TLC.                                        *)
EXTENDS Journal, TLC

\* Tasks are interchangeable.
Symmetry == Permutations(Tasks)
=============================================================================
