------------------------------ MODULE MCJobLogs ------------------------------
(***************************************************************************)
(* Model values of JobLogs for TLC.                                        *)
(***************************************************************************)
EXTENDS JobLogs, TLC

Symmetry == Permutations(Readers) \cup Permutations(Handlers)
=============================================================================
