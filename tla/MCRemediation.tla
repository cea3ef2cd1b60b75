--------------------------- MODULE MCRemediation ---------------------------
(***************************************************************************)
(* Model values and symmetry for the runs of Remediation.                  *)
(***************************************************************************)
EXTENDS Remediation, TLC

(* Processes and rows are interchangeable in the safety runs.              *)
Symmetry == Permutations(Workers) \union Permutations(Runs)
=============================================================================
