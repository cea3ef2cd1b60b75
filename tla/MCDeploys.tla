----------------------------- MODULE MCDeploys -----------------------------
(***************************************************************************)
(* Small instances of Deploys for TLC.  Deployments and ports are numbers, *)
(* whose order the code uses; the web-server processes are                 *)
(* interchangeable.                                                        *)
(***************************************************************************)
EXTENDS Deploys, TLC

Symmetry == Permutations(Workers)
=============================================================================
