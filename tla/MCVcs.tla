------------------------------- MODULE MCVcs -------------------------------
(***************************************************************************)
(* Small instances of Vcs for TLC: two pull requests that conflict on one  *)
(* base branch, one of them an agent's, and a third on another branch.     *)
(***************************************************************************)
EXTENDS Vcs, TLC

CONSTANTS main, dev, p1, p2, p3

MCBaseOf == (p1 :> main) @@ (p2 :> main) @@ (p3 :> dev)

MCConflicts == {{p1, p2}}

(* Threads of the server processes are interchangeable.                    *)
Symmetry == Permutations(Threads)
=============================================================================
