----------------------------- MODULE MCProjects -----------------------------
(* Two projects under one name and two repositories, one with a compose    *)
(* file, in two organisations or in one.  A directory that was emptied     *)
(* declares no runtime.                                                    *)
EXTENDS Projects, TLC

CONSTANTS r1, r2

Symmetry == Permutations(Projects) \union Permutations(Orgs) \union Permutations(Forms)

MCDeclares == (r1 :> {"compose", "procfile"}) @@ (r2 :> {"manage below"})
=============================================================================
