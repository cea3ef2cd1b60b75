----------------------------- MODULE MCMembers -----------------------------
(* Instances of Members for TLC.                                           *)
EXTENDS Members, TLC

Symmetry == Permutations(Users) \union Permutations(Threads)
============================================================================
