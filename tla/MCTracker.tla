----------------------------- MODULE MCTracker -----------------------------
(***************************************************************************)
(* Small instances of Wiki and Backlog in one run.  The two share no       *)
(* variable and no row refers from one to the other, so that nothing is    *)
(* missed when every behaviour works on one of them only.                  *)
(***************************************************************************)
EXTENDS Wiki, Backlog, TLC

MCMentions == ("plain" :> {}) @@ ("linked" :> {"Runbook"})

Symmetry == Permutations(Pages) \union Permutations(Editors) \union Permutations(Workers)

Init == WikiInit /\ BacklogInit

Next == \/ jobs = 0  /\ WikiNext    /\ UNCHANGED backlogVars
        \/ edits = 0 /\ BacklogNext /\ UNCHANGED wikiVars

Spec == Init /\ [][Next]_<<wikiVars, backlogVars>>
=============================================================================
