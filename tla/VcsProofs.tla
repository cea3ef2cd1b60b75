----------------------------- MODULE VcsProofs -----------------------------
(***************************************************************************)
(* Theorems about Vcs, for any number of pull requests, branches, threads, *)
(* errors, locks and restarts.                                             *)
(***************************************************************************)
EXTENDS Vcs, TLAPS

(* The names of stages and the abbreviations of the actions are expanded   *)
(* everywhere, and what git does to the clone.                             *)
USE DEF rowVars, gitVars, bounds, Goto, Return, DbError, Busy,
        Stages, MergeStages, ProbeStages, GitStages,
        CheckoutSucceeds, CheckoutFails, UpToDate, Mergeable, MergeCommits,
        MergeFails, MergeDryRuns, MergeAborts, Locked, Unlocked

LEMMA TypeInit == Init => TypeOK
BY VcsAssumption DEF Init, TypeOK

LEMMA TypeStep == TypeOK /\ [Next]_vars => TypeOK'
<1> SUFFICES ASSUME TypeOK, [Next]_vars PROVE TypeOK'
  OBVIOUS
<1>1. ASSUME NEW p \in Prs, OpenPullRequest(p)
      PROVE  TypeOK'
  BY <1>1, VcsAssumption DEF TypeOK, OpenPullRequest
<1>2. ASSUME NEW t \in Threads, NEW p \in Prs, NEW s \in {"checkout", "probe"},
             Enter(t, p, s)
      PROVE  TypeOK'
  BY <1>2, VcsAssumption DEF TypeOK, Enter
<1>3. ASSUME NEW t \in Threads, CheckoutBase(t)
      PROVE  TypeOK'
  BY <1>3, VcsAssumption DEF TypeOK, CheckoutBase
<1>4. ASSUME NEW t \in Threads, CheckoutBaseFails(t)
      PROVE  TypeOK'
  BY <1>4, VcsAssumption DEF TypeOK, CheckoutBaseFails
<1>5. ASSUME NEW t \in Threads, Merge(t)
      PROVE  TypeOK'
  BY <1>5, VcsAssumption DEF TypeOK, Merge
<1>6. ASSUME NEW t \in Threads, MergeUnsuccessful(t)
      PROVE  TypeOK'
  BY <1>6, VcsAssumption DEF TypeOK, MergeUnsuccessful
<1>7. ASSUME NEW t \in Threads, Abort(t)
      PROVE  TypeOK'
  BY <1>7, VcsAssumption DEF TypeOK, Abort
<1>8. ASSUME NEW t \in Threads, Save(t)
      PROVE  TypeOK'
  BY <1>8, VcsAssumption DEF TypeOK, Save
<1>9. ASSUME NEW t \in Threads, SaveWorktree(t)
      PROVE  TypeOK'
  BY <1>9, VcsAssumption DEF TypeOK, SaveWorktree
<1>10. ASSUME NEW t \in Threads, SaveRaises(t)
      PROVE  TypeOK'
  BY <1>10, VcsAssumption DEF TypeOK, SaveRaises
<1>11. ASSUME NEW t \in Threads, Probe(t)
      PROVE  TypeOK'
  BY <1>11, VcsAssumption DEF TypeOK, Probe
<1>12. ASSUME NEW t \in Threads, ProbeCheckout(t)
      PROVE  TypeOK'
  BY <1>12, VcsAssumption DEF TypeOK, ProbeCheckout
<1>13. ASSUME NEW t \in Threads, DryRun(t)
      PROVE  TypeOK'
  BY <1>13, VcsAssumption DEF TypeOK, DryRun
<1>14. ASSUME NEW t \in Threads, ProbeAbort(t)
      PROVE  TypeOK'
  BY <1>14, VcsAssumption DEF TypeOK, ProbeAbort
<1>15. ASSUME NEW gone \in SUBSET Threads, Restart(gone)
      PROVE  TypeOK'
  BY <1>15, VcsAssumption DEF TypeOK, Restart
<1>16. CASE UNCHANGED vars
  BY <1>16 DEF TypeOK, vars
<1> QED
  BY <1>1, <1>2, <1>3, <1>4, <1>5, <1>6, <1>7, <1>8, <1>9, <1>10, <1>11, <1>12, <1>13, <1>14, <1>15, <1>16
  DEF Next, Step, AskMerge, AskProbe

(* Rows, the clone and the threads keep values of their kinds.             *)
THEOREM TypeCorrect == Spec => []TypeOK
<1>1. Init => TypeOK
  BY TypeInit
<1>2. TypeOK /\ [Next]_vars => TypeOK'
  BY TypeStep
<1> QED
  BY <1>1, <1>2, PTL DEF Spec

----------------------------------------------------------------------------
(***************************************************************************)
(* Git first, rows after.  Between the two a thread is saving; the row of  *)
(* the pull request is saved before that of its worktree, and neither is   *)
(* ever taken back.                                                        *)
(***************************************************************************)

RowInv ==
  /\ MergeIsRecorded
  /\ \A t \in Threads :
       pc[t] = "saveWorktree" =>
         pull[t] \in FromWorktree /\ pr[pull[t]] = "merged"

LEMMA RowInit == Init => RowInv
BY DEF Init, RowInv, MergeIsRecorded, Contained

LEMMA RowStep == TypeOK /\ RowInv /\ [Next]_vars => RowInv'
<1> SUFFICES ASSUME TypeOK, RowInv, [Next]_vars PROVE RowInv'
  OBVIOUS
<1> USE VcsAssumption DEF TypeOK, RowInv, MergeIsRecorded, Contained, Saving
<1>1. ASSUME NEW p \in Prs, OpenPullRequest(p)
      PROVE  RowInv'
  BY <1>1 DEF OpenPullRequest
<1>2. ASSUME NEW t \in Threads, NEW p \in Prs, NEW s \in {"checkout", "probe"},
             Enter(t, p, s)
      PROVE  RowInv'
  BY <1>2 DEF Enter
<1>3. ASSUME NEW t \in Threads, CheckoutBase(t)
      PROVE  RowInv'
  BY <1>3 DEF CheckoutBase
<1>4. ASSUME NEW t \in Threads, CheckoutBaseFails(t)
      PROVE  RowInv'
  BY <1>4 DEF CheckoutBaseFails
<1>5. ASSUME NEW t \in Threads, Merge(t)
      PROVE  RowInv'
  BY <1>5 DEF Merge
<1>6. ASSUME NEW t \in Threads, MergeUnsuccessful(t)
      PROVE  RowInv'
  BY <1>6 DEF MergeUnsuccessful
<1>7. ASSUME NEW t \in Threads, Abort(t)
      PROVE  RowInv'
  BY <1>7 DEF Abort
<1>8. ASSUME NEW t \in Threads, Save(t)
      PROVE  RowInv'
  BY <1>8 DEF Save
<1>9. ASSUME NEW t \in Threads, SaveWorktree(t)
      PROVE  RowInv'
  BY <1>9 DEF SaveWorktree
<1>10. ASSUME NEW t \in Threads, SaveRaises(t)
      PROVE  RowInv'
  BY <1>10 DEF SaveRaises
<1>11. ASSUME NEW t \in Threads, Probe(t)
      PROVE  RowInv'
  BY <1>11 DEF Probe
<1>12. ASSUME NEW t \in Threads, ProbeCheckout(t)
      PROVE  RowInv'
  BY <1>12 DEF ProbeCheckout
<1>13. ASSUME NEW t \in Threads, DryRun(t)
      PROVE  RowInv'
  BY <1>13 DEF DryRun
<1>14. ASSUME NEW t \in Threads, ProbeAbort(t)
      PROVE  RowInv'
  BY <1>14 DEF ProbeAbort
<1>15. ASSUME NEW gone \in SUBSET Threads, Restart(gone)
      PROVE  RowInv'
  BY <1>15 DEF Restart
<1>16. CASE UNCHANGED vars
  BY <1>16 DEF vars
<1> QED
  BY <1>1, <1>2, <1>3, <1>4, <1>5, <1>6, <1>7, <1>8, <1>9, <1>10, <1>11, <1>12, <1>13, <1>14, <1>15, <1>16
  DEF Next, Step, AskMerge, AskProbe

(* What git has merged is recorded, or about to be, unless an error or a   *)
(* restart fell between git and the saves (vcs/services.py:163-195).       *)
THEOREM MergeRecorded == Spec => []MergeIsRecorded
<1>1. Init => TypeOK /\ RowInv
  BY TypeInit, RowInit
<1>2. (TypeOK /\ RowInv) /\ [Next]_vars => (TypeOK /\ RowInv)'
  BY TypeStep, RowStep
<1>3. RowInv => MergeIsRecorded
  BY DEF RowInv
<1> QED
  BY <1>1, <1>2, <1>3, PTL DEF Spec

----------------------------------------------------------------------------
(***************************************************************************)
(* The history tells which calls overlap.  While all that ever overlapped  *)
(* were for one base branch, a thread that has checked its base branch out *)
(* finds it checked out still.                                             *)
(***************************************************************************)

Overlaps ==
  \A t, u \in Threads :
    Busy(t) /\ Busy(u) /\ t # u =>
      {BaseOf[pull[t]], BaseOf[pull[u]]} \in mixed

BaseInv ==
  /\ Overlaps
  /\ MergedIntoItsBase
  /\ OneBaseAtATime =>
       \A t \in Threads :
         /\ pc[t] \in {"merge", "dryRun"} => head = BaseOf[pull[t]]
         /\ pc[t] \in {"save", "saveWorktree"} =>
              pull[t] \in merged[BaseOf[pull[t]]]

LEMMA BaseInit == Init => BaseInv
BY DEF Init, BaseInv, Overlaps, MergedIntoItsBase

(* Two threads at work are for the same base branch.                       *)
LEMMA SameBase ==
  ASSUME TypeOK, Overlaps, OneBaseAtATime,
         NEW t \in Threads, NEW u \in Threads, Busy(t), Busy(u)
  PROVE  BaseOf[pull[t]] = BaseOf[pull[u]]
<1>1. CASE t = u
  BY <1>1
<1>2. CASE t # u
  BY <1>2 DEF Overlaps, OneBaseAtATime
<1> QED
  BY <1>1, <1>2

LEMMA BaseStep == TypeOK /\ BaseInv /\ [Next]_vars => BaseInv'
<1> SUFFICES ASSUME TypeOK, BaseInv, [Next]_vars PROVE BaseInv'
  OBVIOUS
<1> USE VcsAssumption
  DEF TypeOK, BaseInv, Overlaps, MergedIntoItsBase, OneBaseAtATime
<1>1. ASSUME NEW p \in Prs, OpenPullRequest(p)
      PROVE  BaseInv'
  BY <1>1, SameBase DEF OpenPullRequest
<1>2. ASSUME NEW t \in Threads, NEW p \in Prs, NEW s \in {"checkout", "probe"},
             Enter(t, p, s)
      PROVE  BaseInv'
  BY <1>2, SameBase DEF Enter
<1>3. ASSUME NEW t \in Threads, CheckoutBase(t)
      PROVE  BaseInv'
  BY <1>3, SameBase DEF CheckoutBase
<1>4. ASSUME NEW t \in Threads, CheckoutBaseFails(t)
      PROVE  BaseInv'
  BY <1>4, SameBase DEF CheckoutBaseFails
<1>5. ASSUME NEW t \in Threads, Merge(t)
      PROVE  BaseInv'
  BY <1>5, SameBase DEF Merge
<1>6. ASSUME NEW t \in Threads, MergeUnsuccessful(t)
      PROVE  BaseInv'
  BY <1>6, SameBase DEF MergeUnsuccessful
<1>7. ASSUME NEW t \in Threads, Abort(t)
      PROVE  BaseInv'
  BY <1>7, SameBase DEF Abort
<1>8. ASSUME NEW t \in Threads, Save(t)
      PROVE  BaseInv'
  BY <1>8, SameBase DEF Save
<1>9. ASSUME NEW t \in Threads, SaveWorktree(t)
      PROVE  BaseInv'
  BY <1>9, SameBase DEF SaveWorktree
<1>10. ASSUME NEW t \in Threads, SaveRaises(t)
      PROVE  BaseInv'
  BY <1>10, SameBase DEF SaveRaises
<1>11. ASSUME NEW t \in Threads, Probe(t)
      PROVE  BaseInv'
  BY <1>11, SameBase DEF Probe
<1>12. ASSUME NEW t \in Threads, ProbeCheckout(t)
      PROVE  BaseInv'
  BY <1>12, SameBase DEF ProbeCheckout
<1>13. ASSUME NEW t \in Threads, DryRun(t)
      PROVE  BaseInv'
  BY <1>13, SameBase DEF DryRun
<1>14. ASSUME NEW t \in Threads, ProbeAbort(t)
      PROVE  BaseInv'
  BY <1>14, SameBase DEF ProbeAbort
<1>15. ASSUME NEW gone \in SUBSET Threads, Restart(gone)
      PROVE  BaseInv'
  BY <1>15, SameBase DEF Restart
<1>16. CASE UNCHANGED vars
  BY <1>16, SameBase DEF vars
<1> QED
  BY <1>1, <1>2, <1>3, <1>4, <1>5, <1>6, <1>7, <1>8, <1>9, <1>10, <1>11, <1>12, <1>13, <1>14, <1>15, <1>16
  DEF Next, Step, AskMerge, AskProbe

(* A merge goes into the base branch of its pull request and nowhere else, *)
(* while no calls for different base branches overlap                      *)
(* (vcs/services.py:140-174).                                              *)
THEOREM BaseCorrect == Spec => []MergedIntoItsBase
<1>1. Init => TypeOK /\ BaseInv
  BY TypeInit, BaseInit
<1>2. (TypeOK /\ BaseInv) /\ [Next]_vars => (TypeOK /\ BaseInv)'
  BY TypeStep, BaseStep
<1>3. BaseInv => MergedIntoItsBase
  BY DEF BaseInv
<1> QED
  BY <1>1, <1>2, <1>3, PTL DEF Spec

----------------------------------------------------------------------------
(* HalfMergeHasAnOwner is inductive: only a merge and a dry run leave a    *)
(* merge in progress, both go on to an abort, and an abort that git        *)
(* carries out ends whatever is in progress.                               *)
LEMMA OwnerStep ==
  TypeOK /\ HalfMergeHasAnOwner /\ [Next]_vars => HalfMergeHasAnOwner'
<1> SUFFICES ASSUME TypeOK, HalfMergeHasAnOwner, [Next]_vars
             PROVE  HalfMergeHasAnOwner'
  OBVIOUS
<1> USE VcsAssumption DEF TypeOK, HalfMergeHasAnOwner
<1>1. ASSUME NEW p \in Prs, OpenPullRequest(p)
      PROVE  HalfMergeHasAnOwner'
  BY <1>1 DEF OpenPullRequest
<1>2. ASSUME NEW t \in Threads, NEW p \in Prs, NEW s \in {"checkout", "probe"},
             Enter(t, p, s)
      PROVE  HalfMergeHasAnOwner'
  BY <1>2 DEF Enter
<1>3. ASSUME NEW t \in Threads, CheckoutBase(t)
      PROVE  HalfMergeHasAnOwner'
  BY <1>3 DEF CheckoutBase
<1>4. ASSUME NEW t \in Threads, CheckoutBaseFails(t)
      PROVE  HalfMergeHasAnOwner'
  BY <1>4 DEF CheckoutBaseFails
<1>5. ASSUME NEW t \in Threads, Merge(t)
      PROVE  HalfMergeHasAnOwner'
  BY <1>5 DEF Merge
<1>6. ASSUME NEW t \in Threads, MergeUnsuccessful(t)
      PROVE  HalfMergeHasAnOwner'
  BY <1>6 DEF MergeUnsuccessful
<1>7. ASSUME NEW t \in Threads, Abort(t)
      PROVE  HalfMergeHasAnOwner'
  BY <1>7 DEF Abort
<1>8. ASSUME NEW t \in Threads, Save(t)
      PROVE  HalfMergeHasAnOwner'
  BY <1>8 DEF Save
<1>9. ASSUME NEW t \in Threads, SaveWorktree(t)
      PROVE  HalfMergeHasAnOwner'
  BY <1>9 DEF SaveWorktree
<1>10. ASSUME NEW t \in Threads, SaveRaises(t)
      PROVE  HalfMergeHasAnOwner'
  BY <1>10 DEF SaveRaises
<1>11. ASSUME NEW t \in Threads, Probe(t)
      PROVE  HalfMergeHasAnOwner'
  BY <1>11 DEF Probe
<1>12. ASSUME NEW t \in Threads, ProbeCheckout(t)
      PROVE  HalfMergeHasAnOwner'
  BY <1>12 DEF ProbeCheckout
<1>13. ASSUME NEW t \in Threads, DryRun(t)
      PROVE  HalfMergeHasAnOwner'
  BY <1>13 DEF DryRun
<1>14. ASSUME NEW t \in Threads, ProbeAbort(t)
      PROVE  HalfMergeHasAnOwner'
  BY <1>14 DEF ProbeAbort
<1>15. ASSUME NEW gone \in SUBSET Threads, Restart(gone)
      PROVE  HalfMergeHasAnOwner'
  BY <1>15 DEF Restart
<1>16. CASE UNCHANGED vars
  BY <1>16 DEF vars
<1> QED
  BY <1>1, <1>2, <1>3, <1>4, <1>5, <1>6, <1>7, <1>8, <1>9, <1>10, <1>11, <1>12, <1>13, <1>14, <1>15, <1>16
  DEF Next, Step, AskMerge, AskProbe

(* A merge in progress belongs to a call that will abort it                *)
(* (vcs/services.py:175-177, views.py:298-302).                            *)
THEOREM OwnerCorrect == Spec => []HalfMergeHasAnOwner
<1>1. Init => TypeOK /\ HalfMergeHasAnOwner
  BY TypeInit DEF Init, HalfMergeHasAnOwner
<1>2. (TypeOK /\ HalfMergeHasAnOwner) /\ [Next]_vars
        => (TypeOK /\ HalfMergeHasAnOwner)'
  BY TypeStep, OwnerStep
<1> QED
  BY <1>1, <1>2, PTL DEF Spec

----------------------------------------------------------------------------
(***************************************************************************)
(* Calls one after the other.  The tree is then dirty only while the one   *)
(* call at work has its abort before it, and never beyond its abort.       *)
(***************************************************************************)

AloneInv ==
  OneAtATime =>
    /\ tree # "residue"
    /\ tree # "clean" =>
         \E t \in Threads : pc[t] \in {"abort", "probeAbort"}
    /\ FailsForAConflict

LEMMA AloneInit == Init => AloneInv
BY DEF Init, AloneInv, FailsForAConflict

(* There is one call at work at most.                                      *)
LEMMA OneBusy ==
  ASSUME Overlaps, OneAtATime,
         NEW t \in Threads, NEW u \in Threads, Busy(t), Busy(u)
  PROVE  t = u
BY DEF Overlaps, OneAtATime

LEMMA AloneStep ==
  TypeOK /\ BaseInv /\ AloneInv /\ [Next]_vars => AloneInv'
<1> SUFFICES ASSUME TypeOK, BaseInv, AloneInv, [Next]_vars PROVE AloneInv'
  OBVIOUS
<1> USE DEF TypeOK, BaseInv, AloneInv, OneAtATime, OneBaseAtATime,
            FailsForAConflict, Clashes
<1>1. ASSUME NEW p \in Prs, OpenPullRequest(p)
      PROVE  AloneInv'
  BY <1>1, OneBusy DEF OpenPullRequest
<1>2. ASSUME NEW t \in Threads, NEW p \in Prs, NEW s \in {"checkout", "probe"},
             Enter(t, p, s)
      PROVE  AloneInv'
  BY <1>2, OneBusy DEF Enter
<1>3. ASSUME NEW t \in Threads, CheckoutBase(t)
      PROVE  AloneInv'
  BY <1>3, OneBusy DEF CheckoutBase
<1>4. ASSUME NEW t \in Threads, CheckoutBaseFails(t)
      PROVE  AloneInv'
  BY <1>4, OneBusy DEF CheckoutBaseFails
<1>5. ASSUME NEW t \in Threads, Merge(t)
      PROVE  AloneInv'
  BY <1>5, OneBusy DEF Merge
<1>6. ASSUME NEW t \in Threads, MergeUnsuccessful(t)
      PROVE  AloneInv'
  <2> SUFFICES ASSUME OneAtATime' PROVE AloneInv'
    OBVIOUS
  <2>1. mixed = {} /\ OneAtATime /\ OneBaseAtATime
    BY <1>6 DEF MergeUnsuccessful
  <2>2. \A u \in Threads \ {t} : pc[u] = "idle"
    BY <1>6, <2>1, OneBusy DEF MergeUnsuccessful
  <2>3. tree = "clean"
    BY <1>6, <2>1, <2>2 DEF MergeUnsuccessful
  <2>4. head = BaseOf[pull[t]]
    BY <1>6, <2>1 DEF MergeUnsuccessful
  <2>5. Clashes(head, pull[t]) /\ tree' = "conflicted" /\ merged' = merged
    BY <1>6, <2>2, <2>3 DEF MergeUnsuccessful
  <2>6. pull' = pull /\ pc' = [pc EXCEPT ![t] = "abort"]
    BY <1>6 DEF MergeUnsuccessful
  <2>7. pc'[t] = "abort" /\ \A u \in Threads \ {t} : pc'[u] = "idle"
    BY <2>2, <2>6
  <2>8. FailsForAConflict'
    BY <2>4, <2>5, <2>6, <2>7
  <2> QED
    BY <2>5, <2>7, <2>8
<1>7. ASSUME NEW t \in Threads, Abort(t)
      PROVE  AloneInv'
  BY <1>7, OneBusy DEF Abort
<1>8. ASSUME NEW t \in Threads, Save(t)
      PROVE  AloneInv'
  BY <1>8, OneBusy DEF Save
<1>9. ASSUME NEW t \in Threads, SaveWorktree(t)
      PROVE  AloneInv'
  BY <1>9, OneBusy DEF SaveWorktree
<1>10. ASSUME NEW t \in Threads, SaveRaises(t)
      PROVE  AloneInv'
  BY <1>10, OneBusy DEF SaveRaises
<1>11. ASSUME NEW t \in Threads, Probe(t)
      PROVE  AloneInv'
  BY <1>11, OneBusy DEF Probe
<1>12. ASSUME NEW t \in Threads, ProbeCheckout(t)
      PROVE  AloneInv'
  BY <1>12, OneBusy DEF ProbeCheckout
<1>13. ASSUME NEW t \in Threads, DryRun(t)
      PROVE  AloneInv'
  BY <1>13, OneBusy DEF DryRun
<1>14. ASSUME NEW t \in Threads, ProbeAbort(t)
      PROVE  AloneInv'
  BY <1>14, OneBusy DEF ProbeAbort
<1>15. ASSUME NEW gone \in SUBSET Threads, Restart(gone)
      PROVE  AloneInv'
  BY <1>15, OneBusy DEF Restart
<1>16. CASE UNCHANGED vars
  BY <1>16, OneBusy DEF vars
<1> QED
  BY <1>1, <1>2, <1>3, <1>4, <1>5, <1>6, <1>7, <1>8, <1>9, <1>10, <1>11, <1>12, <1>13, <1>14, <1>15, <1>16
  DEF Next, Step, AskMerge, AskProbe

(* With calls one after the other the clone is clean whenever nobody is at *)
(* work, and a merge fails only for a conflict with its base branch        *)
(* (vcs/tests.py:275, vcs/services.py:175-177).                            *)
THEOREM CleanCorrect == Spec => [](StaysClean /\ FailsForAConflict)
<1>1. Init => TypeOK /\ BaseInv /\ AloneInv
  BY TypeInit, BaseInit, AloneInit
<1>2. (TypeOK /\ BaseInv /\ AloneInv) /\ [Next]_vars
        => (TypeOK /\ BaseInv /\ AloneInv)'
  BY TypeStep, BaseStep, AloneStep
<1>3. AloneInv => StaysClean /\ FailsForAConflict
  BY DEF AloneInv, StaysClean, FailsForAConflict
<1> QED
  BY <1>1, <1>2, <1>3, PTL DEF Spec
=============================================================================
