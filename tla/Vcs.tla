-------------------------------- MODULE Vcs --------------------------------
(***************************************************************************)
(* Pull requests and the clone they share: vcs/services.py, vcs/views.py.  *)
(*                                                                         *)
(* A project has one clone.  merge_pull_request() checks a base branch out *)
(* in it, merges and saves the rows after; the page of an open pull        *)
(* request checks out, merges without committing and aborts, to tell       *)
(* whether the merge button may be pressed.  Each of these calls is a      *)
(* thread of some server process and a series of git commands, and nothing *)
(* keeps the commands of one call from falling between those of another.   *)
(***************************************************************************)
EXTENDS Naturals, FiniteSets

CONSTANTS
  Branches,      (* base branches of the repository                        *)
  Prs,           (* pull requests that may be opened                       *)
  BaseOf,        (* PullRequest.base_branch of each                        *)
  FromWorktree,  (* those an agent opened from a worktree                  *)
  Conflicts,     (* pairs of pull requests that change the same lines      *)
  DefaultBranch, (* the branch the clone was left on                       *)
  Threads,       (* threads of the server processes                        *)
  MaxLocks,      (* git commands that find index.lock taken (bound)        *)
  MaxDbErrors,   (* "database is locked" errors that may happen (bound)    *)
  MaxRestarts,   (* restarts of a server process (bound)                   *)
  Nobody         (* the pull request of an idle thread                     *)

ASSUME VcsAssumption ==
  /\ BaseOf \in [Prs -> Branches]
  /\ FromWorktree \subseteq Prs
  /\ DefaultBranch \in Branches
  /\ Nobody \notin Prs
  /\ MaxLocks \in Nat /\ MaxDbErrors \in Nat /\ MaxRestarts \in Nat

VARIABLES
  pr,         (* PullRequest.status, "none" before the row exists          *)
  worktree,   (* Worktree.status of the worktree it came from              *)
  head,       (* git: the branch that is checked out                       *)
  tree,       (* git: the state of the index and the working tree          *)
  merged,     (* git: pull requests each base branch contains              *)
  pc,         (* what a thread does                                        *)
  pull,       (* the pull request it does it for                           *)
  mixed,      (* history: the sets of base branches of calls that          *)
              (* overlapped in time                                        *)
  locks, dbErrors, restarts

rowVars == <<pr, worktree>>
gitVars == <<head, tree, merged>>
bounds  == <<locks, dbErrors, restarts>>
vars == <<pr, worktree, head, tree, merged, pc, pull, mixed, locks, dbErrors,
          restarts>>

----------------------------------------------------------------------------
MergeStages == {"checkout", "merge", "abort", "save", "saveWorktree"}
ProbeStages == {"probe", "probeCheckout", "dryRun", "probeAbort"}
GitStages   == {"checkout", "merge", "abort"} \union ProbeStages
Stages      == MergeStages \union ProbeStages \union {"idle"}

Busy(t) == pc[t] # "idle"

Goto(t, stage) == pc' = [pc EXCEPT ![t] = stage]

(* The call is over.                                                       *)
Return(t) == /\ Goto(t, "idle")
             /\ pull' = [pull EXCEPT ![t] = Nobody]

Init ==
  /\ pr       = [p \in Prs |-> "none"]
  /\ worktree = [p \in Prs |-> "active"]
  /\ head     = DefaultBranch
  /\ tree     = "clean"
  /\ merged   = [b \in Branches |-> {}]
  /\ pc       = [t \in Threads |-> "idle"]
  /\ pull     = [t \in Threads |-> Nobody]
  /\ mixed    = {}
  /\ locks    = 0
  /\ dbErrors = 0
  /\ restarts = 0

----------------------------------------------------------------------------
(***************************************************************************)
(* git.  The tree is "clean"; "staged", a merge without conflict and with  *)
(* MERGE_HEAD, ready to be committed; "conflicted", with MERGE_HEAD and    *)
(* unmerged entries; or "residue", staged changes without MERGE_HEAD.      *)
(***************************************************************************)

(* A checkout is refused while there are unmerged entries, and may be when *)
(* local changes are in its way.  It drops MERGE_HEAD and keeps local      *)
(* changes, unless the branch has them already.                            *)
CheckoutSucceeds(b) ==
  /\ tree # "conflicted"
  /\ head' = b
  /\ \/ tree = "clean" /\ tree' = "clean"
     \/ tree # "clean" /\ tree' = "residue"
     \/ tree # "clean" /\ b # head /\ tree' = "clean"
  /\ UNCHANGED merged

CheckoutFails(b) ==
  /\ tree = "conflicted" \/ (tree # "clean" /\ b # head)
  /\ UNCHANGED gitVars

Clashes(b, p) == \E q \in merged[b] : {p, q} \in Conflicts

(* A merge of what the branch contains changes nothing; any other needs a  *)
(* clean tree.  An unfinished merge forbids both.                          *)
UpToDate(p) == tree \in {"clean", "residue"} /\ p \in merged[head]
Mergeable(p) == tree = "clean" /\ p \notin merged[head]

MergeCommits(p) ==
  \/ /\ UpToDate(p)
     /\ UNCHANGED gitVars
  \/ /\ Mergeable(p) /\ ~Clashes(head, p)
     /\ merged' = [merged EXCEPT ![head] = @ \union {p}]
     /\ UNCHANGED <<head, tree>>

MergeFails(p) ==
  \/ /\ Mergeable(p) /\ Clashes(head, p)
     /\ tree' = "conflicted"
     /\ UNCHANGED <<head, merged>>
  \/ /\ ~UpToDate(p) /\ ~Mergeable(p)
     /\ UNCHANGED gitVars

(* With --no-commit: as far as the index, and no further.                  *)
MergeDryRuns(p) ==
  /\ tree' = IF ~Mergeable(p) THEN tree
             ELSE IF Clashes(head, p) THEN "conflicted" ELSE "staged"
  /\ UNCHANGED <<head, merged>>

(* merge --abort undoes a merge in progress, whoever began it.             *)
MergeAborts ==
  /\ tree' = IF tree \in {"staged", "conflicted"} THEN "clean" ELSE tree
  /\ UNCHANGED <<head, merged>>

(* The command does nothing: another one holds index.lock.                 *)
Locked(t) ==
  /\ \E u \in Threads \ {t} : pc[u] \in GitStages
  /\ locks < MaxLocks
  /\ locks' = locks + 1
  /\ UNCHANGED gitVars

Unlocked == UNCHANGED locks

DbError == /\ dbErrors < MaxDbErrors
           /\ dbErrors' = dbErrors + 1

----------------------------------------------------------------------------
(***************************************************************************)
(* The calls                                                               *)
(***************************************************************************)

(* open_pull_request, for the branch of a worktree, or the form for a new  *)
(* pull request.                                                           *)
OpenPullRequest(p) ==
  /\ pr[p] = "none"
  /\ pr' = [pr EXCEPT ![p] = "open"]
  /\ UNCHANGED <<worktree, gitVars, pc, pull, mixed, bounds>>

(* A call starts for a pull request whose row it has read OPEN.            *)
Enter(t, p, stage) ==
  /\ ~Busy(t)
  /\ pr[p] = "open"
  /\ Goto(t, stage)
  /\ pull' = [pull EXCEPT ![t] = p]
  /\ mixed' = mixed \union
       {{BaseOf[p], BaseOf[pull[u]]} : u \in {v \in Threads : Busy(v)}}
  /\ UNCHANGED <<rowVars, gitVars, bounds>>

(* pr_merge, or the merge of the remediation pipeline: no mergeability is  *)
(* looked at.                                                              *)
AskMerge(t, p) == Enter(t, p, "checkout")

(* pr_detail                                                               *)
AskProbe(t, p) == Enter(t, p, "probe")

----------------------------------------------------------------------------
(***************************************************************************)
(* merge_pull_request                                                      *)
(***************************************************************************)

(* Mutant: the merge goes into whatever is checked out.                    *)
CheckoutBase_Skipped(t) ==
  /\ pc[t] = "checkout"
  /\ Goto(t, "merge")
  /\ UNCHANGED <<rowVars, gitVars, pull, mixed, bounds>>

CheckoutBase(t) ==
  /\ pc[t] = "checkout"
  /\ CheckoutSucceeds(BaseOf[pull[t]])
  /\ Goto(t, "merge")
  /\ UNCHANGED <<rowVars, pull, mixed, bounds>>

CheckoutBaseFails(t) ==
  /\ pc[t] = "checkout"
  /\ (CheckoutFails(BaseOf[pull[t]]) /\ Unlocked) \/ Locked(t)
  /\ Return(t)
  /\ UNCHANGED <<rowVars, mixed, dbErrors, restarts>>

Merge(t) ==
  /\ pc[t] = "merge"
  /\ MergeCommits(pull[t])
  /\ Goto(t, "save")
  /\ UNCHANGED <<rowVars, pull, mixed, bounds>>

(* Mutant: a failed merge is left as it is.                                *)
MergeUnsuccessful_Left(t) ==
  /\ pc[t] = "merge"
  /\ (MergeFails(pull[t]) /\ Unlocked) \/ Locked(t)
  /\ Return(t)
  /\ UNCHANGED <<rowVars, mixed, dbErrors, restarts>>

MergeUnsuccessful(t) ==
  /\ pc[t] = "merge"
  /\ (MergeFails(pull[t]) /\ Unlocked) \/ Locked(t)
  /\ Goto(t, "abort")
  /\ UNCHANGED <<rowVars, pull, mixed, dbErrors, restarts>>

(* merge --abort, whose outcome nobody looks at; the call returns False.   *)
Abort(t) ==
  /\ pc[t] = "abort"
  /\ (MergeAborts /\ Unlocked) \/ Locked(t)
  /\ Return(t)
  /\ UNCHANGED <<rowVars, mixed, dbErrors, restarts>>

(* Mutant: the worktree is forgotten.                                      *)
Save_PrOnly(t) ==
  /\ pc[t] = "save"
  /\ pr' = [pr EXCEPT ![pull[t]] = "merged"]
  /\ Return(t)
  /\ UNCHANGED <<worktree, gitVars, mixed, bounds>>

Save(t) ==
  /\ pc[t] = "save"
  /\ pr' = [pr EXCEPT ![pull[t]] = "merged"]
  /\ \/ /\ pull[t] \in FromWorktree
        /\ Goto(t, "saveWorktree")
        /\ UNCHANGED pull
     \/ /\ pull[t] \notin FromWorktree
        /\ Return(t)
  /\ UNCHANGED <<worktree, gitVars, mixed, bounds>>

SaveWorktree(t) ==
  /\ pc[t] = "saveWorktree"
  /\ worktree' = [worktree EXCEPT ![pull[t]] = "merged"]
  /\ Return(t)
  /\ UNCHANGED <<pr, gitVars, mixed, bounds>>

(* Either save raises, and merge_pull_request with it.                     *)
SaveRaises(t) ==
  /\ pc[t] \in {"save", "saveWorktree"}
  /\ DbError
  /\ Return(t)
  /\ UNCHANGED <<rowVars, gitVars, mixed, locks, restarts>>

----------------------------------------------------------------------------
(***************************************************************************)
(* _detect_conflict                                                        *)
(***************************************************************************)

(* status --porcelain: a dirty tree is left to its owner, except that the  *)
(* finally clause aborts whatever merge it finds.                          *)
Probe(t) ==
  /\ pc[t] = "probe"
  /\ Goto(t, IF tree = "clean" THEN "probeCheckout" ELSE "probeAbort")
  /\ UNCHANGED <<rowVars, gitVars, pull, mixed, bounds>>

ProbeCheckout(t) ==
  /\ pc[t] = "probeCheckout"
  /\ \/ /\ CheckoutSucceeds(BaseOf[pull[t]]) /\ Unlocked
        /\ Goto(t, "dryRun")
     \/ /\ (CheckoutFails(BaseOf[pull[t]]) /\ Unlocked) \/ Locked(t)
        /\ Goto(t, "probeAbort")
  /\ UNCHANGED <<rowVars, pull, mixed, dbErrors, restarts>>

(* Mutant: a dry run without conflict needs no abort.                      *)
DryRun_Kept(t) ==
  /\ pc[t] = "dryRun"
  /\ MergeDryRuns(pull[t])
  /\ Return(t)
  /\ UNCHANGED <<rowVars, mixed, bounds>>

DryRun(t) ==
  /\ pc[t] = "dryRun"
  /\ (MergeDryRuns(pull[t]) /\ Unlocked) \/ Locked(t)
  /\ Goto(t, "probeAbort")
  /\ UNCHANGED <<rowVars, pull, mixed, dbErrors, restarts>>

ProbeAbort(t) ==
  /\ pc[t] = "probeAbort"
  /\ (MergeAborts /\ Unlocked) \/ Locked(t)
  /\ Return(t)
  /\ UNCHANGED <<rowVars, mixed, dbErrors, restarts>>

----------------------------------------------------------------------------
(* A server process restarts, and its threads are gone.                    *)
Restart(gone) ==
  /\ restarts < MaxRestarts
  /\ restarts' = restarts + 1
  /\ pc' = [t \in Threads |-> IF t \in gone THEN "idle" ELSE pc[t]]
  /\ pull' = [t \in Threads |-> IF t \in gone THEN Nobody ELSE pull[t]]
  /\ UNCHANGED <<rowVars, gitVars, mixed, locks, dbErrors>>

Step(t) ==
  \/ CheckoutBase(t) \/ CheckoutBaseFails(t)
  \/ Merge(t) \/ MergeUnsuccessful(t) \/ Abort(t)
  \/ Save(t) \/ SaveWorktree(t) \/ SaveRaises(t)
  \/ Probe(t) \/ ProbeCheckout(t) \/ DryRun(t) \/ ProbeAbort(t)

Next ==
  \/ \E p \in Prs : OpenPullRequest(p)
  \/ \E t \in Threads, p \in Prs : AskMerge(t, p) \/ AskProbe(t, p)
  \/ \E t \in Threads : Step(t)
  \/ \E gone \in SUBSET Threads : Restart(gone)

Spec == Init /\ [][Next]_vars

----------------------------------------------------------------------------
(***************************************************************************)
(* Properties                                                              *)
(***************************************************************************)

(* Rows, the clone and the threads keep values of their kinds.             *)
TypeOK ==
  /\ pr \in [Prs -> {"none", "open", "merged"}]
  /\ worktree \in [Prs -> {"active", "merged"}]
  /\ head \in Branches
  /\ tree \in {"clean", "staged", "conflicted", "residue"}
  /\ merged \in [Branches -> SUBSET Prs]
  /\ pc \in [Threads -> Stages]
  /\ pull \in [Threads -> Prs \union {Nobody}]
  /\ \A t \in Threads : Busy(t) => pull[t] \in Prs
  /\ mixed \in SUBSET SUBSET Branches
  /\ locks \in Nat /\ dbErrors \in Nat /\ restarts \in Nat

Contained(p) == \E b \in Branches : p \in merged[b]

Saving(t, p) == pc[t] \in {"save", "saveWorktree"} /\ pull[t] = p

(* What git has merged is recorded in the rows of the pull request and of  *)
(* its worktree, or is about to be, however many calls merge and probe it  *)
(* at once; only an error or a restart between git and the saves leaves    *)
(* merged code under an open pull request (services.py:163-195).           *)
MergeIsRecorded ==
  \A p \in Prs :
    Contained(p) =>
      \/ pr[p] = "merged" /\ (p \in FromWorktree => worktree[p] = "merged")
      \/ \E t \in Threads : Saving(t, p)
      \/ dbErrors > 0 \/ restarts > 0

(* A row says MERGED, and a branch contains a pull request, only if it was *)
(* merged into its own base branch, as long as no two calls for different  *)
(* base branches overlapped (services.py:140-174).                         *)
OneBaseAtATime == \A bases \in mixed : \A a, b \in bases : a = b

MergedIntoItsBase ==
  OneBaseAtATime =>
    \A p \in Prs :
      /\ pr[p] = "merged" => p \in merged[BaseOf[p]]
      /\ \A b \in Branches : p \in merged[b] => b = BaseOf[p]

(* A merge in progress, clean or in conflict, belongs to a call that will  *)
(* abort it, whoever else aborts, checks out or fails to merge meanwhile   *)
(* (services.py:175-177, views.py:298-302).                                *)
HalfMergeHasAnOwner ==
  tree \in {"staged", "conflicted"} =>
    \/ \E t \in Threads : pc[t] \in {"abort", "probeAbort"}
    \/ locks > 0 \/ restarts > 0

(* vcs/tests.py:275, "working tree must stay clean": it is when nobody is  *)
(* at work, provided that calls come one after the other and none is cut   *)
(* short by a restart.                                                     *)
OneAtATime == mixed = {} /\ restarts = 0

StaysClean ==
  OneAtATime /\ (\A t \in Threads : ~Busy(t)) => tree = "clean"

(* With calls one after the other a merge fails only for a conflict with   *)
(* what its base branch contains: what earlier merges, failed ones and     *)
(* dry runs leave behind never stands in its way.                          *)
FailsForAConflict ==
  \A t \in Threads :
    OneAtATime /\ pc[t] = "abort" => Clashes(BaseOf[pull[t]], pull[t])
=============================================================================
