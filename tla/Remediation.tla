---------------------------- MODULE Remediation ----------------------------
(***************************************************************************)
(* The autonomous incident-to-fix loop of orchestration/service.py.        *)
(*                                                                         *)
(* An incident row is opened by observability, and remediate() is called   *)
(* for it: by the ingesting thread itself, by the incident page's button   *)
(* or by the orchestration view.  remediate() takes a guard that lives in  *)
(* the memory of one web-server process, creates a WorkflowRun row and     *)
(* starts a daemon thread that walks _remediate_pipeline: acknowledge,     *)
(* file a ticket, cut a worktree, run the agent, run CI on its pull        *)
(* request and, where HELM_AUTO_MERGE is 1, merge, redeploy and resolve.   *)
(* Humans work on the same rows from the incident and on-call pages.       *)
(*                                                                         *)
(* Rows (incidents, runs, pull requests, tickets) survive a restart of a   *)
(* process; its guard, its threads and its requests in progress do not.    *)
(***************************************************************************)
EXTENDS Naturals, FiniteSets

CONSTANTS
  Workers,        (* web-server processes sharing the database             *)
  Incidents,      (* incident rows that may come to exist                  *)
  Runs,           (* WorkflowRun rows that may be created (bound)          *)
  AutoRemediate,  (* HELM_AUTO_REMEDIATE = 1                               *)
  AutoMerge,      (* HELM_AUTO_MERGE = 1                                   *)
  UseTemporal,    (* HELM_USE_TEMPORAL = 1 and the server is reachable     *)
  Buttons,        (* the buttons humans press: see AllButtons (bound)       *)
  MaxDbErrors,    (* "database is locked" errors that may happen (bound)   *)
  MaxRestarts,    (* process restarts that may happen (bound)              *)
  MaxReruns,      (* CI runs asked for on the pull request page (bound)    *)
  Nobody          (* the value of an empty foreign key                     *)

AllButtons == {"remediate", "ack", "resolve", "reopen", "merge", "rerun"}

ASSUME RemediationAssumption ==
  /\ Nobody \notin Runs \union Workers \union Incidents
  /\ AutoRemediate \in BOOLEAN
  /\ AutoMerge \in BOOLEAN
  /\ UseTemporal \in BOOLEAN
  /\ Buttons \subseteq AllButtons
  /\ MaxDbErrors \in Nat
  /\ MaxRestarts \in Nat
  /\ MaxReruns \in Nat

VARIABLES
  status,         (* Incident.status                                       *)
  guard,          (* _REMEDIATING_INCIDENTS of each process                *)
  requests,       (* calls of remediate() to come: <<process, incident>>   *)
  wf,             (* WorkflowRun.status, "none" before the row exists      *)
  pc,             (* what the dispatch or pipeline thread of a run does    *)
  worker,         (* the process that dispatched the run                   *)
  target,         (* WorkflowRun.ref_id, the incident of the run           *)
  creating,       (* ticket_for_incident of the run's thread found none    *)
  pr,             (* status of the pull request the run's agent opened     *)
  ci,             (* PullRequest.ci_status of that pull request            *)
  tickets,        (* number of tickets linked to the incident              *)
  ticketStatus,   (* status of the oldest of them                          *)
  ticketPr,       (* pull request linked to the oldest of them             *)
  base,           (* pull requests git has merged into the base branch     *)
  shipped,        (* pull requests contained in the live production app    *)
  merging,        (* merge buttons' requests whose git merge is done and   *)
                  (* whose row is not saved: <<process, pull request>>     *)
  unrecorded,     (* history: pull requests git merged whose row was not   *)
                  (* saved, for an error or the end of the process         *)
  redeploys,      (* _maybe_redeploy threads, likewise                     *)
  rerunning,      (* CI threads of the pull request page, likewise         *)
  dbErrors, restarts, reruns

ticketVars   == <<tickets, ticketStatus, ticketPr>>
runVars      == <<wf, worker, target>>
mergeVars    == <<base, merging, unrecorded>>
prVars       == <<pr, ci, mergeVars, shipped, redeploys, rerunning>>
bounds       == <<restarts, reruns>>
vars == <<status, guard, requests, wf, pc, worker,
          target, creating, pr, ci, tickets, ticketStatus, ticketPr, base,
          merging, unrecorded, shipped, redeploys, rerunning, dbErrors, restarts, reruns>>

----------------------------------------------------------------------------
(***************************************************************************)
(* Stages of a run.  "entered" and "created" belong to the thread that     *)
(* called remediate(); from "temporal" or "ack" on, to the run's own       *)
(* thread.  "wedged" is a call that raised after it took the guard.        *)
(***************************************************************************)
DispatchStages == {"entered", "created"}
BodyStages ==
  {"ack", "remediating", "fileTicket", "worktree", "agent", "linkTicket",
   "ci", "ciRunning", "gate", "merge", "saveMerged", "deploy", "resolve", "closeTicket"}
RecordStages == {"saveDone", "logDone", "saveFailed", "release"}
ThreadStages == {"temporal"} \union BodyStages \union RecordStages
Holding      == DispatchStages \union ThreadStages \union {"wedged"}
Stages       == Holding \union {"idle", "ended", "killed"}

(* The three calls of _issue_hook: the status each passes, what follows it *)
HookStages == {"fileTicket", "linkTicket", "closeTicket"}

HookStatus == [h \in HookStages |-> IF h = "fileTicket" THEN "todo"
                                    ELSE IF h = "linkTicket" THEN "in_progress"
                                    ELSE "done"]
AfterHook  == [h \in HookStages |-> IF h = "fileTicket" THEN "worktree"
                                    ELSE IF h = "linkTicket" THEN "ci"
                                    ELSE "saveDone"]

Goto(r, stage) == pc' = [pc EXCEPT ![r] = stage]

(* Saves of Incident.status with its timestamp (acknowledged_at,           *)
(* resolved_at), whatever the status has become since the row was read.    *)
SetStatus(i, to) == status' = [status EXCEPT ![i] = to]

(* One more "database is locked" of the bounded supply.                    *)
DbError == /\ dbErrors < MaxDbErrors
           /\ dbErrors' = dbErrors + 1

----------------------------------------------------------------------------
Init ==
  /\ status        = [i \in Incidents |-> "none"]
  /\ guard         = [w \in Workers |-> {}]
  /\ requests      = {}
  /\ wf            = [r \in Runs |-> "none"]
  /\ pc            = [r \in Runs |-> "idle"]
  /\ worker        = [r \in Runs |-> Nobody]
  /\ target        = [r \in Runs |-> Nobody]
  /\ creating      = [r \in Runs |-> FALSE]
  /\ pr            = [r \in Runs |-> "none"]
  /\ ci            = [r \in Runs |-> "none"]
  /\ tickets       = [i \in Incidents |-> 0]
  /\ ticketStatus  = [i \in Incidents |-> "none"]
  /\ ticketPr      = [i \in Incidents |-> Nobody]
  /\ base          = {}
  /\ merging       = {}
  /\ unrecorded    = {}
  /\ shipped       = {}
  /\ redeploys     = {}
  /\ dbErrors      = 0
  /\ rerunning     = {}
  /\ restarts      = 0
  /\ reruns        = 0

----------------------------------------------------------------------------
(***************************************************************************)
(* Incidents and the humans working on them.                               *)
(***************************************************************************)

(* open_or_update_incident creates the row and, with HELM_AUTO_REMEDIATE,  *)
(* calls remediate() in the same thread.                                   *)
CallsRemediate(w, i) ==
  requests' = IF AutoRemediate
                THEN requests \union {<<w, i>>}
                ELSE requests

OpenIncident(w, i) ==
  /\ status[i] = "none"
  /\ SetStatus(i, "firing")
  /\ CallsRemediate(w, i)
  /\ UNCHANGED <<guard, pc, creating, dbErrors,
                 bounds>>
  /\ UNCHANGED <<runVars, prVars, ticketVars>>

(* The row is created and the event behind it raises: the caller never     *)
(* reaches its call of remediate().                                        *)
OpenIncidentRaises(i) ==
  /\ status[i] = "none"
  /\ DbError
  /\ SetStatus(i, "firing")
  /\ UNCHANGED <<guard, requests, pc, creating,
                 bounds>>
  /\ UNCHANGED <<runVars, prVars, ticketVars>>

(* A remediate button.  The orchestration view checks nothing before its   *)
(* call.  The incident page looks at the status and at the guard first,    *)
(* and calls whatever they have become since: no other call than this.     *)
AskRemediate(w, i) ==
  /\ status[i] # "none"
  /\ requests' = requests \union {<<w, i>>}
  /\ UNCHANGED <<guard, pc, creating, dbErrors, bounds>>
  /\ UNCHANGED <<status, runVars, prVars, ticketVars>>

(* The buttons of the incident and on-call pages.  The on-call views save  *)
(* whatever the status is, and the incident page tests a copy of the row   *)
(* it read before, which forbids nothing by the time of its save.  Reopen  *)
(* reads a resolved incident and saves in one step.                        *)
HumanAck(i) ==
  /\ status[i] # "none"
  /\ SetStatus(i, "acknowledged")
  /\ UNCHANGED <<guard, requests, pc, creating, dbErrors, bounds>>
  /\ UNCHANGED <<runVars, prVars, ticketVars>>

HumanResolve(i) ==
  /\ status[i] # "none"
  /\ SetStatus(i, "resolved")
  /\ UNCHANGED <<guard, requests, pc, creating, dbErrors, bounds>>
  /\ UNCHANGED <<runVars, prVars, ticketVars>>

HumanReopen(i) ==
  /\ status[i] = "resolved"
  /\ SetStatus(i, "firing")
  /\ UNCHANGED <<guard, requests, pc, creating, dbErrors,
                 bounds>>
  /\ UNCHANGED <<runVars, prVars, ticketVars>>

----------------------------------------------------------------------------
(***************************************************************************)
(* remediate() and _run(): the guard, the row, the thread.                 *)
(***************************************************************************)

(* Mutant: the set is never consulted.                                     *)
IsRemediating_Never(w, i) == FALSE

IsRemediating(w, i) == i \in guard[w]

(* Under _REMEDIATE_LOCK: a second call for an incident the process is     *)
(* already working on returns None.                                        *)
RemediateRefused(w, i) ==
  /\ <<w, i>> \in requests
  /\ IsRemediating(w, i)
  /\ requests' = requests \ {<<w, i>>}
  /\ UNCHANGED <<guard, pc, creating, dbErrors, bounds>>
  /\ UNCHANGED <<status, runVars, prVars, ticketVars>>

Remediate(w, i, r) ==
  /\ <<w, i>> \in requests
  /\ ~IsRemediating(w, i)
  /\ pc[r] = "idle"
  /\ requests' = requests \ {<<w, i>>}
  /\ guard' = [guard EXCEPT ![w] = @ \union {i}]
  /\ worker' = [worker EXCEPT ![r] = w]
  /\ target' = [target EXCEPT ![r] = i]
  /\ Goto(r, "entered")
  /\ UNCHANGED <<wf, creating, dbErrors, bounds>>
  /\ UNCHANGED <<status, prVars, ticketVars>>

(* WorkflowRun.objects.create with status RUNNING.                         *)
CreateRow(r) ==
  /\ pc[r] = "entered"
  /\ wf' = [wf EXCEPT ![r] = "running"]
  /\ Goto(r, "created")
  /\ UNCHANGED <<guard, requests, worker, target, creating, dbErrors, bounds>>
  /\ UNCHANGED <<status, prVars, ticketVars>>

(* Event.log("started workflow"), then the thread.                         *)
StartThread(r) ==
  /\ pc[r] = "created"
  /\ Goto(r, IF UseTemporal THEN "temporal" ELSE "ack")
  /\ UNCHANGED <<guard, requests, creating, dbErrors, bounds>>
  /\ UNCHANGED <<status, runVars, prVars, ticketVars>>

(* Creating the row or its event raises: remediate() leaves without a      *)
(* thread, and nobody calls _release for the incident.                     *)
DispatchRaises(r) ==
  /\ pc[r] \in DispatchStages
  /\ DbError
  /\ Goto(r, "wedged")
  /\ UNCHANGED <<guard, requests, creating, bounds>>
  /\ UNCHANGED <<status, runVars, prVars, ticketVars>>

(* _temporal_body: its coroutine reads a name the module never imports     *)
(* (settings) before it starts the workflow, so it always takes the except *)
(* branch: an event, then _body in this thread.                            *)
TemporalFallsBack(r) ==
  /\ pc[r] = "temporal"
  /\ Goto(r, "ack")
  /\ UNCHANGED <<guard, requests, creating, dbErrors, bounds>>
  /\ UNCHANGED <<status, runVars, prVars, ticketVars>>

(* That event raises: on_done runs, _body does not.                        *)
TemporalFallbackRaises(r) ==
  /\ pc[r] = "temporal"
  /\ DbError
  /\ Goto(r, "release")
  /\ UNCHANGED <<guard, requests, creating, bounds>>
  /\ UNCHANGED <<status, runVars, prVars, ticketVars>>

----------------------------------------------------------------------------
(***************************************************************************)
(* _remediate_pipeline.                                                    *)
(***************************************************************************)

Acknowledge(r) ==
  /\ pc[r] = "ack"
  /\ SetStatus(target[r], "acknowledged")
  /\ Goto(r, "remediating")
  /\ UNCHANGED <<guard, requests, creating, dbErrors, bounds>>
  /\ UNCHANGED <<runVars, prVars, ticketVars>>

SetRemediating(r) ==
  /\ pc[r] = "remediating"
  /\ SetStatus(target[r], "remediating")
  /\ Goto(r, "fileTicket")
  /\ UNCHANGED <<guard, requests, creating,
                 dbErrors, bounds>>
  /\ UNCHANGED <<runVars, prVars, ticketVars>>

(* Mutant: every hook files a ticket, whether there is one or not.         *)
TicketNotFound_NoLookup(r) ==
  /\ pc[r] \in HookStages
  /\ ~creating[r]
  /\ creating' = [creating EXCEPT ![r] = TRUE]
  /\ UNCHANGED <<guard, requests, pc, dbErrors, bounds>>
  /\ UNCHANGED <<status, runVars, prVars, ticketVars>>

(* ticket_for_incident: look the ticket up ...                             *)
TicketNotFound(r) ==
  /\ pc[r] \in HookStages
  /\ ~creating[r]
  /\ tickets[target[r]] = 0
  /\ creating' = [creating EXCEPT ![r] = TRUE]
  /\ UNCHANGED <<guard, requests, pc, dbErrors, bounds>>
  /\ UNCHANGED <<status, runVars, prVars, ticketVars>>

LinkedPr(r, old) == IF pc[r] = "fileTicket" THEN old ELSE r

(* ... update the oldest one if there is one ...                           *)
TicketUpdated(r) ==
  LET i == target[r]
  IN  /\ pc[r] \in HookStages
      /\ ~creating[r]
      /\ tickets[i] > 0
      /\ ticketStatus' = [ticketStatus EXCEPT ![i] = HookStatus[pc[r]]]
      /\ ticketPr' = [ticketPr EXCEPT ![i] = LinkedPr(r, @)]
      /\ Goto(r, AfterHook[pc[r]])
      /\ UNCHANGED <<tickets, guard, requests, creating, dbErrors, bounds>>
      /\ UNCHANGED <<status, runVars, prVars>>

(* ... or create one, which is the oldest only if none came in between.    *)
TicketCreated(r) ==
  LET i == target[r]
  IN  /\ pc[r] \in HookStages
      /\ creating[r]
      /\ tickets' = [tickets EXCEPT ![i] = @ + 1]
      /\ IF tickets[i] = 0
           THEN /\ ticketStatus' =
                     [ticketStatus EXCEPT ![i] = HookStatus[pc[r]]]
                /\ ticketPr' = [ticketPr EXCEPT ![i] = LinkedPr(r, Nobody)]
           ELSE UNCHANGED <<ticketStatus, ticketPr>>
      /\ creating' = [creating EXCEPT ![r] = FALSE]
      /\ Goto(r, AfterHook[pc[r]])
      /\ UNCHANGED <<guard, requests, dbErrors, bounds>>
      /\ UNCHANGED <<status, runVars, prVars>>

(* The hook swallows its own errors and the pipeline goes on.              *)
TicketHookFails(r) ==
  /\ pc[r] \in HookStages
  /\ DbError
  /\ creating' = [creating EXCEPT ![r] = FALSE]
  /\ Goto(r, AfterHook[pc[r]])
  /\ UNCHANGED <<guard, requests, bounds>>
  /\ UNCHANGED <<status, runVars, prVars, ticketVars>>

(* create_worktree, or the git error it raises.                            *)
CreateWorktree(r) ==
  /\ pc[r] = "worktree"
  /\ \/ Goto(r, "agent")
     \/ Goto(r, "saveFailed")
  /\ UNCHANGED <<guard, requests, creating, dbErrors, bounds>>
  /\ UNCHANGED <<status, runVars, prVars, ticketVars>>

(* launch_agent and run_agent: the agent either commits a change, for      *)
(* which a pull request is opened and linked to the incident, or ends      *)
(* without one and the pipeline returns for a human to look.               *)
AgentOpensPr(r) ==
  /\ pc[r] = "agent"
  /\ pr' = [pr EXCEPT ![r] = "open"]
  /\ Goto(r, "linkTicket")
  /\ UNCHANGED <<status, guard, requests, creating, ci, mergeVars, shipped,
                 redeploys, rerunning, dbErrors, bounds>>
  /\ UNCHANGED <<runVars, ticketVars>>

AgentEndsWithoutPr(r) ==
  /\ pc[r] = "agent"
  /\ Goto(r, "saveDone")
  /\ UNCHANGED <<guard, requests, creating, dbErrors, bounds>>
  /\ UNCHANGED <<status, runVars, prVars, ticketVars>>

(* _run_ci_inline.                                                         *)
StartCi(r) ==
  /\ pc[r] = "ci"
  /\ ci' = [ci EXCEPT ![r] = "running"]
  /\ Goto(r, "ciRunning")
  /\ UNCHANGED <<pr, mergeVars, shipped, redeploys, rerunning, guard, requests,
                 creating, dbErrors, bounds>>
  /\ UNCHANGED <<status, runVars, ticketVars>>

(* Mutant: the result of the tests is not looked at.                       *)
FinishCi_AnyResult(r, result) ==
  /\ pc[r] = "ciRunning"
  /\ ci' = [ci EXCEPT ![r] = result]
  /\ Goto(r, "gate")
  /\ UNCHANGED <<pr, mergeVars, shipped, redeploys, rerunning, guard, requests,
                 creating, dbErrors, bounds>>
  /\ UNCHANGED <<status, runVars, ticketVars>>

FinishCi(r, result) ==
  /\ pc[r] = "ciRunning"
  /\ ci' = [ci EXCEPT ![r] = result]
  /\ Goto(r, IF result = "passed" THEN "gate" ELSE "saveDone")
  /\ UNCHANGED <<pr, mergeVars, shipped, redeploys, rerunning, guard, requests,
                 creating, dbErrors, bounds>>
  /\ UNCHANGED <<status, runVars, ticketVars>>

(* Mutant: the gate is gone.                                               *)
MergeGate_Open(r) ==
  /\ pc[r] = "gate"
  /\ Goto(r, "merge")
  /\ UNCHANGED <<guard, requests, creating, dbErrors, bounds>>
  /\ UNCHANGED <<status, runVars, prVars, ticketVars>>

(* The human gate: without HELM_AUTO_MERGE the pipeline returns here and   *)
(* leaves the pull request open and the incident REMEDIATING.              *)
MergeGate(r) ==
  /\ pc[r] = "gate"
  /\ Goto(r, IF AutoMerge THEN "merge" ELSE "saveDone")
  /\ UNCHANGED <<guard, requests, creating, dbErrors, bounds>>
  /\ UNCHANGED <<status, runVars, prVars, ticketVars>>

(* The agent's pull request exists but the save that links it to its run   *)
(* raises: run_agent records the run FAILED, the pipeline sees no pull     *)
(* request, and the incident is not linked to it.                          *)
AgentOrphansPr(r) ==
  /\ pc[r] = "agent"
  /\ DbError
  /\ pr' = [pr EXCEPT ![r] = "open"]
  /\ Goto(r, "saveDone")
  /\ UNCHANGED <<mergeVars, ci, shipped, redeploys, rerunning, guard, requests,
                 creating, bounds>>
  /\ UNCHANGED <<status, runVars, ticketVars>>

(* merge_pull_request: git merges ...                                      *)
GitMerged(r) == base' = base \union {r} /\ UNCHANGED unrecorded

(* Mutant: update_fields lacks "status".                                   *)
MergeRecorded_NoStatus(r) ==
  UNCHANGED <<pr, ci, base, unrecorded, shipped, rerunning, tickets, ticketPr>>

(* ... and the row is saved, in a later statement.                         *)
MergeRecorded(r) ==
  /\ pr' = [pr EXCEPT ![r] = "merged"]
  /\ UNCHANGED <<ci, base, unrecorded, shipped, rerunning, tickets, ticketPr>>

(* The post_save signal of the row closes the tickets linked to it.        *)
ClosesTickets(r) ==
  ticketStatus' = [i \in Incidents |->
                     IF ticketPr[i] = r THEN "done" ELSE ticketStatus[i]]

(* It returns True: all went well, or the signal swallowed its own error.  *)
MergeReturns(r) ==
  /\ MergeRecorded(r)
  /\ \/ ClosesTickets(r) /\ UNCHANGED dbErrors
     \/ DbError /\ UNCHANGED ticketStatus

(* It raises after git has merged: the save of status MERGED does, or the  *)
(* event after it.                                                         *)
MergeRaises(r) ==
  /\ DbError
  /\ \/ /\ unrecorded' = unrecorded \union {r}
        /\ UNCHANGED <<pr, ci, base, shipped, rerunning, ticketVars>>
     \/ MergeRecorded(r) /\ ClosesTickets(r)
  /\ UNCHANGED redeploys

(* The pipeline's copy of the row was read before CI ran, so it merges     *)
(* again what a human merged meanwhile.                                    *)
LoopMerge(r) ==
  /\ pc[r] = "merge"
  /\ GitMerged(r)
  /\ Goto(r, "saveMerged")
  /\ UNCHANGED <<pr, ci, shipped, merging, redeploys, rerunning, guard,
                 requests, creating, dbErrors, bounds>>
  /\ UNCHANGED <<status, runVars, ticketVars>>

LoopMergeSaves(r) ==
  /\ pc[r] = "saveMerged"
  /\ MergeReturns(r)
  /\ Goto(r, "deploy")
  /\ UNCHANGED <<merging, redeploys, guard, requests, creating, bounds>>
  /\ UNCHANGED <<status, runVars>>

(* git cannot merge: the pipeline ignores the False this returns.          *)
LoopMergeFails(r) ==
  /\ pc[r] = "merge"
  /\ Goto(r, "deploy")
  /\ UNCHANGED <<guard, requests, creating, dbErrors, bounds>>
  /\ UNCHANGED <<status, runVars, prVars, ticketVars>>

LoopMergeRaises(r) ==
  /\ pc[r] = "saveMerged"
  /\ MergeRaises(r)
  /\ Goto(r, "saveFailed")
  /\ UNCHANGED <<merging, guard, requests, creating, bounds>>
  /\ UNCHANGED <<status, runVars>>

(* deploys.services.deploy of the head of the production branch: it stops  *)
(* the previous deployment first, and returns a FAILED one, never raises.  *)
DeployProduction(ok) == shipped' = IF ok THEN base ELSE {}

LoopDeploy(r, ok) ==
  /\ pc[r] = "deploy"
  /\ DeployProduction(ok)
  /\ Goto(r, "resolve")
  /\ UNCHANGED <<pr, ci, mergeVars, redeploys, rerunning, guard, requests, creating,
                 dbErrors, bounds>>
  /\ UNCHANGED <<status, runVars, ticketVars>>

(* Mutant: update_fields lacks "status".                                   *)
LoopResolve_NoStatus(r) ==
  /\ pc[r] = "resolve"
  /\ Goto(r, "closeTicket")
  /\ UNCHANGED <<status, guard, requests, creating, dbErrors, bounds>>
  /\ UNCHANGED <<runVars, prVars, ticketVars>>

LoopResolve(r) ==
  /\ pc[r] = "resolve"
  /\ SetStatus(target[r], "resolved")
  /\ Goto(r, "closeTicket")
  /\ UNCHANGED <<guard, requests, creating, dbErrors, bounds>>
  /\ UNCHANGED <<runVars, prVars, ticketVars>>

(* A database write of the pipeline raises: each stage begins by logging   *)
(* an event (the save after a merge has an action of its own).  Only the   *)
(* hooks swallow the errors of their own.                                  *)
PipelineRaises(r) ==
  /\ pc[r] \in BodyStages \ {"saveMerged"}
  /\ ~creating[r]
  /\ DbError
  /\ Goto(r, "saveFailed")
  /\ UNCHANGED <<guard, requests, creating, bounds>>
  /\ UNCHANGED <<status, runVars, prVars, ticketVars>>

----------------------------------------------------------------------------
(***************************************************************************)
(* The end of _body: the row's outcome, its event, on_done.                *)
(***************************************************************************)

(* Mutant: the outcome is set on the object and never saved.               *)
RecordDone_NoSave(r) ==
  /\ pc[r] = "saveDone"
  /\ Goto(r, "logDone")
  /\ UNCHANGED <<guard, requests, creating, dbErrors, bounds>>
  /\ UNCHANGED <<status, runVars, prVars, ticketVars>>

RecordDone(r) ==
  /\ pc[r] = "saveDone"
  /\ wf' = [wf EXCEPT ![r] = "done"]
  /\ Goto(r, "logDone")
  /\ UNCHANGED <<worker, target, guard, requests, creating, dbErrors, bounds>>
  /\ UNCHANGED <<status, prVars, ticketVars>>

LogDone(r) ==
  /\ pc[r] = "logDone"
  /\ Goto(r, "release")
  /\ UNCHANGED <<guard, requests, creating, dbErrors, bounds>>
  /\ UNCHANGED <<status, runVars, prVars, ticketVars>>

(* The save (after its retries) or the event raises inside the same try.   *)
RecordDoneRaises(r) ==
  /\ pc[r] \in {"saveDone", "logDone"}
  /\ DbError
  /\ Goto(r, "saveFailed")
  /\ UNCHANGED <<guard, requests, creating, bounds>>
  /\ UNCHANGED <<status, runVars, prVars, ticketVars>>

(* Mutant: the except branch does not save the row.                        *)
RecordFailed_NoSave(r) ==
  /\ pc[r] = "saveFailed"
  /\ Goto(r, "release")
  /\ UNCHANGED <<guard, requests, creating, dbErrors, bounds>>
  /\ UNCHANGED <<status, runVars, prVars, ticketVars>>

RecordFailed(r) ==
  /\ pc[r] = "saveFailed"
  /\ wf' = [wf EXCEPT ![r] = "failed"]
  /\ Goto(r, "release")
  /\ UNCHANGED <<worker, target, guard, requests, creating, dbErrors, bounds>>
  /\ UNCHANGED <<status, prVars, ticketVars>>

(* The error of this save is swallowed: the row keeps what it had.         *)
RecordFailedRaises(r) ==
  /\ pc[r] = "saveFailed"
  /\ DbError
  /\ Goto(r, "release")
  /\ UNCHANGED <<guard, requests, creating, bounds>>
  /\ UNCHANGED <<status, runVars, prVars, ticketVars>>

(* Mutant: on_done is not called.                                          *)
Release_Leaks(r) ==
  /\ pc[r] = "release"
  /\ Goto(r, "ended")
  /\ UNCHANGED <<guard, requests, creating, dbErrors, bounds>>
  /\ UNCHANGED <<status, runVars, prVars, ticketVars>>

(* on_done = _release.                                                     *)
Release(r) ==
  /\ pc[r] = "release"
  /\ guard' = [guard EXCEPT ![worker[r]] = @ \ {target[r]}]
  /\ Goto(r, "ended")
  /\ UNCHANGED <<requests, creating, dbErrors, bounds>>
  /\ UNCHANGED <<status, runVars, prVars, ticketVars>>

----------------------------------------------------------------------------
(***************************************************************************)
(* The merge button, and the end of a process.                             *)
(***************************************************************************)

(* pr_merge: nothing but the pull request's own status is looked at.       *)
HumanMerge(w, r) ==
  /\ pr[r] # "none"
  /\ IF pr[r] = "merged"
       THEN /\ redeploys' = redeploys \union {<<w, r>>}
            /\ UNCHANGED mergeVars
       ELSE /\ GitMerged(r)
            /\ merging' = merging \union {<<w, r>>}
            /\ UNCHANGED redeploys
  /\ UNCHANGED <<pr, ci, shipped, rerunning, dbErrors, ticketVars>>
  /\ UNCHANGED <<guard, requests, pc, creating, bounds>>
  /\ UNCHANGED <<status, runVars>>

HumanMergeSaves(w, r) ==
  /\ <<w, r>> \in merging
  /\ MergeReturns(r)
  /\ merging' = merging \ {<<w, r>>}
  /\ redeploys' = redeploys \union {<<w, r>>}
  /\ UNCHANGED <<guard, requests, pc, creating, bounds>>
  /\ UNCHANGED <<status, runVars>>

HumanMergeRaises(w, r) ==
  /\ <<w, r>> \in merging
  /\ MergeRaises(r)
  /\ merging' = merging \ {<<w, r>>}
  /\ UNCHANGED <<guard, requests, pc, creating, bounds>>
  /\ UNCHANGED <<status, runVars>>

(* pr_run_ci starts another run of the tests on the same row, whoever is   *)
(* testing or merging it already.                                          *)
RerunCi(w, r) ==
  /\ pr[r] # "none"
  /\ reruns < MaxReruns
  /\ reruns' = reruns + 1
  /\ ci' = [ci EXCEPT ![r] = "running"]
  /\ rerunning' = rerunning \union {<<w, r>>}
  /\ UNCHANGED <<pr, mergeVars, shipped, redeploys, guard, requests, pc, creating,
                 dbErrors, restarts>>
  /\ UNCHANGED <<status, runVars, ticketVars>>

FinishRerun(w, r, result) ==
  /\ <<w, r>> \in rerunning
  /\ rerunning' = rerunning \ {<<w, r>>}
  /\ ci' = [ci EXCEPT ![r] = result]
  /\ UNCHANGED <<pr, mergeVars, shipped, redeploys, guard, requests, pc, creating,
                 dbErrors, bounds>>
  /\ UNCHANGED <<status, runVars, ticketVars>>

MaybeRedeploy(w, r, ok) ==
  /\ <<w, r>> \in redeploys
  /\ redeploys' = redeploys \ {<<w, r>>}
  /\ DeployProduction(ok)
  /\ UNCHANGED <<pr, ci, mergeVars, rerunning, guard, requests, pc, creating,
                 dbErrors, bounds>>
  /\ UNCHANGED <<status, runVars, ticketVars>>

(* The pull requests process w has merged in git and not yet saved.        *)
Unsaved(w) ==
  {r \in Runs : <<w, r>> \in merging \/ (pc[r] = "saveMerged" /\ worker[r] = w)}

(* A process restarts: its guard, threads and requests are gone; every row *)
(* stays as it was, and nothing takes the work up again.                   *)
Restart(w) ==
  /\ restarts < MaxRestarts
  /\ restarts' = restarts + 1
  /\ guard' = [guard EXCEPT ![w] = {}]
  /\ requests' = {q \in requests : q[1] # w}
  /\ merging' = {q \in merging : q[1] # w}
  /\ unrecorded' = unrecorded \union Unsaved(w)
  /\ redeploys' = {q \in redeploys : q[1] # w}
  /\ rerunning' = {q \in rerunning : q[1] # w}
  /\ pc' = [r \in Runs |-> IF worker[r] = w /\ pc[r] \in Holding
                             THEN "killed" ELSE pc[r]]
  /\ creating' = [r \in Runs |-> IF worker[r] = w THEN FALSE ELSE creating[r]]
  /\ UNCHANGED <<pr, ci, base, shipped, dbErrors, reruns>>
  /\ UNCHANGED <<status, runVars, ticketVars>>

----------------------------------------------------------------------------
Dispatch(r) == CreateRow(r) \/ StartThread(r) \/ DispatchRaises(r)

Pipeline(r) ==
  \/ TemporalFallsBack(r) \/ TemporalFallbackRaises(r)
  \/ Acknowledge(r) \/ SetRemediating(r)
  \/ TicketNotFound(r) \/ TicketUpdated(r) \/ TicketCreated(r)
  \/ TicketHookFails(r)
  \/ CreateWorktree(r)
  \/ AgentOpensPr(r) \/ AgentEndsWithoutPr(r) \/ AgentOrphansPr(r)
  \/ StartCi(r)
  \/ \E result \in {"passed", "failed"} : FinishCi(r, result)
  \/ MergeGate(r)
  \/ LoopMerge(r) \/ LoopMergeSaves(r)
  \/ LoopMergeFails(r) \/ LoopMergeRaises(r)
  \/ \E ok \in BOOLEAN : LoopDeploy(r, ok)
  \/ LoopResolve(r)
  \/ PipelineRaises(r)
  \/ RecordDone(r) \/ LogDone(r) \/ RecordDoneRaises(r)
  \/ RecordFailed(r) \/ RecordFailedRaises(r)
  \/ Release(r)

Human(w) ==
  \/ \E i \in Incidents :
       \/ "remediate" \in Buttons /\ AskRemediate(w, i)
       \/ "ack" \in Buttons /\ HumanAck(i)
       \/ "resolve" \in Buttons /\ HumanResolve(i)
       \/ "reopen" \in Buttons /\ HumanReopen(i)
  \/ \E r \in Runs :
       \/ "merge" \in Buttons /\ HumanMerge(w, r)
       \/ "rerun" \in Buttons /\ RerunCi(w, r)

Server(w) ==
  \/ \E i \in Incidents :
       \/ OpenIncident(w, i) \/ OpenIncidentRaises(i)
       \/ RemediateRefused(w, i)
       \/ \E r \in Runs : Remediate(w, i, r)
  \/ \E r \in Runs :
       \/ HumanMergeSaves(w, r) \/ HumanMergeRaises(w, r)
       \/ \E ok \in BOOLEAN : MaybeRedeploy(w, r, ok)
       \/ \E result \in {"passed", "failed"} : FinishRerun(w, r, result)
  \/ Restart(w)

Next ==
  \/ \E r \in Runs : Dispatch(r) \/ Pipeline(r)
  \/ \E w \in Workers : Human(w) \/ Server(w)

Spec == Init /\ [][Next]_vars

----------------------------------------------------------------------------
(***************************************************************************)
(* Properties.                                                             *)
(***************************************************************************)

(* Every row, thread and in-memory table holds a value of its kind.        *)
TypeOK ==
  /\ status \in [Incidents -> {"none", "firing", "acknowledged", "remediating",
                               "resolved"}]
  /\ guard \in [Workers -> SUBSET Incidents]
  /\ requests \subseteq Workers \X Incidents
  /\ wf \in [Runs -> {"none", "running", "done", "failed"}]
  /\ pc \in [Runs -> Stages]
  /\ worker \in [Runs -> Workers \union {Nobody}]
  /\ target \in [Runs -> Incidents \union {Nobody}]
  /\ \A r \in Runs : pc[r] # "idle" => worker[r] \in Workers
                                       /\ target[r] \in Incidents
  /\ creating \in [Runs -> BOOLEAN]
  /\ pr \in [Runs -> {"none", "open", "merged"}]
  /\ ci \in [Runs -> {"none", "running", "passed", "failed"}]
  /\ tickets \in [Incidents -> Nat]
  /\ ticketStatus \in [Incidents -> {"none", "todo", "in_progress", "done"}]
  /\ ticketPr \in [Incidents -> Runs \union {Nobody}]
  /\ base \subseteq Runs
  /\ merging \subseteq Workers \X Runs
  /\ unrecorded \subseteq Runs
  /\ shipped \subseteq Runs
  /\ redeploys \subseteq Workers \X Runs
  /\ rerunning \subseteq Workers \X Runs
  /\ dbErrors \in Nat
  /\ restarts \in Nat
  /\ reruns \in Nat

(* Run r is at work on incident i in process w.                            *)
WorksOn(r, w, i) == pc[r] \in Holding /\ worker[r] = w /\ target[r] = i

(* _REMEDIATING_INCIDENTS of a process holds exactly the incidents some    *)
(* run of that process is at work on: a finished or killed run leaves      *)
(* nothing behind, and nobody's entry is released before its run is over.  *)
GuardAccounted ==
  \A w \in Workers, i \in Incidents :
    i \in guard[w] <=> \E r \in Runs : WorksOn(r, w, i)

(* The re-entrancy guard of remediate(): within one process, never two     *)
(* runs at work on one incident.                                           *)
OnePipelinePerWorker ==
  \A r, s \in Runs :
    /\ pc[r] \in Holding /\ pc[s] \in Holding
    /\ worker[r] = worker[s] /\ target[r] = target[s]
    => r = s

SingleProcess == \A v, w \in Workers : v = w

(* ticket_for_incident is a check and a create with no lock: it leaves one *)
(* ticket per incident as long as all runs belong to one process, whatever *)
(* errors and restarts happen.                                             *)
OneTicketPerIncident ==
  SingleProcess => \A i \in Incidents : tickets[i] <= 1

(* A run whose thread is over has left its outcome in its row, unless the  *)
(* database refused a write.                                               *)
OutcomeRecorded ==
  \A r \in Runs :
    pc[r] \in {"release", "ended"} /\ wf[r] = "running" => dbErrors > 0

(* A run gets past the merge gate only with HELM_AUTO_MERGE, a pull        *)
(* request of its own and a green CI, which stays green unless somebody    *)
(* asked for another CI run of it.                                         *)
PastGate == {"merge", "saveMerged", "deploy", "resolve", "closeTicket"}

PastGateIsGreen ==
  \A r \in Runs :
    pc[r] \in PastGate =>
      AutoMerge /\ pr[r] # "none" /\ (ci[r] = "passed" \/ reruns > 0)

(* The human gate: without HELM_AUTO_MERGE, and until a human presses the  *)
(* merge button, nothing is merged and production stays as it was.         *)
HumanGate ==
  ~AutoMerge /\ "merge" \notin Buttons => base = {} /\ shipped = {}

(* Whatever production runs is recorded.  merge_pull_request merges in git *)
(* and saves the row in a later statement (vcs/services.py:163, 188-190),  *)
(* and the deploy of another run may ship the base branch in between: a    *)
(* pull request in the live app whose row is not MERGED has a thread about *)
(* to save that row, or one whose save raised or that died before it.      *)
Recording(r) ==
  pc[r] = "saveMerged" \/ \E w \in Workers : <<w, r>> \in merging

LiveCodeIsRecorded ==
  \A r \in shipped : pr[r] = "merged" \/ Recording(r) \/ r \in unrecorded

(* What the guard is for, as a specification: seen through the threads at  *)
(* work (not through the guard), a process flies at most one remediation   *)
(* of an incident, and a restart grounds all of them for good.             *)
Flights ==
  {<<worker[r], target[r], r>> : r \in {s \in Runs : pc[s] \in Holding}}

Flight == INSTANCE SingleFlight WITH
  Holders <- Workers,
  Keys    <- Incidents,
  Jobs    <- Runs,
  flights <- Flights,
  spent   <- {r \in Runs : pc[r] # "idle"}

ImplementsSingleFlight == Flight!Spec

----------------------------------------------------------------------------
(***************************************************************************)
(* Fairness.  Threads run, and the subprocesses they wait for end (the CI  *)
(* run has a timeout of 600 s; the agent and git are assumed to finish).   *)
(* Nothing obliges a human, an error or a restart.                         *)
(***************************************************************************)
Progress(r) ==
  \/ CreateRow(r) \/ StartThread(r)
  \/ Pipeline(r)

Fairness ==
  /\ \A r \in Runs : WF_vars(Progress(r))
  /\ \A w \in Workers, i \in Incidents :
       WF_vars(RemediateRefused(w, i) \/ \E r \in Runs : Remediate(w, i, r))

FairSpec == Spec /\ Fairness

(* remediate()'s guard is given back (on_done = _release), so that the     *)
(* incident can be remediated again, unless the dispatching call raised    *)
(* before there was a thread to give it back.                              *)
GuardIsReleased ==
  \A w \in Workers, i \in Incidents :
    i \in guard[w] ~>
      \/ i \notin guard[w]
      \/ \E r \in Runs : pc[r] = "wedged" /\ WorksOn(r, w, i)

(* A run's row does not stay "running": it ends done or failed, unless the *)
(* process was restarted under it or the database refused a write.         *)
RunIsRecorded ==
  \A r \in Runs :
    wf[r] = "running" ~> \/ wf[r] \in {"done", "failed"}
                          \/ pc[r] = "killed"
                          \/ dbErrors > 0

(* README.md:89-90: an incident is resolved when a merged remediation      *)
(* ships.  Once production runs the fix of a run that is past the gate,    *)
(* whoever merged and shipped it, the incident is resolved, whatever       *)
(* humans do to its row meanwhile, unless a later deployment takes the fix *)
(* out of production or a restart or a database error gets in between.     *)
(* (The loop also resolves when its merge or its deployment failed         *)
(* (service.py:689-700): nothing is asked of it in those cases.)           *)
ShippedFixResolves ==
  \A i \in Incidents, r \in Runs :
    pc[r] \in PastGate \ {"closeTicket"} /\ target[r] = i /\ r \in shipped ~>
      \/ status[i] = "resolved" \/ r \notin shipped
      \/ pc[r] = "killed" \/ dbErrors > 0
=============================================================================
