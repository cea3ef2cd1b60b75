------------------------- MODULE RemediationProofs -------------------------
(***************************************************************************)
(* Theorems about Remediation, for any number of processes, incidents and  *)
(* runs, any number of database errors and restarts, and every setting.    *)
(***************************************************************************)
EXTENDS Remediation, TLAPS

USE DEF ticketVars, runVars, mergeVars, prVars, bounds, Goto, SetStatus, DbError

LEMMA StagesAreStages ==
  /\ DispatchStages \subseteq Holding
  /\ BodyStages \subseteq Holding
  /\ RecordStages \subseteq Holding
  /\ Holding \subseteq Stages
  /\ "temporal" \in Holding /\ "wedged" \in Holding
  /\ {"idle", "ended", "killed"} \subseteq Stages \ Holding
BY DEF DispatchStages, BodyStages, RecordStages, ThreadStages, Holding, Stages

LEMMA HookFacts ==
  /\ \A h \in HookStages :
       /\ h \in BodyStages
       /\ HookStatus[h] \in {"todo", "in_progress", "done"}
       /\ AfterHook[h] \in {"worktree", "ci", "saveDone"}
       /\ AfterHook[h] \in Holding
BY DEF HookStages, HookStatus, AfterHook, BodyStages, RecordStages, ThreadStages, Holding

LEMMA TypeInit == Init => TypeOK
BY DEF Init, TypeOK, Stages

LEMMA TypeIncidents ==
  ASSUME TypeOK, NEW w \in Workers, NEW i \in Incidents,
         \/ OpenIncident(w, i)
         \/ OpenIncidentRaises(i)
         \/ AskRemediate(w, i)
         \/ HumanAck(i)
         \/ HumanResolve(i)
         \/ HumanReopen(i)
         \/ RemediateRefused(w, i)
  PROVE  TypeOK'
<1>1. CASE OpenIncident(w, i)
  BY <1>1 DEF TypeOK, OpenIncident, CallsRemediate
<1>2. CASE OpenIncidentRaises(i)
  BY <1>2 DEF TypeOK, OpenIncidentRaises
<1>3. CASE AskRemediate(w, i)
  BY <1>3 DEF TypeOK, AskRemediate
<1>4. CASE HumanAck(i)
  BY <1>4 DEF TypeOK, HumanAck
<1>5. CASE HumanResolve(i)
  BY <1>5 DEF TypeOK, HumanResolve
<1>6. CASE HumanReopen(i)
  BY <1>6 DEF TypeOK, HumanReopen
<1>7. CASE RemediateRefused(w, i)
  BY <1>7 DEF TypeOK, RemediateRefused
<1> QED
  BY <1>1, <1>2, <1>3, <1>4, <1>5, <1>6, <1>7

LEMMA TypeDispatch ==
  ASSUME TypeOK, NEW r \in Runs,
         \/ CreateRow(r)
         \/ StartThread(r)
         \/ DispatchRaises(r)
         \/ TemporalFallsBack(r)
         \/ TemporalFallbackRaises(r)
  PROVE  TypeOK'
<1>1. CASE CreateRow(r)
  BY <1>1 DEF TypeOK, CreateRow,
         Stages, Holding, DispatchStages, ThreadStages, BodyStages, RecordStages
<1>2. CASE StartThread(r)
  BY <1>2 DEF TypeOK, StartThread,
         Stages, Holding, DispatchStages, ThreadStages, BodyStages, RecordStages
<1>3. CASE DispatchRaises(r)
  BY <1>3 DEF TypeOK, DispatchRaises,
         Stages, Holding, DispatchStages, ThreadStages, BodyStages, RecordStages
<1>4. CASE TemporalFallsBack(r)
  BY <1>4 DEF TypeOK, TemporalFallsBack,
         Stages, Holding, DispatchStages, ThreadStages, BodyStages, RecordStages
<1>5. CASE TemporalFallbackRaises(r)
  BY <1>5 DEF TypeOK, TemporalFallbackRaises,
         Stages, Holding, DispatchStages, ThreadStages, BodyStages, RecordStages
<1> QED
  BY <1>1, <1>2, <1>3, <1>4, <1>5

LEMMA TypeStages ==
  ASSUME TypeOK, NEW r \in Runs,
         \/ Acknowledge(r)
         \/ SetRemediating(r)
         \/ CreateWorktree(r)
         \/ AgentOpensPr(r)
         \/ AgentEndsWithoutPr(r)
         \/ AgentOrphansPr(r)
         \/ StartCi(r)
         \/ \E result \in {"passed", "failed"} : FinishCi(r, result)
         \/ MergeGate(r)
         \/ \E ok \in BOOLEAN : LoopDeploy(r, ok)
         \/ LoopResolve(r)
         \/ PipelineRaises(r)
  PROVE  TypeOK'
<1>1. CASE Acknowledge(r)
  BY <1>1 DEF TypeOK, Acknowledge, SetStatus,
         Stages, Holding, DispatchStages, ThreadStages, BodyStages, RecordStages
<1>2. CASE SetRemediating(r)
  BY <1>2 DEF TypeOK, SetRemediating,
         Stages, Holding, DispatchStages, ThreadStages, BodyStages, RecordStages
<1>3. CASE CreateWorktree(r)
  BY <1>3 DEF TypeOK, CreateWorktree,
         Stages, Holding, DispatchStages, ThreadStages, BodyStages, RecordStages
<1>4. CASE AgentOpensPr(r)
  BY <1>4 DEF TypeOK, AgentOpensPr,
         Stages, Holding, DispatchStages, ThreadStages, BodyStages, RecordStages
<1>5. CASE AgentEndsWithoutPr(r)
  BY <1>5 DEF TypeOK, AgentEndsWithoutPr,
         Stages, Holding, DispatchStages, ThreadStages, BodyStages, RecordStages
<1>6. CASE AgentOrphansPr(r)
  BY <1>6 DEF TypeOK, AgentOrphansPr,
         Stages, Holding, DispatchStages, ThreadStages, BodyStages, RecordStages
<1>7. CASE StartCi(r)
  BY <1>7 DEF TypeOK, StartCi,
         Stages, Holding, DispatchStages, ThreadStages, BodyStages, RecordStages
<1>8. CASE \E result \in {"passed", "failed"} : FinishCi(r, result)
  BY <1>8 DEF TypeOK, FinishCi,
         Stages, Holding, DispatchStages, ThreadStages, BodyStages, RecordStages
<1>9. CASE MergeGate(r)
  BY <1>9 DEF TypeOK, MergeGate,
         Stages, Holding, DispatchStages, ThreadStages, BodyStages, RecordStages
<1>10. CASE \E ok \in BOOLEAN : LoopDeploy(r, ok)
  BY <1>10 DEF TypeOK, LoopDeploy, DeployProduction,
         Stages, Holding, DispatchStages, ThreadStages, BodyStages, RecordStages
<1>11. CASE LoopResolve(r)
  BY <1>11 DEF TypeOK, LoopResolve,
         Stages, Holding, DispatchStages, ThreadStages, BodyStages, RecordStages
<1>12. CASE PipelineRaises(r)
  BY <1>12 DEF TypeOK, PipelineRaises,
         Stages, Holding, DispatchStages, ThreadStages, BodyStages, RecordStages
<1> QED
  BY <1>1, <1>2, <1>3, <1>4, <1>5, <1>6, <1>7, <1>8, <1>9, <1>10, <1>11, <1>12

LEMMA TypeMerges ==
  ASSUME TypeOK, NEW r \in Runs,
         \/ LoopMerge(r)
         \/ LoopMergeSaves(r)
         \/ LoopMergeFails(r)
         \/ LoopMergeRaises(r)
  PROVE  TypeOK'
<1>1. CASE LoopMerge(r)
  BY <1>1 DEF TypeOK, LoopMerge, GitMerged,
         Stages, Holding, DispatchStages, ThreadStages, BodyStages, RecordStages
<1>2. CASE LoopMergeFails(r)
  BY <1>2 DEF TypeOK, LoopMergeFails,
         Stages, Holding, DispatchStages, ThreadStages, BodyStages, RecordStages
<1>3. CASE LoopMergeRaises(r)
  BY <1>3 DEF TypeOK, LoopMergeRaises, MergeRaises, MergeRecorded, ClosesTickets,
         Stages, Holding, DispatchStages, ThreadStages, BodyStages, RecordStages
<1>4. CASE LoopMergeSaves(r)
  BY <1>4 DEF TypeOK, LoopMergeSaves, MergeReturns, MergeRecorded, ClosesTickets,
         Stages, Holding, DispatchStages, ThreadStages, BodyStages, RecordStages
<1> QED
  BY <1>1, <1>2, <1>3, <1>4

LEMMA TypeHumanMerges ==
  ASSUME TypeOK, NEW w \in Workers, NEW r \in Runs,
         \/ HumanMerge(w, r)
         \/ HumanMergeSaves(w, r)
         \/ HumanMergeRaises(w, r)
  PROVE  TypeOK'
<1>1. CASE HumanMerge(w, r)
  BY <1>1 DEF TypeOK, HumanMerge, GitMerged
<1>2. CASE HumanMergeSaves(w, r)
  BY <1>2 DEF TypeOK, HumanMergeSaves, MergeReturns, MergeRecorded, ClosesTickets
<1>3. CASE HumanMergeRaises(w, r)
  BY <1>3 DEF TypeOK, HumanMergeRaises, MergeRaises, MergeRecorded, ClosesTickets
<1> QED
  BY <1>1, <1>2, <1>3

LEMMA TypeOutcome ==
  ASSUME TypeOK, NEW r \in Runs,
         \/ RecordDone(r)
         \/ LogDone(r)
         \/ RecordDoneRaises(r)
         \/ RecordFailed(r)
         \/ RecordFailedRaises(r)
         \/ Release(r)
  PROVE  TypeOK'
<1>1. CASE RecordDone(r)
  BY <1>1 DEF TypeOK, RecordDone,
         Stages, Holding, DispatchStages, ThreadStages, BodyStages, RecordStages
<1>2. CASE LogDone(r)
  BY <1>2 DEF TypeOK, LogDone,
         Stages, Holding, DispatchStages, ThreadStages, BodyStages, RecordStages
<1>3. CASE RecordDoneRaises(r)
  BY <1>3 DEF TypeOK, RecordDoneRaises,
         Stages, Holding, DispatchStages, ThreadStages, BodyStages, RecordStages
<1>4. CASE RecordFailed(r)
  BY <1>4 DEF TypeOK, RecordFailed,
         Stages, Holding, DispatchStages, ThreadStages, BodyStages, RecordStages
<1>5. CASE RecordFailedRaises(r)
  BY <1>5 DEF TypeOK, RecordFailedRaises,
         Stages, Holding, DispatchStages, ThreadStages, BodyStages, RecordStages
<1>6. CASE Release(r)
  BY <1>6 DEF TypeOK, Release,
         Stages, Holding, DispatchStages, ThreadStages, BodyStages, RecordStages
<1> QED
  BY <1>1, <1>2, <1>3, <1>4, <1>5, <1>6

LEMMA TypeServer ==
  ASSUME TypeOK, NEW r \in Runs, NEW w \in Workers,
         \/ \E i \in Incidents : Remediate(w, i, r)
         \/ RerunCi(w, r)
         \/ \E result \in {"passed", "failed"} : FinishRerun(w, r, result)
         \/ \E ok \in BOOLEAN : MaybeRedeploy(w, r, ok)
  PROVE  TypeOK'
<1>1. CASE \E i \in Incidents : Remediate(w, i, r)
  BY <1>1 DEF TypeOK, Remediate,
         Stages, Holding, DispatchStages, ThreadStages, BodyStages, RecordStages
<1>3. CASE RerunCi(w, r)
  BY <1>3 DEF TypeOK, RerunCi
<1>4. CASE \E result \in {"passed", "failed"} : FinishRerun(w, r, result)
  BY <1>4 DEF TypeOK, FinishRerun
<1>5. CASE \E ok \in BOOLEAN : MaybeRedeploy(w, r, ok)
  BY <1>5 DEF TypeOK, MaybeRedeploy, DeployProduction
<1> QED
  BY <1>1, <1>3, <1>4, <1>5

LEMMA TypeRestart ==
  ASSUME TypeOK, NEW w \in Workers, Restart(w)
  PROVE  TypeOK'
<1>1. pc' \in [Runs -> Stages] /\ creating' \in [Runs -> BOOLEAN]
  BY StagesAreStages DEF TypeOK, Restart
<1>2. \A s \in Runs : pc'[s] # "idle" => worker'[s] \in Workers
                                       /\ target'[s] \in Incidents
  BY StagesAreStages DEF TypeOK, Restart
<1>3. guard' \in [Workers -> SUBSET Incidents]
  BY DEF TypeOK, Restart
<1>4. /\ requests' \subseteq Workers \X Incidents
      /\ merging' \subseteq Workers \X Runs
      /\ unrecorded' \subseteq Runs
      /\ redeploys' \subseteq Workers \X Runs
      /\ rerunning' \subseteq Workers \X Runs
  BY DEF TypeOK, Restart, Unsaved
<1>5. /\ restarts' \in Nat
      /\ UNCHANGED <<status, runVars, ticketVars, pr, ci, base, shipped,
                     dbErrors, reruns>>
  BY DEF TypeOK, Restart
<1>. QED
  BY <1>1, <1>2, <1>3, <1>4, <1>5 DEF TypeOK

LEMMA TypeTickets ==
  ASSUME TypeOK, NEW r \in Runs,
         \/ TicketNotFound(r) \/ TicketUpdated(r) \/ TicketCreated(r)
         \/ TicketHookFails(r)
  PROVE  TypeOK'
<1>. /\ pc[r] \in HookStages
     /\ worker[r] \in Workers /\ target[r] \in Incidents
     /\ HookStatus[pc[r]] \in {"todo", "in_progress", "done"}
     /\ AfterHook[pc[r]] \in Stages
  BY HookFacts, StagesAreStages
     DEF TypeOK, HookStages, TicketNotFound, TicketUpdated, TicketCreated,
         TicketHookFails
<1>1. CASE TicketNotFound(r)
  BY <1>1 DEF TypeOK, TicketNotFound
<1>2. CASE TicketUpdated(r)
  BY <1>2 DEF TypeOK, TicketUpdated, LinkedPr
<1>3. CASE TicketCreated(r)
  BY <1>3 DEF TypeOK, TicketCreated, LinkedPr
<1>4. CASE TicketHookFails(r)
  BY <1>4 DEF TypeOK, TicketHookFails
<1>. QED
  BY <1>1, <1>2, <1>3, <1>4


(* Every value stays of its kind, whatever the setting.                    *)
THEOREM TypeCorrect == Spec => []TypeOK
<1>1. TypeOK /\ [Next]_vars => TypeOK'
  <2>. SUFFICES ASSUME TypeOK, [Next]_vars PROVE TypeOK'
    OBVIOUS
  <2>1. ASSUME NEW r \in Runs, Dispatch(r) \/ Pipeline(r) PROVE TypeOK'
    BY <2>1, TypeDispatch, TypeStages, TypeTickets, TypeMerges, TypeOutcome
       DEF Dispatch, Pipeline
  <2>2. ASSUME NEW w \in Workers, Human(w) PROVE TypeOK'
    BY <2>2, TypeIncidents, TypeHumanMerges, TypeServer DEF Human
  <2>3. ASSUME NEW w \in Workers, Server(w) PROVE TypeOK'
    BY <2>3, TypeIncidents, TypeHumanMerges, TypeServer, TypeRestart DEF Server
  <2>4. CASE UNCHANGED vars
    BY <2>4 DEF vars, TypeOK
  <2>. QED
    BY <2>1, <2>2, <2>3, <2>4 DEF Next
<1>. QED
  BY TypeInit, <1>1, PTL DEF Spec

----------------------------------------------------------------------------
(***************************************************************************)
(* The guard.  Seen from the guard and the runs at work, a step is one of  *)
(* five: nothing moves, a run at work advances, a run is dispatched, a run *)
(* releases its guard, a process restarts.                                 *)
(***************************************************************************)
Still == UNCHANGED <<pc, guard, worker, target>>

Advances(r) ==
  /\ pc[r] \in Holding
  /\ \E s \in Holding : pc' = [pc EXCEPT ![r] = s]
  /\ UNCHANGED <<guard, worker, target>>

LEMMA DispatchAdvances ==
  ASSUME TypeOK, NEW r \in Runs, Dispatch(r)
  PROVE  Advances(r)
BY DEF Dispatch, CreateRow, StartThread, DispatchRaises, Advances,
       Holding, DispatchStages, ThreadStages, BodyStages, RecordStages

LEMMA PipelineAdvances ==
  ASSUME TypeOK, NEW r \in Runs, Pipeline(r)
  PROVE  Still \/ Advances(r) \/ Release(r)
<1>1. CASE TemporalFallsBack(r) \/ TemporalFallbackRaises(r)
  BY <1>1 DEF TemporalFallsBack, TemporalFallbackRaises, Advances, Holding,
              ThreadStages, BodyStages, RecordStages
<1>2. CASE Acknowledge(r) \/ SetRemediating(r) \/ CreateWorktree(r)
  BY <1>2 DEF Acknowledge, SetRemediating, CreateWorktree, Advances, Holding,
              ThreadStages, BodyStages, RecordStages
<1>3. CASE TicketNotFound(r)
  BY <1>3 DEF TicketNotFound, Still
<1>4. CASE TicketUpdated(r) \/ TicketCreated(r) \/ TicketHookFails(r)
  BY <1>4, HookFacts, StagesAreStages
     DEF TicketUpdated, TicketCreated, TicketHookFails, Advances
<1>5. CASE AgentOpensPr(r) \/ AgentEndsWithoutPr(r) \/ AgentOrphansPr(r)
  BY <1>5 DEF AgentOpensPr, AgentEndsWithoutPr, AgentOrphansPr, Advances,
              Holding, ThreadStages, BodyStages, RecordStages
<1>6. CASE \/ StartCi(r) \/ MergeGate(r)
           \/ \E result \in {"passed", "failed"} : FinishCi(r, result)
  BY <1>6 DEF StartCi, FinishCi, MergeGate, Advances, Holding, ThreadStages,
              BodyStages, RecordStages
<1>7. CASE \/ LoopMerge(r) \/ LoopMergeSaves(r)
           \/ LoopMergeFails(r) \/ LoopMergeRaises(r)
  BY <1>7 DEF LoopMerge, LoopMergeSaves, LoopMergeFails, LoopMergeRaises, Advances, Holding,
              ThreadStages, BodyStages, RecordStages
<1>8. CASE \/ \E ok \in BOOLEAN : LoopDeploy(r, ok)
           \/ LoopResolve(r) \/ PipelineRaises(r)
  BY <1>8 DEF LoopDeploy, LoopResolve, PipelineRaises, Advances, Holding,
              ThreadStages, BodyStages, RecordStages
<1>9. CASE \/ RecordDone(r) \/ LogDone(r) \/ RecordDoneRaises(r)
           \/ RecordFailed(r) \/ RecordFailedRaises(r)
  BY <1>9 DEF RecordDone, LogDone, RecordDoneRaises, RecordFailed,
              RecordFailedRaises, Advances, Holding, ThreadStages, RecordStages
<1>. QED
  BY <1>1, <1>2, <1>3, <1>4, <1>5, <1>6, <1>7, <1>8, <1>9 DEF Pipeline

LEMMA HumanStill ==
  ASSUME NEW w \in Workers, Human(w)
  PROVE  Still
BY DEF Human, AskRemediate, HumanAck, HumanResolve, HumanReopen, HumanMerge,
       RerunCi, Still

LEMMA ServerShape ==
  ASSUME NEW w \in Workers, Server(w)
  PROVE  \/ Still
         \/ \E i \in Incidents, r \in Runs : Remediate(w, i, r)
         \/ Restart(w)
BY DEF Server, OpenIncident, OpenIncidentRaises, RemediateRefused,
       HumanMergeSaves, HumanMergeRaises, MaybeRedeploy, FinishRerun, Still

LEMMA StepShape ==
  ASSUME TypeOK, [Next]_vars
  PROVE  \/ Still
         \/ \E r \in Runs : Advances(r) \/ Release(r)
         \/ \E w \in Workers, i \in Incidents, r \in Runs : Remediate(w, i, r)
         \/ \E w \in Workers : Restart(w)
<1>1. CASE UNCHANGED vars
  BY <1>1 DEF vars, Still
<1>. QED
  BY <1>1, DispatchAdvances, PipelineAdvances, HumanStill, ServerShape DEF Next

GuardInv == GuardAccounted /\ OnePipelinePerWorker

LEMMA GuardInit == Init => GuardInv
BY DEF Init, GuardInv, GuardAccounted, OnePipelinePerWorker, WorksOn, Holding,
       DispatchStages, ThreadStages, BodyStages, RecordStages

LEMMA GuardStep == TypeOK /\ GuardInv /\ [Next]_vars => GuardInv'
<1>. SUFFICES ASSUME TypeOK, GuardInv, [Next]_vars PROVE GuardInv'
  OBVIOUS
<1>1. CASE Still
  BY <1>1 DEF Still, GuardInv, GuardAccounted, OnePipelinePerWorker, WorksOn
<1>2. ASSUME NEW r \in Runs, Advances(r) PROVE GuardInv'
  BY <1>2 DEF TypeOK, Advances, GuardInv, GuardAccounted, OnePipelinePerWorker,
              WorksOn
<1>3. ASSUME NEW r \in Runs, Release(r) PROVE GuardInv'
  <2>1. pc[r] \in Holding /\ pc'[r] \notin Holding /\ worker[r] \in Workers
    BY <1>3 DEF TypeOK, Release, Stages, Holding, DispatchStages, ThreadStages,
                BodyStages, RecordStages
  <2>2. OnePipelinePerWorker'
    BY <1>3, <2>1 DEF TypeOK, Release, GuardInv, OnePipelinePerWorker
  <2>3. GuardAccounted'
    BY <1>3, <2>1
       DEF TypeOK, Release, GuardInv, GuardAccounted, OnePipelinePerWorker,
           WorksOn
  <2>. QED
    BY <2>2, <2>3 DEF GuardInv
<1>4. ASSUME NEW w \in Workers, NEW i \in Incidents, NEW r \in Runs,
             Remediate(w, i, r)
      PROVE  GuardInv'
  <2>1. pc[r] \notin Holding /\ pc'[r] \in Holding
    BY <1>4 DEF TypeOK, Remediate, Holding, DispatchStages, ThreadStages,
                BodyStages, RecordStages
  <2>2. \A s \in Runs : ~WorksOn(s, w, i)
    BY <1>4 DEF Remediate, IsRemediating, GuardInv, GuardAccounted
  <2>3. OnePipelinePerWorker'
    BY <1>4, <2>1, <2>2
       DEF TypeOK, Remediate, GuardInv, OnePipelinePerWorker, WorksOn
  <2>4. GuardAccounted'
    BY <1>4, <2>1, <2>2 DEF TypeOK, Remediate, GuardInv, GuardAccounted, WorksOn
  <2>. QED
    BY <2>3, <2>4 DEF GuardInv
<1>5. ASSUME NEW w \in Workers, Restart(w) PROVE GuardInv'
  <2>1. \A r \in Runs : pc'[r] \in Holding
                        <=> pc[r] \in Holding /\ worker[r] # w
    BY <1>5, StagesAreStages DEF TypeOK, Restart
  <2>2. OnePipelinePerWorker'
    BY <1>5, <2>1 DEF Restart, GuardInv, OnePipelinePerWorker
  <2>3. GuardAccounted'
    BY <1>5, <2>1 DEF TypeOK, Restart, GuardInv, GuardAccounted, WorksOn
  <2>. QED
    BY <2>2, <2>3 DEF GuardInv
<1>. QED
  BY <1>1, <1>2, <1>3, <1>4, <1>5, StepShape

(* The guard of each process holds exactly the incidents its runs are at   *)
(* work on, and no two of its runs are at work on the same one.            *)
THEOREM GuardCorrect == Spec => [](GuardAccounted /\ OnePipelinePerWorker)
<1>. QED
  BY TypeCorrect, GuardInit, GuardStep, PTL DEF Spec, GuardInv

----------------------------------------------------------------------------
(***************************************************************************)
(* The guard implements single flight.                                     *)
(***************************************************************************)
Spent == {r \in Runs : pc[r] # "idle"}

LEMMA FlightInit == Init => Flight!Init
BY DEF Init, Flight!Init, Flights, Holding, DispatchStages, ThreadStages,
       BodyStages, RecordStages

LEMMA FlightStep ==
  TypeOK /\ GuardInv /\ [Next]_vars => [Flight!Next]_(Flight!vars)
<1>. SUFFICES ASSUME TypeOK, GuardInv, [Next]_vars
              PROVE  Flight!Next \/ UNCHANGED <<Flights, Spent>>
  BY DEF Flight!vars, Spent
<1>1. CASE Still
  BY <1>1 DEF Still, Flights, Spent
<1>2. ASSUME NEW r \in Runs, Advances(r) PROVE UNCHANGED <<Flights, Spent>>
  <2>1. /\ \A s \in Runs : pc'[s] \in Holding <=> pc[s] \in Holding
        /\ \A s \in Runs : pc'[s] # "idle" <=> pc[s] # "idle"
    BY <1>2, StagesAreStages DEF TypeOK, Advances
  <2>. QED
    BY <1>2, <2>1 DEF Advances, Flights, Spent
<1>3. ASSUME NEW r \in Runs, Release(r) PROVE Flight!Next
  <2>. DEFINE f == <<worker[r], target[r], r>>
  <2>1. pc[r] \in Holding /\ pc' = [pc EXCEPT ![r] = "ended"]
    BY <1>3 DEF Release, Holding, ThreadStages, RecordStages
  <2>2. /\ \A s \in Runs : pc'[s] \in Holding <=> pc[s] \in Holding /\ s # r
        /\ \A s \in Runs : pc'[s] # "idle" <=> pc[s] # "idle"
    BY <2>1, StagesAreStages DEF TypeOK
  <2>3. f \in Flights /\ Flights' = Flights \ {f} /\ Spent' = Spent
    BY <1>3, <2>1, <2>2 DEF Release, Flights, Spent
  <2>. QED
    BY <2>3 DEF Flight!Next, Flight!Land, Spent
<1>4. ASSUME NEW w \in Workers, NEW i \in Incidents, NEW r \in Runs,
             Remediate(w, i, r)
      PROVE  Flight!Next
  <2>1. ~ \E s \in Runs : WorksOn(s, w, i)
    BY <1>4 DEF Remediate, IsRemediating, GuardInv, GuardAccounted
  <2>2. ~Flight!InFlight(w, i) /\ r \notin Spent
    BY <1>4, <2>1 DEF Remediate, WorksOn, Flight!InFlight, Flights, Spent
  <2>3. /\ pc' = [pc EXCEPT ![r] = "entered"] /\ "entered" \in Holding
        /\ pc[r] = "idle" /\ "idle" \notin Holding
    BY <1>4, StagesAreStages DEF Remediate, DispatchStages
  <2>4. Flights' = Flights \union {<<w, i, r>>}
    BY <1>4, <2>3 DEF TypeOK, Remediate, Flights
  <2>5. Spent' = Spent \union {r}
    BY <2>3 DEF TypeOK, Spent
  <2>. QED
    BY <2>2, <2>4, <2>5 DEF Flight!Next, Flight!Start, Spent
<1>5. ASSUME NEW w \in Workers, Restart(w) PROVE Flight!Next
  <2>1. /\ \A r \in Runs : pc'[r] \in Holding
                           <=> pc[r] \in Holding /\ worker[r] # w
        /\ \A r \in Runs : pc'[r] # "idle" <=> pc[r] # "idle"
    BY <1>5, StagesAreStages DEF TypeOK, Restart
  <2>2. Flights' = {f \in Flights : f[1] # w} /\ Spent' = Spent
    BY <1>5, <2>1 DEF Restart, Flights, Spent
  <2>. QED
    BY <2>2 DEF Flight!Next, Flight!Crash, Spent
<1>. QED
  BY <1>1, <1>2, <1>3, <1>4, <1>5, StepShape DEF Flight!vars

(* Seen through the threads at work, the code is a SingleFlight: a process *)
(* never flies two remediations of one incident, and a run never restarts. *)
THEOREM FlightCorrect == Spec => ImplementsSingleFlight
<1>. QED
  BY TypeCorrect, GuardInit, GuardStep, FlightInit, FlightStep, PTL
     DEF Spec, ImplementsSingleFlight, Flight!Spec

----------------------------------------------------------------------------
(***************************************************************************)
(* The row of a run.                                                       *)
(***************************************************************************)
OutcomeInv ==
  \A r \in Runs :
    /\ pc[r] = "logDone" => wf[r] = "done"
    /\ pc[r] \in {"release", "ended"} /\ wf[r] = "running" => dbErrors > 0

LEMMA OutcomeStep == TypeOK /\ OutcomeInv /\ [Next]_vars => OutcomeInv'
<1>. SUFFICES ASSUME TypeOK, OutcomeInv, [Next]_vars PROVE OutcomeInv'
  OBVIOUS
<1>1. ASSUME NEW r \in Runs, Dispatch(r) \/ Pipeline(r) PROVE OutcomeInv'
  <2>1. CASE Dispatch(r)
    BY <2>1 DEF TypeOK, OutcomeInv, Dispatch, CreateRow, StartThread,
       DispatchRaises, DispatchStages
  <2>2. CASE TemporalFallsBack(r) \/ TemporalFallbackRaises(r)
    BY <2>2 DEF TypeOK, OutcomeInv, TemporalFallsBack, TemporalFallbackRaises
  <2>3. CASE Acknowledge(r) \/ SetRemediating(r) \/ CreateWorktree(r)
    BY <2>3 DEF TypeOK, OutcomeInv, Acknowledge, SetStatus,
       SetRemediating, CreateWorktree
  <2>4. CASE \/ TicketNotFound(r) \/ TicketUpdated(r)
           \/ TicketCreated(r) \/ TicketHookFails(r)
    BY <2>4, HookFacts DEF TypeOK, OutcomeInv, TicketNotFound, TicketUpdated,
       TicketCreated, TicketHookFails, HookStages
  <2>5. CASE AgentOpensPr(r) \/ AgentEndsWithoutPr(r) \/ AgentOrphansPr(r)
    BY <2>5 DEF TypeOK, OutcomeInv, AgentOpensPr, AgentEndsWithoutPr,
       AgentOrphansPr
  <2>6. CASE \/ StartCi(r) \/ MergeGate(r)
           \/ \E result \in {"passed", "failed"} : FinishCi(r, result)
    BY <2>6 DEF TypeOK, OutcomeInv, StartCi, FinishCi, MergeGate
  <2>7. CASE \/ LoopMerge(r) \/ LoopMergeSaves(r)
           \/ LoopMergeFails(r) \/ LoopMergeRaises(r)
    BY <2>7 DEF TypeOK, OutcomeInv, LoopMerge, LoopMergeSaves, LoopMergeFails,
       LoopMergeRaises, MergeReturns, MergeRaises, MergeRecorded, GitMerged,
       ClosesTickets
  <2>8. CASE \/ \E ok \in BOOLEAN : LoopDeploy(r, ok)
           \/ LoopResolve(r) \/ PipelineRaises(r)
    BY <2>8 DEF TypeOK, OutcomeInv, LoopDeploy, DeployProduction, LoopResolve,
       PipelineRaises, BodyStages
  <2>9. CASE \/ RecordDone(r) \/ LogDone(r) \/ RecordDoneRaises(r)
           \/ RecordFailed(r) \/ RecordFailedRaises(r) \/ Release(r)
    BY <2>9 DEF TypeOK, OutcomeInv, RecordDone, LogDone, RecordDoneRaises,
       RecordFailed, RecordFailedRaises, Release
  <2>. QED
    BY <1>1, <2>1, <2>2, <2>3, <2>4, <2>5, <2>6, <2>7, <2>8, <2>9 DEF Pipeline
<1>2. ASSUME NEW w \in Workers, Human(w) PROVE OutcomeInv'
  BY <1>2 DEF TypeOK, OutcomeInv, Human, AskRemediate, HumanAck, HumanResolve,
     HumanReopen, HumanMerge, GitMerged,
     RerunCi
<1>3. ASSUME NEW w \in Workers, Server(w) PROVE OutcomeInv'
  <2>1. ASSUME NEW i \in Incidents,
              OpenIncident(w, i) \/ OpenIncidentRaises(i) \/ RemediateRefused(w, i)
       PROVE  OutcomeInv'
    BY <2>1 DEF TypeOK, OutcomeInv, OpenIncident, OpenIncidentRaises,
       CallsRemediate, RemediateRefused
  <2>2. ASSUME NEW i \in Incidents, NEW r \in Runs, Remediate(w, i, r)
       PROVE  OutcomeInv'
    BY <2>2 DEF TypeOK, OutcomeInv, Remediate
  <2>3. ASSUME NEW r \in Runs, NEW ok \in BOOLEAN, MaybeRedeploy(w, r, ok)
       PROVE  OutcomeInv'
    BY <2>3 DEF TypeOK, OutcomeInv, MaybeRedeploy, DeployProduction
  <2>4. ASSUME NEW r \in Runs, NEW result \in {"passed", "failed"},
              FinishRerun(w, r, result)
       PROVE  OutcomeInv'
    BY <2>4 DEF TypeOK, OutcomeInv, FinishRerun
  <2>5. ASSUME Restart(w)
       PROVE  OutcomeInv'
    BY <2>5, StagesAreStages DEF TypeOK, OutcomeInv, Restart
  <2>6. ASSUME NEW r \in Runs,
              HumanMergeSaves(w, r) \/ HumanMergeRaises(w, r)
       PROVE  OutcomeInv'
    BY <2>6 DEF TypeOK, OutcomeInv,
       HumanMergeSaves, HumanMergeRaises, MergeReturns, MergeRaises,
       MergeRecorded, ClosesTickets
  <2>. QED
    BY <1>3, <2>1, <2>2, <2>3, <2>4, <2>5, <2>6 DEF Server
<1>4. CASE UNCHANGED vars
  BY <1>4 DEF vars, OutcomeInv
<1>. QED
  BY <1>1, <1>2, <1>3, <1>4 DEF Next

(* A finished run has left its outcome in its row, unless the database     *)
(* refused a write.                                                        *)
THEOREM OutcomeCorrect == Spec => []OutcomeRecorded
<1>1. Init => OutcomeInv
  BY DEF Init, OutcomeInv
<1>2. OutcomeInv => OutcomeRecorded
  BY DEF OutcomeInv, OutcomeRecorded
<1>. QED
  BY TypeCorrect, OutcomeStep, <1>1, <1>2, PTL DEF Spec

----------------------------------------------------------------------------
(***************************************************************************)
(* The merge gate.                                                         *)
(***************************************************************************)
EarlyStages == {"idle", "entered", "created", "temporal", "ack", "remediating",
                "fileTicket", "worktree", "agent"}
PrStages    == {"linkTicket", "ci", "ciRunning", "gate"} \union PastGate

(* A run has no pull request before its agent ended, and one from then on  *)
(* as long as it is in the pipeline.                                       *)
PrInv ==
  \A r \in Runs :
    /\ pc[r] \in EarlyStages => pr[r] = "none"
    /\ pc[r] \in PrStages => pr[r] # "none"
    /\ r \in base \union shipped \union unrecorded => pr[r] # "none"
    /\ \A w \in Workers : <<w, r>> \in merging => pr[r] # "none"

GateInv ==
  /\ rerunning # {} => reruns > 0
  /\ \A r \in Runs :
       /\ pc[r] \in {"gate"} \union PastGate => ci[r] = "passed" \/ reruns > 0
       /\ pc[r] \in PastGate => AutoMerge

LiveInv ==
  \A r \in base \union shipped :
    pr[r] = "merged" \/ Recording(r) \/ r \in unrecorded

ClosedInv ==
  ~AutoMerge /\ "merge" \notin Buttons =>
    base = {} /\ merging = {} /\ shipped = {} /\ redeploys = {}

LEMMA PrStep == TypeOK /\ PrInv /\ [Next]_vars => PrInv'
<1>. SUFFICES ASSUME TypeOK, PrInv, [Next]_vars PROVE PrInv'
  OBVIOUS
<1>1. ASSUME NEW r \in Runs, Dispatch(r) \/ Pipeline(r) PROVE PrInv'
  <2>1. CASE Dispatch(r)
    BY <2>1 DEF TypeOK, PrInv, EarlyStages, PrStages, PastGate, Dispatch,
       CreateRow, StartThread, DispatchRaises, DispatchStages
  <2>2. CASE TemporalFallsBack(r) \/ TemporalFallbackRaises(r)
    BY <2>2 DEF TypeOK, PrInv, EarlyStages, PrStages, PastGate,
       TemporalFallsBack, TemporalFallbackRaises
  <2>3. CASE Acknowledge(r) \/ SetRemediating(r) \/ CreateWorktree(r)
    BY <2>3 DEF TypeOK, PrInv, EarlyStages, PrStages, PastGate, Acknowledge,
       SetRemediating, CreateWorktree
  <2>4. CASE \/ TicketNotFound(r) \/ TicketUpdated(r)
           \/ TicketCreated(r) \/ TicketHookFails(r)
    <3>1. /\ AfterHook["fileTicket"] = "worktree"
          /\ AfterHook["linkTicket"] = "ci"
          /\ AfterHook["closeTicket"] = "saveDone"
      BY DEF AfterHook, HookStages
    <3>. QED
      BY <2>4, <3>1 DEF TypeOK, PrInv, EarlyStages, PrStages, PastGate,
         TicketNotFound, TicketUpdated, TicketCreated, TicketHookFails,
         HookStages
  <2>5. CASE AgentOpensPr(r) \/ AgentEndsWithoutPr(r) \/ AgentOrphansPr(r)
    BY <2>5 DEF TypeOK, PrInv, EarlyStages, PrStages, PastGate, AgentOpensPr,
       AgentEndsWithoutPr, AgentOrphansPr
  <2>6. CASE \/ StartCi(r) \/ MergeGate(r)
           \/ \E result \in {"passed", "failed"} : FinishCi(r, result)
    BY <2>6 DEF TypeOK, PrInv, EarlyStages, PrStages, PastGate, StartCi,
       FinishCi, MergeGate
  <2>7. CASE \/ LoopMerge(r) \/ LoopMergeSaves(r)
           \/ LoopMergeFails(r) \/ LoopMergeRaises(r)
    BY <2>7 DEF TypeOK, PrInv, EarlyStages, PrStages, PastGate, LoopMerge, LoopMergeSaves,
       LoopMergeFails, LoopMergeRaises, MergeReturns, MergeRaises,
       MergeRecorded, GitMerged, ClosesTickets
  <2>8. CASE \/ \E ok \in BOOLEAN : LoopDeploy(r, ok)
           \/ LoopResolve(r) \/ PipelineRaises(r)
    BY <2>8 DEF TypeOK, PrInv, EarlyStages, PrStages, PastGate, LoopDeploy,
       DeployProduction, LoopResolve, PipelineRaises, BodyStages
  <2>9. CASE \/ RecordDone(r) \/ LogDone(r) \/ RecordDoneRaises(r)
           \/ RecordFailed(r) \/ RecordFailedRaises(r) \/ Release(r)
    BY <2>9 DEF TypeOK, PrInv, EarlyStages, PrStages, PastGate, RecordDone,
       LogDone, RecordDoneRaises, RecordFailed, RecordFailedRaises, Release
  <2>. QED
    BY <1>1, <2>1, <2>2, <2>3, <2>4, <2>5, <2>6, <2>7, <2>8, <2>9 DEF Pipeline
<1>2. ASSUME NEW w \in Workers, Human(w) PROVE PrInv'
  BY <1>2 DEF TypeOK, PrInv, EarlyStages, PrStages, PastGate, Human,
     AskRemediate, HumanAck, HumanResolve, HumanReopen, HumanMerge, GitMerged, RerunCi
<1>3. ASSUME NEW w \in Workers, Server(w) PROVE PrInv'
  <2>1. ASSUME NEW i \in Incidents,
              OpenIncident(w, i) \/ OpenIncidentRaises(i) \/ RemediateRefused(w, i)
       PROVE  PrInv'
    BY <2>1 DEF TypeOK, PrInv, EarlyStages, PrStages, PastGate, OpenIncident,
       OpenIncidentRaises, CallsRemediate, RemediateRefused
  <2>2. ASSUME NEW i \in Incidents, NEW r \in Runs, Remediate(w, i, r)
       PROVE  PrInv'
    BY <2>2 DEF TypeOK, PrInv, EarlyStages, PrStages, PastGate, Remediate
  <2>3. ASSUME NEW r \in Runs, NEW ok \in BOOLEAN, MaybeRedeploy(w, r, ok)
       PROVE  PrInv'
    BY <2>3 DEF TypeOK, PrInv, EarlyStages, PrStages, PastGate, MaybeRedeploy,
       DeployProduction
  <2>4. ASSUME NEW r \in Runs, NEW result \in {"passed", "failed"},
              FinishRerun(w, r, result)
       PROVE  PrInv'
    BY <2>4 DEF TypeOK, PrInv, EarlyStages, PrStages, PastGate, FinishRerun
  <2>5. ASSUME Restart(w)
       PROVE  PrInv'
    <3>1. \A s \in Runs : /\ pc'[s] \in EarlyStages => pc[s] \in EarlyStages
                          /\ pc'[s] \in PrStages => pc[s] \in PrStages
      BY <2>5 DEF TypeOK, EarlyStages, PrStages, PastGate, Restart
    <3>2. pr' = pr /\ base' = base /\ shipped' = shipped
      BY <2>5 DEF Restart
    <3>3. \A q \in merging' : q \in merging
      BY <2>5 DEF Restart
    <3>4. \A s \in unrecorded' : s \in unrecorded \/ s \in Unsaved(w)
      BY <2>5 DEF Restart
    <3>5. \A s \in Unsaved(w) : pr[s] # "none"
      BY DEF PrInv, PrStages, PastGate, Unsaved
    <3>. SUFFICES ASSUME NEW s \in Runs
                  PROVE  /\ pc'[s] \in EarlyStages => pr'[s] = "none"
                         /\ pc'[s] \in PrStages => pr'[s] # "none"
                         /\ s \in base' \union shipped' \union unrecorded'
                              => pr'[s] # "none"
                         /\ \A v \in Workers :
                              <<v, s>> \in merging' => pr'[s] # "none"
      BY DEF PrInv, EarlyStages, PrStages, PastGate
    <3>6. /\ pc'[s] \in EarlyStages => pr'[s] = "none"
          /\ pc'[s] \in PrStages => pr'[s] # "none"
      BY <3>1, <3>2 DEF PrInv
    <3>7. s \in base' \union shipped' \union unrecorded' => pr'[s] # "none"
      BY <3>2, <3>4, <3>5 DEF PrInv
    <3>8. \A v \in Workers : <<v, s>> \in merging' => pr'[s] # "none"
      BY <3>2, <3>3 DEF PrInv
    <3>. QED
      BY <3>6, <3>7, <3>8
  <2>6. ASSUME NEW r \in Runs,
              HumanMergeSaves(w, r) \/ HumanMergeRaises(w, r)
       PROVE  PrInv'
    BY <2>6 DEF TypeOK, PrInv, EarlyStages, PrStages, PastGate,
       HumanMergeSaves, HumanMergeRaises, MergeReturns, MergeRaises,
       MergeRecorded, ClosesTickets
  <2>. QED
    BY <1>3, <2>1, <2>2, <2>3, <2>4, <2>5, <2>6 DEF Server
<1>4. CASE UNCHANGED vars
  BY <1>4 DEF vars, PrInv, EarlyStages, PrStages, PastGate
<1>. QED
  BY <1>1, <1>2, <1>3, <1>4 DEF Next

LEMMA GateStep == TypeOK /\ GateInv /\ [Next]_vars => GateInv'
<1>. SUFFICES ASSUME TypeOK, GateInv, [Next]_vars PROVE GateInv'
  OBVIOUS
<1>1. ASSUME NEW r \in Runs, Dispatch(r) \/ Pipeline(r) PROVE GateInv'
  <2>1. CASE Dispatch(r)
    BY <2>1 DEF TypeOK, GateInv, PastGate, Dispatch, CreateRow, StartThread,
       DispatchRaises, DispatchStages
  <2>2. CASE TemporalFallsBack(r) \/ TemporalFallbackRaises(r)
    BY <2>2 DEF TypeOK, GateInv, PastGate, TemporalFallsBack,
       TemporalFallbackRaises
  <2>3. CASE Acknowledge(r) \/ SetRemediating(r) \/ CreateWorktree(r)
    BY <2>3 DEF TypeOK, GateInv, PastGate, Acknowledge, SetStatus,
       SetRemediating, CreateWorktree
  <2>4. CASE \/ TicketNotFound(r) \/ TicketUpdated(r)
           \/ TicketCreated(r) \/ TicketHookFails(r)
    BY <2>4, HookFacts DEF TypeOK, GateInv, PastGate, TicketNotFound,
       TicketUpdated, TicketCreated, TicketHookFails, HookStages
  <2>5. CASE AgentOpensPr(r) \/ AgentEndsWithoutPr(r) \/ AgentOrphansPr(r)
    BY <2>5 DEF TypeOK, GateInv, PastGate, AgentOpensPr, AgentEndsWithoutPr,
       AgentOrphansPr
  <2>6. CASE \/ StartCi(r) \/ MergeGate(r)
           \/ \E result \in {"passed", "failed"} : FinishCi(r, result)
    BY <2>6 DEF TypeOK, GateInv, PastGate, StartCi, FinishCi, MergeGate
  <2>7. CASE \/ LoopMerge(r) \/ LoopMergeSaves(r)
           \/ LoopMergeFails(r) \/ LoopMergeRaises(r)
    BY <2>7 DEF TypeOK, GateInv, PastGate, LoopMerge, LoopMergeSaves, LoopMergeFails,
       LoopMergeRaises, MergeReturns, MergeRaises, MergeRecorded, GitMerged,
       ClosesTickets
  <2>8. CASE \/ \E ok \in BOOLEAN : LoopDeploy(r, ok)
           \/ LoopResolve(r) \/ PipelineRaises(r)
    BY <2>8 DEF TypeOK, GateInv, PastGate, LoopDeploy, DeployProduction,
       LoopResolve, PipelineRaises, BodyStages
  <2>9. CASE \/ RecordDone(r) \/ LogDone(r) \/ RecordDoneRaises(r)
           \/ RecordFailed(r) \/ RecordFailedRaises(r) \/ Release(r)
    BY <2>9 DEF TypeOK, GateInv, PastGate, RecordDone, LogDone,
       RecordDoneRaises, RecordFailed, RecordFailedRaises, Release
  <2>. QED
    BY <1>1, <2>1, <2>2, <2>3, <2>4, <2>5, <2>6, <2>7, <2>8, <2>9 DEF Pipeline
<1>2. ASSUME NEW w \in Workers, Human(w) PROVE GateInv'
  BY <1>2 DEF TypeOK, GateInv, PastGate, Human, AskRemediate, HumanAck,
     HumanResolve, HumanReopen, HumanMerge, GitMerged, RerunCi
<1>3. ASSUME NEW w \in Workers, Server(w) PROVE GateInv'
  <2>1. ASSUME NEW i \in Incidents,
              OpenIncident(w, i) \/ OpenIncidentRaises(i) \/ RemediateRefused(w, i)
       PROVE  GateInv'
    BY <2>1 DEF TypeOK, GateInv, PastGate, OpenIncident, OpenIncidentRaises,
       CallsRemediate, RemediateRefused
  <2>2. ASSUME NEW i \in Incidents, NEW r \in Runs, Remediate(w, i, r)
       PROVE  GateInv'
    BY <2>2 DEF TypeOK, GateInv, PastGate, Remediate
  <2>3. ASSUME NEW r \in Runs, NEW ok \in BOOLEAN, MaybeRedeploy(w, r, ok)
       PROVE  GateInv'
    BY <2>3 DEF TypeOK, GateInv, PastGate, MaybeRedeploy, DeployProduction
  <2>4. ASSUME NEW r \in Runs, NEW result \in {"passed", "failed"},
              FinishRerun(w, r, result)
       PROVE  GateInv'
    BY <2>4 DEF TypeOK, GateInv, PastGate, FinishRerun
  <2>5. ASSUME Restart(w)
       PROVE  GateInv'
    BY <2>5, StagesAreStages DEF TypeOK, GateInv, PastGate, Restart
  <2>6. ASSUME NEW r \in Runs,
              HumanMergeSaves(w, r) \/ HumanMergeRaises(w, r)
       PROVE  GateInv'
    BY <2>6 DEF TypeOK, GateInv, PastGate,
       HumanMergeSaves, HumanMergeRaises, MergeReturns, MergeRaises,
       MergeRecorded, ClosesTickets
  <2>. QED
    BY <1>3, <2>1, <2>2, <2>3, <2>4, <2>5, <2>6 DEF Server
<1>4. CASE UNCHANGED vars
  BY <1>4 DEF vars, GateInv, PastGate
<1>. QED
  BY <1>1, <1>2, <1>3, <1>4 DEF Next

(* Most steps leave alone what LiveInv is about: nothing is merged, no row *)
(* of a merged pull request is written, and no save is taken back.         *)
Calm ==
  /\ UNCHANGED mergeVars
  /\ shipped' \subseteq base \union shipped
  /\ \A s \in Runs : /\ s \in base \union shipped => pr'[s] = pr[s]
                     /\ pc[s] = "saveMerged" => pc'[s] = "saveMerged"

LEMMA CalmKeeps == TypeOK /\ LiveInv /\ Calm => LiveInv'
BY DEF TypeOK, LiveInv, Recording, Calm

LEMMA PipelineCalm ==
  ASSUME TypeOK, PrInv, NEW r \in Runs, Dispatch(r) \/ Pipeline(r)
  PROVE  \/ Calm
         \/ LoopMerge(r) \/ LoopMergeSaves(r) \/ LoopMergeRaises(r)
<1>1. CASE Dispatch(r)
  BY <1>1 DEF TypeOK, Calm, Dispatch, CreateRow, StartThread, DispatchRaises,
     DispatchStages
<1>2. CASE TemporalFallsBack(r) \/ TemporalFallbackRaises(r)
  BY <1>2 DEF TypeOK, Calm, TemporalFallsBack, TemporalFallbackRaises
<1>3. CASE Acknowledge(r) \/ SetRemediating(r) \/ CreateWorktree(r)
  BY <1>3 DEF TypeOK, Calm, Acknowledge, SetRemediating, CreateWorktree
<1>4. CASE \/ TicketNotFound(r) \/ TicketUpdated(r)
         \/ TicketCreated(r) \/ TicketHookFails(r)
  BY <1>4 DEF TypeOK, Calm, TicketNotFound, TicketUpdated, TicketCreated,
     TicketHookFails, HookStages
<1>5. CASE AgentOpensPr(r) \/ AgentEndsWithoutPr(r) \/ AgentOrphansPr(r)
  <2>1. pc[r] = "agent" /\ r \notin base \union shipped
    BY <1>5 DEF TypeOK, PrInv, EarlyStages, AgentOpensPr, AgentEndsWithoutPr,
       AgentOrphansPr
  <2>. QED
    BY <1>5, <2>1 DEF TypeOK, Calm, AgentOpensPr, AgentEndsWithoutPr,
       AgentOrphansPr
<1>6. CASE \/ StartCi(r) \/ MergeGate(r)
         \/ \E result \in {"passed", "failed"} : FinishCi(r, result)
  BY <1>6 DEF TypeOK, Calm, StartCi, FinishCi, MergeGate
<1>7. CASE LoopMergeFails(r)
  BY <1>7 DEF TypeOK, Calm, LoopMergeFails
<1>8. CASE \/ \E ok \in BOOLEAN : LoopDeploy(r, ok)
         \/ LoopResolve(r) \/ PipelineRaises(r)
  BY <1>8 DEF TypeOK, Calm, LoopDeploy, DeployProduction, LoopResolve,
     PipelineRaises
<1>9. CASE \/ RecordDone(r) \/ LogDone(r) \/ RecordDoneRaises(r)
         \/ RecordFailed(r) \/ RecordFailedRaises(r) \/ Release(r)
  BY <1>9 DEF TypeOK, Calm, RecordDone, LogDone, RecordDoneRaises,
     RecordFailed, RecordFailedRaises, Release
<1>. QED
  BY <1>1, <1>2, <1>3, <1>4, <1>5, <1>6, <1>7, <1>8, <1>9 DEF Pipeline

LEMMA LiveStep == TypeOK /\ PrInv /\ LiveInv /\ [Next]_vars => LiveInv'
<1>. SUFFICES ASSUME TypeOK, PrInv, LiveInv, [Next]_vars PROVE LiveInv'
  OBVIOUS
<1>1. ASSUME NEW r \in Runs, Dispatch(r) \/ Pipeline(r) PROVE LiveInv'
  <2>1. CASE LoopMerge(r)
    <3>1. \A s \in Runs : Recording(s) => Recording(s)'
      BY <2>1 DEF TypeOK, Recording, LoopMerge, GitMerged
    <3>2. /\ Recording(r)'
          /\ base' = base \union {r}
          /\ UNCHANGED <<shipped, pr, unrecorded>>
      BY <2>1 DEF TypeOK, Recording, LoopMerge, GitMerged
    <3>. QED
      BY <3>1, <3>2 DEF TypeOK, LiveInv, Recording
  <2>2. CASE LoopMergeSaves(r)
    BY <2>2 DEF TypeOK, LiveInv, Recording, LoopMergeSaves, MergeReturns,
       MergeRecorded
  <2>3. CASE LoopMergeRaises(r)
    <3>1. \A s \in Runs \ {r} : Recording(s) => Recording(s)'
      BY <2>3 DEF TypeOK, Recording, LoopMergeRaises
    <3>2. \/ pr' = [pr EXCEPT ![r] = "merged"] /\ unrecorded' = unrecorded
          \/ pr' = pr /\ unrecorded' = unrecorded \union {r}
      BY <2>3 DEF LoopMergeRaises, MergeRaises, MergeRecorded
    <3>3. UNCHANGED <<base, shipped>>
      BY <2>3 DEF LoopMergeRaises, MergeRaises, MergeRecorded
    <3>. QED
      BY <3>1, <3>2, <3>3 DEF TypeOK, LiveInv, Recording
  <2>. QED
    BY <1>1, <2>1, <2>2, <2>3, PipelineCalm, CalmKeeps
<1>2. ASSUME NEW w \in Workers, Human(w) PROVE LiveInv'
  <2>1. ASSUME NEW r \in Runs, HumanMerge(w, r) PROVE LiveInv'
    <3>1. \A s \in Runs : Recording(s) => Recording(s)'
      BY <2>1 DEF TypeOK, Recording, HumanMerge, GitMerged
    <3>2. /\ base' = base \union (IF pr[r] = "merged" THEN {} ELSE {r})
          /\ pr[r] # "merged" => Recording(r)'
          /\ UNCHANGED <<shipped, pr, unrecorded>>
      BY <2>1 DEF TypeOK, Recording, HumanMerge, GitMerged
    <3>. QED
      BY <3>1, <3>2 DEF TypeOK, LiveInv, Recording
  <2>2. CASE \/ \E r \in Runs : RerunCi(w, r)
           \/ \E i \in Incidents : \/ AskRemediate(w, i) \/ HumanAck(i)
                                   \/ HumanResolve(i) \/ HumanReopen(i)
    <3>1. Calm
      BY <2>2 DEF TypeOK, Calm, AskRemediate, HumanAck, HumanResolve,
         HumanReopen, RerunCi
    <3>. QED
      BY <3>1, CalmKeeps
  <2>. QED
    BY <1>2, <2>1, <2>2 DEF Human
<1>3. ASSUME NEW w \in Workers, Server(w) PROVE LiveInv'
  <2>1. ASSUME NEW i \in Incidents,
              OpenIncident(w, i) \/ OpenIncidentRaises(i) \/ RemediateRefused(w, i)
       PROVE  Calm
    BY <2>1 DEF TypeOK, Calm, OpenIncident, OpenIncidentRaises, CallsRemediate,
       RemediateRefused
  <2>2. ASSUME NEW i \in Incidents, NEW r \in Runs, Remediate(w, i, r)
       PROVE  Calm
    BY <2>2 DEF TypeOK, Calm, Remediate
  <2>3. ASSUME NEW r \in Runs, NEW ok \in BOOLEAN, MaybeRedeploy(w, r, ok)
       PROVE  Calm
    BY <2>3 DEF TypeOK, Calm, MaybeRedeploy, DeployProduction
  <2>4. ASSUME NEW r \in Runs, NEW result \in {"passed", "failed"},
              FinishRerun(w, r, result)
       PROVE  Calm
    BY <2>4 DEF TypeOK, Calm, FinishRerun
  <2>5. ASSUME Restart(w)
       PROVE  LiveInv'
    <3>1. \A s \in Runs : Recording(s) => Recording(s)' \/ s \in unrecorded'
      <4>1. ASSUME NEW s \in Runs, pc[s] = "saveMerged"
            PROVE  pc'[s] = "saveMerged" \/ s \in unrecorded'
        BY <2>5, <4>1 DEF TypeOK, Restart, Unsaved
      <4>2. ASSUME NEW s \in Runs, NEW v \in Workers, <<v, s>> \in merging
            PROVE  <<v, s>> \in merging' \/ s \in unrecorded'
        BY <2>5, <4>2 DEF TypeOK, Restart, Unsaved
      <4>. QED
        BY <4>1, <4>2 DEF Recording
    <3>2. /\ unrecorded \subseteq unrecorded'
          /\ UNCHANGED <<base, shipped, pr>>
      BY <2>5 DEF Restart
    <3>. QED
      BY <3>1, <3>2 DEF TypeOK, LiveInv, Recording
  <2>6. ASSUME NEW r \in Runs, HumanMergeSaves(w, r) PROVE LiveInv'
    BY <2>6 DEF TypeOK, LiveInv, Recording, HumanMergeSaves, MergeReturns,
       MergeRecorded
  <2>7. ASSUME NEW r \in Runs, HumanMergeRaises(w, r) PROVE LiveInv'
    <3>1. \A s \in Runs \ {r} : Recording(s) => Recording(s)'
      BY <2>7 DEF TypeOK, Recording, HumanMergeRaises
    <3>2. \/ pr' = [pr EXCEPT ![r] = "merged"] /\ unrecorded' = unrecorded
          \/ pr' = pr /\ unrecorded' = unrecorded \union {r}
      BY <2>7 DEF HumanMergeRaises, MergeRaises, MergeRecorded
    <3>3. UNCHANGED <<base, shipped>>
      BY <2>7 DEF HumanMergeRaises, MergeRaises, MergeRecorded
    <3>. QED
      BY <3>1, <3>2, <3>3 DEF TypeOK, LiveInv, Recording
  <2>. QED
    BY <1>3, <2>1, <2>2, <2>3, <2>4, <2>5, <2>6, <2>7, CalmKeeps DEF Server
<1>4. CASE UNCHANGED vars
  BY <1>4 DEF vars, LiveInv, Recording
<1>. QED
  BY <1>1, <1>2, <1>3, <1>4 DEF Next

LEMMA ClosedStep == TypeOK /\ GateInv /\ ClosedInv /\ [Next]_vars => ClosedInv'
<1>. SUFFICES ASSUME TypeOK, GateInv, ClosedInv, [Next]_vars PROVE ClosedInv'
  OBVIOUS
<1>1. ASSUME NEW r \in Runs, Dispatch(r) \/ Pipeline(r) PROVE ClosedInv'
  <2>1. CASE Dispatch(r)
    BY <2>1 DEF TypeOK, ClosedInv, GateInv, PastGate, Dispatch, CreateRow,
       StartThread, DispatchRaises, DispatchStages
  <2>2. CASE TemporalFallsBack(r) \/ TemporalFallbackRaises(r)
    BY <2>2 DEF TypeOK, ClosedInv, GateInv, PastGate, TemporalFallsBack,
       TemporalFallbackRaises
  <2>3. CASE Acknowledge(r) \/ SetRemediating(r) \/ CreateWorktree(r)
    BY <2>3 DEF TypeOK, ClosedInv, GateInv, PastGate, Acknowledge,
       SetRemediating, CreateWorktree
  <2>4. CASE \/ TicketNotFound(r) \/ TicketUpdated(r)
           \/ TicketCreated(r) \/ TicketHookFails(r)
    BY <2>4, HookFacts DEF TypeOK, ClosedInv, GateInv, PastGate,
       TicketNotFound, TicketUpdated, TicketCreated, TicketHookFails,
       HookStages
  <2>5. CASE AgentOpensPr(r) \/ AgentEndsWithoutPr(r) \/ AgentOrphansPr(r)
    BY <2>5 DEF TypeOK, ClosedInv, GateInv, PastGate, AgentOpensPr,
       AgentEndsWithoutPr, AgentOrphansPr
  <2>6. CASE \/ StartCi(r) \/ MergeGate(r)
           \/ \E result \in {"passed", "failed"} : FinishCi(r, result)
    BY <2>6 DEF TypeOK, ClosedInv, GateInv, PastGate, StartCi, FinishCi,
       MergeGate
  <2>7. CASE \/ LoopMerge(r) \/ LoopMergeSaves(r)
           \/ LoopMergeFails(r) \/ LoopMergeRaises(r)
    BY <2>7 DEF TypeOK, ClosedInv, GateInv, PastGate, LoopMerge, LoopMergeSaves,
       LoopMergeFails, LoopMergeRaises, MergeReturns, MergeRaises,
       MergeRecorded, GitMerged, ClosesTickets
  <2>8. CASE \/ \E ok \in BOOLEAN : LoopDeploy(r, ok)
           \/ LoopResolve(r) \/ PipelineRaises(r)
    BY <2>8 DEF TypeOK, ClosedInv, GateInv, PastGate, LoopDeploy,
       DeployProduction, LoopResolve, PipelineRaises, BodyStages
  <2>9. CASE \/ RecordDone(r) \/ LogDone(r) \/ RecordDoneRaises(r)
           \/ RecordFailed(r) \/ RecordFailedRaises(r) \/ Release(r)
    BY <2>9 DEF TypeOK, ClosedInv, GateInv, PastGate, RecordDone, LogDone,
       RecordDoneRaises, RecordFailed, RecordFailedRaises, Release
  <2>. QED
    BY <1>1, <2>1, <2>2, <2>3, <2>4, <2>5, <2>6, <2>7, <2>8, <2>9 DEF Pipeline
<1>2. ASSUME NEW w \in Workers, Human(w) PROVE ClosedInv'
  BY <1>2 DEF TypeOK, ClosedInv, GateInv, PastGate, Human, AskRemediate,
     HumanAck, HumanResolve, HumanReopen, SetStatus,
     HumanMerge, GitMerged, RerunCi
<1>3. ASSUME NEW w \in Workers, Server(w) PROVE ClosedInv'
  <2>1. ASSUME NEW i \in Incidents,
              OpenIncident(w, i) \/ OpenIncidentRaises(i) \/ RemediateRefused(w, i)
       PROVE  ClosedInv'
    BY <2>1 DEF TypeOK, ClosedInv, GateInv, PastGate, OpenIncident,
       OpenIncidentRaises, CallsRemediate, RemediateRefused
  <2>2. ASSUME NEW i \in Incidents, NEW r \in Runs, Remediate(w, i, r)
       PROVE  ClosedInv'
    BY <2>2 DEF TypeOK, ClosedInv, GateInv, PastGate, Remediate
  <2>3. ASSUME NEW r \in Runs, NEW ok \in BOOLEAN, MaybeRedeploy(w, r, ok)
       PROVE  ClosedInv'
    BY <2>3 DEF TypeOK, ClosedInv, GateInv, PastGate, MaybeRedeploy,
       DeployProduction
  <2>4. ASSUME NEW r \in Runs, NEW result \in {"passed", "failed"},
              FinishRerun(w, r, result)
       PROVE  ClosedInv'
    BY <2>4 DEF TypeOK, ClosedInv, GateInv, PastGate, FinishRerun
  <2>5. ASSUME Restart(w)
       PROVE  ClosedInv'
    BY <2>5, StagesAreStages DEF TypeOK, ClosedInv, GateInv, PastGate, Restart
  <2>6. ASSUME NEW r \in Runs,
              HumanMergeSaves(w, r) \/ HumanMergeRaises(w, r)
       PROVE  ClosedInv'
    BY <2>6 DEF TypeOK, ClosedInv, GateInv, PastGate,
       HumanMergeSaves, HumanMergeRaises, MergeReturns, MergeRaises,
       MergeRecorded, ClosesTickets
  <2>. QED
    BY <1>3, <2>1, <2>2, <2>3, <2>4, <2>5, <2>6 DEF Server
<1>4. CASE UNCHANGED vars
  BY <1>4 DEF vars, ClosedInv, GateInv, PastGate
<1>. QED
  BY <1>1, <1>2, <1>3, <1>4 DEF Next

LEMMA GateInit == Init => PrInv /\ GateInv /\ LiveInv /\ ClosedInv
BY DEF Init, PrInv, GateInv, LiveInv, ClosedInv, EarlyStages, PrStages, PastGate

(* A run is past the merge gate only with HELM_AUTO_MERGE, a pull request  *)
(* and a green CI, or after a CI rerun was asked for.                      *)
THEOREM GateCorrect == Spec => []PastGateIsGreen
<1>1. PrInv /\ GateInv => PastGateIsGreen
  BY DEF PrInv, GateInv, PastGateIsGreen, PrStages
<1>. QED
  BY TypeCorrect, GateInit, PrStep, GateStep, <1>1, PTL DEF Spec

(* Nothing is merged without HELM_AUTO_MERGE or a human's button.          *)
THEOREM HumanGateCorrect == Spec => []HumanGate
<1>1. ClosedInv => HumanGate
  BY DEF ClosedInv, HumanGate
<1>. QED
  BY TypeCorrect, GateInit, GateStep, ClosedStep, <1>1, PTL DEF Spec

(* Production runs no pull request whose row is not MERGED, except one     *)
(* that git has merged and whose row a thread is about to save, or whose   *)
(* save raised or was cut off by a restart.                                *)
THEOREM LiveCodeCorrect == Spec => []LiveCodeIsRecorded
<1>1. LiveInv => LiveCodeIsRecorded
  BY DEF LiveInv, LiveCodeIsRecorded
<1>. QED
  BY TypeCorrect, GateInit, PrStep, LiveStep, <1>1, PTL DEF Spec

----------------------------------------------------------------------------
(***************************************************************************)
(* One ticket per incident.                                                *)
(***************************************************************************)
TicketInv ==
  SingleProcess =>
    /\ \A i \in Incidents : tickets[i] <= 1
    /\ \A r \in Runs :
         creating[r] => pc[r] \in HookStages /\ tickets[target[r]] = 0

LEMMA TicketStep == TypeOK /\ OnePipelinePerWorker /\ TicketInv /\ [Next]_vars => TicketInv'
<1>. SUFFICES ASSUME TypeOK, OnePipelinePerWorker, TicketInv, [Next]_vars PROVE TicketInv'
  OBVIOUS
<1>1. ASSUME NEW r \in Runs, Dispatch(r) \/ Pipeline(r) PROVE TicketInv'
  <2>1. CASE Dispatch(r)
    BY <2>1 DEF TypeOK, TicketInv, SingleProcess, HookStages, Dispatch,
       CreateRow, StartThread, DispatchRaises, DispatchStages
  <2>2. CASE TemporalFallsBack(r) \/ TemporalFallbackRaises(r)
    BY <2>2 DEF TypeOK, TicketInv, SingleProcess, HookStages,
       TemporalFallsBack, TemporalFallbackRaises
  <2>3. CASE Acknowledge(r) \/ SetRemediating(r) \/ CreateWorktree(r)
    BY <2>3 DEF TypeOK, TicketInv, SingleProcess, HookStages, Acknowledge,
       SetRemediating, CreateWorktree
  <2>4. CASE \/ TicketNotFound(r) \/ TicketUpdated(r)
           \/ TicketCreated(r) \/ TicketHookFails(r)
    <3>. SUFFICES ASSUME SingleProcess
                  PROVE  /\ \A i \in Incidents : tickets'[i] <= 1
                         /\ \A s \in Runs : creating'[s] =>
                              pc'[s] \in HookStages /\ tickets'[target'[s]] = 0
      BY DEF TicketInv, SingleProcess
    <3>1. CASE TicketNotFound(r)
      BY <3>1 DEF TypeOK, TicketInv, TicketNotFound
    <3>2. CASE TicketUpdated(r)
      BY <3>2 DEF TypeOK, TicketInv, TicketUpdated
    <3>3. CASE TicketCreated(r)
      <4>1. /\ tickets[target[r]] = 0 /\ pc[r] \in Holding
            /\ worker[r] \in Workers /\ target[r] \in Incidents
        BY <3>3, HookFacts, StagesAreStages DEF TypeOK, TicketInv, TicketCreated
      <4>2. ASSUME NEW s \in Runs, creating'[s]
            PROVE  /\ s # r /\ creating[s]
                   /\ pc'[s] = pc[s] /\ target[s] # target[r]
        <5>1. s # r /\ creating[s] /\ pc'[s] = pc[s]
          BY <3>3, <4>2 DEF TypeOK, TicketCreated
        <5>2. pc[s] \in Holding /\ worker[s] = worker[r]
          BY <4>1, <5>1, HookFacts, StagesAreStages
             DEF TypeOK, TicketInv, SingleProcess
        <5>. QED
          BY <4>1, <5>1, <5>2 DEF OnePipelinePerWorker
      <4>3. tickets' = [tickets EXCEPT ![target[r]] = 1]
        BY <3>3, <4>1 DEF TypeOK, TicketCreated
      <4>4. \A i \in Incidents : tickets'[i] <= 1
        BY <4>3 DEF TypeOK, TicketInv
      <4>5. ASSUME NEW s \in Runs, creating'[s]
            PROVE  pc'[s] \in HookStages /\ tickets'[target'[s]] = 0
        BY <3>3, <4>2, <4>3, <4>5 DEF TypeOK, TicketInv, TicketCreated
      <4>. QED
        BY <4>4, <4>5
    <3>4. CASE TicketHookFails(r)
      BY <3>4 DEF TypeOK, TicketInv, TicketHookFails
    <3>. QED
      BY <2>4, <3>1, <3>2, <3>3, <3>4
  <2>5. CASE AgentOpensPr(r) \/ AgentEndsWithoutPr(r) \/ AgentOrphansPr(r)
    BY <2>5 DEF TypeOK, TicketInv, SingleProcess, HookStages, AgentOpensPr,
       AgentEndsWithoutPr, AgentOrphansPr
  <2>6. CASE \/ StartCi(r) \/ MergeGate(r)
           \/ \E result \in {"passed", "failed"} : FinishCi(r, result)
    BY <2>6 DEF TypeOK, TicketInv, SingleProcess, HookStages, StartCi,
       FinishCi, MergeGate
  <2>7. CASE \/ LoopMerge(r) \/ LoopMergeSaves(r)
           \/ LoopMergeFails(r) \/ LoopMergeRaises(r)
    BY <2>7 DEF TypeOK, TicketInv, SingleProcess, HookStages, LoopMerge, LoopMergeSaves,
       LoopMergeFails, LoopMergeRaises, MergeReturns, MergeRaises,
       MergeRecorded, GitMerged, ClosesTickets
  <2>8. CASE \/ \E ok \in BOOLEAN : LoopDeploy(r, ok)
           \/ LoopResolve(r) \/ PipelineRaises(r)
    BY <2>8 DEF TypeOK, TicketInv, SingleProcess, HookStages, LoopDeploy,
       DeployProduction, LoopResolve, PipelineRaises, BodyStages
  <2>9. CASE \/ RecordDone(r) \/ LogDone(r) \/ RecordDoneRaises(r)
           \/ RecordFailed(r) \/ RecordFailedRaises(r) \/ Release(r)
    BY <2>9 DEF TypeOK, TicketInv, SingleProcess, HookStages, RecordDone,
       LogDone, RecordDoneRaises, RecordFailed, RecordFailedRaises, Release
  <2>. QED
    BY <1>1, <2>1, <2>2, <2>3, <2>4, <2>5, <2>6, <2>7, <2>8, <2>9 DEF Pipeline
<1>2. ASSUME NEW w \in Workers, Human(w) PROVE TicketInv'
  BY <1>2 DEF TypeOK, TicketInv, SingleProcess, HookStages, Human,
     AskRemediate, HumanAck, HumanResolve, HumanReopen, HumanMerge, GitMerged, RerunCi
<1>3. ASSUME NEW w \in Workers, Server(w) PROVE TicketInv'
  <2>1. ASSUME NEW i \in Incidents,
              OpenIncident(w, i) \/ OpenIncidentRaises(i) \/ RemediateRefused(w, i)
       PROVE  TicketInv'
    BY <2>1 DEF TypeOK, TicketInv, SingleProcess, HookStages, OpenIncident,
       OpenIncidentRaises, CallsRemediate, RemediateRefused
  <2>2. ASSUME NEW i \in Incidents, NEW r \in Runs, Remediate(w, i, r)
       PROVE  TicketInv'
    BY <2>2 DEF TypeOK, TicketInv, SingleProcess, HookStages, Remediate
  <2>3. ASSUME NEW r \in Runs, NEW ok \in BOOLEAN, MaybeRedeploy(w, r, ok)
       PROVE  TicketInv'
    BY <2>3 DEF TypeOK, TicketInv, SingleProcess, HookStages, MaybeRedeploy,
       DeployProduction
  <2>4. ASSUME NEW r \in Runs, NEW result \in {"passed", "failed"},
              FinishRerun(w, r, result)
       PROVE  TicketInv'
    BY <2>4 DEF TypeOK, TicketInv, SingleProcess, HookStages, FinishRerun
  <2>5. ASSUME Restart(w)
       PROVE  TicketInv'
    BY <2>5, StagesAreStages DEF TypeOK, TicketInv, SingleProcess, HookStages,
       Restart
  <2>6. ASSUME NEW r \in Runs,
              HumanMergeSaves(w, r) \/ HumanMergeRaises(w, r)
       PROVE  TicketInv'
    BY <2>6 DEF TypeOK, TicketInv, SingleProcess, HookStages,
       HumanMergeSaves, HumanMergeRaises, MergeReturns, MergeRaises,
       MergeRecorded, ClosesTickets
  <2>. QED
    BY <1>3, <2>1, <2>2, <2>3, <2>4, <2>5, <2>6 DEF Server
<1>4. CASE UNCHANGED vars
  BY <1>4 DEF vars, TicketInv, SingleProcess, HookStages
<1>. QED
  BY <1>1, <1>2, <1>3, <1>4 DEF Next

(* ticket_for_incident looks up and creates without a lock; the guard of   *)
(* the only process is what keeps it to one ticket per incident.           *)
THEOREM TicketCorrect == Spec => []OneTicketPerIncident
<1>1. Init => TicketInv
  BY DEF Init, TicketInv
<1>2. TicketInv => OneTicketPerIncident
  BY DEF TicketInv, OneTicketPerIncident
<1>. QED
  BY TypeCorrect, GuardCorrect, TicketStep, <1>1, <1>2, PTL DEF Spec
=============================================================================
