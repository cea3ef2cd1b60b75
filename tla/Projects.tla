------------------------------ MODULE Projects ------------------------------
(***************************************************************************)
(* A project from its import to its deletion: projects/ (the import form,  *)
(* the import thread and its stepper, deletion, the health verdict), the   *)
(* orchestration entry points behind it, and agents/ (worktrees and agent  *)
(* runs, which work on the project's clone).                               *)
(*                                                                         *)
(* All projects here are imported under one name, so that their slugs      *)
(* differ in the number only.  The rows belong to one organisation each;   *)
(* the clone directory and the compose project are named by the slug.      *)
(*                                                                         *)
(* A deployment is one step from the stop of the one before it to its      *)
(* outcome, and an environment has one under way at a time (bound): its    *)
(* processes, ports and polls, and deployments that overlap, are those of  *)
(* Deploys.                                                                *)
(***************************************************************************)
EXTENDS Naturals, Sequences, FiniteSets, FiniteSetsExt, Functions

CONSTANTS
  Projects,     (* Project rows that may be created                        *)
  Orgs,         (* organisations                                           *)
  Repos,        (* repositories that may be imported                       *)
  Declares,     (* Declares[r]: the runtime files in repository r          *)
  Forms,        (* import forms, each served by a thread of its own        *)
  Runs,         (* agent runs that may be launched                         *)
  MaxFaults,    (* statements and commands that fail, and restarts of the  *)
                (* server (bound)                                          *)
  MaxDeletes,   (* projects that may be deleted (bound)                    *)
  MaxAsked,     (* environments a page may deploy or stop, and agents      *)
                (* launched (bound)                                        *)
  MaxEvents,    (* all of these together (bound)                           *)
  Nothing

RuntimeFiles == {"compose", "manage", "manage below", "procfile"}

ASSUME ProjectsAssumption ==
  /\ Declares \in [Repos -> SUBSET RuntimeFiles]
  /\ IsFiniteSet(Projects)
  /\ MaxFaults \in Nat /\ MaxDeletes \in Nat
  /\ MaxAsked \in Nat /\ MaxEvents \in Nat
  /\ Nothing \notin Projects \union Orgs \union Repos \union Runs

Slugs    == 1 .. Cardinality(Projects)
EnvNames == {"staging", "prod"}

(* IMPORT_STEPS                                                            *)
Keys == {"clone", "detect", "verify", "provision", "staging", "prod"}

VARIABLES
  project,   (* Project rows                                               *)
  step,      (* ImportStep.state by project and key; "none": no row        *)
  env,       (* Environment rows with the status of the newest deployment  *)
             (* that was not stopped                                       *)
  clone,     (* what the directory HELM_REPOS_DIR/<slug> holds             *)
  app,       (* the code that runs for an environment, as a process or a   *)
             (* stack that stop() or a deletion can find                   *)
  stray,     (* the code that runs for it and that neither finds           *)
  redeploy,  (* the deployment of each environment that a page asked for   *)
  form,      (* import forms being submitted                               *)
  worker,    (* the import thread of each project                          *)
  deletion,  (* the deletion request of each project                       *)
  run,       (* agent runs                                                 *)
  shared,    (* history: projects whose slug another project had, too      *)
  overlap,   (* history: projects that were deployed while being deleted   *)
  touched,   (* history: environments a page deployed or stopped           *)
  unwritten, (* history: projects that missed a write of their stepper, or *)
             (* the handler's save of FAILED                               *)
  faults

pages == <<stray, redeploy, touched>>
vars  == <<project, step, env, clone, app, stray, redeploy, form, worker,
           deletion, run, shared, overlap, touched, unwritten, faults>>

NoProject == [status |-> "none", org |-> Nothing, slug |-> 0,
              repo |-> Nothing, framework |-> "none"]
NoForm    == [pc |-> "idle", org |-> Nothing, project |-> Nothing, slug |-> 0,
              repo |-> Nothing]
NoWorker  == [pc |-> "none", framework |-> "none", todo |-> <<>>,
              row |-> NoProject]
NoRun     == [status |-> "none", alive |-> FALSE, project |-> Nothing,
              tree |-> Nothing, early |-> FALSE, edits |-> FALSE,
              commit |-> FALSE, refused |-> FALSE]

NoSteps == [k \in Keys |-> "none"]
NoEnvs  == [e \in EnvNames |-> "none"]
NoApps  == [e \in EnvNames |-> Nothing]
NoRedeploys == [e \in EnvNames |-> "none"]

Init ==
  /\ project  = [p \in Projects |-> NoProject]
  /\ step     = [p \in Projects |-> NoSteps]
  /\ env      = [p \in Projects |-> NoEnvs]
  /\ clone    = [s \in Slugs |-> Nothing]
  /\ app      = [p \in Projects |-> NoApps]
  /\ stray    = [p \in Projects |-> NoApps]
  /\ redeploy = [p \in Projects |-> NoRedeploys]
  /\ form     = [f \in Forms |-> NoForm]
  /\ worker   = [p \in Projects |-> NoWorker]
  /\ deletion = [p \in Projects |-> "none"]
  /\ run      = [r \in Runs |-> NoRun]
  /\ shared   = {}
  /\ overlap  = {}
  /\ touched  = {}
  /\ unwritten = {}
  /\ faults   = 0

(* What happened so far besides imports.                                   *)
Failed  == faults + Cardinality(unwritten)
Deleted == Cardinality({p \in Projects : deletion[p] # "none"})
Asked   == Cardinality(touched) + Cardinality({r \in Runs : run[r] # NoRun})

InBounds == Failed + Deleted + Asked < MaxEvents

MayFail == InBounds /\ Failed < MaxFaults
Fault   == MayFail /\ faults' = faults + 1

Exists(p) == project[p].status # "none"
Fresh(p)  == /\ ~Exists(p)
             /\ worker[p].pc = "none"
             /\ deletion[p] = "none"
             /\ \A f \in Forms : form[f].project # p

----------------------------------------------------------------------------
(***************************************************************************)
(* Runtime detection, health                                               *)
(***************************************************************************)

(* detect_runtime: compose before Django (at the root or one level down)   *)
(* before a Procfile.  A directory that is not there declares nothing.     *)
DetectRuntime(repo) ==
  LET files == IF repo = Nothing THEN {} ELSE Declares[repo]
  IN IF "compose" \in files THEN "compose"
     ELSE IF files \intersect {"manage", "manage below"} # {} THEN "django"
     ELSE IF "procfile" \in files THEN "procfile"
     ELSE "none"

(* HealthVerdict.live_count and down_count: environments by their newest   *)
(* deployment that was not stopped.  One that is building counts as down.  *)
LiveCount(p) == Quantify(EnvNames, LAMBDA e : env[p][e] = "live")
DownCount(p) ==
  Quantify(EnvNames, LAMBDA e : env[p][e] \in {"building", "failed"})

HealthVerdict(p) ==
  IF LiveCount(p) + DownCount(p) = 0 THEN "never_deployed"
  ELSE IF DownCount(p) = 0 THEN "live"
  ELSE IF LiveCount(p) > 0 THEN "degraded"
  ELSE "down"

----------------------------------------------------------------------------
(***************************************************************************)
(* The stepper                                                             *)
(***************************************************************************)

(* The steps a write may miss: none, one, or all of them.  A project misses*)
(* once (bound).                                                           *)
Misses(p, keys) ==
  IF p \in unwritten \/ ~MayFail THEN {{}}
  ELSE {{}, keys} \union {{k} : k \in keys}

(* _set_step writes nothing when the row is gone, and swallows its errors: *)
(* a step whose write raised stays as it was.                              *)
SetSteps(p, changes) ==
  \E missed \in Misses(p, DOMAIN changes) :
    /\ step' = [step EXCEPT ![p] = [k \in Keys |->
           IF @[k] # "none" /\ k \in DOMAIN changes \ missed
           THEN changes[k] ELSE @[k]]]
    /\ unwritten' = IF missed = {} THEN unwritten ELSE unwritten \union {p}

SetStep(p, key, state) == SetSteps(p, [k \in {key} |-> state])

Unfinished(p) == {k \in Keys : step[p][k] \in {"pending", "running"}}

(* Mutant: only the steps not yet begun are failed.                        *)
FailPendingSteps_LeavesRunning(p) ==
  SetSteps(p, [k \in {j \in Keys : step[p][j] = "pending"} |-> "failed"])

FailPendingSteps(p) == SetSteps(p, [k \in Unfinished(p) |-> "failed"])

----------------------------------------------------------------------------
(***************************************************************************)
(* The import form                                                         *)
(***************************************************************************)

SetForm(f, value) == form' = [form EXCEPT ![f] = value]

Slugged(o, s) == {p \in Projects : project[p].org = o /\ project[p].slug = s}

(* _unique_slug: the first slug no project of the organisation has.        *)
UniqueSlug(o) == Min({s \in Slugs : Slugged(o, s) = {}})

AskImport(f, o, p, r) ==
  /\ form[f] = NoForm
  /\ Fresh(p)
  /\ \E s \in Slugs : Slugged(o, s) = {}
  /\ SetForm(f, [pc |-> "slug", org |-> o, project |-> p,
                 slug |-> UniqueSlug(o), repo |-> r])
  /\ UNCHANGED <<project, step, env, clone, app, pages, worker, deletion, run,
                 shared, overlap, unwritten, faults>>

Importing(p) == worker[p].pc \notin {"none", "start", "ended", "lost"}

(* A thread works on the project, whatever happened to its row.            *)
Busy(q) == Importing(q) \/ \E e \in EnvNames : redeploy[q][e] # "none"

(* The projects that lose the sole use of a directory when p's row takes a *)
(* slug: those of other organisations with that slug, and one that was     *)
(* deleted while its import or a deployment goes on.                       *)
Sharing(p, o, s) ==
  LET others == {q \in Projects \ {p} :
                   \/ project[q].slug = s /\ project[q].org # o
                   \/ Busy(q) /\ worker[q].row.slug = s}
  IN IF others = {} THEN {} ELSE others \union {p}

(* Mutant: no UniqueConstraint on (org, slug).                             *)
Taken_Never(o, s) == FALSE

(* UniqueConstraint uniq_org_slug                                          *)
Taken(o, s) == Slugged(o, s) # {}

(* begin_import: the row; the constraint refuses a slug another form took. *)
CreateShell(f) ==
  LET p == form[f].project  o == form[f].org  s == form[f].slug
  IN /\ form[f].pc = "slug"
     /\ ~Taken(o, s)
     /\ project' = [project EXCEPT ![p] =
            [status |-> "importing", org |-> o, slug |-> s,
             repo |-> form[f].repo, framework |-> "none"]]
     /\ shared' = shared \union Sharing(p, o, s)
     /\ SetForm(f, [form[f] EXCEPT !.pc = "seed"])
     /\ UNCHANGED <<step, env, clone, app, pages, worker, deletion, run,
                    overlap, unwritten, faults>>

ShellRefused(f) ==
  /\ form[f].pc = "slug"
  /\ Taken(form[f].org, form[f].slug)
  /\ SetForm(f, NoForm)
  /\ UNCHANGED <<project, step, env, clone, app, pages, worker, deletion, run,
                 shared, overlap, unwritten, faults>>

(* The steps are seeded, if the row is still there and no statement        *)
(* raises, which is swallowed.  The thread starts.                         *)
SeedSteps(f) ==
  LET p == form[f].project
  IN /\ form[f].pc = "seed"
     /\ \/ /\ step' = [step EXCEPT ![p] =
                  IF Exists(p) THEN [k \in Keys |-> "pending"] ELSE NoSteps]
           /\ UNCHANGED faults
        \/ Fault /\ UNCHANGED step
     /\ worker' = [worker EXCEPT ![p].pc = "start"]
     /\ SetForm(f, NoForm)
     /\ UNCHANGED <<project, env, clone, app, pages, deletion, run, shared,
                    overlap, unwritten>>

(* The event about the import cannot be written: a shell without a thread. *)
SeedRaises(f) ==
  /\ form[f].pc = "seed"
  /\ Fault
  /\ worker' = [worker EXCEPT ![form[f].project].pc = "lost"]
  /\ SetForm(f, NoForm)
  /\ UNCHANGED <<project, step, env, clone, app, pages, deletion, run, shared,
                 overlap, unwritten>>

----------------------------------------------------------------------------
(***************************************************************************)
(* The import thread                                                       *)
(***************************************************************************)

SetWorker(p, pc) == worker' = [worker EXCEPT ![p].pc = pc]

(* Git worktrees keep their objects in the clone: without it they are      *)
(* directories that no git command works in.                               *)
Orphan(s) ==
  run' = [r \in Runs |->
      IF run[r].project # Nothing /\ project[run[r].project].slug = s
      THEN [run[r] EXCEPT !.tree = Nothing] ELSE run[r]]

(* _import_in_background finds no row: the project was deleted.            *)
StartMissing(p) ==
  /\ worker[p].pc = "start"
  /\ ~Exists(p)
  /\ SetWorker(p, "ended")
  /\ UNCHANGED <<project, step, env, clone, app, pages, form, deletion, run,
                 shared, overlap, unwritten, faults>>

(* From here the thread has the row in memory, whatever happens to it.     *)
StartImport(p) ==
  /\ worker[p].pc = "start"
  /\ Exists(p)
  /\ SetStep(p, "clone", "running")
  /\ worker' = [worker EXCEPT ![p].pc = "rmtree", ![p].row = project[p]]
  /\ UNCHANGED <<project, env, clone, app, pages, form, deletion, run, shared,
                 overlap, faults>>

(* A stale destination is removed.                                         *)
Rmtree(p) ==
  /\ worker[p].pc = "rmtree"
  /\ clone' = [clone EXCEPT ![worker[p].row.slug] = Nothing]
  /\ Orphan(worker[p].row.slug)
  /\ SetWorker(p, "cloning")
  /\ UNCHANGED <<project, step, env, app, pages, form, deletion, shared,
                 overlap, unwritten, faults>>

(* git clone refuses a directory that is not empty.                        *)
Clone(p) ==
  LET row == worker[p].row
  IN /\ worker[p].pc = "cloning"
     /\ clone[row.slug] = Nothing
     /\ clone' = [clone EXCEPT ![row.slug] = row.repo]
     /\ SetSteps(p, [k \in {"clone", "detect"} |->
            IF k = "clone" THEN "done" ELSE "running"])
     /\ SetWorker(p, "detect")
     /\ UNCHANGED <<project, env, app, pages, form, deletion, run, shared,
                    overlap, faults>>

CloneFails(p) ==
  /\ worker[p].pc = "cloning"
  /\ \/ clone[worker[p].row.slug] # Nothing /\ UNCHANGED faults
     \/ Fault
  /\ SetStep(p, "clone", "failed")
  /\ SetWorker(p, "except")
  /\ UNCHANGED <<project, env, clone, app, pages, form, deletion, run, shared,
                 overlap>>

(* What the directory declares, whoever put it there.                      *)
Detect(p) ==
  LET framework == DetectRuntime(clone[worker[p].row.slug])
  IN /\ worker[p].pc = "detect"
     /\ worker' = [worker EXCEPT ![p].framework = framework,
                                 ![p].pc = "save"]
     /\ IF framework = "none"
        THEN UNCHANGED <<step, unwritten>>
        ELSE SetSteps(p, [k \in {"detect", "verify"} |-> "done"])
     /\ UNCHANGED <<project, env, clone, app, pages, form, deletion, run,
                    shared, overlap, faults>>

(* project.save(): the whole row, inserted again when it is gone.          *)
SaveRow(p, status) ==
  /\ project' = [project EXCEPT ![p] =
         [worker[p].row EXCEPT !.status = status,
                               !.framework = worker[p].framework]]
  /\ shared' = shared \union Sharing(p, worker[p].row.org, worker[p].row.slug)

(* A deleted row comes back with its slug, unless it was given away.       *)
MayInsert(p) == Exists(p) \/ ~Taken(worker[p].row.org, worker[p].row.slug)

SaveReady(p) ==
  /\ worker[p].pc = "save"
  /\ worker[p].framework # "none"
  /\ MayInsert(p)
  /\ SaveRow(p, "ready")
  /\ SetWorker(p, "environments")
  /\ UNCHANGED <<step, env, clone, app, pages, form, deletion, run, overlap,
                 unwritten, faults>>

(* The supported-runtime gate                                              *)
SaveGate(p) ==
  /\ worker[p].pc = "save"
  /\ worker[p].framework = "none"
  /\ MayInsert(p)
  /\ SaveRow(p, "failed")
  /\ SetWorker(p, "gate")
  /\ UNCHANGED <<step, env, clone, app, pages, form, deletion, run, overlap,
                 unwritten, faults>>

SaveRaises(p) ==
  /\ worker[p].pc = "save"
  /\ \/ ~MayInsert(p) /\ UNCHANGED faults
     \/ Fault
  /\ SetWorker(p, "except")
  /\ UNCHANGED <<project, step, env, clone, app, pages, form, deletion, run,
                 shared, overlap, unwritten>>

Gate(p) ==
  /\ worker[p].pc = "gate"
  /\ FailPendingSteps(p)
  /\ SetWorker(p, "ended")
  /\ UNCHANGED <<project, env, clone, app, pages, form, deletion, run, shared,
                 overlap, faults>>

(* Orchestration takes the environments as Environment.Meta orders them,   *)
(* by kind; the direct path, taken when the row of the workflow could not  *)
(* be written, has staging first.                                          *)
Orchestrated == <<"prod", "staging">>
Direct       == <<"staging", "prod">>

(* get_or_create of both environments                                      *)
NewEnvs(p) ==
  [e \in EnvNames |-> IF env[p][e] = "none" THEN "empty" ELSE env[p][e]]

(* The environments, and the provision step.                               *)
MakeEnvironments(p) ==
  /\ worker[p].pc = "environments"
  /\ Exists(p)
  /\ env' = [env EXCEPT ![p] = NewEnvs(p)]
  /\ SetStep(p, "provision", "done")
  /\ \E order \in {Orchestrated, Direct} :
       /\ worker' = [worker EXCEPT ![p].pc = "deploy", ![p].todo = order]
       /\ IF order = Direct THEN Fault ELSE UNCHANGED faults
  /\ UNCHANGED <<project, clone, app, pages, form, deletion, run, shared,
                 overlap>>

(* A foreign key to a deleted row, or an error: staging may be there, or   *)
(* all is done but the event that says so.                                 *)
EnvironmentsRaise(p) ==
  /\ worker[p].pc = "environments"
  /\ \/ ~Exists(p) /\ UNCHANGED <<step, env, unwritten, faults>>
     \/ /\ Exists(p) /\ Fault
        /\ env' \in {env, [env EXCEPT ![p]["staging"] = "empty"]}
        /\ UNCHANGED <<step, unwritten>>
     \/ /\ Exists(p) /\ Fault
        /\ env' = [env EXCEPT ![p] = NewEnvs(p)]
        /\ SetStep(p, "provision", "done")
  /\ SetWorker(p, "except")
  /\ UNCHANGED <<project, clone, app, pages, form, deletion, run, shared,
                 overlap>>

(* Mutant: the handler saves the whole row.                                *)
SaveFailed_WholeRow(p) ==
  /\ project' = [project EXCEPT ![p] =
         [worker[p].row EXCEPT !.status = "failed"]]
  /\ FailPendingSteps(p)

(* The handler's save(update_fields=...) raises when the row is gone, and  *)
(* the steps went with the row.                                            *)
SaveFailed(p) ==
  /\ project' = IF Exists(p) THEN [project EXCEPT ![p].status = "failed"]
                ELSE project
  /\ FailPendingSteps(p)

ImportRaised(p) ==
  /\ worker[p].pc = "except"
  /\ SaveFailed(p)
  /\ SetWorker(p, "ended")
  /\ UNCHANGED <<env, clone, app, pages, form, deletion, run, shared, overlap,
                 faults>>

(* The handler's own save raises, and the steps are not failed either.     *)
HandlerRaises(p) ==
  /\ worker[p].pc = "except"
  /\ Exists(p)
  /\ Fault
  /\ unwritten' = unwritten \union {p}
  /\ SetWorker(p, "ended")
  /\ UNCHANGED <<project, step, env, clone, app, pages, form, deletion, run,
                 shared, overlap>>

----------------------------------------------------------------------------
(***************************************************************************)
(* Deployments                                                             *)
(***************************************************************************)

(* The projects whose containers run under compose_project_name(s, ...).   *)
Stack(s) == {q \in Projects : /\ project[q].framework = "compose"
                              /\ project[q].slug = s}

IsStack(p) == project[p].framework = "compose"

(* A deployment runs what the clone holds, by the slug of the copy of the  *)
(* project it has in memory.                                               *)
Source(p) == clone[worker[p].row.slug]

(* What runs when p's environment runs the code of its clone: a stack takes*)
(* the place of the containers of its name, whosever they are.             *)
Replaced(p, e) ==
  [q \in Projects |->
     IF q = p THEN [app[q] EXCEPT ![e] = Source(p)]
     ELSE IF IsStack(p) /\ q \in Stack(project[p].slug)
     THEN [app[q] EXCEPT ![e] = Nothing]
     ELSE app[q]]

(* deploys.services.deploy: a row that is building, and a process of the   *)
(* deployment that was LIVE is stopped.  Its containers run on until those *)
(* of the new one take their place.                                        *)
Begun(p, e) ==
  /\ env' = [env EXCEPT ![p][e] = IF @ = "none" THEN "none" ELSE "building"]
  /\ app' = IF env[p][e] = "live" /\ ~IsStack(p)
            THEN [app EXCEPT ![p][e] = Nothing] ELSE app

(* It ends.  There is nothing to run without a clone.  A process that      *)
(* failed was killed; the containers of a stack that failed may run.       *)
DeployedLive(p, e) ==
  /\ env[p][e] # "none" /\ Source(p) # Nothing
  /\ env' = [env EXCEPT ![p][e] = "live"]
  /\ app' = Replaced(p, e)
  /\ overlap' = IF deletion[p] = "none" THEN overlap ELSE overlap \union {p}
  /\ UNCHANGED faults

DeployedFailed(p, e) ==
  /\ env[p][e] # "none"
  /\ IF Source(p) = Nothing THEN UNCHANGED faults ELSE Fault
  /\ env' = [env EXCEPT ![p][e] = "failed"]
  /\ \/ ~IsStack(p) /\ app' = [app EXCEPT ![p][e] = Nothing]
     \/ IsStack(p) /\ UNCHANGED app
     \/ IsStack(p) /\ Source(p) # Nothing /\ app' = Replaced(p, e)
  /\ overlap' = IF deletion[p] = "none" THEN overlap ELSE overlap \union {p}

(* The environment went while it was deployed: the row of the deployment   *)
(* cannot be written, but its process may have been started.               *)
DeployedNowhere(p, e) ==
  /\ env[p][e] = "none"
  /\ app' \in {app, [app EXCEPT ![p][e] = Source(p)]}
  /\ overlap' = overlap \union {p}
  /\ UNCHANGED <<env, faults>>

(* deploy_environment begins                                               *)
StartDeploy(p) ==
  LET e == Head(worker[p].todo)
  IN /\ worker[p].pc = "deploy"
     /\ redeploy[p][e] = "none"
     /\ SetStep(p, e, "running")
     /\ Begun(p, e)
     /\ SetWorker(p, "deploying")
     /\ UNCHANGED <<project, clone, pages, form, deletion, run, shared,
                    overlap, faults>>

NextDeploy(p) ==
  worker' = [worker EXCEPT
    ![p].pc = IF Len(worker[p].todo) > 1 THEN "deploy" ELSE "ended",
    ![p].todo = Tail(@)]

(* Anything but a deployment that is FAILED, or raised, makes the step     *)
(* done.                                                                   *)
DeployReturns(p) ==
  LET e == Head(worker[p].todo)
  IN /\ worker[p].pc = "deploying"
     /\ \/ DeployedLive(p, e) /\ SetStep(p, e, "done")
        \/ DeployedFailed(p, e) /\ SetStep(p, e, "failed")
     /\ NextDeploy(p)
     /\ UNCHANGED <<project, clone, pages, form, deletion, run, shared>>

DeployRaises(p) ==
  LET e == Head(worker[p].todo)
  IN /\ worker[p].pc = "deploying"
     /\ DeployedNowhere(p, e)
     /\ SetStep(p, e, "failed")
     /\ NextDeploy(p)
     /\ UNCHANGED <<project, clone, pages, form, deletion, run, shared>>

----------------------------------------------------------------------------
(***************************************************************************)
(* The pages of a project and its deployments                              *)
(***************************************************************************)

Touch(p, e) ==
  /\ InBounds /\ Asked < MaxAsked
  /\ touched' = touched \union {<<p, e>>}

Deploying(p, e) ==
  \/ redeploy[p][e] # "none"
  \/ worker[p].pc = "deploying" /\ Head(worker[p].todo) = e

(* project_deploy: a deployment of one environment, in a thread that never *)
(* looks at the stepper; only when the row of its workflow could not be    *)
(* written does it go by deploy_environment.                               *)
AskDeploy(p, e) ==
  /\ env[p][e] # "none" /\ ~Deploying(p, e)
  /\ Touch(p, e)
  /\ Begun(p, e)
  /\ \/ /\ redeploy' = [redeploy EXCEPT ![p][e] = "plain"]
        /\ UNCHANGED <<step, unwritten, faults>>
     \/ /\ redeploy' = [redeploy EXCEPT ![p][e] = "stepped"]
        /\ Fault /\ SetStep(p, e, "running")
  /\ UNCHANGED <<project, clone, stray, form, worker, deletion, run, shared,
                 overlap>>

RedeployStep(p, e, state) ==
  IF redeploy[p][e] = "stepped" THEN SetStep(p, e, state)
  ELSE UNCHANGED <<step, unwritten>>

RedeployReturns(p, e) ==
  /\ redeploy[p][e] # "none"
  /\ redeploy' = [redeploy EXCEPT ![p][e] = "none"]
  /\ \/ DeployedLive(p, e) /\ RedeployStep(p, e, "done")
     \/ /\ DeployedFailed(p, e) \/ DeployedNowhere(p, e)
        /\ RedeployStep(p, e, "failed")
  /\ UNCHANGED <<project, clone, stray, form, worker, deletion, run, shared,
                 touched>>

(* deploy_stop: the row is STOPPED and its process killed.  A stack runs   *)
(* on.  The page then shows what came before, which may be a deployment    *)
(* that FAILED or that a restart left BUILDING.                            *)
AskStop(p, e) ==
  /\ env[p][e] \in {"building", "live", "failed"}
  /\ Touch(p, e)
  /\ \E s \in {"empty", "building", "failed"} : env' = [env EXCEPT ![p][e] = s]
  /\ app' = IF env[p][e] = "live" /\ ~IsStack(p)
            THEN [app EXCEPT ![p][e] = Nothing] ELSE app
  /\ UNCHANGED <<project, step, clone, stray, redeploy, form, worker, deletion,
                 run, shared, overlap, unwritten, faults>>

(* An application dies; no row says so.                                    *)
Dies(p, e) ==
  /\ app[p][e] # Nothing
  /\ Fault
  /\ app' = [app EXCEPT ![p][e] = Nothing]
  /\ UNCHANGED <<project, step, env, clone, pages, form, worker, deletion, run,
                 shared, overlap, unwritten>>

----------------------------------------------------------------------------
(***************************************************************************)
(* Deletion                                                                *)
(***************************************************************************)

(* Mutant: the page removes the rows and leaves the processes.             *)
StoppedApps_None(p) == app

(* stop() of every deployment, and compose down by the name of the stack,  *)
(* whose result nobody looks at: containers it leaves, no page shows.      *)
StoppedApps(p) ==
  [q \in Projects |->
     [e \in EnvNames |->
        IF env[p][e] # "none" /\ q \in {p} \union Stack(project[p].slug)
        THEN Nothing ELSE app[q][e]]]

AskDelete(p) ==
  /\ Exists(p)
  /\ deletion[p] = "none"
  /\ InBounds /\ Deleted < MaxDeletes
  /\ \/ app' = StoppedApps(p) /\ UNCHANGED <<stray, faults>>
     \/ /\ IsStack(p) /\ Fault
        /\ app' = [app EXCEPT ![p] = NoApps]
        /\ stray' = [stray EXCEPT ![p] = [e \in EnvNames |->
               IF app[p][e] = Nothing THEN @[e] ELSE app[p][e]]]
  /\ env' = [env EXCEPT ![p] = [e \in EnvNames |->
         IF @[e] = "none" THEN "none" ELSE "empty"]]
  /\ deletion' = [deletion EXCEPT ![p] = "stopped"]
  /\ UNCHANGED <<project, step, clone, redeploy, form, worker, run, shared,
                 overlap, touched, unwritten>>

(* project.delete() cascades over environments, deployments, steps and     *)
(* agent runs.                                                             *)
DeleteRow(p) ==
  /\ deletion[p] = "stopped"
  /\ project' = [project EXCEPT ![p] = NoProject]
  /\ step'    = [step EXCEPT ![p] = NoSteps]
  /\ env'     = [env EXCEPT ![p] = NoEnvs]
  /\ run'     = [r \in Runs |->
                   IF run[r].project = p THEN NoRun ELSE run[r]]
  /\ deletion' = [deletion EXCEPT ![p] = "deleted"]
  /\ UNCHANGED <<clone, app, pages, form, worker, shared, overlap, unwritten,
                 faults>>

----------------------------------------------------------------------------
(***************************************************************************)
(* Agent runs                                                              *)
(***************************************************************************)

SetRun(r, value) == run' = [run EXCEPT ![r] = value]

(* launch_agent: create_worktree fails without a repository to add it to;  *)
(* a run is queued and its thread started.  The page offers projects that  *)
(* are still importing, too (early).  QUEUED and RUNNING are one here.     *)
Launch(r, p) ==
  /\ run[r] = NoRun
  /\ InBounds /\ Asked < MaxAsked
  /\ Exists(p)
  /\ clone[project[p].slug] # Nothing
  /\ SetRun(r, [NoRun EXCEPT !.status = "running", !.alive = TRUE,
                             !.project = p, !.tree = clone[project[p].slug],
                             !.early = project[p].status = "importing"])
  /\ UNCHANGED <<project, step, env, clone, app, pages, form, worker,
                 deletion, shared, overlap, unwritten, faults>>

(* Mutant: the changes are not staged, and git commits nothing.            *)
CommitChanges_Unstaged(r, edits) == FALSE

(* _commit_changes: add -A, and a commit if git status shows a change.     *)
(* Without its clone no git command works.                                 *)
CommitChanges(r, edits) == run[r].tree # Nothing /\ edits

(* The worktree stays, but no step needs it again.                         *)
Finished(r, status, edits, commit, refused) ==
  SetRun(r, [run[r] EXCEPT !.status = status, !.alive = FALSE,
                           !.tree = Nothing, !.edits = edits,
                           !.commit = commit, !.refused = refused])

(* run_agent after the session: commit (and open a pull request, see Vcs), *)
(* DONE.  No git command is checked: a commit that git refuses (a lock, a  *)
(* hook) is DONE as well.  An error anywhere makes the run FAILED, also    *)
(* after it was DONE; what such a run committed is left out.               *)
FinishRun(r) ==
  /\ run[r].status = "running" /\ run[r].alive
  /\ \/ /\ \E edits \in BOOLEAN :
             Finished(r, "done", edits, CommitChanges(r, edits), FALSE)
        /\ UNCHANGED faults
     \/ /\ CommitChanges(r, TRUE) /\ Fault
        /\ Finished(r, "done", TRUE, FALSE, TRUE)
     \/ Fault /\ Finished(r, "failed", FALSE, FALSE, FALSE)
  /\ UNCHANGED <<project, step, env, clone, app, pages, form, worker, deletion,
                 shared, overlap, unwritten>>

----------------------------------------------------------------------------
(* The threads are daemon threads of the server: a restart ends them where *)
(* they are.  The row of a deployment stays BUILDING.  Its process has a   *)
(* session of its own and runs on, with its pid in no row; containers that *)
(* came up are still found by their name.                                  *)
Astray(p, e) == Deploying(p, e) /\ Source(p) # Nothing /\ ~IsStack(p)
CutOff(p, e) == Deploying(p, e) /\ Source(p) # Nothing /\ IsStack(p)

Restart ==
  /\ Fault
  /\ form' = [f \in Forms |-> NoForm]
  /\ worker' = [p \in Projects |->
       IF /\ worker[p].pc \in {"none", "ended"}
          /\ ~(\E f \in Forms : form[f].project = p /\ form[f].pc = "seed")
       THEN worker[p] ELSE [worker[p] EXCEPT !.pc = "lost"]]
  /\ run' = [r \in Runs |-> [run[r] EXCEPT !.alive = FALSE]]
  /\ deletion' = [p \in Projects |->
       IF deletion[p] = "stopped" THEN "none" ELSE deletion[p]]
  /\ redeploy' = [p \in Projects |-> NoRedeploys]
  /\ stray' \in {stray, [p \in Projects |-> [e \in EnvNames |->
                           IF Astray(p, e) THEN Source(p) ELSE stray[p][e]]]}
  /\ app' \in {app, [q \in Projects |-> [e \in EnvNames |->
                       IF CutOff(q, e) THEN Source(q)
                       ELSE IF \E p \in Projects :
                                 CutOff(p, e) /\ q \in Stack(project[p].slug)
                       THEN Nothing ELSE app[q][e]]]}
  /\ overlap' = overlap \union
       {p \in Projects : /\ deletion[p] # "none"
                         /\ \E e \in EnvNames : CutOff(p, e)}
  /\ UNCHANGED <<project, step, env, clone, shared, touched, unwritten>>

ImportNext(p) ==
  \/ StartMissing(p) \/ StartImport(p) \/ Rmtree(p) \/ Clone(p)
  \/ CloneFails(p) \/ Detect(p) \/ SaveReady(p) \/ SaveGate(p)
  \/ SaveRaises(p) \/ Gate(p) \/ MakeEnvironments(p) \/ EnvironmentsRaise(p)
  \/ ImportRaised(p) \/ HandlerRaises(p) \/ StartDeploy(p) \/ DeployReturns(p)
  \/ DeployRaises(p)

PageNext(p, e) ==
  \/ AskDeploy(p, e) \/ RedeployReturns(p, e) \/ AskStop(p, e) \/ Dies(p, e)

FormNext(f) ==
  \/ \E o \in Orgs, p \in Projects, r \in Repos : AskImport(f, o, p, r)
  \/ CreateShell(f) \/ ShellRefused(f) \/ SeedSteps(f) \/ SeedRaises(f)

RunNext(r) ==
  \/ \E p \in Projects : Launch(r, p)
  \/ FinishRun(r)

Next ==
  \/ \E f \in Forms : FormNext(f)
  \/ \E p \in Projects : ImportNext(p) \/ AskDelete(p) \/ DeleteRow(p)
  \/ \E p \in Projects, e \in EnvNames : PageNext(p, e)
  \/ \E r \in Runs : RunNext(r)
  \/ Restart

Spec == Init /\ [][Next]_vars

----------------------------------------------------------------------------
(***************************************************************************)
(* Properties                                                              *)
(***************************************************************************)

(* Every variable has the type of the rows, files or threads it stands for,*)
(* and an import thread has in hand what its next step uses: the row it    *)
(* read, and an environment that is left to deploy.                        *)
TypeOK ==
  /\ \A p \in Projects :
       /\ project[p].status \in {"none", "importing", "ready", "failed"}
       /\ project[p].slug \in {0} \union Slugs
       /\ Range(step[p]) \subseteq
            {"none", "pending", "running", "done", "failed"}
       /\ Range(env[p]) \subseteq
            {"none", "empty", "building", "live", "failed"}
       /\ Range(app[p]) \union Range(stray[p]) \subseteq Repos \union {Nothing}
       /\ Range(redeploy[p]) \subseteq {"none", "plain", "stepped"}
       /\ deletion[p] \in {"none", "stopped", "deleted"}
       /\ Importing(p) => worker[p].row.slug \in Slugs
       /\ worker[p].pc \in {"deploy", "deploying"} => worker[p].todo # <<>>
  /\ Range(clone) \subseteq Repos \union {Nothing}
  /\ shared \subseteq Projects /\ overlap \subseteq Projects
  /\ touched \subseteq Projects \X EnvNames /\ unwritten \subseteq Projects
  /\ faults \in 0 .. MaxFaults

(* When the import thread has ended the page stops polling: no step is     *)
(* pending or running, the project is not IMPORTING, and a READY one has   *)
(* its environments and all steps but the deployments done.  Only a write  *)
(* of a step or the handler's save that failed, or a page's deployment on  *)
(* the import's own path, leaves it otherwise.  The card and the stepper   *)
(* tell the same story until a page deploys or stops an environment: a     *)
(* project that is live has no failed deployment step, one that is         *)
(* degraded or down has not only done ones (health_verdict reads           *)
(* deployments, the stepper its own rows), unless it was deployed while    *)
(* being deleted.                                                          *)
ImportsSettle ==
  \A p \in Projects \ unwritten : worker[p].pc = "ended" /\ Exists(p) =>
    /\ \A k \in Unfinished(p) : <<p, k>> \in touched
    /\ project[p].status # "importing"
    /\ project[p].status = "ready" =>
         /\ \A e \in EnvNames : env[p][e] # "none"
         /\ \A k \in Keys \ EnvNames : step[p][k] \in {"done", "none"}
    /\ p \notin overlap /\ (\A e \in EnvNames : <<p, e>> \notin touched) =>
         /\ HealthVerdict(p) = "live" =>
              \A e \in EnvNames : step[p][e] # "failed"
         /\ HealthVerdict(p) \in {"degraded", "down"} =>
              \E e \in EnvNames : step[p][e] # "done"

(* What runs for a project is its own repository, if no project of another *)
(* organisation, and no import of a deleted one, had its slug.             *)
RunsOwnCode ==
  \A p \in Projects \ shared, e \in EnvNames :
    {app[p][e], stray[p][e]} \subseteq
      {Nothing, project[p].repo, worker[p].row.repo}

(* Nothing runs that no page shows: a process has its LIVE row, and a      *)
(* stack an environment to name it, so that a stop, the next deployment or *)
(* the deletion ends it.  The exceptions are a deployment that overlapped  *)
(* the deletion, and what is astray: a process whose server was restarted  *)
(* before its pid was saved, and containers whose compose down failed.     *)
NothingRunsUnseen ==
  \A p \in Projects \ overlap, e \in EnvNames :
    app[p][e] # Nothing =>
      /\ Exists(p) /\ env[p][e] # "none"
      /\ ~IsStack(p) => env[p][e] = "live"

(* An agent that is DONE has committed what it changed, unless git refused *)
(* the commit, if its clone was its project's alone, and complete when it  *)
(* was launched.                                                           *)
AgentsKeepTheirWork ==
  \A r \in Runs :
    /\ run[r].status = "done" /\ run[r].edits /\ ~run[r].refused
    /\ run[r].project \notin shared /\ ~run[r].early
    => run[r].commit

(* A deleted project comes back only by a save of the whole row by its own *)
(* import, as READY or, at the gate for unsupported runtimes, FAILED; the  *)
(* handler of a failed import, and everything else, leaves it deleted.     *)
DeletedStaysDeleted ==
  [][\A p \in Projects :
       deletion[p] = "deleted" /\ ~Exists(p) /\ Exists(p)' =>
         /\ worker[p].pc = "save"
         /\ project[p].status' = IF worker[p].framework = "none" THEN "failed"
                                 ELSE "ready"]_vars

(* projects/models.py: slugs are unique per organisation "so two orgs can  *)
(* each have e.g. an api project", and local_path is "the canonical clone  *)
(* Hull manages": what runs for a project is its own repository.           *)
EachOrgItsOwn ==
  \A p \in Projects, e \in EnvNames :
    {app[p][e], stray[p][e]} \subseteq
      {Nothing, project[p].repo, worker[p].row.repo}
=============================================================================
