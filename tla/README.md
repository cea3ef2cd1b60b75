# Hull, verified

TLA+ models of Hull, the platform in this repository: a Django application that
imports repositories, deploys them, watches their logs, opens incidents, lets an
agent write the fix, tests it, merges it and ships it, with the on-call board,
backlog, wiki and member consoles around that loop. Python files are named
relative to the root of the repository.

Contents: [the system](#the-system) · [modules](#the-modules) ·
[modules and code](#modules-and-code) · [runs](#runs) ·
[fairness](#fairness) · [proofs](#proofs) ·
[what the documents say and the code does not do](#what-the-documents-say-and-the-code-does-not-do) ·
[left out](#left-out)

## The system

Hull is one Django project served by gunicorn (`deploy/bootstrap.sh:82`: three
worker processes of four threads; `deploy/remote_setup.sh:75`: one process of
eight threads). Everything that lasts is a row of one SQLite database; no code
opens a transaction (`ATOMIC_REQUESTS` is not set and `transaction.atomic` and
`select_for_update` are not used), so every `save()` and `create()` is atomic by
itself and nothing longer is. Background work runs in daemon threads of whatever
process took the request. A write may raise "database is locked". What lives in
a process's memory (the remediation guard, the registry of subprocesses, the set
of tailers, the traceback buffers) is neither shared nor saved.

| component | state | operations | what makes it hard | what makes it correct |
|---|---|---|---|---|
| orchestration (`orchestration/service.py`) | `WorkflowRun` rows; `_REMEDIATING_INCIDENTS` per process; a thread per run | `remediate`, `_run`, the pipeline's steps, `run_ci`, Temporal or its fallback | several triggers of one incident, steps that each save a row a human may be saving, errors between any two writes, restarts | the guard holds exactly the runs at work; a run's row reaches its outcome; nothing unreviewed or red is merged by the loop; what production runs is on record; an incident whose fix ships is resolved |
| deploys (`deploys/services.py`) | `Deployment`, `Environment` rows; `_PROCS` per process; the apps' processes and ports | `deploy`, `_deploy_compose`, `stop`, `restart`, `rollback`, `allocate_port` | two deploys at once, a stop during a build, test-then-bind of ports, errors in the error handler, the apps outlive the server | one live row per environment, one owner per port, no process behind a FAILED row, every app stoppable from its row |
| log tailer and tee (`deploys/tailer.py`, `deploys/services.py`) | `_TAILERS`, tees per process, a file offset each | `start_tailer`, `ensure_tailers`, `_tail`, `_tee_compose_logs` | per-process registry, exit while idle | every line that is read is ingested once per reader |
| reverse proxy (`deploys/views.py`) | none: reads `Environment.current_deployment` | forward a request | the row it picks may be of another app than the port | requests reach the environment's live app |
| vcs (`vcs/services.py`, `vcs/views.py`) | `PullRequest` rows; the project's single checkout | open, merge, CI, conflict probe | git first, row after; page views that merge and abort in the same checkout | a MERGED row iff git merged; the checkout is clean between operations |
| agents (`agents/services.py`) | `Worktree`, `AgentRun` rows; worktree directories; a CLI subprocess | launch, run, commit | the clone may be replaced under the worktree; error after the pull request exists | a DONE run has committed its changes |
| issues (`issues/`) | `Ticket`, `Activity`, `Board`, `Sprint` rows | file, edit, move, pick up, find-or-create by incident, advance on merge | check-then-create, maximum-plus-one keys, whole-row saves of old copies | one ticket per incident; a merge closes its tickets; keys are unique |
| observability (`observability/services.py`) | `LogLine`, `MetricPoint`, `Incident`, `Monitor` rows; `_BUFFERS` per process | ingest a line, assemble a traceback, open or update an incident, evaluate monitors | interleaved lines, several readers, edits and mutes of a monitor during a breach | every traceback counts once for its own error; one open incident per signature; a recovered monitor's incident is resolved, and no other |
| oncall (`oncall/`) | `Schedule`, `EscalationPolicy`, `RoutingRule`, `TimelineEntry`, `Postmortem` rows | ack, resolve, reopen, tick, route | check-then-record; reroutes, reopened incidents | escalations climb; somebody is always on call |
| projects (`projects/`) | `Project`, `ImportStep`, `Environment` rows; the clone's directory | import form, import thread, deployments, deletion, health card | a chain of saves in a thread, directories named by slugs that are not unique, deletion meanwhile | steps settle; a project runs its own code; a deleted one stays deleted |
| accounts, enterprise | `Organization`, `Membership`, `Invitation`, `ApiKey`, `AuditLog` rows | change, remove, invite, accept, revoke | check-then-act on the number of owners, two consoles | an organisation has an owner; a revoked key is dead; the trail is a chain |
| wiki (`wiki/`) | `Page`, `PageRevision`, `PageLink` rows | new, edit, move, restore, delete | lost updates, numbering, links rewritten row by row | no text is lost; links are those of the text |
| core | `Event` rows | `Event.log`, dashboard | an insert that may raise inside everybody's `try` | (modelled where it changes its caller) |

How they interact. A log line of an app is ingested in the web server; a
traceback opens an incident, which is routed and paged, and
`open_or_update_incident` calls `orchestration.remediate` in the same thread.
The pipeline thread acknowledges the incident, has issues file a ticket, has
agents cut a worktree and run the CLI, which commits and has vcs open a pull
request; runs CI on it; with `HELM_AUTO_MERGE=1` has vcs merge it (whose save
has issues close its tickets) and deploys deploy `prod`; and resolves the
incident, which has oncall record it. Each ingested line also evaluates the
monitors. Humans press ack, resolve, reopen, remediate, merge, "run CI", deploy,
stop and rollback on the same rows at any time. The default of
`HELM_AUTO_MERGE` is 0: then the pipeline ends after CI and a human merges.

## The modules

| module | models | proofs |
|---|---|---|
| `SingleFlight` | the abstract guard: one job per key and holder | refined by `Remediation`, in `RemediationProofs` |
| `Remediation` | the loop, with humans, errors, restarts | `RemediationProofs` |
| `Deploys` | deployments, apps and ports | `DeploysProofs` |
| `Vcs` | the shared clone, git command by git command | `VcsProofs` |
| `Ingestion` | log readers of several processes, tracebacks, incidents | `IngestionProofs` |
| `Signals` | percentiles, rates, comparators, the rota, as operators | `OncallProofs` |
| `Oncall` (extends `Signals`) | monitors, routing, escalation, and the pages and the loop around them | `OncallProofs` |
| `Backlog` | tickets, keys, merges | `TrackerProofs` |
| `Wiki` | pages, revisions, links | `TrackerProofs` |
| `Members` | memberships in two consoles, invitations, API keys, audit | `MembersProofs` |
| `Projects` | imports, clones, deployments by imports and pages, agent runs, deletion, health | `ProjectsProofs` |

`MC*` modules give the constants values. `MCTracker` joins `Wiki` and `Backlog`
in one run: each behaviour works on one of them.

Built in the order of what the system stands or falls with: the loop, what it
deploys, what it merges; then what feeds it (ingestion), what watches it
(oncall), and the rows of people around it. Left for a next step, in order: a
composition of `Ingestion` with `Oncall`, whose `Incident` rows are the same
table (each models the other's writes as its own actions today); pull-request
numbers and CI in the shared clone.

## Modules and code

`PROJECT.json` maps every definition to its lines; here is how to read them.
In all modules a step of the code that reads or writes one row is one action,
and several of them with something in between that another thread could see are
several actions. Variables marked "history" in a module's VARIABLES are read by
no action's guard and no assignment to another variable: they record which
steps overlapped, so that a property can name precisely the interleavings under
which the code does not keep a promise. The definitions named `X_Something`,
each in front of its `X`, are slips of the code that a run must notice.

### Remediation, SingleFlight

One thread of control per `WorkflowRun` row: `pc[r]` is where the run's thread
stands in `remediate`, `_run` and `_remediate_pipeline`, `wf[r]` is the row's
status. The acknowledgement and the "remediating" save are two steps, so a
human's resolve can fall between them. `guard[w]` is `_REMEDIATING_INCIDENTS` of
process `w`; `requests` holds calls of `remediate()` that have been made and not
yet got the lock. `creating[r]` is the moment between the lookup and the insert
of `ticket_for_incident`. `base` and `shipped` are the pull requests in git's
base branch and in the live production app; `pr` is the rows' status. A merge is
two actions, as the code writes one after the other (`vcs/services.py:163`,
`:188-190`): git merges (`LoopMerge`, `HumanMerge`), then the row is saved or
that raises (`LoopMergeSaves`, `HumanMergeRaises`, ...). In between a run stands
at `saveMerged`, or a page's request is in `merging`; a deployment of another run
may ship the merge there, and a restart may end the thread: `unrecorded` has the
merges whose save never came. `DbError` is a write
that raises; where it is caught depends on the stage (`PipelineRaises`,
`RecordFailedRaises`, `DispatchRaises`, ...). `Restart(w)` ends the threads and
empties the memory of `w`. Human buttons are actions with the guards their views
really enforce; `Buttons` chooses which are pressed. Parts of other components
appear as the outcomes the pipeline waits for.

`SingleFlight` says what the guard is for: a holder flies one job per key at a
time, a job is never flown twice, and a crash grounds all the flights of its
holder. `Remediation` implements it under a mapping that reads the flights off
the threads at work and not off the guard, so the refinement would fail if the
guard were released early, or not at all.

### Deploys

One deploy() thread per `Deployment` row; rows are numbers in the order of
creation, which is what `ordering = ["-created_at"]` sorts by. `proc[d]` is the
app: `starting` (spawned, has not bound its port), `serving`, `leaving` (got
SIGTERM, still answers), `down`. `port[d]` is the port the thread took, saved to
the row together with LIVE; a row's port is looked at only where the row is LIVE,
so the two need not be told apart. `inProcs[d]` is membership in `_PROCS` of the
process `worker[d]`. `stops` holds the stop() calls of pages: each has its copy
of the row (`knows`: the copy has a pid) and its place in the function. A stop()
made by deploy() is `StopPrev` then `SavePrev`. restart() and rollback() are
stop() and deploy(), or an event and deploy(), in one thread, and add no
behaviour to what a page's stop() and a new deploy() do in any order.

### Vcs

The clone of a project as state, and each call that works in it as a thread that
issues git commands one by one; between two of them any other thread or process
may run one of its own. `head` is the branch checked out, `tree` the index and
working tree in the four conditions git tells apart, `merged[b]` the pull
requests in branch `b`. The operators named after git (`CheckoutSucceeds`,
`MergeFails`, `MergeAborts`, ...) model what git 2.39 does and are marked
external; each was tried out in a scratch repository, in particular that a
checkout over a staged merge succeeds, keeps the changes and drops MERGE_HEAD,
after which `merge --abort` refuses. `Locked` is a command that finds
`index.lock` held and does nothing. `pr` and `worktree` are the rows' statuses,
saved after git has merged. The branches of pull requests exist and do not move;
nothing but these two functions touches the clone (CI of a pull request without
a worktree would, `orchestration/service.py:419-422`).

### Ingestion

`output[d]` is the log file of a deployment, written by the application
(`Prints`). A reader is a thread of a process: a tailer (`start_tailer` at
deployment, `Adopt` for `ensure_tailers` of another page), a tee of compose
logs, or a request that declares an incident by hand. `Take` reads a line,
`Store` inserts it, and between the two stands the state machine of
`ingest_line`, `Captured`, which runs under the process's lock and is atomic. A
finished traceback is looked up (`Look`), counted (`Bump`, an `F()` expression)
or given a number and inserted (`Number`, `Create`): four statements, with every
other thread in between. An incident is resolved or open, which is all the
look-up asks (`observability/services.py:350-355`). `Acknowledge` is the button
and the loop's saves of ACKNOWLEDGED and REMEDIATING: neither asks what the
status has become (`oncall/views.py:121-123`,
`orchestration/service.py:585-591`), so that over RESOLVED they open an incident
again as `Reopen` does. A line is a kind (`LineKinds`: heading, frame, summary,
request, other) with the error or the place it names; `MaxCapture` stands for
the 400 lines of the safety valve. `Signature` is the error with the deepest
frame in the source tree. `Drops` is a line whose statement raised; `Idle`,
`GivesUp` and `Leaves` are the tailer's exit, with its drain.

### Signals, Oncall

`Signals` has the arithmetic as operators on naturals: the nearest-rank
percentile, the error rate, the comparators, the ISO-week rota. `Oncall` has one
pass over the monitors per evaluator thread (`Begin` reads the rows, `Look`
takes one of them, `Breach` or `Recover` and `ResolveOwn` write) and one tick per
ticker (`TickStart`, `TickLook`, `TickRecord`), and the forms: monitors saved,
toggled, muted and deleted, incidents acknowledged, resolved, reopened and
regraded, rules and steps added, postmortems; tracebacks and the loop change the
same rows. `Delete` leaves the incident, as the code does.

### Backlog, Wiki

`Backlog`: a ticket is inserted with a blank key (number 0), its number is the
maximum plus one (`Mint`), and it is saved (`Key`). A form holds the copy it
read (`OpenForm`) and saves every column (`SaveForm`); the loop calls
`ticket_for_incident` three times; `MergeSaved`, `Query` and `Advance` are the
`post_save` handler. `Wiki`: an edit reads its page, takes the number of the last
revision, inserts the copy it read as a revision, saves the whole row, deletes
the page's links and creates them anew, in that order and in as many actions. A
deleted page that a pending edit saves is inserted again, as `save()` does.

### Members

A request enters a console with its guards (`Allowed`: the last-owner guard of
both consoles, and the members page's rule on owners), writes in the next step,
and leaves an audit entry in a third if it came through the enterprise console.
`Join` is `get_or_create`; `Touch` saves `last_used_at` only.

### Projects

`form`, `worker` and `deletion` are the threads of the import form, the import
and the deletion of a project, `redeploy[p][e]` that of a deployment asked for
on a page. `clone[s]` is what the directory of slug `s` holds, `app[p][e]` the
code that runs where a stop can find it, `stray[p][e]` code that runs where none
can. All projects are imported under one name, so slugs are numbers; `Declares`
gives the runtime files of a repository. `shared` names the projects whose slug
another project of another organisation, or a thread of a deleted one, had as
well.

Every write of the import may fail. A write of the stepper swallows its error
and leaves the step as it was (`Misses`, `projects/services.py:74`); git, the
saves and the environments raise into the handler; the handler's own save may
raise, and then the steps are not failed and the project stays IMPORTING
(`HandlerRaises`, `:644`). `unwritten` names the projects this happened to.

Of a deployment, its start (`Begun`: the row is BUILDING, a process that was LIVE
is stopped) and its outcome (`DeployedLive`, `DeployedFailed`, and
`DeployedNowhere` when its environment was deleted) are two actions, for the
import (`StartDeploy`, `DeployReturns`) and for the page (`AskDeploy`,
`RedeployReturns`), which as a rule does not touch the stepper. `AskStop` is the
stop button of a deployment, `Dies` the death of an application, of which no row
tells. What lies between start and outcome, deployments of one environment that
overlap, pids and ports are the subject of `Deploys`. Docker is taken to be
there: without it a compose project is deployed as a process.

A restart ends all threads. A process that was polled then runs on in its own
session, with its pid in no row (`deploys/services.py:549-582`), and is `stray`;
containers are still found by their name. `git` is run with `check=False` for an
agent's commit, so that a commit that git refuses ends DONE (`FinishRun`,
`refused`).

## Runs

All of them run with `CHECK_DEADLOCK FALSE`: a system in which every thread has
ended, no button is pressed any more and all bounds are used up really stops.

| run | instance | what it shows |
|---|---|---|
| `remediation_guard` | 2 processes, 1 incident, 2 runs, 1 database error, 1 restart, no auto-merge, Temporal asked for | the guard is exact, outcomes are recorded, nothing is merged behind the human gate, `SingleFlight` is implemented |
| `remediation_humans` | 1 process, 2 runs, auto-merge, remediate, merge and CI buttons, 1 error, 1 rerun, 1 restart | one ticket per incident, only green fixes past the gate, production runs only merges that are recorded, about to be, or whose save was lost |
| `remediation_live` | 1 process, 2 runs, auto-merge, status buttons, 1 error, 1 restart, `FairSpec` | the guard is given back, rows reach an outcome, an incident whose fix ships ends resolved |
| `deploys_rows` | 2 environments (one of compose), 2 deployments, 2 ports, 2 processes, 1 page stop, 1 error | what the rows say of apps, ports and each other, at every moment |
| `deploys_poll` | 1 environment, 2 deployments, 1 stop, 1 restart, `FairSpec` | deploy() ends once its app is started |
| `vcs_rows` | 3 pull requests (two conflict), 2 base branches, 2 threads, 1 index.lock met, 1 error, 1 restart | git against the rows, the right base branch, who cleans the clone up |
| `ingestion` | a process or a compose deployment, 2 processes, 2 readers, a valve of 1 line, 1 incident that leaves RESOLVED again, 1 fault | every traceback counts once, and duplicates of incidents and numbers come from overlapping look-ups only |
| `oncall` | 1 monitor with 2 forms, 2 signals, 2 policies, 1 evaluator, 1 ticker, 3 events, `FairSpec` | escalations climb, recovery is surgical, a quiet monitor ends without open incidents |
| `members` | 2 people, 1 organisation, 1 invitation, 1 key, 2 threads, 2 audit entries, 1 fault | an owner remains, the trail is a chain, a revoked key stays revoked |
| `projects` | 2 projects of one name, 2 organisations, 2 repositories, 2 forms, and any 2 of: 1 fault or restart, 1 deletion, 1 use of a page or agent | imports settle and agree with the health card, projects run their own code, nothing runs unseen, agents keep their work |
| `projects_clone` | as before, imports only | expected violation, see below |
| `tracker` | 2 pages, 2 spaces, 2 editors, 3 forms; or 2 workers, 4 jobs, 1 incident, 1 pull request | no text, link, key or merge is lost but to overlaps |

Why the bounds are enough to be interesting. Two runs of one incident are the
least in which a guard can fail, a ticket can be filed twice and a second run
can find what the first left behind; two deployments are the least that can
overlap, share a port or succeed each other, and two environments are needed for
a port to pass from one to the other; two threads and two base branches are the
least in which one call can work on the other's tree or branch; two readers are
the least that can look for one signature at once, two editors and three forms
the least in which a text is overwritten by an older copy. One error can strike
at every statement, and one restart at every step, because TLC tries all of
them. Beyond the checked-in bounds, `Oncall` was also run with two tickers and
two events without a change of the signals (58,529 states), `Wiki` with one
space and four forms (762,701 states) and with one page, three editors and five
forms (586,574). `SingleProcess`, the premise of `OneTicketPerIncident`, is true
in its run. `projects` bounds what happens besides two imports
by `MaxEvents` together and by kind (`MaxFaults`, `MaxDeletes`, `MaxAsked`); a
project misses one write of its stepper at most, and an environment has one
deployment under way at a time. Each hazard of the component needs two events at
most beyond the imports, and the proofs hold for every value of these bounds.
`projects`, `members` and the runs of the loop, the clone and the deployments
leave the type invariant to its proof. Where an unbounded number matters, the
safety properties are proved for all bounds (below).

## Fairness

`Remediation!FairSpec`: the thread of a run takes its next step, and a call of
`remediate()` gets the lock. Both are ordinary threads of a running server and
all they wait for are subprocesses: CI has a timeout of 600 s; that git and the
agent's CLI end is assumed, the code sets them no limit. No human, no error and
no restart is obliged to happen.

`Deploys!FairSpec`: a poll makes its next check, a request of the poll ends (it
has a timeout of 3 s), the recording steps run. The exit of the poll at its
deadline is strongly fair: the action is enabled whenever the loop is at its
head, which it leaves and reaches again for as long as it runs, and the clock
makes it leave in the end. Nothing is assumed of a build: its subprocesses have
no timeout, and `PollEnds` promises an end only once the app is started.

`Oncall!FairSpec`: a pass over the monitors begins and goes on. Every ingested
line starts one (`ingest_line` calls `evaluate_monitors`), so the assumption is
that the application keeps printing; an application that falls silent is not
watched, and its incidents stay as they are. `QuietClears` promises an end of
incidents only for a monitor that stays quiet.

## Proofs

All for every value of the constants: any number of processes, threads, rows,
errors and restarts. The assumptions are those of the modules (`XAssumption` in
module `X`): bounds are natural numbers, the value for "none" is not one of the
others, given data have their types. Every module with proofs begins with its
type invariant, which is inductive by itself or nearly so and says besides the
types what a thread has in hand at each stage. Proofs of a step are laid out
alike: a lemma per action (`XDoes`) says what the action changes, a lemma per
invariant (`...Frame`) says which changes leave it alone, and the step goes
through the disjuncts of `Next`.

`OncallAssumption` says more than types, each from the code: the latencies of a
rollup are sorted (`observability/services.py:573` sorts them), the forms are
rows of `Monitor` with its choices of metric and comparator
(`observability/models.py:176-211`), a step's schedule is a schedule or nobody,
and the steps there are and those that may be added are finitely many.

`RemediationProofs`

- `GuardCorrect`, `FlightCorrect`: `GuardAccounted` and `OnePipelinePerWorker`
  need each other. A release of one run must not free the incident of another,
  which holds because no other run of the process works on it; and a new run may
  start only if the guard is empty of the incident, which says that no run works
  on it because the guard is exact. The refinement of `SingleFlight` follows step
  by step: taking the guard is `Start`, the release `Land`, a restart `Crash`,
  all else stutters.
- `OutcomeCorrect`, `GateCorrect`, `HumanGateCorrect`, `LiveCodeCorrect`,
  `TicketCorrect`: each with an invariant of its own that says what a stage has
  behind it (what has been saved before `release`, what the gate saw, what git
  merged and which row says so or whose save is to come or lost). The invariant
  of `LiveCodeCorrect` speaks of `base`, because any thread may ship it at any
  time. `TicketCorrect` assumes a single server process,
  as its property says, and rests on `GuardCorrect`: at most one thread at a
  time is between the lookup and the insert for an incident.

`DeploysProofs`

- `AppsCorrect` and `StoppableCorrect`: by an invariant of the stages: from `Spawn` to the save of LIVE
  the app is in `_PROCS` or has been told to go; after that its pid is in the
  row. That is why the error handler can rely on `_PROCS`.
- `PortsCorrect`: two deployments with one port have crossed, or the earlier
  app is down for good and its row is not LIVE, or the later one has yet to be
  given the port. The test of `allocate_port` (no LIVE row, nobody bound)
  establishes it, and the history variable says precisely when it does not
  hold: an app that is still `starting` is bound to nothing.
- `SuccessionCorrect`: an invariant on the order of deployments of one
  environment without overlap: an older row stops being LIVE before a newer one
  leaves its early stages, unless an error ended that thread first.
- `LiveVisible`: the same invariants, read for the row the proxy picks: a newer
  row that is over is STOPPED or LIVE itself.

`VcsProofs`

- `MergeRecorded`: inductive once one adds that a thread at the second save has
  the first behind it.
- `BaseCorrect`: the history variable has every pair of calls at work; while
  they are all for one base branch, a thread past its checkout still finds that
  branch checked out, and a thread past its merge finds it merged there.
- `OwnerCorrect`: `HalfMergeHasAnOwner` is inductive as it stands, under every
  interleaving: only a merge and a dry run start a merge, both go on to an abort,
  and an abort that git carries out ends whatever merge is in progress.
- `CleanCorrect`: with calls one after the other the tree is never left as
  residue and is dirty only in front of an abort. It rests on `BaseCorrect`'s
  invariant, for a merge fails with a conflict of *its* base branch only if that
  branch is checked out.

`IngestionProofs`

- `TypeCorrect`, `HandsCorrect`: the valve bounds a buffer because a capture ends
  with the line that fills it; a thread that counts has an incident in hand
  because rows of incidents are never deleted.
- `NumbersNameIncidents`: two threads that hold a number of one project have
  crossed (`HeldApart`), and a held number is new unless its project is among
  those that crossed (`HeldIsNew`). `next_incident_number` establishes the
  second: it is above every number there is, which needs that the numbers of the
  finitely many rows are bounded.
- `OneIsOpen`: of the threads that looked and found nothing no two are for one
  signature, unless they crossed (`MissedOnce`); what they missed is still not
  there (`MissedIsNew`); and a declared incident has a signature no traceback
  and no other declaration has (`DeclaresOnce`). An incident that leaves RESOLVED
  again puts its signature into `reopened`, whoever's save did it.
- `TracebacksCount`: in two parts. Of the state machine: the buffer is the
  capture that is open at the end of the lines fed (`Captures`), of which there
  is one at most (`OneOpens`), and a line adds to the tracebacks of the lines,
  said without a state machine, exactly the one that `Captured` hands on, with
  the same contents (`CaptureStep`). This needs no induction over the lines: a
  line only adds pairs that end with it, and changes no others. Of the counting:
  a finished traceback is pending until it is counted or dropped, is named by its
  thread and its place in the output, so that no two pending ones are confused
  (`HandsAreClean`: what a thread dropped lies before what it holds), and every
  step is one of three: nothing is counted, one more is detected and pending, or
  one leaves the pending and is one more occurrence (`NothingCounts`,
  `OneIsDetected`, `OneIsCounted`), besides declarations, which have a signature
  of their own (`OneIsDeclared`). That a thread counts for the right error is
  `HandsAreClean` again: the incident it will count has the signature of what it
  holds, because no action changes the signature of a row.

`MembersProofs`

- `OwnersRemain`: while no two requests that may take an owner away overlapped,
  the one under way leaves somebody else an owner (`OwnerInv`): the guard saw two
  and nothing has taken one since.
- `KeysStayRevoked`: an action property, from the guards of creation and the
  columns that `Touch` saves.
- `TrailHolds`: of a membership that is not tangled one request at a time is the
  writer (`OneWriter`), and the row is what it read or, once saved, what it will
  record (`HasRead`); the last entry tells the row, or the writer has yet to
  tell (`LastTells`); neighbours fit (`Linked`). A new organisation starts with
  no entry about it (`Founding`), so the owner's first row breaks no chain. The
  property speaks of the least later entry, which exists because the numbers of
  entries are well-founded.

`TrackerProofs`, of `Backlog`

- `KeysNameTickets`: a ticket is blank while it is being keyed, by one worker
  only; a form that has no key for a ticket may be open, and one that has, has
  the right one; two held numbers of one prefix were minted together or differ;
  a held number is not in the table, but for tickets excused by the history.
- `MergeClosesTickets`: a ticket of a merged pull request that is not Done and
  that nobody touched is in the hands of a handler: it is at its query, or the
  ticket is among those it has yet to save.

and of `Wiki`

- `TextIsKept`: a text that is in no revision yet is the page's, and every request
  that will overwrite it holds it and has yet to record it.
- `LinksAreRight`: the links there are and those a request has yet to create are
  together those of the text; deleting a page nulls the links to it, so none
  dangles.

`OncallProofs`

- Of the operators, for all windows, percentages, schedules and weeks: the
  percentile is the nearest rank, p50 <= p95 <= p99, the error rate is a
  percentage, complementary comparators disagree on every value, weeks are
  numbered upwards over New Year, a schedule with members has one on call, and
  hands the pager on every week of a year. Over New Year it may pass a member
  over or stay: a year of 52 weeks leaves an index out (`oncall/models.py:58`).
- `RecoveryKeepsToItsOwn`, an action property: `SurgeryInv` says of a pass past
  its comparison that the signals it read do not breach the form it read, and
  of a pass about to resolve that the incident in its hand is a breach with the
  signature of that form. Both survive edits of the monitor, because the pass
  has its copies, and everything others do to the incident, because no action
  changes an incident's kind or signature.
- `EscalationsClimb`: of an incident outside the two histories (`LadderInv`)
  the entries climb; the highest is of a step that is due; a tick about to
  record a step knows the incident's severity, its step is due and above all
  entries; and it is alone. `NextStep` gives the highest order that is due, so it is at
  least every order recorded, and the look at the timeline makes it greater. This
  needs that what was due once stays due: the clock only advances, steps are
  only added, and an incident whose route may have changed is in `rerouted`.

`ProjectsProofs`

- `TypeCorrect`: inductive with what each thread has in hand (`Hands`) and with
  `FormInv`: a form at work is alone with its project, and no import has begun.
- `OwnCodeRuns`: a project holds a slug as long as its row has it or a thread
  carries a copy with it. `Apart`: a slug that is not shared has one holder.
  Every step that makes a second holder puts both in `shared`; among them is the
  save that brings a deleted row back. From this, while an import counts on its
  clone, nobody else empties or fills it (`ClonesAreOwn`), and a deployment runs
  what it finds there, as does what a restart leaves astray (`AppsAreOwn`).
- `NothingIsUnseen`: `AppInv` says of each environment what runs for it by the
  row of its newest deployment (`AppsOf`). A process runs only behind LIVE: a
  deployment begins by stopping it, a failure kills it, a stop or the deletion
  finds it by that row, its death only takes it away, and a restart puts what had
  no pid yet into `stray`. A stack runs on under its name through all of these,
  until the environment goes, and the deletion has taken it down by then, or put
  it into `stray`. `overlap` has the projects for which a deployment ended after
  that.
- `AgentsCommit`: a thread that may still remove the clone works for a project
  that is IMPORTING (`StillImporting`), and a run launched then is marked; past
  the clone the worktree of a run is there until its end (`RunKeeps`).
- `OnlySavesRevive`, an action property: of all that write a row of a project
  only the form's insert and the import's save can bring one into being, and the
  form's is of a project never deleted (`FormInv`).
- `ImportsEndWell`: by stages, for projects whose writes were not missed. What is
  behind the thread is done (`Behind`); the row's status is what the stage has
  saved (`Gated`); before deployment an environment that no page touched has not
  been deployed and no deployment step has begun (`Unbegun`); while the thread
  deploys, what is pending or running is still on its list, and a step that
  failed has a failed environment (`Underway`); at the end all this is `Settled`,
  through the failure handler from every stage. A page's deployment may at any
  time change an environment, which `touched` then names, and one that went the
  import's own path its step. The health verdict is compared by its definition
  alone.

Only model-checked. The liveness properties (`GuardIsReleased`, `RunIsRecorded`,
`ShippedFixResolves`, `PollEnds`, `QuietClears`): temporal reasoning from fairness
is out of the prover's reach. Every invariant and every action property of the
passing runs has a theorem. `EachOrgItsOwn` has none: it is the promise that
`projects_clone` refutes.

Attempting a proof found what the runs had not: with three editors, a text
whose page was deleted between another editor's snapshot and its save was
neither kept nor excused. `Wiki!exposed` has counted it since. And
`RecoveryIsSurgical` had been stated of any step taken while a pass stands at
`resolve`, so that a human's reopening of another incident in that very step
would have refuted it on a larger instance; it now speaks of the pass's own
step.

## What the documents say and the code does not do

One is the subject of a run. `projects_clone`: slugs are unique per organisation
(`projects/models.py:22`: "so two orgs can each have e.g. an 'api' project"), but
the clone's directory is named by the slug alone and emptied by an import
(`projects/services.py:471`, `:513`), so the first project's environments then run
the second organisation's code. `RunsOwnCode` says that nothing else makes a
project run other code than its own.

The others, seen while modelling. The properties state what the code does, with
the premise or the exception each of these makes necessary.

- The guard is per process, so with the three processes of `deploy/bootstrap.sh`
  an incident is remediated twice at once; `docs/backlog/orchestration.md:44-45`
  promises that it cannot be. `OneTicketPerIncident` has the premise
  `SingleProcess`.
- The pipeline looks at the result of neither its merge nor its deployment
  (`orchestration/service.py:689-700`), and resolves the incident with "fix
  shipped to production" also when git could not merge or the deployment FAILED;
  `README.md:89-90` says that an incident is resolved "only when a merged
  remediation PR ships and the prod URL stops erroring". `ShippedFixResolves` has
  the other direction: an incident whose fix does ship ends resolved. That it is
  resolved *only* then is false, and no property says so.
- `_temporal_body` uses `settings`, which the module does not import. The
  `NameError` is caught and the work runs on the local thread: Temporal never
  runs a workflow, against `orchestration/service.py:3-5`.
- The health poll can accept another deployment's answer, against its docstring
  (`deploys/services.py:371-373`); `PortIsExclusive` excepts deployments that
  crossed.
- Two calls in one clone at once can leave staged changes behind that no abort
  removes, after which no merge of the project succeeds; `vcs/tests.py:275`
  asserts that the "working tree must stay clean" after a page. `StaysClean`
  speaks of calls one after the other, `HalfMergeHasAnOwner` of all.
- The tailer is to stop "once the process is gone and we've drained"
  (`deploys/tailer.py:74`), but leaves as well when its file was idle for ten waits
  while the deployment is still BUILDING and its row has no pid; what is then
  printed before a page adopts the deployment is not read.
- The error handler of `deploy()` may itself raise (`docs/prd/deploys.md:215-220`
  says it never does); a rollback to the deployment that is LIVE sets that row
  STOPPED (`docs/prd/deploys.md:271-275`).

- A step of the stepper may stay pending for ever, with its page polling, and a
  project IMPORTING, when a write of the stepper or the handler's save fails; a
  FAILED step stays when a page later deploys its environment. `ImportsSettle`
  excepts both, by `unwritten` and `touched`.
- A process whose server was restarted before its pid was saved, or containers
  whose `compose down` failed, run on and no page can end them; an application
  that dies keeps its LIVE row. `NothingRunsUnseen` says that nothing else runs
  unseen.
- A run whose commit git refused is DONE (`agents/services.py:421-436`).
- A save of ACKNOWLEDGED over RESOLVED opens an incident again beside a newer one
  of its signature.

Also seen: rows RUNNING at a restart stay so; the loop writes a postmortem for
every severity, the resolve button for sev1 and sev2, the recovery of a monitor
none; the incident of a monitor that was edited, disabled or deleted never
recovers; a red wiki link stays red when its page appears; the pages of a project
still importing can be given an agent, whose worktree the clone's removal orphans;
a later save of a merged pull request sets a reopened ticket Done again.

## Left out

- `health_check` writes `Deployment.health`, which is shown and read by nothing;
  `Environment.port` likewise.
- Reuse of a pid by the kernel, and a `_kill_pid` that fails for lack of rights;
  installation subprocesses that hang (no fairness is assumed of builds).
- Environment variables, domains, comments, labels, sprints, boards, favourites,
  search, dashboards: forms of a single row and reads, whose interleavings are
  last-writer-wins and nothing else.
- The content of titles, branches, diffs and prompts; Markdown, the compose file
  builder, diff rendering and the templates are text to text.
- The Temporal worker, which nothing reaches (see above).
- The numbers of pull requests (a maximum plus one, as of incidents and tickets),
  stop and retry of agent runs, levels and metrics of a log line.
- In `Projects`: deployments of one environment that overlap (see `Deploys`), and
  the fallback of a compose project to a process where Docker is missing.

`PROJECT.json` lists each component with its status, and the one hazard no
property covers with the reason.
