--------------------------- MODULE ProjectsProofs ---------------------------
(***************************************************************************)
(* Theorems about Projects, for any number of projects, organisations,     *)
(* repositories, forms, agent runs, faults, deletions and deployments from *)
(* the pages.                                                              *)
(***************************************************************************)
EXTENDS Projects, FiniteSetTheorems, SequenceTheorems, WellFoundedInduction, TLAPS

USE DEF pages

(* The minimum of a set of naturals.                                       *)
LEMMA MinIs ==
  ASSUME NEW S \in SUBSET Nat, S # {}
  PROVE  Min(S) \in S
<1>1. \E u \in S : \A y \in S : ~ (<<y, u>> \in OpToRel(<, Nat))
  BY WFMin, NatLessThanWellFounded
<1>2. PICK u \in S : \A y \in S : ~ (y < u)
  BY <1>1 DEF OpToRel
<1>3. \A y \in S : u <= y
  BY <1>2
<1> QED
  BY <1>3, Zenon DEF Min

LEMMA SlugsAreNat == Slugs \subseteq Nat \ {0}
<1>1. Cardinality(Projects) \in Nat
  BY ProjectsAssumption, FS_CardinalityType
<1> QED
  BY <1>1 DEF Slugs

----------------------------------------------------------------------------
(***************************************************************************)
(* The type of the state.                                                  *)
(***************************************************************************)

Statuses   == {"importing", "ready", "failed"}
Frameworks == {"compose", "django", "procfile", "none"}
States     == {"none", "pending", "running", "done", "failed"}
EnvStates  == {"none", "empty", "building", "live", "failed"}
Asks       == {"none", "plain", "stepped"}

ProjectRows ==
  [status : Statuses, org : Orgs, slug : Slugs, repo : Repos,
   framework : Frameworks]

Stages ==
  {"none", "start", "ended", "lost", "rmtree", "cloning", "detect", "save",
   "environments", "gate", "except", "deploy", "deploying"}

Threads ==
  [pc : Stages, framework : Frameworks, todo : Seq(EnvNames),
   row : ProjectRows \union {NoProject}]

Submitted ==
  [pc : {"slug", "seed"}, org : Orgs, project : Projects, slug : Slugs,
   repo : Repos]

AgentRuns ==
  [status : {"none", "running", "done", "failed"}, alive : BOOLEAN,
   project : Projects \union {Nothing}, tree : Repos \union {Nothing},
   early : BOOLEAN, edits : BOOLEAN, commit : BOOLEAN, refused : BOOLEAN]

Typed ==
  /\ project \in [Projects -> ProjectRows \union {NoProject}]
  /\ step \in [Projects -> [Keys -> States]]
  /\ env \in [Projects -> [EnvNames -> EnvStates]]
  /\ clone \in [Slugs -> Repos \union {Nothing}]
  /\ app \in [Projects -> [EnvNames -> Repos \union {Nothing}]]
  /\ stray \in [Projects -> [EnvNames -> Repos \union {Nothing}]]
  /\ redeploy \in [Projects -> [EnvNames -> Asks]]
  /\ form \in [Forms -> Submitted \union {NoForm}]
  /\ worker \in [Projects -> Threads]
  /\ deletion \in [Projects -> {"none", "stopped", "deleted"}]
  /\ run \in [Runs -> AgentRuns]
  /\ shared \subseteq Projects /\ overlap \subseteq Projects
  /\ touched \subseteq Projects \X EnvNames /\ unwritten \subseteq Projects
  /\ faults \in 0 .. MaxFaults

(* The stages before the environments are there.                           *)
Unmade ==
  {"none", "start", "rmtree", "cloning", "detect", "save", "gate",
   "environments"}

(* Environments go with the row of their project.  A page deploys or stops *)
(* only environments that are there, and so none before the import has     *)
(* made them.                                                              *)
Paged(p, e) ==
  /\ env[p][e] # "none" => Exists(p)
  /\ env[p][e] # "none" \/ redeploy[p][e] # "none" =>
       worker[p].row \in ProjectRows
  /\ \/ redeploy[p][e] # "none"
     \/ worker[p].pc \in {"deploy", "deploying"}
     => ~Exists(p) \/ env[p][e] # "none"
  /\ redeploy[p][e] # "none" => <<p, e>> \in touched
  /\ worker[p].pc \in Unmade =>
       /\ env[p][e] = "none" /\ redeploy[p][e] = "none"
       /\ <<p, e>> \notin touched

(* What an import thread has in hand: the row it read, which is the row of *)
(* its project as long as there is one, and an environment to deploy.      *)
Hands(p) ==
  /\ worker[p].pc \in {"none", "start"} => worker[p].row = NoProject
  /\ Importing(p) => worker[p].row \in ProjectRows
  /\ worker[p].pc \in {"deploy", "deploying"} => worker[p].todo # <<>>
  /\ worker[p].row \in ProjectRows /\ Exists(p) =>
       /\ worker[p].row.org = project[p].org
       /\ worker[p].row.slug = project[p].slug
       /\ worker[p].row.repo = project[p].repo
  /\ \A e \in EnvNames : Paged(p, e)

(* A form is about a project no other form and no thread is about yet,     *)
(* and until it has written the row the project never was.                 *)
FormInv ==
  \A f \in Forms : form[f].pc # "idle" =>
    LET p == form[f].project
    IN /\ worker[p].pc = "none"
       /\ form[f].pc = "slug" => ~Exists(p) /\ deletion[p] = "none"
       /\ \A g \in Forms \ {f} : form[g].project # p

Shape == Typed /\ (\A p \in Projects : Hands(p)) /\ FormInv

LEMMA NoRowIsNone == NoProject \notin ProjectRows
BY DEF NoProject, ProjectRows, Statuses

(* A project's row is there or is NoProject; a form submitted has a        *)
(* project.                                                                *)
LEMMA RowsAre ==
  ASSUME Typed, NEW p \in Projects
  PROVE  /\ Exists(p) => project[p] \in ProjectRows
         /\ ~Exists(p) => project[p] = NoProject
         /\ project[p].slug \in {0} \union Slugs
         /\ project[p].slug # 0 => Exists(p)
<1>1. project[p] \in ProjectRows \union {NoProject}
  BY DEF Typed
<1>2. CASE project[p] = NoProject
  BY <1>2 DEF NoProject, Exists
<1>3. CASE project[p] \in ProjectRows
  BY <1>3, SlugsAreNat DEF ProjectRows, Exists, Statuses
<1> QED
  BY <1>1, <1>2, <1>3

LEMMA FormsAre ==
  ASSUME Typed, NEW f \in Forms
  PROVE  /\ form[f].pc # "idle" => form[f] \in Submitted
         /\ form[f].pc = "idle" => form[f] = NoForm
<1>1. form[f] \in Submitted \union {NoForm}
  BY DEF Typed
<1> QED
  BY <1>1 DEF NoForm, Submitted

----------------------------------------------------------------------------
(***************************************************************************)
(* What the operations do to the variables they change.                    *)
(***************************************************************************)

At(p, pc) ==
  /\ worker' \in [Projects -> Threads]
  /\ worker'[p].pc = pc
  /\ \A q \in Projects \ {p} : worker'[q] = worker[q]

Keeps(p) ==
  /\ worker'[p].framework = worker[p].framework
  /\ worker'[p].todo = worker[p].todo
  /\ worker'[p].row = worker[p].row

LEMMA SetWorkerAt ==
  ASSUME Typed, NEW p \in Projects, NEW pc \in Stages, SetWorker(p, pc)
  PROVE  At(p, pc) /\ Keeps(p)
<1>1. worker \in [Projects -> Threads]
  BY DEF Typed
<1>2. worker' = [worker EXCEPT ![p] = [worker[p] EXCEPT !.pc = pc]]
  BY <1>1 DEF SetWorker
<1>3. worker[p] \in Threads
  BY <1>1
<1>4. [worker[p] EXCEPT !.pc = pc] \in Threads
  BY <1>3 DEF Threads
<1> QED
  BY <1>1, <1>2, <1>3, <1>4 DEF At, Keeps, Threads

(* The stepper of p and the writes it missed; those of others stay.        *)
Stepped(p) ==
  /\ step' \in [Projects -> [Keys -> States]]
  /\ \A q \in Projects \ {p} : step'[q] = step[q]
  /\ unwritten' \subseteq Projects /\ unwritten \subseteq unwritten'
  /\ \A q \in Projects \ {p} : q \in unwritten' => q \in unwritten

(* The steps of a project in K get the state s, if they have rows and no   *)
(* write is missed.                                                        *)
Marks(p, K, s) ==
  /\ Stepped(p)
  /\ \A k \in Keys :
       /\ step[p][k] = "none" \/ k \notin K => step'[p][k] = step[p][k]
       /\ k \in K => step'[p][k] \in {s, step[p][k]}
       /\ step[p][k] # "none" /\ k \in K => p \in unwritten' \/ step'[p][k] = s

LEMMA SetStepsIs ==
  ASSUME Typed, NEW p \in Projects, NEW K, NEW c,
         K \subseteq Keys, c \in [K -> States], SetSteps(p, c)
  PROVE  /\ Stepped(p)
         /\ \A k \in Keys :
              /\ step[p][k] = "none" \/ k \notin K => step'[p][k] = step[p][k]
              /\ k \in K => step'[p][k] \in {c[k], step[p][k]}
              /\ step[p][k] # "none" /\ k \in K =>
                   p \in unwritten' \/ step'[p][k] = c[k]
<1>1. step \in [Projects -> [Keys -> States]] /\ unwritten \subseteq Projects
  BY DEF Typed
<1>2. PICK missed \in Misses(p, DOMAIN c) :
        /\ step' = [step EXCEPT ![p] = [k \in Keys |->
               IF @[k] # "none" /\ k \in DOMAIN c \ missed
               THEN c[k] ELSE @[k]]]
        /\ unwritten' = IF missed = {} THEN unwritten ELSE unwritten \union {p}
  BY DEF SetSteps
<1>3. DOMAIN c = K
  OBVIOUS
<1> DEFINE new == [k \in Keys |-> IF step[p][k] # "none" /\ k \in K \ missed
                                  THEN c[k] ELSE step[p][k]]
<1>4. step' = [step EXCEPT ![p] = new]
  BY <1>1, <1>2, <1>3
<1>5. new \in [Keys -> States]
  <2>1. \A k \in Keys : step[p][k] \in States
    BY <1>1
  <2>2. \A k \in K : c[k] \in States
    OBVIOUS
  <2> QED
    BY <2>1, <2>2
<1>6. step'[p] = new /\ Stepped(p)
  <2> HIDE DEF new
  <2> QED
    BY <1>1, <1>2, <1>4, <1>5 DEF Stepped
<1>7. missed = {} \/ p \in unwritten'
  BY <1>2
<1> QED
  BY <1>6, <1>7

LEMMA SetStepIs ==
  ASSUME Typed, NEW p \in Projects, NEW key \in Keys, NEW s \in States,
         SetStep(p, key, s)
  PROVE  Marks(p, {key}, s)
<1> DEFINE K == {key}
           c == [k \in K |-> s]
<1>1. K \subseteq Keys /\ c \in [K -> States]
  OBVIOUS
<1>2. SetSteps(p, c)
  BY DEF SetStep
<1>3. (\A k \in K : c[k] = s) /\ K = {key}
  OBVIOUS
<1> HIDE DEF c, K
<1>4. /\ Stepped(p)
      /\ \A k \in Keys :
           /\ step[p][k] = "none" \/ k \notin K => step'[p][k] = step[p][k]
           /\ k \in K => step'[p][k] \in {c[k], step[p][k]}
           /\ step[p][k] # "none" /\ k \in K =>
                p \in unwritten' \/ step'[p][k] = c[k]
  BY <1>1, <1>2, SetStepsIs
<1> QED
  BY <1>3, <1>4 DEF Marks

(* Every step that is pending or running becomes failed, if no write is    *)
(* missed.                                                                 *)
Fails(p) ==
  /\ Stepped(p)
  /\ p \notin unwritten' => \A k \in Keys : step'[p][k] =
       IF step[p][k] \in {"pending", "running"} THEN "failed" ELSE step[p][k]

LEMMA FailPendingIs ==
  ASSUME Typed, NEW p \in Projects, FailPendingSteps(p)
  PROVE  Fails(p)
<1> DEFINE K == Unfinished(p)
           c == [k \in K |-> "failed"]
<1>1. K \subseteq Keys /\ c \in [K -> States]
  BY DEF Unfinished, States
<1>2. SetSteps(p, c)
  BY DEF FailPendingSteps
<1>3. /\ \A k \in K : c[k] = "failed" /\ step[p][k] \in {"pending", "running"}
      /\ \A k \in Keys \ K : step[p][k] \notin {"pending", "running"}
  BY DEF Unfinished
<1> HIDE DEF c, K
<1>4. Stepped(p)
  BY <1>1, <1>2, SetStepsIs
<1>5. \A k \in Keys :
        /\ k \notin K => step'[p][k] = step[p][k]
        /\ step[p][k] # "none" /\ k \in K => p \in unwritten' \/ step'[p][k] = c[k]
  BY <1>1, <1>2, SetStepsIs
<1> QED
  BY <1>3, <1>4, <1>5 DEF Fails

LEMMA DetectIs ==
  ASSUME NEW r \in Repos \union {Nothing}
  PROVE  DetectRuntime(r) \in Frameworks
BY DEF DetectRuntime, Frameworks

LEMMA FaultIs ==
  ASSUME Typed, Fault
  PROVE  faults' \in 0 .. MaxFaults
<1>1. Cardinality(unwritten) \in Nat
  BY ProjectsAssumption, FS_Subset, FS_CardinalityType DEF Typed
<1>2. faults + Cardinality(unwritten) < MaxFaults /\ faults' = faults + 1
  BY DEF Fault, MayFail, Failed
<1> QED
  BY <1>1, <1>2, ProjectsAssumption DEF Typed

LEMMA SetFormIs ==
  ASSUME Typed, NEW f \in Forms, NEW v \in Submitted \union {NoForm}, SetForm(f, v)
  PROVE  /\ form' \in [Forms -> Submitted \union {NoForm}]
         /\ form'[f] = v
         /\ \A g \in Forms \ {f} : form'[g] = form[g]
BY DEF Typed, SetForm

(* The trees of agents are lost for a clone that is gone.                  *)
LEMMA OrphanIs ==
  ASSUME Typed, NEW s, Orphan(s)
  PROVE  /\ run' \in [Runs -> AgentRuns]
         /\ \A r \in Runs :
              /\ run'[r].status = run[r].status /\ run'[r].project = run[r].project
              /\ run'[r].early = run[r].early /\ run'[r].edits = run[r].edits
              /\ run'[r].refused = run[r].refused
              /\ run'[r].commit = run[r].commit
              /\ \/ run'[r].tree = run[r].tree
                 \/ run[r].project # Nothing /\ project[run[r].project].slug = s
<1>1. run \in [Runs -> AgentRuns]
  BY DEF Typed
<1> SUFFICES ASSUME NEW r \in Runs
             PROVE  /\ run'[r] \in AgentRuns
                    /\ run'[r].status = run[r].status /\ run'[r].project = run[r].project
                    /\ run'[r].early = run[r].early /\ run'[r].edits = run[r].edits
                    /\ run'[r].refused = run[r].refused
                    /\ run'[r].commit = run[r].commit
                    /\ \/ run'[r].tree = run[r].tree
                       \/ run[r].project # Nothing /\ project[run[r].project].slug = s
  BY DEF Orphan
<1>2. run[r] \in AgentRuns
  BY <1>1
<1>3. CASE run[r].project # Nothing /\ project[run[r].project].slug = s
  <2>1. run'[r] = [run[r] EXCEPT !.tree = Nothing]
    BY <1>3 DEF Orphan
  <2> QED
    BY <1>2, <1>3, <2>1 DEF AgentRuns
<1>4. CASE ~(run[r].project # Nothing /\ project[run[r].project].slug = s)
  <2>1. run'[r] = run[r]
    BY <1>4 DEF Orphan
  <2> QED
    BY <1>2, <2>1
<1> QED
  BY <1>3, <1>4

(* Row p is written, the others stay.                                      *)
Writes(p) ==
  /\ project' \in [Projects -> ProjectRows \union {NoProject}]
  /\ \A q \in Projects \ {p} : project'[q] = project[q]

LEMMA SharingIs ==
  ASSUME NEW p \in Projects, NEW o, NEW s
  PROVE  Sharing(p, o, s) \subseteq Projects
BY DEF Sharing

(* AskImport: the form holds a slug and is about a project that never was. *)
LEMMA AskImportDoes ==
  ASSUME Typed, NEW f \in Forms, NEW o \in Orgs, NEW p \in Projects,
         NEW r \in Repos, AskImport(f, o, p, r)
  PROVE  /\ form' \in [Forms -> Submitted \union {NoForm}]
         /\ form'[f].pc = "slug" /\ form'[f].project = p
         /\ \A g \in Forms \ {f} : form'[g] = form[g]
<1> DEFINE S == {s \in Slugs : Slugged(o, s) = {}}
<1>1. S \in SUBSET Nat /\ S # {} /\ S \subseteq Slugs
  BY SlugsAreNat DEF AskImport
<1> HIDE DEF S
<1>2. Min(S) \in Slugs
  BY <1>1, MinIs
<1>3. UniqueSlug(o) \in Slugs
  BY <1>2 DEF UniqueSlug, S
<1> DEFINE v == [pc |-> "slug", org |-> o, project |-> p, slug |-> UniqueSlug(o), repo |-> r]
<1>4. v \in Submitted /\ SetForm(f, v)
  BY <1>3 DEF AskImport, Submitted
<1>5. v.pc = "slug" /\ v.project = p
  OBVIOUS
<1> HIDE DEF v
<1> QED
  BY <1>4, <1>5, SetFormIs

(* CreateShell: the row of the form's project, importing.                  *)
LEMMA CreateShellDoes ==
  ASSUME Typed, NEW f \in Forms, CreateShell(f)
  PROVE  /\ form[f] \in Submitted
         /\ Writes(form[f].project)
         /\ project'[form[f].project].status = "importing"
         /\ project'[form[f].project].slug = form[f].slug
         /\ project'[form[f].project].org = form[f].org
         /\ shared' = shared \union Sharing(form[f].project, form[f].org, form[f].slug)
         /\ form' \in [Forms -> Submitted \union {NoForm}]
         /\ form'[f].pc = "seed" /\ form'[f].project = form[f].project
         /\ \A g \in Forms \ {f} : form'[g] = form[g]
<1>1. form[f] \in Submitted
  BY FormsAre DEF CreateShell
<1> DEFINE row == [status |-> "importing", org |-> form[f].org,
                   slug |-> form[f].slug, repo |-> form[f].repo,
                   framework |-> "none"]
           v == [form[f] EXCEPT !.pc = "seed"]
<1>2. row \in ProjectRows
  BY <1>1 DEF Submitted, ProjectRows, Statuses, Frameworks
<1>3. v \in Submitted /\ v.pc = "seed" /\ v.project = form[f].project
  BY <1>1 DEF Submitted
<1>4. form[f].project \in Projects /\ project \in [Projects -> ProjectRows \union {NoProject}]
  BY <1>1 DEF Submitted, Typed
<1>5. project' = [project EXCEPT ![form[f].project] = row] /\ SetForm(f, v)
      /\ shared' = shared \union Sharing(form[f].project, form[f].org, form[f].slug)
  BY DEF CreateShell
<1>6. row.status = "importing" /\ row.slug = form[f].slug /\ row.org = form[f].org
  OBVIOUS
<1> HIDE DEF row, v
<1>7. Writes(form[f].project) /\ project'[form[f].project] = row
  BY <1>2, <1>4, <1>5 DEF Writes
<1>8. /\ form' \in [Forms -> Submitted \union {NoForm}]
      /\ form'[f] = v
      /\ \A g \in Forms \ {f} : form'[g] = form[g]
  BY <1>3, <1>5, SetFormIs
<1> QED
  BY <1>1, <1>3, <1>5, <1>6, <1>7, <1>8

(* StartImport: the thread has the row.                                    *)
LEMMA StartImportDoes ==
  ASSUME Typed, NEW p \in Projects, StartImport(p)
  PROVE  /\ At(p, "rmtree") /\ worker'[p].row = project[p]
         /\ worker'[p].framework = worker[p].framework
         /\ worker'[p].todo = worker[p].todo
         /\ Marks(p, {"clone"}, "running")
<1>1. worker \in [Projects -> Threads] /\ worker[p] \in Threads
      /\ project[p] \in ProjectRows \union {NoProject}
  BY DEF Typed
<1> DEFINE v == [[worker[p] EXCEPT !.pc = "rmtree"] EXCEPT !.row = project[p]]
<1>2. worker' = [worker EXCEPT ![p] = v]
  BY <1>1 DEF StartImport
<1>3. [worker[p] EXCEPT !.pc = "rmtree"] \in Threads
  BY <1>1 DEF Threads, Stages
<1>4. v \in Threads /\ v.pc = "rmtree" /\ v.row = project[p]
      /\ v.framework = worker[p].framework /\ v.todo = worker[p].todo
  BY <1>1, <1>3 DEF Threads
<1>5. Marks(p, {"clone"}, "running")
  BY SetStepIs DEF StartImport, Keys, States
<1> HIDE DEF v
<1> QED
  BY <1>1, <1>2, <1>4, <1>5 DEF At

(* Detect: what the clone declares.                                        *)
LEMMA DetectDoes ==
  ASSUME Typed, NEW p \in Projects, Hands(p), Detect(p)
  PROVE  /\ At(p, "save") /\ worker'[p].row = worker[p].row
         /\ worker'[p].todo = worker[p].todo
         /\ \/ worker'[p].framework = "none" /\ UNCHANGED <<step, unwritten>>
            \/ worker'[p].framework # "none" /\ Marks(p, {"detect", "verify"}, "done")
<1> DEFINE fw == DetectRuntime(clone[worker[p].row.slug])
<1>1. worker \in [Projects -> Threads] /\ worker[p] \in Threads
  BY DEF Typed
<1>2. fw \in Frameworks
  <2>1. worker[p].row \in ProjectRows
    BY DEF Hands, Detect, Importing
  <2>2. clone[worker[p].row.slug] \in Repos \union {Nothing}
    BY <2>1 DEF Typed, ProjectRows
  <2> QED
    BY <2>2, DetectIs
<1>3. \/ fw = "none" /\ UNCHANGED <<step, unwritten>>
      \/ fw # "none" /\ SetSteps(p, [k \in {"detect", "verify"} |-> "done"])
  BY DEF Detect
<1> HIDE DEF fw
<1> DEFINE v == [[worker[p] EXCEPT !.framework = fw] EXCEPT !.pc = "save"]
<1>4. worker' = [worker EXCEPT ![p] = v]
  BY <1>1 DEF Detect, fw
<1>5. [worker[p] EXCEPT !.framework = fw] \in Threads
  BY <1>1, <1>2 DEF Threads
<1>6. v \in Threads /\ v.pc = "save" /\ v.row = worker[p].row
      /\ v.framework = fw /\ v.todo = worker[p].todo
  BY <1>1, <1>5 DEF Threads, Stages
<1> HIDE DEF v
<1>7. At(p, "save") /\ worker'[p] = v
  BY <1>1, <1>4, <1>6 DEF At
<1>8. ASSUME fw # "none", SetSteps(p, [k \in {"detect", "verify"} |-> "done"])
      PROVE  Marks(p, {"detect", "verify"}, "done")
  <2> DEFINE K == {"detect", "verify"}
             c == [k \in K |-> "done"]
  <2>1. K \subseteq Keys /\ c \in [K -> States] /\ SetSteps(p, c)
    BY <1>8 DEF Keys, States
  <2>2. (\A k \in K : c[k] = "done") /\ K = {"detect", "verify"}
    OBVIOUS
  <2> HIDE DEF K, c
  <2>3. /\ Stepped(p)
        /\ \A k \in Keys :
             /\ step[p][k] = "none" \/ k \notin K => step'[p][k] = step[p][k]
             /\ k \in K => step'[p][k] \in {c[k], step[p][k]}
             /\ step[p][k] # "none" /\ k \in K =>
                  p \in unwritten' \/ step'[p][k] = c[k]
    BY <2>1, SetStepsIs
  <2> QED
    BY <2>2, <2>3 DEF Marks
<1> QED
  BY <1>3, <1>6, <1>7, <1>8

(* Clone: the repository of the row is there.                              *)
LEMMA CloneDoes ==
  ASSUME Typed, NEW p \in Projects, Hands(p), Clone(p)
  PROVE  /\ At(p, "detect") /\ Keeps(p)
         /\ worker[p].row \in ProjectRows
         /\ clone' = [clone EXCEPT ![worker[p].row.slug] = worker[p].row.repo]
         /\ clone' \in [Slugs -> Repos \union {Nothing}]
         /\ Stepped(p)
         /\ p \in unwritten' \/ step'[p]["clone"] \in {"none", "done"}
         /\ \A e \in EnvNames : step'[p][e] = step[p][e]
<1>1. worker[p].row \in ProjectRows
  BY DEF Hands, Clone, Importing
<1>2. At(p, "detect") /\ Keeps(p)
  BY SetWorkerAt DEF Clone, Stages
<1>3. clone' \in [Slugs -> Repos \union {Nothing}]
  BY <1>1 DEF Clone, Typed, ProjectRows
<1> DEFINE K == {"clone", "detect"}
           c == [k \in K |-> IF k = "clone" THEN "done" ELSE "running"]
<1>4. K \subseteq Keys /\ c \in [K -> States] /\ SetSteps(p, c)
  BY DEF Keys, States, Clone
<1>5. /\ c["clone"] = "done" /\ "clone" \in K /\ "clone" \in Keys
      /\ \A e \in EnvNames : e \in Keys \ K
  BY DEF Keys, EnvNames
<1> HIDE DEF K, c
<1>6. /\ Stepped(p)
      /\ \A k \in Keys :
           /\ step[p][k] = "none" \/ k \notin K => step'[p][k] = step[p][k]
           /\ step[p][k] # "none" /\ k \in K =>
                p \in unwritten' \/ step'[p][k] = c[k]
  BY <1>4, SetStepsIs
<1>7. step[p]["clone"] = "none" \/ p \in unwritten' \/ step'[p]["clone"] = "done"
  BY <1>5, <1>6
<1>8. step[p]["clone"] = "none" => step'[p]["clone"] = "none"
  BY <1>5, <1>6
<1>9. \A e \in EnvNames : step'[p][e] = step[p][e]
  BY <1>5, <1>6
<1> QED
  BY <1>1, <1>2, <1>3, <1>6, <1>7, <1>8, <1>9 DEF Clone

(* SaveRow: the row the thread read, with a status and the framework.      *)
LEMMA SaveRowDoes ==
  ASSUME Typed, NEW p \in Projects, Hands(p), NEW status \in Statuses,
         Importing(p), SaveRow(p, status)
  PROVE  /\ Writes(p) /\ project'[p].status = status
         /\ worker[p].row \in ProjectRows
         /\ project'[p].org = worker[p].row.org
         /\ project'[p].slug = worker[p].row.slug
         /\ project'[p].repo = worker[p].row.repo
         /\ shared' = shared \union Sharing(p, worker[p].row.org, worker[p].row.slug)
<1>1. worker[p].row \in ProjectRows /\ worker[p].framework \in Frameworks
  BY DEF Hands, Typed, Threads
<1> DEFINE row == [[worker[p].row EXCEPT !.status = status]
                     EXCEPT !.framework = worker[p].framework]
<1>2. [worker[p].row EXCEPT !.status = status] \in ProjectRows
  BY <1>1 DEF ProjectRows
<1>3. row \in ProjectRows /\ row.status = status /\ row.org = worker[p].row.org
      /\ row.slug = worker[p].row.slug /\ row.repo = worker[p].row.repo
  BY <1>1, <1>2 DEF ProjectRows
<1>4. project' = [project EXCEPT ![p] = row]
      /\ shared' = shared \union Sharing(p, worker[p].row.org, worker[p].row.slug)
  BY DEF SaveRow
<1> HIDE DEF row
<1> QED
  BY <1>1, <1>3, <1>4 DEF Writes, Typed

(* Environments of p, the others stay.                                     *)
Furnishes(p) ==
  /\ env' \in [Projects -> [EnvNames -> EnvStates]]
  /\ \A q \in Projects \ {p} : env'[q] = env[q]

(* MakeEnvironments: both are there, those that were are as they were.     *)
LEMMA MakeEnvironmentsDoes ==
  ASSUME Typed, NEW p \in Projects, MakeEnvironments(p)
  PROVE  /\ At(p, "deploy") /\ worker'[p].row = worker[p].row
         /\ worker'[p].framework = worker[p].framework
         /\ worker'[p].todo \in {Orchestrated, Direct}
         /\ Furnishes(p)
         /\ \A e \in EnvNames : env'[p][e] = IF env[p][e] = "none" THEN "empty" ELSE env[p][e]
         /\ Marks(p, {"provision"}, "done")
         /\ faults' \in 0 .. MaxFaults
<1>1. worker \in [Projects -> Threads] /\ worker[p] \in Threads
      /\ env \in [Projects -> [EnvNames -> EnvStates]]
  BY DEF Typed
<1>2. PICK order \in {Orchestrated, Direct} :
        /\ worker' = [worker EXCEPT ![p].pc = "deploy", ![p].todo = order]
        /\ IF order = Direct THEN Fault ELSE UNCHANGED faults
  BY DEF MakeEnvironments
<1>3. order \in Seq(EnvNames)
  <2>1. "prod" \in EnvNames /\ "staging" \in EnvNames
    BY DEF EnvNames
  <2>2. <<"prod", "staging">> \in Seq(EnvNames) /\ <<"staging", "prod">> \in Seq(EnvNames)
    BY <2>1
  <2> QED
    BY <2>2 DEF Orchestrated, Direct
<1> DEFINE v == [[worker[p] EXCEPT !.pc = "deploy"] EXCEPT !.todo = order]
<1>4. worker' = [worker EXCEPT ![p] = v]
  BY <1>1, <1>2
<1>5. [worker[p] EXCEPT !.pc = "deploy"] \in Threads
  BY <1>1 DEF Threads, Stages
<1>6. v \in Threads /\ v.pc = "deploy" /\ v.row = worker[p].row
      /\ v.framework = worker[p].framework /\ v.todo = order
  BY <1>1, <1>3, <1>5 DEF Threads
<1> HIDE DEF v
<1>7. At(p, "deploy") /\ worker'[p] = v
  BY <1>1, <1>4, <1>6 DEF At
<1> DEFINE new == [e \in EnvNames |-> IF env[p][e] = "none" THEN "empty" ELSE env[p][e]]
<1>8. env' = [env EXCEPT ![p] = new]
  BY <1>1 DEF MakeEnvironments, NewEnvs
<1>9. new \in [EnvNames -> EnvStates]
  BY <1>1 DEF EnvStates
<1>10. Furnishes(p) /\ \A e \in EnvNames : env'[p][e] = IF env[p][e] = "none" THEN "empty" ELSE env[p][e]
  BY <1>1, <1>8, <1>9 DEF Furnishes
<1>11. Marks(p, {"provision"}, "done")
  BY SetStepIs DEF MakeEnvironments, Keys, States
<1>12. faults' \in 0 .. MaxFaults
  BY <1>2, FaultIs DEF Typed
<1> QED
  BY <1>6, <1>7, <1>10, <1>11, <1>12

LEMMA EnvironmentsRaiseDoes ==
  ASSUME Typed, NEW p \in Projects, EnvironmentsRaise(p)
  PROVE  /\ At(p, "except") /\ Keeps(p)
         /\ Furnishes(p)
         /\ \A e \in EnvNames : env'[p][e] = env[p][e] \/ (Exists(p) /\ env'[p][e] = "empty")
         /\ Stepped(p) /\ \A e \in EnvNames : step'[p][e] = step[p][e]
         /\ faults' \in 0 .. MaxFaults
<1>1. At(p, "except") /\ Keeps(p)
  BY SetWorkerAt DEF EnvironmentsRaise, Stages
<1>2. /\ env \in [Projects -> [EnvNames -> EnvStates]]
      /\ step \in [Projects -> [Keys -> States]] /\ unwritten \subseteq Projects
      /\ faults \in 0 .. MaxFaults
  BY DEF Typed
<1>3. ASSUME UNCHANGED <<step, unwritten>>
      PROVE  Stepped(p) /\ \A e \in EnvNames : step'[p][e] = step[p][e]
  BY <1>2, <1>3 DEF Stepped
<1>4. CASE env' = env /\ UNCHANGED <<step, unwritten>> /\ (Fault \/ UNCHANGED faults)
  <2>1. faults' \in 0 .. MaxFaults
    BY <1>2, <1>4, FaultIs
  <2>2. Furnishes(p) /\ \A e \in EnvNames : env'[p][e] = env[p][e]
    BY <1>2, <1>4 DEF Furnishes
  <2> QED
    BY <1>1, <1>3, <1>4, <2>1, <2>2
<1>5. CASE /\ Exists(p) /\ Fault /\ env' = [env EXCEPT ![p]["staging"] = "empty"]
           /\ UNCHANGED <<step, unwritten>>
  <2> DEFINE new == [env[p] EXCEPT !["staging"] = "empty"]
  <2>1. env' = [env EXCEPT ![p] = new]
    BY <1>2, <1>5
  <2>2. new \in [EnvNames -> EnvStates]
    BY <1>2 DEF EnvStates
  <2>3. \A e \in EnvNames : new[e] = env[p][e] \/ new[e] = "empty"
    BY <1>2
  <2> HIDE DEF new
  <2>4. Furnishes(p) /\ env'[p] = new
    BY <1>2, <2>1, <2>2 DEF Furnishes
  <2>5. faults' \in 0 .. MaxFaults
    BY <1>5, FaultIs
  <2>6. \A e \in EnvNames : env'[p][e] = env[p][e] \/ (Exists(p) /\ env'[p][e] = "empty")
    BY <1>5, <2>3, <2>4
  <2> QED
    BY <1>1, <1>3, <1>5, <2>4, <2>5, <2>6
<1>6. CASE /\ Exists(p) /\ Fault /\ env' = [env EXCEPT ![p] = NewEnvs(p)]
           /\ SetStep(p, "provision", "done")
  <2>1. NewEnvs(p) \in [EnvNames -> EnvStates]
        /\ \A e \in EnvNames : NewEnvs(p)[e] \in {env[p][e], "empty"}
    BY <1>2 DEF NewEnvs, EnvStates
  <2>2. Furnishes(p) /\ env'[p] = NewEnvs(p)
    BY <1>2, <1>6, <2>1 DEF Furnishes
  <2>3. Marks(p, {"provision"}, "done")
    BY <1>6, SetStepIs DEF Keys, States
  <2>4. Stepped(p) /\ \A e \in EnvNames : step'[p][e] = step[p][e]
    BY <2>3 DEF Marks, Keys, EnvNames
  <2>5. faults' \in 0 .. MaxFaults
    BY <1>6, FaultIs
  <2>6. \A e \in EnvNames : env'[p][e] = env[p][e] \/ (Exists(p) /\ env'[p][e] = "empty")
    BY <1>6, <2>1, <2>2
  <2> QED
    BY <1>1, <2>2, <2>4, <2>5, <2>6
<1> QED
  BY <1>4, <1>5, <1>6 DEF EnvironmentsRaise

(* ImportRaised: failed, with every step that was not done.                *)
LEMMA ImportRaisedDoes ==
  ASSUME Typed, NEW p \in Projects, ImportRaised(p)
  PROVE  /\ At(p, "ended") /\ Keeps(p) /\ Fails(p) /\ Writes(p)
         /\ Exists(p) => /\ project'[p].status = "failed"
                         /\ project'[p].org = project[p].org
                         /\ project'[p].slug = project[p].slug
                         /\ project'[p].repo = project[p].repo
         /\ ~Exists(p) => project' = project
<1>1. At(p, "ended") /\ Keeps(p)
  BY SetWorkerAt DEF ImportRaised, Stages
<1>2. Fails(p)
  BY FailPendingIs DEF ImportRaised, SaveFailed
<1>3. project \in [Projects -> ProjectRows \union {NoProject}]
  BY DEF Typed
<1>4. CASE Exists(p)
  <2>1. project[p] \in ProjectRows
    BY <1>4, RowsAre
  <2> DEFINE row == [project[p] EXCEPT !.status = "failed"]
  <2>2. row \in ProjectRows /\ row.status = "failed" /\ row.org = project[p].org
        /\ row.slug = project[p].slug /\ row.repo = project[p].repo
    BY <2>1 DEF ProjectRows, Statuses
  <2>3. project' = [project EXCEPT ![p] = row]
    BY <1>3, <1>4 DEF ImportRaised, SaveFailed
  <2> HIDE DEF row
  <2> QED
    BY <1>1, <1>2, <1>3, <1>4, <2>2, <2>3 DEF Writes
<1>5. CASE ~Exists(p)
  <2>1. project' = project
    BY <1>5 DEF ImportRaised, SaveFailed
  <2> QED
    BY <1>1, <1>2, <1>3, <1>5, <2>1 DEF Writes
<1> QED
  BY <1>4, <1>5

(* The list of environments left: the thread ends with the last one.       *)
LEMMA NextDeployDoes ==
  ASSUME Typed, NEW p \in Projects, worker[p].todo # <<>>, NextDeploy(p)
  PROVE  /\ At(p, worker'[p].pc) /\ worker'[p].row = worker[p].row
         /\ worker'[p].framework = worker[p].framework
         /\ worker'[p].todo = Tail(worker[p].todo)
         /\ \/ worker'[p].pc = "deploy" /\ worker'[p].todo # <<>>
            \/ worker'[p].pc = "ended" /\ Len(worker[p].todo) = 1
<1>1. worker \in [Projects -> Threads] /\ worker[p] \in Threads
  BY DEF Typed
<1>2. worker[p].todo \in Seq(EnvNames) /\ worker[p].todo # <<>>
  BY <1>1 DEF Threads
<1> DEFINE pc == IF Len(worker[p].todo) > 1 THEN "deploy" ELSE "ended"
           v == [[worker[p] EXCEPT !.pc = pc] EXCEPT !.todo = Tail(worker[p].todo)]
<1>3. Tail(worker[p].todo) \in Seq(EnvNames) /\ pc \in Stages
  BY <1>2 DEF Stages
<1>4. \/ pc = "deploy" /\ Tail(worker[p].todo) # <<>>
      \/ pc = "ended" /\ Len(worker[p].todo) = 1
  <2> DEFINE n == Len(worker[p].todo)
             m == Len(Tail(worker[p].todo))
  <2>1. n \in Nat /\ n # 0 /\ m = n - 1
    BY <1>2
  <2>2. m # 0 => Tail(worker[p].todo) # <<>>
    <3>1. \A t : t = <<>> => Len(t) = 0
      OBVIOUS
    <3> QED
      BY <3>1
  <2>3. pc = IF n > 1 THEN "deploy" ELSE "ended"
    OBVIOUS
  <2> HIDE DEF n, m, pc
  <2>4. \/ n > 1 /\ m # 0
        \/ ~(n > 1) /\ n = 1
    BY <2>1
  <2>5. CASE n > 1 /\ m # 0
    BY <2>2, <2>3, <2>5
  <2>6. CASE ~(n > 1) /\ n = 1
    <3>1. pc = "ended"
      BY <2>3, <2>6
    <3> QED
      BY <2>6, <3>1 DEF n
  <2> QED
    BY <2>4, <2>5, <2>6
<1>5. worker' = [worker EXCEPT ![p] = v]
  BY <1>1 DEF NextDeploy
<1> HIDE DEF pc
<1>6. [worker[p] EXCEPT !.pc = pc] \in Threads
  BY <1>1, <1>3 DEF Threads
<1>7. v \in Threads /\ v.pc = pc /\ v.row = worker[p].row
      /\ v.framework = worker[p].framework /\ v.todo = Tail(worker[p].todo)
  BY <1>1, <1>3, <1>6 DEF Threads
<1> HIDE DEF v
<1>8. At(p, pc) /\ worker'[p] = v
  BY <1>1, <1>5, <1>7 DEF At
<1> QED
  BY <1>4, <1>7, <1>8

LEMMA HeadIs ==
  ASSUME Typed, NEW p \in Projects, worker[p].todo # <<>>
  PROVE  Head(worker[p].todo) \in EnvNames
<1>1. worker[p].todo \in Seq(EnvNames)
  BY DEF Typed, Threads
<1> QED
  BY <1>1

(* What a deployment of e, a stop of it or its death does to environments  *)
(* and to what runs.  What runs for e after it was running before, or the  *)
(* environment is LIVE or of a stack.                                      *)
Moves(p, e) ==
  /\ Furnishes(p)
  /\ \A d \in EnvNames \ {e} : env'[p][d] = env[p][d] /\ app'[p][d] = app[p][d]
  /\ env'[p][e] # "none" <=> env[p][e] # "none"
  /\ app' \in [Projects -> [EnvNames -> Repos \union {Nothing}]]
  /\ \A q \in Projects \ {p}, d \in EnvNames : app'[q][d] \in {app[q][d], Nothing}
  /\ app'[p][e] \in {app[p][e], Nothing, Source(p)}
  /\ overlap' \subseteq Projects /\ overlap \subseteq overlap'
  /\ \A q \in Projects \ {p} : q \in overlap' => q \in overlap
  /\ \/ app'[p][e] = Nothing
     \/ p \in overlap'
     \/ app'[p][e] = app[p][e] /\ (IsStack(p) \/ env[p][e] # "live")
     \/ deletion[p] = "none" /\ env'[p][e] # "none" /\ (IsStack(p) \/ env'[p][e] = "live")

(* An environment of p gets a status, and what runs for e a value x.       *)
LEMMA EnvSet ==
  ASSUME Typed, NEW p \in Projects, NEW e \in EnvNames, NEW s \in EnvStates,
         env' = [env EXCEPT ![p][e] = s]
  PROVE  /\ Furnishes(p) /\ env'[p][e] = s
         /\ \A d \in EnvNames \ {e} : env'[p][d] = env[p][d]
<1>1. env \in [Projects -> [EnvNames -> EnvStates]]
  BY DEF Typed
<1> DEFINE new == [env[p] EXCEPT ![e] = s]
<1>2. env' = [env EXCEPT ![p] = new]
  BY <1>1
<1>3. new \in [EnvNames -> EnvStates] /\ new[e] = s
      /\ \A d \in EnvNames \ {e} : new[d] = env[p][d]
  BY <1>1
<1> HIDE DEF new
<1> QED
  BY <1>1, <1>2, <1>3 DEF Furnishes

LEMMA AppSet ==
  ASSUME Typed, NEW p \in Projects, NEW e \in EnvNames, NEW x \in Repos \union {Nothing},
         app' = [app EXCEPT ![p][e] = x]
  PROVE  /\ app' \in [Projects -> [EnvNames -> Repos \union {Nothing}]]
         /\ app'[p][e] = x
         /\ \A d \in EnvNames \ {e} : app'[p][d] = app[p][d]
         /\ \A q \in Projects \ {p} : app'[q] = app[q]
<1>1. app \in [Projects -> [EnvNames -> Repos \union {Nothing}]]
  BY DEF Typed
<1> DEFINE new == [app[p] EXCEPT ![e] = x]
<1>2. app' = [app EXCEPT ![p] = new]
  BY <1>1
<1>3. new \in [EnvNames -> Repos \union {Nothing}] /\ new[e] = x
      /\ \A d \in EnvNames \ {e} : new[d] = app[p][d]
  BY <1>1
<1> HIDE DEF new
<1> QED
  BY <1>1, <1>2, <1>3

(* Replaced: the code of the clone runs for e; the stack may take the      *)
(* containers of another compose project of that name.                     *)
LEMMA ReplacedIs ==
  ASSUME Typed, NEW p \in Projects, NEW e \in EnvNames,
         Source(p) \in Repos \union {Nothing}
  PROVE  /\ Replaced(p, e) \in [Projects -> [EnvNames -> Repos \union {Nothing}]]
         /\ Replaced(p, e)[p][e] = Source(p)
         /\ \A d \in EnvNames \ {e} : Replaced(p, e)[p][d] = app[p][d]
         /\ \A q \in Projects \ {p}, d \in EnvNames :
              Replaced(p, e)[q][d] \in {app[q][d], Nothing}
<1>1. app \in [Projects -> [EnvNames -> Repos \union {Nothing}]]
  BY DEF Typed
<1> DEFINE x == Source(p)
           new(q) == IF q = p THEN [app[q] EXCEPT ![e] = x]
                     ELSE IF IsStack(p) /\ q \in Stack(project[p].slug)
                     THEN [app[q] EXCEPT ![e] = Nothing]
                     ELSE app[q]
<1>2. Replaced(p, e) = [q \in Projects |-> new(q)]
  BY DEF Replaced
<1>3. x \in Repos \union {Nothing}
  OBVIOUS
<1> HIDE DEF x
<1>4. \A q \in Projects : app[q] \in [EnvNames -> Repos \union {Nothing}]
  BY <1>1
<1>5. /\ new(p) \in [EnvNames -> Repos \union {Nothing}]
      /\ new(p)[e] = x /\ \A d \in EnvNames \ {e} : new(p)[d] = app[p][d]
  BY <1>3, <1>4
<1>6. ASSUME NEW q \in Projects \ {p}
      PROVE  /\ new(q) \in [EnvNames -> Repos \union {Nothing}]
             /\ \A d \in EnvNames : new(q)[d] \in {app[q][d], Nothing}
  <2>1. \/ new(q) = app[q]
        \/ new(q) = [app[q] EXCEPT ![e] = Nothing]
    OBVIOUS
  <2> HIDE DEF new
  <2> QED
    BY <1>4, <2>1
<1> HIDE DEF new
<1>7. \A q \in Projects : new(q) \in [EnvNames -> Repos \union {Nothing}]
  BY <1>5, <1>6
<1> QED
  BY <1>2, <1>5, <1>6, <1>7 DEF x

LEMMA SourceIs ==
  ASSUME Typed, NEW p \in Projects, worker[p].row \in ProjectRows
  PROVE  Source(p) \in Repos \union {Nothing}
BY DEF Source, Typed, ProjectRows

(* A deployment begins.                                                    *)
LEMMA BegunDoes ==
  ASSUME Typed, NEW p \in Projects, NEW e \in EnvNames, Begun(p, e), UNCHANGED overlap
  PROVE  /\ Moves(p, e)
         /\ env'[p][e] = IF env[p][e] = "none" THEN "none" ELSE "building"
<1> DEFINE s == IF env[p][e] = "none" THEN "none" ELSE "building"
<1>1. env \in [Projects -> [EnvNames -> EnvStates]]
      /\ app \in [Projects -> [EnvNames -> Repos \union {Nothing}]]
      /\ overlap \subseteq Projects /\ s \in EnvStates
  BY DEF Typed, EnvStates
<1>2. env' = [env EXCEPT ![p][e] = s]
  BY <1>1 DEF Begun
<1>3. s = IF env[p][e] = "none" THEN "none" ELSE "building"
  OBVIOUS
<1> HIDE DEF s
<1>4. /\ Furnishes(p) /\ env'[p][e] = s
      /\ \A d \in EnvNames \ {e} : env'[p][d] = env[p][d]
  BY <1>1, <1>2, EnvSet
<1>5. CASE env[p][e] = "live" /\ ~IsStack(p)
  <2>1. app' = [app EXCEPT ![p][e] = Nothing]
    BY <1>5 DEF Begun
  <2>2. /\ app' \in [Projects -> [EnvNames -> Repos \union {Nothing}]]
        /\ app'[p][e] = Nothing
        /\ \A d \in EnvNames \ {e} : app'[p][d] = app[p][d]
        /\ \A q \in Projects \ {p} : app'[q] = app[q]
    BY <2>1, AppSet
  <2> QED
    BY <1>1, <1>3, <1>4, <2>2 DEF Moves
<1>6. CASE ~(env[p][e] = "live" /\ ~IsStack(p))
  <2>1. app' = app
    BY <1>6 DEF Begun
  <2> QED
    BY <1>1, <1>3, <1>4, <1>6, <2>1 DEF Moves
<1> QED
  BY <1>5, <1>6

LEMMA DeployedLiveDoes ==
  ASSUME Typed, NEW p \in Projects, NEW e \in EnvNames,
         worker[p].row \in ProjectRows, DeployedLive(p, e)
  PROVE  /\ Moves(p, e) /\ env[p][e] # "none" /\ env'[p][e] = "live"
         /\ deletion[p] # "none" => p \in overlap'
         /\ faults' \in 0 .. MaxFaults
<1>1. overlap \subseteq Projects /\ "live" \in EnvStates
  BY DEF Typed, EnvStates
<1>2. /\ Furnishes(p) /\ env'[p][e] = "live"
      /\ \A d \in EnvNames \ {e} : env'[p][d] = env[p][d]
  BY <1>1, EnvSet DEF DeployedLive
<1>3. /\ app' \in [Projects -> [EnvNames -> Repos \union {Nothing}]]
      /\ app'[p][e] = Source(p)
      /\ \A d \in EnvNames \ {e} : app'[p][d] = app[p][d]
      /\ \A q \in Projects \ {p}, d \in EnvNames : app'[q][d] \in {app[q][d], Nothing}
  BY SourceIs, ReplacedIs DEF DeployedLive
<1>4. /\ env[p][e] # "none"
      /\ overlap' = IF deletion[p] = "none" THEN overlap ELSE overlap \union {p}
  BY DEF DeployedLive
<1>5. faults' \in 0 .. MaxFaults
  BY DEF DeployedLive, Typed
<1> QED
  BY <1>1, <1>2, <1>3, <1>4, <1>5 DEF Moves

LEMMA DeployedFailedDoes ==
  ASSUME Typed, NEW p \in Projects, NEW e \in EnvNames,
         worker[p].row \in ProjectRows, DeployedFailed(p, e)
  PROVE  /\ Moves(p, e) /\ env[p][e] # "none" /\ env'[p][e] = "failed"
         /\ deletion[p] # "none" => p \in overlap'
         /\ faults' \in 0 .. MaxFaults
<1>1. overlap \subseteq Projects /\ "failed" \in EnvStates
      /\ app \in [Projects -> [EnvNames -> Repos \union {Nothing}]]
  BY DEF Typed, EnvStates
<1>2. /\ Furnishes(p) /\ env'[p][e] = "failed"
      /\ \A d \in EnvNames \ {e} : env'[p][d] = env[p][d]
  BY <1>1, EnvSet DEF DeployedFailed
<1>3. /\ env[p][e] # "none"
      /\ overlap' = IF deletion[p] = "none" THEN overlap ELSE overlap \union {p}
  BY DEF DeployedFailed
<1>4. faults' \in 0 .. MaxFaults
  BY FaultIs DEF DeployedFailed, Typed
<1>5. CASE ~IsStack(p) /\ app' = [app EXCEPT ![p][e] = Nothing]
  <2>1. /\ app' \in [Projects -> [EnvNames -> Repos \union {Nothing}]]
        /\ app'[p][e] = Nothing
        /\ \A d \in EnvNames \ {e} : app'[p][d] = app[p][d]
        /\ \A q \in Projects \ {p} : app'[q] = app[q]
    BY <1>5, AppSet
  <2> QED
    BY <1>1, <1>2, <1>3, <1>4, <2>1 DEF Moves
<1>6. CASE IsStack(p) /\ UNCHANGED app
  BY <1>1, <1>2, <1>3, <1>4, <1>6 DEF Moves
<1>7. CASE IsStack(p) /\ app' = Replaced(p, e)
  <2>1. /\ app' \in [Projects -> [EnvNames -> Repos \union {Nothing}]]
        /\ app'[p][e] = Source(p)
        /\ \A d \in EnvNames \ {e} : app'[p][d] = app[p][d]
        /\ \A q \in Projects \ {p}, d \in EnvNames : app'[q][d] \in {app[q][d], Nothing}
    BY <1>7, SourceIs, ReplacedIs
  <2> QED
    BY <1>1, <1>2, <1>3, <1>4, <1>7, <2>1 DEF Moves
<1> QED
  BY <1>5, <1>6, <1>7 DEF DeployedFailed

LEMMA DeployedNowhereDoes ==
  ASSUME Typed, NEW p \in Projects, NEW e \in EnvNames,
         worker[p].row \in ProjectRows, DeployedNowhere(p, e)
  PROVE  /\ Moves(p, e) /\ env[p][e] = "none" /\ UNCHANGED env
         /\ p \in overlap'
         /\ faults' \in 0 .. MaxFaults
<1>1. /\ env \in [Projects -> [EnvNames -> EnvStates]]
      /\ app \in [Projects -> [EnvNames -> Repos \union {Nothing}]]
      /\ overlap \subseteq Projects
  BY DEF Typed
<1>2. /\ env[p][e] = "none" /\ UNCHANGED env /\ overlap' = overlap \union {p}
      /\ faults' \in 0 .. MaxFaults
  BY DEF DeployedNowhere, Typed
<1>3. Furnishes(p)
  BY <1>1, <1>2 DEF Furnishes
<1>4. CASE app' = app
  BY <1>1, <1>2, <1>3, <1>4 DEF Moves
<1>5. CASE app' = [app EXCEPT ![p][e] = Source(p)]
  <2>1. /\ app' \in [Projects -> [EnvNames -> Repos \union {Nothing}]]
        /\ app'[p][e] = Source(p)
        /\ \A d \in EnvNames \ {e} : app'[p][d] = app[p][d]
        /\ \A q \in Projects \ {p} : app'[q] = app[q]
    BY <1>5, SourceIs, AppSet
  <2> QED
    BY <1>1, <1>2, <1>3, <2>1 DEF Moves
<1> QED
  BY <1>4, <1>5 DEF DeployedNowhere

(* One deployment that a page asked for begins or ends.                    *)
Orders(p, e) ==
  /\ redeploy' \in [Projects -> [EnvNames -> Asks]]
  /\ \A q \in Projects \ {p} : redeploy'[q] = redeploy[q]
  /\ \A d \in EnvNames \ {e} : redeploy'[p][d] = redeploy[p][d]

LEMMA RedeploySet ==
  ASSUME Typed, NEW p \in Projects, NEW e \in EnvNames, NEW s \in Asks,
         redeploy' = [redeploy EXCEPT ![p][e] = s]
  PROVE  Orders(p, e) /\ redeploy'[p][e] = s
<1>1. redeploy \in [Projects -> [EnvNames -> Asks]]
  BY DEF Typed
<1> DEFINE new == [redeploy[p] EXCEPT ![e] = s]
<1>2. redeploy' = [redeploy EXCEPT ![p] = new]
  BY <1>1
<1>3. new \in [EnvNames -> Asks] /\ new[e] = s
      /\ \A d \in EnvNames \ {e} : new[d] = redeploy[p][d]
  BY <1>1
<1> HIDE DEF new
<1> QED
  BY <1>1, <1>2, <1>3 DEF Orders

(* AskDeploy: the deployment of e begins, and the stepper may say so.      *)
LEMMA AskDeployDoes ==
  ASSUME Typed, NEW p \in Projects, NEW e \in EnvNames, AskDeploy(p, e)
  PROVE  /\ Moves(p, e) /\ env'[p][e] = "building" /\ env[p][e] # "none"
         /\ Orders(p, e) /\ touched' = touched \union {<<p, e>>}
         /\ Stepped(p) /\ \A k \in Keys \ {e} : step'[p][k] = step[p][k]
         /\ faults' \in 0 .. MaxFaults
<1>1. env[p][e] # "none" /\ Begun(p, e) /\ UNCHANGED overlap
      /\ touched' = touched \union {<<p, e>>}
  BY DEF AskDeploy, Touch
<1>2. Moves(p, e) /\ env'[p][e] = "building"
  BY <1>1, BegunDoes
<1>3. \/ /\ redeploy' = [redeploy EXCEPT ![p][e] = "plain"]
         /\ UNCHANGED <<step, unwritten, faults>>
      \/ /\ redeploy' = [redeploy EXCEPT ![p][e] = "stepped"]
         /\ Fault /\ SetStep(p, e, "running")
  BY DEF AskDeploy
<1>4. Orders(p, e)
  BY <1>3, RedeploySet DEF Asks
<1>5. Stepped(p) /\ \A k \in Keys \ {e} : step'[p][k] = step[p][k]
  <2>1. CASE UNCHANGED <<step, unwritten>>
    BY <2>1 DEF Stepped, Typed
  <2>2. CASE SetStep(p, e, "running")
    <3>1. Marks(p, {e}, "running")
      BY <2>2, SetStepIs DEF Keys, EnvNames, States
    <3> QED
      BY <3>1 DEF Marks
  <2> QED
    BY <1>3, <2>1, <2>2
<1>6. faults' \in 0 .. MaxFaults
  BY <1>3, FaultIs DEF Typed
<1> QED
  BY <1>1, <1>2, <1>4, <1>5, <1>6

(* RedeployReturns: it ends, and so may its step.                          *)
LEMMA RedeployReturnsDoes ==
  ASSUME Typed, NEW p \in Projects, NEW e \in EnvNames, Hands(p), RedeployReturns(p, e)
  PROVE  /\ Moves(p, e) /\ redeploy[p][e] # "none"
         /\ deletion[p] # "none" => p \in overlap'
         /\ Orders(p, e) /\ redeploy'[p][e] = "none"
         /\ Stepped(p) /\ \A k \in Keys \ {e} : step'[p][k] = step[p][k]
         /\ faults' \in 0 .. MaxFaults
<1>1. redeploy[p][e] # "none" /\ redeploy' = [redeploy EXCEPT ![p][e] = "none"]
  BY DEF RedeployReturns
<1>2. worker[p].row \in ProjectRows
  BY <1>1 DEF Hands, Paged
<1>3. Orders(p, e) /\ redeploy'[p][e] = "none"
  BY <1>1, RedeploySet DEF Asks
<1>4. PICK s \in {"done", "failed"} :
        /\ DeployedLive(p, e) \/ DeployedFailed(p, e) \/ DeployedNowhere(p, e)
        /\ RedeployStep(p, e, s)
  BY DEF RedeployReturns
<1>5. /\ Moves(p, e) /\ (deletion[p] # "none" => p \in overlap')
      /\ faults' \in 0 .. MaxFaults
  BY <1>2, <1>4, DeployedLiveDoes, DeployedFailedDoes, DeployedNowhereDoes
<1>6. Stepped(p) /\ \A k \in Keys \ {e} : step'[p][k] = step[p][k]
  <2>1. CASE UNCHANGED <<step, unwritten>>
    BY <2>1 DEF Stepped, Typed
  <2>2. CASE SetStep(p, e, s)
    <3>1. Marks(p, {e}, s)
      BY <2>2, SetStepIs DEF Keys, EnvNames, States
    <3> QED
      BY <3>1 DEF Marks
  <2> QED
    BY <1>4, <2>1, <2>2 DEF RedeployStep
<1> QED
  BY <1>1, <1>3, <1>5, <1>6

(* AskStop: the environment is as if its newest deployment had never been. *)
LEMMA AskStopDoes ==
  ASSUME Typed, NEW p \in Projects, NEW e \in EnvNames, AskStop(p, e)
  PROVE  Moves(p, e) /\ touched' = touched \union {<<p, e>>} /\ env[p][e] # "none"
<1>1. /\ env[p][e] # "none" /\ UNCHANGED overlap /\ overlap \subseteq Projects
      /\ touched' = touched \union {<<p, e>>}
      /\ app \in [Projects -> [EnvNames -> Repos \union {Nothing}]]
  BY DEF AskStop, Touch, Typed
<1>2. PICK s \in {"empty", "building", "failed"} : env' = [env EXCEPT ![p][e] = s]
  BY DEF AskStop
<1>3. s \in EnvStates /\ s # "none"
  BY DEF EnvStates
<1>4. /\ Furnishes(p) /\ env'[p][e] = s
      /\ \A d \in EnvNames \ {e} : env'[p][d] = env[p][d]
  BY <1>2, <1>3, EnvSet
<1>5. CASE env[p][e] = "live" /\ ~IsStack(p)
  <2>1. app' = [app EXCEPT ![p][e] = Nothing]
    BY <1>5 DEF AskStop
  <2>2. /\ app' \in [Projects -> [EnvNames -> Repos \union {Nothing}]]
        /\ app'[p][e] = Nothing
        /\ \A d \in EnvNames \ {e} : app'[p][d] = app[p][d]
        /\ \A q \in Projects \ {p} : app'[q] = app[q]
    BY <2>1, AppSet
  <2> QED
    BY <1>1, <1>3, <1>4, <2>2 DEF Moves
<1>6. CASE ~(env[p][e] = "live" /\ ~IsStack(p))
  <2>1. app' = app
    BY <1>6 DEF AskStop
  <2> QED
    BY <1>1, <1>3, <1>4, <1>6, <2>1 DEF Moves
<1> QED
  BY <1>5, <1>6

LEMMA DiesDoes ==
  ASSUME Typed, NEW p \in Projects, NEW e \in EnvNames, Dies(p, e)
  PROVE  Moves(p, e) /\ faults' \in 0 .. MaxFaults
<1>1. /\ UNCHANGED <<env, overlap>> /\ overlap \subseteq Projects
      /\ env \in [Projects -> [EnvNames -> EnvStates]]
      /\ app' = [app EXCEPT ![p][e] = Nothing]
  BY DEF Dies, Typed
<1>2. /\ app' \in [Projects -> [EnvNames -> Repos \union {Nothing}]]
      /\ app'[p][e] = Nothing
      /\ \A d \in EnvNames \ {e} : app'[p][d] = app[p][d]
      /\ \A q \in Projects \ {p} : app'[q] = app[q]
  BY <1>1, AppSet
<1>3. faults' \in 0 .. MaxFaults
  BY FaultIs DEF Dies
<1> QED
  BY <1>1, <1>2, <1>3 DEF Moves, Furnishes

LEMMA NothingsAre ==
  /\ NoSteps \in [Keys -> States] /\ \A k \in Keys : NoSteps[k] = "none"
  /\ NoEnvs \in [EnvNames -> EnvStates] /\ \A e \in EnvNames : NoEnvs[e] = "none"
  /\ NoApps \in [EnvNames -> Repos \union {Nothing}]
  /\ \A e \in EnvNames : NoApps[e] = Nothing
  /\ NoRedeploys \in [EnvNames -> Asks] /\ \A e \in EnvNames : NoRedeploys[e] = "none"
  /\ NoRun \in AgentRuns /\ NoRun.project = Nothing
<1>1. NoSteps \in [Keys -> States] /\ \A k \in Keys : NoSteps[k] = "none"
  BY DEF NoSteps, States
<1>2. NoEnvs \in [EnvNames -> EnvStates] /\ \A e \in EnvNames : NoEnvs[e] = "none"
  BY DEF NoEnvs, EnvStates
<1>3. NoApps \in [EnvNames -> Repos \union {Nothing}] /\ \A e \in EnvNames : NoApps[e] = Nothing
  BY DEF NoApps
<1>4. NoRun \in AgentRuns /\ NoRun.project = Nothing
  BY DEF NoRun, AgentRuns
<1>5. NoRedeploys \in [EnvNames -> Asks] /\ \A e \in EnvNames : NoRedeploys[e] = "none"
  BY DEF NoRedeploys, Asks
<1> QED
  BY <1>1, <1>2, <1>3, <1>4, <1>5

(* AskDelete: nothing runs for an environment of p that a deletion finds.  *)
LEMMA AskDeleteDoes ==
  ASSUME Typed, NEW p \in Projects, AskDelete(p)
  PROVE  /\ Furnishes(p)
         /\ \A e \in EnvNames : env'[p][e] = IF env[p][e] = "none" THEN "none" ELSE "empty"
         /\ app' \in [Projects -> [EnvNames -> Repos \union {Nothing}]]
         /\ \A q \in Projects, e \in EnvNames : app'[q][e] \in {app[q][e], Nothing}
         /\ \A e \in EnvNames : env[p][e] # "none" => app'[p][e] = Nothing
         /\ stray' \in [Projects -> [EnvNames -> Repos \union {Nothing}]]
         /\ \A q \in Projects, e \in EnvNames : stray'[q][e] \in {stray[q][e], app[q][e]}
         /\ faults' \in 0 .. MaxFaults
         /\ deletion' \in [Projects -> {"none", "stopped", "deleted"}]
         /\ deletion'[p] = "stopped"
         /\ \A q \in Projects \ {p} : deletion'[q] = deletion[q]
<1>1. env \in [Projects -> [EnvNames -> EnvStates]]
      /\ app \in [Projects -> [EnvNames -> Repos \union {Nothing}]]
      /\ stray \in [Projects -> [EnvNames -> Repos \union {Nothing}]]
      /\ deletion \in [Projects -> {"none", "stopped", "deleted"}]
  BY DEF Typed
<1> DEFINE new == [e \in EnvNames |-> IF env[p][e] = "none" THEN "none" ELSE "empty"]
<1>2. env' = [env EXCEPT ![p] = new]
  BY <1>1 DEF AskDelete
<1>3. new \in [EnvNames -> EnvStates]
  BY DEF EnvStates
<1>4. \A e \in EnvNames : new[e] = IF env[p][e] = "none" THEN "none" ELSE "empty"
  OBVIOUS
<1> HIDE DEF new
<1>5. Furnishes(p) /\ \A e \in EnvNames : env'[p][e] = IF env[p][e] = "none" THEN "none" ELSE "empty"
  BY <1>1, <1>2, <1>3, <1>4 DEF Furnishes
<1>6. /\ deletion' \in [Projects -> {"none", "stopped", "deleted"}]
      /\ deletion'[p] = "stopped"
      /\ \A q \in Projects \ {p} : deletion'[q] = deletion[q]
  BY <1>1 DEF AskDelete
<1>7. CASE app' = StoppedApps(p) /\ UNCHANGED <<stray, faults>>
  <2>1. app' = [q \in Projects |-> [e \in EnvNames |->
                  IF env[p][e] # "none" /\ q \in {p} \union Stack(project[p].slug)
                  THEN Nothing ELSE app[q][e]]]
    BY <1>7 DEF StoppedApps
  <2>2. app' \in [Projects -> [EnvNames -> Repos \union {Nothing}]]
    BY <1>1, <2>1
  <2>3. \A q \in Projects, e \in EnvNames : app'[q][e] \in {app[q][e], Nothing}
    BY <2>1
  <2>4. \A e \in EnvNames : env[p][e] # "none" => app'[p][e] = Nothing
    BY <2>1
  <2>5. faults' \in 0 .. MaxFaults
    BY <1>7 DEF Typed
  <2> QED
    BY <1>1, <1>5, <1>6, <1>7, <2>2, <2>3, <2>4, <2>5
<1>8. CASE /\ Fault /\ app' = [app EXCEPT ![p] = NoApps]
           /\ stray' = [stray EXCEPT ![p] = [e \in EnvNames |->
                  IF app[p][e] = Nothing THEN @[e] ELSE app[p][e]]]
  <2>1. /\ app' \in [Projects -> [EnvNames -> Repos \union {Nothing}]]
        /\ \A q \in Projects \ {p} : app'[q] = app[q]
        /\ \A e \in EnvNames : app'[p][e] = Nothing
    BY <1>1, <1>8, NothingsAre
  <2> DEFINE lost == [e \in EnvNames |->
                        IF app[p][e] = Nothing THEN stray[p][e] ELSE app[p][e]]
  <2>2. stray' = [stray EXCEPT ![p] = lost]
    BY <1>1, <1>8
  <2>3. /\ lost \in [EnvNames -> Repos \union {Nothing}]
        /\ \A e \in EnvNames : lost[e] \in {stray[p][e], app[p][e]}
    BY <1>1
  <2> HIDE DEF lost
  <2>4. /\ stray' \in [Projects -> [EnvNames -> Repos \union {Nothing}]]
        /\ \A q \in Projects, e \in EnvNames : stray'[q][e] \in {stray[q][e], app[q][e]}
    BY <1>1, <2>2, <2>3
  <2>5. faults' \in 0 .. MaxFaults
    BY <1>8, FaultIs
  <2>6. \A q \in Projects, e \in EnvNames : app'[q][e] \in {app[q][e], Nothing}
    BY <2>1
  <2> QED
    BY <1>5, <1>6, <2>1, <2>4, <2>5, <2>6
<1> QED
  BY <1>7, <1>8 DEF AskDelete

(* DeleteRow: the row with its steps, environments and runs.               *)
LEMMA DeleteRowDoes ==
  ASSUME Typed, NEW p \in Projects, DeleteRow(p)
  PROVE  /\ Writes(p) /\ project'[p] = NoProject
         /\ step' \in [Projects -> [Keys -> States]]
         /\ \A k \in Keys : step'[p][k] = "none"
         /\ \A q \in Projects \ {p} : step'[q] = step[q]
         /\ Furnishes(p) /\ \A e \in EnvNames : env'[p][e] = "none"
         /\ run' \in [Runs -> AgentRuns]
         /\ \A r \in Runs : \/ run'[r] = run[r] /\ run[r].project # p
                            \/ run'[r] = NoRun
         /\ deletion' \in [Projects -> {"none", "stopped", "deleted"}]
         /\ deletion'[p] = "deleted"
         /\ \A q \in Projects \ {p} : deletion'[q] = deletion[q]
<1>1. Writes(p) /\ project'[p] = NoProject
  BY DEF DeleteRow, Writes, Typed
<1>2. /\ step' \in [Projects -> [Keys -> States]]
      /\ \A k \in Keys : step'[p][k] = "none"
      /\ \A q \in Projects \ {p} : step'[q] = step[q]
  BY NothingsAre DEF DeleteRow, Typed
<1>3. Furnishes(p) /\ \A e \in EnvNames : env'[p][e] = "none"
  BY NothingsAre DEF DeleteRow, Typed, Furnishes
<1>4. /\ run' \in [Runs -> AgentRuns]
      /\ \A r \in Runs : \/ run'[r] = run[r] /\ run[r].project # p
                         \/ run'[r] = NoRun
  BY NothingsAre DEF DeleteRow, Typed
<1>5. /\ deletion' \in [Projects -> {"none", "stopped", "deleted"}]
      /\ deletion'[p] = "deleted"
      /\ \A q \in Projects \ {p} : deletion'[q] = deletion[q]
  BY DEF DeleteRow, Typed
<1> QED
  BY <1>1, <1>2, <1>3, <1>4, <1>5

(* Launch and FinishRun change one run.                                    *)
Takes(r) ==
  /\ run' \in [Runs -> AgentRuns]
  /\ \A q \in Runs \ {r} : run'[q] = run[q]

LEMMA LaunchDoes ==
  ASSUME Typed, NEW r \in Runs, NEW p \in Projects, Launch(r, p)
  PROVE  /\ Takes(r) /\ run'[r].status = "running" /\ run'[r].project = p
         /\ run'[r].tree # Nothing
         /\ run'[r].early = (project[p].status = "importing")
<1>1. run \in [Runs -> AgentRuns] /\ project[p] \in ProjectRows
  BY RowsAre DEF Typed, Launch
<1>2. clone[project[p].slug] \in Repos \union {Nothing} /\ clone[project[p].slug] # Nothing
  BY <1>1 DEF Typed, Launch, ProjectRows
<1> DEFINE early == (project[p].status = "importing")
           tree == clone[project[p].slug]
           v == [NoRun EXCEPT !.status = "running", !.alive = TRUE,
                              !.project = p, !.tree = tree, !.early = early]
<1>4. run' = [run EXCEPT ![r] = v]
  BY DEF Launch, SetRun
<1>5. early \in BOOLEAN /\ tree \in Repos /\ tree # Nothing
  BY <1>2
<1> HIDE DEF early, tree
<1> DEFINE w == [[NoRun EXCEPT !.status = "running"] EXCEPT !.alive = TRUE]
           x == [[w EXCEPT !.project = p] EXCEPT !.tree = tree]
<1>6. v = [x EXCEPT !.early = early]
  OBVIOUS
<1>7. [NoRun EXCEPT !.status = "running"] \in AgentRuns
  BY NothingsAre DEF AgentRuns
<1>8. w \in AgentRuns /\ w.status = "running"
  BY <1>7, NothingsAre DEF AgentRuns
<1> HIDE DEF w, v
<1>9. [w EXCEPT !.project = p] \in AgentRuns
  BY <1>8 DEF AgentRuns
<1>10. x \in AgentRuns /\ x.status = "running" /\ x.project = p /\ x.tree = tree
  BY <1>5, <1>8, <1>9 DEF AgentRuns
<1> HIDE DEF x
<1>11. v \in AgentRuns
  BY <1>5, <1>6, <1>10 DEF AgentRuns
<1>12. v.status = "running" /\ v.project = p /\ v.tree = tree
  BY <1>6, <1>10 DEF AgentRuns
<1>13. v.early = early
  BY <1>6, <1>10 DEF AgentRuns
<1> QED
  BY <1>1, <1>4, <1>5, <1>11, <1>12, <1>13 DEF Takes, early

LEMMA FinishRunDoes ==
  ASSUME Typed, NEW r \in Runs, FinishRun(r)
  PROVE  /\ Takes(r) /\ run'[r].status \in {"done", "failed"}
         /\ run'[r].project = run[r].project /\ run'[r].early = run[r].early
         /\ /\ run'[r].status = "done" /\ run'[r].edits /\ ~run'[r].refused
            /\ run[r].tree # Nothing
            => run'[r].commit
         /\ run[r].status = "running"
         /\ faults' \in 0 .. MaxFaults
<1>1. PICK status \in {"done", "failed"}, edits \in BOOLEAN,
           commit \in BOOLEAN, refused \in BOOLEAN :
        /\ Finished(r, status, edits, commit, refused)
        /\ status = "done" /\ edits /\ ~refused /\ run[r].tree # Nothing => commit
        /\ UNCHANGED faults \/ Fault
  BY DEF FinishRun, CommitChanges
<1>2. run \in [Runs -> AgentRuns] /\ run[r] \in AgentRuns
  BY DEF Typed
<1> DEFINE a == [run[r] EXCEPT !.status = status]
           b == [a EXCEPT !.alive = FALSE]
           c == [b EXCEPT !.tree = Nothing]
           d == [c EXCEPT !.edits = edits]
           g == [d EXCEPT !.commit = commit]
           v == [g EXCEPT !.refused = refused]
<1>3. run' = [run EXCEPT ![r] = v]
  BY <1>1, <1>2 DEF Finished, SetRun
<1> HIDE DEF v
<1>4. a \in AgentRuns /\ a.status = status /\ a.project = run[r].project /\ a.early = run[r].early
  BY <1>2 DEF AgentRuns
<1> HIDE DEF a
<1>5. b \in AgentRuns /\ b.status = status /\ b.project = run[r].project /\ b.early = run[r].early
  BY <1>4 DEF AgentRuns
<1> HIDE DEF b
<1>6. c \in AgentRuns /\ c.status = status /\ c.project = run[r].project /\ c.early = run[r].early
  BY <1>5 DEF AgentRuns
<1> HIDE DEF c
<1>7. /\ d \in AgentRuns /\ d.status = status /\ d.project = run[r].project
      /\ d.early = run[r].early /\ d.edits = edits
  BY <1>6 DEF AgentRuns
<1> HIDE DEF d
<1>8. /\ g \in AgentRuns /\ g.status = status /\ g.project = run[r].project
      /\ g.early = run[r].early /\ g.edits = edits /\ g.commit = commit
  BY <1>7 DEF AgentRuns
<1> HIDE DEF g
<1>9. /\ v \in AgentRuns /\ v.status = status /\ v.project = run[r].project
      /\ v.early = run[r].early /\ v.edits = edits /\ v.commit = commit
      /\ v.refused = refused
  BY <1>8 DEF AgentRuns, v
<1>10. faults' \in 0 .. MaxFaults
  BY <1>1, FaultIs DEF Typed
<1>11. Takes(r) /\ run'[r] = v
  BY <1>2, <1>3, <1>9 DEF Takes
<1>12. run[r].status = "running"
  BY DEF FinishRun
<1> QED
  BY <1>1, <1>9, <1>10, <1>11, <1>12

(* Restart: the threads stop where they are.                               *)
LEMMA RestartDoes ==
  ASSUME Typed, \A p \in Projects : Hands(p), Restart
  PROVE  /\ form' = [f \in Forms |-> NoForm]
         /\ worker' \in [Projects -> Threads]
         /\ \A p \in Projects :
              /\ worker'[p].row = worker[p].row
              /\ \/ worker'[p] = worker[p] /\ worker[p].pc \in {"none", "ended"}
                 \/ worker'[p].pc = "lost"
         /\ run' \in [Runs -> AgentRuns]
         /\ \A r \in Runs :
              /\ run'[r].status = run[r].status /\ run'[r].project = run[r].project
              /\ run'[r].early = run[r].early /\ run'[r].edits = run[r].edits
              /\ run'[r].refused = run[r].refused
              /\ run'[r].commit = run[r].commit /\ run'[r].tree = run[r].tree
         /\ deletion' \in [Projects -> {"none", "stopped", "deleted"}]
         /\ \A p \in Projects : deletion'[p] =
              IF deletion[p] = "stopped" THEN "none" ELSE deletion[p]
         /\ redeploy' \in [Projects -> [EnvNames -> Asks]]
         /\ \A p \in Projects, e \in EnvNames : redeploy'[p][e] = "none"
         /\ stray' \in [Projects -> [EnvNames -> Repos \union {Nothing}]]
         /\ \A p \in Projects, e \in EnvNames :
              \/ stray'[p][e] = stray[p][e]
              \/ Deploying(p, e) /\ stray'[p][e] = Source(p)
         /\ app' \in [Projects -> [EnvNames -> Repos \union {Nothing}]]
         /\ \A p \in Projects, e \in EnvNames :
              \/ app'[p][e] \in {app[p][e], Nothing}
              \/ CutOff(p, e) /\ app'[p][e] = Source(p)
         /\ overlap' \subseteq Projects /\ overlap \subseteq overlap'
         /\ \A p \in Projects, e \in EnvNames :
              CutOff(p, e) /\ deletion[p] # "none" => p \in overlap'
         /\ faults' \in 0 .. MaxFaults
<1>1. worker \in [Projects -> Threads] /\ run \in [Runs -> AgentRuns]
      /\ deletion \in [Projects -> {"none", "stopped", "deleted"}]
  BY DEF Typed
<1>2. form' = [f \in Forms |-> NoForm] /\ faults' \in 0 .. MaxFaults
  BY FaultIs DEF Restart
<1>3. \A p \in Projects :
        \/ worker'[p] = worker[p] /\ worker[p].pc \in {"none", "ended"}
        \/ worker'[p] = [worker[p] EXCEPT !.pc = "lost"]
  BY DEF Restart
<1>4. ASSUME NEW p \in Projects
      PROVE  /\ worker'[p] \in Threads
             /\ worker'[p].row = worker[p].row
             /\ \/ worker'[p] = worker[p] /\ worker[p].pc \in {"none", "ended"}
                \/ worker'[p].pc = "lost"
  <2>1. worker[p] \in Threads
    BY <1>1
  <2>2. CASE worker'[p] = worker[p] /\ worker[p].pc \in {"none", "ended"}
    BY <2>1, <2>2
  <2>3. CASE worker'[p] = [worker[p] EXCEPT !.pc = "lost"]
    BY <2>1, <2>3 DEF Threads, Stages
  <2> QED
    BY <1>3, <2>2, <2>3
<1>5. worker' \in [Projects -> Threads]
  <2>1. DOMAIN worker' = Projects /\ worker' = [p \in Projects |-> worker'[p]]
    BY DEF Restart
  <2> QED
    BY <1>4, <2>1
<1>6. ASSUME NEW r \in Runs
      PROVE  /\ run'[r] \in AgentRuns
             /\ run'[r].status = run[r].status /\ run'[r].project = run[r].project
             /\ run'[r].early = run[r].early /\ run'[r].edits = run[r].edits
             /\ run'[r].refused = run[r].refused
             /\ run'[r].commit = run[r].commit /\ run'[r].tree = run[r].tree
  <2>1. run[r] \in AgentRuns
    BY <1>1
  <2>2. run'[r] = [run[r] EXCEPT !.alive = FALSE]
    BY DEF Restart
  <2> QED
    BY <2>1, <2>2 DEF AgentRuns
<1>7. run' \in [Runs -> AgentRuns]
  <2>1. DOMAIN run' = Runs /\ run' = [r \in Runs |-> run'[r]]
    BY DEF Restart
  <2> QED
    BY <1>6, <2>1
<1>8. /\ deletion' \in [Projects -> {"none", "stopped", "deleted"}]
      /\ \A p \in Projects : deletion'[p] =
           IF deletion[p] = "stopped" THEN "none" ELSE deletion[p]
  BY <1>1 DEF Restart
<1>9. \A p \in Projects, e \in EnvNames :
        Deploying(p, e) => Source(p) \in Repos \union {Nothing}
  BY SourceIs DEF Deploying, Hands, Paged, Importing
<1>10. /\ redeploy' \in [Projects -> [EnvNames -> Asks]]
       /\ \A p \in Projects, e \in EnvNames : redeploy'[p][e] = "none"
  BY NothingsAre DEF Restart
<1> DEFINE strays == [p \in Projects |-> [e \in EnvNames |->
                        IF Astray(p, e) THEN Source(p) ELSE stray[p][e]]]
           took(q, e) == \E p \in Projects :
                           CutOff(p, e) /\ q \in Stack(project[p].slug)
           apps == [q \in Projects |-> [e \in EnvNames |->
                      IF CutOff(q, e) THEN Source(q)
                      ELSE IF took(q, e) THEN Nothing ELSE app[q][e]]]
<1>11. stray' \in {stray, strays} /\ app' \in {app, apps}
  BY DEF Restart
<1>12. /\ app \in [Projects -> [EnvNames -> Repos \union {Nothing}]]
       /\ stray \in [Projects -> [EnvNames -> Repos \union {Nothing}]]
       /\ overlap \subseteq Projects
  BY DEF Typed
<1>13. \A p \in Projects, e \in EnvNames :
         (Astray(p, e) \/ CutOff(p, e)) => Deploying(p, e)
  BY DEF Astray, CutOff
<1>14. /\ strays \in [Projects -> [EnvNames -> Repos \union {Nothing}]]
       /\ \A p \in Projects, e \in EnvNames :
            \/ strays[p][e] = stray[p][e]
            \/ Deploying(p, e) /\ strays[p][e] = Source(p)
  BY <1>9, <1>12, <1>13
<1> HIDE DEF took
<1>15. /\ apps \in [Projects -> [EnvNames -> Repos \union {Nothing}]]
       /\ \A p \in Projects, e \in EnvNames :
            \/ apps[p][e] \in {app[p][e], Nothing}
            \/ CutOff(p, e) /\ apps[p][e] = Source(p)
  BY <1>9, <1>12, <1>13
<1> HIDE DEF strays, apps
<1>16. /\ stray' \in [Projects -> [EnvNames -> Repos \union {Nothing}]]
       /\ \A p \in Projects, e \in EnvNames :
            \/ stray'[p][e] = stray[p][e]
            \/ Deploying(p, e) /\ stray'[p][e] = Source(p)
  BY <1>11, <1>12, <1>14
<1>17. /\ app' \in [Projects -> [EnvNames -> Repos \union {Nothing}]]
       /\ \A p \in Projects, e \in EnvNames :
            \/ app'[p][e] \in {app[p][e], Nothing}
            \/ CutOff(p, e) /\ app'[p][e] = Source(p)
  BY <1>11, <1>12, <1>15
<1>18. overlap' = overlap \union {p \in Projects :
         deletion[p] # "none" /\ \E e \in EnvNames : CutOff(p, e)}
  BY DEF Restart
<1>19. /\ overlap' \subseteq Projects /\ overlap \subseteq overlap'
       /\ \A p \in Projects, e \in EnvNames :
            CutOff(p, e) /\ deletion[p] # "none" => p \in overlap'
  BY <1>12, <1>18
<1> QED
  BY <1>2, <1>4, <1>5, <1>6, <1>7, <1>8, <1>10, <1>16, <1>17, <1>19

(* SeedSteps and SeedRaises: the form is over.                             *)
LEMMA SeedStepsDoes ==
  ASSUME Typed, NEW f \in Forms, SeedSteps(f)
  PROVE  /\ form[f] \in Submitted
         /\ At(form[f].project, "start") /\ Keeps(form[f].project)
         /\ step' \in [Projects -> [Keys -> States]]
         /\ \A q \in Projects \ {form[f].project} : step'[q] = step[q]
         /\ \A k \in Keys :
              step'[form[f].project][k] \in {step[form[f].project][k], "pending", "none"}
         /\ form' \in [Forms -> Submitted \union {NoForm}]
         /\ form'[f] = NoForm
         /\ \A g \in Forms \ {f} : form'[g] = form[g]
         /\ faults' \in 0 .. MaxFaults
<1>1. form[f] \in Submitted
  BY FormsAre DEF SeedSteps
<1>2. form[f].project \in Projects
  BY <1>1 DEF Submitted
<1>3. At(form[f].project, "start") /\ Keeps(form[f].project)
  BY <1>2, SetWorkerAt DEF SeedSteps, SetWorker, Stages
<1> DEFINE new == IF Exists(form[f].project) THEN [k \in Keys |-> "pending"] ELSE NoSteps
<1>4. new \in [Keys -> States] /\ \A k \in Keys : new[k] \in {"pending", "none"}
  BY NothingsAre DEF States
<1>5. \/ step' = [step EXCEPT ![form[f].project] = new] /\ UNCHANGED faults
      \/ UNCHANGED step /\ Fault
  BY DEF SeedSteps
<1> HIDE DEF new
<1>6. step \in [Projects -> [Keys -> States]] /\ faults \in 0 .. MaxFaults
  BY DEF Typed
<1>7. /\ step' \in [Projects -> [Keys -> States]]
      /\ \A q \in Projects \ {form[f].project} : step'[q] = step[q]
      /\ \A k \in Keys :
           step'[form[f].project][k] \in {step[form[f].project][k], "pending", "none"}
  BY <1>2, <1>4, <1>5, <1>6
<1>8. faults' \in 0 .. MaxFaults
  BY <1>5, <1>6, FaultIs
<1> QED
  BY <1>1, <1>3, <1>7, <1>8, SetFormIs DEF SeedSteps

LEMMA SeedRaisesDoes ==
  ASSUME Typed, NEW f \in Forms, SeedRaises(f)
  PROVE  /\ form[f] \in Submitted
         /\ At(form[f].project, "lost") /\ Keeps(form[f].project)
         /\ form' \in [Forms -> Submitted \union {NoForm}]
         /\ form'[f] = NoForm
         /\ \A g \in Forms \ {f} : form'[g] = form[g]
         /\ faults' \in 0 .. MaxFaults
<1>1. form[f] \in Submitted
  BY FormsAre DEF SeedRaises
<1>2. form[f].project \in Projects
  BY <1>1 DEF Submitted
<1>3. At(form[f].project, "lost") /\ Keeps(form[f].project)
  BY <1>2, SetWorkerAt DEF SeedRaises, SetWorker, Stages
<1> QED
  BY <1>1, <1>3, FaultIs, SetFormIs DEF SeedRaises

(* DeployReturns: one environment of p is LIVE or FAILED, and its step     *)
(* says so.                                                                *)
LEMMA DeployReturnsDoes ==
  ASSUME Typed, NEW p \in Projects, Hands(p), DeployReturns(p)
  PROVE  LET e == Head(worker[p].todo)
         IN /\ e \in EnvNames /\ worker[p].row \in ProjectRows
            /\ At(p, worker'[p].pc) /\ worker'[p].row = worker[p].row
            /\ worker'[p].todo = Tail(worker[p].todo)
            /\ \/ worker'[p].pc = "deploy" /\ worker'[p].todo # <<>>
               \/ worker'[p].pc = "ended" /\ Len(worker[p].todo) = 1
            /\ Moves(p, e) /\ env[p][e] # "none"
            /\ \/ env'[p][e] = "live" /\ Marks(p, {e}, "done")
               \/ env'[p][e] = "failed" /\ Marks(p, {e}, "failed")
            /\ deletion[p] # "none" => p \in overlap'
            /\ faults' \in 0 .. MaxFaults
<1> DEFINE e == Head(worker[p].todo)
<1>1. worker[p].todo # <<>> /\ Importing(p) /\ worker[p].row \in ProjectRows
  BY DEF DeployReturns, Hands, Importing
<1>2. e \in EnvNames /\ e \in Keys
  BY <1>1, HeadIs DEF EnvNames, Keys
<1>3. /\ At(p, worker'[p].pc) /\ worker'[p].row = worker[p].row
      /\ worker'[p].todo = Tail(worker[p].todo)
      /\ \/ worker'[p].pc = "deploy" /\ worker'[p].todo # <<>>
         \/ worker'[p].pc = "ended" /\ Len(worker[p].todo) = 1
  BY <1>1, NextDeployDoes DEF DeployReturns
<1>4. \/ DeployedLive(p, e) /\ SetStep(p, e, "done")
      \/ DeployedFailed(p, e) /\ SetStep(p, e, "failed")
  BY DEF DeployReturns
<1> HIDE DEF e
<1>5. CASE DeployedLive(p, e) /\ SetStep(p, e, "done")
  <2>1. Marks(p, {e}, "done")
    BY <1>2, <1>5, SetStepIs DEF States
  <2>2. /\ Moves(p, e) /\ env[p][e] # "none" /\ env'[p][e] = "live"
        /\ deletion[p] # "none" => p \in overlap'
        /\ faults' \in 0 .. MaxFaults
    BY <1>1, <1>2, <1>5, DeployedLiveDoes
  <2> QED
    BY <1>1, <1>2, <1>3, <2>1, <2>2 DEF e
<1>6. CASE DeployedFailed(p, e) /\ SetStep(p, e, "failed")
  <2>1. Marks(p, {e}, "failed")
    BY <1>2, <1>6, SetStepIs DEF States
  <2>2. /\ Moves(p, e) /\ env[p][e] # "none" /\ env'[p][e] = "failed"
        /\ deletion[p] # "none" => p \in overlap'
        /\ faults' \in 0 .. MaxFaults
    BY <1>1, <1>2, <1>6, DeployedFailedDoes
  <2> QED
    BY <1>1, <1>2, <1>3, <2>1, <2>2 DEF e
<1> QED
  BY <1>4, <1>5, <1>6

LEMMA DeployRaisesDoes ==
  ASSUME Typed, NEW p \in Projects, Hands(p), DeployRaises(p)
  PROVE  LET e == Head(worker[p].todo)
         IN /\ e \in EnvNames /\ worker[p].row \in ProjectRows
            /\ At(p, worker'[p].pc) /\ worker'[p].row = worker[p].row
            /\ worker'[p].todo = Tail(worker[p].todo)
            /\ \/ worker'[p].pc = "deploy" /\ worker'[p].todo # <<>>
               \/ worker'[p].pc = "ended" /\ Len(worker[p].todo) = 1
            /\ Moves(p, e) /\ env[p][e] = "none" /\ UNCHANGED env
            /\ p \in overlap' /\ Marks(p, {e}, "failed")
            /\ faults' \in 0 .. MaxFaults
<1> DEFINE e == Head(worker[p].todo)
<1>1. worker[p].todo # <<>> /\ Importing(p) /\ worker[p].row \in ProjectRows
  BY DEF DeployRaises, Hands, Importing
<1>2. e \in EnvNames /\ e \in Keys
  BY <1>1, HeadIs DEF EnvNames, Keys
<1>3. /\ At(p, worker'[p].pc) /\ worker'[p].row = worker[p].row
      /\ worker'[p].todo = Tail(worker[p].todo)
      /\ \/ worker'[p].pc = "deploy" /\ worker'[p].todo # <<>>
         \/ worker'[p].pc = "ended" /\ Len(worker[p].todo) = 1
  BY <1>1, NextDeployDoes DEF DeployRaises
<1>4. DeployedNowhere(p, e) /\ SetStep(p, e, "failed")
  BY DEF DeployRaises
<1> HIDE DEF e
<1>5. Marks(p, {e}, "failed")
  BY <1>2, <1>4, SetStepIs DEF States
<1>6. /\ Moves(p, e) /\ env[p][e] = "none" /\ UNCHANGED env
      /\ p \in overlap' /\ faults' \in 0 .. MaxFaults
  BY <1>1, <1>2, <1>4, DeployedNowhereDoes
<1> QED
  BY <1>1, <1>2, <1>3, <1>5, <1>6 DEF e

(* StartDeploy: the deployment of the next environment begins.             *)
LEMMA StartDeployDoes ==
  ASSUME Typed, NEW p \in Projects, Hands(p), StartDeploy(p)
  PROVE  LET e == Head(worker[p].todo)
         IN /\ e \in EnvNames /\ At(p, "deploying") /\ Keeps(p)
            /\ Moves(p, e) /\ Marks(p, {e}, "running")
            /\ env'[p][e] = IF env[p][e] = "none" THEN "none" ELSE "building"
<1> DEFINE e == Head(worker[p].todo)
<1>1. e \in EnvNames /\ e \in Keys
  BY HeadIs DEF StartDeploy, Hands, EnvNames, Keys
<1>2. SetStep(p, e, "running") /\ Begun(p, e) /\ UNCHANGED overlap
  BY DEF StartDeploy
<1>3. At(p, "deploying") /\ Keeps(p)
  BY SetWorkerAt DEF StartDeploy, Stages
<1> HIDE DEF e
<1>4. Marks(p, {e}, "running")
  BY <1>1, <1>2, SetStepIs DEF States
<1> QED
  BY <1>1, <1>2, <1>3, <1>4, BegunDoes DEF e

(* HandlerRaises: the thread ends, and the project and its steps stay.     *)
LEMMA HandlerRaisesDoes ==
  ASSUME Typed, NEW p \in Projects, HandlerRaises(p)
  PROVE  /\ At(p, "ended") /\ Keeps(p)
         /\ unwritten' = unwritten \union {p} /\ unwritten' \subseteq Projects
         /\ faults' \in 0 .. MaxFaults
BY SetWorkerAt, FaultIs DEF HandlerRaises, Typed, Stages

LEMMA TypedStep == Shape /\ [Next]_vars => Typed'
<1> SUFFICES ASSUME Shape, [Next]_vars PROVE Typed'
  OBVIOUS
<1>0. Typed /\ \A p \in Projects : Hands(p)
  BY DEF Shape
<1> USE <1>0
<1>1. ASSUME NEW f \in Forms, NEW o \in Orgs, NEW p \in Projects,
             NEW r \in Repos, AskImport(f, o, p, r)
      PROVE  Typed'
  BY <1>1, AskImportDoes DEF AskImport, Typed
<1>2. ASSUME NEW f \in Forms, CreateShell(f)
      PROVE  Typed'
  <2>1. form[f].project \in Projects
    BY <1>2, CreateShellDoes DEF Submitted
  <2> QED
    BY <1>2, <2>1, CreateShellDoes, SharingIs DEF CreateShell, Typed, Writes
<1>3. ASSUME NEW f \in Forms, ShellRefused(f)
      PROVE  Typed'
  BY <1>3, SetFormIs DEF ShellRefused, Typed
<1>4. ASSUME NEW f \in Forms, SeedSteps(f)
      PROVE  Typed'
  BY <1>4, SeedStepsDoes DEF SeedSteps, Typed, At
<1>5. ASSUME NEW f \in Forms, SeedRaises(f)
      PROVE  Typed'
  BY <1>5, SeedRaisesDoes DEF SeedRaises, Typed, At
<1>6. ASSUME NEW p \in Projects, StartMissing(p)
      PROVE  Typed'
  BY <1>6, SetWorkerAt DEF StartMissing, Typed, At, Stages
<1>7. ASSUME NEW p \in Projects, StartImport(p)
      PROVE  Typed'
  BY <1>7, StartImportDoes DEF StartImport, Stepped, Typed, At, Marks
<1>8. ASSUME NEW p \in Projects, Rmtree(p)
      PROVE  Typed'
  <2>1. worker[p].row \in ProjectRows /\ worker[p].row.slug \in Slugs
    BY <1>8 DEF Rmtree, Hands, Importing, ProjectRows
  <2>2. At(p, "cloning") /\ run' \in [Runs -> AgentRuns]
    BY <1>8, SetWorkerAt, OrphanIs DEF Rmtree, Stages
  <2>3. clone' \in [Slugs -> Repos \union {Nothing}]
    BY <1>8, <2>1 DEF Rmtree, Typed
  <2> QED
    BY <1>8, <2>2, <2>3 DEF Rmtree, Typed, At
<1>9. ASSUME NEW p \in Projects, Clone(p)
      PROVE  Typed'
  BY <1>9, CloneDoes DEF Clone, Stepped, Typed, At
<1>10. ASSUME NEW p \in Projects, CloneFails(p)
      PROVE  Typed'
  <2>1. At(p, "except") /\ Marks(p, {"clone"}, "failed")
    BY <1>10, SetWorkerAt, SetStepIs DEF CloneFails, Stages, Keys, States
  <2>2. faults' \in 0 .. MaxFaults
    BY <1>10, FaultIs DEF CloneFails, Typed
  <2> QED
    BY <1>10, <2>1, <2>2 DEF CloneFails, Stepped, Typed, At, Marks
<1>11. ASSUME NEW p \in Projects, Detect(p)
      PROVE  Typed'
  BY <1>11, DetectDoes DEF Detect, Stepped, Typed, At, Marks
<1>12. ASSUME NEW p \in Projects, SaveReady(p)
      PROVE  Typed'
  <2>1. Importing(p) /\ "ready" \in Statuses
    BY <1>12 DEF SaveReady, Importing, Statuses
  <2>2. Writes(p) /\ shared' \subseteq Projects
    BY <1>12, <2>1, SaveRowDoes, SharingIs DEF SaveReady, Typed
  <2>3. At(p, "environments")
    BY <1>12, SetWorkerAt DEF SaveReady, Stages
  <2> QED
    BY <1>12, <2>2, <2>3 DEF SaveReady, Typed, Writes, At
<1>13. ASSUME NEW p \in Projects, SaveGate(p)
      PROVE  Typed'
  <2>1. Importing(p) /\ "failed" \in Statuses
    BY <1>13 DEF SaveGate, Importing, Statuses
  <2>2. Writes(p) /\ shared' \subseteq Projects
    BY <1>13, <2>1, SaveRowDoes, SharingIs DEF SaveGate, Typed
  <2>3. At(p, "gate")
    BY <1>13, SetWorkerAt DEF SaveGate, Stages
  <2> QED
    BY <1>13, <2>2, <2>3 DEF SaveGate, Typed, Writes, At
<1>14. ASSUME NEW p \in Projects, SaveRaises(p)
      PROVE  Typed'
  <2>1. At(p, "except") /\ faults' \in 0 .. MaxFaults
    BY <1>14, SetWorkerAt, FaultIs DEF SaveRaises, Stages, Typed
  <2> QED
    BY <1>14, <2>1 DEF SaveRaises, Typed, At
<1>15. ASSUME NEW p \in Projects, Gate(p)
      PROVE  Typed'
  BY <1>15, SetWorkerAt, FailPendingIs DEF Gate, Stepped, Typed, At, Fails, Stages
<1>16. ASSUME NEW p \in Projects, MakeEnvironments(p)
      PROVE  Typed'
  BY <1>16, MakeEnvironmentsDoes DEF MakeEnvironments, Stepped, Typed, At, Furnishes, Marks
<1>17. ASSUME NEW p \in Projects, EnvironmentsRaise(p)
      PROVE  Typed'
  BY <1>17, EnvironmentsRaiseDoes DEF EnvironmentsRaise, Stepped, Typed, At, Furnishes
<1>18. ASSUME NEW p \in Projects, ImportRaised(p)
      PROVE  Typed'
  BY <1>18, ImportRaisedDoes DEF ImportRaised, Stepped, Typed, At, Fails, Writes
<1>19. ASSUME NEW p \in Projects, StartDeploy(p)
      PROVE  Typed'
  <2> DEFINE e == Head(worker[p].todo)
  <2>1. At(p, "deploying") /\ Moves(p, e) /\ Marks(p, {e}, "running")
    BY <1>19, StartDeployDoes
  <2> HIDE DEF e
  <2>2. UNCHANGED <<project, clone, pages, form, deletion, run, shared, overlap, faults>>
    BY <1>19 DEF StartDeploy
  <2> QED
    BY <2>1, <2>2 DEF Typed, At, Marks, Stepped, Moves, Furnishes
<1>20. ASSUME NEW p \in Projects, DeployReturns(p)
      PROVE  Typed'
  <2> DEFINE e == Head(worker[p].todo)
  <2>1. /\ At(p, worker'[p].pc) /\ Moves(p, e) /\ faults' \in 0 .. MaxFaults
        /\ Marks(p, {e}, "done") \/ Marks(p, {e}, "failed")
    BY <1>20, DeployReturnsDoes
  <2> HIDE DEF e
  <2>2. UNCHANGED <<project, clone, pages, form, deletion, run, shared>>
    BY <1>20 DEF DeployReturns
  <2> QED
    BY <2>1, <2>2 DEF Typed, At, Marks, Stepped, Moves, Furnishes
<1>21. ASSUME NEW p \in Projects, DeployRaises(p)
      PROVE  Typed'
  <2> DEFINE e == Head(worker[p].todo)
  <2>1. /\ At(p, worker'[p].pc) /\ Moves(p, e) /\ faults' \in 0 .. MaxFaults
        /\ Marks(p, {e}, "failed")
    BY <1>21, DeployRaisesDoes
  <2> HIDE DEF e
  <2>2. UNCHANGED <<project, clone, pages, form, deletion, run, shared>>
    BY <1>21 DEF DeployRaises
  <2> QED
    BY <2>1, <2>2 DEF Typed, At, Marks, Stepped, Moves, Furnishes
<1>22. ASSUME NEW p \in Projects, AskDelete(p)
      PROVE  Typed'
  BY <1>22, AskDeleteDoes DEF AskDelete, Typed, Furnishes
<1>23. ASSUME NEW p \in Projects, DeleteRow(p)
      PROVE  Typed'
  BY <1>23, DeleteRowDoes DEF DeleteRow, Typed, Furnishes, Writes
<1>24. ASSUME NEW r \in Runs, NEW p \in Projects, Launch(r, p)
      PROVE  Typed'
  BY <1>24, LaunchDoes DEF Launch, Typed, Takes
<1>25. ASSUME NEW r \in Runs, FinishRun(r)
      PROVE  Typed'
  BY <1>25, FinishRunDoes DEF FinishRun, Typed, Takes
<1>26. ASSUME Restart
      PROVE  Typed'
  <2>1. UNCHANGED <<project, step, env, clone, shared, touched, unwritten>>
    BY <1>26 DEF Restart
  <2> QED
    BY <1>26, <2>1, RestartDoes DEF Typed
<1>27. ASSUME UNCHANGED vars PROVE Typed'
  BY <1>27 DEF vars, Typed
<1>28. ASSUME NEW p \in Projects, HandlerRaises(p)
      PROVE  Typed'
  BY <1>28, HandlerRaisesDoes DEF HandlerRaises, Typed, At
<1>29. ASSUME NEW p \in Projects, NEW e \in EnvNames, AskDeploy(p, e)
      PROVE  Typed'
  <2>1. UNCHANGED <<project, clone, stray, form, worker, deletion, run, shared>>
    BY <1>29 DEF AskDeploy
  <2> QED
    BY <1>29, <2>1, AskDeployDoes DEF Typed, Moves, Furnishes, Orders, Stepped
<1>30. ASSUME NEW p \in Projects, NEW e \in EnvNames, RedeployReturns(p, e)
      PROVE  Typed'
  <2>1. UNCHANGED <<project, clone, stray, form, worker, deletion, run, shared, touched>>
    BY <1>30 DEF RedeployReturns
  <2> QED
    BY <1>30, <2>1, RedeployReturnsDoes DEF Typed, Moves, Furnishes, Orders, Stepped
<1>31. ASSUME NEW p \in Projects, NEW e \in EnvNames, AskStop(p, e)
      PROVE  Typed'
  <2>1. Moves(p, e) /\ touched' = touched \union {<<p, e>>}
    BY <1>31, AskStopDoes
  <2>2. UNCHANGED <<project, step, clone, stray, redeploy, form, worker, deletion,
                    run, shared, overlap, unwritten, faults>>
    BY <1>31 DEF AskStop
  <2>3. touched' \subseteq Projects \X EnvNames
    BY <2>1 DEF Typed
  <2> QED
    BY <2>1, <2>2, <2>3 DEF Typed, Moves, Furnishes
<1>32. ASSUME NEW p \in Projects, NEW e \in EnvNames, Dies(p, e)
      PROVE  Typed'
  BY <1>32, DiesDoes DEF Dies, Typed, Moves, Furnishes
<1> QED
  BY <1>1, <1>2, <1>3, <1>4, <1>5, <1>6, <1>7, <1>8, <1>9, <1>10, <1>11,
     <1>12, <1>13, <1>14, <1>15, <1>16, <1>17, <1>18, <1>19, <1>20, <1>21, <1>22,
     <1>23, <1>24, <1>25, <1>26, <1>27, <1>28, <1>29, <1>30, <1>31, <1>32
  DEF Next, ImportNext, FormNext, RunNext, PageNext

(* What a project has in hand is not changed by the threads of others, nor *)
(* by what a page does to an environment that is there.                    *)
LEMMA HandsFrame ==
  ASSUME NEW q \in Projects, Hands(q), worker'[q] = worker[q],
         project'[q] = project[q], redeploy'[q] = redeploy[q],
         \A e \in EnvNames :
           /\ env'[q][e] # "none" <=> env[q][e] # "none"
           /\ <<q, e>> \in touched' <=> <<q, e>> \in touched
  PROVE  Hands(q)'
BY DEF Hands, Paged, Importing, Exists

(* The identity of the row stays.                                          *)
SameRow(p) ==
  /\ Exists(p)' <=> Exists(p)
  /\ Exists(p) => /\ project'[p].org = project[p].org
                  /\ project'[p].slug = project[p].slug
                  /\ project'[p].repo = project[p].repo

(* A thread goes on with the row it has.                                   *)
LEMMA HandsOn ==
  ASSUME NEW p \in Projects, Hands(p), worker'[p].row = worker[p].row,
         worker'[p].pc \in Unmade => worker[p].pc \in Unmade,
         worker'[p].pc \notin {"none", "start"}, Importing(p)' => Importing(p),
         worker'[p].pc \in {"deploy", "deploying"} =>
           worker'[p].todo # <<>> /\ worker[p].pc \in {"deploy", "deploying"},
         project'[p] = project[p] \/ SameRow(p), redeploy'[p] = redeploy[p],
         touched' = touched,
         \A e \in EnvNames : env'[p][e] # "none" <=> env[p][e] # "none"
  PROVE  Hands(p)'
<1>1. SameRow(p)
  BY DEF SameRow, Exists
<1>2. \A e \in EnvNames : Paged(p, e)'
  BY <1>1 DEF Hands, Paged, SameRow
<1>3. Importing(p)' => worker'[p].row \in ProjectRows
  BY DEF Hands
<1> QED
  BY <1>1, <1>2, <1>3 DEF Hands, SameRow

LEMMA HandsStep == Shape /\ [Next]_vars => \A q \in Projects : Hands(q)'
<1> SUFFICES ASSUME Shape, [Next]_vars PROVE \A q \in Projects : Hands(q)'
  OBVIOUS
<1>0. Typed /\ FormInv /\ \A p \in Projects : Hands(p)
  BY DEF Shape
<1> USE <1>0
<1>1. ASSUME NEW f \in Forms, NEW o \in Orgs, NEW p \in Projects,
             NEW r \in Repos, AskImport(f, o, p, r)
      PROVE  \A q \in Projects : Hands(q)'
  BY <1>1, HandsFrame DEF AskImport
<1>2. ASSUME NEW f \in Forms, CreateShell(f)
      PROVE  \A q \in Projects : Hands(q)'
  <2>0. PICK p \in Projects : p = form[f].project
    BY <1>2, CreateShellDoes DEF Submitted
  <2>1. worker[p].pc = "none"
    BY <1>2, <2>0 DEF FormInv, CreateShell
  <2>2. \A q \in Projects \ {p} : project'[q] = project[q]
    BY <1>2, <2>0, CreateShellDoes DEF Writes
  <2>3. project'[p].status = "importing"
    BY <1>2, <2>0, CreateShellDoes
  <2>4. UNCHANGED <<env, worker, redeploy, touched>>
    BY <1>2 DEF CreateShell
  <2>5. worker[p].row = NoProject /\ \A e \in EnvNames :
          env[p][e] = "none" /\ redeploy[p][e] = "none" /\ <<p, e>> \notin touched
    BY <2>1 DEF Hands, Paged, Unmade
  <2>6. \A e \in EnvNames : Paged(p, e)'
    BY <2>1, <2>4, <2>5 DEF Paged
  <2>7. Hands(p)'
    BY <2>1, <2>4, <2>5, <2>6, NoRowIsNone DEF Hands, Importing
  <2> QED
    BY <2>2, <2>4, <2>7, HandsFrame
<1>3. ASSUME NEW f \in Forms, ShellRefused(f)
      PROVE  \A q \in Projects : Hands(q)'
  BY <1>3, HandsFrame DEF ShellRefused
<1>4. ASSUME NEW f \in Forms, SeedSteps(f)
      PROVE  \A q \in Projects : Hands(q)'
  <2>0. PICK p \in Projects : p = form[f].project
    BY <1>4, SeedStepsDoes DEF Submitted
  <2>1. At(p, "start") /\ Keeps(p)
    BY <1>4, <2>0, SeedStepsDoes
  <2>2. worker[p].pc = "none"
    BY <1>4, <2>0 DEF FormInv, SeedSteps
  <2>3. UNCHANGED <<project, env, redeploy, touched>>
    BY <1>4 DEF SeedSteps
  <2>4. worker[p].row = NoProject /\ \A e \in EnvNames :
          env[p][e] = "none" /\ redeploy[p][e] = "none" /\ <<p, e>> \notin touched
    BY <2>2 DEF Hands, Paged, Unmade
  <2>5. \A e \in EnvNames : Paged(p, e)'
    BY <2>1, <2>3, <2>4 DEF Paged, At
  <2>6. Hands(p)'
    BY <2>1, <2>3, <2>4, <2>5, NoRowIsNone DEF Hands, Importing, At, Keeps
  <2> QED
    BY <2>1, <2>3, <2>6, HandsFrame DEF At
<1>5. ASSUME NEW f \in Forms, SeedRaises(f)
      PROVE  \A q \in Projects : Hands(q)'
  <2>0. PICK p \in Projects : p = form[f].project
    BY <1>5, SeedRaisesDoes DEF Submitted
  <2>1. At(p, "lost") /\ Keeps(p)
    BY <1>5, <2>0, SeedRaisesDoes
  <2>2. UNCHANGED <<project, env, redeploy, touched>>
    BY <1>5 DEF SeedRaises
  <2>3. Hands(p)'
    BY <2>1, <2>2, HandsOn DEF At, Keeps, Unmade, Importing
  <2> QED
    BY <2>1, <2>2, <2>3, HandsFrame DEF At
<1>6. ASSUME NEW p \in Projects, StartMissing(p)
      PROVE  \A q \in Projects : Hands(q)'
  <2>1. At(p, "ended") /\ Keeps(p)
    BY <1>6, SetWorkerAt DEF StartMissing, Stages
  <2>2. UNCHANGED <<project, env, redeploy, touched>>
    BY <1>6 DEF StartMissing
  <2>3. worker[p].pc = "start"
    BY <1>6 DEF StartMissing
  <2>4. Hands(p)'
    BY <2>1, <2>2, <2>3, HandsOn DEF At, Keeps, Unmade, Importing
  <2> QED
    BY <2>1, <2>2, <2>4, HandsFrame DEF At
<1>7. ASSUME NEW p \in Projects, StartImport(p)
      PROVE  \A q \in Projects : Hands(q)'
  <2>1. At(p, "rmtree") /\ worker'[p].row = project[p] /\ project[p] \in ProjectRows
    BY <1>7, StartImportDoes, RowsAre DEF StartImport
  <2>2. UNCHANGED <<project, env, redeploy, touched>> /\ worker[p].pc = "start"
    BY <1>7 DEF StartImport
  <2>3. \A e \in EnvNames :
          env[p][e] = "none" /\ redeploy[p][e] = "none" /\ <<p, e>> \notin touched
    BY <2>2 DEF Hands, Paged, Unmade
  <2>4. \A e \in EnvNames : Paged(p, e)'
    BY <2>1, <2>2, <2>3 DEF Paged, At
  <2>5. Hands(p)'
    BY <2>1, <2>2, <2>4 DEF At, Hands
  <2> QED
    BY <2>1, <2>2, <2>5, HandsFrame DEF At
<1>8. ASSUME NEW p \in Projects, Rmtree(p)
      PROVE  \A q \in Projects : Hands(q)'
  <2>1. At(p, "cloning") /\ Keeps(p)
    BY <1>8, SetWorkerAt DEF Rmtree, Stages
  <2>2. UNCHANGED <<project, env, redeploy, touched>>
    BY <1>8 DEF Rmtree
  <2>3. worker[p].pc = "rmtree"
    BY <1>8 DEF Rmtree
  <2>4. Hands(p)'
    BY <2>1, <2>2, <2>3, HandsOn DEF At, Keeps, Unmade, Importing
  <2> QED
    BY <2>1, <2>2, <2>4, HandsFrame DEF At
<1>9. ASSUME NEW p \in Projects, Clone(p)
      PROVE  \A q \in Projects : Hands(q)'
  <2>1. At(p, "detect") /\ Keeps(p)
    BY <1>9, CloneDoes
  <2>2. UNCHANGED <<project, env, redeploy, touched>>
    BY <1>9 DEF Clone
  <2>3. worker[p].pc = "cloning"
    BY <1>9 DEF Clone
  <2>4. Hands(p)'
    BY <2>1, <2>2, <2>3, HandsOn DEF At, Keeps, Unmade, Importing
  <2> QED
    BY <2>1, <2>2, <2>4, HandsFrame DEF At
<1>10. ASSUME NEW p \in Projects, CloneFails(p)
      PROVE  \A q \in Projects : Hands(q)'
  <2>1. At(p, "except") /\ Keeps(p)
    BY <1>10, SetWorkerAt DEF CloneFails, Stages
  <2>2. UNCHANGED <<project, env, redeploy, touched>>
    BY <1>10 DEF CloneFails
  <2>3. worker[p].pc = "cloning"
    BY <1>10 DEF CloneFails
  <2>4. Hands(p)'
    BY <2>1, <2>2, <2>3, HandsOn DEF At, Keeps, Unmade, Importing
  <2> QED
    BY <2>1, <2>2, <2>4, HandsFrame DEF At
<1>11. ASSUME NEW p \in Projects, Detect(p)
      PROVE  \A q \in Projects : Hands(q)'
  <2>1. At(p, "save") /\ worker'[p].row = worker[p].row
    BY <1>11, DetectDoes
  <2>2. UNCHANGED <<project, env, redeploy, touched>>
    BY <1>11 DEF Detect
  <2>3. worker[p].pc = "detect"
    BY <1>11 DEF Detect
  <2>4. Hands(p)'
    BY <2>1, <2>2, <2>3, HandsOn DEF At, Keeps, Unmade, Importing
  <2> QED
    BY <2>1, <2>2, <2>4, HandsFrame DEF At
<1>12. ASSUME NEW p \in Projects, SaveReady(p)
      PROVE  \A q \in Projects : Hands(q)'
  <2>1. Importing(p) /\ "ready" \in Statuses /\ worker[p].pc = "save"
    BY <1>12 DEF SaveReady, Importing, Statuses
  <2>2. At(p, "environments") /\ Keeps(p)
    BY <1>12, SetWorkerAt DEF SaveReady, Stages
  <2>3. /\ Writes(p) /\ project'[p].status = "ready" /\ worker[p].row \in ProjectRows
        /\ project'[p].org = worker[p].row.org /\ project'[p].slug = worker[p].row.slug
        /\ project'[p].repo = worker[p].row.repo
    BY <1>12, <2>1, SaveRowDoes DEF SaveReady
  <2>4. UNCHANGED <<env, redeploy, touched>>
    BY <1>12 DEF SaveReady
  <2>5. \A e \in EnvNames :
          env[p][e] = "none" /\ redeploy[p][e] = "none" /\ <<p, e>> \notin touched
    BY <2>1 DEF Hands, Paged, Unmade
  <2>6. \A e \in EnvNames : Paged(p, e)'
    BY <2>2, <2>4, <2>5 DEF Paged, At
  <2>7. Hands(p)'
    BY <2>2, <2>3, <2>6 DEF At, Keeps, Hands
  <2> QED
    BY <2>2, <2>3, <2>4, <2>7, HandsFrame DEF At, Writes
<1>13. ASSUME NEW p \in Projects, SaveGate(p)
      PROVE  \A q \in Projects : Hands(q)'
  <2>1. Importing(p) /\ "failed" \in Statuses /\ worker[p].pc = "save"
    BY <1>13 DEF SaveGate, Importing, Statuses
  <2>2. At(p, "gate") /\ Keeps(p)
    BY <1>13, SetWorkerAt DEF SaveGate, Stages
  <2>3. /\ Writes(p) /\ project'[p].status = "failed" /\ worker[p].row \in ProjectRows
        /\ project'[p].org = worker[p].row.org /\ project'[p].slug = worker[p].row.slug
        /\ project'[p].repo = worker[p].row.repo
    BY <1>13, <2>1, SaveRowDoes DEF SaveGate
  <2>4. UNCHANGED <<env, redeploy, touched>>
    BY <1>13 DEF SaveGate
  <2>5. \A e \in EnvNames :
          env[p][e] = "none" /\ redeploy[p][e] = "none" /\ <<p, e>> \notin touched
    BY <2>1 DEF Hands, Paged, Unmade
  <2>6. \A e \in EnvNames : Paged(p, e)'
    BY <2>2, <2>4, <2>5 DEF Paged, At
  <2>7. Hands(p)'
    BY <2>2, <2>3, <2>6 DEF At, Keeps, Hands
  <2> QED
    BY <2>2, <2>3, <2>4, <2>7, HandsFrame DEF At, Writes
<1>14. ASSUME NEW p \in Projects, SaveRaises(p)
      PROVE  \A q \in Projects : Hands(q)'
  <2>1. At(p, "except") /\ Keeps(p)
    BY <1>14, SetWorkerAt DEF SaveRaises, Stages
  <2>2. UNCHANGED <<project, env, redeploy, touched>>
    BY <1>14 DEF SaveRaises
  <2>3. worker[p].pc = "save"
    BY <1>14 DEF SaveRaises
  <2>4. Hands(p)'
    BY <2>1, <2>2, <2>3, HandsOn DEF At, Keeps, Unmade, Importing
  <2> QED
    BY <2>1, <2>2, <2>4, HandsFrame DEF At
<1>15. ASSUME NEW p \in Projects, Gate(p)
      PROVE  \A q \in Projects : Hands(q)'
  <2>1. At(p, "ended") /\ Keeps(p)
    BY <1>15, SetWorkerAt DEF Gate, Stages
  <2>2. UNCHANGED <<project, env, redeploy, touched>>
    BY <1>15 DEF Gate
  <2>3. worker[p].pc = "gate"
    BY <1>15 DEF Gate
  <2>4. Hands(p)'
    BY <2>1, <2>2, <2>3, HandsOn DEF At, Keeps, Unmade, Importing
  <2> QED
    BY <2>1, <2>2, <2>4, HandsFrame DEF At
<1>16. ASSUME NEW p \in Projects, MakeEnvironments(p)
      PROVE  \A q \in Projects : Hands(q)'
  <2>1. At(p, "deploy") /\ worker'[p].row = worker[p].row /\ Furnishes(p)
        /\ worker'[p].todo \in {Orchestrated, Direct}
        /\ \A e \in EnvNames : env'[p][e] # "none"
    BY <1>16, MakeEnvironmentsDoes
  <2>2. worker'[p].todo # <<>>
    BY <2>1 DEF Orchestrated, Direct
  <2>3. /\ UNCHANGED <<project, redeploy, touched>> /\ Exists(p)
        /\ worker[p].pc = "environments"
    BY <1>16 DEF MakeEnvironments
  <2>4. \A e \in EnvNames : redeploy[p][e] = "none"
    BY <2>3 DEF Hands, Paged, Unmade
  <2>5. worker[p].row \in ProjectRows
    BY <2>3 DEF Hands, Importing
  <2>6. \A e \in EnvNames : Paged(p, e)'
    BY <2>1, <2>3, <2>4, <2>5 DEF Paged, At, Exists, Unmade
  <2>7. Hands(p)'
    BY <2>1, <2>2, <2>3, <2>5, <2>6 DEF At, Hands, Importing, Exists
  <2> QED
    BY <2>1, <2>3, <2>7, HandsFrame DEF At, Furnishes
<1>17. ASSUME NEW p \in Projects, EnvironmentsRaise(p)
      PROVE  \A q \in Projects : Hands(q)'
  <2>1. At(p, "except") /\ Keeps(p) /\ Furnishes(p)
        /\ \A e \in EnvNames : env'[p][e] = env[p][e] \/ (Exists(p) /\ env'[p][e] = "empty")
    BY <1>17, EnvironmentsRaiseDoes
  <2>2. UNCHANGED <<project, redeploy, touched>> /\ worker[p].pc = "environments"
    BY <1>17 DEF EnvironmentsRaise
  <2>3. \A e \in EnvNames : env'[p][e] # "none" => Exists(p)
    BY <2>1 DEF Hands, Paged
  <2>4. \A e \in EnvNames : redeploy[p][e] = "none"
    BY <2>2 DEF Hands, Paged, Unmade
  <2>5. worker[p].row \in ProjectRows
    BY <2>2 DEF Hands, Importing
  <2>6. \A e \in EnvNames : Paged(p, e)'
    BY <2>1, <2>2, <2>3, <2>4, <2>5 DEF Paged, At, Keeps, Exists, Unmade
  <2>7. Hands(p)'
    BY <2>1, <2>2, <2>5, <2>6 DEF At, Keeps, Hands, Importing, Exists
  <2> QED
    BY <2>1, <2>2, <2>7, HandsFrame DEF At, Furnishes
<1>18. ASSUME NEW p \in Projects, ImportRaised(p)
      PROVE  \A q \in Projects : Hands(q)'
  <2>1. At(p, "ended") /\ Keeps(p) /\ Writes(p)
    BY <1>18, ImportRaisedDoes
  <2>2. SameRow(p)
    BY <1>18, ImportRaisedDoes DEF Exists, SameRow
  <2>3. UNCHANGED <<env, redeploy, touched>>
    BY <1>18 DEF ImportRaised
  <2>4. Hands(p)'
    BY <2>1, <2>2, <2>3, HandsOn DEF At, Keeps, Unmade, Importing
  <2> QED
    BY <2>1, <2>3, <2>4, HandsFrame DEF At, Writes
<1>19. ASSUME NEW p \in Projects, StartDeploy(p)
      PROVE  \A q \in Projects : Hands(q)'
  <2> DEFINE d == Head(worker[p].todo)
  <2>1. /\ d \in EnvNames /\ At(p, "deploying") /\ Keeps(p) /\ Moves(p, d)
    BY <1>19, StartDeployDoes
  <2> HIDE DEF d
  <2>2. \A e \in EnvNames : env'[p][e] # "none" <=> env[p][e] # "none"
    BY <2>1 DEF Moves
  <2>3. \A q \in Projects \ {p} : env'[q] = env[q]
    BY <2>1 DEF Moves, Furnishes
  <2>4. UNCHANGED <<project, redeploy, touched>> /\ worker[p].pc = "deploy"
        /\ worker[p].todo # <<>>
    BY <1>19 DEF StartDeploy, Hands
  <2>5. Hands(p)'
    BY <2>1, <2>2, <2>4, HandsOn DEF At, Keeps, Unmade, Importing
  <2> QED
    BY <2>1, <2>3, <2>4, <2>5, HandsFrame DEF At
<1>20. ASSUME NEW p \in Projects, DeployReturns(p)
      PROVE  \A q \in Projects : Hands(q)'
  <2> DEFINE d == Head(worker[p].todo)
  <2>1. /\ d \in EnvNames /\ At(p, worker'[p].pc) /\ worker'[p].row = worker[p].row
        /\ Moves(p, d)
        /\ \/ worker'[p].pc = "deploy" /\ worker'[p].todo # <<>>
           \/ worker'[p].pc = "ended"
    BY <1>20, DeployReturnsDoes
  <2> HIDE DEF d
  <2>2. \A e \in EnvNames : env'[p][e] # "none" <=> env[p][e] # "none"
    BY <2>1 DEF Moves
  <2>3. \A q \in Projects \ {p} : env'[q] = env[q]
    BY <2>1 DEF Moves, Furnishes
  <2>4. UNCHANGED <<project, redeploy, touched>> /\ worker[p].pc = "deploying"
    BY <1>20 DEF DeployReturns
  <2>5. Hands(p)'
    BY <2>1, <2>2, <2>4, HandsOn DEF At, Unmade, Importing
  <2> QED
    BY <2>1, <2>3, <2>4, <2>5, HandsFrame DEF At
<1>21. ASSUME NEW p \in Projects, DeployRaises(p)
      PROVE  \A q \in Projects : Hands(q)'
  <2> DEFINE d == Head(worker[p].todo)
  <2>1. /\ d \in EnvNames /\ At(p, worker'[p].pc) /\ worker'[p].row = worker[p].row
        /\ Moves(p, d)
        /\ \/ worker'[p].pc = "deploy" /\ worker'[p].todo # <<>>
           \/ worker'[p].pc = "ended"
    BY <1>21, DeployRaisesDoes
  <2> HIDE DEF d
  <2>2. \A e \in EnvNames : env'[p][e] # "none" <=> env[p][e] # "none"
    BY <2>1 DEF Moves
  <2>3. \A q \in Projects \ {p} : env'[q] = env[q]
    BY <2>1 DEF Moves, Furnishes
  <2>4. UNCHANGED <<project, redeploy, touched>> /\ worker[p].pc = "deploying"
    BY <1>21 DEF DeployRaises
  <2>5. Hands(p)'
    BY <2>1, <2>2, <2>4, HandsOn DEF At, Unmade, Importing
  <2> QED
    BY <2>1, <2>3, <2>4, <2>5, HandsFrame DEF At
<1>22. ASSUME NEW p \in Projects, AskDelete(p)
      PROVE  \A q \in Projects : Hands(q)'
  <2>1. \A q \in Projects, e \in EnvNames : env'[q][e] # "none" <=> env[q][e] # "none"
    BY <1>22, AskDeleteDoes DEF Furnishes
  <2>2. UNCHANGED <<project, worker, redeploy, touched>>
    BY <1>22 DEF AskDelete
  <2> QED
    BY <2>1, <2>2, HandsFrame
<1>23. ASSUME NEW p \in Projects, DeleteRow(p)
      PROVE  \A q \in Projects : Hands(q)'
  <2>1. Furnishes(p) /\ Writes(p) /\ project'[p] = NoProject
        /\ \A e \in EnvNames : env'[p][e] = "none"
    BY <1>23, DeleteRowDoes
  <2>2. ~Exists(p)'
    BY <2>1 DEF Exists, NoProject
  <2>3. UNCHANGED <<worker, redeploy, touched>>
    BY <1>23 DEF DeleteRow
  <2>4. \A e \in EnvNames : Paged(p, e)'
    BY <2>1, <2>2, <2>3 DEF Hands, Paged
  <2>5. Hands(p)'
    BY <2>2, <2>3, <2>4 DEF Hands, Importing
  <2> QED
    BY <2>1, <2>3, <2>5, HandsFrame DEF Furnishes, Writes
<1>24. ASSUME NEW r \in Runs, NEW p \in Projects, Launch(r, p)
      PROVE  \A q \in Projects : Hands(q)'
  BY <1>24, HandsFrame DEF Launch
<1>25. ASSUME NEW r \in Runs, FinishRun(r)
      PROVE  \A q \in Projects : Hands(q)'
  BY <1>25, HandsFrame DEF FinishRun
<1>26. ASSUME Restart
      PROVE  \A q \in Projects : Hands(q)'
  <2> SUFFICES ASSUME NEW q \in Projects PROVE Hands(q)'
    OBVIOUS
  <2>1. UNCHANGED <<project, env, touched>>
    BY <1>26 DEF Restart
  <2>2. /\ worker'[q].row = worker[q].row
        /\ \/ worker'[q] = worker[q] /\ worker[q].pc \in {"none", "ended"}
           \/ worker'[q].pc = "lost"
        /\ \A e \in EnvNames : redeploy'[q][e] = "none"
    BY <1>26, RestartDoes
  <2>3. \A e \in EnvNames : Paged(q, e)'
    BY <2>1, <2>2 DEF Hands, Paged, Unmade, Exists
  <2> QED
    BY <2>1, <2>2, <2>3 DEF Hands, Importing, Exists
<1>27. ASSUME UNCHANGED vars PROVE \A q \in Projects : Hands(q)'
  BY <1>27, HandsFrame DEF vars
<1>28. ASSUME NEW p \in Projects, HandlerRaises(p)
      PROVE  \A q \in Projects : Hands(q)'
  <2>1. At(p, "ended") /\ Keeps(p)
    BY <1>28, HandlerRaisesDoes
  <2>2. UNCHANGED <<project, env, redeploy, touched>>
    BY <1>28 DEF HandlerRaises
  <2>3. worker[p].pc = "except"
    BY <1>28 DEF HandlerRaises
  <2>4. Hands(p)'
    BY <2>1, <2>2, <2>3, HandsOn DEF At, Keeps, Unmade, Importing
  <2> QED
    BY <2>1, <2>2, <2>4, HandsFrame DEF At
<1>29. ASSUME NEW p \in Projects, NEW e \in EnvNames, AskDeploy(p, e)
      PROVE  \A q \in Projects : Hands(q)'
  <2>1. Moves(p, e) /\ env[p][e] # "none" /\ Orders(p, e)
        /\ touched' = touched \union {<<p, e>>}
    BY <1>29, AskDeployDoes
  <2>2. UNCHANGED <<project, worker>>
    BY <1>29 DEF AskDeploy
  <2>3. /\ worker[p].row \in ProjectRows /\ Exists(p)
        /\ worker[p].pc \notin Unmade
    BY <2>1 DEF Hands, Paged
  <2>4. Paged(p, e)'
    BY <2>1, <2>2, <2>3 DEF Paged, Moves, Exists
  <2>5. \A d \in EnvNames \ {e} : Paged(p, d)'
    <3> SUFFICES ASSUME NEW d \in EnvNames \ {e} PROVE Paged(p, d)'
      OBVIOUS
    <3>1. /\ env'[p][d] = env[p][d] /\ redeploy'[p][d] = redeploy[p][d]
          /\ <<p, d>> \in touched' <=> <<p, d>> \in touched
      BY <2>1 DEF Moves, Orders
    <3> QED
      BY <2>2, <3>1 DEF Hands, Paged, Exists
  <2>6. Hands(p)'
    BY <2>2, <2>4, <2>5 DEF Hands, Importing, Exists
  <2>7. \A q \in Projects \ {p} :
          /\ env'[q] = env[q] /\ redeploy'[q] = redeploy[q]
          /\ \A d \in EnvNames : <<q, d>> \in touched' <=> <<q, d>> \in touched
    BY <2>1 DEF Moves, Furnishes, Orders
  <2> QED
    BY <2>2, <2>6, <2>7, HandsFrame
<1>30. ASSUME NEW p \in Projects, NEW e \in EnvNames, RedeployReturns(p, e)
      PROVE  \A q \in Projects : Hands(q)'
  <2>1. Moves(p, e) /\ Orders(p, e) /\ redeploy'[p][e] = "none"
    BY <1>30, RedeployReturnsDoes
  <2>2. UNCHANGED <<project, worker, touched>>
    BY <1>30 DEF RedeployReturns
  <2>3. \A d \in EnvNames :
          /\ env'[p][d] # "none" <=> env[p][d] # "none"
          /\ redeploy'[p][d] \in {"none", redeploy[p][d]}
    BY <2>1 DEF Moves, Orders
  <2>4. \A d \in EnvNames : Paged(p, d)'
    BY <2>2, <2>3 DEF Hands, Paged, Exists
  <2>5. Hands(p)'
    BY <2>2, <2>4 DEF Hands, Importing, Exists
  <2>6. \A q \in Projects \ {p} : env'[q] = env[q] /\ redeploy'[q] = redeploy[q]
    BY <2>1 DEF Moves, Furnishes, Orders
  <2> QED
    BY <2>2, <2>5, <2>6, HandsFrame
<1>31. ASSUME NEW p \in Projects, NEW e \in EnvNames, AskStop(p, e)
      PROVE  \A q \in Projects : Hands(q)'
  <2>1. Moves(p, e) /\ touched' = touched \union {<<p, e>>} /\ env[p][e] # "none"
    BY <1>31, AskStopDoes
  <2>2. UNCHANGED <<project, worker, redeploy>>
    BY <1>31 DEF AskStop
  <2>3. \A d \in EnvNames :
          /\ env'[p][d] # "none" <=> env[p][d] # "none"
          /\ <<p, d>> \in touched => <<p, d>> \in touched'
    BY <2>1 DEF Moves
  <2>4. worker[p].pc \notin Unmade
    BY <2>1 DEF Hands, Paged
  <2>5. \A d \in EnvNames : Paged(p, d)'
    BY <2>2, <2>3, <2>4 DEF Hands, Paged, Exists
  <2>6. Hands(p)'
    BY <2>2, <2>5 DEF Hands, Importing, Exists
  <2>7. \A q \in Projects \ {p} :
          /\ env'[q] = env[q]
          /\ \A d \in EnvNames : <<q, d>> \in touched' <=> <<q, d>> \in touched
    BY <2>1 DEF Moves, Furnishes
  <2> QED
    BY <2>2, <2>6, <2>7, HandsFrame
<1>32. ASSUME NEW p \in Projects, NEW e \in EnvNames, Dies(p, e)
      PROVE  \A q \in Projects : Hands(q)'
  BY <1>32, HandsFrame DEF Dies
<1> QED
  BY <1>1, <1>2, <1>3, <1>4, <1>5, <1>6, <1>7, <1>8, <1>9, <1>10, <1>11,
     <1>12, <1>13, <1>14, <1>15, <1>16, <1>17, <1>18, <1>19, <1>20, <1>21, <1>22,
     <1>23, <1>24, <1>25, <1>26, <1>27, <1>28, <1>29, <1>30, <1>31, <1>32
  DEF Next, ImportNext, FormNext, RunNext, PageNext

(* A step of no form leaves projects that never were as they are.          *)
LEMMA FormFrame ==
  ASSUME Typed, FormInv, form' = form,
         \A q \in Projects : worker[q].pc = "none" =>
           /\ worker'[q].pc = "none"
           /\ ~Exists(q) /\ deletion[q] = "none" =>
                project'[q] = project[q] /\ deletion'[q] = deletion[q]
  PROVE  FormInv'
<1>1. \A g \in Forms : form[g].pc # "idle" => form[g].project \in Projects
  BY FormsAre DEF Submitted
<1> QED
  BY <1>1 DEF FormInv, Exists

(* A form that is over leaves the others to themselves.                    *)
LEMMA FormOver ==
  ASSUME Typed, FormInv, NEW f \in Forms, form[f].pc # "idle",
         form'[f] = NoForm, \A g \in Forms \ {f} : form'[g] = form[g],
         \A q \in Projects \ {form[f].project} : worker'[q] = worker[q],
         UNCHANGED <<project, deletion>>
  PROVE  FormInv'
<1>1. \A g \in Forms : form[g].pc # "idle" => form[g].project \in Projects
  BY FormsAre DEF Submitted
<1>2. \A g \in Forms : form'[g].pc # "idle" => g # f /\ form[g].pc # "idle" /\ form'[g] = form[g]
  BY DEF NoForm
<1>3. \A g \in Forms : form'[g].pc # "idle" => form[g].project # form[f].project
  BY <1>2 DEF FormInv
<1>4. \A g \in Forms : form'[g].pc # "idle" => worker'[form[g].project] = worker[form[g].project]
  BY <1>1, <1>2, <1>3
<1>5. NoForm.project = Nothing
  BY DEF NoForm
<1>6. Nothing \notin Projects
  BY ProjectsAssumption
<1>7. ASSUME NEW g \in Forms, form'[g].pc # "idle"
      PROVE  /\ worker'[form'[g].project].pc = "none"
             /\ form'[g].pc = "slug" => project'[form'[g].project].status = "none" /\ deletion'[form'[g].project] = "none"
  BY <1>2, <1>4, <1>7 DEF FormInv, Exists
<1>8. ASSUME NEW g \in Forms, form'[g].pc # "idle", NEW h \in Forms \ {g}
      PROVE  form'[h].project # form'[g].project
  BY <1>1, <1>2, <1>5, <1>6, <1>8 DEF FormInv
<1> QED
  BY <1>7, <1>8 DEF FormInv, Exists

LEMMA FormStep == Shape /\ [Next]_vars => FormInv'
<1> SUFFICES ASSUME Shape, [Next]_vars PROVE FormInv'
  OBVIOUS
<1>0. Typed /\ FormInv /\ \A p \in Projects : Hands(p)
  BY DEF Shape
<1> USE <1>0
<1>1. ASSUME NEW f \in Forms, NEW o \in Orgs, NEW p \in Projects,
             NEW r \in Repos, AskImport(f, o, p, r)
      PROVE  FormInv'
  <2>1. Fresh(p) /\ UNCHANGED <<project, worker, deletion>>
    BY <1>1 DEF AskImport
  <2>2. form'[f].pc = "slug" /\ form'[f].project = p /\ \A g \in Forms \ {f} : form'[g] = form[g]
    BY <1>1, AskImportDoes
  <2> QED
    BY <2>1, <2>2 DEF FormInv, Fresh, Exists
<1>2. ASSUME NEW f \in Forms, CreateShell(f)
      PROVE  FormInv'
  <2>1. form'[f].pc = "seed" /\ form'[f].project = form[f].project
        /\ form[f].pc # "idle" /\ (\A g \in Forms \ {f} : form'[g] = form[g])
        /\ form[f].project \in Projects /\ Writes(form[f].project)
    BY <1>2, CreateShellDoes DEF CreateShell, Submitted
  <2>2. UNCHANGED <<worker, deletion>>
    BY <1>2 DEF CreateShell
  <2>3. \A g \in Forms : form[g].pc # "idle" => form[g].project \in Projects
    BY FormsAre DEF Submitted
  <2>4. \A g \in Forms \ {f} : form[g].pc # "idle" =>
          /\ form[g].project # form[f].project
          /\ project'[form[g].project] = project[form[g].project]
    BY <2>1, <2>3 DEF FormInv, Writes
  <2> QED
    BY <2>1, <2>2, <2>4 DEF FormInv, Exists
<1>3. ASSUME NEW f \in Forms, ShellRefused(f)
      PROVE  FormInv'
  <2>1. form'[f] = NoForm /\ \A g \in Forms \ {f} : form'[g] = form[g]
    BY <1>3, SetFormIs DEF ShellRefused
  <2>2. UNCHANGED <<project, worker, deletion>> /\ form[f].pc # "idle"
    BY <1>3 DEF ShellRefused
  <2> QED
    BY <2>1, <2>2, FormOver
<1>4. ASSUME NEW f \in Forms, SeedSteps(f)
      PROVE  FormInv'
  <2>1. /\ form'[f] = NoForm /\ (\A g \in Forms \ {f} : form'[g] = form[g])
        /\ form[f].project \in Projects
        /\ form[f].pc # "idle"
        /\ \A q \in Projects \ {form[f].project} : worker'[q] = worker[q]
    BY <1>4, SeedStepsDoes DEF At, SeedSteps, Submitted
  <2>2. UNCHANGED <<project, deletion>>
    BY <1>4 DEF SeedSteps
  <2> QED
    BY <2>1, <2>2, FormOver
<1>5. ASSUME NEW f \in Forms, SeedRaises(f)
      PROVE  FormInv'
  <2>1. /\ form'[f] = NoForm /\ (\A g \in Forms \ {f} : form'[g] = form[g])
        /\ form[f].project \in Projects
        /\ form[f].pc # "idle"
        /\ \A q \in Projects \ {form[f].project} : worker'[q] = worker[q]
    BY <1>5, SeedRaisesDoes DEF At, SeedRaises, Submitted
  <2>2. UNCHANGED <<project, deletion>>
    BY <1>5 DEF SeedRaises
  <2> QED
    BY <2>1, <2>2, FormOver
<1>6. ASSUME NEW p \in Projects, StartMissing(p)
      PROVE  FormInv'
  <2>1. \A q \in Projects : worker[q].pc = "none" => worker'[q].pc = "none"
    BY <1>6, SetWorkerAt DEF StartMissing, At, Stages
  <2> QED
    BY <1>6, <2>1, FormFrame DEF StartMissing
<1>7. ASSUME NEW p \in Projects, StartImport(p)
      PROVE  FormInv'
  <2>1. \A q \in Projects : worker[q].pc = "none" => worker'[q].pc = "none"
    BY <1>7, StartImportDoes DEF StartImport, At
  <2> QED
    BY <1>7, <2>1, FormFrame DEF StartImport
<1>8. ASSUME NEW p \in Projects, Rmtree(p)
      PROVE  FormInv'
  <2>1. \A q \in Projects : worker[q].pc = "none" => worker'[q].pc = "none"
    BY <1>8, SetWorkerAt DEF Rmtree, At, Stages
  <2> QED
    BY <1>8, <2>1, FormFrame DEF Rmtree
<1>9. ASSUME NEW p \in Projects, Clone(p)
      PROVE  FormInv'
  <2>1. \A q \in Projects : worker[q].pc = "none" => worker'[q].pc = "none"
    BY <1>9, CloneDoes DEF Clone, At
  <2> QED
    BY <1>9, <2>1, FormFrame DEF Clone
<1>10. ASSUME NEW p \in Projects, CloneFails(p)
      PROVE  FormInv'
  <2>1. \A q \in Projects : worker[q].pc = "none" => worker'[q].pc = "none"
    BY <1>10, SetWorkerAt DEF CloneFails, At, Stages
  <2> QED
    BY <1>10, <2>1, FormFrame DEF CloneFails
<1>11. ASSUME NEW p \in Projects, Detect(p)
      PROVE  FormInv'
  <2>1. \A q \in Projects : worker[q].pc = "none" => worker'[q].pc = "none"
    BY <1>11, DetectDoes DEF Detect, At
  <2> QED
    BY <1>11, <2>1, FormFrame DEF Detect
<1>12. ASSUME NEW p \in Projects, SaveReady(p)
      PROVE  FormInv'
  <2>1. \A q \in Projects : worker[q].pc = "none" => worker'[q].pc = "none" /\ q # p
    BY <1>12, SetWorkerAt DEF SaveReady, At, Stages
  <2>2. Importing(p) /\ "ready" \in Statuses
    BY <1>12 DEF SaveReady, Importing, Statuses
  <2>3. Writes(p)
    BY <1>12, <2>2, SaveRowDoes DEF SaveReady
  <2> QED
    BY <1>12, <2>1, <2>3, FormFrame DEF SaveReady, Writes
<1>13. ASSUME NEW p \in Projects, SaveGate(p)
      PROVE  FormInv'
  <2>1. \A q \in Projects : worker[q].pc = "none" => worker'[q].pc = "none" /\ q # p
    BY <1>13, SetWorkerAt DEF SaveGate, At, Stages
  <2>2. Importing(p) /\ "failed" \in Statuses
    BY <1>13 DEF SaveGate, Importing, Statuses
  <2>3. Writes(p)
    BY <1>13, <2>2, SaveRowDoes DEF SaveGate
  <2> QED
    BY <1>13, <2>1, <2>3, FormFrame DEF SaveGate, Writes
<1>14. ASSUME NEW p \in Projects, SaveRaises(p)
      PROVE  FormInv'
  <2>1. \A q \in Projects : worker[q].pc = "none" => worker'[q].pc = "none"
    BY <1>14, SetWorkerAt DEF SaveRaises, At, Stages
  <2> QED
    BY <1>14, <2>1, FormFrame DEF SaveRaises
<1>15. ASSUME NEW p \in Projects, Gate(p)
      PROVE  FormInv'
  <2>1. \A q \in Projects : worker[q].pc = "none" => worker'[q].pc = "none"
    BY <1>15, SetWorkerAt DEF Gate, At, Stages
  <2> QED
    BY <1>15, <2>1, FormFrame DEF Gate
<1>16. ASSUME NEW p \in Projects, MakeEnvironments(p)
      PROVE  FormInv'
  <2>1. \A q \in Projects : worker[q].pc = "none" => worker'[q].pc = "none"
    BY <1>16, MakeEnvironmentsDoes DEF MakeEnvironments, At
  <2> QED
    BY <1>16, <2>1, FormFrame DEF MakeEnvironments
<1>17. ASSUME NEW p \in Projects, EnvironmentsRaise(p)
      PROVE  FormInv'
  <2>1. \A q \in Projects : worker[q].pc = "none" => worker'[q].pc = "none"
    BY <1>17, EnvironmentsRaiseDoes DEF EnvironmentsRaise, At
  <2> QED
    BY <1>17, <2>1, FormFrame DEF EnvironmentsRaise
<1>18. ASSUME NEW p \in Projects, ImportRaised(p)
      PROVE  FormInv'
  <2>1. \A q \in Projects : worker[q].pc = "none" => worker'[q].pc = "none" /\ q # p
    BY <1>18, ImportRaisedDoes DEF ImportRaised, At
  <2> QED
    BY <1>18, <2>1, ImportRaisedDoes, FormFrame DEF ImportRaised, Writes
<1>19. ASSUME NEW p \in Projects, StartDeploy(p)
      PROVE  FormInv'
  <2>1. \A q \in Projects : worker[q].pc = "none" => worker'[q].pc = "none"
    BY <1>19, SetWorkerAt DEF StartDeploy, At, Stages
  <2> QED
    BY <1>19, <2>1, FormFrame DEF StartDeploy
<1>20. ASSUME NEW p \in Projects, DeployReturns(p)
      PROVE  FormInv'
  <2>1. \A q \in Projects : worker[q].pc = "none" => worker'[q].pc = "none"
    BY <1>20, DeployReturnsDoes DEF DeployReturns, At
  <2> QED
    BY <1>20, <2>1, FormFrame DEF DeployReturns
<1>21. ASSUME NEW p \in Projects, DeployRaises(p)
      PROVE  FormInv'
  <2>1. \A q \in Projects : worker[q].pc = "none" => worker'[q].pc = "none"
    BY <1>21, DeployRaisesDoes DEF DeployRaises, At
  <2> QED
    BY <1>21, <2>1, FormFrame DEF DeployRaises
<1>22. ASSUME NEW p \in Projects, AskDelete(p)
      PROVE  FormInv'
  BY <1>22, AskDeleteDoes, FormFrame DEF AskDelete
<1>23. ASSUME NEW p \in Projects, DeleteRow(p)
      PROVE  FormInv'
  <2>1. deletion[p] = "stopped"
    BY <1>23 DEF DeleteRow
  <2> QED
    BY <1>23, <2>1, DeleteRowDoes, FormFrame DEF DeleteRow, Writes
<1>24. ASSUME NEW r \in Runs, NEW p \in Projects, Launch(r, p)
      PROVE  FormInv'
  BY <1>24, FormFrame DEF Launch
<1>25. ASSUME NEW r \in Runs, FinishRun(r)
      PROVE  FormInv'
  BY <1>25, FormFrame DEF FinishRun
<1>26. ASSUME Restart
      PROVE  FormInv'
  <2>1. \A f \in Forms : form'[f].pc = "idle"
    BY <1>26 DEF Restart, NoForm
  <2> QED
    BY <2>1 DEF FormInv
<1>27. ASSUME UNCHANGED vars PROVE FormInv'
  BY <1>27, FormFrame DEF vars
<1>28. ASSUME NEW p \in Projects, HandlerRaises(p)
      PROVE  FormInv'
  <2>1. \A q \in Projects : worker[q].pc = "none" => worker'[q].pc = "none"
    BY <1>28, HandlerRaisesDoes DEF HandlerRaises, At
  <2> QED
    BY <1>28, <2>1, FormFrame DEF HandlerRaises
<1>29. ASSUME NEW p \in Projects, NEW e \in EnvNames, PageNext(p, e)
      PROVE  FormInv'
  BY <1>29, FormFrame DEF PageNext, AskDeploy, RedeployReturns, AskStop, Dies
<1> QED
  BY <1>1, <1>2, <1>3, <1>4, <1>5, <1>6, <1>7, <1>8, <1>9, <1>10, <1>11,
     <1>12, <1>13, <1>14, <1>15, <1>16, <1>17, <1>18, <1>19, <1>20, <1>21, <1>22,
     <1>23, <1>24, <1>25, <1>26, <1>27, <1>28, <1>29
  DEF Next, ImportNext, FormNext, RunNext

LEMMA ShapeInit == Init => Shape
<1> SUFFICES ASSUME Init PROVE Shape
  OBVIOUS
<1>1. NoWorker \in Threads
  BY DEF NoWorker, Threads, Stages, Frameworks
<1>2. Typed
  BY <1>1, NothingsAre, ProjectsAssumption DEF Init, Typed
<1>3. \A p \in Projects : Hands(p)
  BY NothingsAre, NoRowIsNone DEF Init, Hands, Paged, Importing, NoWorker
<1>4. FormInv
  BY DEF Init, FormInv, NoForm
<1> QED
  BY <1>2, <1>3, <1>4 DEF Shape

LEMMA ShapeStep == Shape /\ [Next]_vars => Shape'
BY TypedStep, HandsStep, FormStep DEF Shape

LEMMA ShapeIsTypeOK == Shape => TypeOK
<1> SUFFICES ASSUME Shape PROVE TypeOK
  OBVIOUS
<1>0. Typed /\ \A p \in Projects : Hands(p)
  BY DEF Shape
<1>1. ASSUME NEW p \in Projects
      PROVE  /\ project[p].status \in {"none", "importing", "ready", "failed"}
             /\ project[p].slug \in {0} \union Slugs
             /\ Range(step[p]) \subseteq
                  {"none", "pending", "running", "done", "failed"}
             /\ Range(env[p]) \subseteq
                  {"none", "empty", "building", "live", "failed"}
             /\ Range(app[p]) \union Range(stray[p]) \subseteq Repos \union {Nothing}
             /\ Range(redeploy[p]) \subseteq {"none", "plain", "stepped"}
             /\ deletion[p] \in {"none", "stopped", "deleted"}
             /\ Importing(p) => worker[p].row.slug \in Slugs
             /\ worker[p].pc \in {"deploy", "deploying"} => worker[p].todo # <<>>
  <2>1. project[p].status \in {"none", "importing", "ready", "failed"}
    BY <1>0, RowsAre DEF Exists, ProjectRows, Statuses
  <2>2. project[p].slug \in {0} \union Slugs
    BY <1>0, RowsAre
  <2>3. Range(step[p]) \subseteq States /\ Range(env[p]) \subseteq EnvStates
    BY <1>0 DEF Typed, Range
  <2>4. /\ Range(app[p]) \subseteq Repos \union {Nothing}
        /\ Range(stray[p]) \subseteq Repos \union {Nothing}
        /\ Range(redeploy[p]) \subseteq Asks
    BY <1>0 DEF Typed, Range
  <2>5. Importing(p) => worker[p].row.slug \in Slugs
    BY <1>0 DEF Hands, ProjectRows
  <2>6. worker[p].pc \in {"deploy", "deploying"} => worker[p].todo # <<>>
    BY <1>0 DEF Hands
  <2>7. deletion[p] \in {"none", "stopped", "deleted"}
    BY <1>0 DEF Typed
  <2> QED
    BY <2>1, <2>2, <2>3, <2>4, <2>5, <2>6, <2>7 DEF States, EnvStates, Asks
<1>2. Range(clone) \subseteq Repos \union {Nothing}
  BY <1>0 DEF Typed, Range
<1>3. /\ shared \subseteq Projects /\ overlap \subseteq Projects
      /\ touched \subseteq Projects \X EnvNames /\ unwritten \subseteq Projects
      /\ faults \in 0 .. MaxFaults
  BY <1>0 DEF Typed
<1> QED
  BY <1>1, <1>2, <1>3 DEF TypeOK

(* TypeOK: rows, files and threads have their types, a thread that imports *)
(* has a row with a slug, and one that deploys an environment to deploy.   *)
THEOREM TypeCorrect == Spec => []TypeOK
<1>1. Init => Shape
  BY ShapeInit
<1>2. Shape /\ [Next]_vars => Shape'
  BY ShapeStep
<1>3. Shape => TypeOK
  BY ShapeIsTypeOK
<1> QED
  BY <1>1, <1>2, <1>3, PTL DEF Spec

----------------------------------------------------------------------------
(***************************************************************************)
(* What runs is the project's own repository.                              *)
(*                                                                         *)
(* A directory is named by a slug, and a slug is held by the projects with *)
(* a row and by the threads that work on one: a deleted project holds its  *)
(* slug as long as its import or a deployment goes on.  No one else holds  *)
(* the slug of a project that does not share, so that the clone stays the  *)
(* one its thread made.                                                    *)
(***************************************************************************)

Holds(p, s) ==
  \/ Exists(p) /\ project[p].slug = s
  \/ Busy(p) /\ worker[p].row.slug = s

Apart ==
  \A p \in Projects \ shared, q \in Projects, s \in Slugs :
    p # q => ~(Holds(p, s) /\ Holds(q, s))

(* The stages at which the thread counts on its clone.                     *)
Cloned == {"detect", "save", "environments", "gate", "deploy", "deploying"}

(* The clone of p was made, and somebody may deploy it.                    *)
Made(p) ==
  \/ worker[p].pc \in Cloned
  \/ \E e \in EnvNames : env[p][e] # "none" \/ redeploy[p][e] # "none"

ClonesAreOwn ==
  \A p \in Projects \ shared :
    Made(p) => clone[worker[p].row.slug] = worker[p].row.repo

AppsAreOwn ==
  \A p \in Projects \ shared, e \in EnvNames :
    /\ app[p][e] \in {Nothing, worker[p].row.repo}
    /\ stray[p][e] \in {Nothing, worker[p].row.repo}

OwnInv == Apart /\ ClonesAreOwn /\ AppsAreOwn

(* Projects share a slug as soon as one holds what another holds.          *)
LEMMA SharingSays ==
  ASSUME NEW p \in Projects, NEW o, NEW s, NEW q \in Projects \ {p},
         \/ project[q].slug = s /\ project[q].org # o
         \/ Busy(q) /\ worker[q].row.slug = s
  PROVE  p \in Sharing(p, o, s) /\ q \in Sharing(p, o, s)
BY DEF Sharing

LEMMA OwnInit == Init => OwnInv
BY NothingsAre DEF Init, OwnInv, Apart, ClonesAreOwn, AppsAreOwn, Holds, Made,
   Busy, Exists, Importing, Cloned, NoProject, NoWorker

(* Who counts on a clone holds the slug that names it.                     *)
LEMMA MadeHolds ==
  ASSUME Typed, NEW q \in Projects, Hands(q), Made(q)
  PROVE  worker[q].row.slug \in Slugs /\ Holds(q, worker[q].row.slug)
<1>1. worker[q].row \in ProjectRows
  BY DEF Made, Hands, Paged, Cloned, Importing
<1>2. worker[q].row.slug \in Slugs
  BY <1>1 DEF ProjectRows
<1>3. CASE worker[q].pc \in Cloned \/ \E e \in EnvNames : redeploy[q][e] # "none"
  BY <1>2, <1>3 DEF Holds, Busy, Importing, Cloned
<1>4. CASE \E e \in EnvNames : env[q][e] # "none"
  BY <1>1, <1>2, <1>4 DEF Holds, Hands, Paged
<1> QED
  BY <1>3, <1>4 DEF Made

(* x is what ran for e, or what the clone of q holds.                      *)
Code(q, e, x) ==
  \/ x \in {app[q][e], stray[q][e], Nothing}
  \/ Made(q) /\ x = Source(q)

(* A step of q that claims no slug q did not hold, reads no row and starts *)
(* nothing but the code of its clone.                                      *)
Quiet(q) ==
  /\ worker'[q].row = worker[q].row
  /\ Made(q)' => Made(q)
  /\ Busy(q)' => Busy(q) \/ (Exists(q) /\ project[q].slug = worker[q].row.slug)
  /\ \/ project'[q].status = "none"
     \/ Exists(q) /\ project'[q].slug = project[q].slug
     \/ Busy(q) /\ project'[q].slug = worker[q].row.slug
  /\ \A e \in EnvNames : Code(q, e, app'[q][e]) /\ Code(q, e, stray'[q][e])

LEMMA GoesOn ==
  ASSUME NEW q \in Projects, worker'[q].row = worker[q].row,
         worker'[q].pc \in Cloned => worker[q].pc \in Cloned,
         Importing(q)' => Importing(q),
         project'[q] = project[q] \/ SameRow(q), redeploy'[q] = redeploy[q],
         \A e \in EnvNames : env'[q][e] # "none" <=> env[q][e] # "none",
         app'[q] = app[q], stray'[q] = stray[q]
  PROVE  Quiet(q)
<1>1. Made(q)' => Made(q)
  BY DEF Made
<1>2. Busy(q)' => Busy(q)
  BY DEF Busy
<1>3. project'[q].status = "none" \/ (Exists(q) /\ project'[q].slug = project[q].slug)
  BY DEF SameRow, Exists
<1>4. \A e \in EnvNames : Code(q, e, app'[q][e]) /\ Code(q, e, stray'[q][e])
  BY DEF Code
<1> QED
  BY <1>1, <1>2, <1>3, <1>4 DEF Quiet

LEMMA Unmoved ==
  ASSUME NEW q \in Projects, worker'[q] = worker[q], project'[q] = project[q],
         redeploy'[q] = redeploy[q],
         \A e \in EnvNames : env'[q][e] # "none" <=> env[q][e] # "none",
         \/ app'[q] = app[q] /\ stray'[q] = stray[q]
         \/ \A e \in EnvNames : Code(q, e, app'[q][e]) /\ Code(q, e, stray'[q][e])
  PROVE  Quiet(q)
<1>1. Made(q)' => Made(q)
  BY DEF Made
<1>2. Busy(q)' => Busy(q)
  BY DEF Busy, Importing
<1>3. \A e \in EnvNames : Code(q, e, app'[q][e]) /\ Code(q, e, stray'[q][e])
  BY DEF Code
<1> QED
  BY <1>1, <1>2, <1>3 DEF Quiet, Exists

(* A deployment starts the code of its clone.                              *)
LEMMA MovesCode ==
  ASSUME NEW p \in Projects, NEW e \in EnvNames, Moves(p, e), Made(p), stray' = stray
  PROVE  \A q \in Projects, d \in EnvNames :
           Code(q, d, app'[q][d]) /\ Code(q, d, stray'[q][d])
BY DEF Moves, Code

LEMMA QuietOwn ==
  ASSUME Shape, OwnInv, shared \subseteq shared', clone' = clone,
         \A q \in Projects : Quiet(q)
  PROVE  OwnInv'
<1>1. \A q \in Projects, s \in Slugs : Holds(q, s)' => Holds(q, s)
  BY DEF Holds, Quiet, Exists
<1>2. Apart'
  BY <1>1 DEF OwnInv, Apart
<1>3. ClonesAreOwn'
  BY DEF OwnInv, ClonesAreOwn, Quiet
<1>4. AppsAreOwn'
  BY DEF OwnInv, AppsAreOwn, ClonesAreOwn, Quiet, Code, Source
<1> QED
  BY <1>2, <1>3, <1>4 DEF OwnInv

LEMMA OwnStep == Shape /\ OwnInv /\ [Next]_vars => OwnInv'
<1> SUFFICES ASSUME Shape, OwnInv, [Next]_vars PROVE OwnInv'
  OBVIOUS
<1>0. Typed /\ FormInv /\ \A p \in Projects : Hands(p)
  BY DEF Shape
<1> USE <1>0
<1>1. ASSUME NEW f \in Forms, NEW o \in Orgs, NEW p \in Projects,
             NEW r \in Repos, AskImport(f, o, p, r)
      PROVE  OwnInv'
  BY <1>1, Unmoved, QuietOwn DEF AskImport
<1>2. ASSUME NEW f \in Forms, CreateShell(f)
      PROVE  OwnInv'
  <2>0. PICK p \in Projects : p = form[f].project
    BY <1>2, CreateShellDoes DEF Submitted
  <2> DEFINE s == form[f].slug  o == form[f].org
  <2>1. /\ Writes(p) /\ project'[p].slug = s /\ s \in Slugs
        /\ shared' = shared \union Sharing(p, o, s)
    BY <1>2, <2>0, CreateShellDoes DEF Submitted
  <2>2. worker[p].pc = "none" /\ ~Taken(o, s)
        /\ UNCHANGED <<clone, app, stray, env, redeploy, worker>>
    BY <1>2, <2>0 DEF FormInv, CreateShell
  <2>3. ~Busy(p)
    BY <2>2 DEF Hands, Paged, Unmade, Busy, Importing
  <2> HIDE DEF s, o
  <2>4. \A q \in Projects \ {p} : Holds(q, s) => p \in shared' /\ q \in shared'
    <3> SUFFICES ASSUME NEW q \in Projects \ {p}, Holds(q, s)
                 PROVE  p \in shared' /\ q \in shared'
      OBVIOUS
    <3>1. \/ project[q].slug = s /\ project[q].org # o
          \/ Busy(q) /\ worker[q].row.slug = s
      BY <2>2 DEF Holds, Taken, Slugged
    <3> QED
      BY <2>1, <3>1, SharingSays
  <2>5. \A q \in Projects : Busy(q)' <=> Busy(q)
    BY <2>2 DEF Busy, Importing
  <2>6. \A q \in Projects \ {p}, r \in Slugs : Holds(q, r)' => Holds(q, r)
    BY <2>1, <2>2, <2>5 DEF Writes, Holds, Exists
  <2>7. \A r \in Slugs : Holds(p, r)' => r = s
    BY <2>1, <2>3, <2>5 DEF Holds
  <2>8. Apart'
    <3> SUFFICES ASSUME NEW a \in Projects \ shared', NEW b \in Projects,
                        NEW r \in Slugs, a # b, Holds(a, r)', Holds(b, r)'
                 PROVE  FALSE
      BY DEF Apart
    <3>1. CASE a # p /\ b # p
      BY <2>1, <2>6, <3>1 DEF OwnInv, Apart
    <3>2. CASE a = p
      BY <2>4, <2>6, <2>7, <3>2
    <3>3. CASE b = p
      BY <2>4, <2>6, <2>7, <3>3
    <3> QED
      BY <3>1, <3>2, <3>3
  <2>9. \A q \in Projects : Made(q)' <=> Made(q)
    BY <2>2 DEF Made
  <2> QED
    BY <2>1, <2>2, <2>8, <2>9 DEF OwnInv, ClonesAreOwn, AppsAreOwn
<1>3. ASSUME NEW f \in Forms, ShellRefused(f)
      PROVE  OwnInv'
  BY <1>3, Unmoved, QuietOwn DEF ShellRefused
<1>4. ASSUME NEW f \in Forms, SeedSteps(f)
      PROVE  OwnInv'
  <2>0. PICK p \in Projects : p = form[f].project
    BY <1>4, SeedStepsDoes DEF Submitted
  <2>1. At(p, "start") /\ Keeps(p)
    BY <1>4, <2>0, SeedStepsDoes
  <2>2. UNCHANGED <<project, env, clone, app, stray, redeploy, shared>>
    BY <1>4 DEF SeedSteps
  <2>3. Quiet(p)
    BY <2>1, <2>2, GoesOn DEF At, Keeps, Cloned, Importing
  <2> QED
    BY <2>1, <2>2, <2>3, Unmoved, QuietOwn DEF At
<1>5. ASSUME NEW f \in Forms, SeedRaises(f)
      PROVE  OwnInv'
  <2>0. PICK p \in Projects : p = form[f].project
    BY <1>5, SeedRaisesDoes DEF Submitted
  <2>1. At(p, "lost") /\ Keeps(p)
    BY <1>5, <2>0, SeedRaisesDoes
  <2>2. UNCHANGED <<project, env, clone, app, stray, redeploy, shared>>
    BY <1>5 DEF SeedRaises
  <2>3. Quiet(p)
    BY <2>1, <2>2, GoesOn DEF At, Keeps, Cloned, Importing
  <2> QED
    BY <2>1, <2>2, <2>3, Unmoved, QuietOwn DEF At
<1>6. ASSUME NEW p \in Projects, StartMissing(p)
      PROVE  OwnInv'
  <2>1. At(p, "ended") /\ Keeps(p)
    BY <1>6, SetWorkerAt DEF StartMissing, Stages
  <2>2. UNCHANGED <<project, env, clone, app, stray, redeploy, shared>> /\ worker[p].pc = "start"
    BY <1>6 DEF StartMissing
  <2>3. Quiet(p)
    BY <2>1, <2>2, GoesOn DEF At, Keeps, Cloned, Importing
  <2> QED
    BY <2>1, <2>2, <2>3, Unmoved, QuietOwn DEF At
<1>7. ASSUME NEW p \in Projects, StartImport(p)
      PROVE  OwnInv'
  <2>1. At(p, "rmtree") /\ worker'[p].row = project[p] /\ worker[p].pc = "start"
        /\ Exists(p) /\ UNCHANGED <<project, env, clone, app, stray, redeploy, shared>>
    BY <1>7, StartImportDoes DEF StartImport
  <2>2. \A q \in Projects, s \in Slugs : Holds(q, s)' => Holds(q, s)
    BY <2>1 DEF At, Holds, Exists, Busy, Importing
  <2>3. Apart'
    BY <2>1, <2>2 DEF OwnInv, Apart
  <2>4. ~Made(p)' /\ \A q \in Projects \ {p} : Made(q)' => Made(q)
    BY <2>1 DEF At, Made, Cloned, Hands, Paged, Unmade
  <2>5. ClonesAreOwn'
    BY <2>1, <2>4 DEF OwnInv, ClonesAreOwn, At
  <2>6. worker[p].row.repo = Nothing
    BY <2>1 DEF Hands, NoProject
  <2>7. AppsAreOwn'
    BY <2>1, <2>6 DEF OwnInv, AppsAreOwn, At
  <2> QED
    BY <2>3, <2>5, <2>7 DEF OwnInv
<1>8. ASSUME NEW p \in Projects, Rmtree(p)
      PROVE  OwnInv'
  <2>0. worker[p].pc = "rmtree"
    BY <1>8 DEF Rmtree
  <2>1. At(p, "cloning") /\ Keeps(p) /\ Importing(p) /\ worker[p].row \in ProjectRows
        /\ clone' = [clone EXCEPT ![worker[p].row.slug] = Nothing]
        /\ UNCHANGED <<project, env, app, stray, redeploy, shared>>
    BY <1>8, <2>0, SetWorkerAt DEF Rmtree, Stages, Importing, Hands
  <2>2. \A q \in Projects, s \in Slugs : Holds(q, s)' => Holds(q, s)
    BY <2>1 DEF At, Keeps, Holds, Exists, Busy, Importing
  <2>3. Apart'
    BY <2>1, <2>2 DEF OwnInv, Apart
  <2>4. \A q \in Projects \ {p} : Made(q)' => Made(q)
    BY <2>1 DEF At, Made
  <2>5. \A q \in Projects \ shared : Made(q) /\ q # p =>
          clone'[worker[q].row.slug] = clone[worker[q].row.slug]
    <3> SUFFICES ASSUME NEW q \in Projects \ shared, Made(q), q # p
                 PROVE  clone'[worker[q].row.slug] = clone[worker[q].row.slug]
      OBVIOUS
    <3>1. worker[q].row.slug \in Slugs /\ Holds(q, worker[q].row.slug)
      BY MadeHolds
    <3>2. worker[p].row.slug # worker[q].row.slug
      BY <2>1, <3>1 DEF OwnInv, Apart, Holds, Busy
    <3> QED
      BY <2>1, <3>1, <3>2 DEF Typed
  <2>6. ~Made(p)'
    BY <2>0, <2>1 DEF At, Made, Cloned, Hands, Paged, Unmade
  <2>7. ClonesAreOwn'
    BY <2>1, <2>4, <2>5, <2>6 DEF OwnInv, ClonesAreOwn, At, Keeps
  <2>8. AppsAreOwn'
    BY <2>1 DEF OwnInv, AppsAreOwn, At, Keeps
  <2> QED
    BY <2>3, <2>7, <2>8 DEF OwnInv
<1>9. ASSUME NEW p \in Projects, Clone(p)
      PROVE  OwnInv'
  <2>0. worker[p].pc = "cloning"
    BY <1>9 DEF Clone
  <2>1. At(p, "detect") /\ Keeps(p) /\ Importing(p) /\ worker[p].row \in ProjectRows
        /\ clone' = [clone EXCEPT ![worker[p].row.slug] = worker[p].row.repo]
        /\ UNCHANGED <<project, env, app, stray, redeploy, shared>>
    BY <1>9, <2>0, SetWorkerAt DEF Clone, Stages, Importing, Hands
  <2>2. \A q \in Projects, s \in Slugs : Holds(q, s)' => Holds(q, s)
    BY <2>1 DEF At, Keeps, Holds, Exists, Busy, Importing
  <2>3. Apart'
    BY <2>1, <2>2 DEF OwnInv, Apart
  <2>4. \A q \in Projects \ {p} : Made(q)' => Made(q)
    BY <2>1 DEF At, Made
  <2>5. \A q \in Projects \ shared : Made(q) /\ q # p =>
          clone'[worker[q].row.slug] = clone[worker[q].row.slug]
    <3> SUFFICES ASSUME NEW q \in Projects \ shared, Made(q), q # p
                 PROVE  clone'[worker[q].row.slug] = clone[worker[q].row.slug]
      OBVIOUS
    <3>1. worker[q].row.slug \in Slugs /\ Holds(q, worker[q].row.slug)
      BY MadeHolds
    <3>2. worker[p].row.slug # worker[q].row.slug
      BY <2>1, <3>1 DEF OwnInv, Apart, Holds, Busy
    <3> QED
      BY <2>1, <3>1, <3>2 DEF Typed
  <2>6. clone'[worker[p].row.slug] = worker[p].row.repo
    BY <2>1 DEF Typed, ProjectRows
  <2>7. ClonesAreOwn'
    BY <2>1, <2>4, <2>5, <2>6 DEF OwnInv, ClonesAreOwn, At, Keeps
  <2>8. AppsAreOwn'
    BY <2>1 DEF OwnInv, AppsAreOwn, At, Keeps
  <2> QED
    BY <2>3, <2>7, <2>8 DEF OwnInv
<1>10. ASSUME NEW p \in Projects, CloneFails(p)
      PROVE  OwnInv'
  <2>1. At(p, "except") /\ Keeps(p)
    BY <1>10, SetWorkerAt DEF CloneFails, Stages
  <2>2. UNCHANGED <<project, env, clone, app, stray, redeploy, shared>> /\ worker[p].pc = "cloning"
    BY <1>10 DEF CloneFails
  <2>3. Quiet(p)
    BY <2>1, <2>2, GoesOn DEF At, Keeps, Cloned, Importing
  <2> QED
    BY <2>1, <2>2, <2>3, Unmoved, QuietOwn DEF At
<1>11. ASSUME NEW p \in Projects, Detect(p)
      PROVE  OwnInv'
  <2>1. At(p, "save") /\ worker'[p].row = worker[p].row
    BY <1>11, DetectDoes
  <2>2. UNCHANGED <<project, env, clone, app, stray, redeploy, shared>> /\ worker[p].pc = "detect"
    BY <1>11 DEF Detect
  <2>3. Quiet(p)
    BY <2>1, <2>2, GoesOn DEF At, Keeps, Cloned, Importing
  <2> QED
    BY <2>1, <2>2, <2>3, Unmoved, QuietOwn DEF At
<1>12. ASSUME NEW p \in Projects, SaveReady(p)
      PROVE  OwnInv'
  <2>1. Importing(p) /\ "ready" \in Statuses /\ worker[p].pc = "save"
        /\ UNCHANGED <<env, clone, app, stray, redeploy>>
    BY <1>12 DEF SaveReady, Importing, Statuses
  <2>2. At(p, "environments") /\ Keeps(p)
    BY <1>12, SetWorkerAt DEF SaveReady, Stages
  <2>3. /\ Writes(p) /\ project'[p].slug = worker[p].row.slug
        /\ shared \subseteq shared'
    BY <1>12, <2>1, SaveRowDoes DEF SaveReady
  <2>4. Made(p) /\ Busy(p)
    BY <2>1 DEF Made, Cloned, Busy
  <2>5. Quiet(p)
    BY <2>1, <2>2, <2>3, <2>4 DEF Quiet, Keeps, Code
  <2> QED
    BY <2>1, <2>2, <2>3, <2>5, Unmoved, QuietOwn DEF At, Writes
<1>13. ASSUME NEW p \in Projects, SaveGate(p)
      PROVE  OwnInv'
  <2>1. Importing(p) /\ "failed" \in Statuses /\ worker[p].pc = "save"
        /\ UNCHANGED <<env, clone, app, stray, redeploy>>
    BY <1>13 DEF SaveGate, Importing, Statuses
  <2>2. At(p, "gate") /\ Keeps(p)
    BY <1>13, SetWorkerAt DEF SaveGate, Stages
  <2>3. /\ Writes(p) /\ project'[p].slug = worker[p].row.slug
        /\ shared \subseteq shared'
    BY <1>13, <2>1, SaveRowDoes DEF SaveGate
  <2>4. Made(p) /\ Busy(p)
    BY <2>1 DEF Made, Cloned, Busy
  <2>5. Quiet(p)
    BY <2>1, <2>2, <2>3, <2>4 DEF Quiet, Keeps, Code
  <2> QED
    BY <2>1, <2>2, <2>3, <2>5, Unmoved, QuietOwn DEF At, Writes
<1>14. ASSUME NEW p \in Projects, SaveRaises(p)
      PROVE  OwnInv'
  <2>1. At(p, "except") /\ Keeps(p)
    BY <1>14, SetWorkerAt DEF SaveRaises, Stages
  <2>2. UNCHANGED <<project, env, clone, app, stray, redeploy, shared>> /\ worker[p].pc = "save"
    BY <1>14 DEF SaveRaises
  <2>3. Quiet(p)
    BY <2>1, <2>2, GoesOn DEF At, Keeps, Cloned, Importing
  <2> QED
    BY <2>1, <2>2, <2>3, Unmoved, QuietOwn DEF At
<1>15. ASSUME NEW p \in Projects, Gate(p)
      PROVE  OwnInv'
  <2>1. At(p, "ended") /\ Keeps(p)
    BY <1>15, SetWorkerAt DEF Gate, Stages
  <2>2. UNCHANGED <<project, env, clone, app, stray, redeploy, shared>> /\ worker[p].pc = "gate"
    BY <1>15 DEF Gate
  <2>3. Quiet(p)
    BY <2>1, <2>2, GoesOn DEF At, Keeps, Cloned, Importing
  <2> QED
    BY <2>1, <2>2, <2>3, Unmoved, QuietOwn DEF At
<1>16. ASSUME NEW p \in Projects, MakeEnvironments(p)
      PROVE  OwnInv'
  <2>1. At(p, worker'[p].pc) /\ worker'[p].row = worker[p].row /\ Furnishes(p)
    BY <1>16, MakeEnvironmentsDoes DEF At, Keeps
  <2>2. UNCHANGED <<project, clone, app, stray, redeploy, shared>>
        /\ worker[p].pc = "environments"
    BY <1>16 DEF MakeEnvironments
  <2>3. Made(p) /\ Busy(p)
    BY <2>2 DEF Made, Cloned, Busy, Importing
  <2>4. Quiet(p)
    BY <2>1, <2>2, <2>3 DEF Quiet, Code, Exists
  <2> QED
    BY <2>1, <2>2, <2>4, Unmoved, QuietOwn DEF At, Furnishes
<1>17. ASSUME NEW p \in Projects, EnvironmentsRaise(p)
      PROVE  OwnInv'
  <2>1. At(p, worker'[p].pc) /\ worker'[p].row = worker[p].row /\ Furnishes(p)
    BY <1>17, EnvironmentsRaiseDoes DEF At, Keeps
  <2>2. UNCHANGED <<project, clone, app, stray, redeploy, shared>>
        /\ worker[p].pc = "environments"
    BY <1>17 DEF EnvironmentsRaise
  <2>3. Made(p) /\ Busy(p)
    BY <2>2 DEF Made, Cloned, Busy, Importing
  <2>4. Quiet(p)
    BY <2>1, <2>2, <2>3 DEF Quiet, Code, Exists
  <2> QED
    BY <2>1, <2>2, <2>4, Unmoved, QuietOwn DEF At, Furnishes
<1>18. ASSUME NEW p \in Projects, ImportRaised(p)
      PROVE  OwnInv'
  <2>1. At(p, "ended") /\ Keeps(p) /\ Writes(p) /\ SameRow(p)
    BY <1>18, ImportRaisedDoes DEF SameRow, Exists
  <2>2. UNCHANGED <<env, clone, app, stray, redeploy, shared>>
    BY <1>18 DEF ImportRaised
  <2>3. Quiet(p)
    BY <2>1, <2>2, GoesOn DEF At, Keeps, Cloned, Importing
  <2> QED
    BY <2>1, <2>2, <2>3, Unmoved, QuietOwn DEF At, Writes
<1>19. ASSUME NEW p \in Projects, StartDeploy(p)
      PROVE  OwnInv'
  <2> DEFINE d == Head(worker[p].todo)
  <2>1. d \in EnvNames /\ At(p, worker'[p].pc) /\ worker'[p].row = worker[p].row /\ Moves(p, d)
    BY <1>19, StartDeployDoes DEF At, Keeps
  <2> HIDE DEF d
  <2>2. UNCHANGED <<project, clone, stray, redeploy, shared>> /\ worker[p].pc = "deploy"
    BY <1>19 DEF StartDeploy
  <2>3. Made(p) /\ Busy(p)
    BY <2>2 DEF Made, Cloned, Busy, Importing
  <2>4. \A q \in Projects, e \in EnvNames : Code(q, e, app'[q][e]) /\ Code(q, e, stray'[q][e])
    BY <2>1, <2>2, <2>3, MovesCode
  <2>5. Quiet(p)
    BY <2>1, <2>2, <2>3, <2>4 DEF Quiet, Exists
  <2>6. \A q \in Projects \ {p} : env'[q] = env[q]
    BY <2>1 DEF Moves, Furnishes
  <2> QED
    BY <2>1, <2>2, <2>4, <2>5, <2>6, Unmoved, QuietOwn DEF At
<1>20. ASSUME NEW p \in Projects, DeployReturns(p)
      PROVE  OwnInv'
  <2> DEFINE d == Head(worker[p].todo)
  <2>1. d \in EnvNames /\ At(p, worker'[p].pc) /\ worker'[p].row = worker[p].row /\ Moves(p, d)
    BY <1>20, DeployReturnsDoes DEF At, Keeps
  <2> HIDE DEF d
  <2>2. UNCHANGED <<project, clone, stray, redeploy, shared>> /\ worker[p].pc = "deploying"
    BY <1>20 DEF DeployReturns
  <2>3. Made(p) /\ Busy(p)
    BY <2>2 DEF Made, Cloned, Busy, Importing
  <2>4. \A q \in Projects, e \in EnvNames : Code(q, e, app'[q][e]) /\ Code(q, e, stray'[q][e])
    BY <2>1, <2>2, <2>3, MovesCode
  <2>5. Quiet(p)
    BY <2>1, <2>2, <2>3, <2>4 DEF Quiet, Exists
  <2>6. \A q \in Projects \ {p} : env'[q] = env[q]
    BY <2>1 DEF Moves, Furnishes
  <2> QED
    BY <2>1, <2>2, <2>4, <2>5, <2>6, Unmoved, QuietOwn DEF At
<1>21. ASSUME NEW p \in Projects, DeployRaises(p)
      PROVE  OwnInv'
  <2> DEFINE d == Head(worker[p].todo)
  <2>1. d \in EnvNames /\ At(p, worker'[p].pc) /\ worker'[p].row = worker[p].row /\ Moves(p, d)
    BY <1>21, DeployRaisesDoes DEF At, Keeps
  <2> HIDE DEF d
  <2>2. UNCHANGED <<project, clone, stray, redeploy, shared>> /\ worker[p].pc = "deploying"
    BY <1>21 DEF DeployRaises
  <2>3. Made(p) /\ Busy(p)
    BY <2>2 DEF Made, Cloned, Busy, Importing
  <2>4. \A q \in Projects, e \in EnvNames : Code(q, e, app'[q][e]) /\ Code(q, e, stray'[q][e])
    BY <2>1, <2>2, <2>3, MovesCode
  <2>5. Quiet(p)
    BY <2>1, <2>2, <2>3, <2>4 DEF Quiet, Exists
  <2>6. \A q \in Projects \ {p} : env'[q] = env[q]
    BY <2>1 DEF Moves, Furnishes
  <2> QED
    BY <2>1, <2>2, <2>4, <2>5, <2>6, Unmoved, QuietOwn DEF At
<1>22. ASSUME NEW p \in Projects, AskDelete(p)
      PROVE  OwnInv'
  <2>0. /\ Furnishes(p)
        /\ \A e \in EnvNames : env'[p][e] = IF env[p][e] = "none" THEN "none" ELSE "empty"
        /\ \A q \in Projects, e \in EnvNames : app'[q][e] \in {app[q][e], Nothing}
        /\ \A q \in Projects, e \in EnvNames : stray'[q][e] \in {stray[q][e], app[q][e]}
    BY <1>22, AskDeleteDoes
  <2>1. \A q \in Projects, e \in EnvNames :
          Code(q, e, app'[q][e]) /\ Code(q, e, stray'[q][e])
    BY <2>0 DEF Code
  <2>2. \A q \in Projects, e \in EnvNames : env'[q][e] # "none" <=> env[q][e] # "none"
    <3>1. \A e \in EnvNames : env'[p][e] # "none" <=> env[p][e] # "none"
      BY <2>0
    <3> QED
      BY <2>0, <3>1 DEF Furnishes
  <2>3. UNCHANGED <<project, worker, redeploy, clone, shared>>
    BY <1>22 DEF AskDelete
  <2> QED
    BY <2>1, <2>2, <2>3, Unmoved, QuietOwn
<1>23. ASSUME NEW p \in Projects, DeleteRow(p)
      PROVE  OwnInv'
  <2>1. Writes(p) /\ project'[p] = NoProject /\ Furnishes(p)
        /\ \A e \in EnvNames : env'[p][e] = "none"
    BY <1>23, DeleteRowDoes
  <2>2. UNCHANGED <<worker, clone, app, stray, redeploy, shared>>
    BY <1>23 DEF DeleteRow
  <2>3. (Made(p)' => Made(p)) /\ (Busy(p)' => Busy(p))
    BY <2>1, <2>2 DEF Made, Busy, Importing
  <2>4. Quiet(p)
    BY <2>1, <2>2, <2>3 DEF Quiet, NoProject, Code
  <2> QED
    BY <2>1, <2>2, <2>4, Unmoved, QuietOwn DEF Writes, Furnishes
<1>24. ASSUME NEW r \in Runs, NEW p \in Projects, Launch(r, p)
      PROVE  OwnInv'
  BY <1>24, Unmoved, QuietOwn DEF Launch
<1>25. ASSUME NEW r \in Runs, FinishRun(r)
      PROVE  OwnInv'
  BY <1>25, Unmoved, QuietOwn DEF FinishRun
<1>26. ASSUME Restart
      PROVE  OwnInv'
  <2>0. UNCHANGED <<project, env, clone, shared>>
    BY <1>26 DEF Restart
  <2> SUFFICES ASSUME NEW q \in Projects PROVE Quiet(q)
    BY <2>0, QuietOwn
  <2>1. /\ worker'[q].row = worker[q].row
        /\ \/ worker'[q] = worker[q] /\ worker[q].pc \in {"none", "ended"}
           \/ worker'[q].pc = "lost"
        /\ \A e \in EnvNames : redeploy'[q][e] = "none"
    BY <1>26, RestartDoes
  <2>2. \A e \in EnvNames : Deploying(q, e) => Made(q)
    BY DEF Deploying, Made, Cloned
  <2>3. \A e \in EnvNames : Code(q, e, app'[q][e]) /\ Code(q, e, stray'[q][e])
    BY <1>26, <2>2, RestartDoes DEF Code, CutOff
  <2>4. (Made(q)' => Made(q)) /\ ~Busy(q)'
    BY <2>0, <2>1 DEF Made, Busy, Importing, Cloned
  <2> QED
    BY <2>0, <2>1, <2>3, <2>4 DEF Quiet, Exists
<1>27. ASSUME UNCHANGED vars PROVE OwnInv'
  BY <1>27, Unmoved, QuietOwn DEF vars
<1>28. ASSUME NEW p \in Projects, HandlerRaises(p)
      PROVE  OwnInv'
  <2>1. At(p, "ended") /\ Keeps(p)
    BY <1>28, HandlerRaisesDoes
  <2>2. UNCHANGED <<project, env, clone, app, stray, redeploy, shared>> /\ worker[p].pc = "except"
    BY <1>28 DEF HandlerRaises
  <2>3. Quiet(p)
    BY <2>1, <2>2, GoesOn DEF At, Keeps, Cloned, Importing
  <2> QED
    BY <2>1, <2>2, <2>3, Unmoved, QuietOwn DEF At
<1>29. ASSUME NEW p \in Projects, NEW e \in EnvNames, AskDeploy(p, e)
      PROVE  OwnInv'
  <2>1. Moves(p, e) /\ env[p][e] # "none" /\ Orders(p, e)
    BY <1>29, AskDeployDoes
  <2>2. UNCHANGED <<project, clone, stray, worker, shared>>
    BY <1>29 DEF AskDeploy
  <2>3. Made(p) /\ Exists(p) /\ project[p].slug = worker[p].row.slug
    BY <2>1 DEF Made, Hands, Paged
  <2>4. \A q \in Projects, d \in EnvNames : Code(q, d, app'[q][d]) /\ Code(q, d, stray'[q][d])
    BY <2>1, <2>2, <2>3, MovesCode
  <2>5. Quiet(p)
    BY <2>2, <2>3, <2>4 DEF Quiet
  <2>6. \A q \in Projects \ {p} : env'[q] = env[q] /\ redeploy'[q] = redeploy[q]
    BY <2>1 DEF Moves, Furnishes, Orders
  <2> QED
    BY <2>2, <2>4, <2>5, <2>6, Unmoved, QuietOwn
<1>30. ASSUME NEW p \in Projects, NEW e \in EnvNames, RedeployReturns(p, e)
      PROVE  OwnInv'
  <2>1. Moves(p, e) /\ redeploy[p][e] # "none" /\ Orders(p, e)
    BY <1>30, RedeployReturnsDoes
  <2>2. UNCHANGED <<project, clone, stray, worker, shared>>
    BY <1>30 DEF RedeployReturns
  <2>3. Made(p) /\ Busy(p)
    BY <2>1 DEF Made, Busy
  <2>4. \A q \in Projects, d \in EnvNames : Code(q, d, app'[q][d]) /\ Code(q, d, stray'[q][d])
    BY <2>1, <2>2, <2>3, MovesCode
  <2>5. Quiet(p)
    BY <2>2, <2>3, <2>4 DEF Quiet, Exists
  <2>6. \A q \in Projects \ {p} : env'[q] = env[q] /\ redeploy'[q] = redeploy[q]
    BY <2>1 DEF Moves, Furnishes, Orders
  <2> QED
    BY <2>2, <2>4, <2>5, <2>6, Unmoved, QuietOwn
<1>31. ASSUME NEW p \in Projects, NEW e \in EnvNames, AskStop(p, e)
      PROVE  OwnInv'
  <2>1. Moves(p, e) /\ env[p][e] # "none"
    BY <1>31, AskStopDoes
  <2>2. UNCHANGED <<project, clone, stray, redeploy, worker, shared>>
    BY <1>31 DEF AskStop
  <2>3. Made(p)
    BY <2>1 DEF Made
  <2>4. \A q \in Projects, d \in EnvNames : Code(q, d, app'[q][d]) /\ Code(q, d, stray'[q][d])
    BY <2>1, <2>2, <2>3, MovesCode
  <2>5. \A q \in Projects, d \in EnvNames : env'[q][d] # "none" <=> env[q][d] # "none"
    BY <2>1 DEF Moves, Furnishes
  <2> QED
    BY <2>2, <2>4, <2>5, Unmoved, QuietOwn
<1>32. ASSUME NEW p \in Projects, NEW e \in EnvNames, Dies(p, e)
      PROVE  OwnInv'
  <2>1. UNCHANGED <<project, env, clone, stray, redeploy, worker, shared>>
        /\ app' = [app EXCEPT ![p][e] = Nothing]
    BY <1>32 DEF Dies
  <2>2. \A q \in Projects, d \in EnvNames : app'[q][d] \in {app[q][d], Nothing}
    BY <2>1, AppSet
  <2>3. \A q \in Projects, d \in EnvNames : Code(q, d, app'[q][d]) /\ Code(q, d, stray'[q][d])
    BY <2>1, <2>2 DEF Code
  <2> QED
    BY <2>1, <2>3, Unmoved, QuietOwn
<1> QED
  BY <1>1, <1>2, <1>3, <1>4, <1>5, <1>6, <1>7, <1>8, <1>9, <1>10, <1>11,
     <1>12, <1>13, <1>14, <1>15, <1>16, <1>17, <1>18, <1>19, <1>20, <1>21, <1>22,
     <1>23, <1>24, <1>25, <1>26, <1>27, <1>28, <1>29, <1>30, <1>31, <1>32
  DEF Next, ImportNext, FormNext, RunNext, PageNext

(* RunsOwnCode: what runs for a project whose slug was its alone is the    *)
(* repository it was imported from.                                        *)
THEOREM OwnCodeRuns == Spec => []RunsOwnCode
<1>1. Init => Shape /\ OwnInv
  BY ShapeInit, OwnInit
<1>2. Shape /\ OwnInv /\ [Next]_vars => (Shape /\ OwnInv)'
  BY ShapeStep, OwnStep
<1>3. Shape /\ OwnInv => RunsOwnCode
  BY DEF OwnInv, AppsAreOwn, RunsOwnCode
<1> QED
  BY <1>1, <1>2, <1>3, PTL DEF Spec

----------------------------------------------------------------------------
(***************************************************************************)
(* Rows and processes.  What runs has an environment that a deletion looks *)
(* at, and if it is a process a LIVE row; a project that is being deleted  *)
(* runs nothing.                                                           *)
(***************************************************************************)

AppsOf(p) ==
  p \notin overlap =>
    /\ deletion[p] # "none" => \A e \in EnvNames : app[p][e] = Nothing
    /\ \A e \in EnvNames : app[p][e] # Nothing =>
         env[p][e] # "none" /\ (~IsStack(p) => env[p][e] = "live")

AppInv == \A p \in Projects : AppsOf(p)

LEMMA AppsFrame ==
  ASSUME NEW q \in Projects, AppsOf(q), q \in overlap => q \in overlap',
         \A e \in EnvNames : app'[q][e] \in {app[q][e], Nothing},
         \A e \in EnvNames : env[q][e] # "none" =>
           /\ env'[q][e] = env[q][e]
           /\ project'[q].framework = project[q].framework,
         deletion'[q] # "none" => deletion[q] # "none"
  PROVE  AppsOf(q)'
BY DEF AppsOf, IsStack

(* Deployments, stops and deaths.                                          *)
LEMMA MovesApps ==
  ASSUME Typed, AppInv, NEW p \in Projects, NEW e \in EnvNames, Moves(p, e),
         UNCHANGED <<project, deletion>>
  PROVE  AppInv'
<1>1. ASSUME NEW q \in Projects \ {p}
      PROVE  AppsOf(q)'
  <2>1. /\ AppsOf(q) /\ env'[q] = env[q] /\ (q \in overlap => q \in overlap')
        /\ \A d \in EnvNames : app'[q][d] \in {app[q][d], Nothing}
    BY DEF AppInv, Moves, Furnishes
  <2> QED
    BY <2>1, AppsFrame
<1>2. AppsOf(p)'
  <2>1. AppsOf(p) /\ (IsStack(p)' <=> IsStack(p))
    BY DEF AppInv, IsStack
  <2>2. /\ \A d \in EnvNames \ {e} : env'[p][d] = env[p][d] /\ app'[p][d] = app[p][d]
        /\ env'[p][e] # "none" <=> env[p][e] # "none"
        /\ p \in overlap => p \in overlap'
        /\ \/ app'[p][e] = Nothing
           \/ p \in overlap'
           \/ app'[p][e] = app[p][e] /\ (IsStack(p) \/ env[p][e] # "live")
           \/ deletion[p] = "none" /\ env'[p][e] # "none" /\ (IsStack(p) \/ env'[p][e] = "live")
    BY DEF Moves
  <2> SUFFICES ASSUME p \notin overlap'
               PROVE  /\ deletion[p] # "none" => \A d \in EnvNames : app'[p][d] = Nothing
                      /\ \A d \in EnvNames : app'[p][d] # Nothing =>
                           env'[p][d] # "none" /\ (~IsStack(p) => env'[p][d] = "live")
    BY <2>1 DEF AppsOf
  <2>3. /\ deletion[p] # "none" => \A d \in EnvNames : app[p][d] = Nothing
        /\ \A d \in EnvNames : app[p][d] # Nothing =>
             env[p][d] # "none" /\ (~IsStack(p) => env[p][d] = "live")
    BY <2>1, <2>2 DEF AppsOf
  <2>4. /\ deletion[p] # "none" => app'[p][e] = Nothing
        /\ app'[p][e] # Nothing => env'[p][e] # "none" /\ (~IsStack(p) => env'[p][e] = "live")
    BY <2>2, <2>3
  <2> QED
    BY <2>2, <2>3, <2>4
<1> QED
  BY <1>1, <1>2 DEF AppInv

LEMMA AppInit == Init => AppInv
BY NothingsAre DEF Init, AppInv, AppsOf

LEMMA AppStep == Shape /\ AppInv /\ [Next]_vars => AppInv'
<1> SUFFICES ASSUME Shape, AppInv, [Next]_vars PROVE AppInv'
  OBVIOUS
<1>0. Typed /\ FormInv /\ \A p \in Projects : Hands(p) /\ AppsOf(p)
  BY DEF Shape, AppInv
<1> USE <1>0 DEF AppInv
<1>1. ASSUME NEW f \in Forms, NEW o \in Orgs, NEW p \in Projects,
             NEW r \in Repos, AskImport(f, o, p, r)
      PROVE  AppInv'
  BY <1>1, AppsFrame DEF AskImport
<1>2. ASSUME NEW f \in Forms, CreateShell(f)
      PROVE  AppInv'
  <2>0. PICK p \in Projects : p = form[f].project
    BY <1>2, CreateShellDoes DEF Submitted
  <2>1. Writes(p) /\ worker[p].pc = "none" /\ UNCHANGED <<env, app, deletion, overlap>>
    BY <1>2, <2>0, CreateShellDoes DEF FormInv, CreateShell
  <2>2. \A e \in EnvNames : env[p][e] = "none"
    BY <2>1 DEF Hands, Paged, Unmade
  <2> QED
    BY <2>1, <2>2, AppsFrame DEF Writes
<1>3. ASSUME NEW f \in Forms, ShellRefused(f)
      PROVE  AppInv'
  BY <1>3, AppsFrame DEF ShellRefused
<1>4. ASSUME NEW f \in Forms, SeedSteps(f)
      PROVE  AppInv'
  BY <1>4, AppsFrame DEF SeedSteps
<1>5. ASSUME NEW f \in Forms, SeedRaises(f)
      PROVE  AppInv'
  BY <1>5, AppsFrame DEF SeedRaises
<1>6. ASSUME NEW p \in Projects, StartMissing(p)
      PROVE  AppInv'
  BY <1>6, AppsFrame DEF StartMissing
<1>7. ASSUME NEW p \in Projects, StartImport(p)
      PROVE  AppInv'
  BY <1>7, AppsFrame DEF StartImport
<1>8. ASSUME NEW p \in Projects, Rmtree(p)
      PROVE  AppInv'
  BY <1>8, AppsFrame DEF Rmtree
<1>9. ASSUME NEW p \in Projects, Clone(p)
      PROVE  AppInv'
  BY <1>9, AppsFrame DEF Clone
<1>10. ASSUME NEW p \in Projects, CloneFails(p)
      PROVE  AppInv'
  BY <1>10, AppsFrame DEF CloneFails
<1>11. ASSUME NEW p \in Projects, Detect(p)
      PROVE  AppInv'
  BY <1>11, AppsFrame DEF Detect
<1>12. ASSUME NEW p \in Projects, SaveReady(p)
      PROVE  AppInv'
  <2>1. Importing(p) /\ "ready" \in Statuses /\ worker[p].pc = "save"
        /\ UNCHANGED <<env, app, deletion, overlap>>
    BY <1>12 DEF SaveReady, Importing, Statuses
  <2>2. Writes(p)
    BY <1>12, <2>1, SaveRowDoes DEF SaveReady
  <2>3. \A e \in EnvNames : env[p][e] = "none"
    BY <2>1 DEF Hands, Paged, Unmade
  <2> QED
    BY <2>1, <2>2, <2>3, AppsFrame DEF Writes
<1>13. ASSUME NEW p \in Projects, SaveGate(p)
      PROVE  AppInv'
  <2>1. Importing(p) /\ "failed" \in Statuses /\ worker[p].pc = "save"
        /\ UNCHANGED <<env, app, deletion, overlap>>
    BY <1>13 DEF SaveGate, Importing, Statuses
  <2>2. Writes(p)
    BY <1>13, <2>1, SaveRowDoes DEF SaveGate
  <2>3. \A e \in EnvNames : env[p][e] = "none"
    BY <2>1 DEF Hands, Paged, Unmade
  <2> QED
    BY <2>1, <2>2, <2>3, AppsFrame DEF Writes
<1>14. ASSUME NEW p \in Projects, SaveRaises(p)
      PROVE  AppInv'
  BY <1>14, AppsFrame DEF SaveRaises
<1>15. ASSUME NEW p \in Projects, Gate(p)
      PROVE  AppInv'
  BY <1>15, AppsFrame DEF Gate
<1>16. ASSUME NEW p \in Projects, MakeEnvironments(p)
      PROVE  AppInv'
  <2>1. /\ Furnishes(p) /\ UNCHANGED <<project, app, deletion, overlap>>
        /\ \A e \in EnvNames : env'[p][e] = IF env[p][e] = "none" THEN "empty" ELSE env[p][e]
    BY <1>16, MakeEnvironmentsDoes DEF MakeEnvironments
  <2> QED
    BY <2>1, AppsFrame DEF Furnishes
<1>17. ASSUME NEW p \in Projects, EnvironmentsRaise(p)
      PROVE  AppInv'
  <2>1. Furnishes(p) /\ UNCHANGED <<project, app, deletion, overlap>>
        /\ worker[p].pc = "environments"
    BY <1>17, EnvironmentsRaiseDoes DEF EnvironmentsRaise
  <2>2. \A e \in EnvNames : env[p][e] = "none"
    BY <2>1 DEF Hands, Paged, Unmade
  <2> QED
    BY <2>1, <2>2, AppsFrame DEF Furnishes
<1>18. ASSUME NEW p \in Projects, ImportRaised(p)
      PROVE  AppInv'
  <2>1. Writes(p) /\ UNCHANGED <<env, app, deletion, overlap>>
    BY <1>18, ImportRaisedDoes DEF ImportRaised
  <2>2. Exists(p) => project'[p].framework = project[p].framework
    <3>1. SUFFICES ASSUME Exists(p) PROVE project'[p].framework = project[p].framework
      OBVIOUS
    <3>2. project[p] \in ProjectRows /\ project \in [Projects -> ProjectRows \union {NoProject}]
      BY <3>1, RowsAre DEF Typed
    <3>3. project'[p] = [project[p] EXCEPT !.status = "failed"]
      BY <1>18, <3>1, <3>2 DEF ImportRaised, SaveFailed
    <3> QED
      BY <3>2, <3>3 DEF ProjectRows
  <2>3. \A e \in EnvNames : env[p][e] # "none" => Exists(p)
    BY DEF Hands, Paged
  <2> QED
    BY <2>1, <2>2, <2>3, AppsFrame DEF Writes
<1>19. ASSUME NEW p \in Projects, StartDeploy(p)
      PROVE  AppInv'
  <2> DEFINE e == Head(worker[p].todo)
  <2>1. e \in EnvNames /\ Moves(p, e)
    BY <1>19, StartDeployDoes
  <2> HIDE DEF e
  <2> QED
    BY <1>19, <2>1, MovesApps DEF StartDeploy
<1>20. ASSUME NEW p \in Projects, DeployReturns(p)
      PROVE  AppInv'
  <2> DEFINE e == Head(worker[p].todo)
  <2>1. e \in EnvNames /\ Moves(p, e)
    BY <1>20, DeployReturnsDoes
  <2> HIDE DEF e
  <2> QED
    BY <1>20, <2>1, MovesApps DEF DeployReturns
<1>21. ASSUME NEW p \in Projects, DeployRaises(p)
      PROVE  AppInv'
  <2> DEFINE e == Head(worker[p].todo)
  <2>1. e \in EnvNames /\ Moves(p, e)
    BY <1>21, DeployRaisesDoes
  <2> HIDE DEF e
  <2> QED
    BY <1>21, <2>1, MovesApps DEF DeployRaises
<1>22. ASSUME NEW p \in Projects, AskDelete(p)
      PROVE  AppInv'
  <2>1. /\ Furnishes(p) /\ UNCHANGED <<project, overlap>>
        /\ \A q \in Projects, e \in EnvNames : app'[q][e] \in {app[q][e], Nothing}
        /\ \A q \in Projects \ {p} : deletion'[q] = deletion[q]
    BY <1>22, AskDeleteDoes DEF AskDelete
  <2>2. \A e \in EnvNames : env[p][e] # "none" => app'[p][e] = Nothing
    BY <1>22, AskDeleteDoes
  <2>3. AppsOf(p)'
    BY <2>1, <2>2 DEF AppsOf
  <2>4. \A q \in Projects \ {p} : AppsOf(q)'
    BY <2>1, AppsFrame DEF Furnishes
  <2> QED
    BY <2>3, <2>4
<1>23. ASSUME NEW p \in Projects, DeleteRow(p)
      PROVE  AppInv'
  <2>1. /\ Furnishes(p) /\ Writes(p) /\ UNCHANGED <<app, overlap>>
        /\ deletion[p] = "stopped" /\ \A q \in Projects \ {p} : deletion'[q] = deletion[q]
    BY <1>23, DeleteRowDoes DEF DeleteRow
  <2>2. AppsOf(p)'
    BY <2>1 DEF AppsOf
  <2> QED
    BY <2>1, <2>2, AppsFrame DEF Furnishes, Writes
<1>24. ASSUME NEW r \in Runs, NEW p \in Projects, Launch(r, p)
      PROVE  AppInv'
  BY <1>24, AppsFrame DEF Launch
<1>25. ASSUME NEW r \in Runs, FinishRun(r)
      PROVE  AppInv'
  BY <1>25, AppsFrame DEF FinishRun
<1>26. ASSUME Restart
      PROVE  AppInv'
  <2> SUFFICES ASSUME NEW q \in Projects, q \notin overlap'
               PROVE  /\ deletion'[q] # "none" => \A e \in EnvNames : app'[q][e] = Nothing
                      /\ \A e \in EnvNames : app'[q][e] # Nothing =>
                           env[q][e] # "none" /\ (~IsStack(q) => env[q][e] = "live")
    BY <1>26 DEF AppsOf, Restart, IsStack
  <2>1. /\ q \notin overlap
        /\ \A e \in EnvNames : CutOff(q, e) => deletion[q] = "none"
        /\ deletion'[q] = IF deletion[q] = "stopped" THEN "none" ELSE deletion[q]
    BY <1>26, RestartDoes
  <2>2. \A e \in EnvNames : app'[q][e] \in {app[q][e], Nothing} \/ CutOff(q, e)
    BY <1>26, RestartDoes
  <2>3. \A e \in EnvNames : CutOff(q, e) => IsStack(q) /\ env[q][e] # "none"
    <3> SUFFICES ASSUME NEW e \in EnvNames, CutOff(q, e)
                 PROVE  IsStack(q) /\ env[q][e] # "none"
      OBVIOUS
    <3>1. Deploying(q, e) /\ IsStack(q)
      BY DEF CutOff
    <3>2. Exists(q)
      BY <3>1, RowsAre DEF IsStack, NoProject
    <3> QED
      BY <3>1, <3>2 DEF Deploying, Hands, Paged
  <2> QED
    BY <2>1, <2>2, <2>3 DEF AppsOf
<1>27. ASSUME UNCHANGED vars
      PROVE  AppInv'
  BY <1>27, AppsFrame DEF vars
<1>28. ASSUME NEW p \in Projects, HandlerRaises(p)
      PROVE  AppInv'
  BY <1>28, AppsFrame DEF HandlerRaises
<1>29. ASSUME NEW p \in Projects, NEW e \in EnvNames, AskDeploy(p, e)
      PROVE  AppInv'
  BY <1>29, AskDeployDoes, MovesApps DEF AskDeploy
<1>30. ASSUME NEW p \in Projects, NEW e \in EnvNames, RedeployReturns(p, e)
      PROVE  AppInv'
  BY <1>30, RedeployReturnsDoes, MovesApps DEF RedeployReturns
<1>31. ASSUME NEW p \in Projects, NEW e \in EnvNames, AskStop(p, e)
      PROVE  AppInv'
  BY <1>31, AskStopDoes, MovesApps DEF AskStop
<1>32. ASSUME NEW p \in Projects, NEW e \in EnvNames, Dies(p, e)
      PROVE  AppInv'
  BY <1>32, DiesDoes, MovesApps DEF Dies
<1> QED
  BY <1>1, <1>2, <1>3, <1>4, <1>5, <1>6, <1>7, <1>8, <1>9, <1>10, <1>11,
     <1>12, <1>13, <1>14, <1>15, <1>16, <1>17, <1>18, <1>19, <1>20, <1>21,
     <1>22, <1>23, <1>24, <1>25, <1>26, <1>27, <1>28, <1>29, <1>30, <1>31,
     <1>32 DEF Next, ImportNext, FormNext, RunNext, PageNext

(* NothingRunsUnseen: a process has its LIVE row, a stack an environment   *)
(* to name it, through redeployments and stops from the pages, deaths and  *)
(* restarts, with the exceptions the property names.                       *)
THEOREM NothingIsUnseen == Spec => []NothingRunsUnseen
<1>1. Init => Shape /\ AppInv
  BY ShapeInit, AppInit
<1>2. Shape /\ AppInv /\ [Next]_vars => (Shape /\ AppInv)'
  BY ShapeStep, AppStep
<1>3. Shape /\ AppInv => NothingRunsUnseen
  BY DEF Shape, Hands, Paged, AppInv, AppsOf, NothingRunsUnseen
<1> QED
  BY <1>1, <1>2, <1>3, PTL DEF Spec

----------------------------------------------------------------------------
(***************************************************************************)
(* Agents.  A thread that may still remove the clone works for a project   *)
(* that is IMPORTING, and a run launched then is marked early; no other    *)
(* project's thread touches a clone that is not shared.                    *)
(***************************************************************************)

Unbuilt == {"none", "start", "rmtree"}

StillImporting(p) ==
  Exists(p) /\ worker[p].pc \in Unbuilt => project[p].status = "importing"

RunKeeps(r) ==
  /\ run[r].status # "none" => run[r].project # Nothing
  /\ run[r].project # Nothing /\ ~run[r].early =>
       /\ worker[run[r].project].pc \notin Unbuilt
       /\ \/ run[r].project \in shared
          \/ run[r].status # "running"
          \/ run[r].tree # Nothing
       /\ \/ run[r].project \in shared
          \/ run[r].status # "done"
          \/ ~run[r].edits \/ run[r].refused
          \/ run[r].commit

AgentInv ==
  /\ \A p \in Projects : StillImporting(p)
  /\ \A r \in Runs : RunKeeps(r)

LEMMA RunsAre ==
  ASSUME Typed, NEW r \in Runs
  PROVE  /\ run[r] \in AgentRuns
         /\ run[r].project # Nothing => run[r].project \in Projects
BY DEF Typed, AgentRuns

LEMMA RunFrame ==
  ASSUME Typed, NEW r \in Runs, RunKeeps(r), run'[r] = run[r], shared \subseteq shared',
         \A p \in Projects : worker'[p].pc \in Unbuilt => worker[p].pc \in Unbuilt
  PROVE  RunKeeps(r)'
BY RunsAre DEF RunKeeps

LEMMA ImportingFrame ==
  ASSUME NEW p \in Projects, StillImporting(p), project'[p] = project[p],
         worker'[p].pc \in Unbuilt => worker[p].pc \in Unbuilt
  PROVE  StillImporting(p)'
BY DEF StillImporting, Exists

LEMMA AgentInit == Init => AgentInv
BY DEF Init, AgentInv, StillImporting, Exists, NoProject, RunKeeps, NoRun

LEMMA AgentStep == Shape /\ OwnInv /\ AgentInv /\ [Next]_vars => AgentInv'
<1> SUFFICES ASSUME Shape, OwnInv, AgentInv, [Next]_vars PROVE AgentInv'
  OBVIOUS
<1>0. /\ Typed /\ FormInv /\ Apart
      /\ \A p \in Projects : Hands(p) /\ StillImporting(p)
      /\ \A r \in Runs : RunKeeps(r)
  BY DEF Shape, OwnInv, AgentInv
<1> USE <1>0
<1>1. ASSUME NEW f \in Forms, NEW o \in Orgs, NEW p \in Projects,
             NEW r \in Repos, AskImport(f, o, p, r)
      PROVE  AgentInv'
  BY <1>1, RunFrame, ImportingFrame DEF AskImport, AgentInv
<1>2. ASSUME NEW f \in Forms, CreateShell(f)
      PROVE  AgentInv'
  <2>0. PICK p \in Projects : p = form[f].project
    BY <1>2, CreateShellDoes DEF Submitted
  <2>1. /\ Writes(p) /\ project'[p].status = "importing" /\ shared \subseteq shared'
        /\ UNCHANGED <<worker, run>>
    BY <1>2, <2>0, CreateShellDoes DEF CreateShell
  <2>2. StillImporting(p)'
    BY <2>1 DEF StillImporting
  <2> QED
    BY <2>1, <2>2, RunFrame, ImportingFrame DEF Writes, AgentInv
<1>3. ASSUME NEW f \in Forms, ShellRefused(f)
      PROVE  AgentInv'
  BY <1>3, RunFrame, ImportingFrame DEF ShellRefused, AgentInv
<1>4. ASSUME NEW f \in Forms, SeedSteps(f)
      PROVE  AgentInv'
  <2>0. PICK p \in Projects : p = form[f].project
    BY <1>4, SeedStepsDoes DEF Submitted
  <2>1. At(p, worker'[p].pc) /\ worker[p].pc = "none"
    BY <1>4, <2>0, SeedStepsDoes DEF FormInv, SeedSteps, At
  <2>2. \A q \in Projects : worker'[q].pc \in Unbuilt => worker[q].pc \in Unbuilt
    BY <2>1 DEF At, Unbuilt
  <2> QED
    BY <1>4, <2>2, RunFrame, ImportingFrame DEF SeedSteps, AgentInv
<1>5. ASSUME NEW f \in Forms, SeedRaises(f)
      PROVE  AgentInv'
  <2>0. PICK p \in Projects : p = form[f].project
    BY <1>5, SeedRaisesDoes DEF Submitted
  <2>1. At(p, worker'[p].pc) /\ worker[p].pc = "none"
    BY <1>5, <2>0, SeedRaisesDoes DEF FormInv, SeedRaises, At
  <2>2. \A q \in Projects : worker'[q].pc \in Unbuilt => worker[q].pc \in Unbuilt
    BY <2>1 DEF At, Unbuilt
  <2> QED
    BY <1>5, <2>2, RunFrame, ImportingFrame DEF SeedRaises, AgentInv
<1>6. ASSUME NEW p \in Projects, StartMissing(p)
      PROVE  AgentInv'
  <2>1. \A q \in Projects : worker'[q].pc \in Unbuilt => worker[q].pc \in Unbuilt
    BY <1>6, SetWorkerAt DEF StartMissing, At, Stages, Unbuilt
  <2> QED
    BY <1>6, <2>1, RunFrame, ImportingFrame DEF StartMissing, AgentInv
<1>7. ASSUME NEW p \in Projects, StartImport(p)
      PROVE  AgentInv'
  <2>1. \A q \in Projects : worker'[q].pc \in Unbuilt => worker[q].pc \in Unbuilt
    BY <1>7, StartImportDoes DEF StartImport, At, Unbuilt
  <2> QED
    BY <1>7, <2>1, RunFrame, ImportingFrame DEF StartImport, AgentInv
<1>8. ASSUME NEW p \in Projects, Rmtree(p)
      PROVE  AgentInv'
  <2>1. At(p, "cloning") /\ Importing(p) /\ worker[p].pc = "rmtree"
        /\ UNCHANGED <<project, shared>>
    BY <1>8, SetWorkerAt DEF Rmtree, Stages, Importing
  <2>2. \A q \in Projects : worker'[q].pc \in Unbuilt => worker[q].pc \in Unbuilt
    BY <2>1 DEF At, Unbuilt
  <2>3. ASSUME NEW r \in Runs PROVE RunKeeps(r)'
    <3>1. /\ run'[r].status = run[r].status /\ run'[r].project = run[r].project
          /\ run'[r].early = run[r].early /\ run'[r].edits = run[r].edits
          /\ run'[r].commit = run[r].commit /\ run'[r].refused = run[r].refused
          /\ \/ run'[r].tree = run[r].tree
             \/ run[r].project # Nothing /\ project[run[r].project].slug = worker[p].row.slug
      BY <1>8, OrphanIs DEF Rmtree
    <3>2. CASE run'[r].tree = run[r].tree
      BY <2>1, <2>2, <3>1, <3>2, RunsAre DEF RunKeeps
    <3>3. CASE run[r].project # Nothing /\ project[run[r].project].slug = worker[p].row.slug
      <4>1. PICK q \in Projects : q = run[r].project
        BY <3>3, RunsAre
      <4>2. CASE q = p
        BY <2>1, <3>1, <4>1, <4>2, <3>3 DEF RunKeeps, Unbuilt
      <4>3. CASE q # p
        <5>1. worker[p].row.slug \in Slugs
          BY <2>1 DEF Hands, ProjectRows
        <5>2. Exists(q)
          BY <3>3, <4>1, <5>1, RowsAre, SlugsAreNat
        <5>3. q \in shared
          BY <2>1, <3>3, <4>1, <4>3, <5>1, <5>2 DEF Apart, Holds, Busy
        <5> QED
          BY <2>1, <2>2, <3>1, <4>1, <5>3 DEF RunKeeps
      <4> QED
        BY <4>2, <4>3
    <3> QED
      BY <3>1, <3>2, <3>3
  <2> QED
    BY <2>1, <2>2, <2>3, ImportingFrame DEF AgentInv
<1>9. ASSUME NEW p \in Projects, Clone(p)
      PROVE  AgentInv'
  <2>1. \A q \in Projects : worker'[q].pc \in Unbuilt => worker[q].pc \in Unbuilt
    BY <1>9, CloneDoes DEF Clone, At, Unbuilt
  <2> QED
    BY <1>9, <2>1, RunFrame, ImportingFrame DEF Clone, AgentInv
<1>10. ASSUME NEW p \in Projects, CloneFails(p)
      PROVE  AgentInv'
  <2>1. \A q \in Projects : worker'[q].pc \in Unbuilt => worker[q].pc \in Unbuilt
    BY <1>10, SetWorkerAt DEF CloneFails, At, Stages, Unbuilt
  <2> QED
    BY <1>10, <2>1, RunFrame, ImportingFrame DEF CloneFails, AgentInv
<1>11. ASSUME NEW p \in Projects, Detect(p)
      PROVE  AgentInv'
  <2>1. \A q \in Projects : worker'[q].pc \in Unbuilt => worker[q].pc \in Unbuilt
    BY <1>11, DetectDoes DEF Detect, At, Unbuilt
  <2> QED
    BY <1>11, <2>1, RunFrame, ImportingFrame DEF Detect, AgentInv
<1>12. ASSUME NEW p \in Projects, SaveReady(p)
      PROVE  AgentInv'
  <2>1. Importing(p) /\ "ready" \in Statuses
    BY <1>12 DEF SaveReady, Importing, Statuses
  <2>2. At(p, "environments")
    BY <1>12, SetWorkerAt DEF SaveReady, Stages
  <2>3. Writes(p) /\ shared \subseteq shared' /\ UNCHANGED run
    BY <1>12, <2>1, SaveRowDoes DEF SaveReady
  <2>4. \A q \in Projects : worker'[q].pc \in Unbuilt => worker[q].pc \in Unbuilt
    BY <2>2 DEF At, Unbuilt
  <2>5. StillImporting(p)'
    BY <2>2 DEF StillImporting, At, Unbuilt
  <2> QED
    BY <2>3, <2>4, <2>5, RunFrame, ImportingFrame DEF Writes, AgentInv
<1>13. ASSUME NEW p \in Projects, SaveGate(p)
      PROVE  AgentInv'
  <2>1. Importing(p) /\ "failed" \in Statuses
    BY <1>13 DEF SaveGate, Importing, Statuses
  <2>2. At(p, "gate")
    BY <1>13, SetWorkerAt DEF SaveGate, Stages
  <2>3. Writes(p) /\ shared \subseteq shared' /\ UNCHANGED run
    BY <1>13, <2>1, SaveRowDoes DEF SaveGate
  <2>4. \A q \in Projects : worker'[q].pc \in Unbuilt => worker[q].pc \in Unbuilt
    BY <2>2 DEF At, Unbuilt
  <2>5. StillImporting(p)'
    BY <2>2 DEF StillImporting, At, Unbuilt
  <2> QED
    BY <2>3, <2>4, <2>5, RunFrame, ImportingFrame DEF Writes, AgentInv
<1>14. ASSUME NEW p \in Projects, SaveRaises(p)
      PROVE  AgentInv'
  <2>1. \A q \in Projects : worker'[q].pc \in Unbuilt => worker[q].pc \in Unbuilt
    BY <1>14, SetWorkerAt DEF SaveRaises, At, Stages, Unbuilt
  <2> QED
    BY <1>14, <2>1, RunFrame, ImportingFrame DEF SaveRaises, AgentInv
<1>15. ASSUME NEW p \in Projects, Gate(p)
      PROVE  AgentInv'
  <2>1. \A q \in Projects : worker'[q].pc \in Unbuilt => worker[q].pc \in Unbuilt
    BY <1>15, SetWorkerAt DEF Gate, At, Stages, Unbuilt
  <2> QED
    BY <1>15, <2>1, RunFrame, ImportingFrame DEF Gate, AgentInv
<1>16. ASSUME NEW p \in Projects, MakeEnvironments(p)
      PROVE  AgentInv'
  <2>1. \A q \in Projects : worker'[q].pc \in Unbuilt => worker[q].pc \in Unbuilt
    BY <1>16, MakeEnvironmentsDoes DEF MakeEnvironments, At, Unbuilt
  <2> QED
    BY <1>16, <2>1, RunFrame, ImportingFrame DEF MakeEnvironments, AgentInv
<1>17. ASSUME NEW p \in Projects, EnvironmentsRaise(p)
      PROVE  AgentInv'
  <2>1. \A q \in Projects : worker'[q].pc \in Unbuilt => worker[q].pc \in Unbuilt
    BY <1>17, EnvironmentsRaiseDoes DEF EnvironmentsRaise, At, Unbuilt
  <2> QED
    BY <1>17, <2>1, RunFrame, ImportingFrame DEF EnvironmentsRaise, AgentInv
<1>18. ASSUME NEW p \in Projects, ImportRaised(p)
      PROVE  AgentInv'
  <2>1. At(p, "ended") /\ Writes(p) /\ UNCHANGED <<run, shared>>
    BY <1>18, ImportRaisedDoes DEF ImportRaised
  <2>2. \A q \in Projects : worker'[q].pc \in Unbuilt => worker[q].pc \in Unbuilt
    BY <2>1 DEF At, Unbuilt
  <2>3. StillImporting(p)'
    BY <2>1 DEF StillImporting, At, Unbuilt
  <2> QED
    BY <2>1, <2>2, <2>3, RunFrame, ImportingFrame DEF Writes, AgentInv
<1>19. ASSUME NEW p \in Projects, StartDeploy(p)
      PROVE  AgentInv'
  <2>1. \A q \in Projects : worker'[q].pc \in Unbuilt => worker[q].pc \in Unbuilt
    BY <1>19, SetWorkerAt DEF StartDeploy, At, Stages, Unbuilt
  <2> QED
    BY <1>19, <2>1, RunFrame, ImportingFrame DEF StartDeploy, AgentInv
<1>20. ASSUME NEW p \in Projects, DeployReturns(p)
      PROVE  AgentInv'
  <2>1. \A q \in Projects : worker'[q].pc \in Unbuilt => worker[q].pc \in Unbuilt
    BY <1>20, DeployReturnsDoes DEF DeployReturns, At, Unbuilt
  <2> QED
    BY <1>20, <2>1, RunFrame, ImportingFrame DEF DeployReturns, AgentInv
<1>21. ASSUME NEW p \in Projects, DeployRaises(p)
      PROVE  AgentInv'
  <2>1. \A q \in Projects : worker'[q].pc \in Unbuilt => worker[q].pc \in Unbuilt
    BY <1>21, DeployRaisesDoes DEF DeployRaises, At, Unbuilt
  <2> QED
    BY <1>21, <2>1, RunFrame, ImportingFrame DEF DeployRaises, AgentInv
<1>22. ASSUME NEW p \in Projects, AskDelete(p)
      PROVE  AgentInv'
  BY <1>22, RunFrame, ImportingFrame DEF AskDelete, AgentInv
<1>23. ASSUME NEW p \in Projects, DeleteRow(p)
      PROVE  AgentInv'
  <2>0. Writes(p) /\ project'[p] = NoProject /\ UNCHANGED <<worker, shared>>
    BY <1>23, DeleteRowDoes DEF DeleteRow
  <2>1. Writes(p) /\ project'[p].status = "none" /\ UNCHANGED <<worker, shared>>
    BY <2>0 DEF NoProject
  <2>2. StillImporting(p)'
    BY <2>1 DEF StillImporting, Exists
  <2>3. ASSUME NEW r \in Runs PROVE RunKeeps(r)'
    <3>1. CASE run'[r] = run[r]
      BY <2>1, <3>1, RunFrame
    <3>2. CASE run'[r] = NoRun
      BY <3>2 DEF RunKeeps, NoRun
    <3> QED
      BY <1>23, <3>1, <3>2, DeleteRowDoes
  <2> QED
    BY <2>1, <2>2, <2>3, ImportingFrame DEF Writes, AgentInv
<1>24. ASSUME NEW r \in Runs, NEW p \in Projects, Launch(r, p)
      PROVE  AgentInv'
  <2>1. /\ Takes(r) /\ run'[r].status = "running" /\ run'[r].project = p
        /\ run'[r].tree # Nothing /\ run'[r].early = (project[p].status = "importing")
        /\ UNCHANGED <<project, worker, shared>> /\ Exists(p)
    BY <1>24, LaunchDoes DEF Launch
  <2>2. RunKeeps(r)'
    <3>1. CASE project[p].status = "importing"
      <4>1. run'[r].early
        BY <2>1, <3>1
      <4> QED
        BY <2>1, <4>1, ProjectsAssumption DEF RunKeeps
    <3>2. CASE project[p].status # "importing"
      <4>1. worker[p].pc \notin Unbuilt
        BY <2>1, <3>2 DEF StillImporting
      <4> QED
        BY <2>1, <4>1, ProjectsAssumption DEF RunKeeps
    <3> QED
      BY <3>1, <3>2
  <2> QED
    BY <2>1, <2>2, RunFrame, ImportingFrame DEF Takes, AgentInv
<1>25. ASSUME NEW r \in Runs, FinishRun(r)
      PROVE  AgentInv'
  <2>1. /\ Takes(r) /\ run'[r].status \in {"done", "failed"}
        /\ run'[r].project = run[r].project /\ run'[r].early = run[r].early
        /\ run[r].status = "running" /\ UNCHANGED <<project, worker, shared>>
    BY <1>25, FinishRunDoes DEF FinishRun
  <2>2. /\ run'[r].status = "done" /\ run'[r].edits /\ ~run'[r].refused
        /\ run[r].tree # Nothing
        => run'[r].commit
    BY <1>25, FinishRunDoes
  <2>3. RunKeeps(r)'
    BY <2>1, <2>2 DEF RunKeeps
  <2> QED
    BY <2>1, <2>3, RunFrame, ImportingFrame DEF Takes, AgentInv
<1>26. ASSUME Restart
      PROVE  AgentInv'
  <2>1. \A q \in Projects : worker'[q].pc \in Unbuilt => worker[q].pc \in Unbuilt
    BY <1>26, RestartDoes DEF Unbuilt
  <2>2. UNCHANGED <<project, shared>>
    BY <1>26 DEF Restart
  <2>3. ASSUME NEW r \in Runs PROVE RunKeeps(r)'
    <3>1. /\ run'[r].status = run[r].status /\ run'[r].project = run[r].project
          /\ run'[r].early = run[r].early /\ run'[r].edits = run[r].edits
          /\ run'[r].commit = run[r].commit /\ run'[r].tree = run[r].tree
          /\ run'[r].refused = run[r].refused
      BY <1>26, RestartDoes
    <3> QED
      BY <2>1, <2>2, <3>1, RunsAre DEF RunKeeps
  <2> QED
    BY <2>1, <2>2, <2>3, ImportingFrame DEF AgentInv
<1>27. ASSUME UNCHANGED vars PROVE AgentInv'
  BY <1>27, RunFrame, ImportingFrame DEF vars, AgentInv
<1>28. ASSUME NEW p \in Projects, HandlerRaises(p)
      PROVE  AgentInv'
  <2>1. \A q \in Projects : worker'[q].pc \in Unbuilt => worker[q].pc \in Unbuilt
    BY <1>28, HandlerRaisesDoes DEF At, Unbuilt
  <2> QED
    BY <1>28, <2>1, RunFrame, ImportingFrame DEF HandlerRaises, AgentInv
<1>29. ASSUME NEW p \in Projects, NEW e \in EnvNames, AskDeploy(p, e)
      PROVE  AgentInv'
  BY <1>29, RunFrame, ImportingFrame DEF AskDeploy, AgentInv
<1>30. ASSUME NEW p \in Projects, NEW e \in EnvNames, RedeployReturns(p, e)
      PROVE  AgentInv'
  BY <1>30, RunFrame, ImportingFrame DEF RedeployReturns, AgentInv
<1>31. ASSUME NEW p \in Projects, NEW e \in EnvNames, AskStop(p, e)
      PROVE  AgentInv'
  BY <1>31, RunFrame, ImportingFrame DEF AskStop, AgentInv
<1>32. ASSUME NEW p \in Projects, NEW e \in EnvNames, Dies(p, e)
      PROVE  AgentInv'
  BY <1>32, RunFrame, ImportingFrame DEF Dies, AgentInv
<1> QED
  BY <1>1, <1>2, <1>3, <1>4, <1>5, <1>6, <1>7, <1>8, <1>9, <1>10, <1>11,
     <1>12, <1>13, <1>14, <1>15, <1>16, <1>17, <1>18, <1>19, <1>20, <1>21,
     <1>22, <1>23, <1>24, <1>25, <1>26, <1>27, <1>28, <1>29, <1>30, <1>31,
     <1>32 DEF Next, ImportNext, FormNext, RunNext, PageNext

(* AgentsKeepTheirWork: an agent that is DONE has committed what it        *)
(* changed, unless git refused the commit, if its clone was its project's  *)
(* alone and complete: whose import may still empty the directory of a     *)
(* worktree is IMPORTING, and no other thread names that directory.        *)
THEOREM AgentsCommit == Spec => []AgentsKeepTheirWork
<1>1. Init => Shape /\ OwnInv /\ AgentInv
  BY ShapeInit, OwnInit, AgentInit
<1>2. Shape /\ OwnInv /\ AgentInv /\ [Next]_vars => (Shape /\ OwnInv /\ AgentInv)'
  BY ShapeStep, OwnStep, AgentStep
<1>3. AgentInv => AgentsKeepTheirWork
  BY DEF AgentInv, RunKeeps, AgentsKeepTheirWork
<1> QED
  BY <1>1, <1>2, <1>3, PTL DEF Spec

----------------------------------------------------------------------------
(***************************************************************************)
(* Deletion.                                                               *)
(***************************************************************************)

(* DeletedStaysDeleted: a deleted project comes back only by the save of   *)
(* its own import, as READY or, at the gate, FAILED.  A form holds no      *)
(* project that was deleted, and the handler writes no row anew.           *)
THEOREM OnlySavesRevive == Spec => DeletedStaysDeleted
<1> DEFINE Saved(p) ==
      /\ worker[p].pc = "save"
      /\ project[p].status' = IF worker[p].framework = "none" THEN "failed"
                              ELSE "ready"
<1>1. Shape /\ [Next]_vars =>
        [\A p \in Projects :
           deletion[p] = "deleted" /\ ~Exists(p) /\ Exists(p)' => Saved(p)]_vars
  <2> SUFFICES ASSUME Shape, [Next]_vars, NEW q \in Projects,
                      deletion[q] = "deleted", ~Exists(q), Exists(q)'
               PROVE  Saved(q)
    OBVIOUS
  <2>0. Typed /\ FormInv /\ \A p \in Projects : Hands(p)
    BY DEF Shape
  <2>1. project' # project
    BY DEF Exists
  <2>2. ASSUME NEW f \in Forms, CreateShell(f) PROVE FALSE
    <3>1. PICK p \in Projects : p = form[f].project
      BY <2>0, <2>2, CreateShellDoes DEF Submitted
    <3>2. deletion[p] = "none" /\ Writes(p)
      BY <2>0, <2>2, <3>1, CreateShellDoes DEF CreateShell, FormInv
    <3> QED
      BY <3>2 DEF Writes, Exists
  <2>3. ASSUME NEW p \in Projects, NEW s \in Statuses, worker[p].pc = "save",
               SaveRow(p, s), s = IF worker[p].framework = "none" THEN "failed" ELSE "ready"
        PROVE  Saved(q)
    <3>1. Importing(p)
      BY <2>3 DEF Importing
    <3>2. Writes(p) /\ project'[p].status = s
      BY <2>0, <2>3, <3>1, SaveRowDoes
    <3>3. p = q
      BY <3>2 DEF Writes, Exists
    <3> QED
      BY <2>3, <3>2, <3>3
  <2>4. ASSUME NEW p \in Projects, ImportRaised(p) PROVE FALSE
    <3>1. Writes(p) /\ (~Exists(p) => project' = project)
      BY <2>0, <2>4, ImportRaisedDoes
    <3> QED
      BY <3>1 DEF Writes, Exists
  <2>5. ASSUME NEW p \in Projects, DeleteRow(p) PROVE FALSE
    <3>1. Writes(p) /\ project'[p] = NoProject
      BY <2>0, <2>5, DeleteRowDoes
    <3> QED
      BY <3>1 DEF Writes, Exists, NoProject
  <2>6. \/ \E f \in Forms : CreateShell(f)
        \/ \E p \in Projects : \/ SaveReady(p) \/ SaveGate(p)
                               \/ ImportRaised(p) \/ DeleteRow(p)
    <3>1. CASE \E f \in Forms : FormNext(f)
      BY <2>1, <3>1 DEF FormNext, AskImport, ShellRefused, SeedSteps, SeedRaises
    <3>2. CASE \E p \in Projects : ImportNext(p)
      BY <2>1, <3>2 DEF ImportNext, StartMissing, StartImport, Rmtree, Clone,
         CloneFails, Detect, SaveRaises, Gate, MakeEnvironments,
         EnvironmentsRaise, HandlerRaises, StartDeploy, DeployReturns,
         DeployRaises
    <3>3. CASE \E p \in Projects : AskDelete(p) \/ DeleteRow(p)
      BY <2>1, <3>3 DEF AskDelete
    <3>4. CASE \E p \in Projects, e \in EnvNames : PageNext(p, e)
      BY <2>1, <3>4 DEF PageNext, AskDeploy, RedeployReturns, AskStop, Dies
    <3>5. CASE (\E r \in Runs : RunNext(r)) \/ Restart \/ UNCHANGED vars
      BY <2>1, <3>5 DEF RunNext, Launch, FinishRun, Restart, vars
    <3> QED
      BY <3>1, <3>2, <3>3, <3>4, <3>5 DEF Next
  <2>7. ASSUME NEW p \in Projects, SaveReady(p) PROVE Saved(q)
    <3>1. worker[p].pc = "save" /\ worker[p].framework # "none" /\ SaveRow(p, "ready")
      BY <2>7 DEF SaveReady
    <3> QED
      BY <2>3, <3>1 DEF Statuses
  <2>8. ASSUME NEW p \in Projects, SaveGate(p) PROVE Saved(q)
    <3>1. worker[p].pc = "save" /\ worker[p].framework = "none" /\ SaveRow(p, "failed")
      BY <2>8 DEF SaveGate
    <3> QED
      BY <2>3, <3>1 DEF Statuses
  <2> QED
    BY <2>2, <2>4, <2>5, <2>6, <2>7, <2>8
<1>2. Init => Shape
  BY ShapeInit
<1>3. Shape /\ [Next]_vars => Shape'
  BY ShapeStep
<1>4. [\A p \in Projects :
         deletion[p] = "deleted" /\ ~Exists(p) /\ Exists(p)' => Saved(p)]_vars
      <=> [\A p \in Projects :
             deletion[p] = "deleted" /\ ~Exists(p) /\ Exists(p)' =>
               /\ worker[p].pc = "save"
               /\ project[p].status' = IF worker[p].framework = "none"
                                       THEN "failed" ELSE "ready"]_vars
  OBVIOUS
<1> HIDE DEF Saved
<1> QED
  BY <1>1, <1>2, <1>3, <1>4, PTL DEF Spec, DeletedStaysDeleted

----------------------------------------------------------------------------
(***************************************************************************)
(* The stepper and the card.  As the thread goes on, the steps behind it   *)
(* are done (or went with a row that was deleted); those of environments   *)
(* are begun only from the list the thread has left, and each ends as the  *)
(* deployment it stands for, until a page deploys or stops an environment. *)
(***************************************************************************)

Prepared == {"clone", "detect", "verify", "provision"}
Passed(p, k) == step[p][k] \in {"done", "none"}
Down(p, e) == env[p][e] \in {"building", "failed"}
Untouched(p) == \A e \in EnvNames : <<p, e>> \notin touched

Behind(p) ==
  /\ worker[p].pc = "detect" => Passed(p, "clone")
  /\ \/ worker[p].pc = "save" /\ worker[p].framework # "none"
     \/ worker[p].pc = "environments"
     => Passed(p, "clone") /\ Passed(p, "detect") /\ Passed(p, "verify")
  /\ worker[p].pc \in {"deploy", "deploying"} =>
       \A k \in Prepared : Passed(p, k)

Gated(p) ==
  Exists(p) =>
    /\ worker[p].pc = "gate" => project[p].status = "failed"
    /\ worker[p].pc \in {"environments", "deploy", "deploying"} =>
         project[p].status = "ready"

Undeployed(p) == \A e \in EnvNames : env[p][e] \in {"none", "empty"}

Unbegun(p) ==
  /\ worker[p].pc \in Unmade =>
       \A e \in EnvNames : step[p][e] \in {"pending", "none"}
  /\ worker[p].pc = "except" /\ Untouched(p) => Undeployed(p)

Underway(p) ==
  worker[p].pc \in {"deploy", "deploying"} =>
    /\ \A e \in EnvNames : step[p][e] \in {"pending", "running"} =>
         e \in Range(worker[p].todo) \/ <<p, e>> \in touched
    /\ Exists(p) /\ p \notin overlap /\ Untouched(p) => \A e \in EnvNames :
         /\ step[p][e] = "failed" => Down(p, e) \/ deletion[p] # "none"
         /\ Down(p, e) => step[p][e] # "done"

Settled(p) ==
  worker[p].pc = "ended" /\ Exists(p) =>
    /\ project[p].status # "importing"
    /\ \A k \in Keys : step[p][k] \in {"pending", "running"} => <<p, k>> \in touched
    /\ project[p].status = "ready" =>
         /\ \A e \in EnvNames : env[p][e] # "none"
         /\ \A k \in Prepared : Passed(p, k)
    /\ p \notin overlap /\ Untouched(p) => \A e \in EnvNames :
         /\ step[p][e] = "failed" => Down(p, e) \/ Undeployed(p)
         /\ Down(p, e) => step[p][e] # "done"

Settles(p) == Behind(p) /\ Gated(p) /\ Unbegun(p) /\ Underway(p) /\ Settled(p)

(* All of it unless a write of p's stepper, or the handler's, was missed.  *)
SettleInv == \A p \in Projects \ unwritten : Settles(p)

LEMMA KeysAre == Keys = Prepared \union EnvNames /\ \A e \in EnvNames : e \notin Prepared
BY DEF Keys, Prepared, EnvNames

(* Nothing but the histories grows for q.                                  *)
Spares(q) ==
  /\ worker'[q] = worker[q] /\ project'[q] = project[q]
  /\ step'[q] = step[q] /\ env'[q] = env[q]
  /\ deletion[q] # "none" => deletion'[q] # "none"

Grows ==
  /\ overlap \subseteq overlap' /\ touched \subseteq touched'
  /\ unwritten \subseteq unwritten'

LEMMA SettleFrame ==
  ASSUME NEW q \in Projects, Settles(q), Spares(q), Grows
  PROVE  Settles(q)'
<1>1. Untouched(q)' => Untouched(q)
  BY DEF Untouched, Grows
<1> QED
  BY <1>1 DEF Spares, Grows, Settles, Behind, Gated, Unbegun, Underway, Settled,
     Passed, Down, Exists, Undeployed

LEMMA SparesAll ==
  ASSUME SettleInv, Grows, \A q \in Projects : Spares(q)
  PROVE  SettleInv'
BY SettleFrame DEF SettleInv, Grows

LEMMA SettlesOn ==
  ASSUME SettleInv, Grows, NEW p \in Projects,
         \A q \in Projects \ {p} : Spares(q),
         p \notin unwritten' /\ Settles(p) => Settles(p)'
  PROVE  SettleInv'
BY SettleFrame DEF SettleInv, Grows

(* A page's deployment of e may leave the step of e, and what is shown of  *)
(* it, in any state.                                                       *)
LEMMA TouchedSettles ==
  ASSUME Typed, NEW p \in Projects, NEW e \in EnvNames, Settles(p), Hands(p)', Grows,
         worker'[p] = worker[p], project'[p] = project[p],
         \A k \in Keys \ {e} : step'[p][k] = step[p][k],
         \A d \in EnvNames : env'[p][d] # "none" <=> env[p][d] # "none",
         <<p, e>> \in touched'
  PROVE  Settles(p)'
<1>1. worker[p].pc \notin Unmade
  BY DEF Hands, Paged
<1>2. ~Untouched(p)' /\ \A k \in Prepared : step'[p][k] = step[p][k]
  BY KeysAre DEF Untouched
<1>3. Behind(p)' /\ Gated(p)' /\ Unbegun(p)'
  <2>1. Behind(p)'
    BY <1>2 DEF Settles, Behind, Passed, Prepared
  <2>2. Gated(p)'
    BY DEF Settles, Gated, Exists
  <2> QED
    BY <1>1, <1>2, <2>1, <2>2 DEF Unbegun
<1>4. Underway(p)'
  <2>1. worker[p].pc \in {"deploy", "deploying"} => \A d \in EnvNames :
          step'[p][d] \in {"pending", "running"} =>
            d \in Range(worker[p].todo) \/ <<p, d>> \in touched'
    <3>1. \A d \in EnvNames \ {e} : step'[p][d] = step[p][d]
      BY KeysAre
    <3> QED
      BY <3>1 DEF Settles, Underway, Grows
  <2> QED
    BY <1>2, <2>1 DEF Underway
<1>5. Settled(p)'
  BY <1>2 DEF Settles, Settled, Passed, Exists, Grows
<1> QED
  BY <1>3, <1>4, <1>5 DEF Settles

LEMMA RangeIs ==
  ASSUME NEW s \in Seq(EnvNames), s # <<>>
  PROVE  /\ Range(s) = {Head(s)} \union Range(Tail(s))
         /\ Len(s) = 1 => Range(s) = {Head(s)}
<1>1. Len(s) \in Nat /\ Len(s) >= 1 /\ DOMAIN s = 1 .. Len(s) /\ Head(s) = s[1]
  BY EmptySeq, LenProperties, HeadTailProperties
<1>2. Tail(s) \in Seq(EnvNames) /\ Len(Tail(s)) = Len(s) - 1
      /\ \A i \in 1 .. Len(Tail(s)) : Tail(s)[i] = s[i + 1]
  BY HeadTailProperties
<1>3. DOMAIN Tail(s) = 1 .. (Len(s) - 1)
  BY <1>2, LenProperties
<1>4. Range(s) = {s[i] : i \in 1 .. Len(s)}
      /\ Range(Tail(s)) = {Tail(s)[i] : i \in 1 .. (Len(s) - 1)}
  BY <1>1, <1>3 DEF Range
<1>5. \A i \in 1 .. (Len(s) - 1) : Tail(s)[i] = s[i + 1]
  BY <1>1, <1>2
<1>6. \A i \in 1 .. Len(s) : i = 1 \/ i - 1 \in 1 .. (Len(s) - 1)
  BY <1>1
<1>7. \A i \in 1 .. (Len(s) - 1) : i + 1 \in 1 .. Len(s)
  BY <1>1
<1>8. Range(s) \subseteq {Head(s)} \union Range(Tail(s))
  <2> SUFFICES ASSUME NEW i \in 1 .. Len(s), i # 1
               PROVE  s[i] \in Range(Tail(s))
    BY <1>1, <1>4
  <2>1. i - 1 \in 1 .. (Len(s) - 1) /\ (i - 1) + 1 = i
    BY <1>1, <1>6
  <2>2. Tail(s)[i - 1] = s[i]
    BY <1>5, <2>1
  <2> QED
    BY <1>4, <2>1, <2>2
<1>9. {Head(s)} \union Range(Tail(s)) \subseteq Range(s)
  <2>1. s[1] \in Range(s)
    BY <1>1, <1>4
  <2>2. \A i \in 1 .. (Len(s) - 1) : s[i + 1] \in Range(s)
    BY <1>4, <1>7
  <2> QED
    BY <1>1, <1>4, <1>5, <2>1, <2>2
<1>10. Len(s) = 1 => Range(s) = {Head(s)}
  BY <1>1, <1>4
<1> QED
  BY <1>8, <1>9, <1>10

(* What the verdict says of the environments.                              *)
LEMMA VerdictIs ==
  ASSUME NEW p \in Projects
  PROVE  /\ HealthVerdict(p) = "live" =>
              /\ \E e \in EnvNames : env[p][e] = "live"
              /\ \A e \in EnvNames : env[p][e] \notin {"building", "failed"}
         /\ HealthVerdict(p) \in {"degraded", "down"} =>
              \E e \in EnvNames : env[p][e] \in {"building", "failed"}
<1> DEFINE L == {e \in EnvNames : env[p][e] = "live"}
           D == {e \in EnvNames : env[p][e] \in {"building", "failed"}}
<1>1. LiveCount(p) = Cardinality(L) /\ DownCount(p) = Cardinality(D)
  BY DEF LiveCount, DownCount, Quantify
<1>2. IsFiniteSet(EnvNames)
  <2>1. IsFiniteSet({})
    BY FS_EmptySet
  <2>2. IsFiniteSet({} \union {"staging"})
    BY <2>1, FS_AddElement
  <2>3. IsFiniteSet(({} \union {"staging"}) \union {"prod"})
    BY <2>2, FS_AddElement
  <2>4. EnvNames = ({} \union {"staging"}) \union {"prod"}
    BY DEF EnvNames
  <2> QED
    BY <2>3, <2>4
<1>3. IsFiniteSet(L) /\ IsFiniteSet(D)
  BY <1>2, FS_Subset
<1>4. /\ Cardinality(L) \in Nat /\ Cardinality(D) \in Nat
      /\ Cardinality(L) = 0 <=> L = {}
      /\ Cardinality(D) = 0 <=> D = {}
  BY <1>3, FS_CardinalityType, FS_EmptySet
<1> HIDE DEF L, D
<1>5. HealthVerdict(p) = "live" => Cardinality(L) + Cardinality(D) # 0 /\ Cardinality(D) = 0
  BY <1>1 DEF HealthVerdict
<1>6. HealthVerdict(p) \in {"degraded", "down"} => Cardinality(D) # 0
  BY <1>1 DEF HealthVerdict
<1>7. HealthVerdict(p) = "live" => L # {} /\ D = {}
  BY <1>4, <1>5
<1>8. HealthVerdict(p) \in {"degraded", "down"} => D # {}
  BY <1>4, <1>6
<1> QED
  BY <1>7, <1>8 DEF L, D

LEMMA SettleInit == Init => SettleInv
<1> SUFFICES ASSUME Init, NEW p \in Projects PROVE Settles(p)
  BY DEF SettleInv
<1>1. worker[p].pc = "none"
  BY DEF Init, NoWorker
<1>2. \A e \in EnvNames : step[p][e] = "none"
  BY NothingsAre, KeysAre DEF Init
<1> QED
  BY <1>1, <1>2 DEF Settles, Behind, Gated, Unbegun, Underway, Settled

LEMMA SettleStep == Shape /\ SettleInv /\ [Next]_vars => SettleInv'
<1> SUFFICES ASSUME Shape, SettleInv, [Next]_vars PROVE SettleInv'
  OBVIOUS
<1>0. Typed /\ FormInv /\ (\A p \in Projects : Hands(p)) /\ \A p \in Projects : Hands(p)'
  BY ShapeStep DEF Shape
<1> USE <1>0
<1>1. ASSUME NEW f \in Forms, NEW o \in Orgs, NEW p \in Projects,
             NEW r \in Repos, AskImport(f, o, p, r)
      PROVE  SettleInv'
  BY <1>1, SparesAll DEF AskImport, Spares, Grows
<1>2. ASSUME NEW f \in Forms, CreateShell(f)
      PROVE  SettleInv'
  <2>0. PICK p \in Projects : p = form[f].project
    BY <1>2, CreateShellDoes DEF Submitted
  <2>1. /\ Writes(p) /\ worker[p].pc = "none"
        /\ UNCHANGED <<worker, step, env, deletion, overlap, touched, unwritten>>
    BY <1>2, <2>0, CreateShellDoes DEF FormInv, CreateShell
  <2>2. Grows /\ \A q \in Projects \ {p} : Spares(q)
    BY <2>1 DEF Writes, Spares, Grows
  <2>3. ASSUME p \notin unwritten', Settles(p)
        PROVE  Settles(p)'
    BY <2>1, <2>3 DEF Settles, Behind, Gated, Unbegun, Underway, Settled
  <2> QED
    BY <2>2, <2>3, SettlesOn
<1>3. ASSUME NEW f \in Forms, ShellRefused(f)
      PROVE  SettleInv'
  BY <1>3, SparesAll DEF ShellRefused, Spares, Grows
<1>4. ASSUME NEW f \in Forms, SeedSteps(f)
      PROVE  SettleInv'
  <2>0. PICK p \in Projects : p = form[f].project
    BY <1>4, SeedStepsDoes DEF Submitted
  <2>1. /\ At(p, "start") /\ worker[p].pc = "none"
        /\ UNCHANGED <<project, env, deletion, overlap, touched, unwritten>>
        /\ \A q \in Projects \ {p} : step'[q] = step[q]
        /\ \A k \in Keys : step'[p][k] \in {step[p][k], "pending", "none"}
    BY <1>4, <2>0, SeedStepsDoes DEF FormInv, SeedSteps
  <2>2. Grows /\ \A q \in Projects \ {p} : Spares(q)
    BY <2>1 DEF At, Spares, Grows
  <2>3. ASSUME p \notin unwritten', Settles(p)
        PROVE  Settles(p)'
    <3>1. \A e \in EnvNames : step'[p][e] \in {"pending", "none"}
      BY <2>1, <2>3, KeysAre DEF Settles, Unbegun, Unmade
    <3> QED
      BY <2>1, <3>1 DEF At, Settles, Behind, Gated, Unbegun, Underway, Settled
  <2> QED
    BY <2>2, <2>3, SettlesOn
<1>5. ASSUME NEW f \in Forms, SeedRaises(f)
      PROVE  SettleInv'
  <2>0. PICK p \in Projects : p = form[f].project
    BY <1>5, SeedRaisesDoes DEF Submitted
  <2>1. At(p, "lost") /\ UNCHANGED <<project, step, env, deletion, overlap, touched, unwritten>>
    BY <1>5, <2>0, SeedRaisesDoes DEF SeedRaises
  <2>2. Grows /\ \A q \in Projects \ {p} : Spares(q)
    BY <2>1 DEF At, Spares, Grows
  <2>3. ASSUME p \notin unwritten', Settles(p)
        PROVE  Settles(p)'
    BY <2>1 DEF At, Unmade, Settles, Behind, Gated, Unbegun, Underway, Settled
  <2> QED
    BY <2>2, <2>3, SettlesOn
<1>6. ASSUME NEW p \in Projects, StartMissing(p)
      PROVE  SettleInv'
  <2>1. At(p, "ended") /\ ~Exists(p)
        /\ UNCHANGED <<project, step, env, deletion, overlap, touched, unwritten>>
    BY <1>6, SetWorkerAt DEF StartMissing, Stages
  <2>2. Grows /\ \A q \in Projects \ {p} : Spares(q)
    BY <2>1 DEF At, Spares, Grows
  <2>3. ASSUME p \notin unwritten', Settles(p)
        PROVE  Settles(p)'
    BY <2>1 DEF At, Exists, Unmade, Settles, Behind, Gated, Unbegun, Underway, Settled
  <2> QED
    BY <2>2, <2>3, SettlesOn
<1>7. ASSUME NEW p \in Projects, StartImport(p)
      PROVE  SettleInv'
  <2>1. /\ At(p, "rmtree") /\ Marks(p, {"clone"}, "running") /\ worker[p].pc = "start"
        /\ UNCHANGED <<project, env, deletion, overlap, touched>>
    BY <1>7, StartImportDoes DEF StartImport
  <2>2. Grows /\ \A q \in Projects \ {p} : Spares(q)
    BY <2>1 DEF At, Marks, Stepped, Spares, Grows
  <2>3. ASSUME p \notin unwritten', Settles(p)
        PROVE  Settles(p)'
    <3>1. \A e \in EnvNames : step'[p][e] = step[p][e]
      BY <2>1, KeysAre DEF Marks, Prepared
    <3> QED
      BY <2>1, <2>3, <3>1 DEF At, Unmade, Settles, Behind, Gated, Unbegun, Underway, Settled
  <2> QED
    BY <2>2, <2>3, SettlesOn
<1>8. ASSUME NEW p \in Projects, Rmtree(p)
      PROVE  SettleInv'
  <2>1. /\ At(p, "cloning") /\ worker[p].pc = "rmtree"
        /\ UNCHANGED <<project, step, env, deletion, overlap, touched, unwritten>>
    BY <1>8, SetWorkerAt DEF Rmtree, Stages
  <2>2. Grows /\ \A q \in Projects \ {p} : Spares(q)
    BY <2>1 DEF At, Spares, Grows
  <2>3. ASSUME p \notin unwritten', Settles(p)
        PROVE  Settles(p)'
    BY <2>1, <2>3 DEF At, Unmade, Settles, Behind, Gated, Unbegun, Underway, Settled
  <2> QED
    BY <2>2, <2>3, SettlesOn
<1>9. ASSUME NEW p \in Projects, Clone(p)
      PROVE  SettleInv'
  <2>0. /\ At(p, "detect") /\ worker[p].pc = "cloning"
        /\ UNCHANGED <<project, env, deletion, overlap, touched>>
    BY <1>9, CloneDoes DEF Clone
  <2> DEFINE K == {"clone", "detect"}
             c == [k \in K |-> IF k = "clone" THEN "done" ELSE "running"]
  <2>a. K \subseteq Keys /\ c \in [K -> States] /\ SetSteps(p, c) /\ c["clone"] = "done"
    BY <1>9 DEF Keys, States, Clone
  <2>b. "clone" \in K /\ \A e \in EnvNames : e \notin K
    BY DEF EnvNames
  <2> HIDE DEF K, c
  <2>1. /\ Stepped(p)
        /\ \A k \in Keys :
             /\ step[p][k] = "none" \/ k \notin K => step'[p][k] = step[p][k]
             /\ step[p][k] # "none" /\ k \in K => p \in unwritten' \/ step'[p][k] = c[k]
    BY <2>a, SetStepsIs
  <2>2. Grows /\ \A q \in Projects \ {p} : Spares(q)
    BY <2>0, <2>1 DEF At, Stepped, Spares, Grows
  <2>3. ASSUME p \notin unwritten', Settles(p)
        PROVE  Settles(p)'
    <3>1. \A e \in EnvNames : step'[p][e] = step[p][e]
      BY <2>1, <2>b, KeysAre
    <3>2. step'[p]["clone"] \in {"none", "done"}
      BY <2>1, <2>3, <2>a, <2>b
    <3>3. Unbegun(p)'
      BY <2>0, <2>3, <3>1 DEF At, Settles, Unbegun, Unmade
    <3> QED
      BY <2>0, <3>2, <3>3 DEF At, Settles, Behind, Passed, Gated, Underway, Settled
  <2> QED
    BY <2>2, <2>3, SettlesOn
<1>10. ASSUME NEW p \in Projects, CloneFails(p)
      PROVE  SettleInv'
  <2>1. /\ At(p, "except") /\ Marks(p, {"clone"}, "failed") /\ worker[p].pc = "cloning"
        /\ UNCHANGED <<project, env, deletion, overlap, touched>>
    BY <1>10, SetWorkerAt, SetStepIs DEF CloneFails, Stages, Keys, States
  <2>2. Grows /\ \A q \in Projects \ {p} : Spares(q)
    BY <2>1 DEF At, Marks, Stepped, Spares, Grows
  <2>3. ASSUME p \notin unwritten', Settles(p)
        PROVE  Settles(p)'
    <3>1. Undeployed(p)'
      BY <2>1 DEF Hands, Paged, Unmade, Undeployed
    <3> QED
      BY <2>1, <3>1 DEF At, Unmade, Settles, Behind, Gated, Unbegun, Underway, Settled
  <2> QED
    BY <2>2, <2>3, SettlesOn
<1>11. ASSUME NEW p \in Projects, Detect(p)
      PROVE  SettleInv'
  <2>1. /\ At(p, "save") /\ worker[p].pc = "detect"
        /\ UNCHANGED <<project, env, deletion, overlap, touched>>
        /\ \/ worker'[p].framework = "none" /\ UNCHANGED <<step, unwritten>>
           \/ worker'[p].framework # "none" /\ Marks(p, {"detect", "verify"}, "done")
    BY <1>11, DetectDoes DEF Detect
  <2>2. Grows /\ \A q \in Projects \ {p} : Spares(q)
    BY <2>1 DEF At, Marks, Stepped, Spares, Grows
  <2>3. ASSUME p \notin unwritten', Settles(p)
        PROVE  Settles(p)'
    <3>1. \A e \in EnvNames : step'[p][e] = step[p][e]
      BY <2>1, KeysAre DEF Marks, Prepared
    <3>2. worker'[p].framework # "none" =>
            /\ step'[p]["clone"] \in {"done", "none"}
            /\ step'[p]["detect"] \in {"done", "none"}
            /\ step'[p]["verify"] \in {"done", "none"}
      BY <2>1, <2>3 DEF Settles, Behind, Passed, Marks, Keys
    <3>3. Unbegun(p)'
      BY <2>1, <2>3, <3>1 DEF At, Settles, Unbegun, Unmade
    <3> QED
      BY <2>1, <3>2, <3>3 DEF At, Settles, Behind, Passed, Gated, Underway, Settled
  <2> QED
    BY <2>2, <2>3, SettlesOn
<1>12. ASSUME NEW p \in Projects, SaveReady(p)
      PROVE  SettleInv'
  <2>0. /\ At(p, "environments") /\ worker[p].pc = "save" /\ worker[p].framework # "none"
        /\ Importing(p) /\ "ready" \in Statuses
        /\ UNCHANGED <<step, env, deletion, overlap, touched, unwritten>>
    BY <1>12, SetWorkerAt DEF SaveReady, Stages, Importing, Statuses
  <2>1. Writes(p) /\ project'[p].status = "ready"
    BY <1>12, <2>0, SaveRowDoes DEF SaveReady
  <2>2. Grows /\ \A q \in Projects \ {p} : Spares(q)
    BY <2>0, <2>1 DEF At, Writes, Spares, Grows
  <2>3. ASSUME p \notin unwritten', Settles(p)
        PROVE  Settles(p)'
    <3>1. Unbegun(p)' /\ Gated(p)'
      BY <2>0, <2>1, <2>3 DEF At, Settles, Unbegun, Gated, Unmade
    <3> QED
      BY <2>0, <2>3, <3>1 DEF At, Settles, Behind, Passed, Underway, Settled
  <2> QED
    BY <2>2, <2>3, SettlesOn
<1>13. ASSUME NEW p \in Projects, SaveGate(p)
      PROVE  SettleInv'
  <2>0. /\ At(p, "gate") /\ worker[p].pc = "save" /\ worker[p].framework = "none"
        /\ Importing(p) /\ "failed" \in Statuses
        /\ UNCHANGED <<step, env, deletion, overlap, touched, unwritten>>
    BY <1>13, SetWorkerAt DEF SaveGate, Stages, Importing, Statuses
  <2>1. Writes(p) /\ project'[p].status = "failed"
    BY <1>13, <2>0, SaveRowDoes DEF SaveGate
  <2>2. Grows /\ \A q \in Projects \ {p} : Spares(q)
    BY <2>0, <2>1 DEF At, Writes, Spares, Grows
  <2>3. ASSUME p \notin unwritten', Settles(p)
        PROVE  Settles(p)'
    <3>1. Unbegun(p)' /\ Gated(p)'
      BY <2>0, <2>1, <2>3 DEF At, Settles, Unbegun, Gated, Unmade
    <3> QED
      BY <2>0, <2>3, <3>1 DEF At, Settles, Behind, Passed, Underway, Settled
  <2> QED
    BY <2>2, <2>3, SettlesOn
<1>14. ASSUME NEW p \in Projects, SaveRaises(p)
      PROVE  SettleInv'
  <2>1. /\ At(p, "except") /\ worker[p].pc = "save"
        /\ UNCHANGED <<project, step, env, deletion, overlap, touched, unwritten>>
    BY <1>14, SetWorkerAt DEF SaveRaises, Stages
  <2>2. Grows /\ \A q \in Projects \ {p} : Spares(q)
    BY <2>1 DEF At, Spares, Grows
  <2>3. ASSUME p \notin unwritten', Settles(p)
        PROVE  Settles(p)'
    <3>1. Undeployed(p)'
      BY <2>1 DEF Hands, Paged, Unmade, Undeployed
    <3> QED
      BY <2>1, <3>1 DEF At, Unmade, Settles, Behind, Gated, Unbegun, Underway, Settled
  <2> QED
    BY <2>2, <2>3, SettlesOn
<1>15. ASSUME NEW p \in Projects, Gate(p)
      PROVE  SettleInv'
  <2>1. /\ At(p, "ended") /\ Fails(p) /\ worker[p].pc = "gate"
        /\ UNCHANGED <<project, env, deletion, overlap, touched>>
    BY <1>15, SetWorkerAt, FailPendingIs DEF Gate, Stages
  <2>2. Grows /\ \A q \in Projects \ {p} : Spares(q)
    BY <2>1 DEF At, Fails, Stepped, Spares, Grows
  <2>3. ASSUME p \notin unwritten', Settles(p)
        PROVE  Settles(p)'
    <3>1. Undeployed(p)' /\ \A e \in EnvNames : ~Down(p, e)'
      BY <2>1 DEF Hands, Paged, Unmade, Undeployed, Down
    <3>2. \A k \in Keys : step'[p][k] \notin {"pending", "running"}
      BY <2>1, <2>3 DEF Fails
    <3>3. Settled(p)'
      BY <2>1, <2>3, <3>1, <3>2 DEF Settles, Gated, Settled, Exists
    <3> QED
      BY <2>1, <3>3 DEF At, Unmade, Settles, Behind, Gated, Unbegun, Underway
  <2> QED
    BY <2>2, <2>3, SettlesOn
<1>16. ASSUME NEW p \in Projects, MakeEnvironments(p)
      PROVE  SettleInv'
  <2>1. /\ At(p, "deploy") /\ worker'[p].todo \in {Orchestrated, Direct}
        /\ Furnishes(p) /\ Marks(p, {"provision"}, "done")
        /\ worker[p].pc = "environments" /\ UNCHANGED <<project, deletion, overlap, touched>>
    BY <1>16, MakeEnvironmentsDoes DEF MakeEnvironments
  <2>2. Grows /\ \A q \in Projects \ {p} : Spares(q)
    BY <2>1 DEF At, Furnishes, Marks, Stepped, Spares, Grows
  <2>3. ASSUME p \notin unwritten', Settles(p)
        PROVE  Settles(p)'
    <3>1. \A e \in EnvNames : step'[p][e] \in {"pending", "none"}
      BY <2>1, <2>3, KeysAre DEF Marks, Settles, Unbegun, Unmade, Prepared
    <3>2. \A e \in EnvNames : e \in Range(worker'[p].todo)
      <4>1. Range(Orchestrated) = EnvNames /\ Range(Direct) = EnvNames
        <5>1. DOMAIN Orchestrated = {1, 2} /\ DOMAIN Direct = {1, 2}
          BY DEF Orchestrated, Direct
        <5>2. Orchestrated[1] = "prod" /\ Orchestrated[2] = "staging"
              /\ Direct[1] = "staging" /\ Direct[2] = "prod"
          BY DEF Orchestrated, Direct
        <5> QED
          BY <5>1, <5>2 DEF Range, EnvNames
      <4> QED
        BY <2>1, <4>1
    <3>3. \A k \in Prepared : step'[p][k] \in {"done", "none"}
      BY <2>1, <2>3, KeysAre DEF Marks, Settles, Behind, Passed, Prepared
    <3>4. \A e \in EnvNames : ~Down(p, e)'
      <4>1. \A e \in EnvNames : env[p][e] = "none"
        BY <2>1 DEF Hands, Paged, Unmade
      <4> QED
        BY <1>16, <4>1, MakeEnvironmentsDoes DEF Down
    <3>5. Gated(p)'
      BY <2>1, <2>3 DEF At, Settles, Gated, Exists
    <3>6. Underway(p)'
      BY <3>1, <3>2, <3>4 DEF Underway
    <3> QED
      BY <2>1, <3>3, <3>5, <3>6 DEF At, Settles, Behind, Passed, Unbegun, Settled, Unmade
  <2> QED
    BY <2>2, <2>3, SettlesOn
<1>17. ASSUME NEW p \in Projects, EnvironmentsRaise(p)
      PROVE  SettleInv'
  <2>1. /\ At(p, "except") /\ Furnishes(p) /\ Stepped(p) /\ worker[p].pc = "environments"
        /\ UNCHANGED <<project, deletion, overlap, touched>>
        /\ \A e \in EnvNames : env'[p][e] = env[p][e] \/ (Exists(p) /\ env'[p][e] = "empty")
    BY <1>17, EnvironmentsRaiseDoes DEF EnvironmentsRaise
  <2>2. Grows /\ \A q \in Projects \ {p} : Spares(q)
    BY <2>1 DEF At, Furnishes, Stepped, Spares, Grows
  <2>3. ASSUME p \notin unwritten', Settles(p)
        PROVE  Settles(p)'
    <3>1. Undeployed(p)'
      BY <2>1 DEF Hands, Paged, Unmade, Undeployed
    <3> QED
      BY <2>1, <3>1 DEF At, Unmade, Settles, Behind, Gated, Unbegun, Underway, Settled
  <2> QED
    BY <2>2, <2>3, SettlesOn
<1>18. ASSUME NEW p \in Projects, ImportRaised(p)
      PROVE  SettleInv'
  <2>1. /\ At(p, "ended") /\ Fails(p) /\ Writes(p) /\ worker[p].pc = "except"
        /\ UNCHANGED <<env, deletion, overlap, touched>>
        /\ Exists(p)' => project'[p].status = "failed"
    BY <1>18, ImportRaisedDoes DEF ImportRaised, Exists
  <2>2. Grows /\ \A q \in Projects \ {p} : Spares(q)
    BY <2>1 DEF At, Fails, Stepped, Writes, Spares, Grows
  <2>3. ASSUME p \notin unwritten', Settles(p)
        PROVE  Settles(p)'
    <3>1. Untouched(p)' => Undeployed(p)' /\ \A e \in EnvNames : ~Down(p, e)'
      BY <2>1, <2>3 DEF Settles, Unbegun, Untouched, Undeployed, Down
    <3>2. \A k \in Keys : step'[p][k] \notin {"pending", "running"}
      BY <2>1, <2>3 DEF Fails
    <3>3. Settled(p)'
      BY <2>1, <3>1, <3>2 DEF Settled
    <3> QED
      BY <2>1, <3>3 DEF At, Unmade, Settles, Behind, Gated, Unbegun, Underway
  <2> QED
    BY <2>2, <2>3, SettlesOn
<1>19. ASSUME NEW p \in Projects, StartDeploy(p)
      PROVE  SettleInv'
  <2> DEFINE h == Head(worker[p].todo)
  <2>0. /\ h \in EnvNames /\ At(p, "deploying") /\ Keeps(p)
        /\ Moves(p, h) /\ Marks(p, {h}, "running")
        /\ env'[p][h] = IF env[p][h] = "none" THEN "none" ELSE "building"
    BY <1>19, StartDeployDoes
  <2>a. worker[p].todo \in Seq(EnvNames) /\ worker[p].todo # <<>>
    BY <1>19 DEF StartDeploy, Typed, Threads, Hands
  <2>b. h \in Range(worker[p].todo)
    BY <2>a, RangeIs
  <2> HIDE DEF h
  <2>1. worker[p].pc = "deploy" /\ UNCHANGED <<project, deletion, overlap, touched>>
    BY <1>19 DEF StartDeploy
  <2>2. Grows /\ \A q \in Projects \ {p} : Spares(q)
    BY <2>0, <2>1 DEF At, Moves, Furnishes, Marks, Stepped, Spares, Grows
  <2>3. ASSUME p \notin unwritten', Settles(p)
        PROVE  Settles(p)'
    <3>1. \A k \in Prepared : step'[p][k] = step[p][k]
      BY <2>0, KeysAre DEF Marks
    <3>2. \A e \in EnvNames \ {h} : step'[p][e] = step[p][e] /\ env'[p][e] = env[p][e]
      BY <2>0, KeysAre DEF Marks, Moves
    <3>3. step'[p][h] \in {"none", "running"}
      BY <2>0, <2>3, KeysAre DEF Marks
    <3>4. Underway(p)'
      <4>1. \A e \in EnvNames : step'[p][e] \in {"pending", "running"} =>
              e \in Range(worker'[p].todo) \/ <<p, e>> \in touched'
        BY <2>0, <2>1, <2>3, <2>b, <3>2 DEF Settles, Underway, Keeps
      <4>2. Exists(p)' /\ p \notin overlap' /\ Untouched(p)' => \A e \in EnvNames :
              /\ step'[p][e] = "failed" => Down(p, e)' \/ deletion'[p] # "none"
              /\ Down(p, e)' => step'[p][e] # "done"
        BY <2>1, <2>3, <3>2, <3>3 DEF Settles, Underway, Exists, Untouched, Down
      <4> QED
        BY <4>1, <4>2 DEF Underway
    <3>5. Behind(p)' /\ Gated(p)'
      BY <2>0, <2>1, <2>3, <3>1 DEF At, Settles, Behind, Gated, Passed, Exists
    <3> QED
      BY <2>0, <3>4, <3>5 DEF At, Settles, Unbegun, Settled, Unmade
  <2> QED
    BY <2>2, <2>3, SettlesOn
<1>20. ASSUME NEW p \in Projects, DeployReturns(p)
      PROVE  SettleInv'
  <2>1. worker[p].pc = "deploying" /\ UNCHANGED <<project, deletion, touched>>
    BY <1>20 DEF DeployReturns
  <2> DEFINE h == Head(worker[p].todo)
  <2>0. /\ h \in EnvNames /\ At(p, worker'[p].pc)
        /\ worker'[p].todo = Tail(worker[p].todo)
        /\ \/ worker'[p].pc = "deploy"
           \/ worker'[p].pc = "ended" /\ Len(worker[p].todo) = 1
        /\ Moves(p, h)
    BY <1>20, DeployReturnsDoes
  <2>a. worker[p].todo \in Seq(EnvNames) /\ worker[p].todo # <<>>
    BY <2>1 DEF Typed, Threads, Hands
  <2>b. Range(worker[p].todo) = {h} \union Range(worker'[p].todo)
        /\ (Len(worker[p].todo) = 1 => Range(worker[p].todo) = {h})
    BY <2>0, <2>a, RangeIs
  <2>c. /\ \/ env'[p][h] = "live" /\ Marks(p, {h}, "done")
           \/ env'[p][h] = "failed" /\ Marks(p, {h}, "failed")
        /\ deletion[p] # "none" => p \in overlap'
    BY <1>20, DeployReturnsDoes
  <2> HIDE DEF h
  <2>2. Grows /\ \A q \in Projects \ {p} : Spares(q)
    BY <2>0, <2>1, <2>c DEF At, Moves, Furnishes, Marks, Stepped, Spares, Grows
  <2>3. ASSUME p \notin unwritten', Settles(p)
        PROVE  Settles(p)'
    <3>1. /\ \A k \in Prepared : step'[p][k] = step[p][k]
          /\ \A e \in EnvNames \ {h} : step'[p][e] = step[p][e] /\ env'[p][e] = env[p][e]
      BY <2>0, <2>c, KeysAre DEF Marks, Moves
    <3>2. \/ env'[p][h] = "live" /\ step'[p][h] \in {"none", "done"}
          \/ env'[p][h] = "failed" /\ step'[p][h] \in {"none", "failed"}
      BY <2>0, <2>3, <2>c, KeysAre DEF Marks
    <3>3. \A k \in Prepared : Passed(p, k)'
      BY <2>1, <2>3, <3>1 DEF Settles, Behind, Passed
    <3>4. \A e \in EnvNames : step'[p][e] \in {"pending", "running"} =>
            (e # h /\ e \in Range(worker[p].todo)) \/ <<p, e>> \in touched
      BY <2>1, <2>3, <3>1, <3>2 DEF Settles, Underway
    <3>5. Exists(p)' /\ p \notin overlap' /\ Untouched(p)' => \A e \in EnvNames :
            /\ step'[p][e] = "failed" => Down(p, e)'
            /\ Down(p, e)' => step'[p][e] # "done"
      <4>1. Exists(p)' /\ p \notin overlap' /\ Untouched(p)' =>
              Exists(p) /\ p \notin overlap /\ Untouched(p) /\ deletion[p] = "none"
        BY <2>1, <2>2, <2>c DEF Exists, Untouched, Grows
      <4>2. Exists(p)' /\ p \notin overlap' /\ Untouched(p)' => \A e \in EnvNames :
              /\ step[p][e] = "failed" => Down(p, e)
              /\ Down(p, e) => step[p][e] # "done"
        BY <2>1, <2>3, <4>1 DEF Settles, Underway
      <4> QED
        BY <3>1, <3>2, <4>2 DEF Down
    <3>6. CASE worker'[p].pc = "deploy"
      <4>1. Behind(p)' /\ Gated(p)'
        BY <2>1, <2>3, <3>3, <3>6 DEF Settles, Behind, Gated, Exists
      <4>2. Underway(p)'
        BY <2>1, <2>b, <3>4, <3>5 DEF Underway
      <4> QED
        BY <3>6, <4>1, <4>2 DEF Settles, Unbegun, Settled, Unmade
    <3>7. CASE worker'[p].pc = "ended" /\ Len(worker[p].todo) = 1
      <4>1. \A k \in Keys : step'[p][k] \in {"pending", "running"} => <<p, k>> \in touched'
        BY <2>1, <2>b, <3>3, <3>4, <3>7, KeysAre DEF Passed
      <4>2. Exists(p)' =>
              /\ project'[p].status = "ready" /\ \A e \in EnvNames : env'[p][e] # "none"
        <5>1. Exists(p)' => project'[p].status = "ready"
          BY <2>1, <2>3 DEF Settles, Gated, Exists
        <5>2. Exists(p)' => \A e \in EnvNames : env[p][e] # "none"
          BY <2>1 DEF Hands, Paged, Exists
        <5> QED
          BY <3>1, <3>2, <5>1, <5>2
      <4>3. Settled(p)'
        BY <3>3, <3>5, <4>1, <4>2 DEF Settled
      <4> QED
        BY <3>7, <4>3 DEF Settles, Behind, Gated, Unbegun, Underway, Unmade
    <3> QED
      BY <2>0, <3>6, <3>7
  <2> QED
    BY <2>2, <2>3, SettlesOn
<1>21. ASSUME NEW p \in Projects, DeployRaises(p)
      PROVE  SettleInv'
  <2>1. worker[p].pc = "deploying" /\ UNCHANGED <<project, deletion, touched>>
    BY <1>21 DEF DeployRaises
  <2> DEFINE h == Head(worker[p].todo)
  <2>0. /\ h \in EnvNames /\ At(p, worker'[p].pc)
        /\ worker'[p].todo = Tail(worker[p].todo)
        /\ \/ worker'[p].pc = "deploy"
           \/ worker'[p].pc = "ended" /\ Len(worker[p].todo) = 1
        /\ Moves(p, h)
    BY <1>21, DeployRaisesDoes
  <2>a. worker[p].todo \in Seq(EnvNames) /\ worker[p].todo # <<>>
    BY <2>1 DEF Typed, Threads, Hands
  <2>b. Range(worker[p].todo) = {h} \union Range(worker'[p].todo)
        /\ (Len(worker[p].todo) = 1 => Range(worker[p].todo) = {h})
    BY <2>0, <2>a, RangeIs
  <2>c. env[p][h] = "none" /\ UNCHANGED env /\ p \in overlap' /\ Marks(p, {h}, "failed")
    BY <1>21, DeployRaisesDoes
  <2> HIDE DEF h
  <2>d. ~Exists(p)'
    BY <2>0, <2>1, <2>c DEF Hands, Paged, Exists
  <2>2. Grows /\ \A q \in Projects \ {p} : Spares(q)
    BY <2>0, <2>1, <2>c DEF At, Moves, Marks, Stepped, Spares, Grows
  <2>3. ASSUME p \notin unwritten', Settles(p)
        PROVE  Settles(p)'
    <3>1. /\ \A k \in Prepared : step'[p][k] = step[p][k]
          /\ \A e \in EnvNames \ {h} : step'[p][e] = step[p][e]
      BY <2>0, <2>c, KeysAre DEF Marks
    <3>2. step'[p][h] \in {"none", "failed"}
      BY <2>0, <2>3, <2>c, KeysAre DEF Marks
    <3>3. \A e \in EnvNames : step'[p][e] \in {"pending", "running"} =>
            e \in Range(worker'[p].todo) \/ <<p, e>> \in touched'
      BY <2>1, <2>3, <2>b, <3>1, <3>2 DEF Settles, Underway
    <3>4. Behind(p)'
      BY <2>0, <2>1, <2>3, <3>1 DEF Settles, Behind, Passed
    <3> QED
      BY <2>0, <2>d, <3>3, <3>4 DEF Settles, Gated, Unbegun, Underway, Settled, Unmade
  <2> QED
    BY <2>2, <2>3, SettlesOn
<1>22. ASSUME NEW p \in Projects, AskDelete(p)
      PROVE  SettleInv'
  <2>1. /\ Furnishes(p) /\ UNCHANGED <<project, step, worker, overlap, touched, unwritten>>
        /\ \A e \in EnvNames : env'[p][e] = IF env[p][e] = "none" THEN "none" ELSE "empty"
        /\ deletion'[p] = "stopped" /\ \A q \in Projects \ {p} : deletion'[q] = deletion[q]
    BY <1>22, AskDeleteDoes DEF AskDelete
  <2>2. Grows /\ \A q \in Projects \ {p} : Spares(q)
    BY <2>1 DEF Furnishes, Spares, Grows
  <2>3. ASSUME p \notin unwritten', Settles(p)
        PROVE  Settles(p)'
    <3>1. /\ Undeployed(p)' /\ \A e \in EnvNames : ~Down(p, e)'
          /\ \A e \in EnvNames : env'[p][e] # "none" <=> env[p][e] # "none"
      BY <2>1 DEF Undeployed, Down
    <3>2. Behind(p)' /\ Gated(p)' /\ Unbegun(p)'
      BY <2>1, <2>3, <3>1 DEF Settles, Behind, Passed, Gated, Unbegun, Exists
    <3>3. Underway(p)'
      BY <2>1, <2>3, <3>1 DEF Settles, Underway
    <3>4. Settled(p)'
      BY <2>1, <2>3, <3>1 DEF Settles, Settled, Exists, Passed
    <3> QED
      BY <3>2, <3>3, <3>4 DEF Settles
  <2> QED
    BY <2>2, <2>3, SettlesOn
<1>23. ASSUME NEW p \in Projects, DeleteRow(p)
      PROVE  SettleInv'
  <2>1. /\ Furnishes(p) /\ Writes(p) /\ project'[p] = NoProject
        /\ UNCHANGED <<worker, overlap, touched, unwritten>>
        /\ \A e \in EnvNames : env'[p][e] = "none"
        /\ \A k \in Keys : step'[p][k] = "none"
        /\ \A q \in Projects \ {p} : step'[q] = step[q] /\ deletion'[q] = deletion[q]
    BY <1>23, DeleteRowDoes DEF DeleteRow
  <2>2. Grows /\ \A q \in Projects \ {p} : Spares(q)
    BY <2>1 DEF Furnishes, Writes, Spares, Grows
  <2>3. ASSUME p \notin unwritten', Settles(p)
        PROVE  Settles(p)'
    <3>1. ~Exists(p)'
      BY <2>1 DEF Exists, NoProject
    <3>2. Behind(p)' /\ Unbegun(p)'
      BY <2>1, KeysAre DEF Behind, Passed, Unbegun, Undeployed, Prepared
    <3>3. Gated(p)' /\ Settled(p)'
      BY <3>1 DEF Gated, Settled
    <3>4. Underway(p)'
      BY <2>1, <3>1, KeysAre DEF Underway
    <3> QED
      BY <3>2, <3>3, <3>4 DEF Settles
  <2> QED
    BY <2>2, <2>3, SettlesOn
<1>24. ASSUME NEW r \in Runs, NEW p \in Projects, Launch(r, p)
      PROVE  SettleInv'
  BY <1>24, SparesAll DEF Launch, Spares, Grows
<1>25. ASSUME NEW r \in Runs, FinishRun(r)
      PROVE  SettleInv'
  BY <1>25, SparesAll DEF FinishRun, Spares, Grows
<1>26. ASSUME Restart
      PROVE  SettleInv'
  <2>1. UNCHANGED <<project, step, env, touched, unwritten>> /\ overlap \subseteq overlap'
    BY <1>26, RestartDoes DEF Restart
  <2> SUFFICES ASSUME NEW q \in Projects, Settles(q) PROVE Settles(q)'
    BY <2>1 DEF SettleInv
  <2>2. CASE worker'[q].pc = "lost"
    BY <2>2 DEF Settles, Behind, Gated, Unbegun, Underway, Settled, Unmade
  <2>3. CASE worker'[q] = worker[q] /\ worker[q].pc \in {"none", "ended"}
    <3>1. Untouched(q)' <=> Untouched(q)
      BY <2>1 DEF Untouched
    <3> QED
      BY <2>1, <2>3, <3>1 DEF Settles, Behind, Gated, Unbegun, Underway, Settled,
         Passed, Exists, Undeployed, Down
  <2> QED
    BY <1>26, <2>2, <2>3, RestartDoes
<1>27. ASSUME UNCHANGED vars
      PROVE  SettleInv'
  BY <1>27, SparesAll DEF vars, Spares, Grows
<1>28. ASSUME NEW p \in Projects, HandlerRaises(p)
      PROVE  SettleInv'
  <2>1. /\ At(p, "ended") /\ unwritten' = unwritten \union {p}
        /\ UNCHANGED <<project, step, env, deletion, overlap, touched>>
    BY <1>28, HandlerRaisesDoes DEF HandlerRaises
  <2>2. Grows /\ \A q \in Projects \ {p} : Spares(q)
    BY <2>1 DEF At, Spares, Grows
  <2> QED
    BY <2>1, <2>2, SettlesOn
<1>29. ASSUME NEW p \in Projects, NEW e \in EnvNames, AskDeploy(p, e)
      PROVE  SettleInv'
  <2>1. /\ Moves(p, e) /\ UNCHANGED <<project, worker, deletion>>
        /\ Stepped(p) /\ \A k \in Keys \ {e} : step'[p][k] = step[p][k]
    BY <1>29, AskDeployDoes DEF AskDeploy
  <2>2. touched \subseteq touched' /\ <<p, e>> \in touched'
    BY <1>29, AskDeployDoes
  <2>3. Grows /\ \A q \in Projects \ {p} : Spares(q)
    BY <2>1, <2>2 DEF Moves, Furnishes, Stepped, Spares, Grows
  <2>4. Settles(p) => Settles(p)'
    <3>1. \A d \in EnvNames : env'[p][d] # "none" <=> env[p][d] # "none"
      BY <2>1 DEF Moves
    <3> QED
      BY <2>1, <2>2, <2>3, <3>1, TouchedSettles
  <2> QED
    BY <2>3, <2>4, SettlesOn
<1>30. ASSUME NEW p \in Projects, NEW e \in EnvNames, RedeployReturns(p, e)
      PROVE  SettleInv'
  <2>1. /\ Moves(p, e) /\ UNCHANGED <<project, worker, deletion>>
        /\ Stepped(p) /\ \A k \in Keys \ {e} : step'[p][k] = step[p][k]
    BY <1>30, RedeployReturnsDoes DEF RedeployReturns
  <2>2. touched \subseteq touched' /\ <<p, e>> \in touched'
    BY <1>30, RedeployReturnsDoes DEF RedeployReturns, Hands, Paged
  <2>3. Grows /\ \A q \in Projects \ {p} : Spares(q)
    BY <2>1, <2>2 DEF Moves, Furnishes, Stepped, Spares, Grows
  <2>4. Settles(p) => Settles(p)'
    <3>1. \A d \in EnvNames : env'[p][d] # "none" <=> env[p][d] # "none"
      BY <2>1 DEF Moves
    <3> QED
      BY <2>1, <2>2, <2>3, <3>1, TouchedSettles
  <2> QED
    BY <2>3, <2>4, SettlesOn
<1>31. ASSUME NEW p \in Projects, NEW e \in EnvNames, AskStop(p, e)
      PROVE  SettleInv'
  <2>1. /\ Moves(p, e) /\ UNCHANGED <<project, worker, deletion>>
        /\ UNCHANGED <<step, unwritten>>
    BY <1>31, AskStopDoes DEF AskStop
  <2>2. touched \subseteq touched' /\ <<p, e>> \in touched'
    BY <1>31, AskStopDoes
  <2>3. Grows /\ \A q \in Projects \ {p} : Spares(q)
    BY <2>1, <2>2 DEF Moves, Furnishes, Stepped, Spares, Grows
  <2>4. Settles(p) => Settles(p)'
    <3>1. \A d \in EnvNames : env'[p][d] # "none" <=> env[p][d] # "none"
      BY <2>1 DEF Moves
    <3> QED
      BY <2>1, <2>2, <2>3, <3>1, TouchedSettles
  <2> QED
    BY <2>3, <2>4, SettlesOn
<1>32. ASSUME NEW p \in Projects, NEW e \in EnvNames, Dies(p, e)
      PROVE  SettleInv'
  BY <1>32, SparesAll DEF Dies, Spares, Grows
<1> QED
  BY <1>1, <1>2, <1>3, <1>4, <1>5, <1>6, <1>7, <1>8, <1>9, <1>10, <1>11,
     <1>12, <1>13, <1>14, <1>15, <1>16, <1>17, <1>18, <1>19, <1>20, <1>21,
     <1>22, <1>23, <1>24, <1>25, <1>26, <1>27, <1>28, <1>29, <1>30, <1>31,
     <1>32 DEF Next, ImportNext, FormNext, RunNext, PageNext

LEMMA SettleSays == SettleInv => ImportsSettle
<1> SUFFICES ASSUME SettleInv, NEW p \in Projects \ unwritten,
                    worker[p].pc = "ended", Exists(p)
             PROVE  /\ \A k \in Unfinished(p) : <<p, k>> \in touched
                    /\ project[p].status # "importing"
                    /\ project[p].status = "ready" =>
                         /\ \A e \in EnvNames : env[p][e] # "none"
                         /\ \A k \in Keys \ EnvNames : step[p][k] \in {"done", "none"}
                    /\ p \notin overlap /\ (\A e \in EnvNames : <<p, e>> \notin touched) =>
                         /\ HealthVerdict(p) = "live" => \A e \in EnvNames : step[p][e] # "failed"
                         /\ HealthVerdict(p) \in {"degraded", "down"} =>
                              \E e \in EnvNames : step[p][e] # "done"
  BY DEF ImportsSettle
<1>1. Settled(p)
  BY DEF SettleInv, Settles
<1>2. \A k \in Unfinished(p) : <<p, k>> \in touched
  BY <1>1 DEF Unfinished, Settled
<1>3. project[p].status # "importing"
  BY <1>1 DEF Settled
<1>4. project[p].status = "ready" =>
        /\ \A e \in EnvNames : env[p][e] # "none"
        /\ \A k \in Keys \ EnvNames : step[p][k] \in {"done", "none"}
  BY <1>1, KeysAre DEF Settled, Passed
<1>5. p \notin overlap /\ Untouched(p) /\ HealthVerdict(p) = "live" =>
        \A e \in EnvNames : step[p][e] # "failed"
  BY <1>1, VerdictIs DEF Settled, Undeployed, Down
<1>6. p \notin overlap /\ Untouched(p) /\ HealthVerdict(p) \in {"degraded", "down"} =>
        \E e \in EnvNames : step[p][e] # "done"
  BY <1>1, VerdictIs DEF Settled, Down
<1> QED
  BY <1>2, <1>3, <1>4, <1>5, <1>6 DEF Untouched

(* ImportsSettle: when an import has ended, nothing of it is pending, and  *)
(* the card and the stepper tell the same story, unless a write was missed *)
(* or, for the last part, a page deployed or stopped an environment.       *)
THEOREM ImportsEndWell == Spec => []ImportsSettle
<1>1. Init => Shape /\ SettleInv
  BY ShapeInit, SettleInit
<1>2. Shape /\ SettleInv /\ [Next]_vars => (Shape /\ SettleInv)'
  BY ShapeStep, SettleStep
<1>3. SettleInv => ImportsSettle
  BY SettleSays
<1> QED
  BY <1>1, <1>2, <1>3, PTL DEF Spec
=============================================================================
