------------------------------ MODULE Deploys ------------------------------
(***************************************************************************)
(* Deployments and their processes: deploys/services.py.                   *)
(*                                                                         *)
(* deploy() runs in a thread of some web-server process.  It creates a     *)
(* Deployment row, stops the environment's previous live deployment,       *)
(* builds, takes a port, starts the app (a subprocess in a session of its  *)
(* own, or a compose stack), polls the port until something answers and    *)
(* saves the row LIVE.  stop(), called from a page or by a later deploy(), *)
(* works on a copy of a row it read earlier.  Nothing orders these threads *)
(* among each other; the rows and the port range are all they share.       *)
(***************************************************************************)
EXTENDS Naturals, FiniteSets

CONSTANTS
  Envs,             (* environments                                          *)
  Compose,          (* those run by docker compose, docker being available   *)
  MaxDeployments,   (* Deployment rows that may be created (bound)           *)
  MaxPort,          (* HELM_PORT_START .. HELM_PORT_END is 1 .. MaxPort      *)
  Workers,          (* web-server processes sharing the database             *)
  MaxStops,         (* stop() calls of pages in progress at once (bound)     *)
  MaxDbErrors,      (* "database is locked" errors that may happen (bound)   *)
  MaxRestarts,      (* restarts of a web-server process (bound)              *)
  Nothing           (* no environment, no process, no deployment             *)

Deps  == 1 .. MaxDeployments
Ports == 1 .. MaxPort
NoPort == 0

ASSUME DeploysAssumption ==
  /\ Compose \subseteq Envs
  /\ MaxDeployments \in Nat /\ MaxPort \in Nat /\ MaxStops \in Nat
  /\ MaxDbErrors \in Nat /\ MaxRestarts \in Nat
  /\ Nothing \notin Envs \union Workers \union Deps

VARIABLES
  env,        (* Deployment.environment, Nothing before the row exists       *)
  status,     (* Deployment.status, "none" before the row exists             *)
  pidSaved,   (* Deployment.pid is set, and is the pid of its own process    *)
  port,       (* the port deploy() took for it, saved to the row with LIVE   *)
  pc,         (* what the deployment's deploy() thread does                  *)
  prev,       (* prev, the LIVE deployment that thread found                 *)
  worker,     (* the process that thread runs in                             *)
  inProcs,    (* the deployment is in _PROCS of that process                 *)
  proc,       (* its app: the subprocess, or the web container of its stack  *)
  stops,      (* stop() calls of pages in progress                           *)
  crossed,    (* history: pairs of deployments of which one began while the  *)
              (* thread or the start of the app of the other was under way   *)
  dbErrors, restarts

rowVars == <<env, status, pidSaved>>
vars == <<env, status, pidSaved, port, pc, prev, worker, inProcs, proc, stops,
          crossed, dbErrors, restarts>>

----------------------------------------------------------------------------
EarlyStages   == {"findPrev", "stopPrev", "savePrev"}
BuildStages   == {"build", "start"}
PollStages    == {"polling", "asking"}
LiveStages    == {"goLive", "announce"}
FailStages    == {"failing", "failingUp", "markFailed"}
FlightStages  == EarlyStages \union BuildStages \union PollStages
                   \union LiveStages \union FailStages
Stages        == FlightStages \union {"idle", "done", "raised", "killed"}

InFlight(d)   == pc[d] \in FlightStages

(* An app that was asked to terminate is "leaving", and answers till it does. *)
Alive(d)      == proc[d] \in {"starting", "serving", "leaving"}
Listening(d)  == proc[d] \in {"serving", "leaving"}
IsCompose(d)  == env[d] \in Compose

Goto(d, stage) == pc' = [pc EXCEPT ![d] = stage]

DbError == /\ dbErrors < MaxDbErrors
           /\ dbErrors' = dbErrors + 1

(* A page's call of stop(): the deployment, the process it runs in, and      *)
(* whether the copy of the row it read has a pid.                            *)
StopCalls == [dep : Deps, by : Workers, knows : BOOLEAN, saving : BOOLEAN]

----------------------------------------------------------------------------
Init ==
  /\ env      = [d \in Deps |-> Nothing]
  /\ status   = [d \in Deps |-> "none"]
  /\ pidSaved = [d \in Deps |-> FALSE]
  /\ port     = [d \in Deps |-> NoPort]
  /\ pc       = [d \in Deps |-> "idle"]
  /\ prev     = [d \in Deps |-> Nothing]
  /\ worker   = [d \in Deps |-> Nothing]
  /\ inProcs  = [d \in Deps |-> FALSE]
  /\ proc     = [d \in Deps |-> "none"]
  /\ stops    = {}
  /\ crossed  = {}
  /\ dbErrors = 0
  /\ restarts = 0

----------------------------------------------------------------------------
(***************************************************************************)
(* deploy().  restart() and rollback() end in a call of it, after a stop() *)
(* or an event: the interleavings of the actions below contain theirs.     *)
(***************************************************************************)

UnderWay(x) == InFlight(x) \/ proc[x] = "starting"

(* The row is created BUILDING.  Rows are numbered in the order of their   *)
(* creation, which is the order of their created_at.                       *)
Begin(w, e, d) ==
  /\ env[d] = Nothing
  /\ \A x \in Deps : x < d => env[x] # Nothing
  /\ env' = [env EXCEPT ![d] = e]
  /\ status' = [status EXCEPT ![d] = "building"]
  /\ worker' = [worker EXCEPT ![d] = w]
  /\ crossed' = crossed \union {{d, x} : x \in {y \in Deps : UnderWay(y)}}
  /\ Goto(d, "findPrev")
  /\ UNCHANGED <<pidSaved, port, prev, inProcs, proc, stops, dbErrors, restarts>>

LiveRows(e) == {x \in Deps : env[x] = e /\ status[x] = "live"}

(* Mutant: the previous deployment is left to itself.                      *)
FindPrev_Skips(d) ==
  /\ pc[d] = "findPrev"
  /\ Goto(d, "build")
  /\ UNCHANGED <<rowVars, port, prev, worker, inProcs, proc, stops, crossed,
                 dbErrors, restarts>>

(* .filter(LIVE).exclude(pk).first(), under ordering -created_at: the      *)
(* newest of them, and none but that one.                                  *)
FindPrev(d) ==
  LET others == LiveRows(env[d]) \ {d}
  IN  /\ pc[d] = "findPrev"
      /\ \/ /\ others = {}
            /\ Goto(d, "build")
            /\ UNCHANGED prev
         \/ \E x \in others :
              /\ \A y \in others : y <= x
              /\ prev' = [prev EXCEPT ![d] = x]
              /\ Goto(d, "stopPrev")
      /\ UNCHANGED <<rowVars, port, worker, inProcs, proc, stops, crossed,
                     dbErrors, restarts>>

(* The kills of stop(x) in process w.  A known pid gets SIGTERM and, two   *)
(* seconds later, SIGKILL; an entry of _PROCS only SIGTERM.  A compose     *)
(* stack has neither.                                                      *)
Killed(w, x, knows) ==
  LET registered == inProcs[x] /\ worker[x] = w
  IN  IF Alive(x) /\ (knows \/ (registered /\ proc[x] = "starting")) THEN "down"
      ELSE IF registered /\ proc[x] = "serving" THEN "leaving"
      ELSE proc[x]

StopKills(w, x, knows) ==
  /\ proc' = [proc EXCEPT ![x] = Killed(w, x, knows)]
  /\ inProcs' = [inProcs EXCEPT ![x] = @ /\ worker[x] # w]

StopPrev(d) ==
  /\ pc[d] = "stopPrev"
  /\ StopKills(worker[d], prev[d], pidSaved[prev[d]])
  /\ Goto(d, "savePrev")
  /\ UNCHANGED <<rowVars, port, prev, worker, stops, crossed, dbErrors, restarts>>

(* Mutant: the row of the stopped deployment keeps its status.             *)
SavePrev_NoSave(d) ==
  /\ pc[d] = "savePrev"
  /\ Goto(d, "build")
  /\ UNCHANGED <<rowVars, port, prev, worker, inProcs, proc, stops, crossed,
                 dbErrors, restarts>>

SavePrev(d) ==
  /\ pc[d] = "savePrev"
  /\ status' = [status EXCEPT ![prev[d]] = "stopped"]
  /\ Goto(d, "build")
  /\ UNCHANGED <<env, pidSaved, port, prev, worker, inProcs, proc, stops,
                 crossed, dbErrors, restarts>>

(* Source, venv, install, migrations: anything of it may fail, and so may  *)
(* the start of the app.                                                   *)
BuildFails(d) ==
  /\ pc[d] \in BuildStages
  /\ Goto(d, IF IsCompose(d) THEN "failingUp" ELSE "failing")
  /\ UNCHANGED <<rowVars, port, prev, worker, inProcs, proc, stops, crossed,
                 dbErrors, restarts>>

(* Mutant: whoever is not bound to a port does not have it.                *)
FreePorts_NotBound ==
  {p \in Ports : \A x \in Deps : port[x] = p => ~Listening(x)}

(* allocate_port: the lowest port that no LIVE row has and nobody is bound *)
(* to.  Without one it raises.                                             *)
FreePorts ==
  {p \in Ports : \A x \in Deps : port[x] = p =>
                                   status[x] # "live" /\ ~Listening(x)}

Allocate(d) ==
  /\ pc[d] = "build"
  /\ \E p \in FreePorts :
       /\ \A q \in FreePorts : p <= q
       /\ port' = [port EXCEPT ![d] = p]
  /\ Goto(d, "start")
  /\ UNCHANGED <<rowVars, prev, worker, inProcs, proc, stops, crossed,
                 dbErrors, restarts>>

PortTaken(d) == \E x \in Deps \ {d} : Listening(x) /\ port[x] = port[d]

(* subprocess.Popen: the app has yet to bind its port.                     *)
Spawn(d) ==
  /\ pc[d] = "start"
  /\ ~IsCompose(d)
  /\ proc' = [proc EXCEPT ![d] = "starting"]
  /\ inProcs' = [inProcs EXCEPT ![d] = TRUE]
  /\ Goto(d, "polling")
  /\ UNCHANGED <<rowVars, port, prev, worker, stops, crossed, dbErrors, restarts>>

(* docker compose up replaces the containers of the environment's stack.   *)
(* A compose deployment goes LIVE whether or not its port answers.         *)
ComposeUp(d) ==
  /\ pc[d] = "start"
  /\ IsCompose(d)
  /\ ~PortTaken(d)
  /\ proc' = [x \in Deps |-> IF x = d THEN "serving"
                             ELSE IF env[x] = env[d] /\ Alive(x) THEN "down"
                             ELSE proc[x]]
  /\ Goto(d, "goLive")
  /\ UNCHANGED <<rowVars, port, prev, worker, inProcs, stops, crossed,
                 dbErrors, restarts>>

----------------------------------------------------------------------------
(***************************************************************************)
(* _health_poll                                                            *)
(***************************************************************************)

(* popen.poll() says the process is gone ...                               *)
PollDead(d) ==
  /\ pc[d] = "polling"
  /\ ~Alive(d)
  /\ Goto(d, "failing")
  /\ UNCHANGED <<rowVars, port, prev, worker, inProcs, proc, stops, crossed,
                 dbErrors, restarts>>

(* ... or that it is there; the request comes after that.                  *)
PollAlive(d) ==
  /\ pc[d] = "polling"
  /\ Alive(d)
  /\ Goto(d, "asking")
  /\ UNCHANGED <<rowVars, port, prev, worker, inProcs, proc, stops, crossed,
                 dbErrors, restarts>>

(* Whoever listens on the port may answer.                                 *)
Answered(d) ==
  /\ pc[d] = "asking"
  /\ \E x \in Deps : Listening(x) /\ port[x] = port[d]
  /\ Goto(d, "goLive")
  /\ UNCHANGED <<rowVars, port, prev, worker, inProcs, proc, stops, crossed,
                 dbErrors, restarts>>

(* Connection refused, a timeout or a status of 500 and above.             *)
Unanswered(d) ==
  /\ pc[d] = "asking"
  /\ Goto(d, "polling")
  /\ UNCHANGED <<rowVars, port, prev, worker, inProcs, proc, stops, crossed,
                 dbErrors, restarts>>

(* Mutant: the loop leaves at its deadline only if the process is gone.    *)
PollTimesOut_Never(d) ==
  /\ pc[d] = "polling"
  /\ ~Alive(d)
  /\ Goto(d, "failing")
  /\ UNCHANGED <<rowVars, port, prev, worker, inProcs, proc, stops, crossed,
                 dbErrors, restarts>>

PollTimesOut(d) ==
  /\ pc[d] = "polling"
  /\ Goto(d, "failing")
  /\ UNCHANGED <<rowVars, port, prev, worker, inProcs, proc, stops, crossed,
                 dbErrors, restarts>>

----------------------------------------------------------------------------
(* Mutant: the save leaves out the pid.                                    *)
GoLive_NoPid(d) ==
  /\ pc[d] = "goLive"
  /\ status' = [status EXCEPT ![d] = "live"]
  /\ Goto(d, "announce")
  /\ UNCHANGED <<env, pidSaved, port, prev, worker, inProcs, proc, stops,
                 crossed, dbErrors, restarts>>

(* Saves LIVE whatever the row's status has become; only the process       *)
(* runtime has a pid to save.                                              *)
GoLive(d) ==
  /\ pc[d] = "goLive"
  /\ status' = [status EXCEPT ![d] = "live"]
  /\ pidSaved' = [pidSaved EXCEPT ![d] = ~IsCompose(d)]
  /\ Goto(d, "announce")
  /\ UNCHANGED <<env, port, prev, worker, inProcs, proc, stops, crossed,
                 dbErrors, restarts>>

(* Environment.port (which nothing reads), domain, monitor, event.         *)
Announce(d) ==
  /\ pc[d] = "announce"
  /\ Goto(d, "done")
  /\ UNCHANGED <<rowVars, port, prev, worker, inProcs, proc, stops, crossed,
                 dbErrors, restarts>>

----------------------------------------------------------------------------
(***************************************************************************)
(* What goes wrong                                                         *)
(***************************************************************************)

(* A write before the try block (log path, event) escapes deploy().        *)
StartRaises(d) ==
  /\ pc[d] = "findPrev"
  /\ DbError
  /\ Goto(d, "raised")
  /\ UNCHANGED <<rowVars, port, prev, worker, inProcs, proc, stops, crossed,
                 restarts>>

(* A write inside it.  _deploy_compose has an except block of its own.     *)
DeployRaises(d) ==
  /\ pc[d] \in EarlyStages \union BuildStages \union LiveStages
  /\ DbError
  /\ Goto(d, IF IsCompose(d) /\ pc[d] \notin EarlyStages
               THEN "failingUp" ELSE "failing")
  /\ UNCHANGED <<rowVars, port, prev, worker, inProcs, proc, stops, crossed,
                 restarts>>

(* Mutant: the half-started process is left alone.                         *)
TearDown_Leaves(d) ==
  /\ pc[d] = "failing"
  /\ inProcs' = [inProcs EXCEPT ![d] = FALSE]
  /\ Goto(d, "markFailed")
  /\ UNCHANGED <<rowVars, port, prev, worker, proc, stops, crossed, dbErrors,
                 restarts>>

TearDown(d) ==
  /\ pc[d] = "failing"
  /\ inProcs' = [inProcs EXCEPT ![d] = FALSE]
  /\ proc' = [proc EXCEPT ![d] = IF inProcs[d] /\ Alive(d) THEN "down" ELSE @]
  /\ Goto(d, "markFailed")
  /\ UNCHANGED <<rowVars, port, prev, worker, stops, crossed, dbErrors, restarts>>

MarkFailed(d) ==
  /\ pc[d] \in {"markFailed", "failingUp"}
  /\ status' = [status EXCEPT ![d] = "failed"]
  /\ Goto(d, "done")
  /\ UNCHANGED <<env, pidSaved, port, prev, worker, inProcs, proc, stops,
                 crossed, dbErrors, restarts>>

(* A write of the except block: out of deploy(), or from the inner except  *)
(* block of a compose deployment to the outer one.                         *)
FailureRaises(d) ==
  /\ pc[d] \in FailStages
  /\ DbError
  /\ Goto(d, IF pc[d] = "failingUp" THEN "failing" ELSE "raised")
  /\ UNCHANGED <<rowVars, port, prev, worker, inProcs, proc, stops, crossed,
                 restarts>>

----------------------------------------------------------------------------
(***************************************************************************)
(* stop() from a page, and the world outside                               *)
(***************************************************************************)

(* deploy_stop reads the row.                                              *)
AskStop(w, d) ==
  /\ env[d] # Nothing
  /\ Cardinality(stops) < MaxStops
  /\ stops' = stops \union
       {[dep |-> d, by |-> w, knows |-> pidSaved[d], saving |-> FALSE]}
  /\ UNCHANGED <<rowVars, port, pc, prev, worker, inProcs, proc, crossed,
                 dbErrors, restarts>>

PageKills(s) ==
  /\ ~s.saving
  /\ StopKills(s.by, s.dep, s.knows)
  /\ stops' = (stops \ {s}) \union {[s EXCEPT !.saving = TRUE]}
  /\ UNCHANGED <<rowVars, port, pc, prev, worker, crossed, dbErrors, restarts>>

PageSaves(s) ==
  /\ s.saving
  /\ status' = [status EXCEPT ![s.dep] = "stopped"]
  /\ stops' = stops \ {s}
  /\ UNCHANGED <<env, pidSaved, port, pc, prev, worker, inProcs, proc, crossed,
                 dbErrors, restarts>>

PageRaises(s) ==
  /\ s.saving
  /\ DbError
  /\ stops' = stops \ {s}
  /\ UNCHANGED <<rowVars, port, pc, prev, worker, inProcs, proc, crossed,
                 restarts>>

(* The app binds its port, or exits because somebody else has.             *)
Bind(d) ==
  /\ proc[d] = "starting"
  /\ proc' = [proc EXCEPT ![d] = IF PortTaken(d) THEN "down" ELSE "serving"]
  /\ UNCHANGED <<rowVars, port, pc, prev, worker, inProcs, stops, crossed,
                 dbErrors, restarts>>

(* It crashes, or its shutdown is over.                                    *)
Dies(d) ==
  /\ Alive(d)
  /\ proc' = [proc EXCEPT ![d] = "down"]
  /\ UNCHANGED <<rowVars, port, pc, prev, worker, inProcs, stops, crossed,
                 dbErrors, restarts>>

(* A web-server process restarts: its threads, its calls and its _PROCS    *)
(* are gone, the apps and the rows are not.                                *)
Restart(w) ==
  /\ restarts < MaxRestarts
  /\ restarts' = restarts + 1
  /\ pc' = [d \in Deps |-> IF worker[d] = w /\ InFlight(d) THEN "killed"
                                                           ELSE pc[d]]
  /\ inProcs' = [d \in Deps |-> inProcs[d] /\ worker[d] # w]
  /\ stops' = {s \in stops : s.by # w}
  /\ UNCHANGED <<rowVars, port, prev, worker, proc, crossed, dbErrors>>

----------------------------------------------------------------------------
Step(d) ==
  \/ FindPrev(d) \/ StopPrev(d) \/ SavePrev(d)
  \/ Allocate(d) \/ Spawn(d) \/ ComposeUp(d)
  \/ PollDead(d) \/ PollAlive(d) \/ Answered(d) \/ Unanswered(d)
  \/ GoLive(d) \/ Announce(d) \/ TearDown(d) \/ MarkFailed(d)

Next ==
  \/ \E w \in Workers, e \in Envs, d \in Deps : Begin(w, e, d)
  \/ \E d \in Deps :
       \/ Step(d) \/ PollTimesOut(d) \/ BuildFails(d)
       \/ StartRaises(d) \/ DeployRaises(d) \/ FailureRaises(d)
       \/ Bind(d) \/ Dies(d)
  \/ \E w \in Workers, d \in Deps : AskStop(w, d)
  \/ \E s \in stops : PageKills(s) \/ PageSaves(s) \/ PageRaises(s)
  \/ \E w \in Workers : Restart(w)

Spec == Init /\ [][Next]_vars

(* A thread takes its next step; a request of the poll ends; and the loop  *)
(* of the poll, whose head is reached again and again, leaves it once its  *)
(* deadline is over.  Nothing bounds a build, so none is assumed to end.   *)
PollStep(d)   == PollDead(d) \/ PollAlive(d)
Asked(d)      == Answered(d) \/ Unanswered(d)
Recording(d)  == GoLive(d) \/ Announce(d) \/ TearDown(d) \/ MarkFailed(d)

Fairness ==
  \A d \in Deps : /\ WF_vars(PollStep(d)) /\ WF_vars(Asked(d))
                  /\ WF_vars(Recording(d)) /\ SF_vars(PollTimesOut(d))

FairSpec == Spec /\ Fairness

----------------------------------------------------------------------------
(***************************************************************************)
(* Properties                                                              *)
(***************************************************************************)

(* Rows, threads and apps keep values of their kinds.                      *)
TypeOK ==
  /\ env \in [Deps -> Envs \union {Nothing}]
  /\ status \in [Deps -> {"none", "building", "live", "failed", "stopped"}]
  /\ pidSaved \in [Deps -> BOOLEAN]
  /\ port \in [Deps -> Ports \union {NoPort}]
  /\ pc \in [Deps -> Stages]
  /\ prev \in [Deps -> Deps \union {Nothing}]
  /\ worker \in [Deps -> Workers \union {Nothing}]
  /\ inProcs \in [Deps -> BOOLEAN]
  /\ proc \in [Deps -> {"none", "starting", "serving", "leaving", "down"}]
  /\ stops \subseteq StopCalls
  /\ crossed \in SUBSET SUBSET Deps
  /\ dbErrors \in 0 .. MaxDbErrors
  /\ restarts \in 0 .. MaxRestarts
  /\ \A d \in Deps : pc[d] = "idle" <=> env[d] = Nothing
  /\ \A d \in Deps : pc[d] \in {"stopPrev", "savePrev"} => prev[d] \in Deps

(* A deployment of the process runtime is FAILED only when its app is down *)
(* or has been told to go: whatever fails, whoever called stop() meanwhile *)
(* and took the app out of _PROCS, the except block of deploy() leaves no  *)
(* process behind a FAILED row (services.py:598-610).                      *)
FailedIsDown ==
  \A d \in Deps : status[d] = "failed" /\ ~IsCompose(d)
                    => proc[d] \in {"none", "leaving", "down"}

(* An app whose deploy() has returned and that is still meant to run can   *)
(* be stopped from its row: the row has its pid, whatever its status says. *)
(* Only a thread that died, or an except block that could not write, loses *)
(* the pid of a running app (services.py:575-582, 601-607).                *)
EveryAppIsStoppable ==
  \A d \in Deps :
    pc[d] = "done" /\ ~IsCompose(d) /\ proc[d] \in {"starting", "serving"}
      => pidSaved[d]

Raced(e) == \E x, y \in Deps : /\ x # y /\ env[x] = e /\ env[y] = e
                               /\ {x, y} \in crossed

(* Unless deploys of an environment overlapped, at most one of its rows is *)
(* LIVE: deploy() stops the previous one before it goes LIVE, over errors, *)
(* restarts and stop() calls at any moment (services.py:432-441).          *)
OneLivePerEnvironment ==
  \A e \in Envs : ~Raced(e) => \A x, y \in LiveRows(e) : x = y

(* The port of a LIVE row, which is where the proxy sends the requests of  *)
(* its environment, belongs to no other app and to no other LIVE row:      *)
(* allocate_port neither hands out the port of a LIVE row whose app has    *)
(* crashed nor one an orphan is bound to.  Only deployments under way at   *)
(* the same time can be given the same port (services.py:91-106).          *)
PortIsExclusive ==
  \A d, x \in Deps :
    /\ d # x /\ status[d] = "live" /\ port[x] = port[d]
    /\ Alive(x) \/ status[x] = "live"
    => {d, x} \in crossed

(* The proxy serves Environment.current_deployment, the newest row that is *)
(* not STOPPED, and nothing at all if that one is not LIVE.  A LIVE row is *)
(* behind a newer one only while that one's deploy() is about to stop it,  *)
(* or because that thread died just then or met an error of the database:  *)
(* no build or health check that fails has left the old app running and    *)
(* unreachable (models.py:56-60, views.py:79-92).                          *)
LiveIsVisible ==
  \A d, x \in Deps :
    /\ status[d] = "live" /\ x > d /\ env[x] = env[d] /\ ~Raced(env[d])
    /\ dbErrors = 0
    => pc[x] \in EarlyStages \union {"killed"}

(* Once it has started its app, deploy() returns, or raises, or dies with  *)
(* its process: the poll ends although the app may never bind its port,    *)
(* never answer, or die at any moment (services.py:368-390).               *)
PollEnds ==
  \A d \in Deps :
    pc[d] \in PollStages ~> pc[d] \in {"done", "raised", "killed"}
=============================================================================
