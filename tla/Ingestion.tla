----------------------------- MODULE Ingestion -----------------------------
(***************************************************************************)
(* From the output of an application to an incident: deploys/tailer.py and *)
(* the tees of deploys/services.py, which follow what a deployment writes, *)
(* and observability/services.py, which assembles tracebacks from its      *)
(* lines and opens an incident, or counts one more occurrence of an open   *)
(* one.                                                                    *)
(*                                                                         *)
(* Every server process keeps its own registers of the deployments it      *)
(* follows and its own capture buffers; the incidents are shared rows.  A  *)
(* line passes through one reader in several statements, and a traceback   *)
(* through several more.                                                   *)
(***************************************************************************)
EXTENDS Naturals, Sequences, FiniteSets, SequencesExt, FiniteSetsExt

CONSTANTS
  Deployments,   (* Deployment rows                                        *)
  Compose,       (* those that run as a compose stack                      *)
  Projects,
  ProjectOf,     (* the project of each deployment                         *)
  Workers,       (* server processes                                       *)
  Readers,       (* threads that may follow a deployment, or declare an    *)
                 (* incident; each is used once (bound)                    *)
  Scripts,       (* what each deployment may print: sequences of lines,    *)
                 (* records of their kind, the exception they name and the *)
                 (* place in the code                                      *)
  OwnPlaces,     (* places inside the source tree of a deployment          *)
  MaxDeployed,   (* deployments that are ever started (bound)              *)
  MaxCapture,    (* the safety valve of a capture: 400 lines               *)
  MaxReopens,    (* incidents that leave RESOLVED again (bound)            *)
  MaxFaults,     (* "database is locked" errors and restarts of a server   *)
                 (* process that may happen (bound)                        *)
  Nothing

LineKinds == {"start", "frame", "summary", "request", "text"}

Lines  == UNION {UNION {Range(s) : s \in Scripts[d]} : d \in Deployments}
Output == Seq(Lines)

ASSUME IngestionAssumption ==
  /\ Compose \subseteq Deployments
  /\ ProjectOf \in [Deployments -> Projects]
  /\ \A d \in Deployments : \A s \in Scripts[d] : s \in Output
  /\ \A l \in Lines : l.kind \in LineKinds
  /\ MaxDeployed \in Nat /\ MaxCapture \in Nat \ {0}
  /\ MaxReopens \in Nat /\ MaxFaults \in Nat
  /\ Nothing \notin Workers \union Deployments

VARIABLES
  row,        (* Deployment.status; "building" has no pid yet              *)
  app,        (* does the application run?                                 *)
  output,     (* what it has printed: its log file, or its container log   *)
  tailers,    (* _TAILERS of each process                                  *)
  tees,       (* _PROCS of each process: the tees it knows                 *)
  buffer,     (* _BUFFERS of each process; empty where nothing is captured *)
  thread,     (* what each reader does                                     *)
  incidents,  (* Incident rows, in the order of their creation             *)
  fed,        (* history: the lines each process took in, by deployment    *)
  lost,       (* history: the finished tracebacks that were dropped, with  *)
              (* the thread that held each and its place in the output     *)
  crossed,    (* history: signatures two threads looked up at once         *)
  collided,   (* history: projects two threads numbered at once            *)
  reopened,   (* history: signatures of incidents that left RESOLVED again *)
  faults

appVars  == <<row, app, output>>
regVars  == <<tailers, tees>>
history  == <<fed, lost, crossed, collided, reopened>>
vars == <<row, app, output, tailers, tees, buffer, thread, incidents, fed,
          lost, crossed, collided, reopened, faults>>

----------------------------------------------------------------------------
(* Threads.  A reader waits to start, waits for a line ("read"), found the *)
(* end of the file ("idle"), or takes in what is left ("drain"); with a    *)
(* line in hand it stores the line ("store"), looks for an open incident   *)
(* of the traceback the line ended ("look"), counts an occurrence ("bump") *)
(* or takes a number ("number") and creates one ("create").                *)
Resting == {"free", "gone"}
Stages  == Resting \union {"start", "read", "idle", "drain", "store", "look",
                           "bump", "number", "create"}

Free == [pc |-> "free", by |-> Nothing, dep |-> Nothing, project |-> Nothing,
         pos |-> 0, end |-> 0, done |-> <<>>, hit |-> 0, num |-> 0]

Active(r) == thread[r].pc \notin Resting

Init ==
  /\ row       = [d \in Deployments |-> "none"]
  /\ app       = [d \in Deployments |-> FALSE]
  /\ output    = [d \in Deployments |-> <<>>]
  /\ tailers   = [w \in Workers |-> {}]
  /\ tees      = [w \in Workers |-> [d \in Deployments |-> Nothing]]
  /\ buffer    = [w \in Workers |-> [d \in Deployments |-> <<>>]]
  /\ thread    = [r \in Readers |-> Free]
  /\ incidents = <<>>
  /\ fed       = [w \in Workers |-> [d \in Deployments |-> <<>>]]
  /\ lost      = {}
  /\ crossed   = {}
  /\ collided  = {}
  /\ reopened  = {}
  /\ faults    = 0

Fault == /\ faults < MaxFaults
         /\ faults' = faults + 1

----------------------------------------------------------------------------
(***************************************************************************)
(* Tracebacks                                                              *)
(***************************************************************************)

OfKind(lines, kind) == SelectSeq(lines, LAMBDA l : l.kind = kind)

(* _extract_exception: the last summary names it.  Without one the last    *)
(* line that is no frame and no heading does.                              *)
ErrorType(lines) ==
  LET summaries == OfKind(lines, "summary")
      others    == OfKind(lines, "text")
  IN  IF summaries # <<>> THEN Last(summaries).error
      ELSE IF others # <<>> THEN Last(others).error ELSE "UncaughtException"

(* _extract_suspect: the deepest frame in the source tree, else the        *)
(* deepest frame.                                                          *)
Suspect(lines) ==
  LET frames == OfKind(lines, "frame")
      own    == SelectSeq(frames, LAMBDA l : l.place \in OwnPlaces)
  IN  IF own # <<>> THEN Last(own).place
      ELSE IF frames # <<>> THEN Last(frames).place ELSE "nowhere"

(* _compute_signature, of a traceback                                      *)
Signature(lines) == <<ErrorType(lines), Suspect(lines)>>

(* Mutant: the line that closes a traceback is not part of it.             *)
Captured_NoSummary(buf, l) ==
  IF l.kind = "start" THEN [left |-> <<l>>, done |-> <<>>]
  ELSE IF buf = <<>>  THEN [left |-> <<>>, done |-> <<>>]
  ELSE IF l.kind \in {"request", "summary"} \/ Len(buf) + 1 > MaxCapture
       THEN [left |-> <<>>, done |-> buf]
       ELSE [left |-> Append(buf, l), done |-> <<>>]

(* Mutant: the valve opens one line late.                                  *)
Captured_LateValve(buf, l) ==
  IF l.kind = "start" THEN [left |-> <<l>>, done |-> <<>>]
  ELSE IF buf = <<>>  THEN [left |-> <<>>, done |-> <<>>]
  ELSE IF l.kind = "request" THEN [left |-> <<>>, done |-> buf]
  ELSE IF l.kind = "summary" \/ Len(buf) > MaxCapture
       THEN [left |-> <<>>, done |-> Append(buf, l)]
       ELSE [left |-> Append(buf, l), done |-> <<>>]

(* The state machine of ingest_line, under its lock: the capture that a    *)
(* line leaves, and the capture it finishes.                               *)
Captured(buf, l) ==
  IF l.kind = "start" THEN [left |-> <<l>>, done |-> <<>>]
  ELSE IF buf = <<>>  THEN [left |-> <<>>, done |-> <<>>]
  ELSE IF l.kind = "request" THEN [left |-> <<>>, done |-> buf]
  ELSE IF l.kind = "summary" \/ Len(buf) + 1 > MaxCapture
       THEN [left |-> <<>>, done |-> Append(buf, l)]
       ELSE [left |-> Append(buf, l), done |-> <<>>]

(* A new Incident row.  FIRING, ACKNOWLEDGED and REMEDIATING are all       *)
(* "open": nothing here tells them apart.                                  *)
Incident(p, n, s) ==
  [project |-> p, number |-> n, signature |-> s, status |-> "open",
   occurrences |-> 1]

Unresolved(s) ==
  {i \in DOMAIN incidents : incidents[i].signature = s
                            /\ incidents[i].status # "resolved"}

(* The finished tracebacks some threads hold.                              *)
Held(readers) ==
  {<<r, thread[r].pos, Signature(thread[r].done)>> :
     r \in {q \in readers : Active(q) /\ thread[q].done # <<>>}}

(* Mutant: the number counts the open incidents of the project.            *)
NextNumber_Counts(p) ==
  1 + Cardinality({i \in DOMAIN incidents :
                     incidents[i].project = p /\ incidents[i].status # "resolved"})

(* next_incident_number                                                    *)
NextNumber(p) ==
  LET mine == {i \in DOMAIN incidents : incidents[i].project = p}
  IN  IF mine = {} THEN 1
      ELSE 1 + Max({incidents[i].number : i \in mine})

----------------------------------------------------------------------------
(***************************************************************************)
(* The applications, and the deploy that follows each from its beginning   *)
(***************************************************************************)

New(d) ==
  /\ row[d] = "none"
  /\ Cardinality({e \in Deployments : row[e] # "none"}) < MaxDeployed

(* deploy: the process is spawned and its log file tailed from the start;  *)
(* the pid is saved only once the deployment is live.                      *)
Spawn(w, d, r) ==
  /\ New(d) /\ d \notin Compose
  /\ thread[r].pc = "free"
  /\ row' = [row EXCEPT ![d] = "building"]
  /\ app' = [app EXCEPT ![d] = TRUE]
  /\ tailers' = [tailers EXCEPT ![w] = @ \union {d}]
  /\ thread' = [thread EXCEPT ![r] =
         [Free EXCEPT !.pc = "read", !.by = w, !.dep = d,
                      !.project = ProjectOf[d]]]
  /\ UNCHANGED <<output, tees, buffer, incidents, history, faults>>

ComposeUp(d) ==
  /\ New(d) /\ d \in Compose
  /\ row' = [row EXCEPT ![d] = "building"]
  /\ app' = [app EXCEPT ![d] = TRUE]
  /\ UNCHANGED <<output, regVars, buffer, thread, incidents, history, faults>>

GoesLive(d) ==
  /\ row[d] = "building" /\ app[d] /\ d \notin Compose
  /\ row' = [row EXCEPT ![d] = "live"]
  /\ UNCHANGED <<app, output, regVars, buffer, thread, incidents, history, faults>>

Waiting(w, d) == [Free EXCEPT !.pc = "start", !.by = w, !.dep = d,
                              !.project = ProjectOf[d]]

(* _deploy_compose: the row is live, and a tee starts.  Nothing asks       *)
(* whether this process has one already.                                   *)
ComposeGoesLive(w, d, r) ==
  /\ row[d] = "building" /\ app[d] /\ d \in Compose
  /\ thread[r].pc = "free"
  /\ row' = [row EXCEPT ![d] = "live"]
  /\ thread' = [thread EXCEPT ![r] = Waiting(w, d)]
  /\ UNCHANGED <<app, output, regVars, buffer, incidents, history, faults>>

(* It ends: a build fails, stop() ends it, or it dies behind a live row.   *)
Exits(d) ==
  /\ app[d]
  /\ app' = [app EXCEPT ![d] = FALSE]
  /\ \E s \in IF row[d] = "building" THEN {"failed"} ELSE {"live", "stopped"} :
       row' = [row EXCEPT ![d] = s]
  /\ UNCHANGED <<output, regVars, buffer, thread, incidents, history, faults>>

Prints(d) ==
  /\ app[d]
  /\ \E s \in Scripts[d] :
       /\ Len(output[d]) < Len(s) /\ IsPrefix(output[d], s)
       /\ output' = [output EXCEPT ![d] = Append(@, s[Len(@) + 1])]
  /\ UNCHANGED <<row, app, regVars, buffer, thread, incidents, history, faults>>

----------------------------------------------------------------------------
(***************************************************************************)
(* Following                                                               *)
(***************************************************************************)

(* Is a tee this process knows still running?                              *)
TeeRuns(w, d) == tees[w][d] # Nothing /\ Active(tees[w][d])

(* ensure_tailers, of one live deployment: a page of the dashboard, or a   *)
(* request the proxy serves.  A tailer is registered at once, a tee only   *)
(* by the thread that runs it.                                             *)
Adopt(w, d, r) ==
  /\ row[d] = "live"
  /\ thread[r].pc = "free"
  /\ \/ /\ d \notin Compose /\ d \notin tailers[w]
        /\ tailers' = [tailers EXCEPT ![w] = @ \union {d}]
     \/ /\ d \in Compose /\ ~TeeRuns(w, d)
        /\ UNCHANGED tailers
  /\ thread' = [thread EXCEPT ![r] = Waiting(w, d)]
  /\ UNCHANGED <<appVars, tees, buffer, incidents, history, faults>>

(* The thread begins at the end of what was printed so far.                *)
Start(r) ==
  LET t == thread[r] IN
  /\ t.pc = "start"
  /\ thread' = [thread EXCEPT ![r].pc = "read", ![r].pos = Len(output[t.dep])]
  /\ tees' = IF t.dep \in Compose
             THEN [tees EXCEPT ![t.by][t.dep] = r] ELSE tees
  /\ UNCHANGED <<appVars, tailers, buffer, incidents, history, faults>>

(* A line is taken in: the lock is held from the look at the buffer to the *)
(* change of it.  If it finishes nothing, whether its LogLine is stored    *)
(* changes nothing here.                                                   *)
Take(r) ==
  LET t == thread[r]
      w == t.by
      d == t.dep
      l == output[d][t.pos + 1]
      c == Captured(buffer[w][d], l)
  IN
  /\ \/ t.pc \in {"read", "idle"} /\ t.pos < Len(output[d])
     \/ t.pc = "drain" /\ t.pos < t.end
  /\ buffer' = [buffer EXCEPT ![w][d] = c.left]
  /\ thread' = [thread EXCEPT ![r].pos = @ + 1, ![r].done = c.done,
                              ![r].pc = IF c.done # <<>> THEN "store"
                                        ELSE IF @ = "idle" THEN "read" ELSE @]
  /\ fed' = [fed EXCEPT ![w][d] = Append(@, l)]
  /\ UNCHANGED <<appVars, regVars, incidents, lost, crossed, collided, reopened,
                 faults>>

(* The query for the row of the deployment raises: the line is skipped.    *)
Misses(r) ==
  LET t == thread[r] IN
  /\ \/ t.pc \in {"read", "idle"} /\ t.pos < Len(output[t.dep])
     \/ t.pc = "drain" /\ t.pos < t.end
  /\ Fault
  /\ thread' = [thread EXCEPT ![r].pos = @ + 1,
                              ![r].pc = IF @ = "idle" THEN "read" ELSE @]
  /\ UNCHANGED <<appVars, regVars, buffer, incidents, history>>

(* With the line dealt with, the reader waits for the next one.            *)
Onwards(t) == [t EXCEPT !.pc   = IF t.dep = Nothing THEN "gone"
                                 ELSE IF t.end > 0 THEN "drain" ELSE "read",
                        !.done = <<>>, !.hit = 0, !.num = 0]

(* The end of the file, and ten waits later a look at the row.  Its pid is *)
(* empty until the deployment is live.                                     *)
PidAlive(d) == row[d] = "live" /\ app[d]

Idle(r) ==
  LET t == thread[r] IN
  /\ t.pc = "read" /\ t.dep \notin Compose
  /\ t.pos = Len(output[t.dep])
  /\ thread' = [thread EXCEPT ![r].pc = "idle"]
  /\ UNCHANGED <<appVars, regVars, buffer, incidents, history, faults>>

GivesUp(r) ==
  LET t == thread[r] IN
  /\ t.pc = "idle" /\ ~PidAlive(t.dep)
  /\ thread' = [thread EXCEPT ![r].pc = "drain", ![r].end = Len(output[t.dep])]
  /\ UNCHANGED <<appVars, regVars, buffer, incidents, history, faults>>

(* A tailer that took in the rest leaves the register.                     *)
Leaves(r) ==
  LET t == thread[r] IN
  /\ t.pc = "drain" /\ t.pos = t.end
  /\ thread' = [thread EXCEPT ![r].pc = "gone"]
  /\ tailers' = [tailers EXCEPT ![t.by] = @ \ {t.dep}]
  /\ UNCHANGED <<appVars, tees, buffer, incidents, history, faults>>

(* The log command of a stack that is down ends, and its tee with it.      *)
TeeEnds(r) ==
  LET t == thread[r] IN
  /\ t.pc = "read" /\ t.dep \in Compose
  /\ ~app[t.dep] /\ t.pos = Len(output[t.dep])
  /\ thread' = [thread EXCEPT ![r].pc = "gone"]
  /\ UNCHANGED <<appVars, regVars, buffer, incidents, history, faults>>

----------------------------------------------------------------------------
(***************************************************************************)
(* A line, and the traceback it finished                                   *)
(***************************************************************************)

(* The LogLine and its MetricPoints.                                       *)
Store(r) ==
  /\ thread[r].pc = "store"
  /\ thread' = [thread EXCEPT ![r].pc = "look"]
  /\ UNCHANGED <<appVars, regVars, buffer, incidents, history, faults>>

(* A statement raises: the reader goes on with the next line, and the      *)
(* traceback, which left its buffer already, is dropped.                   *)
Drops(r) ==
  LET t == thread[r] IN
  /\ t.pc \in {"store", "look", "bump", "number", "create"}
  /\ Fault
  /\ thread' = [thread EXCEPT ![r] = Onwards(t)]
  /\ lost' = lost \union Held({r})
  /\ UNCHANGED <<appVars, regVars, buffer, incidents, fed, crossed, collided,
                 reopened>>

(* Mutant: no open incident is looked for.                                 *)
Look_NoDedupe(r) ==
  /\ thread[r].pc = "look"
  /\ thread' = [thread EXCEPT ![r].pc = "number"]
  /\ UNCHANGED <<appVars, regVars, buffer, incidents, history, faults>>

(* open_or_update_incident: the oldest open incident of the signature, of  *)
(* any project.                                                            *)
Look(r) ==
  LET t    == thread[r]
      s    == Signature(t.done)
      open == Unresolved(s)
  IN
  /\ t.pc = "look"
  /\ thread' = [thread EXCEPT ![r] =
         IF open = {} THEN [t EXCEPT !.pc = "number"]
         ELSE [t EXCEPT !.pc = "bump", !.hit = Min(open)]]
  /\ crossed' = IF open = {} /\ \E q \in Readers \ {r} :
                     /\ thread[q].pc \in {"number", "create"}
                     /\ thread[q].done # <<>>
                     /\ Signature(thread[q].done) = s
                THEN crossed \union {s} ELSE crossed
  /\ UNCHANGED <<appVars, regVars, buffer, incidents, fed, lost, collided,
                 reopened, faults>>

(* The database adds one to the count.                                     *)
Bump(r) ==
  LET t == thread[r] IN
  /\ t.pc = "bump"
  /\ incidents' = [incidents EXCEPT ![t.hit].occurrences = @ + 1]
  /\ thread' = [thread EXCEPT ![r] = Onwards(t)]
  /\ UNCHANGED <<appVars, regVars, buffer, history, faults>>

Number(r) ==
  LET t == thread[r] IN
  /\ t.pc = "number"
  /\ thread' = [thread EXCEPT ![r].pc = "create",
                              ![r].num = NextNumber(t.project)]
  /\ collided' = IF \E q \in Readers \ {r} :
                      thread[q].pc = "create" /\ thread[q].project = t.project
                 THEN collided \union {t.project} ELSE collided
  /\ UNCHANGED <<appVars, regVars, buffer, incidents, fed, lost, crossed,
                 reopened, faults>>

(* An incident fires.  A declared one has a signature of its own: it       *)
(* contains the time, for which the reader stands.                         *)
Declared(r) == <<"ManualIncident", thread[r].project, r>>

Create(r) ==
  LET t == thread[r] IN
  /\ t.pc = "create"
  /\ incidents' = Append(incidents,
         Incident(t.project, t.num, IF t.done = <<>> THEN Declared(r)
                                    ELSE Signature(t.done)))
  /\ thread' = [thread EXCEPT ![r] = Onwards(t)]
  /\ UNCHANGED <<appVars, regVars, buffer, history, faults>>

(* create_manual_incident: a human declares one.                           *)
Declare(w, p, r) ==
  /\ thread[r].pc = "free"
  /\ thread' = [thread EXCEPT ![r] =
         [Free EXCEPT !.pc = "number", !.by = w, !.project = p]]
  /\ UNCHANGED <<appVars, regVars, buffer, incidents, history, faults>>

(* By the loop or a human.                                                 *)
Resolve(i) ==
  /\ incidents[i].status # "resolved"
  /\ incidents' = [incidents EXCEPT ![i].status = "resolved"]
  /\ UNCHANGED <<appVars, regVars, buffer, thread, history, faults>>

(* An open status is written, and over RESOLVED it opens the incident      *)
(* again.                                                                  *)
OpensAgain(i) ==
  /\ incidents[i].status = "resolved"
  /\ Cardinality(reopened) < MaxReopens
  /\ incidents' = [incidents EXCEPT ![i].status = "open"]
  /\ reopened' = reopened \union {incidents[i].signature}
  /\ UNCHANGED <<appVars, regVars, buffer, thread, fed, lost, crossed, collided,
                 faults>>

Reopen(i) == OpensAgain(i)

(* The acknowledge button saves ACKNOWLEDGED, and the loop as it sets out  *)
(* ACKNOWLEDGED and REMEDIATING, from a copy it read before.  Neither asks *)
(* what the status has become; one that is open stays open.                *)
Acknowledge(i) ==
  IF incidents[i].status = "resolved" THEN OpensAgain(i) ELSE UNCHANGED vars

----------------------------------------------------------------------------
(* A process is restarted: its threads, registers and buffers are gone.    *)
(* The line with which "fed" goes on finishes nothing.                     *)
Reset == [kind |-> "reset", error |-> Nothing, place |-> Nothing]

Restart(w) ==
  LET killed == {r \in Readers : Active(r) /\ thread[r].by = w} IN
  /\ Fault
  /\ thread' = [r \in Readers |-> IF r \in killed
                  THEN [thread[r] EXCEPT !.pc = "gone"] ELSE thread[r]]
  /\ lost' = lost \union Held(killed)
  /\ tailers' = [tailers EXCEPT ![w] = {}]
  /\ tees' = [tees EXCEPT ![w] = [d \in Deployments |-> Nothing]]
  /\ buffer' = [buffer EXCEPT ![w] = [d \in Deployments |-> <<>>]]
  /\ fed' = [fed EXCEPT ![w] = [d \in Deployments |-> Append(@[d], Reset)]]
  /\ UNCHANGED <<appVars, incidents, crossed, collided, reopened>>

ReaderStep(r) ==
  \/ Start(r) \/ Take(r) \/ Misses(r) \/ Idle(r) \/ GivesUp(r) \/ Leaves(r) \/ TeeEnds(r)
  \/ Store(r) \/ Drops(r) \/ Look(r) \/ Bump(r) \/ Number(r) \/ Create(r)

Next ==
  \/ \E r \in Readers : ReaderStep(r)
  \/ \E d \in Deployments : ComposeUp(d) \/ GoesLive(d) \/ Exits(d) \/ Prints(d)
  \/ \E w \in Workers, d \in Deployments, r \in Readers :
       Spawn(w, d, r) \/ ComposeGoesLive(w, d, r) \/ Adopt(w, d, r)
  \/ \E w \in Workers, p \in Projects, r \in Readers : Declare(w, p, r)
  \/ \E i \in DOMAIN incidents : Resolve(i) \/ Reopen(i) \/ Acknowledge(i)
  \/ \E w \in Workers : Restart(w)

Spec == Init /\ [][Next]_vars

----------------------------------------------------------------------------
(***************************************************************************)
(* Properties                                                              *)
(***************************************************************************)

Fed == Seq(Lines \union {Reset})

(* The type of the state; a register names deployments it may follow, and  *)
(* a buffer never outgrows the safety valve.                               *)
TypeOK ==
  /\ row \in [Deployments -> {"none", "building", "live", "failed", "stopped"}]
  /\ app \in [Deployments -> BOOLEAN]
  /\ output \in [Deployments -> Output]
  /\ tailers \in [Workers -> SUBSET (Deployments \ Compose)]
  /\ tees \in [Workers -> [Deployments -> Readers \union {Nothing}]]
  /\ buffer \in [Workers -> [Deployments -> Output]]
  /\ \A w \in Workers, d \in Deployments : Len(buffer[w][d]) <= MaxCapture
  /\ \A r \in Readers :
       /\ thread[r].pc \in Stages
       /\ thread[r].by \in Workers \union {Nothing}
       /\ thread[r].dep \in Deployments \union {Nothing}
       /\ thread[r].pos \in Nat /\ thread[r].end \in Nat
       /\ thread[r].done \in Output
       /\ thread[r].hit \in DOMAIN incidents \union {0}
       /\ thread[r].num \in Nat
  /\ \A i \in DOMAIN incidents :
       /\ incidents[i].project \in Projects
       /\ incidents[i].number \in Nat \ {0}
       /\ incidents[i].status \in {"open", "resolved"}
       /\ incidents[i].occurrences \in Nat \ {0}
  /\ fed \in [Workers -> [Deployments -> Fed]]
  /\ faults \in 0..MaxFaults

(* The tracebacks of a sequence of lines, said without a state machine: a  *)
(* heading, and the first line after it that ends one.                     *)
EndsAt(f, i, j) ==
  \/ f[j].kind \in {"request", "summary"}
  \/ j - i + 1 > MaxCapture

Tracebacks(f) ==
  {x \in (1..Len(f)) \X (1..Len(f)) :
     LET i == x[1]  j == x[2] IN
     /\ i < j /\ f[i].kind = "start" /\ EndsAt(f, i, j)
     /\ \A k \in i+1..j : f[k].kind \notin {"start", "reset"}
     /\ \A k \in i+1..j-1 : ~EndsAt(f, i, k)}

Contents(f, x) ==
  SubSeq(f, x[1], IF f[x[2]].kind = "request" THEN x[2] - 1 ELSE x[2])

Detected ==
  UNION {{<<w, d, x, Signature(Contents(fed[w][d], x))>> :
            x \in Tracebacks(fed[w][d])} : w \in Workers, d \in Deployments}

(* The occurrences of the incidents of one signature, numbered within each.*)
Counted(s) ==
  UNION {{i} \X (1..incidents[i].occurrences) :
           i \in {k \in DOMAIN incidents : incidents[k].signature = s}}

(* Every traceback that reaches a process counts once: as the first or one *)
(* more occurrence of an incident of its signature, while a thread holds   *)
(* it, or as one a failed statement or a restart dropped.  Two threads     *)
(* that count at the same time, in one process or two, lose nothing, and   *)
(* no traceback counts for the error of another (ingest_line, _LOCK and    *)
(* the F() expression).                                                    *)
EveryTracebackCounts ==
  LET reached == Detected
      pending == Held(Readers) \union lost
  IN
  \A s \in {x[4] : x \in reached} \union
          {incidents[i].signature : i \in DOMAIN incidents} :
    s[1] # "ManualIncident" =>
      Cardinality(Counted(s)) + Cardinality({x \in pending : x[3] = s})
        = Cardinality({x \in reached : x[4] = s})

(* The dashboard is promised one open incident for an error, however many  *)
(* processes see it.  There are two only where two threads looked before   *)
(* either created one, or an older one left RESOLVED again: reopened by a  *)
(* human, or acknowledged by a human or the loop after it was resolved.    *)
OneOpenPerSignature ==
  \A i, j \in DOMAIN incidents :
    /\ i # j
    /\ incidents[i].signature = incidents[j].signature
    /\ "resolved" \notin {incidents[i].status, incidents[j].status}
    => incidents[i].signature \in crossed \union reopened

(* INC-7 of a project is one incident, unless two threads took a number    *)
(* before either created its row (next_incident_number).                   *)
NumbersAreUnique ==
  \A i, j \in DOMAIN incidents :
    /\ i # j
    /\ incidents[i].project = incidents[j].project
    /\ incidents[i].number = incidents[j].number
    => incidents[i].project \in collided
=============================================================================
