------------------------------- MODULE Oncall -------------------------------
(***************************************************************************)
(* Monitors and incident response: the monitors of a deployment            *)
(* (observability/services.py, models.py), which open incidents and        *)
(* resolve their own, and the on-call side of an incident (oncall):        *)
(* routing, escalation, the actions of humans, postmortems.                *)
(*                                                                         *)
(* A pass over the monitors runs after every log line a process takes in,  *)
(* a pass over the open incidents whenever a browser polls the board: both *)
(* work on rows they read at their start, next to the forms of humans and  *)
(* to the remediation loop (module Remediation), of which only what it     *)
(* does to the rows of incidents appears.  How two readers race to open    *)
(* one incident is in module Ingestion; here one statement opens it.       *)
(***************************************************************************)
EXTENDS Signals, FiniteSets, SequencesExt, FiniteSetsExt

CONSTANTS
  Monitors,      (* Monitor rows                                           *)
  Forms,         (* what the form of a monitor may hold                    *)
  Measured,      (* the windows of points that occur                       *)
  WindowMinutes, (* the window of every monitor                            *)
  Errors,        (* signatures of the tracebacks that occur                *)
  Rules,         (* RoutingRule rows that exist, in the order of priority  *)
                 (* and id, of the organisation of the project             *)
  NewRules,      (* rules that may be added, each behind those it follows  *)
  Steps,         (* EscalationStep rows that exist                         *)
  NewSteps,      (* steps that may be added                                *)
  Rota,          (* the members of each schedule, in their order           *)
  Year, Week,    (* the calendar week                                      *)
  Evaluators,    (* threads that take in log lines                         *)
  Tickers,       (* requests that run escalation ticks                     *)
  MaxNow,        (* minutes (bound)                                        *)
  MaxMeasures,   (* changes of the signals (bound)                         *)
  MaxEvents,     (* forms of humans, runs of the remediation loop and      *)
                 (* finished tracebacks (bound)                            *)
  Nobody,        (* NULL; a monitor that is not there yet                  *)
  Deleted        (* a monitor that is there no more                        *)

Severities == 1..3   (* sev1 is the most severe                            *)

(* Monitor.Metric, and what a monitor is when it is there                  *)
Metrics  == {"error_rate", "req_rate", "throughput", "p50", "p95", "p99"}

FormRows == [metric : Metrics, comparator : Comparators, threshold : Nat,
             severity : Severities, enabled : BOOLEAN]

ASSUME OncallAssumption ==
  /\ WindowMinutes \in Nat \ {0}
  /\ Measured \subseteq Windows
  /\ \A w \in Measured : Sorted(w.latencies)
  /\ Forms \subseteq FormRows
  /\ Rules \in Seq(Range(Rules))
  /\ IsFiniteSet(Steps) /\ IsFiniteSet(NewSteps)
  /\ \A s \in Steps \union NewSteps :
       /\ s.order \in Int /\ s.after \in Int
       /\ s.schedule # Nobody => s.schedule \in DOMAIN Rota
  /\ \A s \in DOMAIN Rota : Rota[s] \in Seq(Range(Rota[s]))
  /\ Year \in Nat /\ Week \in 1..53
  /\ MaxNow \in Nat /\ MaxMeasures \in Nat /\ MaxEvents \in Nat
  /\ {Nobody, Deleted} \intersect FormRows = {} /\ Nobody # Deleted

VARIABLES
  monitor,    (* the row of each monitor                                   *)
  muted,      (* monitors whose muted_until lies in the future             *)
  window,     (* the points rollups finds                                  *)
  now,        (* the clock                                                 *)
  incidents,  (* Incident rows, in the order of their creation             *)
  escalated,  (* per incident the step_order of its "escalated" entries    *)
  postmortem, (* incidents that have a postmortem                          *)
  looping,    (* incidents the remediation loop is at work on              *)
  rules,      (* RoutingRule rows                                          *)
  steps,      (* EscalationStep rows                                       *)
  evaluator,  (* what each thread over the monitors does                   *)
  ticker,     (* what each pass over the open incidents does               *)
  raced,      (* history: incidents two ticks recorded at once             *)
  rerouted,   (* history: incidents whose route may have changed           *)
  measures,   (* how often the signals have changed                        *)
  events      (* how many of the bounded events have happened              *)

monVars  == <<monitor, muted>>
incVars  == <<incidents, escalated, postmortem, looping>>
planVars == <<rules, steps>>
history  == <<raced, rerouted>>
counts   == <<measures, events>>
vars == <<monitor, muted, window, now, incidents, escalated, postmortem, looping,
          rules, steps, evaluator, ticker, raced, rerouted, measures, events>>

----------------------------------------------------------------------------
(***************************************************************************)
(* Routing and escalation                                                  *)
(***************************************************************************)

(* breach_error_message, whose hash is the signature: the monitor and what *)
(* it compares.  Its name, its severity and the measured value are no part *)
(* of it.                                                                  *)
BreachSignature(m, f) == <<m, f.metric, f.comparator, f.threshold>>

(* route: the first rule whose floor the incident reaches and whose        *)
(* project, if it has one, is the incident's.                              *)
Matches(r, severity) == r.min >= severity /\ r.mine

Route(severity) ==
  LET hits == {n \in DOMAIN rules : Matches(rules[n], severity)}
  IN  IF hits = {} THEN Nobody ELSE rules[Min(hits)].policy

(* Mutant: the step that became due last, not the one of the highest order *)
NextStep_Latest(policy, minutes) ==
  LET due == {s \in steps : s.policy = policy /\ s.after <= minutes}
  IN  IF due = {} THEN Nobody
      ELSE CHOOSE s \in due : \A o \in due :
             s.after > o.after \/ (s.after = o.after /\ s.order >= o.order)

(* next_step: the step of the highest order of those that are due.  A step *)
(* is known here by its order; of two that share one either may be it.     *)
NextStep(policy, minutes) ==
  LET due == {s \in steps : s.policy = policy /\ s.after <= minutes}
  IN  IF due = {} THEN Nobody
      ELSE CHOOSE s \in due : \A o \in due : s.order >= o.order

(* first_oncall_user: whoever the schedule of the first step has on call.  *)
FirstOncallUser(policy) ==
  LET mine == {s \in steps : s.policy = policy}
  IN  IF mine = {} THEN Nobody
      ELSE LET first == CHOOSE s \in mine : \A o \in mine : s.order <= o.order
           IN  IF first.schedule = Nobody THEN Nobody
               ELSE CurrentOncall(Rota[first.schedule], Year, Week)

(* An incident that has just been opened: routed, and somebody paged.      *)
Opened(kind, signature, severity) ==
  [kind |-> kind, signature |-> signature, severity |-> severity,
   status |-> "firing", openedAt |-> now,
   paged |-> FirstOncallUser(Route(severity))]

Open(signature) ==
  {i \in DOMAIN incidents : /\ incidents[i].signature = signature
                            /\ incidents[i].status # "resolved"}

----------------------------------------------------------------------------
(* A pass over the monitors holds the rows it has yet to look at and those *)
(* of them that were muted when it read them, the golden signals once it   *)
(* computed them, the monitor in hand with its row, and the incident it is *)
(* about to resolve.                                                       *)
Asleep == [pc |-> "idle", todo |-> {}, mute |-> {}, seen |-> Nobody,
           hand |-> Nobody, hit |-> 0]

(* A tick: the incident it read, with its severity, and the order of the   *)
(* step it is about to record.                                             *)
Still == [pc |-> "idle", hit |-> 0, severity |-> 1, order |-> 0]

Init ==
  /\ monitor    = [m \in Monitors |-> Nobody]
  /\ muted      = {}
  /\ window     \in Measured
  /\ now        = 0
  /\ incidents  = <<>>
  /\ escalated  = <<>>
  /\ postmortem = {}
  /\ looping    = {}
  /\ rules      = Rules
  /\ steps      = Steps
  /\ evaluator  = [e \in Evaluators |-> Asleep]
  /\ ticker     = [t \in Tickers |-> Still]
  /\ raced      = {}
  /\ rerouted   = {}
  /\ measures   = 0
  /\ events     = 0

----------------------------------------------------------------------------
(***************************************************************************)
(* The world: requests come in, time passes, tracebacks are printed, the   *)
(* remediation loop takes incidents and resolves them.                     *)
(***************************************************************************)

Event == /\ events < MaxEvents
         /\ events' = events + 1
         /\ UNCHANGED measures

Measure ==
  /\ measures < MaxMeasures
  /\ measures' = measures + 1
  /\ window' \in Measured \ {window}
  /\ UNCHANGED <<monVars, now, incVars, planVars, evaluator, ticker, history, events>>

TimePasses ==
  /\ now < MaxNow
  /\ now' = now + 1
  /\ UNCHANGED <<monVars, window, incVars, planVars, evaluator, ticker, history,
                 counts>>

Create(incident) ==
  /\ incidents' = Append(incidents, incident)
  /\ escalated' = Append(escalated, <<>>)
  /\ UNCHANGED <<postmortem, looping>>

(* open_or_update_incident, of a finished traceback.  Each opens one       *)
(* incident (bound): humans reopen it.                                     *)
Traceback(x) ==
  /\ \A i \in DOMAIN incidents : incidents[i].signature # x
  /\ Event
  /\ Create(Opened("traceback", x, 2))
  /\ UNCHANGED <<monVars, window, now, planVars, evaluator, ticker, history>>

(* _run: what the loop does first ...                                      *)
Remediates(i) ==
  /\ incidents[i].status = "firing" /\ i \notin looping
  /\ Event
  /\ looping' = looping \union {i}
  /\ incidents' = [incidents EXCEPT ![i].status = "remediating"]
  /\ UNCHANGED <<monVars, window, now, escalated, postmortem, planVars, evaluator,
                 ticker, history>>

(* ... and last, whatever became of the incident in between: it is         *)
(* resolved, with a postmortem for every severity.                         *)
Remediated(i) ==
  /\ i \in looping
  /\ looping' = looping \ {i}
  /\ incidents' = [incidents EXCEPT ![i].status = "resolved"]
  /\ postmortem' = postmortem \union {i}
  /\ UNCHANGED <<monVars, window, now, escalated, planVars, evaluator, ticker,
                 history, counts>>

----------------------------------------------------------------------------
(***************************************************************************)
(* evaluate_monitors                                                       *)
(***************************************************************************)

Exists(m)  == monitor[m] \notin {Nobody, Deleted}
Enabled(m) == Exists(m) /\ monitor[m].enabled

Begin(e) ==
  /\ evaluator[e].pc = "idle"
  /\ \E m \in Monitors : Enabled(m)
  /\ evaluator' = [evaluator EXCEPT ![e] =
         [Asleep EXCEPT !.pc   = "next",
                        !.todo = {<<m, monitor[m]>> : m \in {n \in Monitors : Enabled(n)}},
                        !.mute = muted]]
  /\ UNCHANGED <<monVars, window, now, incVars, planVars, ticker, history, counts>>

(* Done with the monitor in hand                                           *)
Onwards(v) ==
  IF v.todo = {} THEN Asleep
  ELSE [v EXCEPT !.pc = "next", !.hand = Nobody, !.hit = 0]

(* One of the monitors read: a muted one is passed over.  The golden       *)
(* signals are computed once for a pass; the row compares them as it was   *)
(* when the pass began.                                                    *)
Look(e) ==
  LET v == evaluator[e] IN
  /\ v.pc = "next"
  /\ \E p \in v.todo :
       LET seen  == IF v.seen = Nobody THEN window ELSE v.seen
           f     == p[2]
           value == Rollup(seen, WindowMinutes)[f.metric]
           rest  == [v EXCEPT !.todo = @ \ {p}]
       IN  evaluator' = [evaluator EXCEPT ![e] =
             IF p[1] \in v.mute THEN Onwards(rest)
             ELSE [rest EXCEPT !.seen = seen, !.hand = p,
                     !.pc = IF Breaches(f.comparator, f.threshold, value)
                            THEN "breach" ELSE "recover"]]
  /\ UNCHANGED <<monVars, window, now, incVars, planVars, ticker, history, counts>>

(* A breach: one more occurrence of the incident of its signature, or a    *)
(* new incident.                                                           *)
Breach(e) ==
  LET v   == evaluator[e]
      sig == BreachSignature(v.hand[1], v.hand[2])
  IN
  /\ v.pc = "breach"
  /\ IF Open(sig) = {} THEN Create(Opened("breach", sig, v.hand[2].severity))
                       ELSE UNCHANGED incVars
  /\ evaluator' = [evaluator EXCEPT ![e] = Onwards(v)]
  /\ UNCHANGED <<monVars, window, now, planVars, ticker, history, counts>>

(* Mutant: any open incident will do.                                      *)
Own_Anyones(v) == {i \in DOMAIN incidents : incidents[i].status # "resolved"}

(* Mutant: an incident somebody acknowledged is left alone.                *)
Own_Firing(v) ==
  {i \in Open(BreachSignature(v.hand[1], v.hand[2])) :
     incidents[i].kind = "breach" /\ incidents[i].status = "firing"}

(* _recover_monitor: the open incidents of its own signature ...           *)
Own(v) ==
  {i \in Open(BreachSignature(v.hand[1], v.hand[2])) : incidents[i].kind = "breach"}

(* ... the oldest of which is read here and resolved in the next statement *)
(* whatever happened to it in between.  No postmortem follows.             *)
Recover(e) ==
  LET v == evaluator[e] IN
  /\ v.pc = "recover"
  /\ evaluator' = [evaluator EXCEPT ![e] =
         IF Own(v) = {} THEN Onwards(v)
         ELSE [v EXCEPT !.pc = "resolve", !.hit = Min(Own(v))]]
  /\ UNCHANGED <<monVars, window, now, incVars, planVars, ticker, history, counts>>

ResolveOwn(e) ==
  LET v == evaluator[e] IN
  /\ v.pc = "resolve"
  /\ incidents' = [incidents EXCEPT ![v.hit].status = "resolved"]
  /\ evaluator' = [evaluator EXCEPT ![e] = Onwards(v)]
  /\ UNCHANGED <<monVars, window, now, escalated, postmortem, looping, planVars,
                 ticker, history, counts>>

----------------------------------------------------------------------------
(***************************************************************************)
(* board_tick, tick                                                        *)
(***************************************************************************)

(* The row of an incident is read: the pass of the board reads them all at *)
(* its start, and works on each as the tick of a page works on one.        *)
TickStart(t, i) ==
  /\ ticker[t].pc = "idle"
  /\ incidents[i].status = "firing"
  /\ ticker' = [ticker EXCEPT ![t] =
         [Still EXCEPT !.pc = "look", !.hit = i, !.severity = incidents[i].severity]]
  /\ UNCHANGED <<monVars, window, now, incVars, planVars, evaluator, history,
                 counts>>

(* has_entry(incident, "escalated", step_order=...)                        *)
Escalated(i, order) == order \in Range(escalated[i])

(* The step that is due now, by the severity read before, unless it is on  *)
(* the timeline.                                                           *)
TickLook(t) ==
  LET k    == ticker[t]
      i    == k.hit
      step == NextStep(Route(k.severity), now - incidents[i].openedAt)
  IN
  /\ k.pc = "look"
  /\ IF step = Nobody \/ (step # Nobody /\ Escalated(i, step.order))
     THEN /\ ticker' = [ticker EXCEPT ![t] = Still]
          /\ UNCHANGED raced
     ELSE /\ ticker' = [ticker EXCEPT ![t].pc = "record", ![t].order = step.order]
          /\ raced' = IF \E o \in Tickers \ {t} :
                           ticker[o].pc = "record" /\ ticker[o].hit = i
                      THEN raced \union {i} ELSE raced
  /\ UNCHANGED <<monVars, window, now, incVars, planVars, evaluator, rerouted,
                 counts>>

TickRecord(t) ==
  LET k == ticker[t] IN
  /\ k.pc = "record"
  /\ escalated' = [escalated EXCEPT ![k.hit] = Append(@, k.order)]
  /\ ticker' = [ticker EXCEPT ![t] = Still]
  /\ UNCHANGED <<monVars, window, now, incidents, postmortem, looping, planVars,
                 evaluator, history, counts>>

----------------------------------------------------------------------------
(***************************************************************************)
(* The forms of humans                                                     *)
(***************************************************************************)

MonitorForm == Event /\ UNCHANGED <<window, now, incVars, planVars, evaluator, ticker,
                                   history>>

(* monitor_new, monitor_edit: the form holds every field but the mute.     *)
SaveMonitor(m, f) ==
  /\ monitor[m] \notin {f, Deleted}
  /\ monitor' = [monitor EXCEPT ![m] = f]
  /\ UNCHANGED muted /\ MonitorForm

Toggle(m) ==
  /\ Exists(m)
  /\ monitor' = [monitor EXCEPT ![m].enabled = ~@]
  /\ UNCHANGED muted /\ MonitorForm

Mute(m) ==
  /\ Exists(m)
  /\ muted' \in {muted \union {m}, muted \ {m}} \ {muted}
  /\ UNCHANGED monitor /\ MonitorForm

MuteExpires(m) ==
  /\ m \in muted
  /\ muted' = muted \ {m}
  /\ UNCHANGED <<monitor, window, now, incVars, planVars, evaluator, ticker, history,
                 counts>>

Delete(m) ==
  /\ Exists(m)
  /\ monitor' = [monitor EXCEPT ![m] = Deleted]
  /\ muted' = muted \ {m}
  /\ MonitorForm

IncidentForm == Event /\ UNCHANGED <<monVars, window, now, escalated, looping, planVars,
                                    evaluator, ticker, raced>>

(* ack, whatever the status                                                *)
Ack(i) ==
  /\ incidents[i].status # "acknowledged"
  /\ incidents' = [incidents EXCEPT ![i].status = "acknowledged"]
  /\ UNCHANGED <<postmortem, rerouted>> /\ IncidentForm

(* resolve, with a stub of a postmortem for sev1 and sev2                  *)
Resolve(i) ==
  /\ incidents[i].status # "resolved"
  /\ incidents' = [incidents EXCEPT ![i].status = "resolved"]
  /\ postmortem' = IF incidents[i].severity <= 2 THEN postmortem \union {i}
                                                 ELSE postmortem
  /\ UNCHANGED rerouted /\ IncidentForm

Reopen(i) ==
  /\ incidents[i].status = "resolved"
  /\ incidents' = [incidents EXCEPT ![i].status = "firing"]
  /\ UNCHANGED <<postmortem, rerouted>> /\ IncidentForm

ChangeSeverity(i) ==
  /\ \E s \in Severities \ {incidents[i].severity} :
       incidents' = [incidents EXCEPT ![i].severity = s]
  /\ rerouted' = rerouted \union {i}
  /\ UNCHANGED postmortem /\ IncidentForm

(* The form of a postmortem: there is one per incident.                    *)
WritePostmortem(i) ==
  /\ i \notin postmortem
  /\ postmortem' = postmortem \union {i}
  /\ UNCHANGED <<incidents, rerouted>> /\ IncidentForm

PlanForm == Event /\ UNCHANGED <<monVars, window, now, incVars, evaluator, ticker, raced>>

(* A rule takes its place behind those of its priority.                    *)
AddRule(r) ==
  /\ r \notin Range(rules)
  /\ rules' = InsertAt(rules,
                1 + Cardinality({n \in DOMAIN rules : rules[n].priority <= r.priority}), r)
  /\ rerouted' = rerouted \union DOMAIN incidents
  /\ UNCHANGED steps /\ PlanForm

AddStep(s) ==
  /\ s \notin steps
  /\ steps' = steps \union {s}
  /\ UNCHANGED <<rules, rerouted>> /\ PlanForm

----------------------------------------------------------------------------
EvaluatorStep(e) == Begin(e) \/ Look(e) \/ Breach(e) \/ Recover(e) \/ ResolveOwn(e)
TickerStep(t)    == \/ \E i \in DOMAIN incidents : TickStart(t, i)
                    \/ TickLook(t) \/ TickRecord(t)

Next ==
  \/ Measure \/ TimePasses
  \/ \E x \in Errors : Traceback(x)
  \/ \E e \in Evaluators : EvaluatorStep(e)
  \/ \E t \in Tickers : TickerStep(t)
  \/ \E m \in Monitors : \/ \E f \in Forms : SaveMonitor(m, f)
                         \/ Toggle(m) \/ Mute(m) \/ MuteExpires(m) \/ Delete(m)
  \/ \E i \in DOMAIN incidents :
       \/ Remediates(i) \/ Remediated(i) \/ Ack(i) \/ Resolve(i) \/ Reopen(i)
       \/ ChangeSeverity(i) \/ WritePostmortem(i)
  \/ \E r \in NewRules : AddRule(r)
  \/ \E s \in NewSteps : AddStep(s)

Spec == Init /\ [][Next]_vars

(* Log lines keep coming, each with its pass over the monitors.            *)
FairSpec == Spec /\ \A e \in Evaluators : WF_vars(EvaluatorStep(e))

----------------------------------------------------------------------------
(***************************************************************************)
(* Properties                                                              *)
(***************************************************************************)

(* The escalations on the timeline of an incident climb: no step is        *)
(* recorded twice and none after a later one, through reopened incidents,  *)
(* acknowledgements that overtake a tick and steps that are added.  Two    *)
(* ticks that work on one incident at once may break it, since the look at *)
(* the timeline and the entry are two statements (escalation.py:57-68),    *)
(* and so may a change of its route, since the entries do not say of which *)
(* policy the step was.                                                    *)
EscalationClimbs ==
  \A i \in DOMAIN incidents \ (raced \union rerouted) :
    \A a, b \in DOMAIN escalated[i] : a < b => escalated[i][a] < escalated[i][b]

(* A monitor resolves nothing but its own: what a pass resolves is a       *)
(* breach of the monitor in its hand as that was when the pass began, and  *)
(* the signals of the pass do not breach it: no traceback, no incident of  *)
(* another monitor or of what this one compared before it was edited       *)
(* (services.py:598-642).                                                  *)
RecoveryIsSurgical ==
  [][\A e \in Evaluators : \A i \in DOMAIN incidents :
       LET v == evaluator[e]
           f == v.hand[2]
       IN  v.pc = "resolve" /\ evaluator'[e] # v /\ incidents'[i] # incidents[i]
           => /\ incidents[i].kind = "breach"
              /\ incidents[i].signature = BreachSignature(v.hand[1], f)
              /\ ~Breaches(f.comparator, f.threshold,
                           Rollup(v.seen, WindowMinutes)[f.metric])]_vars

(* Quiet(m, f): monitor m has the form f, is enabled and not muted, and    *)
(* the signals do not breach it.                                           *)
Quiet(m, f) ==
  /\ monitor[m] = f /\ f.enabled /\ m \notin muted
  /\ ~Breaches(f.comparator, f.threshold, Rollup(window, WindowMinutes)[f.metric])

(* A monitor that stays quiet ends up without an open incident: one pass   *)
(* resolves only the oldest of them and several may be open, of what was   *)
(* reopened or opened by a pass that was still under way, and humans or    *)
(* the loop may change their status at any moment (services.py:686-698).   *)
QuietClears ==
  \A m \in Monitors, f \in Forms :
    <>[]Quiet(m, f) => <>[](Open(BreachSignature(m, f)) = {})
=============================================================================
