--------------------------- MODULE DeploysProofs ---------------------------
(***************************************************************************)
(* Theorems about Deploys, for any number of environments, deployments,    *)
(* ports, processes and stop() calls, and any number of errors and         *)
(* restarts.                                                               *)
(***************************************************************************)
EXTENDS Deploys, TLAPS

(* The names of stages and the abbreviations of the actions are expanded   *)
(* everywhere.                                                             *)
USE DEF rowVars, Goto, DbError,
        Stages, FlightStages, EarlyStages, BuildStages, PollStages, LiveStages,
        FailStages

LEMMA TypeInit == Init => TypeOK
BY DeploysAssumption DEF Init, TypeOK

LEMMA TypeStep == TypeOK /\ [Next]_vars => TypeOK'
<1> SUFFICES ASSUME TypeOK, [Next]_vars PROVE TypeOK'
  OBVIOUS
<1>1. ASSUME NEW w \in Workers, NEW e \in Envs, NEW d \in Deps, Begin(w, e, d)
      PROVE  TypeOK'
  BY <1>1, DeploysAssumption DEF TypeOK, Begin
<1>2. ASSUME NEW d \in Deps, FindPrev(d)
      PROVE  TypeOK'
  BY <1>2 DEF TypeOK, FindPrev, LiveRows
<1>3. ASSUME NEW d \in Deps, StopPrev(d)
      PROVE  TypeOK'
  BY <1>3 DEF TypeOK, StopPrev, StopKills, Killed
<1>4. ASSUME NEW d \in Deps, SavePrev(d)
      PROVE  TypeOK'
  BY <1>4 DEF TypeOK, SavePrev
<1>5. ASSUME NEW d \in Deps, Allocate(d)
      PROVE  TypeOK'
  BY <1>5 DEF TypeOK, Allocate, FreePorts
<1>6. ASSUME NEW d \in Deps, Spawn(d)
      PROVE  TypeOK'
  BY <1>6 DEF TypeOK, Spawn
<1>7. ASSUME NEW d \in Deps, ComposeUp(d)
      PROVE  TypeOK'
  BY <1>7 DEF TypeOK, ComposeUp
<1>8. ASSUME NEW d \in Deps, PollDead(d)
      PROVE  TypeOK'
  BY <1>8 DEF TypeOK, PollDead
<1>9. ASSUME NEW d \in Deps, PollAlive(d)
      PROVE  TypeOK'
  BY <1>9 DEF TypeOK, PollAlive
<1>10. ASSUME NEW d \in Deps, Answered(d)
      PROVE  TypeOK'
  BY <1>10 DEF TypeOK, Answered
<1>11. ASSUME NEW d \in Deps, Unanswered(d)
      PROVE  TypeOK'
  BY <1>11 DEF TypeOK, Unanswered
<1>12. ASSUME NEW d \in Deps, GoLive(d)
      PROVE  TypeOK'
  BY <1>12 DEF TypeOK, GoLive
<1>13. ASSUME NEW d \in Deps, Announce(d)
      PROVE  TypeOK'
  BY <1>13 DEF TypeOK, Announce
<1>14. ASSUME NEW d \in Deps, TearDown(d)
      PROVE  TypeOK'
  BY <1>14 DEF TypeOK, TearDown
<1>15. ASSUME NEW d \in Deps, MarkFailed(d)
      PROVE  TypeOK'
  BY <1>15 DEF TypeOK, MarkFailed
<1>16. ASSUME NEW d \in Deps, PollTimesOut(d)
      PROVE  TypeOK'
  BY <1>16 DEF TypeOK, PollTimesOut
<1>17. ASSUME NEW d \in Deps, BuildFails(d)
      PROVE  TypeOK'
  BY <1>17 DEF TypeOK, BuildFails
<1>18. ASSUME NEW d \in Deps, StartRaises(d)
      PROVE  TypeOK'
  BY <1>18, DeploysAssumption DEF TypeOK, StartRaises
<1>19. ASSUME NEW d \in Deps, DeployRaises(d)
      PROVE  TypeOK'
  BY <1>19, DeploysAssumption DEF TypeOK, DeployRaises
<1>20. ASSUME NEW d \in Deps, FailureRaises(d)
      PROVE  TypeOK'
  BY <1>20, DeploysAssumption DEF TypeOK, FailureRaises
<1>21. ASSUME NEW d \in Deps, Bind(d)
      PROVE  TypeOK'
  BY <1>21 DEF TypeOK, Bind
<1>22. ASSUME NEW d \in Deps, Dies(d)
      PROVE  TypeOK'
  BY <1>22 DEF TypeOK, Dies
<1>23. ASSUME NEW w \in Workers, NEW d \in Deps, AskStop(w, d)
      PROVE  TypeOK'
  <2>1. [dep |-> d, by |-> w, knows |-> pidSaved[d], saving |-> FALSE]
          \in StopCalls
    BY <1>23, Zenon DEF TypeOK, StopCalls
  <2> QED
    BY <1>23, <2>1 DEF TypeOK, AskStop
<1>24. ASSUME NEW s \in stops, PageKills(s)
      PROVE  TypeOK'
  BY <1>24 DEF TypeOK, PageKills, StopKills, Killed, StopCalls
<1>25. ASSUME NEW s \in stops, PageSaves(s)
      PROVE  TypeOK'
  BY <1>25 DEF TypeOK, PageSaves, StopCalls
<1>26. ASSUME NEW s \in stops, PageRaises(s)
      PROVE  TypeOK'
  BY <1>26, DeploysAssumption DEF TypeOK, PageRaises, StopCalls
<1>27. ASSUME NEW w \in Workers, Restart(w)
      PROVE  TypeOK'
  BY <1>27, DeploysAssumption DEF TypeOK, Restart, InFlight
<1>28. CASE UNCHANGED vars
  BY <1>28 DEF TypeOK, vars
<1> QED
  BY <1>1, <1>2, <1>3, <1>4, <1>5, <1>6, <1>7, <1>8, <1>9, <1>10, <1>11,
       <1>12, <1>13, <1>14, <1>15, <1>16, <1>17, <1>18, <1>19, <1>20, <1>21,
       <1>22, <1>23, <1>24, <1>25, <1>26, <1>27, <1>28
  DEF Next, Step

(* Rows, threads and apps keep values of their kinds.                      *)
THEOREM TypeCorrect == Spec => []TypeOK
<1>1. Init => TypeOK
  BY TypeInit
<1>2. TypeOK /\ [Next]_vars => TypeOK'
  BY TypeStep
<1> QED
  BY <1>1, <1>2, PTL DEF Spec

----------------------------------------------------------------------------
(***************************************************************************)
(* Processes and their rows.  An app runs only from its start on; while    *)
(* deploy() is at work it is in _PROCS unless somebody has told it to go;  *)
(* and once deploy() has returned, its pid is in the row.                  *)
(***************************************************************************)

Runs(d)  == proc[d] \in {"starting", "serving"}

AppInv ==
  \A d \in Deps :
    /\ pc[d] \in {"idle"} \union EarlyStages \union BuildStages
         => proc[d] = "none"
    /\ pc[d] \in PollStages \union LiveStages \union {"failing"}
         => IsCompose(d) \/ ~Runs(d) \/ inProcs[d]
    /\ pc[d] = "announce" => IsCompose(d) \/ pidSaved[d]
    /\ pc[d] = "markFailed" => IsCompose(d) \/ ~Runs(d)
    /\ pc[d] = "failingUp" => IsCompose(d)
    /\ pc[d] = "done" => IsCompose(d) \/ ~Runs(d) \/ pidSaved[d]
    /\ status[d] = "failed" => pc[d] = "done" /\ (IsCompose(d) \/ ~Runs(d))

LEMMA AppInit == Init => AppInv
BY DEF Init, AppInv, Runs

LEMMA AppStep == TypeOK /\ AppInv /\ [Next]_vars => AppInv'
<1> SUFFICES ASSUME TypeOK /\ AppInv, [Next]_vars PROVE AppInv'
  OBVIOUS
<1>1. ASSUME NEW w \in Workers, NEW e \in Envs, NEW d \in Deps, Begin(w, e, d)
      PROVE  AppInv'
  BY <1>1, DeploysAssumption DEF TypeOK, AppInv, IsCompose, Runs, Alive, Begin
<1>2. ASSUME NEW d \in Deps, FindPrev(d)
      PROVE  AppInv'
  BY <1>2 DEF TypeOK, AppInv, IsCompose, Runs, Alive, FindPrev, LiveRows
<1>3. ASSUME NEW d \in Deps, StopPrev(d)
      PROVE  AppInv'
  BY <1>3 DEF TypeOK, AppInv, IsCompose, Runs, Alive, StopPrev, StopKills,
       Killed
<1>4. ASSUME NEW d \in Deps, SavePrev(d)
      PROVE  AppInv'
  BY <1>4 DEF TypeOK, AppInv, IsCompose, Runs, Alive, SavePrev
<1>5. ASSUME NEW d \in Deps, Allocate(d)
      PROVE  AppInv'
  BY <1>5 DEF TypeOK, AppInv, IsCompose, Runs, Alive, Allocate, FreePorts
<1>6. ASSUME NEW d \in Deps, Spawn(d)
      PROVE  AppInv'
  BY <1>6 DEF TypeOK, AppInv, IsCompose, Runs, Alive, Spawn
<1>7. ASSUME NEW d \in Deps, ComposeUp(d)
      PROVE  AppInv'
  BY <1>7 DEF TypeOK, AppInv, IsCompose, Runs, Alive, ComposeUp
<1>8. ASSUME NEW d \in Deps, PollDead(d)
      PROVE  AppInv'
  BY <1>8 DEF TypeOK, AppInv, IsCompose, Runs, Alive, PollDead
<1>9. ASSUME NEW d \in Deps, PollAlive(d)
      PROVE  AppInv'
  BY <1>9 DEF TypeOK, AppInv, IsCompose, Runs, Alive, PollAlive
<1>10. ASSUME NEW d \in Deps, Answered(d)
      PROVE  AppInv'
  BY <1>10 DEF TypeOK, AppInv, IsCompose, Runs, Alive, Answered
<1>11. ASSUME NEW d \in Deps, Unanswered(d)
      PROVE  AppInv'
  BY <1>11 DEF TypeOK, AppInv, IsCompose, Runs, Alive, Unanswered
<1>12. ASSUME NEW d \in Deps, GoLive(d)
      PROVE  AppInv'
  <2>1. /\ pidSaved'[d] = ~IsCompose(d)
        /\ \A x \in Deps \ {d} : pidSaved'[x] = pidSaved[x]
    BY <1>12 DEF TypeOK, GoLive
  <2>2. /\ pc[d] = "goLive" /\ pc' = [pc EXCEPT ![d] = "announce"]
        /\ status' = [status EXCEPT ![d] = "live"]
        /\ UNCHANGED <<env, proc, inProcs>>
    BY <1>12 DEF GoLive
  <2>3. ASSUME NEW x \in Deps \ {d}
        PROVE  /\ pc'[x] = pc[x] /\ status'[x] = status[x] /\ proc'[x] = proc[x]
               /\ env'[x] = env[x] /\ inProcs'[x] = inProcs[x]
    BY <2>2 DEF TypeOK
  <2>4. /\ pc'[d] = "announce" /\ status'[d] = "live"
        /\ IsCompose(d)' \/ pidSaved'[d]
        /\ IsCompose(d)' \/ ~Runs(d)' \/ inProcs'[d]
    <3>1. /\ IsCompose(d)' = IsCompose(d) /\ Runs(d)' = Runs(d)
          /\ inProcs'[d] = inProcs[d]
      BY <2>2 DEF IsCompose, Runs
    <3>2. IsCompose(d) \/ ~Runs(d) \/ inProcs[d]
      BY <2>2 DEF AppInv
    <3> QED
      BY <2>1, <2>2, <3>1, <3>2 DEF TypeOK
  <2> QED
    BY <2>1, <2>3, <2>4
    DEF AppInv, IsCompose, Runs
<1>13. ASSUME NEW d \in Deps, Announce(d)
      PROVE  AppInv'
  BY <1>13 DEF TypeOK, AppInv, IsCompose, Runs, Alive, Announce
<1>14. ASSUME NEW d \in Deps, TearDown(d)
      PROVE  AppInv'
  BY <1>14 DEF TypeOK, AppInv, IsCompose, Runs, Alive, TearDown
<1>15. ASSUME NEW d \in Deps, MarkFailed(d)
      PROVE  AppInv'
  BY <1>15 DEF TypeOK, AppInv, IsCompose, Runs, Alive, MarkFailed
<1>16. ASSUME NEW d \in Deps, PollTimesOut(d)
      PROVE  AppInv'
  BY <1>16 DEF TypeOK, AppInv, IsCompose, Runs, Alive, PollTimesOut
<1>17. ASSUME NEW d \in Deps, BuildFails(d)
      PROVE  AppInv'
  BY <1>17 DEF TypeOK, AppInv, IsCompose, Runs, Alive, BuildFails
<1>18. ASSUME NEW d \in Deps, StartRaises(d)
      PROVE  AppInv'
  BY <1>18, DeploysAssumption DEF TypeOK, AppInv, IsCompose, Runs, Alive,
       StartRaises
<1>19. ASSUME NEW d \in Deps, DeployRaises(d)
      PROVE  AppInv'
  BY <1>19, DeploysAssumption DEF TypeOK, AppInv, IsCompose, Runs, Alive,
       DeployRaises
<1>20. ASSUME NEW d \in Deps, FailureRaises(d)
      PROVE  AppInv'
  BY <1>20, DeploysAssumption DEF TypeOK, AppInv, IsCompose, Runs, Alive,
       FailureRaises
<1>21. ASSUME NEW d \in Deps, Bind(d)
      PROVE  AppInv'
  BY <1>21 DEF TypeOK, AppInv, IsCompose, Runs, Alive, Bind
<1>22. ASSUME NEW d \in Deps, Dies(d)
      PROVE  AppInv'
  BY <1>22 DEF TypeOK, AppInv, IsCompose, Runs, Alive, Dies
<1>23. ASSUME NEW w \in Workers, NEW d \in Deps, AskStop(w, d)
      PROVE  AppInv'
  BY <1>23 DEF TypeOK, AppInv, IsCompose, Runs, Alive, AskStop, StopCalls
<1>24. ASSUME NEW s \in stops, PageKills(s)
      PROVE  AppInv'
  BY <1>24 DEF TypeOK, AppInv, IsCompose, Runs, Alive, PageKills, StopKills,
       Killed, StopCalls
<1>25. ASSUME NEW s \in stops, PageSaves(s)
      PROVE  AppInv'
  BY <1>25 DEF TypeOK, AppInv, IsCompose, Runs, Alive, PageSaves, StopCalls
<1>26. ASSUME NEW s \in stops, PageRaises(s)
      PROVE  AppInv'
  BY <1>26, DeploysAssumption DEF TypeOK, AppInv, IsCompose, Runs, Alive,
       PageRaises, StopCalls
<1>27. ASSUME NEW w \in Workers, Restart(w)
      PROVE  AppInv'
  BY <1>27, DeploysAssumption DEF TypeOK, AppInv, IsCompose, Runs, Alive,
       Restart, InFlight
<1>28. CASE UNCHANGED vars
  BY <1>28 DEF TypeOK, AppInv, IsCompose, Runs, Alive, vars
<1> QED
  BY <1>1, <1>2, <1>3, <1>4, <1>5, <1>6, <1>7, <1>8, <1>9, <1>10, <1>11,
       <1>12, <1>13, <1>14, <1>15, <1>16, <1>17, <1>18, <1>19, <1>20, <1>21,
       <1>22, <1>23, <1>24, <1>25, <1>26, <1>27, <1>28
  DEF Next, Step

LEMMA AppsInvariant == Spec => [](TypeOK /\ AppInv)
<1>1. Init => AppInv
  BY AppInit
<1>2. TypeOK /\ AppInv /\ [Next]_vars => AppInv'
  BY AppStep
<1> QED
  BY <1>1, <1>2, TypeCorrect, PTL DEF Spec

(* No process is left behind a FAILED row: the except block of deploy()    *)
(* finds the app in _PROCS unless somebody has told it to go.              *)
THEOREM AppsCorrect == Spec => []FailedIsDown
<1>1. TypeOK /\ AppInv => FailedIsDown
  BY DEF TypeOK, AppInv, Runs, FailedIsDown
<1> QED
  BY <1>1, AppsInvariant, PTL

(* An app that outlives its deploy() can be stopped from its row: the row  *)
(* got the pid with LIVE, or the app was told to go.                       *)
THEOREM StoppableCorrect == Spec => []EveryAppIsStoppable
<1>1. AppInv => EveryAppIsStoppable
  BY DEF AppInv, Runs, EveryAppIsStoppable
<1> QED
  BY <1>1, AppsInvariant, PTL

----------------------------------------------------------------------------
(***************************************************************************)
(* Two deployments that did not cross: the older one was over when the     *)
(* newer one began, and what is over stays over.                           *)
(***************************************************************************)

Begun(d)        == env[d] # Nothing
Apart(d, x)     == d < x /\ Begun(x) /\ {d, x} \notin crossed

OrderInv ==
  \A d, x \in Deps :
    /\ d < x /\ Begun(x) => Begun(d)
    /\ Apart(d, x) => ~UnderWay(d)

LEMMA OrderInit == Init => OrderInv
BY DEF Init, OrderInv, Begun, Apart

(* Whoever is under way when a deployment begins has crossed it.           *)
LEMMA BeginCrosses ==
  ASSUME NEW w \in Workers, NEW e \in Envs, NEW d \in Deps, Begin(w, e, d)
  PROVE  /\ \A y, z \in Deps : {y, z} \in crossed => {y, z} \in crossed'
         /\ \A y \in Deps : UnderWay(y) => {y, d} \in crossed'
<1>1. crossed' = crossed \union {{d, x} : x \in {y \in Deps : UnderWay(y)}}
  BY DEF Begin
<1>2. ASSUME NEW y \in Deps, UnderWay(y)
      PROVE  {y, d} \in crossed'
  <2>1. {d, y} \in crossed'
    BY <1>1, <1>2
  <2>2. {d, y} = {y, d}
    OBVIOUS
  <2> QED
    BY <2>1, <2>2
<1> QED
  BY <1>1, <1>2

LEMMA OrderStep == TypeOK /\ OrderInv /\ [Next]_vars => OrderInv'
<1> SUFFICES ASSUME TypeOK /\ OrderInv, [Next]_vars PROVE OrderInv'
  OBVIOUS
<1>1. ASSUME NEW w \in Workers, NEW e \in Envs, NEW d \in Deps, Begin(w, e, d)
      PROVE  OrderInv'
  <2>1. /\ Begun(d)' /\ ~Begun(d) /\ \A x \in Deps : x < d => Begun(x)
        /\ \A x \in Deps : x # d => (Begun(x)' <=> Begun(x))
        /\ \A x \in Deps : x # d => (UnderWay(x)' <=> UnderWay(x))
    BY <1>1, DeploysAssumption DEF TypeOK, Begin, Begun, UnderWay, InFlight
  <2>2. \A x, y \in Deps : x < y => x # y
    BY DeploysAssumption DEF Deps
  <2>3. ASSUME NEW x \in Deps, NEW y \in Deps, x < y, Begun(y)'
        PROVE  Begun(x)'
    BY <2>1, <2>2, <2>3 DEF OrderInv
  <2>4. ASSUME NEW x \in Deps, NEW y \in Deps, Apart(x, y)'
        PROVE  ~UnderWay(x)'
    <3>1. x < y /\ Begun(y)' /\ {x, y} \notin crossed'
      BY <2>4 DEF Apart
    <3>2. CASE y = d
      <4>1. ~UnderWay(x)
        BY <3>1, <3>2, <1>1, BeginCrosses
      <4> QED
        BY <4>1, <3>1, <3>2, <2>1, <2>2
    <3>3. CASE y # d
      <4>1. Begun(y) /\ Begun(x)
        BY <3>1, <3>3, <2>1 DEF OrderInv
      <4>2. {x, y} \notin crossed
        BY <3>1, <1>1, BeginCrosses
      <4>3. ~UnderWay(x) /\ x # d
        BY <4>1, <4>2, <3>1, <2>1 DEF OrderInv, Apart
      <4> QED
        BY <4>3, <2>1
    <3> QED
      BY <3>2, <3>3
  <2> QED
    BY <2>3, <2>4 DEF OrderInv
<1>2. ASSUME NEW d \in Deps, FindPrev(d)
      PROVE  OrderInv'
  BY <1>2 DEF TypeOK, OrderInv, Begun, Apart, UnderWay, InFlight, FindPrev,
       LiveRows
<1>3. ASSUME NEW d \in Deps, StopPrev(d)
      PROVE  OrderInv'
  BY <1>3 DEF TypeOK, OrderInv, Begun, Apart, UnderWay, InFlight, StopPrev,
       StopKills, Killed
<1>4. ASSUME NEW d \in Deps, SavePrev(d)
      PROVE  OrderInv'
  BY <1>4 DEF TypeOK, OrderInv, Begun, Apart, UnderWay, InFlight, SavePrev
<1>5. ASSUME NEW d \in Deps, Allocate(d)
      PROVE  OrderInv'
  BY <1>5 DEF TypeOK, OrderInv, Begun, Apart, UnderWay, InFlight, Allocate,
       FreePorts
<1>6. ASSUME NEW d \in Deps, Spawn(d)
      PROVE  OrderInv'
  BY <1>6 DEF TypeOK, OrderInv, Begun, Apart, UnderWay, InFlight, Spawn
<1>7. ASSUME NEW d \in Deps, ComposeUp(d)
      PROVE  OrderInv'
  BY <1>7 DEF TypeOK, OrderInv, Begun, Apart, UnderWay, InFlight, ComposeUp
<1>8. ASSUME NEW d \in Deps, PollDead(d)
      PROVE  OrderInv'
  BY <1>8 DEF TypeOK, OrderInv, Begun, Apart, UnderWay, InFlight, PollDead
<1>9. ASSUME NEW d \in Deps, PollAlive(d)
      PROVE  OrderInv'
  BY <1>9 DEF TypeOK, OrderInv, Begun, Apart, UnderWay, InFlight, PollAlive
<1>10. ASSUME NEW d \in Deps, Answered(d)
      PROVE  OrderInv'
  BY <1>10 DEF TypeOK, OrderInv, Begun, Apart, UnderWay, InFlight, Answered
<1>11. ASSUME NEW d \in Deps, Unanswered(d)
      PROVE  OrderInv'
  BY <1>11 DEF TypeOK, OrderInv, Begun, Apart, UnderWay, InFlight, Unanswered
<1>12. ASSUME NEW d \in Deps, GoLive(d)
      PROVE  OrderInv'
  BY <1>12 DEF TypeOK, OrderInv, Begun, Apart, UnderWay, InFlight, GoLive
<1>13. ASSUME NEW d \in Deps, Announce(d)
      PROVE  OrderInv'
  BY <1>13 DEF TypeOK, OrderInv, Begun, Apart, UnderWay, InFlight, Announce
<1>14. ASSUME NEW d \in Deps, TearDown(d)
      PROVE  OrderInv'
  BY <1>14 DEF TypeOK, OrderInv, Begun, Apart, UnderWay, InFlight, TearDown
<1>15. ASSUME NEW d \in Deps, MarkFailed(d)
      PROVE  OrderInv'
  BY <1>15 DEF TypeOK, OrderInv, Begun, Apart, UnderWay, InFlight, MarkFailed
<1>16. ASSUME NEW d \in Deps, PollTimesOut(d)
      PROVE  OrderInv'
  BY <1>16 DEF TypeOK, OrderInv, Begun, Apart, UnderWay, InFlight, PollTimesOut
<1>17. ASSUME NEW d \in Deps, BuildFails(d)
      PROVE  OrderInv'
  BY <1>17 DEF TypeOK, OrderInv, Begun, Apart, UnderWay, InFlight, BuildFails
<1>18. ASSUME NEW d \in Deps, StartRaises(d)
      PROVE  OrderInv'
  BY <1>18, DeploysAssumption DEF TypeOK, OrderInv, Begun, Apart, UnderWay,
       InFlight, StartRaises
<1>19. ASSUME NEW d \in Deps, DeployRaises(d)
      PROVE  OrderInv'
  BY <1>19, DeploysAssumption DEF TypeOK, OrderInv, Begun, Apart, UnderWay,
       InFlight, DeployRaises
<1>20. ASSUME NEW d \in Deps, FailureRaises(d)
      PROVE  OrderInv'
  BY <1>20, DeploysAssumption DEF TypeOK, OrderInv, Begun, Apart, UnderWay,
       InFlight, FailureRaises
<1>21. ASSUME NEW d \in Deps, Bind(d)
      PROVE  OrderInv'
  BY <1>21 DEF TypeOK, OrderInv, Begun, Apart, UnderWay, InFlight, Bind
<1>22. ASSUME NEW d \in Deps, Dies(d)
      PROVE  OrderInv'
  BY <1>22 DEF TypeOK, OrderInv, Begun, Apart, UnderWay, InFlight, Dies
<1>23. ASSUME NEW w \in Workers, NEW d \in Deps, AskStop(w, d)
      PROVE  OrderInv'
  BY <1>23 DEF TypeOK, OrderInv, Begun, Apart, UnderWay, InFlight, AskStop,
       StopCalls
<1>24. ASSUME NEW s \in stops, PageKills(s)
      PROVE  OrderInv'
  BY <1>24 DEF TypeOK, OrderInv, Begun, Apart, UnderWay, InFlight, PageKills,
       StopKills, Killed, StopCalls
<1>25. ASSUME NEW s \in stops, PageSaves(s)
      PROVE  OrderInv'
  BY <1>25 DEF TypeOK, OrderInv, Begun, Apart, UnderWay, InFlight, PageSaves,
       StopCalls
<1>26. ASSUME NEW s \in stops, PageRaises(s)
      PROVE  OrderInv'
  BY <1>26, DeploysAssumption DEF TypeOK, OrderInv, Begun, Apart, UnderWay,
       InFlight, PageRaises, StopCalls
<1>27. ASSUME NEW w \in Workers, Restart(w)
      PROVE  OrderInv'
  BY <1>27, DeploysAssumption DEF TypeOK, OrderInv, Begun, Apart, UnderWay,
       InFlight, Restart
<1>28. CASE UNCHANGED vars
  BY <1>28 DEF TypeOK, OrderInv, Begun, Apart, UnderWay, InFlight, vars
<1> QED
  BY <1>1, <1>2, <1>3, <1>4, <1>5, <1>6, <1>7, <1>8, <1>9, <1>10, <1>11,
       <1>12, <1>13, <1>14, <1>15, <1>16, <1>17, <1>18, <1>19, <1>20, <1>21,
       <1>22, <1>23, <1>24, <1>25, <1>26, <1>27, <1>28
  DEF Next, Step

----------------------------------------------------------------------------
(***************************************************************************)
(* Ports.  The port of a deployment that did not cross an older one was    *)
(* free of it: the older row was not LIVE and its app did not listen, and  *)
(* neither can change.                                                     *)
(***************************************************************************)

PortInv ==
  \A d, x \in Deps :
    /\ pc[d] = "idle" => port[d] = NoPort
    /\ pc[d] \in {"start"} \union PollStages \union LiveStages
         => port[d] \in Ports
    /\ status[d] = "live" => port[d] \in Ports
    /\ Apart(d, x) /\ port[x] = port[d] /\ port[x] \in Ports
         => status[d] # "live" /\ ~Listening(d)

LEMMA PortInit == Init => PortInv
BY DEF Init, PortInv, Begun, Apart

(* What is over does not change; only Begin makes deployments apart.       *)
LEMMA ApartStays ==
  ASSUME UNCHANGED <<env, crossed>>, NEW d \in Deps, NEW x \in Deps
  PROVE  Apart(d, x)' <=> Apart(d, x)
BY DEF Apart, Begun

LEMMA PortStep == TypeOK /\ OrderInv /\ PortInv /\ [Next]_vars => PortInv'
<1> SUFFICES ASSUME TypeOK /\ OrderInv /\ PortInv, [Next]_vars PROVE PortInv'
  OBVIOUS
<1>1. ASSUME NEW w \in Workers, NEW e \in Envs, NEW d \in Deps, Begin(w, e, d)
      PROVE  PortInv'
  <2>1. /\ Begun(d)' /\ ~Begun(d) /\ \A x \in Deps : x < d => Begun(x)
        /\ \A x \in Deps : x # d => (Begun(x)' <=> Begun(x))
        /\ \A x \in Deps : pc[x] = "idle" <=> ~Begun(x)
        /\ \A x \in Deps : x # d => pc'[x] = pc[x] /\ status'[x] = status[x]
        /\ pc'[d] = "findPrev" /\ status'[d] = "building"
        /\ UNCHANGED <<port, proc>>
    BY <1>1, DeploysAssumption DEF TypeOK, Begin, Begun
  <2>2. \A x, y \in Deps : x < y => x # y
    BY DeploysAssumption DEF Deps
  <2>3. port[d] = NoPort /\ NoPort \notin Ports
    BY <2>1, DeploysAssumption DEF PortInv, NoPort, Ports
  <2>4. ASSUME NEW x \in Deps, NEW y \in Deps,
               Apart(x, y)', port'[y] = port'[x], port'[y] \in Ports
        PROVE  status'[x] # "live" /\ ~Listening(x)'
    <3>1. x < y /\ Begun(y)' /\ {x, y} \notin crossed' /\ y # d
      BY <2>1, <2>3, <2>4 DEF Apart
    <3>2. Apart(x, y) /\ x # d
      BY <3>1, <2>1, <1>1, BeginCrosses DEF Apart, OrderInv
    <3> QED
      BY <2>1, <2>4, <3>2 DEF PortInv, Listening
  <2> QED
    BY <2>1, <2>3, <2>4
    DEF PortInv
<1>2. ASSUME NEW d \in Deps, FindPrev(d)
      PROVE  PortInv'
  <2>1. UNCHANGED <<env, crossed>>
    BY <1>2 DEF FindPrev, LiveRows
  <2>2. \A x, y \in Deps : Apart(x, y)' <=> Apart(x, y)
    BY <2>1, ApartStays
  <2>3. \A x, y \in Deps : Apart(x, y) => ~InFlight(x) /\ proc[x] # "starting"
    BY DEF OrderInv, UnderWay
  <2> QED
    BY <1>2, <2>2, <2>3 DEF TypeOK, PortInv, Listening, InFlight, FindPrev,
         LiveRows
<1>3. ASSUME NEW d \in Deps, StopPrev(d)
      PROVE  PortInv'
  <2>1. UNCHANGED <<env, crossed>>
    BY <1>3 DEF StopPrev, StopKills, Killed, Alive
  <2>2. \A x, y \in Deps : Apart(x, y)' <=> Apart(x, y)
    BY <2>1, ApartStays
  <2>3. \A x, y \in Deps : Apart(x, y) => ~InFlight(x) /\ proc[x] # "starting"
    BY DEF OrderInv, UnderWay
  <2> QED
    BY <1>3, <2>2, <2>3 DEF TypeOK, PortInv, Listening, InFlight, StopPrev,
         StopKills, Killed, Alive
<1>4. ASSUME NEW d \in Deps, SavePrev(d)
      PROVE  PortInv'
  <2>1. UNCHANGED <<env, crossed>>
    BY <1>4 DEF SavePrev
  <2>2. \A x, y \in Deps : Apart(x, y)' <=> Apart(x, y)
    BY <2>1, ApartStays
  <2>3. \A x, y \in Deps : Apart(x, y) => ~InFlight(x) /\ proc[x] # "starting"
    BY DEF OrderInv, UnderWay
  <2> QED
    BY <1>4, <2>2, <2>3 DEF TypeOK, PortInv, Listening, InFlight, SavePrev
<1>5. ASSUME NEW d \in Deps, Allocate(d)
      PROVE  PortInv'
  <2>1. UNCHANGED <<env, crossed>>
    BY <1>5 DEF Allocate, FreePorts
  <2>2. \A x, y \in Deps : Apart(x, y)' <=> Apart(x, y)
    BY <2>1, ApartStays
  <2>3. \A x, y \in Deps : Apart(x, y) => ~InFlight(x) /\ proc[x] # "starting"
    BY DEF OrderInv, UnderWay
  <2> QED
    BY <1>5, <2>2, <2>3 DEF TypeOK, PortInv, Listening, InFlight, Allocate,
         FreePorts
<1>6. ASSUME NEW d \in Deps, Spawn(d)
      PROVE  PortInv'
  <2>1. UNCHANGED <<env, crossed>>
    BY <1>6 DEF Spawn
  <2>2. \A x, y \in Deps : Apart(x, y)' <=> Apart(x, y)
    BY <2>1, ApartStays
  <2>3. \A x, y \in Deps : Apart(x, y) => ~InFlight(x) /\ proc[x] # "starting"
    BY DEF OrderInv, UnderWay
  <2> QED
    BY <1>6, <2>2, <2>3 DEF TypeOK, PortInv, Listening, InFlight, Spawn
<1>7. ASSUME NEW d \in Deps, ComposeUp(d)
      PROVE  PortInv'
  <2>1. UNCHANGED <<env, crossed>>
    BY <1>7 DEF ComposeUp, Alive, IsCompose
  <2>2. \A x, y \in Deps : Apart(x, y)' <=> Apart(x, y)
    BY <2>1, ApartStays
  <2>3. \A x, y \in Deps : Apart(x, y) => ~InFlight(x) /\ proc[x] # "starting"
    BY DEF OrderInv, UnderWay
  <2> QED
    BY <1>7, <2>2, <2>3 DEF TypeOK, PortInv, Listening, InFlight, ComposeUp,
         Alive, IsCompose
<1>8. ASSUME NEW d \in Deps, PollDead(d)
      PROVE  PortInv'
  <2>1. UNCHANGED <<env, crossed>>
    BY <1>8 DEF PollDead
  <2>2. \A x, y \in Deps : Apart(x, y)' <=> Apart(x, y)
    BY <2>1, ApartStays
  <2>3. \A x, y \in Deps : Apart(x, y) => ~InFlight(x) /\ proc[x] # "starting"
    BY DEF OrderInv, UnderWay
  <2> QED
    BY <1>8, <2>2, <2>3 DEF TypeOK, PortInv, Listening, InFlight, PollDead
<1>9. ASSUME NEW d \in Deps, PollAlive(d)
      PROVE  PortInv'
  <2>1. UNCHANGED <<env, crossed>>
    BY <1>9 DEF PollAlive
  <2>2. \A x, y \in Deps : Apart(x, y)' <=> Apart(x, y)
    BY <2>1, ApartStays
  <2>3. \A x, y \in Deps : Apart(x, y) => ~InFlight(x) /\ proc[x] # "starting"
    BY DEF OrderInv, UnderWay
  <2> QED
    BY <1>9, <2>2, <2>3 DEF TypeOK, PortInv, Listening, InFlight, PollAlive
<1>10. ASSUME NEW d \in Deps, Answered(d)
      PROVE  PortInv'
  <2>1. UNCHANGED <<env, crossed>>
    BY <1>10 DEF Answered
  <2>2. \A x, y \in Deps : Apart(x, y)' <=> Apart(x, y)
    BY <2>1, ApartStays
  <2>3. \A x, y \in Deps : Apart(x, y) => ~InFlight(x) /\ proc[x] # "starting"
    BY DEF OrderInv, UnderWay
  <2> QED
    BY <1>10, <2>2, <2>3 DEF TypeOK, PortInv, Listening, InFlight, Answered
<1>11. ASSUME NEW d \in Deps, Unanswered(d)
      PROVE  PortInv'
  <2>1. UNCHANGED <<env, crossed>>
    BY <1>11 DEF Unanswered
  <2>2. \A x, y \in Deps : Apart(x, y)' <=> Apart(x, y)
    BY <2>1, ApartStays
  <2>3. \A x, y \in Deps : Apart(x, y) => ~InFlight(x) /\ proc[x] # "starting"
    BY DEF OrderInv, UnderWay
  <2> QED
    BY <1>11, <2>2, <2>3 DEF TypeOK, PortInv, Listening, InFlight, Unanswered
<1>12. ASSUME NEW d \in Deps, GoLive(d)
      PROVE  PortInv'
  <2>1. UNCHANGED <<env, crossed>>
    BY <1>12 DEF GoLive
  <2>2. \A x, y \in Deps : Apart(x, y)' <=> Apart(x, y)
    BY <2>1, ApartStays
  <2>3. \A x, y \in Deps : Apart(x, y) => ~InFlight(x) /\ proc[x] # "starting"
    BY DEF OrderInv, UnderWay
  <2> QED
    BY <1>12, <2>2, <2>3 DEF TypeOK, PortInv, Listening, InFlight, GoLive
<1>13. ASSUME NEW d \in Deps, Announce(d)
      PROVE  PortInv'
  <2>1. UNCHANGED <<env, crossed>>
    BY <1>13 DEF Announce
  <2>2. \A x, y \in Deps : Apart(x, y)' <=> Apart(x, y)
    BY <2>1, ApartStays
  <2>3. \A x, y \in Deps : Apart(x, y) => ~InFlight(x) /\ proc[x] # "starting"
    BY DEF OrderInv, UnderWay
  <2> QED
    BY <1>13, <2>2, <2>3 DEF TypeOK, PortInv, Listening, InFlight, Announce
<1>14. ASSUME NEW d \in Deps, TearDown(d)
      PROVE  PortInv'
  <2>1. UNCHANGED <<env, crossed>>
    BY <1>14 DEF TearDown, Alive
  <2>2. \A x, y \in Deps : Apart(x, y)' <=> Apart(x, y)
    BY <2>1, ApartStays
  <2>3. \A x, y \in Deps : Apart(x, y) => ~InFlight(x) /\ proc[x] # "starting"
    BY DEF OrderInv, UnderWay
  <2> QED
    BY <1>14, <2>2, <2>3 DEF TypeOK, PortInv, Listening, InFlight, TearDown,
         Alive
<1>15. ASSUME NEW d \in Deps, MarkFailed(d)
      PROVE  PortInv'
  <2>1. UNCHANGED <<env, crossed>>
    BY <1>15 DEF MarkFailed
  <2>2. \A x, y \in Deps : Apart(x, y)' <=> Apart(x, y)
    BY <2>1, ApartStays
  <2>3. \A x, y \in Deps : Apart(x, y) => ~InFlight(x) /\ proc[x] # "starting"
    BY DEF OrderInv, UnderWay
  <2> QED
    BY <1>15, <2>2, <2>3 DEF TypeOK, PortInv, Listening, InFlight, MarkFailed
<1>16. ASSUME NEW d \in Deps, PollTimesOut(d)
      PROVE  PortInv'
  <2>1. UNCHANGED <<env, crossed>>
    BY <1>16 DEF PollTimesOut
  <2>2. \A x, y \in Deps : Apart(x, y)' <=> Apart(x, y)
    BY <2>1, ApartStays
  <2>3. \A x, y \in Deps : Apart(x, y) => ~InFlight(x) /\ proc[x] # "starting"
    BY DEF OrderInv, UnderWay
  <2> QED
    BY <1>16, <2>2, <2>3 DEF TypeOK, PortInv, Listening, InFlight, PollTimesOut
<1>17. ASSUME NEW d \in Deps, BuildFails(d)
      PROVE  PortInv'
  <2>1. UNCHANGED <<env, crossed>>
    BY <1>17 DEF BuildFails
  <2>2. \A x, y \in Deps : Apart(x, y)' <=> Apart(x, y)
    BY <2>1, ApartStays
  <2>3. \A x, y \in Deps : Apart(x, y) => ~InFlight(x) /\ proc[x] # "starting"
    BY DEF OrderInv, UnderWay
  <2> QED
    BY <1>17, <2>2, <2>3 DEF TypeOK, PortInv, Listening, InFlight, BuildFails
<1>18. ASSUME NEW d \in Deps, StartRaises(d)
      PROVE  PortInv'
  <2>1. UNCHANGED <<env, crossed>>
    BY <1>18 DEF StartRaises
  <2>2. \A x, y \in Deps : Apart(x, y)' <=> Apart(x, y)
    BY <2>1, ApartStays
  <2>3. \A x, y \in Deps : Apart(x, y) => ~InFlight(x) /\ proc[x] # "starting"
    BY DEF OrderInv, UnderWay
  <2> QED
    BY <1>18, <2>2, <2>3 DEF TypeOK, PortInv, Listening, InFlight, StartRaises
<1>19. ASSUME NEW d \in Deps, DeployRaises(d)
      PROVE  PortInv'
  <2>1. UNCHANGED <<env, crossed>>
    BY <1>19 DEF DeployRaises
  <2>2. \A x, y \in Deps : Apart(x, y)' <=> Apart(x, y)
    BY <2>1, ApartStays
  <2>3. \A x, y \in Deps : Apart(x, y) => ~InFlight(x) /\ proc[x] # "starting"
    BY DEF OrderInv, UnderWay
  <2> QED
    BY <1>19, <2>2, <2>3 DEF TypeOK, PortInv, Listening, InFlight, DeployRaises
<1>20. ASSUME NEW d \in Deps, FailureRaises(d)
      PROVE  PortInv'
  <2>1. UNCHANGED <<env, crossed>>
    BY <1>20 DEF FailureRaises
  <2>2. \A x, y \in Deps : Apart(x, y)' <=> Apart(x, y)
    BY <2>1, ApartStays
  <2>3. \A x, y \in Deps : Apart(x, y) => ~InFlight(x) /\ proc[x] # "starting"
    BY DEF OrderInv, UnderWay
  <2> QED
    BY <1>20, <2>2, <2>3 DEF TypeOK, PortInv, Listening, InFlight,
         FailureRaises
<1>21. ASSUME NEW d \in Deps, Bind(d)
      PROVE  PortInv'
  <2>1. UNCHANGED <<env, crossed>>
    BY <1>21 DEF Bind
  <2>2. \A x, y \in Deps : Apart(x, y)' <=> Apart(x, y)
    BY <2>1, ApartStays
  <2>3. \A x, y \in Deps : Apart(x, y) => ~InFlight(x) /\ proc[x] # "starting"
    BY DEF OrderInv, UnderWay
  <2> QED
    BY <1>21, <2>2, <2>3 DEF TypeOK, PortInv, Listening, InFlight, Bind
<1>22. ASSUME NEW d \in Deps, Dies(d)
      PROVE  PortInv'
  <2>1. UNCHANGED <<env, crossed>>
    BY <1>22 DEF Dies, Alive
  <2>2. \A x, y \in Deps : Apart(x, y)' <=> Apart(x, y)
    BY <2>1, ApartStays
  <2>3. \A x, y \in Deps : Apart(x, y) => ~InFlight(x) /\ proc[x] # "starting"
    BY DEF OrderInv, UnderWay
  <2> QED
    BY <1>22, <2>2, <2>3 DEF TypeOK, PortInv, Listening, InFlight, Dies, Alive
<1>23. ASSUME NEW w \in Workers, NEW d \in Deps, AskStop(w, d)
      PROVE  PortInv'
  <2>1. UNCHANGED <<env, crossed>>
    BY <1>23 DEF AskStop
  <2>2. \A x, y \in Deps : Apart(x, y)' <=> Apart(x, y)
    BY <2>1, ApartStays
  <2>3. \A x, y \in Deps : Apart(x, y) => ~InFlight(x) /\ proc[x] # "starting"
    BY DEF OrderInv, UnderWay
  <2> QED
    BY <1>23, <2>2, <2>3 DEF TypeOK, PortInv, Listening, InFlight, AskStop
<1>24. ASSUME NEW s \in stops, PageKills(s)
      PROVE  PortInv'
  <2>1. UNCHANGED <<env, crossed>>
    BY <1>24 DEF PageKills, StopKills, Killed, Alive, StopCalls
  <2>2. \A x, y \in Deps : Apart(x, y)' <=> Apart(x, y)
    BY <2>1, ApartStays
  <2>3. \A x, y \in Deps : Apart(x, y) => ~InFlight(x) /\ proc[x] # "starting"
    BY DEF OrderInv, UnderWay
  <2> QED
    BY <1>24, <2>2, <2>3 DEF TypeOK, PortInv, Listening, InFlight, PageKills,
         StopKills, Killed, Alive, StopCalls
<1>25. ASSUME NEW s \in stops, PageSaves(s)
      PROVE  PortInv'
  <2>1. UNCHANGED <<env, crossed>>
    BY <1>25 DEF PageSaves, StopCalls
  <2>2. \A x, y \in Deps : Apart(x, y)' <=> Apart(x, y)
    BY <2>1, ApartStays
  <2>3. \A x, y \in Deps : Apart(x, y) => ~InFlight(x) /\ proc[x] # "starting"
    BY DEF OrderInv, UnderWay
  <2> QED
    BY <1>25, <2>2, <2>3 DEF TypeOK, PortInv, Listening, InFlight, PageSaves,
         StopCalls
<1>26. ASSUME NEW s \in stops, PageRaises(s)
      PROVE  PortInv'
  <2>1. UNCHANGED <<env, crossed>>
    BY <1>26 DEF PageRaises, StopCalls
  <2>2. \A x, y \in Deps : Apart(x, y)' <=> Apart(x, y)
    BY <2>1, ApartStays
  <2>3. \A x, y \in Deps : Apart(x, y) => ~InFlight(x) /\ proc[x] # "starting"
    BY DEF OrderInv, UnderWay
  <2> QED
    BY <1>26, <2>2, <2>3 DEF TypeOK, PortInv, Listening, InFlight, PageRaises,
         StopCalls
<1>27. ASSUME NEW w \in Workers, Restart(w)
      PROVE  PortInv'
  <2>1. UNCHANGED <<env, crossed>>
    BY <1>27 DEF Restart
  <2>2. \A x, y \in Deps : Apart(x, y)' <=> Apart(x, y)
    BY <2>1, ApartStays
  <2>3. \A x, y \in Deps : Apart(x, y) => ~InFlight(x) /\ proc[x] # "starting"
    BY DEF OrderInv, UnderWay
  <2> QED
    BY <1>27, <2>2, <2>3 DEF TypeOK, PortInv, Listening, InFlight, Restart
<1>28. CASE UNCHANGED vars
  <2>1. UNCHANGED <<env, crossed>>
    BY <1>28 DEF vars
  <2>2. \A x, y \in Deps : Apart(x, y)' <=> Apart(x, y)
    BY <2>1, ApartStays
  <2>3. \A x, y \in Deps : Apart(x, y) => ~InFlight(x) /\ proc[x] # "starting"
    BY DEF OrderInv, UnderWay
  <2> QED
    BY <1>28, <2>2, <2>3 DEF TypeOK, PortInv, Listening, InFlight, vars
<1> QED
  BY <1>1, <1>2, <1>3, <1>4, <1>5, <1>6, <1>7, <1>8, <1>9, <1>10, <1>11,
       <1>12, <1>13, <1>14, <1>15, <1>16, <1>17, <1>18, <1>19, <1>20, <1>21,
       <1>22, <1>23, <1>24, <1>25, <1>26, <1>27, <1>28
  DEF Next, Step

(* A port in a LIVE row is nobody else's, unless deployments crossed.      *)
THEOREM PortsCorrect == Spec => []PortIsExclusive
<1>1. Init => OrderInv /\ PortInv
  BY OrderInit, PortInit
<1>2. TypeOK /\ OrderInv /\ PortInv /\ [Next]_vars => (OrderInv /\ PortInv)'
  BY OrderStep, PortStep
<1>3. TypeOK /\ OrderInv /\ PortInv => PortIsExclusive
  <2> SUFFICES ASSUME TypeOK, OrderInv, PortInv,
                      NEW d \in Deps, NEW x \in Deps,
                      d # x, status[d] = "live", port[x] = port[d],
                      Alive(x) \/ status[x] = "live", {d, x} \notin crossed
               PROVE  FALSE
    BY DEF PortIsExclusive
  <2>1. port[d] \in Ports /\ {x, d} = {d, x}
    BY DEF PortInv
  <2>2. CASE d < x /\ Begun(x)
    BY <2>1, <2>2 DEF PortInv, Apart
  <2>3. CASE x < d /\ Begun(d)
    <3>1. Apart(x, d)
      BY <2>1, <2>3 DEF Apart
    <3>2. status[x] # "live" /\ ~Listening(x) /\ proc[x] # "starting"
      BY <2>1, <3>1 DEF PortInv, OrderInv, UnderWay
    <3> QED
      BY <3>2 DEF Listening, Alive
  <2>4. (d < x \/ x < d) /\ (d < x => Begun(x)) /\ (x < d => Begun(d))
    <3>1. d < x \/ x < d
      BY DeploysAssumption DEF Deps
    <3>2. port[x] # NoPort /\ port[d] # NoPort
      BY <2>1, DeploysAssumption DEF Ports, NoPort
    <3>3. Begun(x) /\ Begun(d)
      BY <3>2 DEF PortInv, TypeOK, Begun
    <3> QED
      BY <3>1, <3>3
  <2> QED
    BY <2>2, <2>3, <2>4
<1> QED
  BY <1>1, <1>2, <1>3, TypeCorrect, PTL DEF Spec

----------------------------------------------------------------------------
(***************************************************************************)
(* One LIVE row.  While x is LIVE, a later deployment of its environment   *)
(* is on its way to stop it, or has come to an end before it could.        *)
(***************************************************************************)

Succeeds(x, d) == /\ x < d /\ Begun(d) /\ env[d] = env[x] /\ ~Raced(env[x])

Before == EarlyStages \union {"killed"}
Fallen == {"failing", "markFailed", "raised", "done"}

LiveInv ==
  \A x, d \in Deps :
    Succeeds(x, d) /\ status[x] = "live" =>
      /\ status[d] # "live"
      /\ pc[d] \in {"stopPrev", "savePrev"} => prev[d] = x
      /\ pc[d] \in Before \union Fallen
      /\ dbErrors = 0 => pc[d] \in Before

LEMMA LiveInit == Init => LiveInv
BY DEF Init, LiveInv

LEMMA SucceedsStays ==
  ASSUME UNCHANGED <<env, crossed>>, NEW x \in Deps, NEW d \in Deps
  PROVE  Succeeds(x, d)' <=> Succeeds(x, d)
BY DEF Succeeds, Begun, Raced

(* Of an environment whose deployments did not overlap, the one that is    *)
(* succeeded is over.                                                      *)
LEMMA SucceededIsOver ==
  ASSUME TypeOK, OrderInv, NEW x \in Deps, NEW d \in Deps, Succeeds(x, d)
  PROVE  ~InFlight(x) /\ x # d
<1>1. x # d
  BY DeploysAssumption DEF Succeeds, Deps
<1>2. {x, d} \notin crossed
  BY <1>1 DEF Succeeds, Raced
<1> QED
  BY <1>1, <1>2 DEF Succeeds, OrderInv, Apart, UnderWay

(* Its LIVE rows are one.                                                  *)
LEMMA OneLive ==
  ASSUME TypeOK, OrderInv, LiveInv, NEW e \in Envs, ~Raced(e),
         NEW x \in LiveRows(e), NEW y \in LiveRows(e)
  PROVE  x = y
<1>1. x \in Deps /\ y \in Deps /\ env[x] = e /\ env[y] = e /\ Begun(x) /\ Begun(y)
  BY DeploysAssumption DEF LiveRows, Begun
<1>2. x < y \/ y < x \/ x = y
  BY <1>1, DeploysAssumption DEF Deps
<1>3. ~(x < y)
  BY <1>1 DEF LiveRows, Succeeds, LiveInv
<1>4. ~(y < x)
  BY <1>1 DEF LiveRows, Succeeds, LiveInv
<1> QED
  BY <1>2, <1>3, <1>4

LEMMA LiveStep == TypeOK /\ OrderInv /\ LiveInv /\ [Next]_vars => LiveInv'
<1> SUFFICES ASSUME TypeOK /\ OrderInv /\ LiveInv, [Next]_vars PROVE LiveInv'
  OBVIOUS
<1>1. ASSUME NEW w \in Workers, NEW e \in Envs, NEW d \in Deps, Begin(w, e, d)
      PROVE  LiveInv'
  <2>1. /\ Begun(d)' /\ \A x \in Deps : x < d => Begun(x)
        /\ ~Begun(d) /\ env'[d] = e /\ \A x \in Deps : x # d => env'[x] = env[x]
        /\ \A x \in Deps : x # d => pc'[x] = pc[x] /\ status'[x] = status[x]
        /\ pc'[d] = "findPrev" /\ status'[d] = "building"
        /\ UNCHANGED <<prev, dbErrors>>
    BY <1>1, DeploysAssumption DEF TypeOK, Begin, Begun
  <2>2. \A x, y \in Deps : x < y => x # y
    BY DeploysAssumption DEF Deps
  <2>3. ASSUME NEW x \in Deps, NEW y \in Deps, Succeeds(x, y)', y # d
        PROVE  Succeeds(x, y) /\ x # d
    <3>1. x < y /\ Begun(y) /\ x # d
      BY <2>1, <2>3 DEF Succeeds, OrderInv, Begun
    <3>2. env[y] = env[x] /\ env'[x] = env[x]
      BY <2>1, <2>3, <3>1 DEF Succeeds
    <3>3. ASSUME Raced(env[x])
          PROVE  FALSE
      <4>1. PICK a, b \in Deps : /\ a # b /\ env[a] = env[x] /\ env[b] = env[x]
                                 /\ {a, b} \in crossed
        BY <3>3 DEF Raced
      <4>2. a # d /\ b # d
        BY <4>1, <3>1, <2>1 DEF OrderInv, Begun
      <4>3. env'[a] = env'[x] /\ env'[b] = env'[x] /\ {a, b} \in crossed'
        BY <4>1, <4>2, <3>2, <2>1, <1>1, BeginCrosses
      <4> QED
        BY <4>1, <4>3, <2>3 DEF Raced, Succeeds
    <3> QED
      BY <3>1, <3>2, <3>3 DEF Succeeds
  <2> QED
    BY <2>1, <2>2, <2>3 DEF LiveInv, Before, Succeeds
<1>2. ASSUME NEW d \in Deps, FindPrev(d)
      PROVE  LiveInv'
  <2>1. UNCHANGED <<env, crossed, status, dbErrors>> /\ pc[d] = "findPrev"
    BY <1>2 DEF FindPrev
  <2>2. \A x, y \in Deps : Succeeds(x, y)' <=> Succeeds(x, y)
    BY <2>1, SucceedsStays
  <2>3. ASSUME NEW x \in Deps, NEW y \in Deps, Succeeds(x, y), status[x] = "live",
               y # d
        PROVE  pc'[y] = pc[y] /\ prev'[y] = prev[y]
    BY <1>2, <2>3 DEF TypeOK, FindPrev
  <2>4. ASSUME NEW x \in Deps, Succeeds(x, d), status[x] = "live"
        PROVE  pc'[d] = "stopPrev" /\ prev'[d] = x
    <3>1. x \in LiveRows(env[d]) \ {d} /\ ~Raced(env[d])
      BY <2>4, SucceededIsOver DEF LiveRows, Succeeds
    <3>2. \E y \in LiveRows(env[d]) \ {d} :
             prev' = [prev EXCEPT ![d] = y] /\ pc' = [pc EXCEPT ![d] = "stopPrev"]
      BY <1>2, <3>1 DEF FindPrev
    <3>3. env[d] \in Envs
      BY <2>4 DEF TypeOK, Succeeds, Begun
    <3> QED
      BY <3>1, <3>2, <3>3, OneLive DEF TypeOK
  <2> QED
    BY <2>1, <2>2, <2>3, <2>4 DEF LiveInv, Before
<1>3. ASSUME NEW d \in Deps, StopPrev(d)
      PROVE  LiveInv'
  <2>1. UNCHANGED <<env, crossed>>
    BY <1>3 DEF StopPrev, StopKills, Killed
  <2>2. \A x, y \in Deps : Succeeds(x, y)' <=> Succeeds(x, y)
    BY <2>1, SucceedsStays
  <2>3. \A x, y \in Deps : Succeeds(x, y) => ~InFlight(x) /\ x # y
    BY SucceededIsOver
  <2> QED
    BY <1>3, <2>2, <2>3 DEF TypeOK, LiveInv, Before, Fallen, InFlight,
         StopPrev, StopKills, Killed
<1>4. ASSUME NEW d \in Deps, SavePrev(d)
      PROVE  LiveInv'
  <2>1. UNCHANGED <<env, crossed, prev, dbErrors>> /\ pc[d] = "savePrev"
    BY <1>4 DEF SavePrev
  <2>2. \A x, y \in Deps : Succeeds(x, y)' <=> Succeeds(x, y)
    BY <2>1, SucceedsStays
  <2>3. \A x \in Deps : status'[x] = "live" => status[x] = "live" /\ x # prev[d]
    BY <1>4 DEF TypeOK, SavePrev
  <2>4. \A x \in Deps : Succeeds(x, d) => status'[x] # "live"
    BY <2>1, <2>3 DEF LiveInv
  <2>5. \A x \in Deps : x # d => pc'[x] = pc[x]
    BY <1>4 DEF TypeOK, SavePrev
  <2> QED
    BY <2>1, <2>2, <2>3, <2>4, <2>5 DEF LiveInv
<1>5. ASSUME NEW d \in Deps, Allocate(d)
      PROVE  LiveInv'
  <2>1. UNCHANGED <<env, crossed>>
    BY <1>5 DEF Allocate, FreePorts
  <2>2. \A x, y \in Deps : Succeeds(x, y)' <=> Succeeds(x, y)
    BY <2>1, SucceedsStays
  <2>3. \A x, y \in Deps : Succeeds(x, y) => ~InFlight(x) /\ x # y
    BY SucceededIsOver
  <2> QED
    BY <1>5, <2>2, <2>3 DEF TypeOK, LiveInv, Before, Fallen, InFlight,
         Allocate, FreePorts
<1>6. ASSUME NEW d \in Deps, Spawn(d)
      PROVE  LiveInv'
  <2>1. UNCHANGED <<env, crossed>>
    BY <1>6 DEF Spawn
  <2>2. \A x, y \in Deps : Succeeds(x, y)' <=> Succeeds(x, y)
    BY <2>1, SucceedsStays
  <2>3. \A x, y \in Deps : Succeeds(x, y) => ~InFlight(x) /\ x # y
    BY SucceededIsOver
  <2> QED
    BY <1>6, <2>2, <2>3 DEF TypeOK, LiveInv, Before, Fallen, InFlight, Spawn
<1>7. ASSUME NEW d \in Deps, ComposeUp(d)
      PROVE  LiveInv'
  <2>1. UNCHANGED <<env, crossed>>
    BY <1>7 DEF ComposeUp
  <2>2. \A x, y \in Deps : Succeeds(x, y)' <=> Succeeds(x, y)
    BY <2>1, SucceedsStays
  <2>3. \A x, y \in Deps : Succeeds(x, y) => ~InFlight(x) /\ x # y
    BY SucceededIsOver
  <2> QED
    BY <1>7, <2>2, <2>3 DEF TypeOK, LiveInv, Before, Fallen, InFlight,
         ComposeUp
<1>8. ASSUME NEW d \in Deps, PollDead(d)
      PROVE  LiveInv'
  <2>1. UNCHANGED <<env, crossed>>
    BY <1>8 DEF PollDead
  <2>2. \A x, y \in Deps : Succeeds(x, y)' <=> Succeeds(x, y)
    BY <2>1, SucceedsStays
  <2>3. \A x, y \in Deps : Succeeds(x, y) => ~InFlight(x) /\ x # y
    BY SucceededIsOver
  <2> QED
    BY <1>8, <2>2, <2>3 DEF TypeOK, LiveInv, Before, Fallen, InFlight, PollDead
<1>9. ASSUME NEW d \in Deps, PollAlive(d)
      PROVE  LiveInv'
  <2>1. UNCHANGED <<env, crossed>>
    BY <1>9 DEF PollAlive
  <2>2. \A x, y \in Deps : Succeeds(x, y)' <=> Succeeds(x, y)
    BY <2>1, SucceedsStays
  <2>3. \A x, y \in Deps : Succeeds(x, y) => ~InFlight(x) /\ x # y
    BY SucceededIsOver
  <2> QED
    BY <1>9, <2>2, <2>3 DEF TypeOK, LiveInv, Before, Fallen, InFlight,
         PollAlive
<1>10. ASSUME NEW d \in Deps, Answered(d)
      PROVE  LiveInv'
  <2>1. UNCHANGED <<env, crossed>>
    BY <1>10 DEF Answered
  <2>2. \A x, y \in Deps : Succeeds(x, y)' <=> Succeeds(x, y)
    BY <2>1, SucceedsStays
  <2>3. \A x, y \in Deps : Succeeds(x, y) => ~InFlight(x) /\ x # y
    BY SucceededIsOver
  <2> QED
    BY <1>10, <2>2, <2>3 DEF TypeOK, LiveInv, Before, Fallen, InFlight,
         Answered
<1>11. ASSUME NEW d \in Deps, Unanswered(d)
      PROVE  LiveInv'
  <2>1. UNCHANGED <<env, crossed>>
    BY <1>11 DEF Unanswered
  <2>2. \A x, y \in Deps : Succeeds(x, y)' <=> Succeeds(x, y)
    BY <2>1, SucceedsStays
  <2>3. \A x, y \in Deps : Succeeds(x, y) => ~InFlight(x) /\ x # y
    BY SucceededIsOver
  <2> QED
    BY <1>11, <2>2, <2>3 DEF TypeOK, LiveInv, Before, Fallen, InFlight,
         Unanswered
<1>12. ASSUME NEW d \in Deps, GoLive(d)
      PROVE  LiveInv'
  <2>1. UNCHANGED <<env, crossed>>
    BY <1>12 DEF GoLive
  <2>2. \A x, y \in Deps : Succeeds(x, y)' <=> Succeeds(x, y)
    BY <2>1, SucceedsStays
  <2>3. \A x, y \in Deps : Succeeds(x, y) => ~InFlight(x) /\ x # y
    BY SucceededIsOver
  <2> QED
    BY <1>12, <2>2, <2>3 DEF TypeOK, LiveInv, Before, Fallen, InFlight, GoLive
<1>13. ASSUME NEW d \in Deps, Announce(d)
      PROVE  LiveInv'
  <2>1. UNCHANGED <<env, crossed>>
    BY <1>13 DEF Announce
  <2>2. \A x, y \in Deps : Succeeds(x, y)' <=> Succeeds(x, y)
    BY <2>1, SucceedsStays
  <2>3. \A x, y \in Deps : Succeeds(x, y) => ~InFlight(x) /\ x # y
    BY SucceededIsOver
  <2> QED
    BY <1>13, <2>2, <2>3 DEF TypeOK, LiveInv, Before, Fallen, InFlight,
         Announce
<1>14. ASSUME NEW d \in Deps, TearDown(d)
      PROVE  LiveInv'
  <2>1. UNCHANGED <<env, crossed>>
    BY <1>14 DEF TearDown
  <2>2. \A x, y \in Deps : Succeeds(x, y)' <=> Succeeds(x, y)
    BY <2>1, SucceedsStays
  <2>3. \A x, y \in Deps : Succeeds(x, y) => ~InFlight(x) /\ x # y
    BY SucceededIsOver
  <2> QED
    BY <1>14, <2>2, <2>3 DEF TypeOK, LiveInv, Before, Fallen, InFlight,
         TearDown
<1>15. ASSUME NEW d \in Deps, MarkFailed(d)
      PROVE  LiveInv'
  <2>1. UNCHANGED <<env, crossed>>
    BY <1>15 DEF MarkFailed
  <2>2. \A x, y \in Deps : Succeeds(x, y)' <=> Succeeds(x, y)
    BY <2>1, SucceedsStays
  <2>3. \A x, y \in Deps : Succeeds(x, y) => ~InFlight(x) /\ x # y
    BY SucceededIsOver
  <2> QED
    BY <1>15, <2>2, <2>3 DEF TypeOK, LiveInv, Before, Fallen, InFlight,
         MarkFailed
<1>16. ASSUME NEW d \in Deps, PollTimesOut(d)
      PROVE  LiveInv'
  <2>1. UNCHANGED <<env, crossed>>
    BY <1>16 DEF PollTimesOut
  <2>2. \A x, y \in Deps : Succeeds(x, y)' <=> Succeeds(x, y)
    BY <2>1, SucceedsStays
  <2>3. \A x, y \in Deps : Succeeds(x, y) => ~InFlight(x) /\ x # y
    BY SucceededIsOver
  <2> QED
    BY <1>16, <2>2, <2>3 DEF TypeOK, LiveInv, Before, Fallen, InFlight,
         PollTimesOut
<1>17. ASSUME NEW d \in Deps, BuildFails(d)
      PROVE  LiveInv'
  <2>1. UNCHANGED <<env, crossed>>
    BY <1>17 DEF BuildFails
  <2>2. \A x, y \in Deps : Succeeds(x, y)' <=> Succeeds(x, y)
    BY <2>1, SucceedsStays
  <2>3. \A x, y \in Deps : Succeeds(x, y) => ~InFlight(x) /\ x # y
    BY SucceededIsOver
  <2> QED
    BY <1>17, <2>2, <2>3 DEF TypeOK, LiveInv, Before, Fallen, InFlight,
         BuildFails
<1>18. ASSUME NEW d \in Deps, StartRaises(d)
      PROVE  LiveInv'
  <2>1. UNCHANGED <<env, crossed>>
    BY <1>18 DEF StartRaises
  <2>2. \A x, y \in Deps : Succeeds(x, y)' <=> Succeeds(x, y)
    BY <2>1, SucceedsStays
  <2>3. \A x, y \in Deps : Succeeds(x, y) => ~InFlight(x) /\ x # y
    BY SucceededIsOver
  <2> QED
    BY <1>18, <2>2, <2>3, DeploysAssumption DEF TypeOK, LiveInv, Before,
         Fallen, InFlight, StartRaises
<1>19. ASSUME NEW d \in Deps, DeployRaises(d)
      PROVE  LiveInv'
  <2>1. UNCHANGED <<env, crossed>>
    BY <1>19 DEF DeployRaises
  <2>2. \A x, y \in Deps : Succeeds(x, y)' <=> Succeeds(x, y)
    BY <2>1, SucceedsStays
  <2>3. \A x, y \in Deps : Succeeds(x, y) => ~InFlight(x) /\ x # y
    BY SucceededIsOver
  <2> QED
    BY <1>19, <2>2, <2>3, DeploysAssumption DEF TypeOK, LiveInv, Before,
         Fallen, InFlight, DeployRaises
<1>20. ASSUME NEW d \in Deps, FailureRaises(d)
      PROVE  LiveInv'
  <2>1. UNCHANGED <<env, crossed>>
    BY <1>20 DEF FailureRaises
  <2>2. \A x, y \in Deps : Succeeds(x, y)' <=> Succeeds(x, y)
    BY <2>1, SucceedsStays
  <2>3. \A x, y \in Deps : Succeeds(x, y) => ~InFlight(x) /\ x # y
    BY SucceededIsOver
  <2> QED
    BY <1>20, <2>2, <2>3, DeploysAssumption DEF TypeOK, LiveInv, Before,
         Fallen, InFlight, FailureRaises
<1>21. ASSUME NEW d \in Deps, Bind(d)
      PROVE  LiveInv'
  <2>1. UNCHANGED <<env, crossed>>
    BY <1>21 DEF Bind
  <2>2. \A x, y \in Deps : Succeeds(x, y)' <=> Succeeds(x, y)
    BY <2>1, SucceedsStays
  <2>3. \A x, y \in Deps : Succeeds(x, y) => ~InFlight(x) /\ x # y
    BY SucceededIsOver
  <2> QED
    BY <1>21, <2>2, <2>3 DEF TypeOK, LiveInv, Before, Fallen, InFlight, Bind
<1>22. ASSUME NEW d \in Deps, Dies(d)
      PROVE  LiveInv'
  <2>1. UNCHANGED <<env, crossed>>
    BY <1>22 DEF Dies
  <2>2. \A x, y \in Deps : Succeeds(x, y)' <=> Succeeds(x, y)
    BY <2>1, SucceedsStays
  <2>3. \A x, y \in Deps : Succeeds(x, y) => ~InFlight(x) /\ x # y
    BY SucceededIsOver
  <2> QED
    BY <1>22, <2>2, <2>3 DEF TypeOK, LiveInv, Before, Fallen, InFlight, Dies
<1>23. ASSUME NEW w \in Workers, NEW d \in Deps, AskStop(w, d)
      PROVE  LiveInv'
  <2>1. UNCHANGED <<env, crossed>>
    BY <1>23 DEF AskStop
  <2>2. \A x, y \in Deps : Succeeds(x, y)' <=> Succeeds(x, y)
    BY <2>1, SucceedsStays
  <2>3. \A x, y \in Deps : Succeeds(x, y) => ~InFlight(x) /\ x # y
    BY SucceededIsOver
  <2> QED
    BY <1>23, <2>2, <2>3 DEF TypeOK, LiveInv, Before, Fallen, InFlight, AskStop
<1>24. ASSUME NEW s \in stops, PageKills(s)
      PROVE  LiveInv'
  <2>1. UNCHANGED <<env, crossed>>
    BY <1>24 DEF PageKills, StopKills, Killed, StopCalls
  <2>2. \A x, y \in Deps : Succeeds(x, y)' <=> Succeeds(x, y)
    BY <2>1, SucceedsStays
  <2>3. \A x, y \in Deps : Succeeds(x, y) => ~InFlight(x) /\ x # y
    BY SucceededIsOver
  <2> QED
    BY <1>24, <2>2, <2>3 DEF TypeOK, LiveInv, Before, Fallen, InFlight,
         PageKills, StopKills, Killed, StopCalls
<1>25. ASSUME NEW s \in stops, PageSaves(s)
      PROVE  LiveInv'
  <2>1. UNCHANGED <<env, crossed>>
    BY <1>25 DEF PageSaves, StopCalls
  <2>2. \A x, y \in Deps : Succeeds(x, y)' <=> Succeeds(x, y)
    BY <2>1, SucceedsStays
  <2>3. \A x, y \in Deps : Succeeds(x, y) => ~InFlight(x) /\ x # y
    BY SucceededIsOver
  <2> QED
    BY <1>25, <2>2, <2>3 DEF TypeOK, LiveInv, Before, Fallen, InFlight,
         PageSaves, StopCalls
<1>26. ASSUME NEW s \in stops, PageRaises(s)
      PROVE  LiveInv'
  <2>1. UNCHANGED <<env, crossed>>
    BY <1>26 DEF PageRaises, StopCalls
  <2>2. \A x, y \in Deps : Succeeds(x, y)' <=> Succeeds(x, y)
    BY <2>1, SucceedsStays
  <2>3. \A x, y \in Deps : Succeeds(x, y) => ~InFlight(x) /\ x # y
    BY SucceededIsOver
  <2> QED
    BY <1>26, <2>2, <2>3, DeploysAssumption DEF TypeOK, LiveInv, Before,
         Fallen, InFlight, PageRaises, StopCalls
<1>27. ASSUME NEW w \in Workers, Restart(w)
      PROVE  LiveInv'
  <2>1. UNCHANGED <<env, crossed>>
    BY <1>27 DEF Restart
  <2>2. \A x, y \in Deps : Succeeds(x, y)' <=> Succeeds(x, y)
    BY <2>1, SucceedsStays
  <2>3. \A x, y \in Deps : Succeeds(x, y) => ~InFlight(x) /\ x # y
    BY SucceededIsOver
  <2> QED
    BY <1>27, <2>2, <2>3 DEF TypeOK, LiveInv, Before, Fallen, InFlight, Restart
<1>28. CASE UNCHANGED vars
  <2>1. UNCHANGED <<env, crossed>>
    BY <1>28 DEF vars
  <2>2. \A x, y \in Deps : Succeeds(x, y)' <=> Succeeds(x, y)
    BY <2>1, SucceedsStays
  <2>3. \A x, y \in Deps : Succeeds(x, y) => ~InFlight(x) /\ x # y
    BY SucceededIsOver
  <2> QED
    BY <1>28, <2>2, <2>3 DEF TypeOK, LiveInv, Before, Fallen, InFlight, vars
<1> QED
  BY <1>1, <1>2, <1>3, <1>4, <1>5, <1>6, <1>7, <1>8, <1>9, <1>10, <1>11,
       <1>12, <1>13, <1>14, <1>15, <1>16, <1>17, <1>18, <1>19, <1>20, <1>21,
       <1>22, <1>23, <1>24, <1>25, <1>26, <1>27, <1>28
  DEF Next, Step

LEMMA SuccessionInvariant == Spec => [](TypeOK /\ OrderInv /\ PortInv /\ LiveInv)
<1>1. Init => OrderInv /\ PortInv /\ LiveInv
  BY OrderInit, PortInit, LiveInit
<1>2. TypeOK /\ OrderInv /\ PortInv /\ LiveInv /\ [Next]_vars
        => (OrderInv /\ PortInv /\ LiveInv)'
  BY OrderStep, PortStep, LiveStep
<1> QED
  BY <1>1, <1>2, TypeCorrect, PTL DEF Spec

(* Where deployments did not overlap, at most one row is LIVE.             *)
THEOREM SuccessionCorrect == Spec => []OneLivePerEnvironment
<1>1. TypeOK /\ OrderInv /\ LiveInv => OneLivePerEnvironment
  BY OneLive DEF OneLivePerEnvironment
<1> QED
  BY <1>1, SuccessionInvariant, PTL

(* Where deployments did not overlap and no statement failed, a LIVE row   *)
(* is in front of every deployment that is over: the proxy finds it.       *)
THEOREM LiveVisible == Spec => []LiveIsVisible
<1>1. TypeOK /\ PortInv /\ LiveInv => LiveIsVisible
  <2> SUFFICES ASSUME TypeOK, PortInv, LiveInv, NEW d \in Deps, NEW x \in Deps,
                      status[d] = "live", x > d, env[x] = env[d],
                      ~Raced(env[d]), dbErrors = 0
               PROVE  pc[x] \in Before
    BY DEF LiveIsVisible, Before
  <2>1. d < x
    BY DeploysAssumption DEF Deps
  <2>2. CASE Begun(x)
    BY <2>1, <2>2 DEF Succeeds, LiveInv
  <2>3. CASE ~Begun(x)
    BY <2>3, DeploysAssumption DEF TypeOK, PortInv, Begun, Ports, NoPort
  <2> QED
    BY <2>2, <2>3
<1> QED
  BY <1>1, SuccessionInvariant, PTL

=============================================================================
