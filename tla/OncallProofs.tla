---------------------------- MODULE OncallProofs ----------------------------
(***************************************************************************)
(* Theorems about Signals, for every window, percentage, threshold and     *)
(* schedule, and about Oncall, for any number of monitors, incidents,      *)
(* rules, steps, passes and ticks.                                         *)
(***************************************************************************)
EXTENDS Oncall, FiniteSetTheorems, SequenceTheorems, TLAPS

(* _percentile is the nearest rank: a sample of the window, at or below    *)
(* which lie at least pct percent of the samples, and below which fewer.   *)
THEOREM RankIsNearest ==
  ASSUME NEW n \in Nat \ {0}, NEW pct \in Percents
  PROVE  /\ Rank(n, pct) \in 1..n
         /\ pct * n <= 100 * Rank(n, pct)
         /\ 100 * (Rank(n, pct) - 1) < pct * n
<1> DEFINE product == pct * n
           ceiling == (product + 99) \div 100
<1>1. product \in Nat /\ 1 <= product /\ product <= 100 * n
  <2>1. pct \in Nat /\ 1 <= pct /\ pct <= 100 /\ n >= 1
    BY DEF Percents
  <2>2. pct * n >= 1 * n /\ pct * n <= 100 * n /\ pct * n \in Nat
    BY <2>1
  <2> QED
    BY <2>1, <2>2
<1>2. ceiling \in 1..n /\ product <= 100 * ceiling /\ 100 * (ceiling - 1) < product
  <2> HIDE DEF product
  <2> QED
    BY <1>1
<1>3. Rank(n, pct) = ceiling
  BY <1>2 DEF Rank
<1> QED
  BY <1>2, <1>3

(* A higher percentile has no lower rank ...                               *)
LEMMA RankClimbs ==
  ASSUME NEW n \in Nat \ {0}, NEW p \in Percents, NEW q \in Percents, p <= q
  PROVE  Rank(n, p) <= Rank(n, q)
<1>1. p * n <= q * n /\ p * n \in Nat /\ q * n \in Nat
  BY DEF Percents
<1>2. /\ Rank(n, p) \in 1..n /\ 100 * (Rank(n, p) - 1) < p * n
      /\ Rank(n, q) \in 1..n /\ q * n <= 100 * Rank(n, q)
  BY RankIsNearest
<1> DEFINE a == p * n
           b == q * n
<1>3. a \in Nat /\ b \in Nat /\ a <= b
      /\ 100 * (Rank(n, p) - 1) < a /\ b <= 100 * Rank(n, q)
  BY <1>1, <1>2
<1> HIDE DEF a, b
<1> QED
  BY <1>2, <1>3

(* ... so that of one window p50 <= p95 <= p99, whatever its samples are.  *)
THEOREM PercentilesAreOrdered ==
  ASSUME NEW s \in Seq(Nat), s # <<>>, Sorted(s),
         NEW p \in Percents, NEW q \in Percents, p <= q
  PROVE  Percentile(s, p) <= Percentile(s, q)
<1>1. Len(s) \in Nat \ {0} /\ DOMAIN s = 1..Len(s)
  OBVIOUS
<1>2. /\ Rank(Len(s), p) \in 1..Len(s)
      /\ Rank(Len(s), q) \in 1..Len(s)
      /\ Rank(Len(s), p) <= Rank(Len(s), q)
  BY <1>1, RankIsNearest, RankClimbs
<1>3. s[Rank(Len(s), p)] <= s[Rank(Len(s), q)]
  BY <1>1, <1>2 DEF Sorted
<1> QED
  BY <1>3 DEF Percentile

----------------------------------------------------------------------------
(* error_rate is a percentage: errors that outnumber the requests of the   *)
(* window, because their requests were counted in another, do not show.    *)
THEOREM RateIsAPercentage ==
  ASSUME NEW w \in Windows
  PROVE  ErrorRate(w) \in 0..100
<1>1. w.requests \in Nat /\ w.errors \in Nat
  BY DEF Windows
<1>2. CASE w.requests = 0 \/ w.errors > w.requests
  BY <1>1, <1>2 DEF ErrorRate
<1>3. CASE w.requests # 0 /\ w.errors <= w.requests
  <2> DEFINE r == w.requests
             e == w.errors
             rate == (100 * e) \div r
  <2>1. r \in Nat \ {0} /\ e \in Nat /\ e <= r
    BY <1>1, <1>3
  <2>2. rate \in Int /\ r * rate <= 100 * e /\ 100 * e < r * rate + r
    <3> HIDE DEF r, e
    <3> QED
      BY <2>1, Z3
  <2>3. rate \in 0..100
    <3> HIDE DEF r, e, rate
    <3>1. rate >= 0
      BY <2>1, <2>2
    <3>2. rate <= 100
      BY <2>1, <2>2
    <3> QED
      BY <2>2, <3>1, <3>2
  <2> QED
    BY <1>3, <2>1, <2>3 DEF ErrorRate
<1> QED
  BY <1>1, <1>2, <1>3

----------------------------------------------------------------------------
(* A monitor without a sample is quiet, and gt and lte, and lt and gte,    *)
(* are each other's negation on one that has some: evaluate_monitor never  *)
(* both opens and recovers.                                                *)
THEOREM ComparatorsPair ==
  ASSUME NEW limit \in Int, NEW v \in Int, NoValue \notin Int
  PROVE  /\ \A c \in Comparators : ~Breaches(c, limit, NoValue)
         /\ Breaches("gt", limit, v) <=> ~Breaches("lte", limit, v)
         /\ Breaches("lt", limit, v) <=> ~Breaches("gte", limit, v)
BY DEF Breaches, Comparators

----------------------------------------------------------------------------
Weeks == 1..53

(* Later weeks have higher numbers, over the end of a year too: no two     *)
(* weeks share one (a year of 52 weeks leaves a number out).               *)
THEOREM WeeksClimb ==
  ASSUME NEW y \in Nat, NEW x \in Nat, NEW w \in Weeks, NEW v \in Weeks,
         y < x \/ (y = x /\ w < v)
  PROVE  WeekIndex(y, w) < WeekIndex(x, v)
BY DEF Weeks, WeekIndex

(* Whoever is on call is a member of the schedule, and there is somebody   *)
(* unless it has none (Schedule.current_oncall).                           *)
THEOREM SomebodyIsOncall ==
  ASSUME NEW People, NEW members \in Seq(People), members # <<>>,
         NEW y \in Nat, NEW w \in Weeks
  PROVE  CurrentOncall(members, y, w) \in People
<1>1. Len(members) \in Nat \ {0} /\ DOMAIN members = 1..Len(members)
  OBVIOUS
<1>2. WeekIndex(y, w) \in Nat
  BY DEF Weeks, WeekIndex
<1>3. Position(Len(members), y, w) \in 1..Len(members)
  <2> DEFINE n == Len(members)
             i == WeekIndex(y, w)
  <2>1. n \in Nat \ {0} /\ i \in Nat
    BY <1>1, <1>2
  <2>2. i % n \in 0..(n - 1)
    <3> HIDE DEF n, i
    <3> QED
      BY <2>1
  <2> QED
    BY <2>1, <2>2 DEF Position
<1> QED
  BY <1>1, <1>3 DEF CurrentOncall

LEMMA RemainderIsUnique ==
  ASSUME NEW n \in Nat \ {0}, NEW x \in Nat, NEW k \in Nat, NEW r \in 0..(n - 1),
         x = n * k + r
  PROVE  x % n = r
<1> DEFINE d == x \div n
           m == x % n
<1>1. x = n * d + m /\ m \in 0..(n - 1) /\ d \in Int
  OBVIOUS
<1> HIDE DEF d, m
<1>2. CASE d < k
  <2>1. n * (d + 1) <= n * k /\ n * (d + 1) = n * d + n
    BY <1>1, <1>2
  <2> QED
    BY <1>1, <2>1
<1>3. CASE k < d
  <2>1. n * (k + 1) <= n * d /\ n * (k + 1) = n * k + n
    BY <1>1, <1>3
  <2> QED
    BY <1>1, <2>1
<1>4. CASE k = d
  BY <1>1, <1>4 DEF m
<1> QED
  BY <1>1, <1>2, <1>3, <1>4

(* Within a year the pager is handed to the next member every week, and to *)
(* the first after the last.                                               *)
THEOREM PagerMovesOn ==
  ASSUME NEW n \in Nat \ {0}, NEW y \in Nat, NEW w \in Weeks, w + 1 \in Weeks
  PROVE  Position(n, y, w + 1)
           = IF Position(n, y, w) = n THEN 1 ELSE Position(n, y, w) + 1
<1> DEFINE i == WeekIndex(y, w)
<1>1. i \in Nat /\ WeekIndex(y, w + 1) = i + 1
  BY DEF Weeks, WeekIndex
<1>2. (i + 1) % n = IF i % n = n - 1 THEN 0 ELSE (i % n) + 1
  <2> HIDE DEF i
  <2>1. i = n * (i \div n) + (i % n) /\ i % n \in 0..(n - 1) /\ i \div n \in Nat
    BY <1>1
  <2>2. CASE i % n = n - 1
    <3> DEFINE k == (i \div n) + 1
    <3>1. i + 1 = n * k /\ k \in Nat
      BY <1>1, <2>1, <2>2
    <3> HIDE DEF k
    <3>2. i + 1 \in Nat /\ 0 \in 0..(n - 1) /\ i + 1 = n * k + 0
      BY <1>1, <3>1
    <3>3. (i + 1) % n = 0
      <4> DEFINE r == 0
      <4>1. r \in 0..(n - 1) /\ i + 1 = n * k + r
        BY <3>2
      <4> HIDE DEF r
      <4>2. (i + 1) % n = r
        BY <3>1, <3>2, <4>1, RemainderIsUnique
      <4> QED
        BY <4>2 DEF r
    <3> QED
      BY <1>1, <2>1, <2>2, <3>3
  <2>3. CASE i % n # n - 1
    <3>1. i + 1 = n * (i \div n) + ((i % n) + 1)
      BY <1>1, <2>1
    <3> QED
      BY <1>1, <2>1, <2>3, <3>1, RemainderIsUnique
  <2> QED
    BY <2>2, <2>3
<1>3. i % n \in 0..(n - 1)
  <2> HIDE DEF i
  <2> QED
    BY <1>1
<1> HIDE DEF i
<1>4. WeekIndex(y, w) = i
  BY DEF i
<1> QED
  BY <1>1, <1>2, <1>3, <1>4 DEF Position

----------------------------------------------------------------------------
(***************************************************************************)
(* Choices among steps and incidents                                       *)
(***************************************************************************)

(* Of finitely many things the value of one is the highest.                *)
LEMMA HighestIs ==
  ASSUME NEW S, IsFiniteSet(S), S # {}, NEW f \in [S -> Int]
  PROVE  \E s \in S : \A o \in S : f[s] >= f[o]
<1> DEFINE Has(T) == \E s \in T : \A o \in T : f[s] >= f[o]
           Bad    == {T \in FiniteSubsetsOf(S) : T # {} /\ ~Has(T)}
<1>1. CASE Bad = {}
  <2>1. S \in FiniteSubsetsOf(S)
    BY DEF FiniteSubsetsOf
  <2> QED
    BY <1>1, <2>1
<1>2. CASE Bad # {}
  <2>1. \E T \in Bad : \A U \in Bad : ~(<<U, T>> \in StrictSubsetOrdering(S))
    <3>1. Bad \subseteq FiniteSubsetsOf(S)
      OBVIOUS
    <3> HIDE DEF Bad
    <3> QED
      BY <1>2, <3>1, FS_StrictSubsetOrderingWellFounded, WFMin
  <2>2. PICK T \in Bad : \A U \in Bad : ~(<<U, T>> \in StrictSubsetOrdering(S))
    BY <2>1
  <2>3. T \subseteq S /\ IsFiniteSet(T) /\ T # {} /\ ~Has(T)
    BY DEF FiniteSubsetsOf
  <2>4. PICK x : x \in T
    BY <2>3
  <2> DEFINE U == T \ {x}
  <2>5. U \in FiniteSubsetsOf(S) /\ <<U, T>> \in StrictSubsetOrdering(S)
    BY <2>3, <2>4, FS_RemoveElement DEF FiniteSubsetsOf, StrictSubsetOrdering
  <2>6. U = {} \/ Has(U)
    <3> HIDE DEF U, Has
    <3> QED
      BY <2>2, <2>5
  <2>7. f[x] \in Int /\ \A y \in U : f[y] \in Int
    BY <2>3, <2>4
  <2>8. CASE U = {}
    BY <2>3, <2>4, <2>7, <2>8
  <2>9. CASE Has(U)
    <3>1. PICK y \in U : \A o \in U : f[y] >= f[o]
      BY <2>9
    <3>2. T = U \union {x} /\ y \in T
      BY <2>4, <3>1
    <3>3. CASE f[x] >= f[y]
      <4>1. \A o \in T : f[x] >= f[o]
        BY <2>7, <3>1, <3>2, <3>3
      <4> QED
        BY <2>3, <2>4, <4>1
    <3>4. CASE f[y] >= f[x]
      <4>1. \A o \in T : f[y] >= f[o]
        BY <2>7, <3>1, <3>2, <3>4
      <4> QED
        BY <2>3, <3>2, <4>1
    <3> QED
      BY <2>7, <3>1, <3>3, <3>4
  <2> QED
    BY <2>6, <2>8, <2>9
<1> QED
  BY <1>1, <1>2

(* The steps of a plan                                                     *)
StepRows == Steps \union NewSteps

LEMMA HighestStep ==
  ASSUME NEW S \in SUBSET StepRows, S # {}
  PROVE  \E s \in S : \A o \in S : s.order >= o.order
<1> DEFINE f == [s \in S |-> s.order]
<1>1. IsFiniteSet(S)
  BY OncallAssumption, FS_Union, FS_Subset DEF StepRows
<1>2. f \in [S -> Int]
  BY OncallAssumption DEF StepRows
<1>3. \E s \in S : \A o \in S : f[s] >= f[o]
  <2> HIDE DEF f
  <2> QED
    BY <1>1, <1>2, HighestIs
<1> QED
  BY <1>3

LEMMA LowestStep ==
  ASSUME NEW S \in SUBSET StepRows, S # {}
  PROVE  \E s \in S : \A o \in S : s.order <= o.order
<1> DEFINE f == [s \in S |-> 0 - s.order]
<1>1. IsFiniteSet(S)
  BY OncallAssumption, FS_Union, FS_Subset DEF StepRows
<1>2. \A s \in S : s.order \in Int
  BY OncallAssumption DEF StepRows
<1>3. f \in [S -> Int]
  BY <1>2
<1>4. \E s \in S : \A o \in S : f[s] >= f[o]
  <2> HIDE DEF f
  <2> QED
    BY <1>1, <1>3, HighestIs
<1>5. PICK s \in S : \A o \in S : f[s] >= f[o]
  BY <1>4
<1>6. \A o \in S : s.order <= o.order
  BY <1>2, <1>5
<1> QED
  BY <1>6

(* next_step takes one of the steps that are due, and none is higher.      *)
Due(policy, minutes) == {s \in steps : s.policy = policy /\ s.after <= minutes}

LEMMA NextStepIsHighest ==
  ASSUME steps \subseteq StepRows, NEW p, NEW n, Due(p, n) # {}
  PROVE  /\ NextStep(p, n) \in Due(p, n)
         /\ \A o \in Due(p, n) : NextStep(p, n).order >= o.order
<1> DEFINE due == Due(p, n)
<1>1. \E s \in due : \A o \in due : s.order >= o.order
  BY HighestStep DEF Due
<1>2. NextStep(p, n) = CHOOSE s \in due : \A o \in due : s.order >= o.order
  BY DEF NextStep, Due
<1> HIDE DEF due
<1>3. NextStep(p, n) \in due /\ \A o \in due : NextStep(p, n).order >= o.order
  BY <1>1, <1>2
<1> QED
  BY <1>3 DEF due

LEMMA NextStepIsNobody ==
  ASSUME NEW p, NEW n, Due(p, n) = {}
  PROVE  NextStep(p, n) = Nobody
BY DEF NextStep, Due

(* Somebody of a rota is paged, or nobody (first_oncall_user).             *)
People == UNION {Range(Rota[s]) : s \in DOMAIN Rota}

Paged == People \union {Nobody, NoValue}

LEMMA PagedIsSomebody ==
  ASSUME steps \subseteq StepRows, NEW p
  PROVE  FirstOncallUser(p) \in Paged
<1> DEFINE mine  == {s \in steps : s.policy = p}
           first == CHOOSE s \in mine : \A o \in mine : s.order <= o.order
<1>1. CASE mine = {}
  BY <1>1 DEF FirstOncallUser, Paged
<1>2. CASE mine # {}
  <2>1. \E s \in mine : \A o \in mine : s.order <= o.order
    BY <1>2, LowestStep
  <2>2. first \in mine
    <3> HIDE DEF mine
    <3> QED
      BY <2>1
  <2>3. FirstOncallUser(p) = IF first.schedule = Nobody THEN Nobody
                             ELSE CurrentOncall(Rota[first.schedule], Year, Week)
    BY <1>2 DEF FirstOncallUser
  <2>4. first \in StepRows
    BY <2>2
  <2> HIDE DEF first
  <2>5. CASE first.schedule = Nobody
    BY <2>3, <2>5 DEF Paged
  <2>6. CASE first.schedule # Nobody
    <3> DEFINE s == first.schedule
    <3>1. s \in DOMAIN Rota /\ Rota[s] \in Seq(Range(Rota[s]))
      BY <2>4, <2>6, OncallAssumption DEF StepRows
    <3>2. Range(Rota[s]) \subseteq Paged
      BY <3>1 DEF Paged, People
    <3> HIDE DEF s
    <3>3. CurrentOncall(Rota[s], Year, Week) \in Paged
      <4>1. CASE Rota[s] = <<>>
        BY <4>1 DEF CurrentOncall, Paged
      <4>2. CASE Rota[s] # <<>>
        BY <3>1, <3>2, <4>2, OncallAssumption, SomebodyIsOncall DEF Weeks
      <4> QED
        BY <4>1, <4>2
    <3> QED
      BY <2>3, <2>6, <3>3 DEF s
  <2> QED
    BY <2>5, <2>6
<1> QED
  BY <1>1, <1>2

LEMMA MinIs ==
  ASSUME NEW S \in SUBSET Nat, S # {}
  PROVE  Min(S) \in S
<1>1. \E u \in S : \A y \in S : ~ (<<y, u>> \in OpToRel(<, Nat))
  BY WFMin, NatLessThanWellFounded
<1>2. PICK u \in S : \A y \in S : ~ (y < u)
  BY <1>1 DEF OpToRel
<1>3. \A y \in S : u <= y
  BY <1>2
<1> QED
  BY <1>3, Zenon DEF Min

----------------------------------------------------------------------------
(***************************************************************************)
(* What the rows, the passes and the ticks hold                            *)
(***************************************************************************)

Signatures == Errors \union (Monitors \X Metrics \X Comparators \X Nat)

Statuses == {"firing", "acknowledged", "remediating", "resolved"}

IncidentRows ==
  [kind : {"traceback", "breach"}, signature : Signatures, severity : Severities,
   status : Statuses, openedAt : Nat, paged : Paged]

InHand == Monitors \X FormRows

Passes ==
  [pc : {"idle", "next", "breach", "recover", "resolve"}, todo : SUBSET InHand,
   mute : SUBSET Monitors, seen : Measured \union {Nobody},
   hand : InHand \union {Nobody}, hit : Nat]

Ticks ==
  [pc : {"idle", "look", "record"}, hit : Nat, severity : Severities, order : Int]

WorldTypes ==
  /\ monitor \in [Monitors -> FormRows \union {Nobody, Deleted}]
  /\ muted \subseteq Monitors
  /\ window \in Measured
  /\ now \in 0..MaxNow
  /\ measures \in 0..MaxMeasures /\ events \in 0..MaxEvents

IncidentTypes ==
  /\ incidents \in Seq(IncidentRows)
  /\ escalated \in Seq(Seq(Int)) /\ Len(escalated) = Len(incidents)
  /\ postmortem \subseteq DOMAIN incidents /\ looping \subseteq DOMAIN incidents
  /\ raced \subseteq DOMAIN incidents /\ rerouted \subseteq DOMAIN incidents

PlanTypes ==
  /\ rules \in Seq(Range(Rules) \union NewRules)
  /\ steps \subseteq StepRows

PassTypes ==
  /\ evaluator \in [Evaluators -> Passes]
  /\ \A e \in Evaluators :
       LET v == evaluator[e] IN
       /\ v.pc \in {"breach", "recover", "resolve"}
            => v.hand \in InHand /\ v.seen \in Measured
       /\ v.pc = "resolve" => v.hit \in DOMAIN incidents

TickTypes ==
  /\ ticker \in [Tickers -> Ticks]
  /\ \A t \in Tickers :
       ticker[t].pc \in {"look", "record"} => ticker[t].hit \in DOMAIN incidents

TypeOK == WorldTypes /\ IncidentTypes /\ PlanTypes /\ PassTypes /\ TickTypes

(* The steps that are due for an incident; one is of this order or higher. *)
DueFor(i) == Due(Route(incidents[i].severity), now - incidents[i].openedAt)

Reaches(i, order) == \E s \in DueFor(i) : order <= s.order

Records(t, i) == ticker[t].pc = "record" /\ ticker[t].hit = i

(* Of an incident whose route is still the one it had, and which no two    *)
(* ticks have recorded at once: its entries climb, to a step that is due;  *)
(* whoever works on it knows its severity; and whoever is about to record  *)
(* a step is alone, the step is due and above all entries.                 *)
Climbs(i) ==
  \A a, b \in DOMAIN escalated[i] : a < b => escalated[i][a] < escalated[i][b]

Reached(i) == \A a \in DOMAIN escalated[i] : Reaches(i, escalated[i][a])

Informed(i) ==
  \A t \in Tickers : ticker[t].pc # "idle" /\ ticker[t].hit = i
                       => ticker[t].severity = incidents[i].severity

Above(i) ==
  \A t \in Tickers : Records(t, i) =>
    /\ Reaches(i, ticker[t].order)
    /\ \A a \in DOMAIN escalated[i] : escalated[i][a] < ticker[t].order

Alone(i) == \A t, q \in Tickers : Records(t, i) /\ Records(q, i) => t = q

Ladder(i) == Climbs(i) /\ Reached(i) /\ Informed(i) /\ Above(i) /\ Alone(i)

LadderInv == \A i \in DOMAIN incidents \ (raced \union rerouted) : Ladder(i)

(* What a pass is about to resolve, and why.                               *)
Healthy(v) ==
  ~Breaches(v.hand[2].comparator, v.hand[2].threshold,
            Rollup(v.seen, WindowMinutes)[v.hand[2].metric])

SurgeryInv ==
  \A e \in Evaluators :
    LET v == evaluator[e] IN
    /\ v.pc \in {"recover", "resolve"} => Healthy(v)
    /\ v.pc = "resolve" =>
         /\ incidents[v.hit].kind = "breach"
         /\ incidents[v.hit].signature = BreachSignature(v.hand[1], v.hand[2])

(***************************************************************************)
(* What a step does to the rows of incidents                               *)
(***************************************************************************)

LEMMA StatusMoves ==
  ASSUME IncidentTypes, NEW i \in DOMAIN incidents, NEW s \in Statuses,
         incidents' = [incidents EXCEPT ![i].status = s]
  PROVE  /\ incidents' \in Seq(IncidentRows) /\ Len(incidents') = Len(incidents)
         /\ DOMAIN incidents' = DOMAIN incidents
         /\ \A j \in DOMAIN incidents :
              /\ incidents'[j].kind = incidents[j].kind
              /\ incidents'[j].signature = incidents[j].signature
              /\ incidents'[j].severity = incidents[j].severity
              /\ incidents'[j].openedAt = incidents[j].openedAt
         /\ \A j \in DOMAIN incidents \ {i} : incidents'[j] = incidents[j]
<1>1. incidents \in Seq(IncidentRows) /\ incidents[i] \in IncidentRows
  BY DEF IncidentTypes
<1> DEFINE row == [incidents[i] EXCEPT !.status = s]
<1>2. /\ row \in IncidentRows
      /\ row.kind = incidents[i].kind /\ row.signature = incidents[i].signature
      /\ row.severity = incidents[i].severity
      /\ row.openedAt = incidents[i].openedAt
  BY <1>1 DEF IncidentRows
<1>3. incidents' = [incidents EXCEPT ![i] = row]
  OBVIOUS
<1> HIDE DEF row
<1> QED
  BY <1>1, <1>2, <1>3

LEMMA SeverityMoves ==
  ASSUME IncidentTypes, NEW i \in DOMAIN incidents, NEW s \in Severities,
         incidents' = [incidents EXCEPT ![i].severity = s]
  PROVE  /\ incidents' \in Seq(IncidentRows) /\ Len(incidents') = Len(incidents)
         /\ DOMAIN incidents' = DOMAIN incidents
         /\ \A j \in DOMAIN incidents :
              /\ incidents'[j].kind = incidents[j].kind
              /\ incidents'[j].signature = incidents[j].signature
         /\ \A j \in DOMAIN incidents \ {i} : incidents'[j] = incidents[j]
<1>1. incidents \in Seq(IncidentRows) /\ incidents[i] \in IncidentRows
  BY DEF IncidentTypes
<1> DEFINE row == [incidents[i] EXCEPT !.severity = s]
<1>2. /\ row \in IncidentRows
      /\ row.kind = incidents[i].kind /\ row.signature = incidents[i].signature
  BY <1>1 DEF IncidentRows
<1>3. incidents' = [incidents EXCEPT ![i] = row]
  OBVIOUS
<1> HIDE DEF row
<1> QED
  BY <1>1, <1>2, <1>3

LEMMA CreateMoves ==
  ASSUME IncidentTypes, NEW x \in IncidentRows, Create(x)
  PROVE  /\ incidents' \in Seq(IncidentRows) /\ escalated' \in Seq(Seq(Int))
         /\ Len(incidents') = Len(incidents) + 1
         /\ Len(escalated') = Len(incidents')
         /\ DOMAIN incidents' = DOMAIN incidents \union {Len(incidents) + 1}
         /\ Len(incidents) + 1 \notin DOMAIN incidents
         /\ \A j \in DOMAIN incidents :
              incidents'[j] = incidents[j] /\ escalated'[j] = escalated[j]
         /\ escalated'[Len(incidents) + 1] = <<>>
<1>1. /\ incidents \in Seq(IncidentRows) /\ escalated \in Seq(Seq(Int))
      /\ Len(escalated) = Len(incidents) /\ <<>> \in Seq(Int)
  BY DEF IncidentTypes
<1>2. incidents' = Append(incidents, x) /\ escalated' = Append(escalated, <<>>)
  BY DEF Create
<1> HIDE DEF IncidentRows
<1> QED
  BY <1>1, <1>2

(* The incident that a traceback or a breach opens                         *)
LEMMA OpenedIs ==
  ASSUME WorldTypes, PlanTypes, NEW k \in {"traceback", "breach"},
         NEW s \in Signatures, NEW y \in Severities
  PROVE  Opened(k, s, y) \in IncidentRows
<1>1. FirstOncallUser(Route(y)) \in Paged
  BY PagedIsSomebody DEF PlanTypes
<1>2. now \in Nat
  BY OncallAssumption DEF WorldTypes
<1> QED
  BY <1>1, <1>2 DEF Opened, IncidentRows, Statuses

LEMMA SignatureIs ==
  ASSUME NEW h \in InHand
  PROVE  BreachSignature(h[1], h[2]) \in Signatures /\ h[2].severity \in Severities
BY DEF InHand, FormRows, BreachSignature, Signatures

(* Every step leaves the incidents alone, opens one, changes the status of *)
(* one or its severity; it records an escalation or leaves those alone.    *)
Opens ==
  /\ \E x \in IncidentRows : Create(x)
  /\ UNCHANGED <<now, rules, steps, ticker, raced, rerouted>>

ChangesStatus ==
  /\ \E i \in DOMAIN incidents, s \in Statuses :
       incidents' = [incidents EXCEPT ![i].status = s]
  /\ looping' \subseteq DOMAIN incidents /\ postmortem' \subseteq DOMAIN incidents
  /\ UNCHANGED <<escalated, now, rules, steps, ticker, raced, rerouted>>

ChangesSeverity ==
  /\ \E i \in DOMAIN incidents, s \in Severities :
       /\ incidents' = [incidents EXCEPT ![i].severity = s]
       /\ rerouted' = rerouted \union {i}
  /\ UNCHANGED <<escalated, looping, postmortem, now, rules, steps, ticker, raced>>

Replans ==
  /\ \/ \E r \in NewRules : AddRule(r)
     \/ \E s \in NewSteps : AddStep(s)
  /\ UNCHANGED <<incidents, escalated, looping, postmortem, now, ticker, raced>>

Rests ==
  /\ postmortem' \subseteq DOMAIN incidents
  /\ now' = now \/ (now < MaxNow /\ now' = now + 1)
  /\ UNCHANGED <<incidents, escalated, looping, rules, steps, ticker, raced, rerouted>>

SomeTick ==
  /\ \E t \in Tickers : TickerStep(t)
  /\ UNCHANGED <<incidents, looping, postmortem, now, rules, steps, rerouted>>

LEMMA StepIs ==
  ASSUME TypeOK, [Next]_vars
  PROVE  Opens \/ ChangesStatus \/ ChangesSeverity \/ Replans \/ Rests \/ SomeTick
<1> USE DEF monVars, incVars, planVars, history, counts, Event
<1>0. /\ postmortem \subseteq DOMAIN incidents /\ looping \subseteq DOMAIN incidents
      /\ "firing" \in Statuses /\ "acknowledged" \in Statuses
      /\ "remediating" \in Statuses /\ "resolved" \in Statuses
  BY DEF TypeOK, IncidentTypes, Statuses
<1>1. ASSUME Measure \/ TimePasses PROVE Rests
  BY <1>0, <1>1 DEF Measure, TimePasses, Rests
<1>2. ASSUME NEW x \in Errors, Traceback(x) PROVE Opens
  <2>1. Opened("traceback", x, 2) \in IncidentRows
    BY OpenedIs DEF TypeOK, Signatures, Severities
  <2> QED
    BY <1>2, <2>1 DEF Traceback, Opens
<1>3. ASSUME NEW e \in Evaluators, Begin(e) \/ Look(e) \/ Recover(e) PROVE Rests
  BY <1>0, <1>3 DEF Begin, Look, Recover, Rests
<1>4. ASSUME NEW e \in Evaluators, Breach(e) PROVE Opens \/ Rests
  <2> DEFINE v == evaluator[e]
  <2>1. v.hand \in InHand
    BY <1>4 DEF Breach, TypeOK, PassTypes
  <2>2. Opened("breach", BreachSignature(v.hand[1], v.hand[2]), v.hand[2].severity)
          \in IncidentRows
    BY <2>1, SignatureIs, OpenedIs DEF TypeOK
  <2> QED
    BY <1>0, <1>4, <2>2 DEF Breach, Opens, Rests
<1>5. ASSUME NEW e \in Evaluators, ResolveOwn(e) PROVE ChangesStatus
  <2>1. evaluator[e].hit \in DOMAIN incidents
    BY <1>5 DEF ResolveOwn, TypeOK, PassTypes
  <2> QED
    BY <1>0, <1>5, <2>1 DEF ResolveOwn, ChangesStatus
<1>6. ASSUME NEW t \in Tickers, TickerStep(t) PROVE SomeTick
  BY <1>6 DEF SomeTick, TickerStep, TickStart, TickLook, TickRecord
<1>7. ASSUME NEW m \in Monitors, NEW f \in Forms, SaveMonitor(m, f) PROVE Rests
  BY <1>0, <1>7 DEF SaveMonitor, MonitorForm, Rests
<1>8. ASSUME NEW m \in Monitors,
             Toggle(m) \/ Mute(m) \/ MuteExpires(m) \/ Delete(m)
      PROVE  Rests
  BY <1>0, <1>8 DEF Toggle, Mute, MuteExpires, Delete, MonitorForm, Rests
<1>9. ASSUME NEW i \in DOMAIN incidents,
             Remediates(i) \/ Remediated(i) \/ Ack(i) \/ Resolve(i) \/ Reopen(i)
      PROVE  ChangesStatus
  <2>1. CASE Remediates(i)
    BY <1>0, <2>1 DEF Remediates, ChangesStatus
  <2>2. CASE Remediated(i)
    BY <1>0, <2>2 DEF Remediated, ChangesStatus
  <2>3. CASE Ack(i)
    BY <1>0, <2>3 DEF Ack, IncidentForm, ChangesStatus
  <2>4. CASE Resolve(i)
    <3>1. postmortem' \subseteq DOMAIN incidents
      BY <1>0, <2>4 DEF Resolve
    <3> QED
      BY <1>0, <2>4, <3>1 DEF Resolve, IncidentForm, ChangesStatus
  <2>5. CASE Reopen(i)
    BY <1>0, <2>5 DEF Reopen, IncidentForm, ChangesStatus
  <2> QED
    BY <1>9, <2>1, <2>2, <2>3, <2>4, <2>5
<1>10. ASSUME NEW i \in DOMAIN incidents, ChangeSeverity(i) PROVE ChangesSeverity
  BY <1>10 DEF ChangeSeverity, IncidentForm, ChangesSeverity
<1>11. ASSUME NEW i \in DOMAIN incidents, WritePostmortem(i) PROVE Rests
  BY <1>0, <1>11 DEF WritePostmortem, IncidentForm, Rests
<1>12. ASSUME NEW r \in NewRules, AddRule(r) PROVE Replans
  BY <1>12 DEF AddRule, PlanForm, Replans
<1>13. ASSUME NEW s \in NewSteps, AddStep(s) PROVE Replans
  BY <1>13 DEF AddStep, PlanForm, Replans
<1>14. ASSUME UNCHANGED vars PROVE Rests
  BY <1>0, <1>14 DEF vars, Rests
<1> QED
  BY <1>1, <1>2, <1>3, <1>4, <1>5, <1>6, <1>7, <1>8, <1>9, <1>10, <1>11, <1>12,
     <1>13, <1>14 DEF Next, EvaluatorStep

(* A tick records at the end of the escalations of its incident.           *)
LEMMA RecordMoves ==
  ASSUME IncidentTypes, TickTypes, NEW t \in Tickers, TickRecord(t)
  PROVE  LET i == ticker[t].hit IN
         /\ i \in DOMAIN incidents /\ ticker[t].order \in Int
         /\ escalated' \in Seq(Seq(Int)) /\ Len(escalated') = Len(escalated)
         /\ escalated[i] \in Seq(Int)
         /\ escalated'[i] = Append(escalated[i], ticker[t].order)
         /\ \A j \in DOMAIN incidents \ {i} : escalated'[j] = escalated[j]
<1> DEFINE i == ticker[t].hit
<1>1. /\ ticker[t].pc = "record" /\ i \in DOMAIN incidents
      /\ ticker[t].order \in Int
  BY DEF TickRecord, TickTypes, Ticks
<1>2. /\ escalated \in Seq(Seq(Int)) /\ DOMAIN escalated = DOMAIN incidents
      /\ incidents \in Seq(IncidentRows)
  BY DEF IncidentTypes
<1>3. escalated[i] \in Seq(Int)
  BY <1>1, <1>2
<1> DEFINE longer == Append(escalated[i], ticker[t].order)
<1>4. longer \in Seq(Int)
  BY <1>1, <1>3
<1>5. escalated' = [escalated EXCEPT ![i] = longer]
  BY DEF TickRecord
<1> HIDE DEF longer
<1>6. /\ escalated' \in Seq(Seq(Int)) /\ Len(escalated') = Len(escalated)
      /\ escalated'[i] = longer
      /\ \A j \in DOMAIN incidents \ {i} : escalated'[j] = escalated[j]
  BY <1>1, <1>2, <1>4, <1>5
<1> QED
  BY <1>1, <1>3, <1>6 DEF longer

(* A tick goes to its next stage and nobody else's does.                   *)
TickGoes(t) ==
  /\ ticker' \in [Tickers -> Ticks]
  /\ \A q \in Tickers \ {t} : ticker'[q] = ticker[q]

LEMMA StillIs == Still \in Ticks /\ Still.pc = "idle"
BY DEF Still, Ticks, Severities

LEMMA StartGoes ==
  ASSUME IncidentTypes, TickTypes, NEW t \in Tickers, NEW i \in DOMAIN incidents,
         TickStart(t, i)
  PROVE  /\ TickGoes(t) /\ ticker'[t].pc = "look" /\ ticker'[t].hit = i
         /\ ticker'[t].severity = incidents[i].severity
<1>1. /\ ticker \in [Tickers -> Ticks] /\ i \in Nat
      /\ incidents[i].severity \in Severities
  <2>1. incidents \in Seq(IncidentRows) /\ ticker \in [Tickers -> Ticks]
    BY DEF IncidentTypes, TickTypes
  <2>2. incidents[i] \in IncidentRows /\ i \in Nat
    BY <2>1
  <2> QED
    BY <2>1, <2>2 DEF IncidentRows
<1>2. ticker' = [ticker EXCEPT ![t] =
        [Still EXCEPT !.pc = "look", !.hit = i, !.severity = incidents[i].severity]]
  BY DEF TickStart
<1> QED
  BY <1>1, <1>2, StillIs DEF TickGoes, Ticks

LEMMA LookGoes ==
  ASSUME TypeOK, NEW t \in Tickers, TickLook(t)
  PROVE  LET k    == ticker[t]
             step == NextStep(Route(k.severity), now - incidents[k.hit].openedAt)
         IN  /\ TickGoes(t)
             /\ \/ /\ ticker'[t].pc = "idle" /\ raced' = raced
                \/ /\ ticker'[t].pc = "record" /\ ticker'[t].hit = k.hit
                   /\ ticker'[t].severity = k.severity
                   /\ ticker'[t].order = step.order
                   /\ step \in Due(Route(k.severity), now - incidents[k.hit].openedAt)
                   /\ \A o \in Due(Route(k.severity), now - incidents[k.hit].openedAt) :
                        step.order >= o.order
                   /\ step.order \notin Range(escalated[k.hit])
                   /\ raced' = IF \E q \in Tickers \ {t} : Records(q, k.hit)
                               THEN raced \union {k.hit} ELSE raced
<1> DEFINE k      == ticker[t]
           policy == Route(k.severity)
           length == now - incidents[k.hit].openedAt
           step   == NextStep(policy, length)
<1>1. ticker \in [Tickers -> Ticks] /\ steps \subseteq StepRows
  BY DEF TypeOK, TickTypes, PlanTypes
<1>2. CASE step = Nobody \/ (step # Nobody /\ Escalated(k.hit, step.order))
  <2>1. ticker' = [ticker EXCEPT ![t] = Still] /\ raced' = raced
    BY <1>2 DEF TickLook
  <2> QED
    BY <1>1, <2>1, StillIs DEF TickGoes
<1>3. CASE ~(step = Nobody \/ (step # Nobody /\ Escalated(k.hit, step.order)))
  <2>1. /\ ticker' = [ticker EXCEPT ![t].pc = "record", ![t].order = step.order]
        /\ raced' = IF \E q \in Tickers \ {t} : Records(q, k.hit)
                    THEN raced \union {k.hit} ELSE raced
    BY <1>3 DEF TickLook, Records
  <2>2. Due(policy, length) # {} /\ step.order \notin Range(escalated[k.hit])
    BY <1>3, NextStepIsNobody DEF Escalated
  <2>3. /\ step \in Due(policy, length)
        /\ \A o \in Due(policy, length) : step.order >= o.order
    <3> HIDE DEF policy, length
    <3> QED
      BY <1>1, <2>2, NextStepIsHighest
  <2>4. step.order \in Int
    BY <1>1, <2>3, OncallAssumption DEF Due, StepRows
  <2> HIDE DEF step
  <2>5. /\ TickGoes(t)
        /\ ticker'[t].pc = "record" /\ ticker'[t].hit = k.hit
        /\ ticker'[t].severity = k.severity /\ ticker'[t].order = step.order
    BY <1>1, <2>1, <2>4 DEF TickGoes, Ticks
  <2> QED
    BY <2>1, <2>2, <2>3, <2>5 DEF step
<1> QED
  BY <1>2, <1>3

LEMMA RecordGoes ==
  ASSUME TickTypes, NEW t \in Tickers, TickRecord(t)
  PROVE  TickGoes(t) /\ ticker'[t].pc = "idle"
BY StillIs DEF TickTypes, TickRecord, TickGoes

----------------------------------------------------------------------------
LEMMA IncidentTypesStep == TypeOK /\ [Next]_vars => IncidentTypes'
<1> SUFFICES ASSUME TypeOK, [Next]_vars PROVE IncidentTypes'
  OBVIOUS
<1> USE DEF IncidentTypes
<1>0. IncidentTypes /\ TickTypes
  BY DEF TypeOK
<1>1. CASE Opens
  <2>1. PICK x \in IncidentRows : Create(x)
    BY <1>1 DEF Opens
  <2> QED
    BY <1>0, <1>1, <2>1, CreateMoves DEF Opens, Create
<1>2. CASE ChangesStatus
  <2>1. PICK i \in DOMAIN incidents, s \in Statuses :
          incidents' = [incidents EXCEPT ![i].status = s]
    BY <1>2 DEF ChangesStatus
  <2> QED
    BY <1>0, <1>2, <2>1, StatusMoves DEF ChangesStatus
<1>3. CASE ChangesSeverity
  <2>1. PICK i \in DOMAIN incidents, s \in Severities :
          /\ incidents' = [incidents EXCEPT ![i].severity = s]
          /\ rerouted' = rerouted \union {i}
    BY <1>3 DEF ChangesSeverity
  <2> QED
    BY <1>0, <1>3, <2>1, SeverityMoves DEF ChangesSeverity
<1>4. CASE Replans
  BY <1>0, <1>4 DEF Replans, AddRule, AddStep
<1>5. CASE Rests
  BY <1>0, <1>5 DEF Rests
<1>6. CASE SomeTick
  <2>1. PICK t \in Tickers : TickerStep(t)
    BY <1>6 DEF SomeTick
  <2>2. ASSUME NEW i \in DOMAIN incidents, TickStart(t, i) PROVE IncidentTypes'
    BY <1>0, <2>2 DEF TickStart, incVars, history
  <2>3. CASE TickLook(t)
    <3>1. raced' = raced \/ raced' = raced \union {ticker[t].hit}
      BY <2>3 DEF TickLook
    <3>2. ticker[t].hit \in DOMAIN incidents
      BY <1>0, <2>3 DEF TickLook, TickTypes
    <3> QED
      BY <1>0, <2>3, <3>1, <3>2 DEF TickLook, incVars
  <2>4. CASE TickRecord(t)
    BY <1>0, <2>4, RecordMoves DEF TickRecord, history
  <2> QED
    BY <2>1, <2>2, <2>3, <2>4 DEF TickerStep
<1> QED
  BY <1>1, <1>2, <1>3, <1>4, <1>5, <1>6, StepIs

(* No incident is lost, and none changes its kind or its signature.        *)
LEMMA IncidentsLast ==
  ASSUME TypeOK, [Next]_vars
  PROVE  \A i \in DOMAIN incidents :
           /\ i \in DOMAIN incidents'
           /\ incidents'[i].kind = incidents[i].kind
           /\ incidents'[i].signature = incidents[i].signature
<1>0. IncidentTypes
  BY DEF TypeOK
<1>1. CASE Opens
  BY <1>0, <1>1, CreateMoves DEF Opens
<1>2. CASE ChangesStatus
  <2>1. PICK i \in DOMAIN incidents, s \in Statuses :
          incidents' = [incidents EXCEPT ![i].status = s]
    BY <1>2 DEF ChangesStatus
  <2> QED
    BY <1>0, <2>1, StatusMoves
<1>3. CASE ChangesSeverity
  <2>1. PICK i \in DOMAIN incidents, s \in Severities :
          incidents' = [incidents EXCEPT ![i].severity = s]
    BY <1>3 DEF ChangesSeverity
  <2> QED
    BY <1>0, <2>1, SeverityMoves
<1>4. CASE Replans \/ Rests \/ SomeTick
  BY <1>4 DEF Replans, Rests, SomeTick
<1> QED
  BY <1>1, <1>2, <1>3, <1>4, StepIs

LEMMA TickTypesStep == TypeOK /\ [Next]_vars => TickTypes'
<1> SUFFICES ASSUME TypeOK, [Next]_vars PROVE TickTypes'
  OBVIOUS
<1>0. IncidentTypes /\ TickTypes
  BY DEF TypeOK
<1>1. \A i \in DOMAIN incidents : i \in DOMAIN incidents'
  BY IncidentsLast
<1>2. CASE ticker' = ticker
  BY <1>0, <1>1, <1>2 DEF TickTypes
<1>3. ASSUME NEW t \in Tickers, TickerStep(t) PROVE TickTypes'
  <2>1. TickGoes(t) /\ (ticker'[t].pc # "idle" => ticker'[t].hit \in DOMAIN incidents)
    <3>1. ASSUME NEW i \in DOMAIN incidents, TickStart(t, i)
          PROVE  TickGoes(t) /\ ticker'[t].hit \in DOMAIN incidents
      BY <1>0, <3>1, StartGoes
    <3>2. CASE TickLook(t)
      <4>1. ticker[t].hit \in DOMAIN incidents
        BY <1>0, <3>2 DEF TickLook, TickTypes
      <4> QED
        BY <3>2, <4>1, LookGoes
    <3>3. CASE TickRecord(t)
      BY <1>0, <3>3, RecordGoes
    <3> QED
      BY <1>3, <3>1, <3>2, <3>3 DEF TickerStep
  <2> QED
    BY <1>0, <1>1, <2>1 DEF TickTypes, TickGoes
<1> QED
  BY <1>2, <1>3, StepIs DEF Opens, ChangesStatus, ChangesSeverity, Replans, Rests,
     SomeTick

LEMMA WorldTypesStep == TypeOK /\ [Next]_vars => WorldTypes'
<1> SUFFICES ASSUME TypeOK, [Next]_vars PROVE WorldTypes'
  OBVIOUS
<1> USE OncallAssumption DEF WorldTypes, Event, counts, monVars, MonitorForm, IncidentForm,
      PlanForm
<1>0. WorldTypes
  BY DEF TypeOK
<1>1. CASE Measure \/ TimePasses
  BY <1>0, <1>1 DEF Measure, TimePasses
<1>2. ASSUME NEW x \in Errors, Traceback(x) PROVE WorldTypes'
  BY <1>0, <1>2 DEF Traceback
<1>3. ASSUME NEW e \in Evaluators, EvaluatorStep(e) PROVE WorldTypes'
  BY <1>0, <1>3 DEF EvaluatorStep, Begin, Look, Recover, Breach, ResolveOwn
<1>4. ASSUME NEW t \in Tickers, TickerStep(t) PROVE WorldTypes'
  BY <1>0, <1>4 DEF TickerStep, TickStart, TickLook, TickRecord
<1>5. ASSUME NEW m \in Monitors, NEW f \in Forms, SaveMonitor(m, f) PROVE WorldTypes'
  BY <1>0, <1>5 DEF SaveMonitor
<1>6. ASSUME NEW m \in Monitors, Toggle(m) PROVE WorldTypes'
  <2>1. monitor[m] \in FormRows
    BY <1>0, <1>6 DEF Toggle, Exists
  <2>2. [monitor[m] EXCEPT !.enabled = ~monitor[m].enabled] \in FormRows
    BY <2>1 DEF FormRows
  <2>3. monitor' \in [Monitors -> FormRows \union {Nobody, Deleted}]
    BY <1>0, <1>6, <2>2 DEF Toggle
  <2> QED
    BY <1>0, <1>6, <2>3 DEF Toggle
<1>7. ASSUME NEW m \in Monitors, Mute(m) \/ MuteExpires(m) \/ Delete(m)
      PROVE  WorldTypes'
  BY <1>0, <1>7 DEF Mute, MuteExpires, Delete
<1>8. ASSUME NEW i \in DOMAIN incidents,
             Remediates(i) \/ Remediated(i) \/ Ack(i) \/ Resolve(i) \/ Reopen(i)
               \/ ChangeSeverity(i) \/ WritePostmortem(i)
      PROVE  WorldTypes'
  BY <1>0, <1>8 DEF Remediates, Remediated, Ack, Resolve, Reopen, ChangeSeverity,
     WritePostmortem
<1>9. ASSUME NEW r \in NewRules, AddRule(r) PROVE WorldTypes'
  BY <1>0, <1>9 DEF AddRule
<1>10. ASSUME NEW s \in NewSteps, AddStep(s) PROVE WorldTypes'
  BY <1>0, <1>10 DEF AddStep
<1>11. CASE UNCHANGED vars
  BY <1>0, <1>11 DEF vars
<1> QED
  BY <1>1, <1>2, <1>3, <1>4, <1>5, <1>6, <1>7, <1>8, <1>9, <1>10, <1>11 DEF Next

LEMMA PlanTypesStep == TypeOK /\ [Next]_vars => PlanTypes'
<1> SUFFICES ASSUME TypeOK, [Next]_vars PROVE PlanTypes'
  OBVIOUS
<1> DEFINE RuleRows == Range(Rules) \union NewRules
<1>0. rules \in Seq(RuleRows) /\ steps \subseteq StepRows
  BY DEF TypeOK, PlanTypes
<1>1. ASSUME NEW r \in NewRules, AddRule(r) PROVE PlanTypes'
  <2> DEFINE before == {n \in DOMAIN rules : rules[n].priority <= r.priority}
             place  == 1 + Cardinality(before)
  <2>1. Cardinality(before) \in 0..Len(rules)
    <3>1. /\ DOMAIN rules = 1..Len(rules) /\ Len(rules) \in Nat
          /\ before \subseteq 1..Len(rules)
      BY <1>0
    <3>2. IsFiniteSet(1..Len(rules)) /\ Cardinality(1..Len(rules)) = Len(rules)
      <4>1. Cardinality(1..Len(rules)) = IF 1 > Len(rules) THEN 0 ELSE Len(rules) - 1 + 1
        BY <3>1, FS_Interval
      <4> QED
        BY <3>1, <4>1, FS_Interval
    <3> DEFINE all == 1..Len(rules)
    <3>5. before \in SUBSET all /\ IsFiniteSet(all) /\ Cardinality(all) = Len(rules)
      BY <3>1, <3>2
    <3> HIDE DEF before, all
    <3>3. IsFiniteSet(before) /\ Cardinality(before) <= Len(rules)
      BY <3>5, FS_Subset
    <3>4. Cardinality(before) \in Nat
      BY <3>3, FS_CardinalityType
    <3> QED
      BY <3>1, <3>3, <3>4
  <2>2. place \in 1..(Len(rules) + 1) /\ Len(rules) \in Nat
    BY <1>0, <2>1
  <2>3. rules' = InsertAt(rules, place, r)
    BY <1>1 DEF AddRule
  <2> HIDE DEF place, RuleRows
  <2>4. /\ SubSeq(rules, 1, place - 1) \in Seq(RuleRows)
        /\ SubSeq(rules, place, Len(rules)) \in Seq(RuleRows)
    <3>1. /\ 1 \in Int /\ place - 1 \in Int /\ place \in Int
          /\ \A i \in 1..(place - 1) : i \in DOMAIN rules
          /\ \A i \in place..Len(rules) : i \in DOMAIN rules
      BY <1>0, <2>2
    <3> QED
      BY <1>0, <2>2, <3>1
  <2>5. <<r>> \in Seq(RuleRows)
    BY DEF RuleRows
  <2>6. rules' \in Seq(RuleRows)
    BY <2>3, <2>4, <2>5 DEF InsertAt
  <2> QED
    BY <1>0, <1>1, <2>6 DEF AddRule, PlanTypes, RuleRows
<1>2. ASSUME NEW s \in NewSteps, AddStep(s) PROVE PlanTypes'
  BY <1>0, <1>2 DEF AddStep, PlanTypes, StepRows
<1>3. CASE UNCHANGED <<rules, steps>>
  BY <1>0, <1>3 DEF PlanTypes
<1> QED
  BY <1>1, <1>2, <1>3, StepIs DEF Opens, ChangesStatus, ChangesSeverity, Replans,
     Rests, SomeTick

(* The stages of a pass. What is in its hand is a monitor that was there,  *)
(* with its row; what it will resolve is an incident.                      *)
PassGoes(e) ==
  /\ evaluator' \in [Evaluators -> Passes]
  /\ \A x \in Evaluators \ {e} : evaluator'[x] = evaluator[x]

LEMMA AsleepIs == Asleep \in Passes /\ Asleep.pc = "idle"
BY DEF Asleep, Passes

LEMMA OnwardsIs ==
  ASSUME NEW v \in Passes
  PROVE  Onwards(v) \in Passes /\ Onwards(v).pc \in {"idle", "next"}
<1>1. CASE v.todo = {}
  BY <1>1, AsleepIs DEF Onwards
<1>2. CASE v.todo # {}
  <2>1. Onwards(v) = [v EXCEPT !.pc = "next", !.hand = Nobody, !.hit = 0]
    BY <1>2 DEF Onwards
  <2>2. Onwards(v) \in Passes
    <3> DEFINE a == [v EXCEPT !.pc = "next"]
               b == [a EXCEPT !.hand = Nobody]
               c == [b EXCEPT !.hit = 0]
    <3>1. a \in Passes
      BY DEF Passes
    <3> HIDE DEF a
    <3>2. b \in Passes
      BY <3>1 DEF Passes
    <3> HIDE DEF b
    <3>3. c \in Passes
      BY <3>2 DEF Passes
    <3>4. Onwards(v) = c
      BY <2>1 DEF Passes, a, b
    <3> QED
      BY <3>3, <3>4
  <2>3. Onwards(v).pc = "next"
    BY <2>1 DEF Passes
  <2> QED
    BY <2>2, <2>3
<1> QED
  BY <1>1, <1>2

LEMMA BeginGoes ==
  ASSUME TypeOK, NEW e \in Evaluators, Begin(e)
  PROVE  PassGoes(e) /\ evaluator'[e].pc = "next"
<1> DEFINE todo == {<<m, monitor[m]>> : m \in {n \in Monitors : Enabled(n)}}
<1>1. evaluator \in [Evaluators -> Passes] /\ muted \in SUBSET Monitors
  BY DEF TypeOK, PassTypes, WorldTypes
<1>2. todo \in SUBSET InHand
  BY DEF TypeOK, WorldTypes, Enabled, Exists, InHand
<1>3. evaluator' = [evaluator EXCEPT ![e] =
        [Asleep EXCEPT !.pc = "next", !.todo = todo, !.mute = muted]]
  BY DEF Begin
<1> HIDE DEF todo
<1>4. [Asleep EXCEPT !.pc = "next", !.todo = todo, !.mute = muted] \in Passes
  BY <1>1, <1>2, AsleepIs DEF Passes
<1>5. [Asleep EXCEPT !.pc = "next", !.todo = todo, !.mute = muted].pc = "next"
  BY AsleepIs DEF Passes
<1> QED
  BY <1>1, <1>3, <1>4, <1>5 DEF PassGoes

LEMMA LookPasses ==
  ASSUME TypeOK, NEW e \in Evaluators, Look(e)
  PROVE  /\ PassGoes(e)
         /\ \/ evaluator'[e].pc \in {"idle", "next"}
            \/ /\ evaluator'[e].pc = "breach"
               /\ evaluator'[e].hand \in InHand /\ evaluator'[e].seen \in Measured
            \/ /\ evaluator'[e].pc = "recover" /\ Healthy(evaluator'[e])
               /\ evaluator'[e].hand \in InHand /\ evaluator'[e].seen \in Measured
<1> DEFINE v == evaluator[e]
<1>1. evaluator \in [Evaluators -> Passes] /\ window \in Measured /\ v \in Passes
  BY DEF TypeOK, PassTypes, WorldTypes
<1>2. PICK p \in v.todo :
        LET seen  == IF v.seen = Nobody THEN window ELSE v.seen
            f     == p[2]
            value == Rollup(seen, WindowMinutes)[f.metric]
            rest  == [v EXCEPT !.todo = @ \ {p}]
        IN  evaluator' = [evaluator EXCEPT ![e] =
              IF p[1] \in v.mute THEN Onwards(rest)
              ELSE [rest EXCEPT !.seen = seen, !.hand = p,
                      !.pc = IF Breaches(f.comparator, f.threshold, value)
                             THEN "breach" ELSE "recover"]]
  BY DEF Look
<1> DEFINE seen == IF v.seen = Nobody THEN window ELSE v.seen
           bad  == Breaches(p[2].comparator, p[2].threshold,
                            Rollup(seen, WindowMinutes)[p[2].metric])
           rest == [v EXCEPT !.todo = @ \ {p}]
           held == [rest EXCEPT !.seen = seen, !.hand = p,
                      !.pc = IF bad THEN "breach" ELSE "recover"]
<1>3. seen \in Measured /\ p \in InHand
  BY <1>1 DEF Passes
<1>4. rest \in Passes
  BY <1>1 DEF Passes
<1>5. CASE p[1] \in v.mute
  <2>1. evaluator' = [evaluator EXCEPT ![e] = Onwards(rest)]
    BY <1>2, <1>5
  <2> HIDE DEF rest
  <2> QED
    BY <1>1, <1>4, <2>1, OnwardsIs DEF PassGoes
<1>6. CASE p[1] \notin v.mute
  <2>1. evaluator' = [evaluator EXCEPT ![e] = held]
    BY <1>2, <1>6
  <2>2. /\ held \in Passes /\ held.seen = seen /\ held.hand = p
        /\ held.pc = IF bad THEN "breach" ELSE "recover"
    <3> HIDE DEF rest, seen, bad
    <3> QED
      BY <1>3, <1>4 DEF Passes
  <2> HIDE DEF held
  <2>3. evaluator'[e] = held /\ PassGoes(e)
    BY <1>1, <2>1, <2>2 DEF PassGoes
  <2>4. Healthy(held) <=> ~bad
    BY <2>2 DEF Healthy
  <2> QED
    BY <1>3, <2>2, <2>3, <2>4
<1> QED
  BY <1>5, <1>6

LEMMA OwnIs ==
  ASSUME TypeOK, NEW v, Own(v) # {}
  PROVE  /\ Min(Own(v)) \in DOMAIN incidents
         /\ incidents[Min(Own(v))].kind = "breach"
         /\ incidents[Min(Own(v))].signature = BreachSignature(v.hand[1], v.hand[2])
<1>1. DOMAIN incidents \subseteq Nat
  BY DEF TypeOK, IncidentTypes
<1>2. Own(v) \subseteq DOMAIN incidents
  BY DEF Own, Open
<1>3. Own(v) \in SUBSET Nat
  BY <1>1, <1>2
<1>4. Min(Own(v)) \in Own(v)
  BY <1>3, MinIs
<1> QED
  BY <1>4 DEF Own, Open

LEMMA RecoverPasses ==
  ASSUME TypeOK, NEW e \in Evaluators, Recover(e)
  PROVE  LET v == evaluator[e] IN
         /\ PassGoes(e)
         /\ \/ evaluator'[e].pc \in {"idle", "next"}
            \/ /\ evaluator'[e].pc = "resolve" /\ Own(v) # {}
               /\ evaluator'[e].hit = Min(Own(v))
               /\ evaluator'[e].hand = v.hand /\ evaluator'[e].seen = v.seen
<1> DEFINE v == evaluator[e]
<1>1. evaluator \in [Evaluators -> Passes] /\ v \in Passes
  BY DEF TypeOK, PassTypes
<1>2. CASE Own(v) = {}
  <2>1. evaluator' = [evaluator EXCEPT ![e] = Onwards(v)]
    BY <1>2 DEF Recover
  <2> QED
    BY <1>1, <2>1, OnwardsIs DEF PassGoes
<1>3. CASE Own(v) # {}
  <2> DEFINE hit == Min(Own(v))
             held == [v EXCEPT !.pc = "resolve", !.hit = hit]
  <2>1. evaluator' = [evaluator EXCEPT ![e] = held]
    BY <1>3 DEF Recover
  <2>2. hit \in Nat
    <3>1. hit \in DOMAIN incidents
      BY <1>3, OwnIs
    <3> QED
      BY <3>1 DEF TypeOK, IncidentTypes
  <2>3. /\ held \in Passes /\ held.pc = "resolve" /\ held.hit = hit
        /\ held.hand = v.hand /\ held.seen = v.seen
    <3> HIDE DEF hit
    <3> QED
      BY <1>1, <2>2 DEF Passes
  <2> HIDE DEF held
  <2> QED
    BY <1>1, <1>3, <2>1, <2>3 DEF PassGoes
<1> QED
  BY <1>2, <1>3

LEMMA DonePasses ==
  ASSUME TypeOK, NEW e \in Evaluators, Breach(e) \/ ResolveOwn(e)
  PROVE  PassGoes(e) /\ evaluator'[e].pc \in {"idle", "next"}
<1>1. evaluator \in [Evaluators -> Passes] /\ evaluator[e] \in Passes
  BY DEF TypeOK, PassTypes
<1>2. evaluator' = [evaluator EXCEPT ![e] = Onwards(evaluator[e])]
  BY DEF Breach, ResolveOwn
<1> QED
  BY <1>1, <1>2, OnwardsIs DEF PassGoes

(* Whatever is no step of a pass leaves the passes alone.                  *)
LEMMA WhoPasses ==
  ASSUME [Next]_vars
  PROVE  evaluator' = evaluator \/ \E e \in Evaluators : EvaluatorStep(e)
BY DEF Next, vars, Measure, TimePasses, Traceback, TickerStep, TickStart, TickLook,
   TickRecord, SaveMonitor, Toggle, Mute, MuteExpires, Delete, MonitorForm, Remediates,
   Remediated, Ack, Resolve, Reopen, ChangeSeverity, WritePostmortem, IncidentForm,
   AddRule, AddStep, PlanForm

LEMMA PassTypesStep == TypeOK /\ [Next]_vars => PassTypes'
<1> SUFFICES ASSUME TypeOK, [Next]_vars PROVE PassTypes'
  OBVIOUS
<1>0. PassTypes
  BY DEF TypeOK
<1>1. \A i \in DOMAIN incidents : i \in DOMAIN incidents'
  BY IncidentsLast
<1>2. CASE evaluator' = evaluator
  BY <1>0, <1>1, <1>2 DEF PassTypes
<1>3. ASSUME NEW e \in Evaluators, EvaluatorStep(e) PROVE PassTypes'
  <2>1. /\ PassGoes(e)
        /\ evaluator'[e].pc \in {"breach", "recover", "resolve"}
             => evaluator'[e].hand \in InHand /\ evaluator'[e].seen \in Measured
        /\ evaluator'[e].pc = "resolve" => evaluator'[e].hit \in DOMAIN incidents
    <3>1. CASE Recover(e)
      <4>1. evaluator[e].hand \in InHand /\ evaluator[e].seen \in Measured
        BY <1>0, <3>1 DEF Recover, PassTypes
      <4> QED
        BY <3>1, <4>1, RecoverPasses, OwnIs
    <3>2. CASE Look(e)
      BY <3>2, LookPasses
    <3>3. CASE Begin(e)
      BY <3>3, BeginGoes
    <3>4. CASE Breach(e) \/ ResolveOwn(e)
      BY <3>4, DonePasses
    <3> QED
      BY <1>3, <3>1, <3>2, <3>3, <3>4 DEF EvaluatorStep
  <2> QED
    BY <1>0, <1>1, <2>1 DEF PassTypes, PassGoes
<1> QED
  BY <1>2, <1>3, WhoPasses

LEMMA TypeInit == Init => TypeOK /\ LadderInv /\ SurgeryInv
<1> SUFFICES ASSUME Init PROVE TypeOK /\ LadderInv /\ SurgeryInv
  OBVIOUS
<1> USE OncallAssumption DEF Init
<1>1. WorldTypes
  BY DEF WorldTypes
<1>2. IncidentTypes
  BY DEF IncidentTypes
<1>3. PlanTypes
  <2>1. Rules \in Seq(Range(Rules) \union NewRules)
    OBVIOUS
  <2> QED
    BY <2>1 DEF PlanTypes, StepRows
<1>4. PassTypes
  BY AsleepIs DEF PassTypes
<1>5. TickTypes
  BY StillIs DEF TickTypes
<1>6. LadderInv
  BY DEF LadderInv
<1>7. SurgeryInv
  BY AsleepIs DEF SurgeryInv
<1> QED
  BY <1>1, <1>2, <1>3, <1>4, <1>5, <1>6, <1>7 DEF TypeOK

LEMMA TypeStep == TypeOK /\ [Next]_vars => TypeOK'
BY WorldTypesStep, IncidentTypesStep, PlanTypesStep, PassTypesStep, TickTypesStep
   DEF TypeOK

(* Rows, passes and ticks keep values of their kinds. In particular a rule *)
(* is inserted among the others, whoever is paged is a member of a rota,   *)
(* and what a pass or a tick works on is an incident that exists.          *)
THEOREM TypeCorrect == Spec => []TypeOK
<1>1. Init => TypeOK
  BY TypeInit
<1> QED
  BY <1>1, TypeStep, PTL DEF Spec

----------------------------------------------------------------------------
(***************************************************************************)
(* Recovery                                                                *)
(***************************************************************************)

LEMMA SurgeryStep == TypeOK /\ SurgeryInv /\ [Next]_vars => SurgeryInv'
<1> SUFFICES ASSUME TypeOK, SurgeryInv, [Next]_vars PROVE SurgeryInv'
  OBVIOUS
<1>0. /\ PassTypes
      /\ \A i \in DOMAIN incidents :
           /\ incidents'[i].kind = incidents[i].kind
           /\ incidents'[i].signature = incidents[i].signature
  BY IncidentsLast DEF TypeOK
<1>1. ASSUME NEW e \in Evaluators, evaluator'[e] = evaluator[e]
      PROVE  LET v == evaluator'[e] IN
             /\ v.pc \in {"recover", "resolve"} => Healthy(v)
             /\ v.pc = "resolve" =>
                  /\ incidents'[v.hit].kind = "breach"
                  /\ incidents'[v.hit].signature = BreachSignature(v.hand[1], v.hand[2])
  BY <1>0, <1>1 DEF SurgeryInv, PassTypes
<1>2. CASE evaluator' = evaluator
  BY <1>1, <1>2 DEF SurgeryInv, Healthy
<1>3. ASSUME NEW e \in Evaluators, EvaluatorStep(e) PROVE SurgeryInv'
  <2> DEFINE w == evaluator'[e]
  <2>1. /\ PassGoes(e)
        /\ w.pc \in {"recover", "resolve"} => Healthy(w)
        /\ w.pc = "resolve" =>
             /\ incidents'[w.hit].kind = "breach"
             /\ incidents'[w.hit].signature = BreachSignature(w.hand[1], w.hand[2])
    <3>1. CASE Recover(e)
      <4>1. Healthy(evaluator[e])
        BY <3>1 DEF Recover, SurgeryInv
      <4>2. CASE w.pc \in {"idle", "next"}
        BY <3>1, <4>2, RecoverPasses
      <4>3. CASE w.pc \notin {"idle", "next"}
        <5>1. /\ PassGoes(e) /\ Own(evaluator[e]) # {}
              /\ w.hit = Min(Own(evaluator[e]))
              /\ w.hand = evaluator[e].hand /\ w.seen = evaluator[e].seen
          BY <3>1, <4>3, RecoverPasses
        <5>2. Healthy(w)
          BY <4>1, <5>1 DEF Healthy
        <5>3. /\ w.hit \in DOMAIN incidents /\ incidents[w.hit].kind = "breach"
              /\ incidents[w.hit].signature = BreachSignature(w.hand[1], w.hand[2])
          BY <5>1, OwnIs
        <5> QED
          BY <1>0, <5>1, <5>2, <5>3
      <4> QED
        BY <4>2, <4>3
    <3>2. CASE Look(e)
      BY <3>2, LookPasses
    <3>3. CASE Begin(e)
      BY <3>3, BeginGoes
    <3>4. CASE Breach(e) \/ ResolveOwn(e)
      BY <3>4, DonePasses
    <3> QED
      BY <1>3, <3>1, <3>2, <3>3, <3>4 DEF EvaluatorStep
  <2>2. \A x \in Evaluators \ {e} : evaluator'[x] = evaluator[x]
    BY <2>1 DEF PassGoes
  <2> QED
    BY <1>1, <2>1, <2>2 DEF SurgeryInv, Healthy
<1> QED
  BY <1>2, <1>3, WhoPasses

(* A pass resolves nothing but a breach of the monitor in its hand, of     *)
(* what that compared when the pass began, and only if its signals do not  *)
(* breach it: whatever other passes, humans and the loop do between the    *)
(* look at the incident and the write.                                     *)
THEOREM RecoveryKeepsToItsOwn == Spec => RecoveryIsSurgical
<1> DEFINE Mine(e) ==
             \A i \in DOMAIN incidents :
               LET v == evaluator[e]
                   f == v.hand[2]
               IN  v.pc = "resolve" /\ evaluator'[e] # v /\ incidents'[i] # incidents[i]
                   => /\ incidents[i].kind = "breach"
                      /\ incidents[i].signature = BreachSignature(v.hand[1], f)
                      /\ ~Breaches(f.comparator, f.threshold,
                                   Rollup(v.seen, WindowMinutes)[f.metric])
<1>1. TypeOK /\ SurgeryInv /\ [Next]_vars => [\A e \in Evaluators : Mine(e)]_vars
  <2> SUFFICES ASSUME TypeOK, SurgeryInv, [Next]_vars, NEW e \in Evaluators,
                      NEW i \in DOMAIN incidents,
                      evaluator[e].pc = "resolve", evaluator'[e] # evaluator[e],
                      incidents'[i] # incidents[i]
               PROVE  /\ incidents[i].kind = "breach"
                      /\ incidents[i].signature =
                           BreachSignature(evaluator[e].hand[1], evaluator[e].hand[2])
                      /\ Healthy(evaluator[e])
    BY DEF Healthy
  <2>1. PICK x \in Evaluators : EvaluatorStep(x)
    BY WhoPasses
  <2>2. x = e
    <3>1. PassGoes(x)
      BY <2>1, BeginGoes, LookPasses, RecoverPasses, DonePasses DEF EvaluatorStep
    <3> QED
      BY <3>1 DEF PassGoes
  <2>3. ResolveOwn(e)
    BY <2>1, <2>2 DEF EvaluatorStep, Begin, Look, Breach, Recover
  <2>4. i = evaluator[e].hit
    <3>1. incidents' = [incidents EXCEPT ![evaluator[e].hit].status = "resolved"]
      BY <2>3 DEF ResolveOwn
    <3>2. evaluator[e].hit \in DOMAIN incidents /\ "resolved" \in Statuses
      BY DEF TypeOK, PassTypes, Statuses
    <3> QED
      BY <3>1, <3>2, StatusMoves DEF TypeOK
  <2> QED
    BY <2>4 DEF SurgeryInv
<1>2. Init => TypeOK /\ SurgeryInv
  BY TypeInit
<1>3. TypeOK /\ SurgeryInv /\ [Next]_vars => (TypeOK /\ SurgeryInv)'
  BY TypeStep, SurgeryStep
<1> QED
  BY <1>1, <1>2, <1>3, PTL DEF Spec, RecoveryIsSurgical

----------------------------------------------------------------------------
(***************************************************************************)
(* Escalation.  Time passes and steps are added: what was due still is, so *)
(* the highest step that is due is at least as high as every entry, and if *)
(* it is no entry, above them all.                                         *)
(***************************************************************************)

LEMMA StillDue ==
  ASSUME TypeOK, NEW i \in DOMAIN incidents,
         rules' = rules, steps \subseteq steps',
         now' = now \/ now' = now + 1,
         incidents'[i].severity = incidents[i].severity,
         incidents'[i].openedAt = incidents[i].openedAt
  PROVE  DueFor(i) \subseteq DueFor(i)'
<1>1. incidents[i].openedAt \in Nat /\ now \in Nat
  <2>1. incidents[i] \in IncidentRows
    BY DEF TypeOK, IncidentTypes
  <2> QED
    BY <2>1, OncallAssumption DEF IncidentRows, TypeOK, WorldTypes
<1>2. Route(incidents[i].severity)' = Route(incidents[i].severity)
  BY DEF Route, Matches
<1> SUFFICES ASSUME NEW s \in DueFor(i) PROVE s \in DueFor(i)'
  OBVIOUS
<1>3. s \in steps /\ s.policy = Route(incidents[i].severity)
      /\ s.after <= now - incidents[i].openedAt
  BY DEF DueFor, Due
<1>4. s.after \in Int
  BY <1>3, OncallAssumption DEF TypeOK, PlanTypes, StepRows
<1>5. s.after <= now' - incidents'[i].openedAt
  BY <1>1, <1>3, <1>4
<1> QED
  BY <1>2, <1>3, <1>5 DEF DueFor, Due

(* The ladder of an incident stands as long as its entries, its row and    *)
(* whoever works on it are the same.                                       *)
LEMMA LadderStands ==
  ASSUME TypeOK, NEW i \in DOMAIN incidents, Ladder(i), ticker' = ticker,
         escalated'[i] = escalated[i], rules' = rules, steps \subseteq steps',
         now' = now \/ now' = now + 1,
         incidents'[i].severity = incidents[i].severity,
         incidents'[i].openedAt = incidents[i].openedAt
  PROVE  Ladder(i)'
<1>1. Climbs(i)'
  BY DEF Ladder, Climbs
<1>2. Reached(i)'
  BY StillDue DEF Ladder, Reached, Reaches
<1>3. Informed(i)'
  BY DEF Ladder, Informed
<1>4. Above(i)'
  BY StillDue DEF Ladder, Above, Records, Reaches
<1>5. Alone(i)'
  BY DEF Ladder, Alone, Records
<1> QED
  BY <1>1, <1>2, <1>3, <1>4, <1>5 DEF Ladder

(* A new incident has an empty ladder, and nobody works on it.             *)
LEMMA LadderBegins ==
  ASSUME TypeOK, NEW i, i \notin DOMAIN incidents, escalated'[i] = <<>>,
         ticker' = ticker
  PROVE  Ladder(i)'
<1>1. DOMAIN (escalated'[i]) = {}
  OBVIOUS
<1>2. \A t \in Tickers : ticker[t].pc # "idle" => ticker[t].hit # i
  BY DEF TypeOK, TickTypes, Ticks
<1> QED
  BY <1>1, <1>2 DEF Ladder, Climbs, Reached, Informed, Above, Alone, Records

LEMMA LadderStarts ==
  ASSUME TypeOK, NEW t \in Tickers, NEW j \in DOMAIN incidents, TickStart(t, j),
         NEW i \in DOMAIN incidents, Ladder(i)
  PROVE  Ladder(i)'
<1>1. /\ incidents' = incidents /\ escalated' = escalated /\ rules' = rules
      /\ steps' = steps /\ now' = now
  BY DEF TickStart, incVars, planVars
<1>2. /\ TickGoes(t) /\ ticker'[t].pc = "look" /\ ticker'[t].hit = j
      /\ ticker'[t].severity = incidents[j].severity
  BY StartGoes DEF TypeOK
<1>3. DueFor(i) \subseteq DueFor(i)'
  BY <1>1, StillDue
<1>4. \A q \in Tickers : Records(q, i)' => q # t /\ Records(q, i) /\ ticker'[q] = ticker[q]
  BY <1>2 DEF Records, TickGoes
<1>5. Climbs(i)' /\ Reached(i)'
  BY <1>1, <1>3 DEF Ladder, Climbs, Reached, Reaches
<1>6. Informed(i)'
  BY <1>1, <1>2 DEF Ladder, Informed, TickGoes
<1>7. Above(i)'
  BY <1>1, <1>3, <1>4 DEF Ladder, Above, Reaches
<1>8. Alone(i)'
  BY <1>4 DEF Ladder, Alone
<1> QED
  BY <1>5, <1>6, <1>7, <1>8 DEF Ladder

LEMMA LadderLooks ==
  ASSUME TypeOK, NEW t \in Tickers, TickLook(t),
         NEW i \in DOMAIN incidents, Ladder(i), i \notin raced'
  PROVE  Ladder(i)'
<1>1. /\ incidents' = incidents /\ escalated' = escalated /\ rules' = rules
      /\ steps' = steps /\ now' = now
  BY DEF TickLook, incVars, planVars
<1> DEFINE k    == ticker[t]
           due  == Due(Route(k.severity), now - incidents[k.hit].openedAt)
           step == NextStep(Route(k.severity), now - incidents[k.hit].openedAt)
<1>2. DueFor(i) \subseteq DueFor(i)'
  BY <1>1, StillDue
<1>3. TickGoes(t)
  BY LookGoes
<1>4. Climbs(i)' /\ Reached(i)'
  BY <1>1, <1>2 DEF Ladder, Climbs, Reached, Reaches
<1>5. \A q \in Tickers \ {t} : Records(q, i)' => Records(q, i) /\ ticker'[q] = ticker[q]
  BY <1>3 DEF Records, TickGoes
<1>6. \A q \in Tickers \ {t} :
        Records(q, i)' =>
          /\ \E s \in DueFor(i)' : ticker'[q].order <= s.order
          /\ \A a \in DOMAIN escalated'[i] : escalated'[i][a] < ticker'[q].order
  BY <1>1, <1>2, <1>5 DEF Ladder, Above, Reaches
<1>7. CASE ticker'[t].pc = "idle" \/ k.hit # i
  <2>1. ~Records(t, i)'
    BY <1>7, LookGoes DEF Records
  <2>2. Informed(i)'
    BY <1>1, <1>3, <1>7, LookGoes DEF Ladder, Informed, TickGoes
  <2>3. Above(i)'
    BY <1>6, <2>1 DEF Above, Reaches
  <2>4. Alone(i)'
    BY <1>5, <2>1 DEF Ladder, Alone
  <2> QED
    BY <1>4, <2>2, <2>3, <2>4 DEF Ladder
<1>8. CASE ticker'[t].pc # "idle" /\ k.hit = i
  <2>1. /\ ticker'[t].pc = "record" /\ ticker'[t].hit = i
        /\ ticker'[t].severity = k.severity /\ ticker'[t].order = step.order
        /\ step \in due /\ \A o \in due : step.order >= o.order
        /\ step.order \notin Range(escalated[i])
        /\ raced' = IF \E q \in Tickers \ {t} : Records(q, i)
                    THEN raced \union {i} ELSE raced
    BY <1>8, LookGoes
  <2>2. k.severity = incidents[i].severity
    BY <1>8 DEF TickLook, Ladder, Informed
  <2>3. \A q \in Tickers \ {t} : ~Records(q, i)
    BY <2>1
  <2>4. Alone(i)'
    BY <1>5, <2>3 DEF Alone
  <2>5. Informed(i)'
    BY <1>1, <1>3, <2>1, <2>2 DEF Ladder, Informed, TickGoes
  <2> HIDE DEF step
  <2>6. step.order \in Int /\ \A s \in due : s.order \in Int
    BY <2>1, OncallAssumption DEF Due, StepRows, TypeOK, PlanTypes
  <2>7. Reaches(i, step.order)
    BY <1>8, <2>1, <2>2, <2>6 DEF Reaches, DueFor
  <2>8. ASSUME NEW a \in DOMAIN escalated[i]
        PROVE  escalated[i][a] < step.order
    <3>1. PICK s \in due : escalated[i][a] <= s.order
      BY <1>8, <2>2 DEF Ladder, Reached, Reaches, DueFor
    <3>2. escalated[i][a] \in Int
      <4>1. escalated[i] \in Seq(Int)
        BY DEF TypeOK, IncidentTypes
      <4> QED
        BY <4>1
    <3>3. escalated[i][a] # step.order
      BY <2>1 DEF Range
    <3> QED
      BY <2>1, <2>6, <3>1, <3>2, <3>3
  <2>9. Above(i)'
    BY <1>1, <1>2, <1>6, <2>1, <2>7, <2>8 DEF Above, Reaches
  <2> QED
    BY <1>4, <2>4, <2>5, <2>9 DEF Ladder
<1> QED
  BY <1>7, <1>8

LEMMA LadderRecords ==
  ASSUME TypeOK, NEW t \in Tickers, TickRecord(t),
         NEW i \in DOMAIN incidents, Ladder(i)
  PROVE  Ladder(i)'
<1>1. /\ incidents' = incidents /\ rules' = rules /\ steps' = steps /\ now' = now
  BY DEF TickRecord, planVars
<1>2. TickGoes(t) /\ ticker'[t].pc = "idle"
  BY RecordGoes DEF TypeOK
<1>3. DueFor(i) \subseteq DueFor(i)'
  BY <1>1, StillDue
<1>4. \A q \in Tickers : Records(q, i)' => q # t /\ Records(q, i) /\ ticker'[q] = ticker[q]
  BY <1>2 DEF Records, TickGoes
<1>5. Informed(i)'
  BY <1>1, <1>2 DEF Ladder, Informed, TickGoes
<1>6. Alone(i)'
  BY <1>4 DEF Ladder, Alone
<1>7. CASE ticker[t].hit # i
  <2>1. escalated'[i] = escalated[i]
    BY <1>7, RecordMoves DEF TypeOK
  <2>2. Climbs(i)' /\ Reached(i)'
    BY <1>3, <2>1 DEF Ladder, Climbs, Reached, Reaches
  <2>3. Above(i)'
    BY <1>3, <1>4, <2>1 DEF Ladder, Above, Reaches
  <2> QED
    BY <1>5, <1>6, <2>2, <2>3 DEF Ladder
<1>8. CASE ticker[t].hit = i
  <2> DEFINE x == ticker[t].order
             n == Len(escalated[i])
  <2>1. /\ x \in Int /\ escalated[i] \in Seq(Int)
        /\ escalated'[i] = Append(escalated[i], x)
    BY <1>8, RecordMoves DEF TypeOK
  <2>2. Records(t, i)
    BY <1>8 DEF TickRecord, Records
  <2>3. Reaches(i, x) /\ \A a \in DOMAIN escalated[i] : escalated[i][a] < x
    BY <2>2 DEF Ladder, Above
  <2>4. /\ n \in Nat /\ DOMAIN escalated[i] = 1..n
        /\ DOMAIN (escalated'[i]) = 1..(n + 1)
        /\ escalated'[i][n + 1] = x
        /\ \A a \in 1..n : escalated'[i][a] = escalated[i][a]
    BY <2>1
  <2> HIDE DEF n, x
  <2>5. Climbs(i)'
    <3> SUFFICES ASSUME NEW a \in 1..(n + 1), NEW b \in 1..(n + 1), a < b
                 PROVE  escalated'[i][a] < escalated'[i][b]
      BY <2>4 DEF Climbs
    <3>1. a \in 1..n
      BY <2>4
    <3>2. CASE b \in 1..n
      BY <2>4, <3>1, <3>2 DEF Ladder, Climbs
    <3>3. CASE b = n + 1
      BY <2>3, <2>4, <3>1, <3>3
    <3> QED
      BY <2>4, <3>2, <3>3
  <2>6. Reached(i)'
    <3> SUFFICES ASSUME NEW a \in 1..(n + 1)
                 PROVE  \E s \in DueFor(i)' : escalated'[i][a] <= s.order
      BY <2>4 DEF Reached, Reaches
    <3>1. CASE a \in 1..n
      BY <1>3, <2>4, <3>1 DEF Ladder, Reached, Reaches
    <3>2. CASE a = n + 1
      BY <1>3, <2>3, <2>4, <3>2 DEF Reaches
    <3> QED
      BY <2>4, <3>1, <3>2
  <2>7. \A q \in Tickers : ~Records(q, i)'
    BY <1>4, <2>2 DEF Ladder, Alone
  <2>8. Above(i)'
    BY <2>7 DEF Above
  <2> QED
    BY <1>5, <1>6, <2>5, <2>6, <2>8 DEF Ladder
<1> QED
  BY <1>7, <1>8

LEMMA LadderStep == TypeOK /\ LadderInv /\ [Next]_vars => LadderInv'
<1> SUFFICES ASSUME TypeOK, LadderInv, [Next]_vars,
                    NEW i \in DOMAIN incidents', i \notin raced', i \notin rerouted'
             PROVE  Ladder(i)'
  BY DEF LadderInv
<1>0. IncidentTypes /\ TickTypes
  BY DEF TypeOK
<1>1. CASE Opens
  <2>1. PICK x \in IncidentRows : Create(x)
    BY <1>1 DEF Opens
  <2>2. CASE i \in DOMAIN incidents
    <3>1. incidents'[i] = incidents[i] /\ escalated'[i] = escalated[i]
      BY <1>0, <2>1, <2>2, CreateMoves
    <3>2. Ladder(i)
      BY <1>1, <2>2 DEF Opens, LadderInv
    <3> QED
      BY <1>1, <2>2, <3>1, <3>2, LadderStands DEF Opens
  <2>3. CASE i \notin DOMAIN incidents
    <3>1. escalated'[i] = <<>>
      BY <1>0, <2>1, <2>3, CreateMoves
    <3> QED
      BY <1>1, <2>3, <3>1, LadderBegins DEF Opens
  <2> QED
    BY <2>2, <2>3
<1>2. CASE ChangesStatus
  <2>1. PICK j \in DOMAIN incidents, s \in Statuses :
          incidents' = [incidents EXCEPT ![j].status = s]
    BY <1>2 DEF ChangesStatus
  <2>2. /\ i \in DOMAIN incidents
        /\ incidents'[i].severity = incidents[i].severity
        /\ incidents'[i].openedAt = incidents[i].openedAt
    BY <1>0, <2>1, StatusMoves
  <2>3. Ladder(i)
    BY <1>2, <2>2 DEF ChangesStatus, LadderInv
  <2> QED
    BY <1>2, <2>2, <2>3, LadderStands DEF ChangesStatus
<1>3. CASE ChangesSeverity
  <2>1. PICK j \in DOMAIN incidents, s \in Severities :
          /\ incidents' = [incidents EXCEPT ![j].severity = s]
          /\ rerouted' = rerouted \union {j}
    BY <1>3 DEF ChangesSeverity
  <2>2. i \in DOMAIN incidents /\ i # j /\ incidents'[i] = incidents[i]
    BY <1>0, <2>1, SeverityMoves
  <2>3. Ladder(i)
    BY <1>3, <2>1, <2>2 DEF ChangesSeverity, LadderInv
  <2> QED
    BY <1>3, <2>2, <2>3, LadderStands DEF ChangesSeverity
<1>4. CASE Replans
  <2>1. incidents' = incidents
    BY <1>4 DEF Replans
  <2>2. PICK s \in NewSteps : AddStep(s)
    <3>1. ASSUME NEW r \in NewRules, AddRule(r) PROVE FALSE
      BY <2>1, <3>1 DEF AddRule
    <3> QED
      BY <1>4, <3>1 DEF Replans
  <2>3. Ladder(i)
    BY <1>4, <2>1, <2>2 DEF Replans, AddStep, LadderInv
  <2> QED
    BY <1>4, <2>1, <2>2, <2>3, LadderStands DEF Replans, AddStep
<1>5. CASE Rests
  <2>1. incidents' = incidents /\ Ladder(i)
    BY <1>5 DEF Rests, LadderInv
  <2> QED
    BY <1>5, <2>1, LadderStands DEF Rests
<1>6. CASE SomeTick
  <2>1. PICK t \in Tickers : TickerStep(t)
    BY <1>6 DEF SomeTick
  <2>2. raced \subseteq raced'
    BY <2>1 DEF TickerStep, TickStart, TickLook, TickRecord, history
  <2>3. i \in DOMAIN incidents /\ Ladder(i)
    BY <1>6, <2>2 DEF SomeTick, LadderInv
  <2> QED
    BY <2>1, <2>3, LadderStarts, LadderLooks, LadderRecords DEF TickerStep
<1> QED
  BY <1>1, <1>2, <1>3, <1>4, <1>5, <1>6, StepIs

(* The escalations of an incident climb, for any number of ticks, steps    *)
(* and incidents: unless two ticks recorded one at once, or its route may  *)
(* have changed.                                                           *)
THEOREM EscalationsClimb == Spec => []EscalationClimbs
<1>1. Init => TypeOK /\ LadderInv
  BY TypeInit
<1>2. TypeOK /\ LadderInv /\ [Next]_vars => (TypeOK /\ LadderInv)'
  BY TypeStep, LadderStep
<1>3. LadderInv => EscalationClimbs
  BY DEF LadderInv, Ladder, Climbs, EscalationClimbs
<1> QED
  BY <1>1, <1>2, <1>3, PTL DEF Spec

=============================================================================
