-------------------------- MODULE IngestionProofs --------------------------
(***************************************************************************)
(* Theorems about Ingestion, for any number of deployments, projects,      *)
(* server processes, threads and lines.                                    *)
(***************************************************************************)
EXTENDS Ingestion, FiniteSetTheorems, SequenceTheorems, WellFoundedInduction,
        TLAPS

(* A set of naturals has a minimum, and a maximum if some number bounds it.*)
LEMMA MinIs ==
  ASSUME NEW S \in SUBSET Nat, S # {}
  PROVE  Min(S) \in S
<1>1. \E u \in S : \A y \in S : ~ (<<y, u>> \in OpToRel(<, Nat))
  BY WFMin, NatLessThanWellFounded
<1>2. PICK u \in S : \A y \in S : ~ (y < u)
  BY <1>1 DEF OpToRel
<1>3. \A y \in S : u <= y
  BY <1>2
<1> QED
  BY <1>3, Zenon DEF Min

LEMMA MaxIs ==
  ASSUME NEW S \in SUBSET Nat, S # {}, NEW b \in Nat, \A s \in S : s <= b
  PROVE  Max(S) \in S /\ \A s \in S : s <= Max(S)
<1> DEFINE Bounds == {u \in Nat : \A s \in S : s <= u}
<1>1. \E u \in Bounds : \A y \in Bounds : ~ (<<y, u>> \in OpToRel(<, Nat))
  <2>1. Bounds \subseteq Nat /\ Bounds # {}
    OBVIOUS
  <2> HIDE DEF Bounds
  <2> QED
    BY <2>1, WFMin, NatLessThanWellFounded
<1>2. PICK u \in Bounds : \A y \in Bounds : ~ (y < u)
  BY <1>1 DEF OpToRel
<1>3. u \in S
  <2> SUFFICES ASSUME u \notin S PROVE FALSE
    OBVIOUS
  <2>1. \A s \in S : s <= u - 1
    OBVIOUS
  <2>2. PICK s \in S : TRUE
    OBVIOUS
  <2>3. s \in Nat /\ u \in Nat /\ s <= u - 1
    BY <2>1
  <2>4. u - 1 \in Nat
    BY <2>3
  <2> QED
    BY <1>2, <2>1, <2>4
<1>4. Max(S) \in S /\ \A s \in S : Max(S) >= s
  BY <1>3, Zenon DEF Max
<1> QED
  BY <1>4

----------------------------------------------------------------------------
(***************************************************************************)
(* The type of what the threads hold.                                      *)
(***************************************************************************)

Signatures ==
  {Signature(l) : l \in Output} \union ({"ManualIncident"} \X Projects \X Readers)

IncidentRows ==
  [project : Projects, number : Nat, signature : Signatures,
   status : {"open", "resolved"}, occurrences : Nat]

Threads ==
  [pc : Stages, by : Workers \union {Nothing}, dep : Deployments \union {Nothing},
   project : Projects \union {Nothing}, pos : Nat, end : Nat, done : Output,
   hit : Nat, num : Nat]

Following == {"start", "read", "idle", "drain"}

(* A thread that is not at rest serves a project; one that follows does so *)
(* in a process, what is left for it is there, the traceback it looks for  *)
(* is not empty, and the occurrence it counts is of an incident.           *)
InHand(t) ==
  /\ t.pc \notin Resting => t.project \in Projects /\ t.by \in Workers
  /\ t.pc \in Following => t.dep \in Deployments
  /\ t.dep \in Deployments => t.end <= Len(output[t.dep])
  /\ t.pc \in {"store", "look"} => t.done # <<>>
  /\ t.pc = "bump" => t.hit \in DOMAIN incidents

HeldTypes ==
  /\ output \in [Deployments -> Output]
  /\ buffer \in [Workers -> [Deployments -> Output]]
  /\ thread \in [Readers -> Threads]
  /\ \A r \in Readers : InHand(thread[r])
  /\ incidents \in Seq(IncidentRows)
  /\ \E b \in Nat : \A i \in DOMAIN incidents : incidents[i].number <= b

LEMMA FreeIs ==
  /\ Free \in Threads /\ Free.pc = "free" /\ Free.done = <<>> /\ Free.end = 0
  /\ Free.dep = Nothing /\ Free.pos = 0
BY DEF Free, Threads, Stages, Resting, Output

LEMMA RowIs ==
  ASSUME HeldTypes, NEW i \in DOMAIN incidents
  PROVE  incidents[i] \in IncidentRows
BY DEF HeldTypes

(* What a line leaves in the buffer and in the hands of its reader.        *)
LEMMA CapturedIs ==
  ASSUME NEW buf \in Output, NEW l \in Lines
  PROVE  Captured(buf, l).left \in Output /\ Captured(buf, l).done \in Output
BY DEF Captured, Output

(* Outputs only grow, and incidents are never deleted.                     *)
Grows ==
  /\ output' \in [Deployments -> Output]
  /\ \A d \in Deployments : Len(output[d]) <= Len(output'[d])
  /\ DOMAIN incidents \subseteq DOMAIN incidents'

LEMMA Kept ==
  ASSUME HeldTypes, Grows, NEW r \in Readers, thread'[r] = thread[r]
  PROVE  InHand(thread[r])'
<1>1. /\ thread[r] \in Threads /\ InHand(thread[r])
      /\ \A d \in Deployments : output[d] \in Output
  BY DEF HeldTypes
<1>2. thread[r].dep \in Deployments => thread[r].end <= Len(output'[thread[r].dep])
  <2> SUFFICES ASSUME thread[r].dep \in Deployments
               PROVE  thread[r].end <= Len(output'[thread[r].dep])
    OBVIOUS
  <2>1. PICK d \in Deployments : d = thread[r].dep
    OBVIOUS
  <2>2. Len(output[d]) \in Nat /\ Len(output'[d]) \in Nat
    BY <1>1 DEF Output, Grows
  <2>3. thread[r].end \in Nat /\ thread[r].end <= Len(output[d])
    BY <1>1, <2>1 DEF InHand, Threads
  <2> QED
    BY <2>1, <2>2, <2>3 DEF Grows
<1> QED
  BY <1>1, <1>2 DEF InHand, Grows
(* Only r goes on, with v in hand.                                         *)
Hands(r, v) ==
  /\ thread'[r] = v
  /\ \A q \in Readers \ {r} : thread'[q] = thread[q]

LEMMA GoesOn ==
  ASSUME HeldTypes, NEW r \in Readers, NEW v \in Threads,
         thread' = [thread EXCEPT ![r] = v], InHand(v)', Grows,
         buffer' \in [Workers -> [Deployments -> Output]],
         incidents' \in Seq(IncidentRows),
         \E b \in Nat : \A i \in DOMAIN incidents' : incidents'[i].number <= b
  PROVE  HeldTypes' /\ Hands(r, v)
<1>1. thread' \in [Readers -> Threads] /\ Hands(r, v)
  BY DEF HeldTypes, Hands
<1>2. ASSUME NEW q \in Readers PROVE InHand(thread[q])'
  <2>1. CASE q = r
    BY <1>1, <2>1 DEF Hands, InHand
  <2>2. CASE q # r
    BY <1>1, <2>2, Kept DEF Hands
  <2> QED
    BY <2>1, <2>2
<1> QED
  BY <1>1, <1>2 DEF HeldTypes, Grows

LEMMA Unmoved ==
  ASSUME HeldTypes, UNCHANGED <<output, incidents>>
  PROVE  /\ Grows /\ incidents' \in Seq(IncidentRows)
         /\ \E b \in Nat : \A i \in DOMAIN incidents' : incidents'[i].number <= b
<1>1. /\ output' = output /\ incidents' = incidents
      /\ output \in [Deployments -> Output] /\ incidents \in Seq(IncidentRows)
      /\ \E b \in Nat : \A i \in DOMAIN incidents : incidents[i].number <= b
  BY DEF HeldTypes
<1>2. ASSUME NEW d \in Deployments PROVE Len(output[d]) <= Len(output'[d])
  <2>1. Len(output[d]) \in Nat
    BY <1>1 DEF Output
  <2> QED
    BY <1>1, <2>1
<1>3. Grows
  BY <1>1, <1>2 DEF Grows
<1> QED
  BY <1>1, <1>3

(* ... and neither an output, a buffer nor an incident changes.            *)
LEMMA GoesOnAlone ==
  ASSUME HeldTypes, NEW r \in Readers, NEW v \in Threads,
         thread' = [thread EXCEPT ![r] = v], InHand(v),
         UNCHANGED <<output, buffer, incidents>>
  PROVE  HeldTypes' /\ Hands(r, v)
<1>1. InHand(v)'
  BY DEF InHand
<1>2. buffer' \in [Workers -> [Deployments -> Output]]
  BY DEF HeldTypes
<1> QED
  BY <1>1, <1>2, Unmoved, GoesOn

(* A thread that starts to follow a deployment.                            *)
LEMMA FollowerIs ==
  ASSUME HeldTypes, IngestionAssumption, NEW w \in Workers, NEW d \in Deployments,
         NEW s \in {"start", "read"}
  PROVE  LET v == [Free EXCEPT !.pc = s, !.by = w, !.dep = d,
                               !.project = ProjectOf[d]]
         IN  v \in Threads /\ InHand(v) /\ v.pc = s
<1> DEFINE v == [Free EXCEPT !.pc = s, !.by = w, !.dep = d, !.project = ProjectOf[d]]
<1>1. ProjectOf[d] \in Projects
  BY DEF IngestionAssumption
<1>2. v \in Threads
  BY <1>1, FreeIs DEF Threads, Stages
<1>3. v.pc = s /\ v.by = w /\ v.dep = d /\ v.project = ProjectOf[d] /\ v.end = 0
  BY FreeIs DEF Threads
<1>4. Len(output[d]) \in Nat
  BY DEF HeldTypes, Output
<1> HIDE DEF v
<1>5. InHand(v)
  BY <1>1, <1>3, <1>4 DEF InHand
<1> QED
  BY <1>2, <1>3, <1>5 DEF v

(* A thread at work that goes to another stage.                            *)
LEMMA StageIs ==
  ASSUME NEW t \in Threads, InHand(t), t.pc \notin Resting,
         NEW s \in Stages \ {"bump"}, s \in Following => t.dep \in Deployments,
         s \in {"store", "look"} => t.done # <<>>
  PROVE  LET v == [t EXCEPT !.pc = s]
         IN  v \in Threads /\ InHand(v) /\ v.pc = s /\ v.done = t.done
<1> DEFINE v == [t EXCEPT !.pc = s]
<1>1. /\ v \in Threads /\ v.pc = s /\ v.done = t.done /\ v.dep = t.dep
      /\ v.end = t.end /\ v.project = t.project /\ v.by = t.by
  BY DEF Threads
<1> HIDE DEF v
<1>2. InHand(v)
  BY <1>1 DEF InHand
<1> QED
  BY <1>1, <1>2 DEF v

LEMMA OnwardsIs ==
  ASSUME NEW t \in Threads, InHand(t), t.pc \notin Resting
  PROVE  /\ Onwards(t) \in Threads /\ InHand(Onwards(t))
         /\ Onwards(t).pc \in {"gone", "drain", "read"}
         /\ t.dep = Nothing => Onwards(t).pc = "gone"
<1> DEFINE s == IF t.dep = Nothing THEN "gone"
                ELSE IF t.end > 0 THEN "drain" ELSE "read"
<1> DEFINE v == [t EXCEPT !.pc = s, !.done = <<>>, !.hit = 0, !.num = 0]
<1>1. s \in {"gone", "drain", "read"} /\ (s = "gone" <=> t.dep = Nothing)
  OBVIOUS
<1>2. s \in Stages
  BY <1>1 DEF Stages, Resting
<1>3. Onwards(t) = v
  BY DEF Onwards
<1> HIDE DEF s
<1>0. <<>> \in Output
  BY DEF Output
<1>4. /\ v \in Threads /\ v.pc = s /\ v.dep = t.dep /\ v.end = t.end
      /\ v.project = t.project /\ v.by = t.by
  BY <1>0, <1>2 DEF Threads
<1> HIDE DEF v
<1>5. InHand(v)
  <2>1. s \in Following => t.dep \in Deployments
    BY <1>1 DEF Following, Threads
  <2> QED
    BY <1>1, <1>4, <2>1 DEF InHand, Resting
<1> QED
  BY <1>1, <1>3, <1>4, <1>5
----------------------------------------------------------------------------
(***************************************************************************)
(* The steps that neither look for an incident, number nor create one, nor *)
(* open one again.                                                         *)
(***************************************************************************)

Creating == {"number", "create"}

Calm ==
  /\ HeldTypes'
  /\ DOMAIN incidents' = DOMAIN incidents
  /\ \A i \in DOMAIN incidents :
       /\ incidents'[i].project = incidents[i].project
       /\ incidents'[i].number = incidents[i].number
       /\ incidents'[i].signature = incidents[i].signature
       /\ incidents'[i].status # "resolved" => incidents[i].status # "resolved"
  /\ \A r \in Readers :
       \/ thread'[r] = thread[r]
       \/ thread'[r].pc \notin Creating /\ thread[r].pc # "gone"
  /\ UNCHANGED <<crossed, collided, reopened>>

LEMMA CalmThread ==
  ASSUME NEW r \in Readers, NEW v, HeldTypes', Hands(r, v), v.pc \notin Creating,
         thread[r].pc # "gone", UNCHANGED <<incidents, crossed, collided, reopened>>
  PROVE  Calm
BY DEF Calm, Hands

(* The record of a thread.                                                 *)
LEMMA ThreadIs ==
  ASSUME HeldTypes, NEW r \in Readers
  PROVE  thread[r] \in Threads /\ InHand(thread[r])
BY DEF HeldTypes

(* A deployment that nobody follows yet changes.                           *)
LEMMA AppsCalm ==
  ASSUME HeldTypes, UNCHANGED <<output, buffer, thread, incidents, history>>
  PROVE  Calm
BY DEF HeldTypes, InHand, Calm, history

LEMMA PrintsCalm ==
  ASSUME HeldTypes, IngestionAssumption, NEW d \in Deployments, Prints(d)
  PROVE  Calm
<1>1. PICK s \in Scripts[d] : /\ Len(output[d]) < Len(s)
                             /\ output' = [output EXCEPT ![d] =
                                            Append(@, s[Len(@) + 1])]
  BY DEF Prints
<1>2. s \in Seq(Lines) /\ output[d] \in Seq(Lines)
      /\ output \in [Deployments -> Seq(Lines)]
  BY DEF HeldTypes, IngestionAssumption, Output
<1>3. PICK l \in Lines : output' = [output EXCEPT ![d] = Append(output[d], l)]
  <2>1. Len(output[d]) + 1 \in 1..Len(s)
    BY <1>1, <1>2
  <2>2. s[Len(output[d]) + 1] \in Lines
    BY <1>2, <2>1
  <2>3. output' = [output EXCEPT ![d] = Append(output[d], s[Len(output[d]) + 1])]
    BY <1>1
  <2> QED
    BY <2>2, <2>3
<1>4. Append(output[d], l) \in Seq(Lines)
      /\ Len(Append(output[d], l)) = Len(output[d]) + 1 /\ Len(output[d]) \in Nat
  BY <1>2
<1>5. output' \in [Deployments -> Output]
      /\ \A e \in Deployments : Len(output[e]) <= Len(output'[e])
  <2>1. output' \in [Deployments -> Output]
    BY <1>2, <1>3, <1>4 DEF Output
  <2>2. ASSUME NEW e \in Deployments PROVE Len(output[e]) <= Len(output'[e])
    <3>1. output[e] \in Seq(Lines) /\ Len(output[e]) \in Nat
      BY <1>2
    <3>2. output'[e] = IF e = d THEN Append(output[d], l) ELSE output[e]
      BY <1>2, <1>3
    <3> QED
      BY <1>4, <3>1, <3>2
  <2> QED
    BY <2>1, <2>2
<1>6. UNCHANGED <<buffer, thread, incidents, crossed, collided, reopened>>
  BY DEF Prints, history
<1>7. Grows
  BY <1>5, <1>6 DEF Grows
<1>8. \A r \in Readers : InHand(thread[r])'
  BY <1>6, <1>7, Kept
<1>9. HeldTypes'
  BY <1>5, <1>6, <1>8 DEF HeldTypes
<1> QED
  BY <1>6, <1>9 DEF Calm

(* Somebody starts to follow a deployment.                                 *)
LEMMA FollowsCalm ==
  ASSUME HeldTypes, IngestionAssumption, NEW w \in Workers, NEW d \in Deployments,
         NEW r \in Readers, Spawn(w, d, r) \/ ComposeGoesLive(w, d, r) \/ Adopt(w, d, r)
  PROVE  Calm
<1>1. PICK s \in {"start", "read"} : thread' = [thread EXCEPT ![r] =
        [Free EXCEPT !.pc = s, !.by = w, !.dep = d, !.project = ProjectOf[d]]]
  <2>1. thread' = [thread EXCEPT ![r] =
          [Free EXCEPT !.pc = "read", !.by = w, !.dep = d, !.project = ProjectOf[d]]]
        \/ thread' = [thread EXCEPT ![r] =
          [Free EXCEPT !.pc = "start", !.by = w, !.dep = d, !.project = ProjectOf[d]]]
    BY DEF Spawn, ComposeGoesLive, Adopt, Waiting
  <2> QED
    BY <2>1
<1>2. PICK v : v = [Free EXCEPT !.pc = s, !.by = w, !.dep = d, !.project = ProjectOf[d]]
  OBVIOUS
<1>3. v \in Threads /\ InHand(v) /\ v.pc = s
  BY <1>2, FollowerIs
<1>4. /\ thread' = [thread EXCEPT ![r] = v] /\ thread[r].pc = "free"
      /\ UNCHANGED <<output, buffer, incidents, crossed, collided, reopened>>
  BY <1>1, <1>2 DEF Spawn, ComposeGoesLive, Adopt, appVars, history
<1>5. HeldTypes' /\ Hands(r, v)
  BY <1>3, <1>4, GoesOnAlone
<1> QED
  BY <1>3, <1>4, <1>5, CalmThread DEF Creating

(* The thread changes nothing but its stage.                               *)
LEMMA StageCalm ==
  ASSUME HeldTypes, NEW r \in Readers, thread[r].pc \notin Resting,
         NEW s \in Stages \ ({"bump"} \union Creating),
         s \in Following => thread[r].dep \in Deployments,
         s \in {"store", "look"} => thread[r].done # <<>>,
         thread' = [thread EXCEPT ![r].pc = s],
         UNCHANGED <<output, buffer, incidents, history>>
  PROVE  Calm
<1>1. PICK v : v = [thread[r] EXCEPT !.pc = s]
  OBVIOUS
<1>2. v \in Threads /\ InHand(v) /\ v.pc = s
  BY <1>1, ThreadIs, StageIs
<1>3. HeldTypes' /\ Hands(r, v)
  BY <1>1, <1>2, GoesOnAlone
<1> QED
  BY <1>2, <1>3, CalmThread DEF Resting, history

LEMMA WaitsCalm ==
  ASSUME HeldTypes, NEW r \in Readers,
         Idle(r) \/ Leaves(r) \/ TeeEnds(r) \/ Store(r)
  PROVE  Calm
<1>1. /\ thread[r].pc \in {"read", "drain", "store"}
      /\ UNCHANGED <<output, buffer, incidents, history>>
  BY DEF Idle, Leaves, TeeEnds, Store, appVars
<1>2. PICK s \in {"idle", "gone", "look"} :
        /\ thread' = [thread EXCEPT ![r].pc = s]
        /\ s = "idle" => Idle(r)
        /\ s = "look" => thread[r].pc = "store"
  BY DEF Idle, Leaves, TeeEnds, Store
<1>3. s = "idle" => thread[r].dep \in Deployments
  BY <1>2, ThreadIs DEF Idle, InHand, Following
<1>4. s = "look" => thread[r].done # <<>>
  BY <1>2, ThreadIs DEF InHand
<1> QED
  BY <1>1, <1>2, <1>3, <1>4, StageCalm DEF Stages, Resting, Creating, Following
LEMMA StartCalm ==
  ASSUME HeldTypes, NEW r \in Readers, Start(r)
  PROVE  Calm
<1>1. PICK n : n = Len(output[thread[r].dep])
  OBVIOUS
<1>2. PICK v : v = [thread[r] EXCEPT !.pc = "read", !.pos = n]
  OBVIOUS
<1>3. /\ thread[r] \in Threads /\ thread[r].pc = "start" /\ InHand(thread[r])
      /\ thread[r].dep \in Deployments
  BY ThreadIs DEF Start, InHand, Following
<1>4. n \in Nat
  BY <1>1, <1>3 DEF HeldTypes, Output
<1>5. /\ v \in Threads /\ v.pc = "read" /\ v.dep = thread[r].dep
      /\ v.end = thread[r].end /\ v.project = thread[r].project
      /\ v.by = thread[r].by
  BY <1>2, <1>3, <1>4 DEF Threads, Stages
<1>6. InHand(v)
  BY <1>3, <1>5 DEF InHand, Resting, Following
<1>7. thread' = [thread EXCEPT ![r] = v]
      /\ UNCHANGED <<output, buffer, incidents, crossed, collided, reopened>>
  BY <1>1, <1>2, <1>3 DEF Start, appVars, history, HeldTypes
<1>8. HeldTypes' /\ Hands(r, v)
  BY <1>5, <1>6, <1>7, GoesOnAlone
<1> QED
  BY <1>3, <1>5, <1>7, <1>8, CalmThread DEF Creating

(* There is a line for r: it follows a deployment, and has yet to take it. *)
LEMMA LineIs ==
  ASSUME HeldTypes, NEW r \in Readers,
         \/ thread[r].pc \in {"read", "idle"}
            /\ thread[r].pos < Len(output[thread[r].dep])
         \/ thread[r].pc = "drain" /\ thread[r].pos < thread[r].end
  PROVE  /\ thread[r].dep \in Deployments /\ thread[r].by \in Workers
         /\ output[thread[r].dep][thread[r].pos + 1] \in Lines
<1>1. PICK d, n : d = thread[r].dep /\ n = thread[r].pos
  OBVIOUS
<1>2. /\ d \in Deployments /\ thread[r].by \in Workers
      /\ n \in Nat /\ thread[r].end \in Nat /\ thread[r].end <= Len(output[d])
  BY <1>1, ThreadIs DEF InHand, Following, Resting, Threads
<1>3. output[d] \in Seq(Lines) /\ Len(output[d]) \in Nat
  BY <1>2 DEF HeldTypes, Output
<1>4. n < Len(output[d])
  BY <1>1, <1>2, <1>3
<1>5. output[d][n + 1] \in Lines
  BY <1>2, <1>3, <1>4
<1> QED
  BY <1>1, <1>2, <1>5

(* r takes or skips its line.                                              *)
LEMMA TakenIs ==
  ASSUME HeldTypes, NEW r \in Readers, NEW done \in Output,
         thread[r].pc \in {"read", "idle", "drain"},
         NEW s \in {"read", "drain", "store"}, s = "store" => done # <<>>
  PROVE  LET v == [thread[r] EXCEPT !.pos = thread[r].pos + 1, !.done = done, !.pc = s]
         IN  v \in Threads /\ InHand(v) /\ v.pc = s
<1> DEFINE v == [thread[r] EXCEPT !.pos = thread[r].pos + 1, !.done = done, !.pc = s]
<1>1. thread[r] \in Threads /\ InHand(thread[r]) /\ s \in Stages
  BY ThreadIs DEF Stages
<1>2. thread[r].pos + 1 \in Nat
  BY <1>1 DEF Threads
<1>3. /\ v \in Threads /\ v.pc = s /\ v.dep = thread[r].dep
      /\ v.end = thread[r].end /\ v.project = thread[r].project
      /\ v.by = thread[r].by /\ v.done = done
  BY <1>1, <1>2 DEF Threads
<1> HIDE DEF v
<1>4. InHand(v)
  BY <1>1, <1>3 DEF InHand, Resting, Following
<1> QED
  BY <1>3, <1>4 DEF v

LEMMA TakeCalm ==
  ASSUME HeldTypes, NEW r \in Readers, Take(r)
  PROVE  Calm
<1>1. PICK w, d, l : /\ w = thread[r].by /\ d = thread[r].dep
                     /\ l = output[d][thread[r].pos + 1]
  OBVIOUS
<1>2. PICK c : c = Captured(buffer[w][d], l)
  OBVIOUS
<1>3. /\ w \in Workers /\ d \in Deployments /\ l \in Lines
      /\ thread[r].pc \in {"read", "idle", "drain"}
  BY <1>1, LineIs DEF Take
<1>4. buffer[w][d] \in Output /\ buffer \in [Workers -> [Deployments -> Output]]
  BY <1>3 DEF HeldTypes
<1>5. c.left \in Output /\ c.done \in Output
  BY <1>2, <1>3, <1>4, CapturedIs
<1>6. PICK s : s = IF c.done # <<>> THEN "store"
                   ELSE IF thread[r].pc = "idle" THEN "read" ELSE thread[r].pc
  OBVIOUS
<1>7. s \in {"read", "drain", "store"}
  BY <1>3, <1>6
<1>8. PICK v : v = [thread[r] EXCEPT !.pos = thread[r].pos + 1, !.done = c.done,
                                     !.pc = s]
  OBVIOUS
<1>9. v \in Threads /\ InHand(v) /\ v.pc = s
  <2>1. PICK done \in Output : done = c.done
    BY <1>5
  <2>2. v = [thread[r] EXCEPT !.pos = thread[r].pos + 1, !.done = done, !.pc = s]
    BY <1>8, <2>1
  <2>3. s = "store" => done # <<>>
    BY <1>3, <1>6, <2>1
  <2> QED
    BY <1>3, <1>7, <2>2, <2>3, TakenIs
<1>10. /\ buffer' = [buffer EXCEPT ![w][d] = c.left]
       /\ UNCHANGED <<output, incidents, crossed, collided, reopened>>
  BY <1>1, <1>2 DEF Take, appVars
<1>11. thread' = [thread EXCEPT ![r] = v]
  <2>1. thread' = [thread EXCEPT ![r].pos = @ + 1, ![r].done = c.done,
                     ![r].pc = IF c.done # <<>> THEN "store"
                               ELSE IF @ = "idle" THEN "read" ELSE @]
    BY <1>1, <1>2 DEF Take
  <2>2. thread[r] \in Threads /\ thread \in [Readers -> Threads]
    BY DEF HeldTypes
  <2> QED
    BY <1>6, <1>8, <2>1, <2>2 DEF Threads
<1>12. buffer' \in [Workers -> [Deployments -> Output]]
  BY <1>3, <1>4, <1>5, <1>10
<1>13. InHand(v)'
  BY <1>9, <1>10 DEF InHand
<1>14. HeldTypes' /\ Hands(r, v)
  BY <1>9, <1>10, <1>11, <1>12, <1>13, Unmoved, GoesOn
<1> QED
  BY <1>3, <1>7, <1>9, <1>10, <1>14, CalmThread DEF Creating
LEMMA MissesCalm ==
  ASSUME HeldTypes, NEW r \in Readers, Misses(r)
  PROVE  Calm
<1>1. /\ thread[r].pc \in {"read", "idle", "drain"}
      /\ thread[r] \in Threads /\ thread \in [Readers -> Threads]
      /\ UNCHANGED <<output, buffer, incidents, crossed, collided, reopened>>
  BY DEF Misses, appVars, history, HeldTypes
<1>2. PICK s : s = IF thread[r].pc = "idle" THEN "read" ELSE thread[r].pc
  OBVIOUS
<1>3. s \in {"read", "drain", "store"} /\ s # "store"
  BY <1>1, <1>2
<1>4. PICK done \in Output : done = thread[r].done
  BY <1>1 DEF Threads
<1>5. PICK v : v = [thread[r] EXCEPT !.pos = thread[r].pos + 1, !.done = done, !.pc = s]
  OBVIOUS
<1>6. v \in Threads /\ InHand(v) /\ v.pc = s
  BY <1>1, <1>3, <1>5, TakenIs
<1>7. thread' = [thread EXCEPT ![r] = v]
  <2>1. thread' = [thread EXCEPT ![r].pos = @ + 1,
                     ![r].pc = IF @ = "idle" THEN "read" ELSE @]
    BY DEF Misses
  <2>2. v = [thread[r] EXCEPT !.pos = thread[r].pos + 1, !.pc = s]
    BY <1>1, <1>4, <1>5 DEF Threads
  <2> QED
    BY <1>1, <1>2, <2>1, <2>2 DEF Threads
<1>8. HeldTypes' /\ Hands(r, v)
  BY <1>1, <1>6, <1>7, GoesOnAlone
<1> QED
  BY <1>1, <1>3, <1>6, <1>8, CalmThread DEF Creating

LEMMA GivesUpCalm ==
  ASSUME HeldTypes, NEW r \in Readers, GivesUp(r)
  PROVE  Calm
<1>1. PICK n : n = Len(output[thread[r].dep])
  OBVIOUS
<1>2. /\ thread[r] \in Threads /\ thread[r].pc = "idle" /\ InHand(thread[r])
      /\ thread[r].dep \in Deployments
      /\ UNCHANGED <<output, buffer, incidents, crossed, collided, reopened>>
  BY ThreadIs DEF GivesUp, InHand, Following, appVars, history
<1>3. n \in Nat
  BY <1>1, <1>2 DEF HeldTypes, Output
<1>4. PICK v : v = [thread[r] EXCEPT !.pc = "drain", !.end = n]
  OBVIOUS
<1>5. /\ v \in Threads /\ v.pc = "drain" /\ v.dep = thread[r].dep /\ v.end = n
      /\ v.project = thread[r].project /\ v.by = thread[r].by
  BY <1>2, <1>3, <1>4 DEF Threads, Stages
<1>6. InHand(v)
  BY <1>1, <1>2, <1>3, <1>5 DEF InHand, Resting, Following
<1>7. thread' = [thread EXCEPT ![r] = v]
  BY <1>1, <1>2, <1>4 DEF GivesUp, HeldTypes
<1>8. HeldTypes' /\ Hands(r, v)
  BY <1>2, <1>5, <1>6, <1>7, GoesOnAlone
<1> QED
  BY <1>2, <1>5, <1>8, CalmThread DEF Creating

LEMMA DropsCalm ==
  ASSUME HeldTypes, NEW r \in Readers, Drops(r)
  PROVE  Calm
<1>1. PICK v : v = Onwards(thread[r])
  OBVIOUS
<1>2. /\ thread[r].pc \in {"store", "look", "bump", "number", "create"}
      /\ thread' = [thread EXCEPT ![r] = v]
      /\ UNCHANGED <<output, buffer, incidents, crossed, collided, reopened>>
  BY <1>1 DEF Drops, appVars
<1>3. v \in Threads /\ InHand(v) /\ v.pc \notin Creating
  BY <1>1, <1>2, ThreadIs, OnwardsIs DEF Resting, Creating
<1>4. HeldTypes' /\ Hands(r, v)
  BY <1>2, <1>3, GoesOnAlone
<1> QED
  BY <1>2, <1>3, <1>4, CalmThread

LEMMA BumpCalm ==
  ASSUME HeldTypes, NEW r \in Readers, Bump(r)
  PROVE  Calm
<1>1. PICK v, h : v = Onwards(thread[r]) /\ h = thread[r].hit
  OBVIOUS
<1>2. /\ thread[r].pc = "bump" /\ thread' = [thread EXCEPT ![r] = v]
      /\ incidents' = [incidents EXCEPT ![h].occurrences = @ + 1]
      /\ UNCHANGED <<output, buffer, crossed, collided, reopened>>
  BY <1>1 DEF Bump, appVars, history
<1>3. v \in Threads /\ InHand(v) /\ v.pc \notin Creating
  BY <1>1, <1>2, ThreadIs, OnwardsIs DEF Resting, Creating
<1>4. h \in DOMAIN incidents /\ incidents \in Seq(IncidentRows)
      /\ incidents[h] \in IncidentRows
  BY <1>1, <1>2, ThreadIs DEF InHand, HeldTypes
<1>5. PICK inc : inc = [incidents[h] EXCEPT !.occurrences = incidents[h].occurrences + 1]
  OBVIOUS
<1>6. /\ inc \in IncidentRows /\ inc.project = incidents[h].project
      /\ inc.number = incidents[h].number /\ inc.signature = incidents[h].signature
      /\ inc.status = incidents[h].status
  <2>1. incidents[h].occurrences + 1 \in Nat
    BY <1>4 DEF IncidentRows
  <2> QED
    BY <1>4, <1>5, <2>1 DEF IncidentRows
<1>7. incidents' = [incidents EXCEPT ![h] = inc]
  BY <1>2, <1>4, <1>5 DEF IncidentRows
<1>8. /\ incidents' \in Seq(IncidentRows) /\ DOMAIN incidents' = DOMAIN incidents
      /\ \A i \in DOMAIN incidents :
           incidents'[i] = IF i = h THEN inc ELSE incidents[i]
  BY <1>4, <1>6, <1>7
<1>9. \A i \in DOMAIN incidents :
        /\ incidents'[i].project = incidents[i].project
        /\ incidents'[i].number = incidents[i].number
        /\ incidents'[i].signature = incidents[i].signature
        /\ incidents'[i].status = incidents[i].status
  BY <1>6, <1>8
<1>10. HeldTypes' /\ Hands(r, v)
  <2>1. Grows
    <3>1. \A d \in Deployments : Len(output[d]) \in Nat
      BY DEF HeldTypes, Output
    <3> QED
      BY <1>2, <1>8, <3>1 DEF Grows, HeldTypes
  <2>2. InHand(v)' /\ buffer' \in [Workers -> [Deployments -> Output]]
    BY <1>2, <1>3, <1>8 DEF InHand, HeldTypes
  <2>3. \E b \in Nat : \A i \in DOMAIN incidents' : incidents'[i].number <= b
    BY <1>8, <1>9 DEF HeldTypes
  <2> QED
    BY <1>2, <1>3, <1>8, <2>1, <2>2, <2>3, GoesOn
<1> QED
  BY <1>2, <1>3, <1>8, <1>9, <1>10 DEF Calm, Hands
LEMMA RestartCalm ==
  ASSUME HeldTypes, NEW w \in Workers, Restart(w)
  PROVE  Calm
<1>1. UNCHANGED <<output, incidents, crossed, collided, reopened>>
  BY DEF Restart, appVars
<1>2. \A r \in Readers :
        \/ thread'[r] = thread[r]
        \/ thread'[r] = [thread[r] EXCEPT !.pc = "gone"] /\ thread[r].pc # "gone"
  BY DEF Restart, Active, Resting
<1>3. thread' = [r \in Readers |-> thread'[r]]
  BY DEF Restart
<1>4. ASSUME NEW r \in Readers
      PROVE  thread'[r] \in Threads /\ InHand(thread[r])'
  <2>1. CASE thread'[r] = thread[r]
    BY <1>1, <2>1, ThreadIs, Unmoved, Kept
  <2>2. CASE thread'[r] # thread[r]
    <3>1. thread'[r] = [thread[r] EXCEPT !.pc = "gone"]
      BY <1>2, <2>2
    <3>2. thread[r] \in Threads /\ InHand(thread[r]) /\ "gone" \in Stages
      BY ThreadIs DEF Stages, Resting
    <3>3. /\ thread'[r] \in Threads /\ thread'[r].pc = "gone"
          /\ thread'[r].dep = thread[r].dep /\ thread'[r].end = thread[r].end
      BY <3>1, <3>2 DEF Threads
    <3> QED
      BY <1>1, <3>2, <3>3 DEF InHand, Resting, Following
  <2> QED
    BY <2>1, <2>2
<1>5. thread' \in [Readers -> Threads]
  BY <1>3, <1>4
<1>6. buffer' \in [Workers -> [Deployments -> Output]]
  BY DEF Restart, HeldTypes, Output
<1>7. HeldTypes'
  BY <1>1, <1>4, <1>5, <1>6 DEF HeldTypes
<1>8. ASSUME NEW r \in Readers, thread'[r] # thread[r]
      PROVE  thread'[r].pc \notin Creating /\ thread[r].pc # "gone"
  <2>1. thread'[r] = [thread[r] EXCEPT !.pc = "gone"] /\ thread[r].pc # "gone"
    BY <1>2, <1>8
  <2>2. thread'[r].pc = "gone"
    BY <2>1, ThreadIs DEF Threads
  <2> QED
    BY <2>1, <2>2 DEF Creating
<1> QED
  BY <1>1, <1>7, <1>8 DEF Calm

(* The status of an incident is written.                                   *)
LEMMA StatusIs ==
  ASSUME HeldTypes, NEW i \in DOMAIN incidents, NEW s \in {"open", "resolved"},
         incidents' = [incidents EXCEPT ![i].status = s],
         UNCHANGED <<output, buffer, thread>>
  PROVE  /\ HeldTypes' /\ DOMAIN incidents' = DOMAIN incidents
         /\ \A j \in DOMAIN incidents :
              /\ incidents'[j].project = incidents[j].project
              /\ incidents'[j].number = incidents[j].number
              /\ incidents'[j].signature = incidents[j].signature
              /\ incidents'[j].status = IF j = i THEN s ELSE incidents[j].status
<1>1. incidents \in Seq(IncidentRows) /\ incidents[i] \in IncidentRows
  BY DEF HeldTypes
<1>2. PICK inc : inc = [incidents[i] EXCEPT !.status = s]
  OBVIOUS
<1>3. /\ inc \in IncidentRows /\ inc.project = incidents[i].project
      /\ inc.number = incidents[i].number /\ inc.signature = incidents[i].signature
      /\ inc.status = s
  BY <1>1, <1>2 DEF IncidentRows
<1>4. incidents' = [incidents EXCEPT ![i] = inc]
  BY <1>2
<1>5. /\ incidents' \in Seq(IncidentRows) /\ DOMAIN incidents' = DOMAIN incidents
      /\ \A j \in DOMAIN incidents :
           incidents'[j] = IF j = i THEN inc ELSE incidents[j]
  BY <1>1, <1>3, <1>4
<1>6. \A j \in DOMAIN incidents :
        /\ incidents'[j].project = incidents[j].project
        /\ incidents'[j].number = incidents[j].number
        /\ incidents'[j].signature = incidents[j].signature
        /\ incidents'[j].status = IF j = i THEN s ELSE incidents[j].status
  BY <1>3, <1>5
<1>7. \A r \in Readers : InHand(thread[r])'
  BY <1>5 DEF HeldTypes, InHand
<1>8. \E b \in Nat : \A j \in DOMAIN incidents' : incidents'[j].number <= b
  BY <1>5, <1>6 DEF HeldTypes
<1>9. HeldTypes'
  BY <1>5, <1>7, <1>8 DEF HeldTypes
<1> QED
  BY <1>5, <1>6, <1>9

LEMMA StatusCalm ==
  ASSUME HeldTypes, NEW i \in DOMAIN incidents,
         Resolve(i) \/ Reopen(i) \/ Acknowledge(i)
  PROVE  Calm \/ OpensAgain(i)
<1>0. CASE UNCHANGED vars
  BY <1>0 DEF vars, HeldTypes, InHand, Calm
<1>1. CASE Resolve(i)
  <2>1. /\ incidents' = [incidents EXCEPT ![i].status = "resolved"]
        /\ UNCHANGED <<output, buffer, thread, crossed, collided, reopened>>
    BY <1>1 DEF Resolve, appVars, history
  <2>2. /\ HeldTypes' /\ DOMAIN incidents' = DOMAIN incidents
        /\ \A j \in DOMAIN incidents :
             /\ incidents'[j].project = incidents[j].project
             /\ incidents'[j].number = incidents[j].number
             /\ incidents'[j].signature = incidents[j].signature
             /\ incidents'[j].status = IF j = i THEN "resolved" ELSE incidents[j].status
    BY <2>1, StatusIs
  <2>3. \A j \in DOMAIN incidents :
          incidents'[j].status # "resolved" => incidents[j].status # "resolved"
    BY <2>2
  <2>4. \A r \in Readers : thread'[r] = thread[r]
    BY <2>1
  <2> QED
    BY <2>1, <2>2, <2>3, <2>4 DEF Calm
<1> QED
  BY <1>0, <1>1 DEF Reopen, Acknowledge

(* An open incident was found: the oldest one.                             *)
LEMMA LookCalm ==
  ASSUME HeldTypes, NEW r \in Readers, Look(r),
         Unresolved(Signature(thread[r].done)) # {}
  PROVE  Calm
<1>1. PICK h : h = Min(Unresolved(Signature(thread[r].done)))
  OBVIOUS
<1>2. h \in DOMAIN incidents
  <2>1. /\ Unresolved(Signature(thread[r].done)) \subseteq DOMAIN incidents
        /\ DOMAIN incidents \subseteq Nat
    BY DEF Unresolved, HeldTypes
  <2>2. h \in Unresolved(Signature(thread[r].done))
    BY <1>1, <2>1, MinIs
  <2> QED
    BY <2>1, <2>2
<1>3. PICK v : v = [thread[r] EXCEPT !.pc = "bump", !.hit = h]
  OBVIOUS
<1>4. /\ thread[r].pc = "look" /\ thread' = [thread EXCEPT ![r] = v]
      /\ UNCHANGED <<output, buffer, incidents, crossed, collided, reopened>>
  BY <1>1, <1>3 DEF Look, appVars
<1>5. thread[r] \in Threads /\ InHand(thread[r]) /\ h \in Nat
  BY <1>2, ThreadIs DEF HeldTypes
<1>6. /\ v \in Threads /\ v.pc = "bump" /\ v.hit = h /\ v.dep = thread[r].dep
      /\ v.end = thread[r].end /\ v.project = thread[r].project
      /\ v.by = thread[r].by
  BY <1>3, <1>5 DEF Threads, Stages
<1>7. InHand(v)
  BY <1>2, <1>4, <1>5, <1>6 DEF InHand, Resting, Following
<1>8. HeldTypes' /\ Hands(r, v)
  BY <1>4, <1>6, <1>7, GoesOnAlone
<1> QED
  BY <1>4, <1>6, <1>8, CalmThread DEF Creating
----------------------------------------------------------------------------
(***************************************************************************)
(* The steps that create an incident, and open one again.                  *)
(***************************************************************************)

(* No open incident was found.                                             *)
LEMMA LookMisses ==
  ASSUME HeldTypes, NEW r \in Readers, Look(r),
         Unresolved(Signature(thread[r].done)) = {}
  PROVE  /\ HeldTypes' /\ \A q \in Readers \ {r} : thread'[q] = thread[q]
         /\ thread[r].pc = "look" /\ thread'[r].pc = "number"
         /\ thread'[r].done = thread[r].done /\ thread'[r].dep = thread[r].dep
         /\ thread'[r].project = thread[r].project
         /\ UNCHANGED <<incidents, collided, reopened>>
<1>1. PICK v : v = [thread[r] EXCEPT !.pc = "number"]
  OBVIOUS
<1>2. /\ thread[r].pc = "look" /\ thread' = [thread EXCEPT ![r] = v]
      /\ UNCHANGED <<output, buffer, incidents, collided, reopened>>
  BY <1>1 DEF Look, appVars
<1>3. thread[r] \in Threads /\ InHand(thread[r])
  BY ThreadIs
<1>4. v \in Threads /\ InHand(v)
  BY <1>1, <1>2, <1>3, StageIs DEF Resting, Following, Stages
<1>5. /\ v.pc = "number" /\ v.done = thread[r].done /\ v.dep = thread[r].dep
      /\ v.project = thread[r].project
  BY <1>1, <1>3 DEF Threads
<1>6. HeldTypes' /\ Hands(r, v)
  BY <1>2, <1>4, GoesOnAlone
<1> QED
  BY <1>2, <1>5, <1>6 DEF Hands

(* A new number is higher than every number of the project.                *)
LEMMA NextNumberIs ==
  ASSUME HeldTypes, NEW p
  PROVE  /\ NextNumber(p) \in Nat /\ NextNumber(p) # 0
         /\ \A i \in DOMAIN incidents :
              incidents[i].project = p => incidents[i].number < NextNumber(p)
<1> DEFINE mine == {i \in DOMAIN incidents : incidents[i].project = p}
<1> DEFINE S == {incidents[i].number : i \in mine}
<1>1. \A i \in DOMAIN incidents : incidents[i].number \in Nat
  BY RowIs DEF IncidentRows
<1>2. PICK b \in Nat : \A i \in DOMAIN incidents : incidents[i].number <= b
  BY DEF HeldTypes
<1>3. S \in SUBSET Nat /\ \A s \in S : s <= b
  BY <1>1, <1>2
<1>4. NextNumber(p) = IF mine = {} THEN 1 ELSE 1 + Max(S)
  BY DEF NextNumber
<1>5. mine # {} => S # {}
  OBVIOUS
<1>6. \A i \in DOMAIN incidents : incidents[i].project = p =>
        mine # {} /\ incidents[i].number \in S
  OBVIOUS
<1> HIDE DEF S, mine
<1>7. CASE mine = {}
  BY <1>4, <1>6, <1>7
<1>8. CASE mine # {}
  <2>1. Max(S) \in Nat /\ \A s \in S : s \in Nat /\ s <= Max(S)
    BY <1>3, <1>5, <1>8, MaxIs
  <2>2. NextNumber(p) \in Nat /\ NextNumber(p) # 0 /\ \A s \in S : s < NextNumber(p)
    BY <1>4, <1>8, <2>1
  <2> QED
    BY <1>6, <2>2
<1> QED
  BY <1>7, <1>8

LEMMA NumberNumbers ==
  ASSUME HeldTypes, NEW r \in Readers, Number(r)
  PROVE  /\ HeldTypes' /\ \A q \in Readers \ {r} : thread'[q] = thread[q]
         /\ thread[r].pc = "number" /\ thread'[r].pc = "create"
         /\ thread'[r].num = NextNumber(thread[r].project)
         /\ thread'[r].done = thread[r].done /\ thread'[r].dep = thread[r].dep
         /\ thread'[r].project = thread[r].project
         /\ UNCHANGED <<incidents, crossed, reopened>>
<1>1. PICK n : n = NextNumber(thread[r].project)
  OBVIOUS
<1>2. n \in Nat
  BY <1>1, NextNumberIs
<1>3. PICK v : v = [thread[r] EXCEPT !.pc = "create", !.num = n]
  OBVIOUS
<1>4. /\ thread[r].pc = "number"
      /\ UNCHANGED <<output, buffer, incidents, crossed, reopened>>
  BY DEF Number, appVars
<1>5. thread[r] \in Threads /\ InHand(thread[r])
  BY ThreadIs
<1>6. thread' = [thread EXCEPT ![r] = v]
  BY <1>1, <1>3, <1>5 DEF Number, HeldTypes
<1>7. /\ v \in Threads /\ v.pc = "create" /\ v.done = thread[r].done
      /\ v.dep = thread[r].dep /\ v.project = thread[r].project
      /\ v.end = thread[r].end /\ v.by = thread[r].by /\ v.num = n
  BY <1>2, <1>3, <1>5 DEF Threads, Stages
<1>8. InHand(v)
  BY <1>4, <1>5, <1>7 DEF InHand, Resting, Following
<1>9. HeldTypes' /\ Hands(r, v)
  BY <1>4, <1>6, <1>7, <1>8, GoesOnAlone
<1> QED
  BY <1>1, <1>4, <1>7, <1>9 DEF Hands

LEMMA DeclareDeclares ==
  ASSUME HeldTypes, NEW w \in Workers, NEW p \in Projects, NEW r \in Readers,
         Declare(w, p, r)
  PROVE  /\ HeldTypes' /\ \A q \in Readers \ {r} : thread'[q] = thread[q]
         /\ thread[r].pc = "free" /\ thread'[r].pc = "number"
         /\ thread'[r].done = <<>> /\ thread'[r].dep = Nothing
         /\ UNCHANGED <<incidents, crossed, collided, reopened>>
<1>1. PICK v : v = [Free EXCEPT !.pc = "number", !.by = w, !.project = p]
  OBVIOUS
<1>2. /\ thread[r].pc = "free" /\ thread' = [thread EXCEPT ![r] = v]
      /\ UNCHANGED <<output, buffer, incidents, crossed, collided, reopened>>
  BY <1>1 DEF Declare, appVars, history
<1>3. /\ v \in Threads /\ v.pc = "number" /\ v.done = <<>> /\ v.dep = Nothing
      /\ v.end = 0 /\ v.project = p /\ v.by = w
  BY <1>1, FreeIs DEF Threads, Stages
<1>4. InHand(v)
  <2>1. v.dep \in Deployments => v.end <= Len(output[v.dep])
    <3>1. \A d \in Deployments : Len(output[d]) \in Nat
      BY DEF HeldTypes, Output
    <3> QED
      BY <1>3, <3>1
  <2> QED
    BY <1>3, <2>1 DEF InHand, Resting, Following
<1>5. HeldTypes' /\ Hands(r, v)
  BY <1>2, <1>3, <1>4, GoesOnAlone
<1> QED
  BY <1>2, <1>3, <1>5 DEF Hands

LEMMA CreateCreates ==
  ASSUME HeldTypes, NEW r \in Readers, Create(r)
  PROVE  LET n == Len(incidents) + 1 IN
         /\ HeldTypes' /\ \A q \in Readers \ {r} : thread'[q] = thread[q]
         /\ thread[r].pc = "create" /\ thread'[r].pc \notin Creating
         /\ thread[r].dep = Nothing => thread'[r].pc = "gone"
         /\ DOMAIN incidents' = DOMAIN incidents \union {n} /\ n \notin DOMAIN incidents
         /\ \A i \in DOMAIN incidents : incidents'[i] = incidents[i]
         /\ incidents'[n].project = thread[r].project
         /\ incidents'[n].number = thread[r].num
         /\ incidents'[n].signature = IF thread[r].done = <<>> THEN Declared(r)
                                      ELSE Signature(thread[r].done)
         /\ UNCHANGED <<crossed, collided, reopened>>
<1>1. PICK v, s : /\ v = Onwards(thread[r])
                  /\ s = IF thread[r].done = <<>> THEN Declared(r)
                         ELSE Signature(thread[r].done)
  OBVIOUS
<1>2. PICK inc : inc = Incident(thread[r].project, thread[r].num, s)
  OBVIOUS
<1>3. /\ thread[r].pc = "create" /\ thread' = [thread EXCEPT ![r] = v]
      /\ incidents' = Append(incidents, inc)
      /\ UNCHANGED <<output, buffer, crossed, collided, reopened>>
  BY <1>1, <1>2 DEF Create, appVars, history
<1>4. thread[r] \in Threads /\ InHand(thread[r]) /\ thread[r].project \in Projects
  BY <1>3, ThreadIs DEF InHand, Resting
<1>5. s \in Signatures
  BY <1>1, <1>4 DEF Signatures, Declared, Threads
<1>6. /\ inc \in IncidentRows /\ inc.project = thread[r].project
      /\ inc.number = thread[r].num /\ inc.signature = s /\ thread[r].num \in Nat
  BY <1>2, <1>4, <1>5 DEF Incident, IncidentRows, Threads
<1>7. /\ v \in Threads /\ InHand(v) /\ v.pc \notin Creating
      /\ thread[r].dep = Nothing => v.pc = "gone"
  BY <1>1, <1>3, <1>4, OnwardsIs DEF Resting, Creating
<1>8. PICK n : n = Len(incidents) + 1
  OBVIOUS
<1>9. /\ incidents' \in Seq(IncidentRows) /\ n \notin DOMAIN incidents
      /\ DOMAIN incidents' = DOMAIN incidents \union {n} /\ incidents'[n] = inc
      /\ \A i \in DOMAIN incidents : incidents'[i] = incidents[i]
  BY <1>3, <1>6, <1>8 DEF HeldTypes
<1>10. HeldTypes' /\ Hands(r, v)
  <2>1. Grows
    <3>1. \A d \in Deployments : Len(output[d]) \in Nat
      BY DEF HeldTypes, Output
    <3> QED
      BY <1>3, <1>9, <3>1 DEF Grows, HeldTypes
  <2>2. InHand(v)' /\ buffer' \in [Workers -> [Deployments -> Output]]
    BY <1>3, <1>7, <1>9 DEF InHand, HeldTypes
  <2>3. \E b \in Nat : \A i \in DOMAIN incidents' : incidents'[i].number <= b
    <3>1. PICK b \in Nat : \A i \in DOMAIN incidents : incidents[i].number <= b
      BY DEF HeldTypes
    <3>2. PICK k \in Nat : k = inc.number
      BY <1>6
    <3>3. \A i \in DOMAIN incidents : incidents[i].number \in Nat
      BY RowIs DEF IncidentRows
    <3>4. b + k \in Nat /\ \A i \in DOMAIN incidents' : incidents'[i].number <= b + k
      BY <1>9, <3>1, <3>2, <3>3
    <3> QED
      BY <3>4
  <2> QED
    BY <1>3, <1>7, <1>9, <2>1, <2>2, <2>3, GoesOn
<1> QED
  BY <1>1, <1>3, <1>6, <1>7, <1>8, <1>9, <1>10 DEF Hands
LEMMA InitHeld == IngestionAssumption /\ Init => HeldTypes
<1> SUFFICES ASSUME IngestionAssumption, Init PROVE HeldTypes
  OBVIOUS
<1>1. thread \in [Readers -> Threads] /\ <<>> \in Output
  BY FreeIs DEF Init, Output
<1>2. ASSUME NEW r \in Readers PROVE InHand(thread[r])
  <2>1. \A d \in Deployments : output[d] = <<>>
    BY DEF Init
  <2> QED
    BY <2>1, FreeIs DEF Init, InHand, Resting, Following
<1>3. incidents \in Seq(IncidentRows) /\ DOMAIN incidents = {} /\ 0 \in Nat
  BY DEF Init
<1> QED
  BY <1>1, <1>2, <1>3 DEF Init, HeldTypes

(* Every step is one of these.                                             *)
LEMMA StepsAre ==
  ASSUME HeldTypes, IngestionAssumption, Next
  PROVE  \/ Calm
         \/ \E r \in Readers :
              \/ Look(r) /\ Unresolved(Signature(thread[r].done)) = {}
              \/ Number(r) \/ Create(r)
              \/ \E w \in Workers, p \in Projects : Declare(w, p, r)
         \/ \E i \in DOMAIN incidents : OpensAgain(i)
<1>1. CASE \E r \in Readers : ReaderStep(r)
  BY <1>1, StartCalm, TakeCalm, MissesCalm, WaitsCalm, GivesUpCalm, DropsCalm,
     LookCalm, BumpCalm DEF ReaderStep
<1>2. CASE \E d \in Deployments : ComposeUp(d) \/ GoesLive(d) \/ Exits(d) \/ Prints(d)
  <2>1. PICK d \in Deployments : ComposeUp(d) \/ GoesLive(d) \/ Exits(d) \/ Prints(d)
    BY <1>2
  <2>2. CASE Prints(d)
    BY <2>2, PrintsCalm
  <2>3. CASE ComposeUp(d) \/ GoesLive(d) \/ Exits(d)
    BY <2>3, AppsCalm DEF ComposeUp, GoesLive, Exits
  <2> QED
    BY <2>1, <2>2, <2>3
<1>3. CASE \E w \in Workers, d \in Deployments, r \in Readers :
             Spawn(w, d, r) \/ ComposeGoesLive(w, d, r) \/ Adopt(w, d, r)
  BY <1>3, FollowsCalm
<1>4. CASE \E w \in Workers, p \in Projects, r \in Readers : Declare(w, p, r)
  BY <1>4
<1>5. CASE \E i \in DOMAIN incidents : Resolve(i) \/ Reopen(i) \/ Acknowledge(i)
  BY <1>5, StatusCalm
<1>6. CASE \E w \in Workers : Restart(w)
  BY <1>6, RestartCalm
<1> QED
  BY <1>1, <1>2, <1>3, <1>4, <1>5, <1>6 DEF Next

LEMMA OpensAgainOpens ==
  ASSUME HeldTypes, NEW i \in DOMAIN incidents, OpensAgain(i)
  PROVE  /\ HeldTypes' /\ DOMAIN incidents' = DOMAIN incidents
         /\ \A j \in DOMAIN incidents :
              /\ incidents'[j].project = incidents[j].project
              /\ incidents'[j].number = incidents[j].number
              /\ incidents'[j].signature = incidents[j].signature
              /\ j = i \/ incidents'[j].status = incidents[j].status
         /\ reopened' = reopened \union {incidents[i].signature}
         /\ UNCHANGED <<thread, crossed, collided>>
<1>1. /\ incidents' = [incidents EXCEPT ![i].status = "open"]
      /\ reopened' = reopened \union {incidents[i].signature}
      /\ UNCHANGED <<output, buffer, thread, crossed, collided>>
  BY DEF OpensAgain, appVars
<1> QED
  BY <1>1, StatusIs

(* The type of what the threads hold: a line to take in is there, an       *)
(* occurrence is counted for an incident that exists.                      *)
THEOREM HandsCorrect == Spec => []HeldTypes
<1>1. HeldTypes /\ [Next]_vars => HeldTypes'
  <2> SUFFICES ASSUME HeldTypes, [Next]_vars PROVE HeldTypes'
    OBVIOUS
  <2>1. CASE Next
    BY <2>1, IngestionAssumption, StepsAre, LookMisses, NumberNumbers,
       CreateCreates, DeclareDeclares, OpensAgainOpens DEF Calm
  <2>2. CASE UNCHANGED vars
    BY <2>2 DEF vars, HeldTypes, InHand
  <2> QED
    BY <2>1, <2>2
<1> QED
  BY <1>1, InitHeld, IngestionAssumption, PTL DEF Spec

(* What the registers of the processes, their buffers and the rows hold.   *)
Registers ==
  /\ row \in [Deployments -> {"none", "building", "live", "failed", "stopped"}]
  /\ app \in [Deployments -> BOOLEAN]
  /\ tailers \in [Workers -> SUBSET (Deployments \ Compose)]
  /\ tees \in [Workers -> [Deployments -> Readers \union {Nothing}]]
  /\ fed \in [Workers -> [Deployments -> Fed]]
  /\ faults \in 0..MaxFaults

ShortBuffers == \A w \in Workers, d \in Deployments : Len(buffer[w][d]) <= MaxCapture

HitsAreRows == \A r \in Readers : thread[r].hit \in DOMAIN incidents \union {0}

RowsCount ==
  \A i \in DOMAIN incidents : incidents[i].number # 0 /\ incidents[i].occurrences # 0

LEMMA FedMoves ==
  ASSUME Registers, NEW w \in Workers, NEW d \in Deployments, NEW l \in Lines,
         fed' = [fed EXCEPT ![w][d] = Append(@, l)]
  PROVE  fed' \in [Workers -> [Deployments -> Fed]]
<1>1. fed[w][d] \in Seq(Lines \union {Reset})
  BY DEF Registers, Fed
<1>2. Append(fed[w][d], l) \in Fed
  BY <1>1 DEF Fed
<1> QED
  BY <1>2 DEF Registers

LEMMA RegistersStep ==
  ASSUME HeldTypes, Registers, IngestionAssumption, [Next]_vars
  PROVE  Registers'
<1> USE DEF Registers
<1>1. CASE UNCHANGED vars
  BY <1>1 DEF vars
<1>2. ASSUME NEW d \in Deployments,
             ComposeUp(d) \/ GoesLive(d) \/ Exits(d) \/ Prints(d)
      PROVE  Registers'
  BY <1>2 DEF ComposeUp, GoesLive, Exits, Prints, regVars, history
<1>3. ASSUME NEW w \in Workers, NEW d \in Deployments, NEW r \in Readers,
             Spawn(w, d, r) \/ ComposeGoesLive(w, d, r) \/ Adopt(w, d, r)
      PROVE  Registers'
  <2>1. UNCHANGED <<tees, fed, faults>>
    BY <1>3 DEF Spawn, ComposeGoesLive, Adopt, regVars, history
  <2>2. /\ row' = row \/ \E s \in {"building", "live"} : row' = [row EXCEPT ![d] = s]
        /\ app' = app \/ app' = [app EXCEPT ![d] = TRUE]
    BY <1>3 DEF Spawn, ComposeGoesLive, Adopt, appVars
  <2>3. \/ tailers' = tailers
        \/ d \notin Compose /\ tailers' = [tailers EXCEPT ![w] = @ \union {d}]
    BY <1>3 DEF Spawn, ComposeGoesLive, Adopt, regVars
  <2>4. /\ row' \in [Deployments -> {"none", "building", "live", "failed", "stopped"}]
        /\ app' \in [Deployments -> BOOLEAN]
    BY <2>2
  <2>5. tailers' \in [Workers -> SUBSET (Deployments \ Compose)]
    BY <2>3
  <2> QED
    BY <2>1, <2>4, <2>5
<1>4. ASSUME NEW w \in Workers, NEW p \in Projects, NEW r \in Readers,
             Declare(w, p, r)
      PROVE  Registers'
  BY <1>4 DEF Declare, appVars, regVars, history
<1>5. ASSUME NEW i \in DOMAIN incidents,
             Resolve(i) \/ Reopen(i) \/ Acknowledge(i)
      PROVE  Registers'
  BY <1>5 DEF Resolve, Reopen, Acknowledge, OpensAgain, vars, appVars, regVars, history
<1>6. ASSUME NEW w \in Workers, Restart(w)
      PROVE  Registers'
  <2>1. /\ UNCHANGED <<row, app>> /\ faults < MaxFaults /\ faults' = faults + 1
        /\ tailers' = [tailers EXCEPT ![w] = {}]
        /\ tees' = [tees EXCEPT ![w] = [d \in Deployments |-> Nothing]]
        /\ fed' = [fed EXCEPT ![w] = [d \in Deployments |-> Append(fed[w][d], Reset)]]
    BY <1>6 DEF Restart, Fault, appVars
  <2>2. ASSUME NEW d \in Deployments PROVE Append(fed[w][d], Reset) \in Fed
    BY DEF Fed
  <2>3. fed' \in [Workers -> [Deployments -> Fed]]
    BY <2>1, <2>2
  <2>4. faults' \in 0..MaxFaults
    BY <2>1, IngestionAssumption DEF IngestionAssumption
  <2> QED
    BY <2>1, <2>3, <2>4
<1>7. ASSUME NEW r \in Readers, Take(r)
      PROVE  Registers'
  <2>1. /\ thread[r].dep \in Deployments /\ thread[r].by \in Workers
        /\ output[thread[r].dep][thread[r].pos + 1] \in Lines
    BY <1>7, LineIs DEF Take
  <2>2. fed' \in [Workers -> [Deployments -> Fed]]
    BY <1>7, <2>1, FedMoves DEF Take
  <2> QED
    BY <1>7, <2>2 DEF Take, appVars, regVars
<1>8. ASSUME NEW r \in Readers, Misses(r) \/ Drops(r)
      PROVE  Registers'
  <2>1. /\ UNCHANGED <<row, app, tailers, tees, fed>>
        /\ faults < MaxFaults /\ faults' = faults + 1
    BY <1>8 DEF Misses, Drops, Fault, appVars, regVars, history
  <2> QED
    BY <2>1, IngestionAssumption DEF IngestionAssumption
<1>9. ASSUME NEW r \in Readers, Start(r)
      PROVE  Registers'
  <2>1. /\ UNCHANGED <<row, app, tailers, fed, faults>>
        /\ thread[r].dep \in Deployments /\ thread[r].by \in Workers
    BY <1>9, ThreadIs DEF Start, InHand, Following, Resting, appVars, history
  <2>2. tees' \in [Workers -> [Deployments -> Readers \union {Nothing}]]
    BY <1>9, <2>1 DEF Start
  <2> QED
    BY <2>1, <2>2
<1>10. ASSUME NEW r \in Readers, Leaves(r)
      PROVE  Registers'
  <2>1. /\ UNCHANGED <<row, app, tees, fed, faults>> /\ thread[r].by \in Workers
        /\ tailers' = [tailers EXCEPT ![thread[r].by] = @ \ {thread[r].dep}]
    BY <1>10, ThreadIs DEF Leaves, InHand, Resting, appVars, history
  <2> QED
    BY <2>1
<1>11. ASSUME NEW r \in Readers,
             Idle(r) \/ GivesUp(r) \/ TeeEnds(r) \/ Store(r) \/ Look(r)
               \/ Bump(r) \/ Number(r) \/ Create(r)
      PROVE  Registers'
  BY <1>11 DEF Idle, GivesUp, TeeEnds, Store, Look, Bump, Number, Create,
       appVars, regVars, history
<1> QED
  BY <1>1, <1>2, <1>3, <1>4, <1>5, <1>6, <1>7, <1>8, <1>9, <1>10, <1>11
  DEF Next, ReaderStep

(* A capture that a line leaves is no longer than the safety valve allows. *)
LEMMA CapturedIsShort ==
  ASSUME IngestionAssumption, NEW buf \in Output, NEW l \in Lines,
         Len(buf) <= MaxCapture
  PROVE  Captured(buf, l).left \in Output /\ Len(Captured(buf, l).left) <= MaxCapture
<1>1. /\ MaxCapture \in Nat \ {0} /\ buf \in Seq(Lines) /\ Len(buf) \in Nat
  BY DEF IngestionAssumption, Output
<1>2. /\ <<l>> \in Seq(Lines) /\ Len(<<l>>) = 1 /\ Len(<<>>) = 0
      /\ Append(buf, l) \in Seq(Lines) /\ Len(Append(buf, l)) = Len(buf) + 1
  BY <1>1
<1> QED
  BY <1>1, <1>2 DEF Captured, Output

LEMMA BuffersStep ==
  ASSUME HeldTypes, ShortBuffers, IngestionAssumption, [Next]_vars
  PROVE  ShortBuffers'
<1>1. buffer \in [Workers -> [Deployments -> Output]] /\ MaxCapture \in Nat
  BY DEF HeldTypes, IngestionAssumption
<1>2. ASSUME NEW r \in Readers, Take(r)
      PROVE  ShortBuffers'
  <2>1. PICK w, d : w = thread[r].by /\ d = thread[r].dep
    OBVIOUS
  <2>2. /\ d \in Deployments /\ w \in Workers
        /\ output[d][thread[r].pos + 1] \in Lines
    BY <1>2, <2>1, LineIs DEF Take
  <2>3. PICK l \in Lines : l = output[d][thread[r].pos + 1]
    BY <2>2
  <2>4. buffer' = [buffer EXCEPT ![w][d] = Captured(buffer[w][d], l).left]
    BY <1>2, <2>1, <2>3 DEF Take
  <2>5. Len(Captured(buffer[w][d], l).left) <= MaxCapture
    BY <1>1, <2>2, CapturedIsShort DEF ShortBuffers
  <2>6. ASSUME NEW v \in Workers, NEW e \in Deployments
        PROVE  buffer'[v][e] = IF v = w /\ e = d THEN Captured(buffer[w][d], l).left
                               ELSE buffer[v][e]
    BY <1>1, <2>2, <2>4
  <2> QED
    BY <2>5, <2>6 DEF ShortBuffers
<1>3. ASSUME NEW w \in Workers, Restart(w)
      PROVE  ShortBuffers'
  <2>1. buffer' = [buffer EXCEPT ![w] = [d \in Deployments |-> <<>>]]
    BY <1>3 DEF Restart
  <2>2. ASSUME NEW v \in Workers, NEW e \in Deployments
        PROVE  buffer'[v][e] = IF v = w THEN <<>> ELSE buffer[v][e]
    BY <1>1, <2>1
  <2> QED
    BY <1>1, <2>2 DEF ShortBuffers
<1>4. CASE UNCHANGED buffer
  BY <1>4 DEF ShortBuffers
<1>5. \/ \E r \in Readers : Take(r)
      \/ \E w \in Workers : Restart(w)
      \/ UNCHANGED buffer
  BY DEF Next, ReaderStep, vars, ComposeUp, GoesLive, Exits, Prints, Spawn,
     ComposeGoesLive, Adopt, Declare, Resolve, Reopen, Acknowledge, OpensAgain, Misses, Start, Idle,
     GivesUp, Leaves, TeeEnds, Store, Drops, Look, Bump, Number, Create
<1> QED
  BY <1>2, <1>3, <1>4, <1>5

(* How the occurrence a thread counts and the number it holds may change.  *)
ThreadMoves(r) ==
  /\ thread'[r].hit \in DOMAIN incidents \union {0, thread[r].hit}
  /\ thread'[r].pc = "create" =>
       \/ thread[r].pc = "create" /\ thread'[r].num = thread[r].num
       \/ thread'[r].num = NextNumber(thread[r].project)

LEMMA ThreadsMove ==
  ASSUME HeldTypes, IngestionAssumption, [Next]_vars, NEW r \in Readers
  PROVE  ThreadMoves(r)
<1>0. thread \in [Readers -> Threads]
  BY DEF HeldTypes
<1> DEFINE Keeps(q) == \A o \in Readers \ {q} : thread'[o] = thread[o]
<1>1. CASE thread'[r] = thread[r]
  BY <1>1 DEF ThreadMoves
<1>2. ASSUME NEW q \in Readers, Take(q) \/ Misses(q) \/ Start(q) \/ Idle(q)
               \/ GivesUp(q) \/ Leaves(q) \/ TeeEnds(q) \/ Store(q)
      PROVE  ThreadMoves(r)
  <2>0. thread[q] \in Threads
    BY <1>0
  <2> DEFINE Rests == thread'[q].hit = thread[q].hit /\ thread'[q].pc # "create" /\ Keeps(q)
  <2>1. ASSUME Take(q) PROVE Rests
    <3>1. PICK done, s :
            /\ thread' = [thread EXCEPT ![q].pos = @ + 1, ![q].done = done, ![q].pc = s]
            /\ s \in {"store", "read", thread[q].pc}
      BY <1>0, <2>1 DEF Take
    <3>2. thread[q].pc # "create"
      BY <2>1 DEF Take
    <3> QED
      BY <1>0, <2>0, <3>1, <3>2 DEF Threads
  <2>2. ASSUME Misses(q) PROVE Rests
    <3>1. PICK s : /\ thread' = [thread EXCEPT ![q].pos = @ + 1, ![q].pc = s]
                   /\ s \in {"read", thread[q].pc}
      BY <1>0, <2>2 DEF Misses
    <3>2. thread[q].pc # "create"
      BY <2>2 DEF Misses
    <3> QED
      BY <1>0, <2>0, <3>1, <3>2 DEF Threads
  <2>3. ASSUME Start(q) PROVE Rests
    BY <1>0, <2>0, <2>3 DEF Start, Threads
  <2>4. ASSUME GivesUp(q) PROVE Rests
    BY <1>0, <2>0, <2>4 DEF GivesUp, Threads
  <2>5. ASSUME Idle(q) \/ Leaves(q) \/ TeeEnds(q) \/ Store(q) PROVE Rests
    <3>1. PICK s \in {"idle", "gone", "look"} : thread' = [thread EXCEPT ![q].pc = s]
      BY <2>5 DEF Idle, Leaves, TeeEnds, Store
    <3> QED
      BY <1>0, <2>0, <3>1 DEF Threads
  <2>6. Rests
    BY <1>2, <2>1, <2>2, <2>3, <2>4, <2>5
  <2> QED
    BY <1>1, <2>6 DEF ThreadMoves
<1>3. ASSUME NEW q \in Readers, Drops(q) \/ Bump(q) \/ Create(q)
      PROVE  ThreadMoves(r)
  <2>1. thread' = [thread EXCEPT ![q] = Onwards(thread[q])]
    BY <1>3 DEF Drops, Bump, Create
  <2>2. Onwards(thread[q]).hit = 0 /\ Onwards(thread[q]).pc # "create"
    BY <1>0 DEF Onwards, Threads
  <2> QED
    BY <1>0, <1>1, <2>1, <2>2 DEF ThreadMoves
<1>4. ASSUME NEW q \in Readers, Look(q)
      PROVE  ThreadMoves(r)
  <2>1. CASE Unresolved(Signature(thread[q].done)) = {}
    <3>1. thread' = [thread EXCEPT ![q] = [thread[q] EXCEPT !.pc = "number"]]
      BY <1>4, <2>1 DEF Look
    <3>2. /\ thread'[q].hit = thread[q].hit /\ thread'[q].pc = "number"
          /\ Keeps(q)
      BY <1>0, <3>1 DEF Threads
    <3> QED
      BY <1>1, <3>2 DEF ThreadMoves
  <2>2. CASE Unresolved(Signature(thread[q].done)) # {}
    <3>1. PICK h : h = Min(Unresolved(Signature(thread[q].done)))
      OBVIOUS
    <3>2. h \in DOMAIN incidents
      <4>1. /\ Unresolved(Signature(thread[q].done)) \subseteq DOMAIN incidents
            /\ DOMAIN incidents \subseteq Nat
        BY DEF Unresolved, HeldTypes
      <4> QED
        BY <2>2, <3>1, <4>1, MinIs
    <3>3. thread' = [thread EXCEPT ![q] = [thread[q] EXCEPT !.pc = "bump", !.hit = h]]
      BY <1>4, <2>2, <3>1 DEF Look
    <3>4. thread'[q].hit = h /\ thread'[q].pc = "bump" /\ Keeps(q)
      BY <1>0, <3>3 DEF Threads
    <3> QED
      BY <1>1, <3>2, <3>4 DEF ThreadMoves
  <2> QED
    BY <2>1, <2>2
<1>5. ASSUME NEW q \in Readers, Number(q)
      PROVE  ThreadMoves(r)
  <2>1. PICK n : n = NextNumber(thread[q].project)
    OBVIOUS
  <2>2. thread' = [thread EXCEPT ![q].pc = "create", ![q].num = n]
    BY <1>5, <2>1 DEF Number
  <2>3. /\ thread'[q].hit = thread[q].hit /\ thread'[q].num = n /\ Keeps(q)
    BY <1>0, <2>2 DEF Threads
  <2> QED
    BY <1>1, <2>1, <2>3 DEF ThreadMoves
<1>6. ASSUME NEW w \in Workers, NEW p \in Projects, NEW q \in Readers, Declare(w, p, q)
      PROVE  ThreadMoves(r)
  <2>1. /\ thread'[q] = [Free EXCEPT !.pc = "number", !.by = w, !.project = p]
        /\ Keeps(q)
    BY <1>0, <1>6 DEF Declare
  <2>2. thread'[q].hit = 0 /\ thread'[q].pc = "number"
    BY <2>1 DEF Free
  <2> QED
    BY <1>1, <2>1, <2>2 DEF ThreadMoves
<1>7. ASSUME NEW w \in Workers, NEW d \in Deployments, NEW q \in Readers,
             Spawn(w, d, q) \/ ComposeGoesLive(w, d, q) \/ Adopt(w, d, q)
      PROVE  ThreadMoves(r)
  <2>1. /\ \E s \in {"start", "read"} : thread'[q] =
             [Free EXCEPT !.pc = s, !.by = w, !.dep = d, !.project = ProjectOf[d]]
        /\ Keeps(q)
    BY <1>0, <1>7 DEF Spawn, ComposeGoesLive, Adopt, Waiting
  <2>2. thread'[q].hit = 0 /\ thread'[q].pc # "create"
    BY <2>1 DEF Free
  <2> QED
    BY <1>1, <2>1, <2>2 DEF ThreadMoves
<1>8. ASSUME NEW w \in Workers, Restart(w)
      PROVE  ThreadMoves(r)
  <2>1. thread'[r] \in {thread[r], [thread[r] EXCEPT !.pc = "gone"]}
    BY <1>8 DEF Restart
  <2>2. thread[r] \in Threads
    BY <1>0
  <2>3. CASE thread'[r] = [thread[r] EXCEPT !.pc = "gone"]
    BY <2>2, <2>3 DEF ThreadMoves, Threads
  <2> QED
    BY <1>1, <2>1, <2>3
<1>9. CASE UNCHANGED thread
  BY <1>1, <1>9
<1>10. \/ UNCHANGED thread
       \/ \E q \in Readers : ReaderStep(q)
       \/ \E w \in Workers, p \in Projects, q \in Readers : Declare(w, p, q)
       \/ \E w \in Workers, d \in Deployments, q \in Readers :
            Spawn(w, d, q) \/ ComposeGoesLive(w, d, q) \/ Adopt(w, d, q)
       \/ \E w \in Workers : Restart(w)
  BY DEF Next, vars, ComposeUp, GoesLive, Exits, Prints, Resolve, Reopen,
     Acknowledge, OpensAgain, appVars
<1> QED
  BY <1>2, <1>3, <1>4, <1>5, <1>6, <1>7, <1>8, <1>9, <1>10 DEF ReaderStep

(* Rows are only added, and a new one has the number its thread held and   *)
(* one occurrence.                                                         *)
RowsMove ==
  /\ DOMAIN incidents \subseteq DOMAIN incidents'
  /\ \A i \in DOMAIN incidents :
       /\ incidents'[i].number = incidents[i].number
       /\ incidents[i].occurrences # 0 => incidents'[i].occurrences # 0
  /\ \A i \in DOMAIN incidents' \ DOMAIN incidents : \E r \in Readers :
       /\ thread[r].pc = "create"
       /\ incidents'[i].number = thread[r].num
       /\ incidents'[i].occurrences = 1

LEMMA RowsMoveSo ==
  ASSUME HeldTypes, IngestionAssumption, [Next]_vars
  PROVE  RowsMove
<1>0. incidents \in Seq(IncidentRows)
  BY DEF HeldTypes
<1>1. CASE UNCHANGED incidents
  BY <1>1 DEF RowsMove
<1>2. ASSUME NEW r \in Readers, Create(r)
      PROVE  RowsMove
  <2>1. PICK inc, s : inc = Incident(thread[r].project, thread[r].num, s)
                      /\ incidents' = Append(incidents, inc)
    BY <1>2 DEF Create
  <2>2. inc.number = thread[r].num /\ inc.occurrences = 1
    BY <2>1 DEF Incident
  <2>3. thread[r].pc = "create"
    BY <1>2 DEF Create
  <2>4. /\ DOMAIN incidents' = DOMAIN incidents \union {Len(incidents) + 1}
        /\ incidents'[Len(incidents) + 1] = inc
        /\ \A i \in DOMAIN incidents : incidents'[i] = incidents[i]
    BY <1>0, <2>1
  <2> QED
    BY <2>2, <2>3, <2>4 DEF RowsMove
<1>3. ASSUME NEW r \in Readers, Bump(r)
      PROVE  RowsMove
  <2>1. PICK h : h = thread[r].hit
    OBVIOUS
  <2>2. /\ h \in DOMAIN incidents
        /\ incidents' = [incidents EXCEPT ![h].occurrences = @ + 1]
    BY <1>3, <2>1, ThreadIs DEF Bump, InHand
  <2>3. incidents[h] \in IncidentRows /\ incidents[h].occurrences + 1 # 0
    <3>1. incidents[h] \in IncidentRows
      BY <1>0, <2>2
    <3>2. incidents[h].occurrences \in Nat
      BY <3>1 DEF IncidentRows
    <3> QED
      BY <3>1, <3>2
  <2>4. /\ DOMAIN incidents' = DOMAIN incidents
        /\ \A i \in DOMAIN incidents \ {h} : incidents'[i] = incidents[i]
        /\ incidents'[h] = [incidents[h] EXCEPT !.occurrences = incidents[h].occurrences + 1]
    BY <1>0, <2>2
  <2>5. /\ incidents'[h].number = incidents[h].number
        /\ incidents'[h].occurrences = incidents[h].occurrences + 1
    BY <2>3, <2>4 DEF IncidentRows
  <2> QED
    BY <2>3, <2>4, <2>5 DEF RowsMove
<1>4. ASSUME NEW i \in DOMAIN incidents, NEW s, incidents' = [incidents EXCEPT ![i].status = s]
      PROVE  RowsMove
  <2>1. incidents[i] \in IncidentRows
    BY <1>0
  <2>2. /\ DOMAIN incidents' = DOMAIN incidents
        /\ \A j \in DOMAIN incidents \ {i} : incidents'[j] = incidents[j]
        /\ incidents'[i] = [incidents[i] EXCEPT !.status = s]
    BY <1>0, <1>4
  <2>3. /\ incidents'[i].number = incidents[i].number
        /\ incidents'[i].occurrences = incidents[i].occurrences
    BY <2>1, <2>2 DEF IncidentRows
  <2> QED
    BY <2>2, <2>3 DEF RowsMove
<1>5. \/ UNCHANGED incidents
      \/ \E r \in Readers : Create(r) \/ Bump(r)
      \/ \E i \in DOMAIN incidents : Resolve(i) \/ Reopen(i) \/ Acknowledge(i)
  BY DEF Next, ReaderStep, vars, ComposeUp, GoesLive, Exits, Prints, Spawn,
     ComposeGoesLive, Adopt, Declare, Restart, Take, Misses, Start, Idle,
     GivesUp, Leaves, TeeEnds, Store, Drops, Look, Number
<1> QED
  BY <1>1, <1>2, <1>3, <1>4, <1>5
     DEF Resolve, Reopen, Acknowledge, OpensAgain, vars

(* A number that was taken is not 0, as the first one is 1.                *)
NumbersBegin == \A r \in Readers : thread[r].pc = "create" => thread[r].num # 0

LEMMA RowsStep ==
  ASSUME HeldTypes, HitsAreRows, RowsCount, NumbersBegin, IngestionAssumption,
         [Next]_vars
  PROVE  HitsAreRows' /\ RowsCount' /\ NumbersBegin'
<1>1. RowsMove
  BY RowsMoveSo
<1>2. ASSUME NEW r \in Readers PROVE ThreadMoves(r)
  BY ThreadsMove
<1>3. \A p : NextNumber(p) # 0
  BY NextNumberIs
<1>4. HitsAreRows'
  BY <1>1, <1>2 DEF HitsAreRows, RowsMove, ThreadMoves
<1>5. RowsCount'
  BY <1>1 DEF RowsCount, RowsMove, NumbersBegin
<1>6. NumbersBegin'
  BY <1>2, <1>3 DEF NumbersBegin, ThreadMoves
<1> QED
  BY <1>4, <1>5, <1>6

RestTypes == Registers /\ ShortBuffers /\ HitsAreRows /\ RowsCount /\ NumbersBegin

LEMMA RestInit == IngestionAssumption /\ Init => RestTypes
<1> SUFFICES ASSUME IngestionAssumption, Init PROVE RestTypes
  OBVIOUS
<1>1. Registers
  BY DEF Init, Registers, Fed, IngestionAssumption
<1>2. ShortBuffers
  BY DEF Init, ShortBuffers, IngestionAssumption
<1>3. HitsAreRows /\ RowsCount /\ NumbersBegin
  BY DEF Init, HitsAreRows, RowsCount, NumbersBegin, Free
<1> QED
  BY <1>1, <1>2, <1>3 DEF RestTypes

(* The type of the state: in every reachable state a buffer is within the  *)
(* safety valve, and an occurrence is counted for a row that exists.       *)
THEOREM TypeCorrect == Spec => []TypeOK
<1>1. HeldTypes /\ RestTypes /\ [Next]_vars => RestTypes'
  BY RegistersStep, BuffersStep, RowsStep, IngestionAssumption DEF RestTypes
<1>2. HeldTypes /\ RestTypes => TypeOK
  <2> SUFFICES ASSUME HeldTypes, RestTypes PROVE TypeOK
    OBVIOUS
  <2>1. ASSUME NEW r \in Readers
        PROVE  /\ thread[r].pc \in Stages
               /\ thread[r].by \in Workers \union {Nothing}
               /\ thread[r].dep \in Deployments \union {Nothing}
               /\ thread[r].pos \in Nat /\ thread[r].end \in Nat
               /\ thread[r].done \in Output /\ thread[r].num \in Nat
    BY ThreadIs DEF Threads
  <2>2. ASSUME NEW i \in DOMAIN incidents
        PROVE  /\ incidents[i].project \in Projects
               /\ incidents[i].number \in Nat \ {0}
               /\ incidents[i].status \in {"open", "resolved"}
               /\ incidents[i].occurrences \in Nat \ {0}
    BY RowIs DEF IncidentRows, RestTypes, RowsCount
  <2>3. /\ output \in [Deployments -> Output]
        /\ buffer \in [Workers -> [Deployments -> Output]]
    BY DEF HeldTypes
  <2> QED
    BY <2>1, <2>2, <2>3
    DEF TypeOK, RestTypes, Registers, ShortBuffers, HitsAreRows
<1> QED
  BY <1>1, <1>2, HandsCorrect, RestInit, IngestionAssumption, PTL DEF Spec
----------------------------------------------------------------------------
(***************************************************************************)
(* Numbers                                                                 *)
(***************************************************************************)

(* Two threads that hold numbers of a project took them together, and the  *)
(* number a thread holds is of no incident but of one taken together.      *)
HeldApart ==
  \A r, q \in Readers :
    /\ r # q /\ thread[r].pc = "create" /\ thread[q].pc = "create"
    /\ thread[r].project = thread[q].project
    => thread[r].project \in collided

HeldIsNew ==
  \A r \in Readers : thread[r].pc = "create" =>
    \A i \in DOMAIN incidents :
      /\ incidents[i].project = thread[r].project
      /\ incidents[i].number = thread[r].num
      => thread[r].project \in collided

NumberInv == HeldApart /\ HeldIsNew /\ NumbersAreUnique

LEMMA CalmNumbers ==
  ASSUME NumberInv, Calm
  PROVE  NumberInv'
<1>1. \A r \in Readers : thread'[r].pc = "create" => thread'[r] = thread[r]
  BY DEF Calm, Creating
<1>2. /\ DOMAIN incidents' = DOMAIN incidents /\ UNCHANGED collided
      /\ \A i \in DOMAIN incidents :
           /\ incidents'[i].project = incidents[i].project
           /\ incidents'[i].number = incidents[i].number
  BY DEF Calm
<1>3. HeldApart'
  BY <1>1, <1>2 DEF NumberInv, HeldApart
<1>4. HeldIsNew'
  BY <1>1, <1>2 DEF NumberInv, HeldIsNew
<1>5. NumbersAreUnique'
  BY <1>2 DEF NumberInv, NumbersAreUnique
<1> QED
  BY <1>3, <1>4, <1>5 DEF NumberInv

(* A thread goes to "number", or incidents keep project and number.        *)
LEMMA LooksNumbers ==
  ASSUME NumberInv, NEW r \in Readers,
         \A q \in Readers \ {r} : thread'[q] = thread[q],
         thread'[r].pc = "number", UNCHANGED <<incidents, collided>>
  PROVE  NumberInv'
<1>1. \A q \in Readers : thread'[q].pc = "create" => thread'[q] = thread[q]
  OBVIOUS
<1>2. HeldApart'
  BY <1>1 DEF NumberInv, HeldApart
<1>3. HeldIsNew'
  BY <1>1 DEF NumberInv, HeldIsNew
<1> QED
  BY <1>2, <1>3 DEF NumberInv, NumbersAreUnique

LEMMA NumberNumberInv ==
  ASSUME HeldTypes, NumberInv, NEW r \in Readers, Number(r)
  PROVE  NumberInv'
<1>0. PICK p, n : p = thread[r].project /\ n = NextNumber(p)
  OBVIOUS
<1>1. /\ \A q \in Readers \ {r} : thread'[q] = thread[q]
      /\ thread'[r].pc = "create" /\ thread'[r].num = n /\ thread'[r].project = p
      /\ UNCHANGED incidents
  BY <1>0, NumberNumbers
<1>2. collided' = IF \E q \in Readers \ {r} :
                       thread[q].pc = "create" /\ thread[q].project = p
                  THEN collided \union {p} ELSE collided
  BY <1>0 DEF Number
<1>3. \A i \in DOMAIN incidents : incidents[i].project = p => incidents[i].number # n
  <2>1. \A i \in DOMAIN incidents : incidents[i].number \in Nat
    BY RowIs DEF IncidentRows
  <2>2. n \in Nat /\ \A i \in DOMAIN incidents :
                       incidents[i].project = p => incidents[i].number < n
    BY <1>0, NextNumberIs
  <2> QED
    BY <2>1, <2>2
<1>4. HeldApart'
  BY <1>1, <1>2 DEF NumberInv, HeldApart
<1>5. HeldIsNew'
  BY <1>1, <1>2, <1>3 DEF NumberInv, HeldIsNew
<1>6. NumbersAreUnique'
  BY <1>1, <1>2 DEF NumberInv, NumbersAreUnique
<1> QED
  BY <1>4, <1>5, <1>6 DEF NumberInv

LEMMA CreateNumbers ==
  ASSUME HeldTypes, NumberInv, NEW r \in Readers, Create(r)
  PROVE  NumberInv'
<1>0. PICK n : n = Len(incidents) + 1
  OBVIOUS
<1>1. /\ \A q \in Readers \ {r} : thread'[q] = thread[q]
      /\ thread[r].pc = "create" /\ thread'[r].pc \notin Creating
      /\ DOMAIN incidents' = DOMAIN incidents \union {n} /\ n \notin DOMAIN incidents
      /\ \A i \in DOMAIN incidents : incidents'[i] = incidents[i]
      /\ incidents'[n].project = thread[r].project
      /\ incidents'[n].number = thread[r].num
      /\ UNCHANGED collided
  BY <1>0, CreateCreates
<1>2. \A q \in Readers : thread'[q].pc = "create" =>
        q # r /\ thread'[q] = thread[q]
  BY <1>1 DEF Creating
<1>3. HeldApart'
  BY <1>1, <1>2 DEF NumberInv, HeldApart
<1>4. HeldIsNew'
  BY <1>1, <1>2 DEF NumberInv, HeldIsNew, HeldApart
<1>5. NumbersAreUnique'
  BY <1>1 DEF NumberInv, NumbersAreUnique, HeldIsNew
<1> QED
  BY <1>3, <1>4, <1>5 DEF NumberInv

LEMMA OpensAgainNumbers ==
  ASSUME HeldTypes, NumberInv, NEW i \in DOMAIN incidents, OpensAgain(i)
  PROVE  NumberInv'
<1>1. /\ DOMAIN incidents' = DOMAIN incidents
      /\ \A j \in DOMAIN incidents :
           /\ incidents'[j].project = incidents[j].project
           /\ incidents'[j].number = incidents[j].number
      /\ UNCHANGED <<thread, collided>>
  BY OpensAgainOpens
<1> QED
  BY <1>1 DEF NumberInv, HeldApart, HeldIsNew, NumbersAreUnique

(* The number of an incident names no other one of its project, unless two *)
(* threads took a number before either had created its row                 *)
(* (next_incident_number, services.py:126-134).                            *)
THEOREM NumbersNameIncidents == Spec => []NumbersAreUnique
<1>1. Init => NumberInv
  BY FreeIs DEF Init, NumberInv, HeldApart, HeldIsNew, NumbersAreUnique
<1>2. HeldTypes /\ NumberInv /\ [Next]_vars => NumberInv'
  <2> SUFFICES ASSUME HeldTypes, NumberInv, [Next]_vars PROVE NumberInv'
    OBVIOUS
  <2>1. CASE UNCHANGED vars
    BY <2>1 DEF vars, NumberInv, HeldApart, HeldIsNew, NumbersAreUnique
  <2>2. CASE Next
    <3>1. ASSUME NEW r \in Readers, Look(r),
                 Unresolved(Signature(thread[r].done)) = {}
          PROVE  NumberInv'
      BY <3>1, LookMisses, LooksNumbers
    <3>2. ASSUME NEW r \in Readers, NEW w \in Workers, NEW p \in Projects,
                 Declare(w, p, r)
          PROVE  NumberInv'
      BY <3>2, DeclareDeclares, LooksNumbers
    <3> QED
      BY <2>2, <3>1, <3>2, IngestionAssumption, StepsAre, CalmNumbers,
         NumberNumberInv, CreateNumbers, OpensAgainNumbers
  <2> QED
    BY <2>1, <2>2
<1>3. NumberInv => NumbersAreUnique
  BY DEF NumberInv
<1> QED
  BY <1>1, <1>2, <1>3, HandsCorrect, PTL DEF Spec

----------------------------------------------------------------------------
(***************************************************************************)
(* Open incidents                                                          *)
(***************************************************************************)

(* r found no open incident of a traceback and is about to create one.     *)
Missed(r) == thread[r].pc \in Creating /\ thread[r].done # <<>>

MissedOnce ==
  \A r, q \in Readers :
    /\ r # q /\ Missed(r) /\ Missed(q)
    /\ Signature(thread[r].done) = Signature(thread[q].done)
    => Signature(thread[r].done) \in crossed

MissedIsNew ==
  \A r \in Readers : Missed(r) =>
    \A i \in DOMAIN incidents :
      /\ incidents[i].signature = Signature(thread[r].done)
      /\ incidents[i].status # "resolved"
      => Signature(thread[r].done) \in crossed \union reopened

(* A thread that declares an incident does so once.                        *)
DeclaresOnce ==
  \A r \in Readers :
    /\ thread[r].pc \in Creating /\ thread[r].done = <<>> => thread[r].dep = Nothing
    /\ \A i \in DOMAIN incidents :
         (\E p \in Projects : incidents[i].signature = <<"ManualIncident", p, r>>)
         => thread[r].pc = "gone"

OpenInv == MissedOnce /\ MissedIsNew /\ DeclaresOnce /\ OneOpenPerSignature

(* No traceback has the signature of a declared incident.                  *)
LEMMA DeclaredIsApart ==
  ASSUME NEW l, NEW p, NEW r
  PROVE  Signature(l) # <<"ManualIncident", p, r>>
BY DEF Signature

LEMMA CalmOpens ==
  ASSUME OpenInv, Calm
  PROVE  OpenInv'
<1>1. \A r \in Readers : /\ thread'[r].pc \in Creating => thread'[r] = thread[r]
                         /\ thread[r].pc = "gone" => thread'[r].pc = "gone"
  BY DEF Calm
<1>2. /\ DOMAIN incidents' = DOMAIN incidents /\ UNCHANGED <<crossed, reopened>>
      /\ \A i \in DOMAIN incidents :
           /\ incidents'[i].signature = incidents[i].signature
           /\ incidents'[i].status # "resolved" => incidents[i].status # "resolved"
  BY DEF Calm
<1>3. MissedOnce'
  BY <1>1, <1>2 DEF OpenInv, MissedOnce, Missed
<1>4. MissedIsNew'
  BY <1>1, <1>2 DEF OpenInv, MissedIsNew, Missed
<1>5. DeclaresOnce'
  BY <1>1, <1>2 DEF OpenInv, DeclaresOnce
<1>6. OneOpenPerSignature'
  BY <1>2 DEF OpenInv, OneOpenPerSignature
<1> QED
  BY <1>3, <1>4, <1>5, <1>6 DEF OpenInv
LEMMA LookOpens ==
  ASSUME HeldTypes, OpenInv, NEW r \in Readers, Look(r),
         Unresolved(Signature(thread[r].done)) = {}
  PROVE  OpenInv'
<1>0. PICK d, s : d = thread[r].done /\ s = Signature(d)
  OBVIOUS
<1>1. /\ \A q \in Readers \ {r} : thread'[q] = thread[q]
      /\ thread[r].pc = "look" /\ thread'[r].pc = "number" /\ thread'[r].done = d
      /\ thread'[r].dep = thread[r].dep /\ UNCHANGED <<incidents, reopened>>
  BY <1>0, LookMisses
<1>2. crossed' = IF \E q \in Readers \ {r} :
                      /\ thread[q].pc \in Creating /\ thread[q].done # <<>>
                      /\ Signature(thread[q].done) = s
                 THEN crossed \union {s} ELSE crossed
  BY <1>0 DEF Look, Creating
<1>3. \A i \in DOMAIN incidents :
        ~ (incidents[i].signature = s /\ incidents[i].status # "resolved")
  BY <1>0 DEF Unresolved
<1>4. MissedOnce'
  <2> SUFFICES ASSUME NEW a \in Readers, NEW b \in Readers, a # b, Missed(a)',
                      Missed(b)', NEW x, x = Signature(thread'[a].done),
                      x = Signature(thread'[b].done)
               PROVE  x \in crossed'
    BY DEF MissedOnce
  <2>1. CASE a = r \/ b = r
    BY <1>0, <1>1, <1>2, <2>1 DEF Missed
  <2>2. CASE a # r /\ b # r
    BY <1>1, <1>2, <2>2 DEF OpenInv, MissedOnce, Missed
  <2> QED
    BY <2>1, <2>2
<1>5. MissedIsNew'
  <2> SUFFICES ASSUME NEW q \in Readers, Missed(q)', NEW i \in DOMAIN incidents,
                      incidents[i].signature = Signature(thread'[q].done),
                      incidents[i].status # "resolved"
               PROVE  incidents[i].signature \in crossed' \union reopened
    BY <1>1 DEF MissedIsNew
  <2>1. CASE q = r
    BY <1>0, <1>1, <1>3, <2>1
  <2>2. CASE q # r
    BY <1>1, <1>2, <2>2 DEF OpenInv, MissedIsNew, Missed
  <2> QED
    BY <2>1, <2>2
<1>6. DeclaresOnce'
  <2>1. d # <<>>
    BY <1>0, <1>1, ThreadIs DEF InHand
  <2> QED
    BY <1>0, <1>1, <2>1 DEF OpenInv, DeclaresOnce, Creating
<1>7. OneOpenPerSignature'
  BY <1>1, <1>2 DEF OpenInv, OneOpenPerSignature
<1> QED
  BY <1>4, <1>5, <1>6, <1>7 DEF OpenInv
(* A thread takes a number, or starts to declare an incident.              *)
LEMMA NumberOpens ==
  ASSUME HeldTypes, OpenInv, NEW r \in Readers, Number(r)
  PROVE  OpenInv'
<1>1. /\ \A q \in Readers \ {r} : thread'[q] = thread[q]
      /\ thread[r].pc = "number" /\ thread'[r].pc = "create"
      /\ thread'[r].done = thread[r].done /\ thread'[r].dep = thread[r].dep
      /\ UNCHANGED <<incidents, crossed, reopened>>
  BY NumberNumbers
<1>2. \A q \in Readers : /\ thread'[q].done = thread[q].done
                         /\ thread'[q].dep = thread[q].dep
                         /\ thread'[q].pc \in Creating <=> thread[q].pc \in Creating
                         /\ thread[q].pc = "gone" => thread'[q].pc = "gone"
  BY <1>1 DEF Creating
<1>3. MissedOnce'
  BY <1>1, <1>2 DEF OpenInv, MissedOnce, Missed
<1>4. MissedIsNew'
  BY <1>1, <1>2 DEF OpenInv, MissedIsNew, Missed
<1>5. DeclaresOnce'
  BY <1>1, <1>2 DEF OpenInv, DeclaresOnce
<1> QED
  BY <1>1, <1>3, <1>4, <1>5 DEF OpenInv, OneOpenPerSignature

LEMMA DeclareOpens ==
  ASSUME HeldTypes, OpenInv, NEW w \in Workers, NEW p \in Projects,
         NEW r \in Readers, Declare(w, p, r)
  PROVE  OpenInv'
<1>1. /\ \A q \in Readers \ {r} : thread'[q] = thread[q]
      /\ thread[r].pc = "free" /\ thread'[r].pc = "number"
      /\ thread'[r].done = <<>> /\ thread'[r].dep = Nothing
      /\ UNCHANGED <<incidents, crossed, reopened>>
  BY DeclareDeclares
<1>2. \A q \in Readers : Missed(q)' => q # r /\ thread'[q] = thread[q] /\ Missed(q)
  BY <1>1 DEF Missed
<1>3. MissedOnce'
  BY <1>1, <1>2 DEF OpenInv, MissedOnce
<1>4. MissedIsNew'
  BY <1>1, <1>2 DEF OpenInv, MissedIsNew
<1>5. DeclaresOnce'
  BY <1>1 DEF OpenInv, DeclaresOnce
<1> QED
  BY <1>1, <1>3, <1>4, <1>5 DEF OpenInv, OneOpenPerSignature

LEMMA CreateOpens ==
  ASSUME HeldTypes, OpenInv, NEW r \in Readers, Create(r)
  PROVE  OpenInv'
<1>0. PICK n, d, s : /\ n = Len(incidents) + 1 /\ d = thread[r].done
                     /\ s = IF d = <<>> THEN Declared(r) ELSE Signature(d)
  OBVIOUS
<1>1. /\ \A q \in Readers \ {r} : thread'[q] = thread[q]
      /\ thread[r].pc = "create" /\ thread'[r].pc \notin Creating
      /\ thread[r].dep = Nothing => thread'[r].pc = "gone"
      /\ DOMAIN incidents' = DOMAIN incidents \union {n} /\ n \notin DOMAIN incidents
      /\ \A i \in DOMAIN incidents : incidents'[i] = incidents[i]
      /\ incidents'[n].signature = s
      /\ UNCHANGED <<crossed, reopened>>
  BY <1>0, CreateCreates
<1>2. \A q \in Readers : thread'[q].pc \in Creating => q # r /\ thread'[q] = thread[q]
  BY <1>1
<1>3. thread[r].project \in Projects
  BY <1>1, ThreadIs DEF InHand, Resting
<1>4. CASE d = <<>>
  <2>1. s = <<"ManualIncident", thread[r].project, r>>
    BY <1>0, <1>4 DEF Declared
  <2>2. \A i \in DOMAIN incidents : incidents[i].signature # s
    BY <1>1, <1>3, <2>1 DEF OpenInv, DeclaresOnce
  <2>3. thread'[r].pc = "gone"
    BY <1>0, <1>1, <1>4 DEF OpenInv, DeclaresOnce, Creating
  <2>4. \A q \in Readers : Signature(thread[q].done) # s
    BY <2>1, DeclaredIsApart
  <2>5. \A q \in Readers \ {r}, p \in Projects : s # <<"ManualIncident", p, q>>
    BY <2>1
  <2>6. MissedOnce'
    BY <1>1, <1>2 DEF OpenInv, MissedOnce, Missed
  <2>7. MissedIsNew'
    BY <1>1, <1>2, <2>4 DEF OpenInv, MissedIsNew, Missed
  <2>8. DeclaresOnce'
    BY <1>1, <1>2, <2>3, <2>5 DEF OpenInv, DeclaresOnce
  <2>9. OneOpenPerSignature'
    BY <1>1, <2>2 DEF OpenInv, OneOpenPerSignature
  <2> QED
    BY <2>6, <2>7, <2>8, <2>9 DEF OpenInv
<1>5. CASE d # <<>>
  <2>1. s = Signature(thread[r].done) /\ Missed(r)
    BY <1>0, <1>1, <1>5 DEF Missed, Creating
  <2>2. \A i \in DOMAIN incidents :
          incidents[i].signature = s /\ incidents[i].status # "resolved"
          => s \in crossed \union reopened
    BY <2>1 DEF OpenInv, MissedIsNew
  <2>3. \A q \in Readers \ {r} :
          Missed(q) /\ Signature(thread[q].done) = s => s \in crossed
    BY <2>1 DEF OpenInv, MissedOnce
  <2>4. \A p, q : s # <<"ManualIncident", p, q>>
    BY <2>1, DeclaredIsApart
  <2>5. MissedOnce'
    BY <1>1, <1>2 DEF OpenInv, MissedOnce, Missed
  <2>6. MissedIsNew'
    BY <1>1, <1>2, <2>3 DEF OpenInv, MissedIsNew, Missed
  <2>7. DeclaresOnce'
    <3>1. ASSUME NEW q \in Readers PROVE thread[q].pc = "gone" => thread'[q].pc = "gone"
      BY <1>1
    <3>2. ASSUME NEW q \in Readers, thread'[q].pc \in Creating, thread'[q].done = <<>>
          PROVE  thread'[q].dep = Nothing
      BY <1>2, <3>2 DEF OpenInv, DeclaresOnce
    <3>3. ASSUME NEW q \in Readers, NEW i \in DOMAIN incidents', NEW p \in Projects,
                 incidents'[i].signature = <<"ManualIncident", p, q>>
          PROVE  thread'[q].pc = "gone"
      <4>1. i # n
        BY <1>1, <2>4, <3>3
      <4>2. i \in DOMAIN incidents /\ incidents[i].signature = <<"ManualIncident", p, q>>
        BY <1>1, <3>3, <4>1
      <4>3. thread[q].pc = "gone"
        BY <4>2 DEF OpenInv, DeclaresOnce
      <4> QED
        BY <3>1, <4>3
    <3> QED
      BY <3>2, <3>3 DEF DeclaresOnce
  <2>8. OneOpenPerSignature'
    BY <1>1, <2>2 DEF OpenInv, OneOpenPerSignature
  <2> QED
    BY <2>5, <2>6, <2>7, <2>8 DEF OpenInv
<1> QED
  BY <1>4, <1>5

LEMMA OpensAgainReopens ==
  ASSUME HeldTypes, OpenInv, NEW i \in DOMAIN incidents, OpensAgain(i)
  PROVE  OpenInv'
<1>1. /\ DOMAIN incidents' = DOMAIN incidents
      /\ \A j \in DOMAIN incidents :
           /\ incidents'[j].signature = incidents[j].signature
           /\ j = i \/ incidents'[j].status = incidents[j].status
      /\ reopened' = reopened \union {incidents[i].signature}
      /\ UNCHANGED <<thread, crossed>>
  BY OpensAgainOpens
<1>2. MissedOnce' /\ DeclaresOnce'
  BY <1>1 DEF OpenInv, MissedOnce, DeclaresOnce, Missed
<1>3. MissedIsNew'
  BY <1>1 DEF OpenInv, MissedIsNew, Missed
<1>4. OneOpenPerSignature'
  BY <1>1 DEF OpenInv, OneOpenPerSignature
<1> QED
  BY <1>2, <1>3, <1>4 DEF OpenInv

(* There is one open incident for an error, unless two threads looked for  *)
(* it before either had created it, or one that was resolved left that     *)
(* status again, reopened by a human or acknowledged by a human or by the  *)
(* loop (open_or_update_incident, services.py:349-369; reopen and ack,     *)
(* oncall/views.py:262, 121-123; orchestration/service.py:585-591).        *)
THEOREM OneIsOpen == Spec => []OneOpenPerSignature
<1>1. Init => OpenInv
  BY FreeIs DEF Init, OpenInv, MissedOnce, MissedIsNew, DeclaresOnce, Missed,
     OneOpenPerSignature, Creating
<1>2. HeldTypes /\ OpenInv /\ [Next]_vars => OpenInv'
  <2> SUFFICES ASSUME HeldTypes, OpenInv, [Next]_vars PROVE OpenInv'
    OBVIOUS
  <2>1. CASE UNCHANGED vars
    BY <2>1 DEF vars, OpenInv, MissedOnce, MissedIsNew, DeclaresOnce, Missed,
       OneOpenPerSignature
  <2>2. CASE Next
    BY <2>2, IngestionAssumption, StepsAre, CalmOpens, LookOpens, NumberOpens,
       DeclareOpens, CreateOpens, OpensAgainReopens
  <2> QED
    BY <2>1, <2>2
<1>3. OpenInv => OneOpenPerSignature
  BY DEF OpenInv
<1> QED
  BY <1>1, <1>2, <1>3, HandsCorrect, PTL DEF Spec

----------------------------------------------------------------------------
(***************************************************************************)
(* Every traceback counts.  First what a line does to the tracebacks of    *)
(* the lines that were fed: the buffer is the capture that is open at      *)
(* their end, and a line adds the traceback it finishes or none.           *)
(***************************************************************************)

(* A capture that began at i is still open at the end of f.                *)
Opens(f, i) ==
  /\ f[i].kind = "start"
  /\ \A k \in i+1..Len(f) : f[k].kind \notin {"start", "reset"} /\ ~EndsAt(f, i, k)

Captures(f, b) ==
  \/ b = <<>> /\ \A i \in 1..Len(f) : ~Opens(f, i)
  \/ \E i \in 1..Len(f) : Opens(f, i) /\ b = SubSeq(f, i, Len(f))

FedLines == Lines \union {Reset}

LEMMA KindsAre ==
  ASSUME IngestionAssumption, NEW l \in Lines
  PROVE  l.kind \in LineKinds /\ l.kind # "reset" /\ Reset.kind = "reset"
BY DEF IngestionAssumption, LineKinds, Reset

LEMMA FedOn ==
  ASSUME NEW f \in Seq(FedLines), NEW l \in FedLines
  PROVE  /\ Append(f, l) \in Seq(FedLines) /\ Len(f) \in Nat
         /\ Len(Append(f, l)) = Len(f) + 1
         /\ \A k \in 1..Len(f) : Append(f, l)[k] = f[k]
         /\ Append(f, l)[Len(f) + 1] = l
BY AppendProperties

LEMMA OpensOn ==
  ASSUME NEW f \in Seq(FedLines), NEW l \in FedLines
  PROVE  /\ \A i \in 1..Len(f) :
              Opens(Append(f, l), i)
                <=> /\ Opens(f, i) /\ l.kind \notin {"start", "reset"}
                    /\ ~EndsAt(Append(f, l), i, Len(f) + 1)
         /\ Opens(Append(f, l), Len(f) + 1) <=> l.kind = "start"
<1> DEFINE n == Len(f)
           g == Append(f, l)
<1>1. /\ n \in Nat /\ Len(g) = n + 1 /\ g[n + 1] = l
      /\ \A k \in 1..n : g[k] = f[k]
  BY FedOn
<1> HIDE DEF g, n
<1>2. ASSUME NEW i \in 1..n
      PROVE  Opens(g, i) <=> /\ Opens(f, i) /\ l.kind \notin {"start", "reset"}
                             /\ ~EndsAt(g, i, n + 1)
  <2>1. g[i] = f[i] /\ \A k \in i+1..n : g[k] = f[k] /\ (EndsAt(g, i, k) <=> EndsAt(f, i, k))
    BY <1>1, <1>2 DEF EndsAt
  <2>2. i+1..n+1 = (i+1..n) \union {n + 1} /\ Len(f) = n
    BY <1>1, <1>2 DEF n
  <2>3. Opens(f, i) <=>
          /\ f[i].kind = "start"
          /\ \A k \in i+1..n : f[k].kind \notin {"start", "reset"} /\ ~EndsAt(f, i, k)
    BY <2>2 DEF Opens
  <2>4. Opens(g, i) <=>
          /\ g[i].kind = "start"
          /\ \A k \in (i+1..n) \union {n + 1} :
               g[k].kind \notin {"start", "reset"} /\ ~EndsAt(g, i, k)
    BY <1>1, <2>2 DEF Opens
  <2> QED
    BY <1>1, <2>1, <2>3, <2>4, Zenon
<1>3. Opens(g, n + 1) <=> l.kind = "start"
  BY <1>1 DEF Opens
<1> QED
  BY <1>2, <1>3 DEF g, n

(* Of two captures the second would have ended the first.                  *)
LEMMA OneOpens ==
  ASSUME NEW f \in Seq(FedLines), NEW i \in 1..Len(f), NEW k \in 1..Len(f),
         Opens(f, i), Opens(f, k)
  PROVE  i = k
<1>1. CASE i < k
  BY <1>1 DEF Opens
<1>2. CASE k < i
  BY <1>2 DEF Opens
<1> QED
  BY <1>1, <1>2

(* The tracebacks that l ends in a sequence of n lines before it.          *)
Ended(f, l) ==
  {<<i, Len(f) + 1>> : i \in {k \in 1..Len(f) :
     /\ Opens(f, k) /\ l.kind \notin {"start", "reset"}
     /\ EndsAt(Append(f, l), k, Len(f) + 1)}}

IsTraceback(f, i, j) ==
  /\ i < j /\ f[i].kind = "start" /\ EndsAt(f, i, j)
  /\ \A k \in i+1..j : f[k].kind \notin {"start", "reset"}
  /\ \A k \in i+1..j-1 : ~EndsAt(f, i, k)

LEMMA TracebacksAre ==
  ASSUME NEW f
  PROVE  Tracebacks(f) = {x \in (1..Len(f)) \X (1..Len(f)) : IsTraceback(f, x[1], x[2])}
BY DEF Tracebacks, IsTraceback

LEMMA TracebacksOn ==
  ASSUME NEW f \in Seq(FedLines), NEW l \in FedLines
  PROVE  Tracebacks(Append(f, l)) = Tracebacks(f) \union Ended(f, l)
<1> DEFINE n == Len(f)
           g == Append(f, l)
<1>1. /\ n \in Nat /\ Len(g) = n + 1 /\ g[n + 1] = l
      /\ \A k \in 1..n : g[k] = f[k]
  BY FedOn
<1>0. Ended(f, l) = {<<i, n + 1>> : i \in {k \in 1..n : /\ Opens(f, k) /\ l.kind \notin {"start", "reset"}
                                   /\ EndsAt(g, k, n + 1)}}
  BY DEF Ended
<1>a. Len(f) = n
  OBVIOUS
<1> HIDE DEF g, n
<1>2. ASSUME NEW i \in 1..n, NEW j \in 1..n
      PROVE  IsTraceback(g, i, j) <=> IsTraceback(f, i, j)
  <2>1. g[i] = f[i] /\ \A k \in i+1..j : g[k] = f[k] /\ (EndsAt(g, i, k) <=> EndsAt(f, i, k))
    BY <1>1, <1>2 DEF EndsAt
  <2>2. g[j] = f[j] /\ (EndsAt(g, i, j) <=> EndsAt(f, i, j))
    BY <1>1, <1>2 DEF EndsAt
  <2>3. \A k \in i+1..j-1 : k \in i+1..j
    BY <1>1, <1>2
  <2> QED
    BY <2>1, <2>2, <2>3 DEF IsTraceback
<1>3. ASSUME NEW i \in 1..n
      PROVE  IsTraceback(g, i, n + 1) <=>
               Opens(f, i) /\ l.kind \notin {"start", "reset"} /\ EndsAt(g, i, n + 1)
  <2>1. g[i] = f[i] /\ \A k \in i+1..n : g[k] = f[k] /\ (EndsAt(g, i, k) <=> EndsAt(f, i, k))
    BY <1>1, <1>3 DEF EndsAt
  <2>2. i+1..n+1 = (i+1..n) \union {n + 1} /\ (n + 1) - 1 = n /\ i < n + 1
    BY <1>1, <1>3
  <2>3. IsTraceback(g, i, n + 1) <=>
          /\ g[i].kind = "start" /\ EndsAt(g, i, n + 1)
          /\ \A k \in (i+1..n) \union {n + 1} : g[k].kind \notin {"start", "reset"}
          /\ \A k \in i+1..n : ~EndsAt(g, i, k)
    BY <2>2 DEF IsTraceback
  <2>4. Opens(f, i) <=>
          /\ f[i].kind = "start"
          /\ \A k \in i+1..n : f[k].kind \notin {"start", "reset"} /\ ~EndsAt(f, i, k)
    BY <1>a DEF Opens
  <2> QED
    BY <1>1, <2>1, <2>3, <2>4, Zenon
<1>4. ~IsTraceback(g, n + 1, n + 1) /\ \A j \in 1..n : ~IsTraceback(g, n + 1, j)
  BY <1>1 DEF IsTraceback
<1>5. 1..n+1 = (1..n) \union {n + 1}
  BY <1>1
<1>6. /\ Tracebacks(g) = {x \in (1..n+1) \X (1..n+1) : IsTraceback(g, x[1], x[2])}
      /\ Tracebacks(f) = {x \in (1..n) \X (1..n) : IsTraceback(f, x[1], x[2])}
  BY <1>1, <1>a, TracebacksAre
<1>7. ASSUME NEW x \in Tracebacks(g) PROVE x \in Tracebacks(f) \union Ended(f, l)
  <2>1. PICK i \in 1..n+1, j \in 1..n+1 : x = <<i, j>> /\ IsTraceback(g, i, j)
    BY <1>6, <1>7
  <2>2. i \in 1..n
    BY <1>4, <1>5, <2>1
  <2>3. CASE j \in 1..n
    BY <1>2, <1>6, <2>1, <2>2, <2>3
  <2>4. CASE j = n + 1
    BY <1>0, <1>3, <2>1, <2>2, <2>4
  <2> QED
    BY <1>5, <2>1, <2>3, <2>4
<1>8. ASSUME NEW x \in Tracebacks(f) PROVE x \in Tracebacks(g)
  <2>1. PICK i \in 1..n, j \in 1..n : x = <<i, j>> /\ IsTraceback(f, i, j)
    BY <1>6, <1>8
  <2> QED
    BY <1>2, <1>5, <1>6, <2>1
<1>9. ASSUME NEW x \in Ended(f, l) PROVE x \in Tracebacks(g)
  <2>1. PICK i \in 1..n : /\ x = <<i, n + 1>> /\ Opens(f, i) /\ l.kind \notin {"start", "reset"}
                          /\ EndsAt(g, i, n + 1)
    BY <1>0, <1>9
  <2> QED
    BY <1>3, <1>5, <1>6, <2>1
<1> QED
  BY <1>7, <1>8, <1>9 DEF g

(* What a traceback contains does not change with the lines after it.      *)
LEMMA SubSeqOn ==
  ASSUME NEW f \in Seq(FedLines), NEW l \in FedLines,
         NEW i \in 1..Len(f), NEW j \in Nat, j <= Len(f)
  PROVE  SubSeq(Append(f, l), i, j) = SubSeq(f, i, j)
<1>1. \A k \in i..j : f[k] \in FedLines /\ Append(f, l)[k] = f[k]
  BY FedOn
<1>2. /\ SubSeq(f, i, j) \in Seq(FedLines)
      /\ Len(SubSeq(f, i, j)) = IF i <= j THEN j - i + 1 ELSE 0
      /\ \A k \in 1..j-i+1 : SubSeq(f, i, j)[k] = f[i + k - 1]
  BY <1>1, SubSeqProperties
<1>3. /\ SubSeq(Append(f, l), i, j) \in Seq(FedLines)
      /\ Len(SubSeq(Append(f, l), i, j)) = IF i <= j THEN j - i + 1 ELSE 0
      /\ \A k \in 1..j-i+1 : SubSeq(Append(f, l), i, j)[k] = Append(f, l)[i + k - 1]
  BY <1>1, SubSeqProperties
<1>4. ASSUME NEW k \in 1..Len(SubSeq(f, i, j))
      PROVE  SubSeq(Append(f, l), i, j)[k] = SubSeq(f, i, j)[k]
  <2>1. i <= j /\ k \in 1..j-i+1 /\ i + k - 1 \in i..j
    BY <1>2
  <2> QED
    BY <1>1, <1>2, <1>3, <2>1
<1> QED
  BY <1>2, <1>3, <1>4, SeqEqual

LEMMA SubSeqEnds ==
  ASSUME NEW f \in Seq(FedLines), NEW l \in FedLines, NEW i \in 1..Len(f)
  PROVE  SubSeq(Append(f, l), i, Len(f) + 1) = Append(SubSeq(f, i, Len(f)), l)
<1>1. /\ Append(f, l) \in Seq(FedLines) /\ Len(f) \in Nat
      /\ Len(Append(f, l)) = Len(f) + 1 /\ Append(f, l)[Len(f) + 1] = l
  BY FedOn
<1>2. SubSeq(Append(f, l), i, Len(f) + 1)
        = SubSeq(Append(f, l), i, (Len(f) + 1) - 1) \o <<l>>
  BY <1>1, SubSeqRecursiveSecond
<1>3. SubSeq(Append(f, l), i, Len(f)) = SubSeq(f, i, Len(f))
  BY <1>1, SubSeqOn
<1>4. SubSeq(f, i, Len(f)) \in Seq(FedLines)
  BY SubSeqProperties
<1> QED
  BY <1>1, <1>2, <1>3, <1>4, AppendIsConcat

LEMMA ContentsOn ==
  ASSUME NEW f \in Seq(FedLines), NEW l \in FedLines, NEW x \in Tracebacks(f)
  PROVE  Contents(Append(f, l), x) = Contents(f, x)
<1>1. /\ x[1] \in 1..Len(f) /\ x[2] \in 1..Len(f) /\ Len(f) \in Nat
      /\ Append(f, l)[x[2]] = f[x[2]]
  BY FedOn DEF Tracebacks
<1>2. x[2] \in Nat /\ x[2] <= Len(f) /\ x[2] - 1 \in Nat /\ x[2] - 1 <= Len(f)
  BY <1>1
<1> QED
  BY <1>1, <1>2, SubSeqOn DEF Contents

(* The state machine of ingest_line finds the tracebacks there are.        *)
LEMMA CaptureStep ==
  ASSUME IngestionAssumption, NEW f \in Seq(FedLines), NEW l \in Lines,
         NEW b \in Output, Captures(f, b)
  PROVE  LET g == Append(f, l)
             c == Captured(b, l)
         IN  /\ Captures(g, c.left)
             /\ c.done = <<>> => Tracebacks(g) = Tracebacks(f)
             /\ c.done # <<>> =>
                  \E x : /\ x \notin Tracebacks(f)
                        /\ Tracebacks(g) = Tracebacks(f) \union {x}
                        /\ Contents(g, x) = c.done
<1> DEFINE g == Append(f, l)
           n == Len(f)
           c == Captured(b, l)
<1>1. l \in FedLines /\ l.kind \in LineKinds /\ l.kind # "reset"
  BY KindsAre DEF FedLines
<1>2. /\ g \in Seq(FedLines) /\ n \in Nat /\ Len(g) = n + 1 /\ g[n + 1] = l
      /\ \A k \in 1..n : g[k] = f[k]
  BY <1>1, FedOn
<1>3. /\ \A i \in 1..n :
           Opens(g, i) <=> /\ Opens(f, i) /\ l.kind # "start"
                           /\ ~EndsAt(g, i, n + 1)
      /\ Opens(g, n + 1) <=> l.kind = "start"
  BY <1>1, OpensOn
<1>4. Tracebacks(g) = Tracebacks(f) \union Ended(f, l)
  BY <1>1, TracebacksOn
<1>5. Ended(f, l) = {<<i, n + 1>> : i \in {k \in 1..n :
                       Opens(f, k) /\ l.kind # "start" /\ EndsAt(g, k, n + 1)}}
  BY <1>1 DEF Ended
<1>6. 1..n+1 = (1..n) \union {n + 1}
  BY <1>2
<1>7. Captures(g, <<>>) <=> \/ \A i \in 1..n+1 : ~Opens(g, i)
                           \/ \E i \in 1..n+1 : Opens(g, i) /\ <<>> = SubSeq(g, i, n + 1)
  BY <1>2 DEF Captures
<1>8. \/ b = <<>> /\ \A i \in 1..n : ~Opens(f, i)
      \/ \E i \in 1..n : Opens(f, i) /\ b = SubSeq(f, i, n)
  BY DEF Captures
<1>9. \A i \in 1..n : \A k \in 1..n : Opens(f, i) /\ Opens(f, k) => i = k
  BY OneOpens
<1>10. \A i \in 1..n+1 : \A d : Opens(g, i) /\ d = SubSeq(g, i, n + 1) => Captures(g, d)
  BY <1>2 DEF Captures
<1>11. \A i \in 1..n : /\ SubSeq(g, i, n) = SubSeq(f, i, n)
                       /\ SubSeq(g, i, n + 1) = Append(SubSeq(f, i, n), l)
  <2>1. n <= Len(f)
    BY <1>2
  <2> QED
    BY <1>1, <1>2, <2>1, SubSeqOn, SubSeqEnds
<1>12. \A i \in 1..n : Len(SubSeq(f, i, n)) = n - i + 1 /\ SubSeq(f, i, n) # <<>>
  <2> SUFFICES ASSUME NEW i \in 1..n
               PROVE  Len(SubSeq(f, i, n)) = n - i + 1 /\ SubSeq(f, i, n) # <<>>
    OBVIOUS
  <2>1. \A k \in i..n : f[k] \in FedLines
    BY <1>2
  <2>2. i \in Int /\ n \in Int /\ i <= n /\ n - i + 1 > 0
    BY <1>2
  <2> HIDE DEF n
  <2>3. Len(SubSeq(f, i, n)) = n - i + 1
    BY <2>1, <2>2, SubSeqProperties
  <2>4. Len(<<>>) = 0
    OBVIOUS
  <2>5. SubSeq(f, i, n) # <<>>
    <3> SUFFICES ASSUME SubSeq(f, i, n) = <<>> PROVE FALSE
      OBVIOUS
    <3> QED
      BY <2>2, <2>3, <2>4
  <2> QED
    BY <2>3, <2>5
<1>13. \A i \in 1..n : EndsAt(g, i, n + 1) <=>
         l.kind \in {"request", "summary"} \/ (n + 1) - i + 1 > MaxCapture
  BY <1>2 DEF EndsAt
<1>14. \A i : Contents(g, <<i, n + 1>>) =
               SubSeq(g, i, IF l.kind = "request" THEN n ELSE n + 1)
  <2> SUFFICES ASSUME NEW i
               PROVE  Contents(g, <<i, n + 1>>) =
                        SubSeq(g, i, IF l.kind = "request" THEN n ELSE n + 1)
    OBVIOUS
  <2>1. g[n + 1] = l /\ (n + 1) - 1 = n
    BY <1>2
  <2> HIDE DEF g, n
  <2>2. Contents(g, <<i, n + 1>>) =
          SubSeq(g, i, IF g[n + 1].kind = "request" THEN (n + 1) - 1 ELSE n + 1)
    BY DEF Contents
  <2> QED
    BY <2>1, <2>2
<1>15. \A i : <<i, n + 1>> \notin Tracebacks(f)
  BY <1>2 DEF Tracebacks
<1> HIDE DEF g, n, c
<1>16. CASE l.kind = "start"
  <2>1. c.left = <<l>> /\ c.done = <<>>
    BY <1>16 DEF Captured, c
  <2>2. SubSeq(g, n + 1, n + 1) = <<l>>
    <3>1. n + 1 \in 1..Len(g)
      BY <1>2
    <3>2. SubSeq(g, n + 1, n + 1) = SubSeq(g, n + 1, (n + 1) - 1) \o <<g[n + 1]>>
      BY <1>2, <3>1, SubSeqRecursiveSecond
    <3>3. SubSeq(g, n + 1, (n + 1) - 1) = <<>>
      BY <1>2, SubSeqEmpty
    <3>4. <<l>> \in Seq(FedLines) /\ g[n + 1] = l
      BY <1>1, <1>2
    <3> QED
      BY <3>2, <3>3, <3>4, ConcatEmptySeq
  <2>3. Captures(g, c.left)
    BY <1>2, <1>3, <1>6, <1>10, <1>16, <2>1, <2>2
  <2>4. Ended(f, l) = {}
    BY <1>5, <1>16
  <2> QED
    BY <1>4, <2>1, <2>3, <2>4 DEF g, c
<1>17. CASE l.kind # "start" /\ b = <<>>
  <2>1. c.left = <<>> /\ c.done = <<>>
    BY <1>17 DEF Captured, c
  <2>2. \A i \in 1..n : ~Opens(f, i)
    BY <1>8, <1>12, <1>17
  <2>3. Captures(g, <<>>)
    BY <1>3, <1>6, <1>7, <1>17, <2>2
  <2>4. Ended(f, l) = {}
    BY <1>5, <2>2
  <2> QED
    BY <1>4, <2>1, <2>3, <2>4 DEF g, c
<1>18. CASE l.kind # "start" /\ b # <<>>
  <2>1. PICK i \in 1..n : Opens(f, i) /\ b = SubSeq(f, i, n)
    BY <1>8, <1>18
  <2>2. \A k \in 1..n : Opens(f, k) => k = i
    BY <1>9, <2>1
  <2>3. Len(b) = n - i + 1 /\ MaxCapture \in Nat
    BY <1>12, <2>1 DEF IngestionAssumption
  <2>4. EndsAt(g, i, n + 1) <=>
          l.kind \in {"request", "summary"} \/ Len(b) + 1 > MaxCapture
    BY <1>2, <1>13, <2>3
  <2>5. /\ c.left = IF EndsAt(g, i, n + 1) THEN <<>> ELSE Append(b, l)
        /\ c.done = IF ~EndsAt(g, i, n + 1) THEN <<>>
                    ELSE IF l.kind = "request" THEN b ELSE Append(b, l)
    BY <1>18, <2>4 DEF Captured, c
  <2>6. CASE EndsAt(g, i, n + 1)
    <3>1. Captures(g, c.left)
      BY <1>3, <1>6, <1>7, <1>18, <2>2, <2>5, <2>6
    <3>2. Ended(f, l) = {<<i, n + 1>>}
      BY <1>5, <1>18, <2>1, <2>2, <2>6
    <3>3. Contents(g, <<i, n + 1>>) = c.done
      BY <1>11, <1>14, <2>1, <2>5, <2>6
    <3>4. Append(b, l) # <<>>
      BY DEF Output
    <3>5. c.done # <<>>
      BY <1>18, <2>5, <2>6, <3>4
    <3> QED
      BY <1>4, <1>15, <3>1, <3>2, <3>3, <3>5 DEF g, c
  <2>7. CASE ~EndsAt(g, i, n + 1)
    <3>1. Opens(g, i) /\ c.left = SubSeq(g, i, n + 1)
      BY <1>3, <1>11, <1>18, <2>1, <2>5, <2>7
    <3>2. Captures(g, c.left)
      BY <1>6, <1>10, <3>1
    <3>3. Ended(f, l) = {}
      BY <1>5, <2>2, <2>7
    <3> QED
      BY <1>4, <2>5, <2>7, <3>2, <3>3 DEF g, c
  <2> QED
    BY <2>6, <2>7
<1> QED
  BY <1>16, <1>17, <1>18

(* A restart ends every capture and finishes none.                         *)
LEMMA ResetStep ==
  ASSUME NEW f \in Seq(FedLines)
  PROVE  /\ Captures(Append(f, Reset), <<>>)
         /\ Tracebacks(Append(f, Reset)) = Tracebacks(f)
<1>1. Reset \in FedLines /\ Reset.kind = "reset"
  BY DEF FedLines, Reset
<1>2. Len(Append(f, Reset)) = Len(f) + 1 /\ 1..Len(f)+1 = (1..Len(f)) \union {Len(f) + 1}
  BY <1>1, FedOn
<1>3. \A i \in 1..Len(f)+1 : ~Opens(Append(f, Reset), i)
  BY <1>1, <1>2, OpensOn
<1>4. Ended(f, Reset) = {}
  BY <1>1 DEF Ended
<1> QED
  BY <1>1, <1>2, <1>3, <1>4, TracebacksOn DEF Captures

----------------------------------------------------------------------------
Working == {"store", "look", "bump", "number", "create"}

(* A thread holds a traceback only between its lines; the occurrence it is *)
(* about to count is of an incident of the signature; and what was dropped *)
(* of it lies before what it holds.                                        *)
HandIsClean(r) ==
  /\ thread[r].pc \notin Working \union {"gone"} => thread[r].done = <<>>
  /\ thread[r].pc = "bump" =>
       /\ thread[r].done # <<>>
       /\ incidents[thread[r].hit].signature = Signature(thread[r].done)
  /\ \A x \in lost : x[1] = r =>
       /\ x[2] \in Nat /\ x[2] <= thread[r].pos
       /\ thread[r].pc \notin {"free", "start"}
       /\ thread[r].pc \in Working /\ thread[r].done # <<>> => x[2] < thread[r].pos

HandsAreClean == \A r \in Readers : HandIsClean(r)

Buffered == \A w \in Workers, d \in Deployments : Captures(fed[w][d], buffer[w][d])

Pending == Held(Readers) \union lost

With(P, k, s) == {x \in P : x[k] = s}

Balanced(s) ==
  Cardinality(Counted(s)) + Cardinality(With(Pending, 3, s))
    = Cardinality(With(Detected, 4, s))

Tallied ==
  /\ IsFiniteSet(Pending) /\ IsFiniteSet(Detected)
  /\ \A s : IsFiniteSet(Counted(s)) /\ (s[1] # "ManualIncident" => Balanced(s))

(* What one thread holds.                                                  *)
LEMMA HeldOne ==
  ASSUME NEW r \in Readers
  PROVE  Held({r}) = IF Active(r) /\ thread[r].done # <<>>
                     THEN {<<r, thread[r].pos, Signature(thread[r].done)>>} ELSE {}
BY DEF Held

LEMMA HeldSplits ==
  ASSUME NEW r \in Readers
  PROVE  Held(Readers) = Held(Readers \ {r}) \union Held({r})
BY DEF Held

LEMMA HeldOthers ==
  ASSUME NEW S, \A q \in S : thread'[q] = thread[q]
  PROVE  Held(S)' = Held(S)
<1>1. \A q \in S : Active(q)' <=> Active(q)
  BY DEF Active
<1> QED
  BY <1>1 DEF Held

(* Only r moves.                                                           *)
Alone(r) == \A q \in Readers \ {r} : thread'[q] = thread[q]

LEMMA PendingOfOne ==
  ASSUME NEW r \in Readers, Alone(r)
  PROVE  /\ Pending = Held(Readers \ {r}) \union Held({r}) \union lost
         /\ Pending' = Held(Readers \ {r}) \union Held({r})' \union lost'
<1>1. Held(Readers \ {r})' = Held(Readers \ {r})
  BY HeldOthers DEF Alone
<1>2. Held(Readers) = Held(Readers \ {r}) \union Held({r})
  BY HeldSplits
<1>3. Held(Readers)' = Held(Readers \ {r})' \union Held({r})'
  BY DEF Held
<1> QED
  BY <1>1, <1>2, <1>3 DEF Pending

LEMMA HeldNames ==
  ASSUME NEW S, NEW x \in Held(S)
  PROVE  x[1] \in S
BY DEF Held

----------------------------------------------------------------------------
(* Elements added to and taken from the sets that are counted.             *)
LEMMA OneMoreWith ==
  ASSUME NEW P, NEW Q, NEW x, IsFiniteSet(P), x \notin P, Q = P \union {x},
         NEW k, NEW s
  PROVE  /\ IsFiniteSet(Q)
         /\ Cardinality(With(P, k, s)) \in Nat
         /\ Cardinality(With(Q, k, s)) =
              IF x[k] = s THEN Cardinality(With(P, k, s)) + 1
              ELSE Cardinality(With(P, k, s))
<1>1. With(P, k, s) \subseteq P
  BY DEF With
<1>2. IsFiniteSet(With(P, k, s)) /\ Cardinality(With(P, k, s)) \in Nat
  BY <1>1, FS_Subset, FS_CardinalityType
<1>3. With(Q, k, s) = IF x[k] = s THEN With(P, k, s) \union {x} ELSE With(P, k, s)
  BY DEF With
<1>4. x \notin With(P, k, s)
  BY <1>1
<1> QED
  BY <1>2, <1>3, <1>4, FS_AddElement

LEMMA OneMore ==
  ASSUME NEW P, NEW x, IsFiniteSet(P), x \notin P
  PROVE  /\ IsFiniteSet(P \union {x}) /\ Cardinality(P) \in Nat
         /\ Cardinality(P \union {x}) = Cardinality(P) + 1
BY FS_AddElement, FS_CardinalityType

----------------------------------------------------------------------------
(* The three kinds of steps of the tally.                                  *)
LEMMA NothingCounts ==
  ASSUME Tallied, Pending' = Pending, Detected' = Detected,
         \A s : Counted(s)' = Counted(s)
  PROVE  Tallied'
BY DEF Tallied, Balanced

LEMMA PendingGrows ==
  ASSUME NEW x, IsFiniteSet(Pending), x \notin Pending,
         Pending' = Pending \union {x}, NEW s
  PROVE  /\ Cardinality(With(Pending, 3, s)) \in Nat
         /\ Cardinality(With(Pending', 3, s)) =
              IF x[3] = s THEN Cardinality(With(Pending, 3, s)) + 1
              ELSE Cardinality(With(Pending, 3, s))
<1>1. With(Pending, 3, s) \subseteq Pending
  BY DEF With
<1>2. /\ IsFiniteSet(With(Pending, 3, s))
      /\ Cardinality(With(Pending, 3, s)) \in Nat
  BY <1>1, FS_Subset, FS_CardinalityType
<1>3. With(Pending', 3, s) = IF x[3] = s THEN With(Pending, 3, s) \union {x}
                             ELSE With(Pending, 3, s)
  BY DEF With
<1>4. x \notin With(Pending, 3, s)
  BY <1>1
<1> QED
  BY <1>2, <1>3, <1>4, FS_AddElement

LEMMA OneIsDetected ==
  ASSUME Tallied, NEW x, NEW y, x \notin Pending, y \notin Detected, x[3] = y[4],
         Pending' = Pending \union {x}, Detected' = Detected \union {y},
         \A s : Counted(s)' = Counted(s)
  PROVE  Tallied'
<1>1. IsFiniteSet(Pending) /\ IsFiniteSet(Detected)
  BY DEF Tallied
<1>2. IsFiniteSet(Pending') /\ IsFiniteSet(Detected')
  BY <1>1, OneMoreWith
<1>3. ASSUME NEW s, s[1] # "ManualIncident" PROVE Balanced(s)'
  <2>1. Balanced(s) /\ IsFiniteSet(Counted(s))
    BY <1>3 DEF Tallied
  <2>2. /\ Cardinality(With(Pending, 3, s)) \in Nat
        /\ Cardinality(With(Pending', 3, s)) =
             IF x[3] = s THEN Cardinality(With(Pending, 3, s)) + 1
             ELSE Cardinality(With(Pending, 3, s))
    BY <1>1, PendingGrows
  <2>3. /\ Cardinality(With(Detected, 4, s)) \in Nat
        /\ Cardinality(With(Detected', 4, s)) =
             IF y[4] = s THEN Cardinality(With(Detected, 4, s)) + 1
             ELSE Cardinality(With(Detected, 4, s))
    <3>1. PICK P, Q : P = Detected /\ Q = Detected'
      OBVIOUS
    <3>2. IsFiniteSet(P) /\ y \notin P /\ Q = P \union {y}
      BY <1>1, <3>1
    <3>3. /\ Cardinality(With(P, 4, s)) \in Nat
          /\ Cardinality(With(Q, 4, s)) =
               IF y[4] = s THEN Cardinality(With(P, 4, s)) + 1
               ELSE Cardinality(With(P, 4, s))
      BY <3>2, OneMoreWith
    <3> QED
      BY <3>1, <3>3
  <2>4. Cardinality(Counted(s)) \in Nat /\ Counted(s)' = Counted(s)
    BY <2>1, FS_CardinalityType
  <2> QED
    BY <2>1, <2>2, <2>3, <2>4 DEF Balanced
<1> QED
  BY <1>2, <1>3 DEF Tallied

(* A pending one is counted, or (of a signature that is not tallied) an    *)
(* incident is declared.                                                   *)
LEMMA OneIsCounted ==
  ASSUME Tallied, NEW x, NEW z, x \in Pending, z \notin Counted(x[3]),
         Pending' = Pending \ {x}, Detected' = Detected,
         \A s : Counted(s)' = IF s = x[3] THEN Counted(s) \union {z} ELSE Counted(s)
  PROVE  Tallied'
<1>1. IsFiniteSet(Pending) /\ IsFiniteSet(Detected)
  BY DEF Tallied
<1>2. IsFiniteSet(Pending') /\ x \notin Pending' /\ Pending = Pending' \union {x}
  BY <1>1, FS_RemoveElement
<1>3. ASSUME NEW s PROVE IsFiniteSet(Counted(s)') /\ (s[1] # "ManualIncident" => Balanced(s)')
  <2>1. IsFiniteSet(Counted(s)) /\ (s[1] # "ManualIncident" => Balanced(s))
    BY DEF Tallied
  <2>2. /\ Cardinality(With(Pending', 3, s)) \in Nat
        /\ Cardinality(With(Pending, 3, s)) =
             IF x[3] = s THEN Cardinality(With(Pending', 3, s)) + 1
             ELSE Cardinality(With(Pending', 3, s))
    BY <1>2, OneMoreWith
  <2>3. Cardinality(Counted(s)) \in Nat
    BY <2>1, FS_CardinalityType
  <2>4. CASE s = x[3]
    <3>1. Counted(s)' = Counted(s) \union {z} /\ z \notin Counted(s)
      BY <2>4
    <3>2. IsFiniteSet(Counted(s)') /\ Cardinality(Counted(s)') = Cardinality(Counted(s)) + 1
      BY <2>1, <3>1, OneMore
    <3> QED
      BY <2>1, <2>2, <2>3, <2>4, <3>2 DEF Balanced
  <2>5. CASE s # x[3]
    BY <2>1, <2>2, <2>3, <2>5 DEF Balanced
  <2> QED
    BY <2>4, <2>5
<1> QED
  BY <1>1, <1>2, <1>3 DEF Tallied

LEMMA OneIsDeclared ==
  ASSUME Tallied, NEW m, NEW z, m[1] = "ManualIncident", z \notin Counted(m),
         Pending' = Pending, Detected' = Detected,
         \A s : Counted(s)' = IF s = m THEN Counted(s) \union {z} ELSE Counted(s)
  PROVE  Tallied'
<1>1. ASSUME NEW s PROVE IsFiniteSet(Counted(s)') /\ (s[1] # "ManualIncident" => Balanced(s)')
  <2>1. IsFiniteSet(Counted(s)) /\ (s[1] # "ManualIncident" => Balanced(s))
    BY DEF Tallied
  <2>2. CASE s = m
    BY <2>1, <2>2, OneMore
  <2>3. CASE s # m
    BY <2>1, <2>3 DEF Balanced
  <2> QED
    BY <2>2, <2>3
<1> QED
  BY <1>1 DEF Tallied

----------------------------------------------------------------------------
(***************************************************************************)
(* What a step does to the thread that takes it.                           *)
(***************************************************************************)

(* Nothing in hand, before and after.                                      *)
Rests(r) ==
  /\ Alone(r)
  /\ thread[r].pc \notin Working \union {"gone"}
  /\ thread'[r].pc \notin {"free", "store", "look", "bump"} /\ thread'[r].done = <<>>
  /\ thread[r].pc \notin {"free", "start"} =>
       thread'[r].pos >= thread[r].pos /\ thread'[r].pc # "start"

(* A traceback or a declaration goes from one statement to the next.       *)
Works(r) ==
  /\ Alone(r)
  /\ thread[r].pc \in Working /\ thread'[r].pc \in Working
  /\ thread'[r].done = thread[r].done /\ thread'[r].pos = thread[r].pos
  /\ thread'[r].pc = "bump" =>
       /\ thread[r].done # <<>>
       /\ incidents[thread'[r].hit].signature = Signature(thread[r].done)

(* It is dealt with.                                                       *)
Finishes(r) ==
  /\ Alone(r)
  /\ thread[r].pc \in Working
  /\ thread'[r].pc \in {"gone", "drain", "read"}
  /\ thread'[r].done = <<>> /\ thread'[r].pos = thread[r].pos

(* A line ends one.                                                        *)
Catches(r) ==
  /\ Alone(r)
  /\ thread[r].pc \in {"read", "idle", "drain"}
  /\ thread'[r].pc = "store" /\ thread'[r].done # <<>>
  /\ thread'[r].pos = thread[r].pos + 1

(* The signature of an incident never changes.                             *)
SignaturesStay ==
  \A i \in DOMAIN incidents :
    i \in DOMAIN incidents' /\ incidents'[i].signature = incidents[i].signature

LEMMA HandsStay ==
  ASSUME HeldTypes, HandsAreClean, SignaturesStay, NEW r \in Readers, Alone(r),
         \A x \in lost' : x \in lost \/ x[1] = r, HandIsClean(r)'
  PROVE  HandsAreClean'
<1> SUFFICES ASSUME NEW q \in Readers PROVE HandIsClean(q)'
  BY DEF HandsAreClean
<1>1. CASE q = r
  BY <1>1
<1>2. CASE q # r
  <2>1. thread'[q] = thread[q] /\ HandIsClean(q)
    BY <1>2 DEF Alone, HandsAreClean
  <2>2. thread[q].pc = "bump" => thread[q].hit \in DOMAIN incidents
    BY ThreadIs DEF InHand
  <2>3. \A x \in lost' : x[1] = q => x \in lost
    BY <1>2
  <2> QED
    BY <2>1, <2>2, <2>3 DEF HandIsClean, SignaturesStay
<1> QED
  BY <1>1, <1>2

LEMMA PosIs ==
  ASSUME HeldTypes, HandsAreClean, NEW r \in Readers
  PROVE  /\ thread[r].pos \in Nat /\ HandIsClean(r)
         /\ \A x \in lost : x[1] = r =>
              /\ x[2] \in Nat /\ x[2] <= thread[r].pos
              /\ thread[r].pc \notin {"free", "start"}
BY ThreadIs DEF Threads, HandsAreClean, HandIsClean

LEMMA RestsClean ==
  ASSUME HeldTypes, HeldTypes', HandsAreClean, NEW r \in Readers, Rests(r),
         SignaturesStay, UNCHANGED lost
  PROVE  HandsAreClean' /\ Pending' = Pending
<1>1. /\ thread[r].pos \in Nat /\ HandIsClean(r)
      /\ \A x \in lost : x[1] = r =>
           /\ x[2] \in Nat /\ x[2] <= thread[r].pos
           /\ thread[r].pc \notin {"free", "start"}
  BY PosIs
<1>2. thread'[r].pos \in Nat
  BY DEF HeldTypes, Threads
<1>3. ASSUME NEW x \in lost, x[1] = r
      PROVE  /\ x[2] \in Nat /\ x[2] <= thread'[r].pos
             /\ thread'[r].pc \notin {"free", "start"}
  <2>1. /\ x[2] \in Nat /\ x[2] <= thread[r].pos
        /\ thread'[r].pos >= thread[r].pos /\ thread'[r].pc \notin {"free", "start"}
    BY <1>1, <1>3 DEF Rests
  <2> QED
    BY <1>1, <1>2, <2>1
<1>4. HandIsClean(r)'
  BY <1>3 DEF HandIsClean, Rests
<1>5. HandsAreClean'
  BY <1>4, HandsStay DEF Rests
<1>6. Held({r}) = {}
  <2>1. thread[r].done = <<>>
    BY <1>1 DEF HandIsClean, Rests
  <2> QED
    BY <2>1, HeldOne
<1>7. Held({r})' = {}
  BY DEF Held, Rests
<1> QED
  BY <1>5, <1>6, <1>7, PendingOfOne DEF Rests

LEMMA WorkingIsActive == \A r : thread[r].pc \in Working => Active(r)
BY DEF Active, Working, Resting

LEMMA WorksClean ==
  ASSUME HeldTypes, HandsAreClean, NEW r \in Readers, Works(r),
         UNCHANGED <<incidents, lost>>
  PROVE  HandsAreClean' /\ Pending' = Pending
<1>1. HandIsClean(r) /\ SignaturesStay
  BY DEF HandsAreClean, SignaturesStay
<1>2. HandIsClean(r)'
  BY <1>1 DEF HandIsClean, Works, Working
<1>3. HandsAreClean'
  BY <1>1, <1>2, HandsStay DEF Works
<1>4. Active(r) /\ Active(r)'
  BY DEF Active, Works, Working, Resting
<1>5. Held({r})' = Held({r})
  BY <1>4 DEF Held, Works
<1> QED
  BY <1>3, <1>5, PendingOfOne DEF Works

(* What a thread at work holds is not among what was dropped.              *)
LEMMA HoldsOne ==
  ASSUME HeldTypes, HandsAreClean, NEW r \in Readers, thread[r].pc \in Working,
         thread[r].done # <<>>
  PROVE  LET x == <<r, thread[r].pos, Signature(thread[r].done)>>
         IN  Held({r}) = {x} /\ x \in Pending /\ x \notin lost
                /\ x \notin Held(Readers \ {r})
<1> DEFINE x == <<r, thread[r].pos, Signature(thread[r].done)>>
<1>1. Held({r}) = {x}
  BY HeldOne, WorkingIsActive
<1>2. x \in Pending
  BY <1>1, HeldSplits DEF Pending
<1>3. x \notin lost
  <2> SUFFICES ASSUME x \in lost PROVE FALSE
    OBVIOUS
  <2>1. x[1] = r /\ x[2] = thread[r].pos
    OBVIOUS
  <2>2. x[2] \in Nat /\ x[2] < thread[r].pos
    BY <2>1 DEF HandsAreClean, HandIsClean
  <2> QED
    BY <2>1, <2>2
<1>4. x \notin Held(Readers \ {r})
  BY HeldNames
<1> QED
  BY <1>1, <1>2, <1>3, <1>4

LEMMA FinishesClean ==
  ASSUME HeldTypes, HandsAreClean, NEW r \in Readers, Finishes(r),
         SignaturesStay, lost' \in {lost, lost \union Held({r})}
  PROVE  /\ HandsAreClean'
         /\ Pending' = IF lost' = lost THEN Pending \ Held({r}) ELSE Pending
<1>1. thread[r].pos \in Nat /\ HandIsClean(r) /\ Held({r})' = {}
  BY PosIs DEF Held, Finishes
<1>2. ASSUME NEW x \in lost', x[1] = r
      PROVE  x[2] \in Nat /\ x[2] <= thread[r].pos
  <2>1. CASE x \in lost
    BY <1>2, <2>1, PosIs
  <2>2. CASE x \in Held({r})
    <3>1. x = <<r, thread[r].pos, Signature(thread[r].done)>>
      BY <2>2, HeldOne
    <3> QED
      BY <1>1, <3>1
  <2> QED
    BY <2>1, <2>2
<1>3. HandIsClean(r)'
  BY <1>2 DEF HandIsClean, Finishes, Working
<1>4. \A x \in lost' : x \in lost \/ x[1] = r
  BY HeldNames
<1>5. HandsAreClean'
  BY <1>3, <1>4, HandsStay DEF Finishes
<1>6. /\ Pending = Held(Readers \ {r}) \union Held({r}) \union lost
      /\ Pending' = Held(Readers \ {r}) \union lost'
  BY <1>1, PendingOfOne DEF Finishes
<1>7. \A x \in Held({r}) : x \notin lost /\ x \notin Held(Readers \ {r})
  <2>1. CASE thread[r].done = <<>>
    BY <2>1, HeldOne
  <2>2. CASE thread[r].done # <<>>
    BY <2>2, HoldsOne DEF Finishes
  <2> QED
    BY <2>1, <2>2
<1>8. lost' = lost => Pending' = Pending \ Held({r})
  BY <1>6, <1>7
<1>9. lost' # lost => Pending' = Pending
  BY <1>6
<1> QED
  BY <1>5, <1>8, <1>9

LEMMA CatchesClean ==
  ASSUME HeldTypes, HandsAreClean, NEW r \in Readers, Catches(r),
         UNCHANGED <<incidents, lost>>
  PROVE  LET x == <<r, thread[r].pos + 1, Signature(thread'[r].done)>>
         IN  HandsAreClean' /\ Pending' = Pending \union {x} /\ x \notin Pending
<1> DEFINE x == <<r, thread[r].pos + 1, Signature(thread'[r].done)>>
<1>1. thread[r].pos \in Nat /\ HandIsClean(r) /\ SignaturesStay
  BY PosIs DEF SignaturesStay
<1>2. ASSUME NEW y \in lost, y[1] = r
      PROVE  y[2] \in Nat /\ y[2] <= thread[r].pos + 1 /\ y[2] < thread[r].pos + 1
  <2>1. y[2] \in Nat /\ y[2] <= thread[r].pos
    BY <1>2, PosIs
  <2> QED
    BY <1>1, <2>1
<1>3. HandIsClean(r)'
  BY <1>2 DEF HandIsClean, Catches, Working
<1>4. HandsAreClean'
  BY <1>1, <1>3, HandsStay DEF Catches
<1>5. Held({r}) = {}
  BY <1>1, HeldOne DEF HandIsClean, Catches, Working
<1>6. Held({r})' = {x}
  <2>1. Active(r)'
    BY DEF Active, Catches, Resting
  <2> QED
    BY <2>1 DEF Held, Catches
<1>7. x \notin lost
  <2> SUFFICES ASSUME x \in lost PROVE FALSE
    OBVIOUS
  <2>1. x[1] = r /\ x[2] = thread[r].pos + 1
    OBVIOUS
  <2>2. x[2] \in Nat /\ x[2] < thread[r].pos + 1
    BY <1>2, <2>1
  <2> QED
    BY <2>1, <2>2
<1>8. x \notin Held(Readers \ {r})
  BY HeldNames
<1> HIDE DEF x
<1>9. /\ Pending = Held(Readers \ {r}) \union Held({r}) \union lost
      /\ Pending' = Held(Readers \ {r}) \union Held({r})' \union lost'
  BY PendingOfOne DEF Catches
<1>10. Pending' = Pending \union {x} /\ x \notin Pending
  BY <1>5, <1>6, <1>7, <1>8, <1>9
<1> QED
  BY <1>4, <1>10 DEF x

----------------------------------------------------------------------------
(* A restart drops what the threads of a process hold.                     *)
LEMMA RestartClean ==
  ASSUME HeldTypes, HandsAreClean, NEW w \in Workers, Restart(w)
  PROVE  HandsAreClean' /\ Pending' = Pending
<1>0. PICK killed : killed = {r \in Readers : Active(r) /\ thread[r].by = w}
  OBVIOUS
<1>1. /\ lost' = lost \union Held(killed) /\ UNCHANGED incidents
      /\ \A r \in Readers : thread'[r] = IF r \in killed
                              THEN [thread[r] EXCEPT !.pc = "gone"] ELSE thread[r]
  BY <1>0 DEF Restart
<1>2. \A r \in killed : /\ r \in Readers /\ Active(r)
                        /\ thread'[r].pc = "gone" /\ thread'[r].done = thread[r].done
                        /\ thread'[r].pos = thread[r].pos
  <2> SUFFICES ASSUME NEW r \in killed
               PROVE  /\ r \in Readers /\ Active(r)
                      /\ thread'[r].pc = "gone" /\ thread'[r].done = thread[r].done
                      /\ thread'[r].pos = thread[r].pos
    OBVIOUS
  <2>1. thread'[r] = [thread[r] EXCEPT !.pc = "gone"] /\ thread[r] \in Threads
    BY <1>0, <1>1, ThreadIs
  <2> QED
    BY <1>0, <2>1 DEF Threads
<1>3. Held(Readers) = Held(killed) \union Held(Readers \ killed)
  BY <1>2 DEF Held
<1>4. \A r \in killed : ~Active(r)'
  BY <1>2 DEF Active, Resting
<1>5. Held(Readers)' = Held(Readers \ killed)
  <2>1. Held(Readers \ killed)' = Held(Readers \ killed)
    <3>1. \A q \in Readers \ killed : thread'[q] = thread[q]
      BY <1>1
    <3> QED
      BY <3>1, HeldOthers
  <2>2. Held(Readers)' = Held(Readers \ killed)'
    <3>1. {q \in Readers : Active(q)' /\ thread'[q].done # <<>>}
            = {q \in Readers \ killed : Active(q)' /\ thread'[q].done # <<>>}
      BY <1>4
    <3> QED
      BY <3>1 DEF Held
  <2> QED
    BY <2>1, <2>2
<1>6. Pending' = Pending
  BY <1>1, <1>3, <1>5 DEF Pending
<1>7. ASSUME NEW r \in Readers PROVE HandIsClean(r)'
  <2>1. thread[r].pos \in Nat /\ HandIsClean(r)
    BY PosIs
  <2>2. CASE r \in killed
    <3>1. ASSUME NEW x \in lost', x[1] = r
          PROVE  x[2] \in Nat /\ x[2] <= thread[r].pos
      <4>1. CASE x \in lost
        BY <3>1, <4>1, PosIs
      <4>2. CASE x \in Held(killed)
        <5>1. PICK q \in killed : x = <<q, thread[q].pos, Signature(thread[q].done)>>
          BY <4>2 DEF Held
        <5>2. q = r
          BY <3>1, <5>1
        <5> QED
          BY <2>1, <5>1, <5>2
      <4> QED
        BY <1>1, <4>1, <4>2
    <3> QED
      BY <1>2, <2>2, <3>1 DEF HandIsClean, Working
  <2>3. CASE r \notin killed
    <3>1. thread'[r] = thread[r] /\ \A x \in lost' : x[1] = r => x \in lost
      BY <1>1, <2>3, HeldNames
    <3> QED
      BY <1>1, <2>1, <3>1 DEF HandIsClean
  <2> QED
    BY <2>2, <2>3
<1> QED
  BY <1>6, <1>7 DEF HandsAreClean

----------------------------------------------------------------------------
(* What a step does to the buffers and to the tracebacks that were fed.    *)
FedTypes == fed \in [Workers -> [Deployments -> Seq(FedLines)]]

DetectedIn(w, d) ==
  {<<w, d, x, Signature(Contents(fed[w][d], x))>> : x \in Tracebacks(fed[w][d])}

LEMMA DetectedIs ==
  /\ \A y : y \in Detected <=>
            \E w \in Workers, d \in Deployments : y \in DetectedIn(w, d)
  /\ \A y : y \in Detected' <=>
            \E w \in Workers, d \in Deployments : y \in DetectedIn(w, d)'
<1>1. /\ Detected = UNION {DetectedIn(w, d) : w \in Workers, d \in Deployments}
      /\ Detected' = UNION {DetectedIn(w, d)' : w \in Workers, d \in Deployments}
  BY DEF Detected, DetectedIn
<1> QED
  BY <1>1

LEMMA TakeDetects ==
  ASSUME IngestionAssumption, HeldTypes, HeldTypes', FedTypes, Buffered,
         NEW r \in Readers, Take(r)
  PROVE  /\ Buffered'
         /\ thread'[r].done = <<>> => Detected' = Detected
         /\ thread'[r].done # <<>> =>
              \E y : /\ y \notin Detected /\ Detected' = Detected \union {y}
                     /\ y[4] = Signature(thread'[r].done)
<1>1. PICK w, d, l : /\ w = thread[r].by /\ d = thread[r].dep
                     /\ l = output[d][thread[r].pos + 1]
  OBVIOUS
<1>2. w \in Workers /\ d \in Deployments /\ l \in Lines
  BY <1>1, LineIs DEF Take
<1>3. PICK f, b : f = fed[w][d] /\ b = buffer[w][d]
  OBVIOUS
<1>4. f \in Seq(FedLines) /\ b \in Output /\ Captures(f, b)
  BY <1>2, <1>3 DEF FedTypes, Buffered, HeldTypes
<1>5. PICK g, c : g = Append(f, l) /\ c = Captured(b, l)
  OBVIOUS
<1>6. /\ Captures(g, c.left)
      /\ c.done = <<>> => Tracebacks(g) = Tracebacks(f)
      /\ c.done # <<>> =>
           \E x : /\ x \notin Tracebacks(f)
                  /\ Tracebacks(g) = Tracebacks(f) \union {x}
                  /\ Contents(g, x) = c.done
  BY <1>2, <1>4, <1>5, CaptureStep
<1>7. /\ fed' = [fed EXCEPT ![w][d] = Append(@, l)]
      /\ buffer' = [buffer EXCEPT ![w][d] = c.left]
      /\ thread' = [thread EXCEPT ![r].pos = @ + 1, ![r].done = c.done,
                              ![r].pc = IF c.done # <<>> THEN "store"
                                        ELSE IF @ = "idle" THEN "read" ELSE @]
  BY <1>1, <1>3, <1>5 DEF Take
<1>8. thread'[r].done = c.done
  BY <1>7 DEF HeldTypes, Threads
<1>9. \A v \in Workers, e \in Deployments :
        /\ fed'[v][e] = IF v = w /\ e = d THEN g ELSE fed[v][e]
        /\ buffer'[v][e] = IF v = w /\ e = d THEN c.left ELSE buffer[v][e]
  BY <1>2, <1>3, <1>5, <1>7 DEF FedTypes, HeldTypes
<1>10. Buffered'
  BY <1>6, <1>9 DEF Buffered
<1>11. \A v \in Workers, e \in Deployments :
         v # w \/ e # d => DetectedIn(v, e)' = DetectedIn(v, e)
  BY <1>9 DEF DetectedIn
<1>12. \A x \in Tracebacks(f) : Contents(g, x) = Contents(f, x)
  <2>1. l \in FedLines
    BY <1>2 DEF FedLines
  <2> QED
    BY <1>4, <1>5, <2>1, ContentsOn
<1>13. /\ DetectedIn(w, d) = {<<w, d, x, Signature(Contents(f, x))>> : x \in Tracebacks(f)}
       /\ DetectedIn(w, d)' = {<<w, d, x, Signature(Contents(g, x))>> : x \in Tracebacks(g)}
  BY <1>2, <1>3, <1>9 DEF DetectedIn
<1>14. CASE c.done = <<>>
  <2>1. DetectedIn(w, d)' = DetectedIn(w, d)
    BY <1>6, <1>12, <1>13, <1>14
  <2>2. Detected' = Detected
    <3>1. \A v \in Workers, e \in Deployments : DetectedIn(v, e)' = DetectedIn(v, e)
      BY <1>11, <2>1
    <3>2. \A y : y \in Detected' <=> y \in Detected
      BY <3>1, DetectedIs
    <3> QED
      BY <3>2
  <2> QED
    BY <1>8, <1>10, <1>14, <2>2
<1>15. CASE c.done # <<>>
  <2>1. PICK x : /\ x \notin Tracebacks(f) /\ Contents(g, x) = c.done
                 /\ Tracebacks(g) = Tracebacks(f) \union {x}
    BY <1>6, <1>15
  <2>2. PICK y : y = <<w, d, x, Signature(c.done)>>
    OBVIOUS
  <2>3. DetectedIn(w, d)' = DetectedIn(w, d) \union {y}
    BY <1>12, <1>13, <2>1, <2>2
  <2>4. y \notin Detected
    <3> SUFFICES ASSUME y \in Detected PROVE FALSE
      OBVIOUS
    <3>1. PICK v \in Workers, e \in Deployments : y \in DetectedIn(v, e)
      BY DetectedIs
    <3>2. v = w /\ e = d
      BY <2>2, <3>1 DEF DetectedIn
    <3> QED
      BY <1>13, <2>1, <2>2, <3>1, <3>2
  <2>5. Detected' = Detected \union {y}
    <3>2. \A z \in Detected' : z \in Detected \/ z = y
      BY <1>11, <2>3, DetectedIs
    <3>3. \A z \in Detected : z \in Detected'
      BY <1>11, <2>3, DetectedIs
    <3>4. y \in Detected'
      BY <1>2, <2>3, DetectedIs
    <3> QED
      BY <3>2, <3>3, <3>4
  <2>6. y[4] = Signature(thread'[r].done)
    BY <1>8, <2>2
  <2> QED
    BY <1>8, <1>10, <1>15, <2>4, <2>5, <2>6
<1> QED
  BY <1>14, <1>15

LEMMA RestartDetects ==
  ASSUME HeldTypes, FedTypes, Buffered, NEW w \in Workers, Restart(w)
  PROVE  Buffered' /\ Detected' = Detected
<1>1. \A v \in Workers, d \in Deployments :
        /\ fed'[v][d] = IF v = w THEN Append(fed[v][d], Reset) ELSE fed[v][d]
        /\ v = w => buffer'[v][d] = <<>>
        /\ v # w => buffer'[v][d] = buffer[v][d]
  <2>1. /\ fed' = [fed EXCEPT ![w] = [d \in Deployments |-> Append(fed[w][d], Reset)]]
        /\ buffer' = [buffer EXCEPT ![w] = [d \in Deployments |-> <<>>]]
    BY DEF Restart
  <2>2. \A v \in Workers :
          /\ fed'[v] = IF v = w THEN [d \in Deployments |-> Append(fed[w][d], Reset)]
                       ELSE fed[v]
          /\ buffer'[v] = IF v = w THEN [d \in Deployments |-> <<>>] ELSE buffer[v]
    BY <2>1 DEF FedTypes, HeldTypes
  <2> SUFFICES ASSUME NEW v \in Workers, NEW d \in Deployments
               PROVE  /\ fed'[v][d] = IF v = w THEN Append(fed[v][d], Reset) ELSE fed[v][d]
                      /\ v = w => buffer'[v][d] = <<>>
                      /\ v # w => buffer'[v][d] = buffer[v][d]
    OBVIOUS
  <2>3. CASE v = w
    BY <2>2, <2>3
  <2>4. CASE v # w
    BY <2>2, <2>4
  <2> QED
    BY <2>3, <2>4
<1>2. ASSUME NEW d \in Deployments
      PROVE  /\ Captures(Append(fed[w][d], Reset), <<>>)
             /\ Tracebacks(Append(fed[w][d], Reset)) = Tracebacks(fed[w][d])
             /\ \A x \in Tracebacks(fed[w][d]) :
                  Contents(Append(fed[w][d], Reset), x) = Contents(fed[w][d], x)
  <2>1. fed[w][d] \in Seq(FedLines) /\ Reset \in FedLines
    BY DEF FedTypes, FedLines
  <2> QED
    BY <2>1, ResetStep, ContentsOn
<1>3. Buffered'
  BY <1>1, <1>2 DEF Buffered
<1>4. \A v \in Workers, d \in Deployments : DetectedIn(v, d)' = DetectedIn(v, d)
  <2> SUFFICES ASSUME NEW v \in Workers, NEW d \in Deployments
               PROVE  DetectedIn(v, d)' = DetectedIn(v, d)
    OBVIOUS
  <2>1. CASE v = w
    BY <1>1, <1>2, <2>1 DEF DetectedIn
  <2>2. CASE v # w
    BY <1>1, <2>2 DEF DetectedIn
  <2> QED
    BY <2>1, <2>2
<1>5. \A y : y \in Detected' <=> y \in Detected
  BY <1>4, DetectedIs
<1>6. Detected' = Detected
  BY <1>5
<1> QED
  BY <1>3, <1>6

----------------------------------------------------------------------------
TallyInv == HandsAreClean /\ Buffered /\ Tallied

LEMMA Rested ==
  ASSUME HeldTypes, HeldTypes', TallyInv, NEW r \in Readers, Rests(r),
         UNCHANGED <<incidents, lost, fed, buffer>>
  PROVE  TallyInv'
<1>1. SignaturesStay
  BY DEF SignaturesStay
<1>2. HandsAreClean' /\ Pending' = Pending
  BY <1>1, RestsClean DEF TallyInv
<1>3. Buffered' /\ Detected' = Detected /\ \A s : Counted(s)' = Counted(s)
  BY DEF TallyInv, Buffered, Detected, Counted
<1> QED
  BY <1>2, <1>3, NothingCounts DEF TallyInv

LEMMA Worked ==
  ASSUME HeldTypes, TallyInv, NEW r \in Readers, Works(r),
         UNCHANGED <<incidents, lost, fed, buffer>>
  PROVE  TallyInv'
<1>1. HandsAreClean' /\ Pending' = Pending
  BY WorksClean DEF TallyInv
<1>2. Buffered' /\ Detected' = Detected /\ \A s : Counted(s)' = Counted(s)
  BY DEF TallyInv, Buffered, Detected, Counted
<1> QED
  BY <1>1, <1>2, NothingCounts DEF TallyInv

(* No thread moves, and no signature and no count changes.                 *)
LEMMA Stood ==
  ASSUME HeldTypes, TallyInv, UNCHANGED <<thread, lost, fed, buffer>>,
         SignaturesStay, \A s : Counted(s)' = Counted(s)
  PROVE  TallyInv'
<1>1. \A r \in Readers : thread[r].pc = "bump" => thread[r].hit \in DOMAIN incidents
  BY ThreadIs DEF InHand
<1>2. HandsAreClean'
  BY <1>1 DEF TallyInv, HandsAreClean, HandIsClean, SignaturesStay
<1>3. Pending' = Pending /\ Detected' = Detected /\ Buffered'
  BY DEF TallyInv, Pending, Held, Active, Detected, Buffered
<1> QED
  BY <1>2, <1>3, NothingCounts DEF TallyInv

LEMMA FollowsTallies ==
  ASSUME HeldTypes, HeldTypes', TallyInv, NEW w \in Workers, NEW r \in Readers,
         \/ \E d \in Deployments :
              Spawn(w, d, r) \/ ComposeGoesLive(w, d, r) \/ Adopt(w, d, r)
         \/ \E p \in Projects : Declare(w, p, r)
  PROVE  TallyInv'
<1>1. PICK v : /\ thread' = [thread EXCEPT ![r] = v] /\ v.done = <<>>
               /\ v.pc \in {"start", "read", "number"}
  <2>1. CASE \E d \in Deployments :
               Spawn(w, d, r) \/ ComposeGoesLive(w, d, r) \/ Adopt(w, d, r)
    <3>1. PICK d \in Deployments, s \in {"read", "start"} : thread' = [thread EXCEPT ![r] =
            [Free EXCEPT !.pc = s, !.by = w, !.dep = d, !.project = ProjectOf[d]]]
      <4>1. PICK d \in Deployments :
              Spawn(w, d, r) \/ ComposeGoesLive(w, d, r) \/ Adopt(w, d, r)
        BY <2>1
      <4>2. \/ thread' = [thread EXCEPT ![r] =
                [Free EXCEPT !.pc = "read", !.by = w, !.dep = d, !.project = ProjectOf[d]]]
            \/ thread' = [thread EXCEPT ![r] =
                [Free EXCEPT !.pc = "start", !.by = w, !.dep = d, !.project = ProjectOf[d]]]
        BY <4>1 DEF Spawn, ComposeGoesLive, Adopt, Waiting
      <4> QED
        BY <4>2
    <3>2. PICK v : v = [Free EXCEPT !.pc = s, !.by = w, !.dep = d, !.project = ProjectOf[d]]
      OBVIOUS
    <3>3. v.pc = s /\ v.done = <<>>
      BY <3>2, FreeIs DEF Threads
    <3> QED
      BY <3>1, <3>2, <3>3
  <2>2. CASE \E p \in Projects : Declare(w, p, r)
    <3>1. PICK p : thread' = [thread EXCEPT ![r] =
                     [Free EXCEPT !.pc = "number", !.by = w, !.project = p]]
      BY <2>2 DEF Declare
    <3>2. PICK v : v = [Free EXCEPT !.pc = "number", !.by = w, !.project = p]
      OBVIOUS
    <3>3. v.pc = "number" /\ v.done = <<>>
      BY <3>2, FreeIs DEF Threads
    <3> QED
      BY <3>1, <3>2, <3>3
  <2> QED
    BY <2>1, <2>2
<1>2. thread[r].pc = "free" /\ UNCHANGED <<incidents, lost, fed, buffer>>
  BY DEF Spawn, ComposeGoesLive, Adopt, Declare, history
<1>3. thread'[r] = v /\ Alone(r)
  BY <1>1 DEF HeldTypes, Alone
<1>4. Rests(r)
  BY <1>1, <1>2, <1>3 DEF Rests, Working
<1> QED
  BY <1>2, <1>4, Rested

LEMMA ReadsTallies ==
  ASSUME HeldTypes, HeldTypes', TallyInv, NEW r \in Readers,
         Start(r) \/ Misses(r) \/ Idle(r) \/ GivesUp(r) \/ Leaves(r) \/ TeeEnds(r)
  PROVE  TallyInv'
<1>1. thread[r] \in Threads /\ thread \in [Readers -> Threads] /\ thread[r].pos \in Nat
  BY DEF HeldTypes, Threads
<1>2. /\ thread[r].pc \in Following /\ UNCHANGED <<incidents, lost, fed, buffer>>
      /\ Alone(r)
  <2>1. thread[r].pc \in Following /\ UNCHANGED <<incidents, lost, fed, buffer>>
    BY DEF Start, Misses, Idle, GivesUp, Leaves, TeeEnds, Following, history
  <2>2. Alone(r)
    BY <1>1 DEF Start, Misses, Idle, GivesUp, Leaves, TeeEnds, Alone
  <2> QED
    BY <2>1, <2>2
<1>3. thread[r].done = <<>>
  BY <1>2 DEF TallyInv, HandsAreClean, HandIsClean, Following, Working
<1>4. CASE Start(r)
  <2>1. /\ thread'[r].pc = "read" /\ thread'[r].done = thread[r].done
        /\ thread[r].pc = "start"
    BY <1>1, <1>4 DEF Start, Threads
  <2> QED
    BY <1>2, <1>3, <2>1, Rested DEF Rests, Working
<1>5. CASE Misses(r)
  <2>1. /\ thread'[r].pc \in {"read", "drain"} /\ thread'[r].done = thread[r].done
        /\ thread'[r].pos = thread[r].pos + 1
    BY <1>1, <1>5 DEF Misses, Threads
  <2>2. thread'[r].pos >= thread[r].pos
    BY <1>1, <2>1
  <2>3. Rests(r)
    BY <1>2, <1>3, <2>1, <2>2 DEF Rests, Working, Following
  <2> QED
    BY <1>2, <2>3, Rested
<1>6. CASE Idle(r) \/ GivesUp(r) \/ Leaves(r) \/ TeeEnds(r)
  <2>1. /\ thread'[r].pc \in {"idle", "drain", "gone"} /\ thread'[r].done = thread[r].done
        /\ thread'[r].pos = thread[r].pos
    BY <1>1, <1>6 DEF Idle, GivesUp, Leaves, TeeEnds, Threads
  <2>2. thread'[r].pos >= thread[r].pos
    BY <1>1, <2>1
  <2>3. Rests(r)
    BY <1>2, <1>3, <2>1, <2>2 DEF Rests, Working, Following
  <2> QED
    BY <1>2, <2>3, Rested
<1> QED
  BY <1>4, <1>5, <1>6

LEMMA WorksTallies ==
  ASSUME HeldTypes, TallyInv, NEW r \in Readers, Store(r) \/ Look(r) \/ Number(r)
  PROVE  TallyInv'
<1>1. thread[r] \in Threads /\ thread \in [Readers -> Threads] /\ InHand(thread[r])
  BY ThreadIs DEF HeldTypes
<1>2. Alone(r) /\ UNCHANGED <<incidents, lost, fed, buffer>>
  <2>1. UNCHANGED <<incidents, lost, fed, buffer>>
    BY DEF Store, Look, Number, history
  <2>2. Alone(r)
    BY <1>1 DEF Store, Look, Number, Alone
  <2> QED
    BY <2>1, <2>2
<1>3. CASE Store(r) \/ Number(r)
  <2>1. /\ thread[r].pc \in Working /\ thread'[r].pc \in {"look", "create"}
        /\ thread'[r].done = thread[r].done /\ thread'[r].pos = thread[r].pos
    BY <1>1, <1>3 DEF Store, Number, Threads, Working
  <2> QED
    BY <1>2, <2>1, Worked DEF Works, Working
<1>4. CASE Look(r)
  <2>1. PICK open : open = Unresolved(Signature(thread[r].done))
    OBVIOUS
  <2>2. thread[r].pc = "look" /\ thread[r].done # <<>>
    BY <1>1, <1>4 DEF Look, InHand
  <2>3. thread' = [thread EXCEPT ![r] =
          IF open = {} THEN [thread[r] EXCEPT !.pc = "number"]
          ELSE [thread[r] EXCEPT !.pc = "bump", !.hit = Min(open)]]
    BY <1>4, <2>1 DEF Look
  <2>4. CASE open = {}
    <3>1. /\ thread'[r].pc = "number" /\ thread'[r].done = thread[r].done
          /\ thread'[r].pos = thread[r].pos
      BY <1>1, <2>3, <2>4 DEF Threads
    <3> QED
      BY <1>2, <2>2, <3>1, Worked DEF Works, Working
  <2>5. CASE open # {}
    <3>1. open \subseteq Nat
      BY <2>1 DEF Unresolved, HeldTypes
    <3>2. PICK h : h = Min(open)
      OBVIOUS
    <3>3. h \in open
      BY <2>5, <3>1, <3>2, MinIs
    <3>4. incidents[h].signature = Signature(thread[r].done)
      BY <2>1, <3>3 DEF Unresolved
    <3>5. /\ thread'[r].pc = "bump" /\ thread'[r].done = thread[r].done
          /\ thread'[r].pos = thread[r].pos /\ thread'[r].hit = h
      <4>1. thread'[r] = [thread[r] EXCEPT !.pc = "bump", !.hit = h]
        BY <1>1, <2>3, <2>5, <3>2
      <4> QED
        BY <1>1, <4>1 DEF Threads
    <3>6. Works(r)
      BY <1>2, <2>2, <3>4, <3>5 DEF Works, Working
    <3> QED
      BY <1>2, <3>6, Worked
  <2> QED
    BY <2>4, <2>5
<1> QED
  BY <1>3, <1>4

LEMMA TakeTallies ==
  ASSUME IngestionAssumption, HeldTypes, HeldTypes', FedTypes, TallyInv,
         NEW r \in Readers, Take(r)
  PROVE  TallyInv'
<1>1. thread[r] \in Threads /\ thread \in [Readers -> Threads] /\ thread[r].pos \in Nat
  BY DEF HeldTypes, Threads
<1>2. PICK c : thread' = [thread EXCEPT ![r].pos = @ + 1, ![r].done = c.done,
                              ![r].pc = IF c.done # <<>> THEN "store"
                                        ELSE IF @ = "idle" THEN "read" ELSE @]
  BY DEF Take
<1>3. /\ thread[r].pc \in {"read", "idle", "drain"} /\ UNCHANGED <<incidents, lost>>
      /\ Alone(r)
  <2>1. thread[r].pc \in {"read", "idle", "drain"} /\ UNCHANGED <<incidents, lost>>
    BY DEF Take
  <2>2. Alone(r)
    BY <1>1, <1>2 DEF Alone
  <2> QED
    BY <2>1, <2>2
<1>4. /\ thread'[r].pos = thread[r].pos + 1 /\ thread'[r].done = c.done
      /\ thread'[r].pc = IF c.done # <<>> THEN "store"
                         ELSE IF thread[r].pc = "idle" THEN "read" ELSE thread[r].pc
  BY <1>1, <1>2 DEF Threads
<1>5. /\ Buffered'
      /\ thread'[r].done = <<>> => Detected' = Detected
      /\ thread'[r].done # <<>> =>
           \E y : /\ y \notin Detected /\ Detected' = Detected \union {y}
                  /\ y[4] = Signature(thread'[r].done)
  BY TakeDetects DEF TallyInv
<1>6. \A s : Counted(s)' = Counted(s)
  BY <1>3 DEF Counted
<1>7. CASE c.done = <<>>
  <2>1. thread'[r].pos >= thread[r].pos
    BY <1>1, <1>4
  <2>2. Rests(r)
    BY <1>3, <1>4, <1>7, <2>1 DEF Rests, Working
  <2>3. HandsAreClean' /\ Pending' = Pending
    BY <1>3, <2>2, RestsClean DEF TallyInv, SignaturesStay
  <2> QED
    BY <1>4, <1>5, <1>6, <1>7, <2>3, NothingCounts DEF TallyInv
<1>8. CASE c.done # <<>>
  <2>1. Catches(r)
    BY <1>3, <1>4, <1>8 DEF Catches
  <2>2. PICK x : x = <<r, thread[r].pos + 1, Signature(thread'[r].done)>>
    OBVIOUS
  <2>3. HandsAreClean' /\ Pending' = Pending \union {x} /\ x \notin Pending
    BY <1>3, <2>1, <2>2, CatchesClean DEF TallyInv
  <2>4. PICK y : /\ y \notin Detected /\ Detected' = Detected \union {y}
                 /\ y[4] = Signature(thread'[r].done)
    BY <1>4, <1>5, <1>8
  <2>5. x[3] = y[4]
    BY <2>2, <2>4
  <2>6. Tallied'
    BY <1>6, <2>3, <2>4, <2>5, OneIsDetected DEF TallyInv
  <2> QED
    BY <1>5, <2>3, <2>6 DEF TallyInv
<1> QED
  BY <1>7, <1>8

LEMMA FinishIs ==
  ASSUME HeldTypes, NEW r \in Readers, thread[r].pc \in Working,
         thread' = [thread EXCEPT ![r] = Onwards(thread[r])]
  PROVE  Finishes(r)
<1>1. thread[r] \in Threads /\ InHand(thread[r]) /\ thread[r].pc \notin Resting
  BY ThreadIs DEF Working, Resting
<1>2. /\ Onwards(thread[r]).pc \in {"gone", "drain", "read"}
      /\ Onwards(thread[r]).done = <<>> /\ Onwards(thread[r]).pos = thread[r].pos
  <2>1. Onwards(thread[r]).pc \in {"gone", "drain", "read"}
    BY <1>1, OnwardsIs
  <2> QED
    BY <1>1, <2>1 DEF Onwards, Threads
<1>3. thread'[r] = Onwards(thread[r]) /\ Alone(r)
  BY DEF HeldTypes, Alone
<1> QED
  BY <1>2, <1>3 DEF Finishes

LEMMA DropsTallies ==
  ASSUME HeldTypes, TallyInv, NEW r \in Readers, Drops(r)
  PROVE  TallyInv'
<1>1. /\ thread[r].pc \in Working /\ lost' = lost \union Held({r})
      /\ thread' = [thread EXCEPT ![r] = Onwards(thread[r])]
      /\ UNCHANGED <<incidents, fed, buffer>>
  BY DEF Drops, Working
<1>2. Finishes(r) /\ SignaturesStay
  BY <1>1, FinishIs DEF SignaturesStay
<1>3. /\ HandsAreClean'
      /\ Pending' = IF lost' = lost THEN Pending \ Held({r}) ELSE Pending
  BY <1>1, <1>2, FinishesClean DEF TallyInv
<1>4. lost' = lost => Held({r}) = {}
  <2>1. CASE thread[r].done = <<>>
    BY <2>1, HeldOne
  <2>2. CASE thread[r].done # <<>>
    BY <1>1, <2>2, HoldsOne DEF TallyInv
  <2> QED
    BY <2>1, <2>2
<1>5. Pending' = Pending
  BY <1>3, <1>4
<1>6. Buffered' /\ Detected' = Detected /\ \A s : Counted(s)' = Counted(s)
  BY <1>1 DEF TallyInv, Buffered, Detected, Counted
<1> QED
  BY <1>3, <1>5, <1>6, NothingCounts DEF TallyInv

LEMMA RestartTallies ==
  ASSUME HeldTypes, FedTypes, TallyInv, NEW w \in Workers, Restart(w)
  PROVE  TallyInv'
<1>1. HandsAreClean' /\ Pending' = Pending /\ Buffered' /\ Detected' = Detected
  BY RestartClean, RestartDetects DEF TallyInv
<1>2. \A s : Counted(s)' = Counted(s)
  BY DEF Restart, Counted
<1> QED
  BY <1>1, <1>2, NothingCounts DEF TallyInv

----------------------------------------------------------------------------
LEMMA CountedIs ==
  \A s, y : y \in Counted(s) <=>
    \E i \in DOMAIN incidents : \E k \in 1..incidents[i].occurrences :
      incidents[i].signature = s /\ y = <<i, k>>
BY DEF Counted

LEMMA CountedThen ==
  \A s, y : y \in Counted(s)' <=>
    \E i \in DOMAIN incidents' : \E k \in 1..incidents'[i].occurrences :
      incidents'[i].signature = s /\ y = <<i, k>>
BY DEF Counted

LEMMA OccurrencesAre ==
  ASSUME HeldTypes
  PROVE  \A i \in DOMAIN incidents : i \in Nat /\ incidents[i].occurrences \in Nat
<1>1. DOMAIN incidents \subseteq Nat
  BY DEF HeldTypes
<1> QED
  BY <1>1, RowIs DEF IncidentRows

LEMMA BumpTallies ==
  ASSUME HeldTypes, TallyInv, NEW r \in Readers, Bump(r)
  PROVE  TallyInv'
<1>1. PICK h, n : h = thread[r].hit /\ n = incidents[h].occurrences + 1
  OBVIOUS
<1>2. /\ thread[r].pc = "bump" /\ thread' = [thread EXCEPT ![r] = Onwards(thread[r])]
      /\ incidents' = [incidents EXCEPT ![h].occurrences = @ + 1]
      /\ UNCHANGED <<lost, fed, buffer>>
  BY <1>1 DEF Bump, history
<1>3. /\ h \in DOMAIN incidents /\ thread[r].done # <<>>
      /\ incidents[h].signature = Signature(thread[r].done)
  BY <1>1, <1>2, ThreadIs DEF InHand, TallyInv, HandsAreClean, HandIsClean
<1>4. /\ DOMAIN incidents' = DOMAIN incidents
      /\ \A i \in DOMAIN incidents :
           /\ incidents'[i].signature = incidents[i].signature
           /\ incidents'[i].occurrences = IF i = h THEN n ELSE incidents[i].occurrences
  <2>1. incidents \in Seq(IncidentRows) /\ \A i \in DOMAIN incidents : incidents[i] \in IncidentRows
    BY RowIs DEF HeldTypes
  <2>2. DOMAIN incidents' = DOMAIN incidents
    BY <1>2, <2>1
  <2>3. incidents'[h] = [incidents[h] EXCEPT !.occurrences = n]
    BY <1>1, <1>2, <1>3, <2>1
  <2>4. \A i \in DOMAIN incidents : i # h => incidents'[i] = incidents[i]
    BY <1>2, <2>1
  <2>5. incidents'[h].signature = incidents[h].signature /\ incidents'[h].occurrences = n
    BY <1>3, <2>1, <2>3 DEF IncidentRows
  <2> QED
    BY <2>2, <2>4, <2>5
<1>5. incidents[h].occurrences \in Nat /\ n \in Nat /\ 1..n = (1..n-1) \union {n}
      /\ n - 1 = incidents[h].occurrences
  BY <1>1, <1>3, OccurrencesAre
<1>6. PICK x, z : x = <<r, thread[r].pos, Signature(thread[r].done)>> /\ z = <<h, n>>
  OBVIOUS
<1>7. Finishes(r) /\ SignaturesStay
  BY <1>2, <1>4, FinishIs DEF SignaturesStay, Working
<1>8. Held({r}) = {x} /\ x \in Pending /\ x[3] = Signature(thread[r].done)
  BY <1>2, <1>3, <1>6, HoldsOne DEF TallyInv, Working
<1>9. HandsAreClean' /\ Pending' = Pending \ {x}
  BY <1>2, <1>7, <1>8, FinishesClean DEF TallyInv
<1>10. z \notin Counted(x[3])
  <2> SUFFICES ASSUME z \in Counted(x[3]) PROVE FALSE
    OBVIOUS
  <2>1. PICK i \in DOMAIN incidents, k \in Nat :
            k \in 1..incidents[i].occurrences /\ z = <<i, k>>
    BY CountedIs
  <2>2. i = h /\ k = n
    BY <1>6, <2>1
  <2> QED
    BY <1>5, <1>1, <2>1, <2>2
<1>11. ASSUME NEW s
       PROVE  Counted(s)' = IF s = x[3] THEN Counted(s) \union {z} ELSE Counted(s)
  <2>1. ASSUME NEW y \in Counted(s)' PROVE y \in Counted(s) \/ (s = x[3] /\ y = z)
    <3>1. PICK i \in DOMAIN incidents, k \in Nat :
            k \in 1..incidents'[i].occurrences /\ incidents[i].signature = s /\ y = <<i, k>>
      BY <1>4, <2>1, CountedThen
    <3>2. CASE i = h
      <4>1. k \in 1..n /\ s = x[3]
        BY <1>3, <1>4, <1>8, <3>1, <3>2
      <4>2. k = n \/ k \in 1..incidents[h].occurrences
        BY <1>5, <4>1
      <4> QED
        BY <1>3, <1>6, <3>1, <3>2, <4>1, <4>2, CountedIs
    <3>3. CASE i # h
      <4>1. k \in 1..incidents[i].occurrences
        BY <1>4, <3>1, <3>3
      <4> QED
        BY <3>1, <4>1, CountedIs
    <3> QED
      BY <3>2, <3>3
  <2>2. ASSUME NEW y \in Counted(s) PROVE y \in Counted(s)'
    <3>1. PICK i \in DOMAIN incidents, k \in Nat :
            k \in 1..incidents[i].occurrences /\ incidents[i].signature = s /\ y = <<i, k>>
      BY <2>2, CountedIs
    <3>2. k \in 1..incidents'[i].occurrences
      <4>1. CASE i = h
        <5>1. incidents'[i].occurrences = n /\ k \in 1..n
          BY <1>1, <1>4, <1>5, <3>1, <4>1
        <5> QED
          BY <5>1
      <4>2. CASE i # h
        BY <1>4, <3>1, <4>2
      <4> QED
        BY <4>1, <4>2
    <3> QED
      BY <1>4, <3>1, <3>2, CountedThen
  <2>3. ASSUME s = x[3] PROVE z \in Counted(s)'
    <3>1. h \in DOMAIN incidents' /\ incidents'[h].signature = s
      BY <1>3, <1>4, <1>8, <2>3
    <3>2. n \in 1..incidents'[h].occurrences
      BY <1>3, <1>4, <1>5
    <3> QED
      BY <1>6, <3>1, <3>2, CountedThen
  <2> QED
    BY <2>1, <2>2, <2>3
<1>12. Buffered' /\ Detected' = Detected
  BY <1>2 DEF TallyInv, Buffered, Detected
<1>13. Tallied'
  BY <1>8, <1>9, <1>10, <1>11, <1>12, OneIsCounted DEF TallyInv
<1> QED
  BY <1>9, <1>12, <1>13 DEF TallyInv

LEMMA CreateTallies ==
  ASSUME HeldTypes, TallyInv, NEW r \in Readers, Create(r)
  PROVE  TallyInv'
<1>1. PICK n, m, z : /\ n = Len(incidents) + 1 /\ z = <<n, 1>>
                     /\ m = IF thread[r].done = <<>> THEN Declared(r)
                            ELSE Signature(thread[r].done)
  OBVIOUS
<1>2. /\ thread[r].pc = "create" /\ thread' = [thread EXCEPT ![r] = Onwards(thread[r])]
      /\ UNCHANGED <<lost, fed, buffer>>
      /\ incidents' = Append(incidents, Incident(thread[r].project, thread[r].num, m))
  BY <1>1 DEF Create, history
<1>3. /\ DOMAIN incidents' = DOMAIN incidents \union {n} /\ n \notin DOMAIN incidents
      /\ \A i \in DOMAIN incidents : incidents'[i] = incidents[i]
      /\ incidents'[n].signature = m
  BY <1>1, CreateCreates
<1>4. incidents'[n].occurrences = 1 /\ 1..1 = {1}
  <2>1. incidents \in Seq(IncidentRows)
    BY DEF HeldTypes
  <2>2. incidents'[n] = Incident(thread[r].project, thread[r].num, m)
    BY <1>1, <1>2, <2>1, AppendProperties
  <2> QED
    BY <2>2 DEF Incident
<1>5. Finishes(r) /\ SignaturesStay
  BY <1>2, <1>3, FinishIs DEF SignaturesStay, Working
<1>6. \A s : z \notin Counted(s)
  <2> SUFFICES ASSUME NEW s, z \in Counted(s) PROVE FALSE
    OBVIOUS
  <2>1. PICK i \in DOMAIN incidents, k \in Nat :
            k \in 1..incidents[i].occurrences /\ z = <<i, k>>
    BY CountedIs
  <2> QED
    BY <1>1, <1>3, <2>1
<1>7. ASSUME NEW s
      PROVE  Counted(s)' = IF s = m THEN Counted(s) \union {z} ELSE Counted(s)
  <2>1. ASSUME NEW y \in Counted(s)' PROVE y \in Counted(s) \/ (s = m /\ y = z)
    <3>1. PICK i \in DOMAIN incidents', k \in Nat :
            k \in 1..incidents'[i].occurrences /\ incidents'[i].signature = s /\ y = <<i, k>>
      BY <2>1, CountedThen
    <3>2. CASE i = n
      BY <1>1, <1>3, <1>4, <3>1, <3>2
    <3>3. CASE i # n
      <4>1. i \in DOMAIN incidents /\ incidents'[i] = incidents[i]
        BY <1>3, <3>1, <3>3
      <4> QED
        BY <3>1, <4>1, CountedIs
    <3> QED
      BY <3>2, <3>3
  <2>2. ASSUME NEW y \in Counted(s) PROVE y \in Counted(s)'
    <3>1. PICK i \in DOMAIN incidents, k \in Nat :
            k \in 1..incidents[i].occurrences /\ incidents[i].signature = s /\ y = <<i, k>>
      BY <2>2, CountedIs
    <3>2. i \in DOMAIN incidents' /\ incidents'[i] = incidents[i]
      BY <1>3, <3>1
    <3> QED
      BY <3>1, <3>2, CountedThen
  <2>3. ASSUME s = m PROVE z \in Counted(s)'
    BY <1>1, <1>3, <1>4, <2>3, CountedThen
  <2> QED
    BY <2>1, <2>2, <2>3
<1>8. Buffered' /\ Detected' = Detected
  BY <1>2 DEF TallyInv, Buffered, Detected
<1>9. HandsAreClean' /\ Pending' = Pending \ Held({r})
  BY <1>2, <1>5, FinishesClean DEF TallyInv
<1>10. CASE thread[r].done = <<>>
  <2>1. m[1] = "ManualIncident"
    BY <1>1, <1>10 DEF Declared
  <2>2. Pending' = Pending
    BY <1>9, <1>10, HeldOne
  <2>3. Tallied'
    BY <1>6, <1>7, <1>8, <2>1, <2>2, OneIsDeclared DEF TallyInv
  <2> QED
    BY <1>8, <1>9, <2>3 DEF TallyInv
<1>11. CASE thread[r].done # <<>>
  <2>1. PICK x : x = <<r, thread[r].pos, Signature(thread[r].done)>>
    OBVIOUS
  <2>2. Held({r}) = {x} /\ x \in Pending /\ x[3] = m
    BY <1>1, <1>2, <1>11, <2>1, HoldsOne DEF TallyInv, Working
  <2>3. Pending' = Pending \ {x} /\ z \notin Counted(x[3])
    BY <1>6, <1>9, <2>2
  <2>4. \A s : Counted(s)' = IF s = x[3] THEN Counted(s) \union {z} ELSE Counted(s)
    BY <1>7, <2>2
  <2>5. Tallied'
    BY <1>8, <2>2, <2>3, <2>4, OneIsCounted DEF TallyInv
  <2> QED
    BY <1>8, <1>9, <2>5 DEF TallyInv
<1> QED
  BY <1>10, <1>11

LEMMA StatusTallies ==
  ASSUME HeldTypes, TallyInv, NEW i \in DOMAIN incidents, Resolve(i) \/ OpensAgain(i)
  PROVE  TallyInv'
<1>1. PICK s : incidents' = [incidents EXCEPT ![i].status = s]
  BY DEF Resolve, OpensAgain
<1>2. UNCHANGED <<thread, lost, fed, buffer>>
  BY DEF Resolve, OpensAgain, history
<1>3. /\ DOMAIN incidents' = DOMAIN incidents
      /\ \A j \in DOMAIN incidents :
           /\ incidents'[j].signature = incidents[j].signature
           /\ incidents'[j].occurrences = incidents[j].occurrences
  <2>1. \A j \in DOMAIN incidents : incidents[j] \in IncidentRows
    BY RowIs
  <2>2. DOMAIN incidents' = DOMAIN incidents
    BY <1>1
  <2>3. incidents'[i] = [incidents[i] EXCEPT !.status = s]
    BY <1>1 DEF HeldTypes
  <2>4. \A j \in DOMAIN incidents : j # i => incidents'[j] = incidents[j]
    BY <1>1
  <2>5. /\ incidents'[i].signature = incidents[i].signature
        /\ incidents'[i].occurrences = incidents[i].occurrences
    BY <2>1, <2>3 DEF IncidentRows
  <2> QED
    BY <2>2, <2>4, <2>5
<1>4. \A m : Counted(m)' = Counted(m)
  <2>1. \A m, y : y \in Counted(m)' <=> y \in Counted(m)
    BY <1>3, CountedIs, CountedThen
  <2> QED
    BY <2>1
<1>5. SignaturesStay
  BY <1>3 DEF SignaturesStay
<1> QED
  BY <1>2, <1>4, <1>5, Stood

LEMMA InitTallies == IngestionAssumption /\ Init => TallyInv
<1> SUFFICES ASSUME Init PROVE TallyInv
  OBVIOUS
<1>1. HandsAreClean
  BY FreeIs DEF Init, HandsAreClean, HandIsClean
<1>2. Buffered
  BY DEF Init, Buffered, Captures
<1>3. Pending = {}
  BY FreeIs DEF Init, Pending, Held
<1>4. Detected = {}
  <2>1. \A w \in Workers, d \in Deployments : fed[w][d] = <<>>
    BY DEF Init
  <2>2. \A w \in Workers, d \in Deployments : DetectedIn(w, d) = {}
    BY <2>1 DEF DetectedIn, Tracebacks
  <2> QED
    BY <2>2, DetectedIs
<1>5. \A s : Counted(s) = {}
  BY DEF Init, Counted
<1>6. \A k, s : With({}, k, s) = {}
  BY DEF With
<1>7. Tallied
  BY <1>3, <1>4, <1>5, <1>6, FS_EmptySet DEF Tallied, Balanced
<1> QED
  BY <1>1, <1>2, <1>7 DEF TallyInv

LEMMA TallyStep ==
  ASSUME IngestionAssumption, HeldTypes, HeldTypes', TypeOK, TallyInv, [Next]_vars
  PROVE  TallyInv'
<1>0. FedTypes
  BY DEF TypeOK, FedTypes, Fed, FedLines
<1>1. CASE UNCHANGED <<thread, lost, fed, buffer, incidents>>
  BY <1>1, Stood DEF SignaturesStay, Counted
<1>2. CASE UNCHANGED vars
  BY <1>1, <1>2 DEF vars
<1>3. ASSUME NEW r \in Readers, ReaderStep(r) PROVE TallyInv'
  BY <1>0, <1>3, ReadsTallies, WorksTallies, TakeTallies, DropsTallies, BumpTallies,
     CreateTallies DEF ReaderStep
<1>4. ASSUME NEW d \in Deployments, ComposeUp(d) \/ GoesLive(d) \/ Exits(d) \/ Prints(d)
      PROVE  TallyInv'
  BY <1>1, <1>4 DEF ComposeUp, GoesLive, Exits, Prints, history
<1>5. ASSUME NEW w \in Workers, NEW r \in Readers,
             \/ \E d \in Deployments :
                  Spawn(w, d, r) \/ ComposeGoesLive(w, d, r) \/ Adopt(w, d, r)
             \/ \E p \in Projects : Declare(w, p, r)
      PROVE  TallyInv'
  BY <1>5, FollowsTallies
<1>6. ASSUME NEW i \in DOMAIN incidents,
             Resolve(i) \/ Reopen(i) \/ Acknowledge(i) PROVE TallyInv'
  BY <1>2, <1>6, StatusTallies DEF Reopen, Acknowledge
<1>7. ASSUME NEW w \in Workers, Restart(w) PROVE TallyInv'
  BY <1>0, <1>7, RestartTallies
<1>8. CASE Next
  BY <1>3, <1>4, <1>5, <1>6, <1>7, <1>8 DEF Next
<1> QED
  BY <1>2, <1>8

(* Every traceback that reaches a process counts once: as an occurrence of *)
(* an incident of its signature, while a thread holds it, or as one a      *)
(* failed statement or a restart dropped (ingest_line and                  *)
(* open_or_update_incident, observability/services.py).                    *)
THEOREM TracebacksCount == Spec => []EveryTracebackCounts
<1>1. TallyInv => EveryTracebackCounts
  <2> SUFFICES ASSUME TallyInv, NEW s, s[1] # "ManualIncident"
               PROVE  Cardinality(Counted(s))
                        + Cardinality({x \in Held(Readers) \union lost : x[3] = s})
                        = Cardinality({x \in Detected : x[4] = s})
    BY DEF EveryTracebackCounts
  <2> QED
    BY DEF TallyInv, Tallied, Balanced, With, Pending
<1> QED
  BY <1>1, InitTallies, TallyStep, HandsCorrect, TypeCorrect, IngestionAssumption,
     PTL DEF Spec
=============================================================================
