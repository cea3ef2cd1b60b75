---------------------------- MODULE TrackerProofs ----------------------------
(***************************************************************************)
(* Theorems about Wiki, for any number of pages, spaces, titles, editors   *)
(* and edits, and about Backlog, for any number of organisations,          *)
(* prefixes, incidents, pull requests, workers and jobs.                   *)
(***************************************************************************)
EXTENDS Wiki, Backlog, WellFoundedInduction, TLAPS

(* The minimum of a set of naturals.                                       *)
LEMMA MinIs ==
  ASSUME NEW S \in SUBSET Nat, S # {}
  PROVE  Min(S) \in S
<1>1. \E u \in S : \A y \in S : ~ (<<y, u>> \in OpToRel(<, Nat))
  BY WFMin, NatLessThanWellFounded
<1>2. PICK u \in S : \A y \in S : ~ (y < u)
  BY <1>1 DEF OpToRel
<1>3. \A y \in S : u <= y
  BY <1>2
<1> QED
  BY <1>3, Zenon DEF Min

(* The maximum of a set of naturals that some number bounds.               *)
LEMMA MaxIs ==
  ASSUME NEW S \in SUBSET Nat, S # {}, NEW b \in Nat, \A s \in S : s <= b
  PROVE  Max(S) \in S /\ \A s \in S : s <= Max(S)
<1> DEFINE Bounds == {u \in Nat : \A s \in S : s <= u}
<1>1. \E u \in Bounds : \A y \in Bounds : ~ (<<y, u>> \in OpToRel(<, Nat))
  <2>1. Bounds \subseteq Nat /\ Bounds # {}
    OBVIOUS
  <2> HIDE DEF Bounds
  <2> QED
    BY <2>1, WFMin, NatLessThanWellFounded
<1>2. PICK u \in Bounds : \A y \in Bounds : ~ (<<y, u>> \in OpToRel(<, Nat))
  BY <1>1
<1>3. \A y \in Bounds : ~ (y < u)
  BY <1>2 DEF OpToRel
<1>4. u \in S
  <2> SUFFICES ASSUME u \notin S PROVE FALSE
    OBVIOUS
  <2>1. \A s \in S : s <= u - 1
    OBVIOUS
  <2>2. u - 1 \in Nat
    <3>1. PICK s \in S : TRUE
      OBVIOUS
    <3>2. s \in Nat /\ u \in Nat /\ s <= u - 1
      BY <2>1
    <3> QED
      BY <3>2
  <2> QED
    BY <1>3, <2>1, <2>2
<1>5. \A s \in S : u >= s
  OBVIOUS
<1>6. Max(S) \in S /\ \A s \in S : Max(S) >= s
  BY <1>4, <1>5, Zenon DEF Max
<1> QED
  BY <1>6

----------------------------------------------------------------------------
(***************************************************************************)
(* The type of the state.                                                  *)
(***************************************************************************)

TicketRows ==
  [org : Orgs \union {Shared}, prefix : Prefixes, number : Nat, status : Statuses,
   incident : Incidents \union {None}, pr : PullRequests \union {None}]

WorkerStages == {"idle", "mint", "key", "edit", "look", "update", "hook", "query",
           "advance"}

Keying  == {"mint", "key"}
Looping == {"look", "update", "hook"}

Works ==
  [pc : WorkerStages, ticket : Nat, copy : TicketRows \union {None}, number : Nat,
   incident : Incidents \union {None}, pr : PullRequests \union {None},
   call : 0..3, todo : SUBSET Nat]

(* What a worker has in hand is there: the ticket of a key, a form or an   *)
(* update, the copy of a form, the call of the loop.                       *)
InHand(v) ==
  /\ v.pc \in Keying \union {"edit", "update"} => v.ticket \in DOMAIN tickets
  /\ v.pc = "edit" => v.copy \in TicketRows
  /\ v.pc \in Looping \/ (v.pc \in Keying /\ v.incident # None) => v.call # 0
  /\ v.pc = "query" => v.pr # None
  /\ v.pc = "advance" => v.todo \subseteq DOMAIN tickets

BacklogTypeOK ==
  /\ tickets \in Seq(TicketRows)
  /\ merged \subseteq PullRequests
  /\ worker \in [Workers -> Works]
  /\ \A w \in Workers : InHand(worker[w])
  /\ together \subseteq Nat /\ overtaken \subseteq Nat /\ touched \subseteq Nat
  /\ \E b \in Nat : \A t \in DOMAIN tickets : tickets[t].number <= b

LEMMA FreeIs ==
  /\ Free \in Works /\ Free.pc = "idle" /\ Free.number = 0 /\ Free.pr = None
  /\ Free.incident = None /\ Free.todo = {}
BY DEF Free, Works, WorkerStages

(* Rows are only added and updated in place.                               *)
Keeps == DOMAIN tickets \subseteq DOMAIN tickets'

(* Only w goes on.                                                         *)
Moves(w) ==
  /\ worker' \in [Workers -> Works]
  /\ \A o \in Workers \ {w} : worker'[o] = worker[o]

LEMMA DoesMoves ==
  ASSUME BacklogTypeOK, NEW w \in Workers, NEW v \in Works, Does(w, v)
  PROVE  Moves(w) /\ worker'[w] = v
BY DEF BacklogTypeOK, Does, Moves

(* One row is written, of type TicketRows.                                 *)
WritesTo(t, row) ==
  /\ tickets' \in Seq(TicketRows)
  /\ DOMAIN tickets' = DOMAIN tickets
  /\ tickets'[t] = row
  /\ \A u \in DOMAIN tickets \ {t} : tickets'[u] = tickets[u]

LEMMA WritesRow ==
  ASSUME BacklogTypeOK, NEW t \in DOMAIN tickets, NEW row \in TicketRows,
         tickets' = [tickets EXCEPT ![t] = row]
  PROVE  WritesTo(t, row)
BY DEF BacklogTypeOK, WritesTo

(* One row is added.                                                       *)
Adds(row) ==
  /\ tickets' \in Seq(TicketRows)
  /\ DOMAIN tickets' = DOMAIN tickets \union {Len(tickets) + 1}
  /\ Len(tickets) + 1 \notin DOMAIN tickets
  /\ tickets'[Len(tickets) + 1] = row
  /\ \A u \in DOMAIN tickets : tickets'[u] = tickets[u]

LEMMA AddsRow ==
  ASSUME BacklogTypeOK, NEW row \in TicketRows, tickets' = Append(tickets, row)
  PROVE  Adds(row)
BY DEF BacklogTypeOK, Adds
LEMMA TypeKept ==
  ASSUME BacklogTypeOK, NEW w \in Workers, Moves(w), InHand(worker[w])',
         tickets' \in Seq(TicketRows), Keeps, NEW k \in Nat,
         \A t \in DOMAIN tickets' :
           \/ tickets'[t].number <= k
           \/ t \in DOMAIN tickets /\ tickets'[t].number = tickets[t].number,
         merged' \subseteq PullRequests, together' \subseteq Nat,
         overtaken' \subseteq Nat, touched' \subseteq Nat
  PROVE  BacklogTypeOK'
<1>1. ASSUME NEW o \in Workers PROVE InHand(worker[o])'
  <2>1. CASE o = w
    BY <2>1
  <2>2. CASE o # w
    BY <2>2 DEF BacklogTypeOK, Moves, InHand, Keeps
  <2> QED
    BY <2>1, <2>2
<1>2. PICK b \in Nat : \A t \in DOMAIN tickets : tickets[t].number <= b
  BY DEF BacklogTypeOK
<1>3. b + k \in Nat /\ \A t \in DOMAIN tickets' : tickets'[t].number <= b + k
  <2> SUFFICES ASSUME NEW t \in DOMAIN tickets' PROVE tickets'[t].number <= b + k
    OBVIOUS
  <2>1. tickets'[t] \in TicketRows
    OBVIOUS
  <2>2. tickets'[t].number \in Nat
    BY <2>1 DEF TicketRows
  <2> QED
    BY <1>2, <2>2
<1> QED
  BY <1>1, <1>3 DEF BacklogTypeOK, Moves

(* Touch only adds tickets.                                                *)
LEMMA TouchTypes ==
  ASSUME BacklogTypeOK, NEW t \in Nat, NEW row, Touch(t, row)
  PROVE  touched' \subseteq Nat
BY DEF BacklogTypeOK, Touch

LEMMA TicketsAreNat ==
  ASSUME BacklogTypeOK
  PROVE  DOMAIN tickets \subseteq Nat /\ Len(tickets) + 1 \in Nat
BY DEF BacklogTypeOK

(* A filed ticket: the worker goes on with v, and is to mint its key.      *)
LEMMA CreateAdds ==
  ASSUME BacklogTypeOK, NEW w \in Workers, NEW row \in TicketRows,
         NEW v \in Works, Create(w, row, v)
  PROVE  /\ Adds(row) /\ Touch(Len(tickets) + 1, row) /\ Moves(w)
         /\ worker'[w] = [v EXCEPT !.pc = "mint", !.ticket = Len(tickets) + 1]
<1>1. [v EXCEPT !.pc = "mint", !.ticket = Len(tickets) + 1] \in Works
  BY TicketsAreNat DEF Works, WorkerStages
<1>2. /\ tickets' = Append(tickets, row) /\ Touch(Len(tickets) + 1, row)
      /\ Does(w, [v EXCEPT !.pc = "mint", !.ticket = Len(tickets) + 1])
  BY DEF Create
<1>3. PICK x \in Works : x = [v EXCEPT !.pc = "mint", !.ticket = Len(tickets) + 1]
  BY <1>1
<1> QED
  BY <1>2, <1>3, DoesMoves, AddsRow

(* Whoever files a ticket, its key is blank.                               *)
Files(w) ==
  /\ \E row \in TicketRows :
       row.number = 0 /\ Adds(row) /\ Touch(Len(tickets) + 1, row)
  /\ Moves(w) /\ worker[w].pc \notin Keying
  /\ worker'[w].pc = "mint" /\ worker'[w].ticket = Len(tickets) + 1
  /\ worker'[w].incident # None => worker'[w].call # 0
  /\ UNCHANGED <<merged, together, overtaken>>

LEMMA FileFiles ==
  ASSUME BacklogTypeOK, BacklogAssumption, NEW w \in Workers, File(w)
  PROVE  Files(w)
<1>1. PICK o \in Orgs \union {Shared}, x \in Prefixes, s \in Asked :
        Create(w, Ticket(o, x, s, None, None), Free)
  BY DEF File
<1>2. Ticket(o, x, s, None, None) \in TicketRows
      /\ Ticket(o, x, s, None, None).number = 0
  BY BacklogAssumption DEF Ticket, TicketRows
<1>3. PICK row \in TicketRows : row = Ticket(o, x, s, None, None)
  BY <1>2
<1>4. /\ Adds(row) /\ Touch(Len(tickets) + 1, row) /\ Moves(w)
      /\ worker'[w] = [Free EXCEPT !.pc = "mint", !.ticket = Len(tickets) + 1]
  BY <1>1, <1>3, FreeIs, CreateAdds
<1>5. worker'[w].pc = "mint" /\ worker'[w].ticket = Len(tickets) + 1
      /\ worker'[w].incident = None
  BY <1>4, FreeIs DEF Works
<1>6. worker[w].pc = "idle"
  BY DEF File, Job
<1> QED
  BY <1>2, <1>3, <1>4, <1>5, <1>6 DEF Files, File, Keying

LEMMA LoopFiles ==
  ASSUME BacklogTypeOK, BacklogAssumption, NEW w \in Workers, LoopLooks(w),
         Of(worker[w].incident) = {}
  PROVE  Files(w)
<1>1. PICK o \in Orgs \union {Shared} :
        Create(w, Ticket(o, Hull, Calls[worker[w].call], worker[w].incident,
                         worker[w].pr), worker[w])
  BY DEF LoopLooks
<1>2. worker[w] \in Works /\ worker[w].pc = "look" /\ worker[w].call # 0
  BY DEF BacklogTypeOK, LoopLooks, InHand, Looping
<1>3. Calls[worker[w].call] \in Statuses
  BY <1>2 DEF Calls, Statuses, Works
<1>4. PICK row, v : /\ row = Ticket(o, Hull, Calls[worker[w].call],
                                   worker[w].incident, worker[w].pr)
                   /\ v = worker[w]
  OBVIOUS
<1>5. row \in TicketRows /\ row.number = 0
  BY <1>2, <1>3, <1>4, BacklogAssumption DEF Ticket, TicketRows, Works
<1>0. v \in Works /\ Create(w, row, v)
  BY <1>1, <1>2, <1>4
<1>6. /\ Adds(row) /\ Touch(Len(tickets) + 1, row) /\ Moves(w)
      /\ worker'[w] = [v EXCEPT !.pc = "mint", !.ticket = Len(tickets) + 1]
  BY <1>0, <1>5, CreateAdds
<1>7. worker'[w].pc = "mint" /\ worker'[w].ticket = Len(tickets) + 1
      /\ worker'[w].call # 0
  BY <1>2, <1>4, <1>6 DEF Works
<1> QED
  BY <1>2, <1>5, <1>6, <1>7 DEF Files, LoopLooks, Keying

LEMMA FilesTypes ==
  ASSUME BacklogTypeOK, NEW w \in Workers, Files(w)
  PROVE  BacklogTypeOK'
<1>1. PICK row \in TicketRows :
        row.number = 0 /\ Adds(row) /\ Touch(Len(tickets) + 1, row)
  BY DEF Files
<1>2. touched' \subseteq Nat
  BY <1>1, TicketsAreNat, TouchTypes
<1>3. tickets' \in Seq(TicketRows) /\ Keeps
  BY <1>1 DEF Adds, Keeps
<1>4. \A t \in DOMAIN tickets' :
        \/ tickets'[t].number <= 0
        \/ t \in DOMAIN tickets /\ tickets'[t].number = tickets[t].number
  BY <1>1 DEF Adds
<1>5. InHand(worker[w])'
  BY <1>1 DEF Files, InHand, Keying, Looping, Adds
<1>6. /\ merged' \subseteq PullRequests /\ together' \subseteq Nat
      /\ overtaken' \subseteq Nat
  BY DEF BacklogTypeOK, Files
<1>7. Moves(w) /\ 0 \in Nat
  BY DEF Files
<1> QED
  BY <1>2, <1>3, <1>4, <1>5, <1>6, <1>7, TypeKept
----------------------------------------------------------------------------
(***************************************************************************)
(* The steps that neither mint, set nor copy a key.                        *)
(***************************************************************************)

(* Rows keep their key.                                                    *)
SameKeys ==
  /\ tickets' \in Seq(TicketRows)
  /\ DOMAIN tickets' = DOMAIN tickets
  /\ \A t \in DOMAIN tickets :
       /\ tickets'[t].number = tickets[t].number
       /\ tickets'[t].org = tickets[t].org
       /\ tickets'[t].prefix = tickets[t].prefix

Quiet(w) ==
  /\ SameKeys /\ Moves(w)
  /\ worker'[w] = worker[w] \/ worker'[w].pc \notin Keying \union {"edit"}
  /\ InHand(worker[w])'
  /\ merged' \subseteq PullRequests /\ touched' \subseteq Nat
  /\ UNCHANGED <<together, overtaken>>

LEMMA QuietTypes ==
  ASSUME BacklogTypeOK, NEW w \in Workers, Quiet(w)
  PROVE  BacklogTypeOK'
<1>1. /\ Keeps /\ tickets' \in Seq(TicketRows)
      /\ \A t \in DOMAIN tickets' :
           t \in DOMAIN tickets /\ tickets'[t].number = tickets[t].number
  BY DEF Quiet, SameKeys, Keeps
<1>2. together' \subseteq Nat /\ overtaken' \subseteq Nat
  BY DEF BacklogTypeOK, Quiet
<1>3. /\ Moves(w) /\ InHand(worker[w])' /\ merged' \subseteq PullRequests
      /\ touched' \subseteq Nat /\ 0 \in Nat
  BY DEF Quiet
<1> QED
  BY <1>1, <1>2, <1>3, TypeKept

(* A row is written, but for its key.                                      *)
LEMMA WriteKeepsKey ==
  ASSUME BacklogTypeOK, NEW t \in DOMAIN tickets, NEW row \in TicketRows,
         row.number = tickets[t].number, row.org = tickets[t].org,
         row.prefix = tickets[t].prefix, tickets' = [tickets EXCEPT ![t] = row]
  PROVE  SameKeys
BY WritesRow DEF WritesTo, SameKeys

LEMMA RowIs ==
  ASSUME BacklogTypeOK, NEW t \in DOMAIN tickets
  PROVE  tickets[t] \in TicketRows
BY DEF BacklogTypeOK

(* The same rows, and a worker that holds v.                               *)
LEMMA QuietWorker ==
  ASSUME BacklogTypeOK, NEW w \in Workers, NEW v \in Works, Does(w, v),
         SameKeys, v.pc \notin Keying \union {"edit"}, InHand(v)',
         merged' \subseteq PullRequests, touched' \subseteq Nat,
         UNCHANGED <<together, overtaken>>
  PROVE  Quiet(w)
<1>1. Moves(w) /\ worker'[w] = v
  BY DoesMoves
<1>2. InHand(worker[w])'
  BY <1>1 DEF InHand
<1> QED
  BY <1>1, <1>2 DEF Quiet

LEMMA SameRows ==
  ASSUME BacklogTypeOK, UNCHANGED tickets
  PROVE  SameKeys
BY DEF BacklogTypeOK, SameKeys

(* A worker that waits holds nothing.                                      *)
LEMMA QuietFree ==
  ASSUME BacklogTypeOK, NEW w \in Workers, Does(w, Free), SameKeys,
         merged' \subseteq PullRequests, touched' \subseteq Nat,
         UNCHANGED <<together, overtaken>>
  PROVE  Quiet(w)
<1>1. InHand(Free)'
  BY FreeIs DEF InHand, Keying, Looping
<1> QED
  BY <1>1, FreeIs, QuietWorker DEF Keying

(* A form sets the status and leaves all workers alone.                    *)
LEMMA StatusQuiet ==
  ASSUME BacklogTypeOK, BacklogAssumption, NEW w \in Workers,
         NEW t \in DOMAIN tickets, SetStatus(w, t) \/ Work(w, t)
  PROVE  Quiet(w)
<1>1. PICK s \in Statuses : Write(t, [tickets[t] EXCEPT !.status = s])
  BY BacklogAssumption DEF SetStatus, Work, Statuses
<1>2. PICK row : row = [tickets[t] EXCEPT !.status = s]
  OBVIOUS
<1>3. row \in TicketRows /\ row.number = tickets[t].number
      /\ row.org = tickets[t].org /\ row.prefix = tickets[t].prefix
  BY <1>2, RowIs DEF TicketRows
<1>4. tickets' = [tickets EXCEPT ![t] = row] /\ Touch(t, row)
  BY <1>1, <1>2 DEF Write
<1>5. SameKeys
  BY <1>3, <1>4, WriteKeepsKey
<1>6. touched' \subseteq Nat
  BY <1>4, TicketsAreNat, TouchTypes
<1>7. UNCHANGED <<merged, worker, together, overtaken>>
  BY DEF SetStatus, Work
<1>8. Moves(w) /\ InHand(worker[w])' /\ merged' \subseteq PullRequests
  BY <1>5, <1>7 DEF BacklogTypeOK, Moves, InHand, SameKeys
<1> QED
  BY <1>5, <1>6, <1>7, <1>8 DEF Quiet

LEMMA LoopStartsQuiet ==
  ASSUME BacklogTypeOK, NEW w \in Workers, NEW i \in Incidents, LoopStarts(w, i)
  PROVE  Quiet(w)
<1>1. PICK v : v = [Free EXCEPT !.pc = "look", !.incident = i, !.call = 1]
  OBVIOUS
<1>2. v \in Works /\ v.pc = "look" /\ v.call # 0
  <2>1. 1 \in 0..3 /\ "look" \in WorkerStages /\ i \in Incidents \union {None}
    BY DEF WorkerStages
  <2>2. v \in Works
    BY <1>1, <2>1, FreeIs DEF Works
  <2>3. v.pc = "look" /\ v.call = 1
    BY <1>1, <2>1, FreeIs DEF Works
  <2> QED
    BY <2>2, <2>3
<1>3. Does(w, v) /\ UNCHANGED <<tickets, merged, together, overtaken, touched>>
  BY <1>1 DEF LoopStarts, backlogHistory
<1>4. InHand(v)' /\ merged' \subseteq PullRequests /\ touched' \subseteq Nat
  BY <1>2, <1>3 DEF InHand, Keying, Looping, BacklogTypeOK
<1> QED
  BY <1>2, <1>3, <1>4, SameRows, QuietWorker DEF Keying
LEMMA LoopLooksQuiet ==
  ASSUME BacklogTypeOK, NEW w \in Workers, LoopLooks(w),
         Of(worker[w].incident) # {}
  PROVE  Quiet(w)
<1>1. PICK m : m = Min(Of(worker[w].incident))
  OBVIOUS
<1>2. m \in DOMAIN tickets
  BY <1>1, TicketsAreNat, MinIs DEF Of
<1>3. PICK v : v = [worker[w] EXCEPT !.pc = "update", !.ticket = m,
                                     !.copy = tickets[m]]
  OBVIOUS
<1>4. worker[w] \in Works /\ worker[w].call # 0
  BY DEF BacklogTypeOK, LoopLooks, InHand, Looping
<1>5. v \in Works /\ v.pc = "update" /\ v.call # 0 /\ v.ticket = m
  BY <1>2, <1>3, <1>4, RowIs, TicketsAreNat DEF Works, WorkerStages
<1>6. Does(w, v) /\ UNCHANGED <<tickets, merged, together, overtaken, touched>>
  BY <1>1, <1>3 DEF LoopLooks
<1>7. InHand(v)' /\ merged' \subseteq PullRequests /\ touched' \subseteq Nat
  BY <1>2, <1>5, <1>6 DEF InHand, Keying, Looping, BacklogTypeOK
<1> QED
  BY <1>5, <1>6, <1>7, SameRows, QuietWorker DEF Keying

(* A worker of the loop that goes on to its hook with the same call.       *)
LEMMA HookQuiet ==
  ASSUME BacklogTypeOK, NEW w \in Workers, worker[w].call # 0, SameKeys,
         Does(w, [worker[w] EXCEPT !.pc = "hook"]), touched' \subseteq Nat,
         UNCHANGED <<merged, together, overtaken>>
  PROVE  Quiet(w)
<1>1. PICK v : v = [worker[w] EXCEPT !.pc = "hook"]
  OBVIOUS
<1>2. v \in Works /\ v.pc = "hook" /\ v.call # 0
  BY <1>1 DEF BacklogTypeOK, Works, WorkerStages
<1>3. InHand(v)' /\ merged' \subseteq PullRequests
  BY <1>2 DEF InHand, Keying, Looping, BacklogTypeOK
<1> QED
  BY <1>1, <1>2, <1>3, QuietWorker DEF Keying

LEMMA LoopUpdatesQuiet ==
  ASSUME BacklogTypeOK, NEW w \in Workers, LoopUpdates(w)
  PROVE  Quiet(w)
<1> DEFINE t == worker[w].ticket
<1>1. /\ worker[w] \in Works /\ worker[w].call # 0 /\ t \in DOMAIN tickets
      /\ worker[w].pc = "update"
  BY DEF BacklogTypeOK, LoopUpdates, InHand, Looping
<1>2. Calls[worker[w].call] \in Statuses
  BY <1>1 DEF Calls, Statuses, Works
<1>3. tickets[t] \in TicketRows
  BY <1>1, RowIs
<1>4. SameKeys /\ touched' \subseteq Nat
  <2>1. CASE UNCHANGED <<tickets, touched>>
    BY <2>1, SameRows DEF BacklogTypeOK
  <2>2. CASE ~ UNCHANGED <<tickets, touched>>
    <3>1. PICK p, s :
            /\ p = IF worker[w].pr # None /\ worker[w].copy.pr # worker[w].pr
                   THEN worker[w].pr ELSE tickets[t].pr
            /\ s = IF worker[w].copy.status # Calls[worker[w].call]
                   THEN Calls[worker[w].call] ELSE tickets[t].status
      OBVIOUS
    <3>0. p \in PullRequests \union {None} /\ s \in Statuses
      BY <1>1, <1>2, <1>3, <3>1 DEF TicketRows, Works
    <3>2. PICK row : row = [tickets[t] EXCEPT !.pr = p, !.status = s]
      OBVIOUS
    <3>3. row \in TicketRows /\ row.number = tickets[t].number
          /\ row.org = tickets[t].org /\ row.prefix = tickets[t].prefix
      BY <1>3, <3>0, <3>2 DEF TicketRows
    <3>4. tickets' = [tickets EXCEPT ![t] = row] /\ Touch(t, row)
      BY <2>2, <3>1, <3>2 DEF LoopUpdates, Write
    <3> QED
      BY <1>1, <3>3, <3>4, WriteKeepsKey, TicketsAreNat, TouchTypes
  <2> QED
    BY <2>1, <2>2
<1>5. /\ Does(w, [worker[w] EXCEPT !.pc = "hook"])
      /\ UNCHANGED <<merged, together, overtaken>>
  BY DEF LoopUpdates
<1> QED
  BY <1>1, <1>4, <1>5, HookQuiet

LEMMA LoopGoesOnQuiet ==
  ASSUME BacklogTypeOK, NEW w \in Workers, LoopGoesOn(w)
  PROVE  Quiet(w)
<1>1. /\ worker[w] \in Works /\ worker[w].call \in {1, 2, 3}
      /\ UNCHANGED <<tickets, merged, together, overtaken, touched>>
  <2>1. worker[w] \in Works /\ worker[w].pc = "hook" /\ InHand(worker[w])
    BY DEF BacklogTypeOK, LoopGoesOn
  <2>2. worker[w].call \in 0..3 /\ worker[w].call # 0
    BY <2>1 DEF InHand, Looping, Works
  <2>3. worker[w].call \in {1, 2, 3}
    BY <2>2
  <2>4. UNCHANGED <<tickets, merged, together, overtaken, touched>>
    BY DEF LoopGoesOn, backlogHistory
  <2> QED
    BY <2>1, <2>3, <2>4
<1>2. SameKeys /\ merged' \subseteq PullRequests /\ touched' \subseteq Nat
  BY <1>1, SameRows DEF BacklogTypeOK
<1>3. \/ \E p \in PullRequests :
           Does(w, [worker[w] EXCEPT !.pc = "look", !.pr = p, !.call = 2])
      \/ Does(w, [worker[w] EXCEPT !.pc = "look", !.call = 3])
      \/ Does(w, Free)
  BY <1>1 DEF LoopGoesOn
<1>4. ASSUME NEW v \in Works, v.pc = "look", v.call # 0, Does(w, v) PROVE Quiet(w)
  <2>1. InHand(v)'
    BY <1>4 DEF InHand, Keying, Looping
  <2> QED
    BY <1>1, <1>2, <1>4, <2>1, QuietWorker DEF Keying
<1>5. CASE Does(w, Free)
  BY <1>1, <1>2, <1>5, QuietFree
<1>6. CASE Does(w, [worker[w] EXCEPT !.pc = "look", !.call = 3])
  <2>1. PICK v : v = [worker[w] EXCEPT !.pc = "look", !.call = 3]
    OBVIOUS
  <2>2. v \in Works /\ v.pc = "look" /\ v.call # 0
    <3>1. 3 \in 0..3 /\ "look" \in WorkerStages
      BY DEF WorkerStages
    <3>2. v \in Works
      BY <1>1, <2>1, <3>1 DEF Works
    <3>3. v.pc = "look" /\ v.call = 3
      BY <1>1, <2>1, <3>1 DEF Works
    <3> QED
      BY <3>2, <3>3
  <2> QED
    BY <1>4, <1>6, <2>1, <2>2
<1>7. CASE \E p \in PullRequests :
             Does(w, [worker[w] EXCEPT !.pc = "look", !.pr = p, !.call = 2])
  <2>1. PICK p \in PullRequests :
          Does(w, [worker[w] EXCEPT !.pc = "look", !.pr = p, !.call = 2])
    BY <1>7
  <2>2. PICK v : v = [worker[w] EXCEPT !.pc = "look", !.pr = p, !.call = 2]
    OBVIOUS
  <2>3. v \in Works /\ v.pc = "look" /\ v.call # 0
    <3>1. 2 \in 0..3 /\ "look" \in WorkerStages /\ p \in PullRequests \union {None}
      BY DEF WorkerStages
    <3>2. v \in Works
      BY <1>1, <2>2, <3>1 DEF Works
    <3>3. v.pc = "look" /\ v.call = 2
      BY <1>1, <2>2, <3>1 DEF Works
    <3> QED
      BY <3>2, <3>3
  <2> QED
    BY <1>4, <2>1, <2>2, <2>3
<1> QED
  BY <1>3, <1>5, <1>6, <1>7
LEMMA MergeSavedQuiet ==
  ASSUME BacklogTypeOK, BacklogAssumption, NEW w \in Workers,
         NEW p \in PullRequests, MergeSaved(w, p)
  PROVE  Quiet(w)
<1>1. PICK v : v = [Free EXCEPT !.pc = "query", !.pr = p]
  OBVIOUS
<1>2. p # None
  BY BacklogAssumption
<1>3. v \in Works /\ v.pc = "query" /\ v.pr = p
  <2>1. "query" \in WorkerStages /\ p \in PullRequests \union {None}
    BY DEF WorkerStages
  <2>2. v \in Works
    BY <1>1, <2>1, FreeIs DEF Works
  <2> QED
    BY <1>1, <2>1, <2>2, FreeIs DEF Works
<1>4. /\ Does(w, v) /\ merged' = merged \union {p}
      /\ UNCHANGED <<tickets, together, overtaken, touched>>
  BY <1>1 DEF MergeSaved, backlogHistory
<1>5. InHand(v)' /\ merged' \subseteq PullRequests /\ touched' \subseteq Nat
  BY <1>2, <1>3, <1>4 DEF InHand, Keying, Looping, BacklogTypeOK
<1> QED
  BY <1>3, <1>4, <1>5, SameRows, QuietWorker DEF Keying

(* The merge handler goes on with the tickets it has yet to advance.       *)
LEMMA AdvancingQuiet ==
  ASSUME BacklogTypeOK, NEW w \in Workers, NEW rest \in SUBSET DOMAIN tickets,
         Does(w, [worker[w] EXCEPT !.pc = "advance", !.todo = rest]), SameKeys,
         UNCHANGED <<merged, together, overtaken, touched>>
  PROVE  Quiet(w)
<1>1. PICK v : v = [worker[w] EXCEPT !.pc = "advance", !.todo = rest]
  OBVIOUS
<1>2. v \in Works /\ v.pc = "advance" /\ v.todo = rest
  BY <1>1, TicketsAreNat DEF BacklogTypeOK, Works, WorkerStages
<1>3. InHand(v)' /\ merged' \subseteq PullRequests /\ touched' \subseteq Nat
  BY <1>2 DEF SameKeys, InHand, Keying, Looping, BacklogTypeOK
<1> QED
  BY <1>1, <1>2, <1>3, QuietWorker DEF Keying

LEMMA QueryQuiet ==
  ASSUME BacklogTypeOK, NEW w \in Workers, Query(w)
  PROVE  Quiet(w)
<1>1. UNCHANGED <<tickets, merged, together, overtaken, touched>>
  BY DEF Query, backlogHistory
<1>2. /\ SameKeys /\ merged' \subseteq PullRequests /\ touched' \subseteq Nat
  BY <1>1, SameRows DEF BacklogTypeOK
<1>3. \/ Does(w, Free)
      \/ \E rest \in SUBSET DOMAIN tickets :
           Does(w, [worker[w] EXCEPT !.pc = "advance", !.todo = rest])
  BY DEF Query, Linked
<1> QED
  BY <1>1, <1>2, <1>3, QuietFree, AdvancingQuiet

LEMMA AdvanceQuiet ==
  ASSUME BacklogTypeOK, NEW w \in Workers, Advance(w)
  PROVE  Quiet(w)
<1>0. worker[w].todo \subseteq DOMAIN tickets
  BY DEF BacklogTypeOK, InHand, Advance
<1>1. PICK t \in worker[w].todo :
        /\ tickets' = [tickets EXCEPT ![t].status = "done"]
        /\ Does(w, IF worker[w].todo = {t} THEN Free
                   ELSE [worker[w] EXCEPT !.todo = @ \ {t}])
  BY DEF Advance
<1>2. UNCHANGED <<merged, together, overtaken, touched>>
  BY DEF Advance, backlogHistory
<1>3. PICK row : row = [tickets[t] EXCEPT !.status = "done"]
  OBVIOUS
<1>4. row \in TicketRows /\ row.number = tickets[t].number
      /\ row.org = tickets[t].org /\ row.prefix = tickets[t].prefix
  BY <1>0, <1>3, RowIs DEF TicketRows, Statuses
<1>5. tickets' = [tickets EXCEPT ![t] = row]
  BY <1>1, <1>3
<1>6. SameKeys /\ merged' \subseteq PullRequests /\ touched' \subseteq Nat
  BY <1>0, <1>2, <1>4, <1>5, WriteKeepsKey DEF BacklogTypeOK
<1>7. CASE worker[w].todo = {t}
  BY <1>1, <1>2, <1>6, <1>7, QuietFree
<1>8. CASE worker[w].todo # {t}
  <2>1. Does(w, [worker[w] EXCEPT !.todo = worker[w].todo \ {t}])
    BY <1>1, <1>8 DEF BacklogTypeOK, Works
  <2>2. [worker[w] EXCEPT !.todo = worker[w].todo \ {t}]
          = [worker[w] EXCEPT !.pc = "advance", !.todo = worker[w].todo \ {t}]
    BY DEF BacklogTypeOK, Works, Advance
  <2> QED
    BY <1>0, <1>2, <1>6, <2>1, <2>2, AdvancingQuiet
<1> QED
  BY <1>7, <1>8

LEMMA BreaksOffQuiet ==
  ASSUME BacklogTypeOK, NEW w \in Workers, BreaksOffWork(w)
  PROVE  Quiet(w)
<1>1. /\ UNCHANGED <<tickets, merged, together, overtaken>>
      /\ Does(w, Free) /\ touched' \subseteq touched \union Linked(worker[w].pr)
  BY DEF BreaksOffWork
<1>2. SameKeys /\ merged' \subseteq PullRequests /\ touched' \subseteq Nat
  BY <1>1, SameRows, TicketsAreNat DEF BacklogTypeOK, Linked
<1> QED
  BY <1>1, <1>2, QuietFree
----------------------------------------------------------------------------
(***************************************************************************)
(* The steps that mint, set and copy a key.                                *)
(***************************************************************************)

LEMMA OpenFormOpens ==
  ASSUME BacklogTypeOK, NEW w \in Workers, NEW t \in DOMAIN tickets,
         OpenForm(w, t)
  PROVE  /\ Moves(w) /\ worker'[w].pc = "edit" /\ worker'[w].ticket = t
         /\ worker'[w].copy = tickets[t] /\ tickets[t] \in TicketRows
         /\ UNCHANGED <<tickets, together, overtaken>> /\ BacklogTypeOK'
<1>1. PICK v : v = [Free EXCEPT !.pc = "edit", !.ticket = t, !.copy = tickets[t]]
  OBVIOUS
<1>2. /\ v \in Works /\ v.pc = "edit" /\ v.ticket = t /\ v.copy = tickets[t]
      /\ tickets[t] \in TicketRows
  BY <1>1, FreeIs, RowIs, TicketsAreNat DEF Works, WorkerStages
<1>3. Does(w, v) /\ UNCHANGED <<tickets, merged, together, overtaken, touched>>
  BY <1>1 DEF OpenForm, backlogHistory
<1>4. Moves(w) /\ worker'[w] = v
  BY <1>2, <1>3, DoesMoves
<1>5. InHand(worker[w])'
  BY <1>2, <1>3, <1>4 DEF InHand, Keying, Looping
<1>6. /\ tickets' \in Seq(TicketRows) /\ Keeps /\ merged' \subseteq PullRequests
      /\ together' \subseteq Nat /\ overtaken' \subseteq Nat /\ touched' \subseteq Nat
  BY <1>3 DEF BacklogTypeOK, Keeps
<1>7. /\ 0 \in Nat
      /\ \A u \in DOMAIN tickets' :
           u \in DOMAIN tickets /\ tickets'[u].number = tickets[u].number
  BY <1>3
<1>8. BacklogTypeOK'
  BY <1>4, <1>5, <1>6, <1>7, TypeKept
<1> QED
  BY <1>2, <1>3, <1>4, <1>8

LEMMA SaveFormSaves ==
  ASSUME BacklogTypeOK, NEW w \in Workers, SaveForm(w)
  PROVE  /\ worker[w].pc = "edit" /\ Moves(w) /\ worker'[w] = Free
         /\ worker[w].ticket \in DOMAIN tickets /\ worker[w].copy \in TicketRows
         /\ WritesTo(worker[w].ticket, worker[w].copy)
         /\ overtaken' = IF worker[w].copy.number = 0
                         THEN overtaken \union {worker[w].ticket} ELSE overtaken
         /\ UNCHANGED together /\ BacklogTypeOK'
<1> DEFINE t == worker[w].ticket
<1>1. /\ worker[w].pc = "edit" /\ t \in DOMAIN tickets
      /\ worker[w].copy \in TicketRows
  BY DEF BacklogTypeOK, SaveForm, InHand
<1>2. /\ tickets' = [tickets EXCEPT ![t] = worker[w].copy]
      /\ Touch(t, worker[w].copy) /\ Does(w, Free)
      /\ overtaken' = IF worker[w].copy.number = 0 THEN overtaken \union {t}
                                                   ELSE overtaken
      /\ UNCHANGED <<merged, together>>
  BY DEF SaveForm, Write
<1>3. WritesTo(t, worker[w].copy)
  BY <1>1, <1>2, WritesRow
<1>4. Moves(w) /\ worker'[w] = Free
  BY <1>2, FreeIs, DoesMoves
<1>5. InHand(worker[w])'
  BY <1>4, FreeIs DEF InHand, Keying, Looping
<1>6. touched' \subseteq Nat
  BY <1>1, <1>2, TicketsAreNat, TouchTypes
<1>7. /\ tickets' \in Seq(TicketRows) /\ Keeps /\ merged' \subseteq PullRequests
      /\ together' \subseteq Nat /\ overtaken' \subseteq Nat
  BY <1>1, <1>2, <1>3, TicketsAreNat DEF BacklogTypeOK, WritesTo, Keeps
<1>8. PICK k \in Nat : k = worker[w].copy.number
  BY <1>1 DEF TicketRows
<1>9. \A u \in DOMAIN tickets' :
        \/ tickets'[u].number <= k
        \/ u \in DOMAIN tickets /\ tickets'[u].number = tickets[u].number
  BY <1>3, <1>8 DEF WritesTo
<1> HIDE DEF t
<1>10. BacklogTypeOK'
  BY <1>4, <1>5, <1>6, <1>7, <1>9, TypeKept
<1> QED
  BY <1>1, <1>2, <1>3, <1>4, <1>10 DEF t

(* A worker at "mint" or "key" has a ticket that is there.                 *)
LEMMA KeyingIs ==
  ASSUME BacklogTypeOK, NEW w \in Workers, worker[w].pc \in Keying
  PROVE  /\ worker[w] \in Works /\ worker[w].ticket \in DOMAIN tickets
         /\ tickets[worker[w].ticket] \in TicketRows
         /\ worker[w].incident # None => worker[w].call # 0
BY RowIs DEF BacklogTypeOK, InHand

(* The rows whose numbers next_ticket_key looks at.                        *)
Looked(org, prefix) ==
  {u \in DOMAIN tickets : tickets[u].prefix = prefix
                          /\ (org = Shared \/ tickets[u].org = org)}

(* A new key is higher than every key of its prefix and organisation.      *)
LEMMA NextKeyIs ==
  ASSUME BacklogTypeOK, NEW org, NEW prefix
  PROVE  /\ NextKey(org, prefix) \in Nat \ {0}
         /\ \A u \in DOMAIN tickets :
              tickets[u].org = org /\ tickets[u].prefix = prefix
              => tickets[u].number < NextKey(org, prefix)
<1> DEFINE S == {0} \union {tickets[u].number : u \in Looked(org, prefix)}
<1>1. S \in SUBSET Nat /\ S # {}
  BY RowIs DEF TicketRows, Looked
<1>2. PICK b \in Nat : \A u \in DOMAIN tickets : tickets[u].number <= b
  BY DEF BacklogTypeOK
<1>3. \A s \in S : s <= b
  BY <1>2 DEF Looked
<1>4. NextKey(org, prefix) = 1 + Max(S)
  BY DEF NextKey, Looked
<1>5. \A u \in DOMAIN tickets :
        tickets[u].org = org /\ tickets[u].prefix = prefix => tickets[u].number \in S
  BY DEF Looked
<1> HIDE DEF S
<1>6. Max(S) \in Nat /\ \A s \in S : s \in Nat /\ s <= Max(S)
  BY <1>1, <1>3, MaxIs
<1>7. NextKey(org, prefix) \in Nat \ {0} /\ \A s \in S : s < NextKey(org, prefix)
  BY <1>4, <1>6
<1> QED
  BY <1>5, <1>7

LEMMA MintMints ==
  ASSUME BacklogTypeOK, NEW w \in Workers, Mint(w)
  PROVE  /\ worker[w].pc = "mint" /\ Moves(w)
         /\ worker'[w].pc = "key" /\ worker'[w].ticket = worker[w].ticket
         /\ worker'[w].number
              = NextKey(tickets[worker[w].ticket].org, tickets[worker[w].ticket].prefix)
         /\ worker'[w].number \in Nat \ {0}
         /\ UNCHANGED <<tickets, overtaken>> /\ BacklogTypeOK'
<1>1. worker[w].pc = "mint" /\ UNCHANGED <<tickets, merged, overtaken, touched>>
  BY DEF Mint
<1>2. /\ worker[w] \in Works /\ worker[w].ticket \in DOMAIN tickets
      /\ worker[w].incident # None => worker[w].call # 0
  BY <1>1, KeyingIs DEF Keying
<1>3. PICK n : n = NextKey(tickets[worker[w].ticket].org,
                           tickets[worker[w].ticket].prefix)
  OBVIOUS
<1>4. n \in Nat \ {0}
  BY <1>3, NextKeyIs
<1>5. PICK v : v = [worker[w] EXCEPT !.pc = "key", !.number = n]
  OBVIOUS
<1>6. Does(w, v)
  BY <1>3, <1>5 DEF Mint
<1>7. /\ v \in Works /\ v.pc = "key" /\ v.number = n /\ v.ticket = worker[w].ticket
      /\ v.incident = worker[w].incident /\ v.call = worker[w].call
  BY <1>2, <1>4, <1>5 DEF Works, WorkerStages
<1>8. Moves(w) /\ worker'[w] = v
  BY <1>6, <1>7, DoesMoves
<1>9. InHand(worker[w])'
  BY <1>1, <1>2, <1>7, <1>8 DEF InHand, Keying, Looping
<1>10. together' \subseteq Nat
  <2>1. \A o \in Workers : worker[o].ticket \in Nat
    BY DEF BacklogTypeOK, Works
  <2> QED
    BY <2>1 DEF Mint, BacklogTypeOK
<1>11. /\ tickets' \in Seq(TicketRows) /\ Keeps /\ merged' \subseteq PullRequests
       /\ overtaken' \subseteq Nat /\ touched' \subseteq Nat
  BY <1>1 DEF BacklogTypeOK, Keeps
<1>12. /\ 0 \in Nat
       /\ \A u \in DOMAIN tickets' :
            u \in DOMAIN tickets /\ tickets'[u].number = tickets[u].number
  BY <1>1
<1>13. BacklogTypeOK'
  BY <1>8, <1>9, <1>10, <1>11, <1>12, TypeKept
<1> QED
  BY <1>1, <1>3, <1>4, <1>7, <1>8, <1>13
LEMMA KeyKeys ==
  ASSUME BacklogTypeOK, NEW w \in Workers, Key(w)
  PROVE  /\ worker[w].pc = "key" /\ Moves(w)
         /\ worker'[w].pc \notin Keying \union {"edit"}
         /\ worker[w].ticket \in DOMAIN tickets
         /\ DOMAIN tickets' = DOMAIN tickets
         /\ \A u \in DOMAIN tickets :
              /\ tickets'[u].org = tickets[u].org
              /\ tickets'[u].prefix = tickets[u].prefix
              /\ tickets'[u].number = IF u = worker[w].ticket THEN worker[w].number
                                                             ELSE tickets[u].number
         /\ UNCHANGED <<together, overtaken>> /\ BacklogTypeOK'
<1> DEFINE t == worker[w].ticket
<1>1. /\ worker[w].pc = "key"
      /\ UNCHANGED <<merged, together, overtaken, touched>>
  BY DEF Key, backlogHistory
<1>2. /\ worker[w] \in Works /\ t \in DOMAIN tickets /\ tickets[t] \in TicketRows
      /\ worker[w].incident # None => worker[w].call # 0
  BY <1>1, KeyingIs DEF Keying
<1>3. PICK k \in Nat : k = worker[w].number
  BY <1>2 DEF Works
<1>4. PICK row : row = [tickets[t] EXCEPT !.number = k]
  OBVIOUS
<1>5. /\ row \in TicketRows /\ row.number = k /\ row.org = tickets[t].org
      /\ row.prefix = tickets[t].prefix
  BY <1>2, <1>4 DEF TicketRows
<1>6. tickets' = [tickets EXCEPT ![t] = row]
  BY <1>3, <1>4 DEF Key
<1>7. WritesTo(t, row)
  BY <1>2, <1>5, <1>6, WritesRow
<1>8. /\ DOMAIN tickets' = DOMAIN tickets
      /\ \A u \in DOMAIN tickets :
           /\ tickets'[u].org = tickets[u].org
           /\ tickets'[u].prefix = tickets[u].prefix
           /\ tickets'[u].number = IF u = t THEN k ELSE tickets[u].number
  BY <1>5, <1>7 DEF WritesTo
<1>9. PICK v : v = IF worker[w].incident = None THEN Free
                   ELSE [worker[w] EXCEPT !.pc = "hook"]
  OBVIOUS
<1>10. v \in Works /\ (v.pc = "idle" \/ (v.pc = "hook" /\ v.call # 0))
  <2>1. CASE worker[w].incident = None
    <3>1. v = Free
      BY <1>9, <2>1
    <3> QED
      BY <3>1, FreeIs
  <2>2. CASE worker[w].incident # None
    <3>1. v = [worker[w] EXCEPT !.pc = "hook"]
      BY <1>9, <2>2
    <3>2. v \in Works /\ v.pc = "hook" /\ v.call = worker[w].call
      BY <1>2, <3>1 DEF Works, WorkerStages
    <3> QED
      BY <1>2, <2>2, <3>2
  <2> QED
    BY <2>1, <2>2
<1>11. Moves(w) /\ worker'[w] = v
  BY <1>9, <1>10, DoesMoves DEF Key
<1>12. InHand(worker[w])'
  BY <1>10, <1>11 DEF InHand, Keying, Looping
<1>13. /\ tickets' \in Seq(TicketRows) /\ Keeps /\ merged' \subseteq PullRequests
       /\ together' \subseteq Nat /\ overtaken' \subseteq Nat /\ touched' \subseteq Nat
  BY <1>1, <1>7 DEF BacklogTypeOK, WritesTo, Keeps
<1>14. \A u \in DOMAIN tickets' :
         \/ tickets'[u].number <= k
         \/ u \in DOMAIN tickets /\ tickets'[u].number = tickets[u].number
  BY <1>8
<1> HIDE DEF t
<1>15. BacklogTypeOK'
  BY <1>11, <1>12, <1>13, <1>14, TypeKept
<1> QED
  BY <1>1, <1>2, <1>3, <1>8, <1>10, <1>11, <1>15 DEF t, Keying

LEMMA InitTypes == BacklogInit => BacklogTypeOK
<1> SUFFICES ASSUME BacklogInit PROVE BacklogTypeOK
  OBVIOUS
<1>1. worker \in [Workers -> Works]
  BY FreeIs DEF BacklogInit
<1>2. ASSUME NEW w \in Workers PROVE InHand(worker[w])
  BY FreeIs DEF BacklogInit, InHand, Keying, Looping
<1>3. 0 \in Nat /\ \A t \in DOMAIN tickets : tickets[t].number <= 0
  BY DEF BacklogInit
<1> QED
  BY <1>1, <1>2, <1>3 DEF BacklogInit, BacklogTypeOK

(* Every step is one of these six.                                         *)
LEMMA StepsAre ==
  ASSUME BacklogTypeOK, BacklogAssumption, BacklogNext
  PROVE  \E w \in Workers :
           \/ Files(w) \/ Mint(w) \/ Key(w) \/ SaveForm(w) \/ Quiet(w)
           \/ \E t \in DOMAIN tickets : OpenForm(w, t)
<1>1. PICK w \in Workers :
        \/ File(w) \/ Mint(w) \/ Key(w) \/ SaveForm(w)
        \/ \E t \in DOMAIN tickets : SetStatus(w, t) \/ Work(w, t) \/ OpenForm(w, t)
        \/ \E i \in Incidents : LoopStarts(w, i)
        \/ LoopLooks(w) \/ LoopUpdates(w) \/ LoopGoesOn(w)
        \/ \E p \in PullRequests : MergeSaved(w, p)
        \/ Query(w) \/ Advance(w) \/ BreaksOffWork(w)
  BY DEF BacklogNext
<1>2. CASE LoopLooks(w)
  BY <1>2, LoopFiles, LoopLooksQuiet
<1>3. CASE File(w)
  BY <1>3, FileFiles
<1>4. CASE \E t \in DOMAIN tickets : SetStatus(w, t) \/ Work(w, t)
  BY <1>4, StatusQuiet
<1>5. CASE \/ \E i \in Incidents : LoopStarts(w, i)
           \/ LoopUpdates(w) \/ LoopGoesOn(w)
  BY <1>5, LoopStartsQuiet, LoopUpdatesQuiet, LoopGoesOnQuiet
<1>6. CASE \/ \E p \in PullRequests : MergeSaved(w, p)
           \/ Query(w) \/ Advance(w) \/ BreaksOffWork(w)
  BY <1>6, MergeSavedQuiet, QueryQuiet, AdvanceQuiet, BreaksOffQuiet
<1> QED
  BY <1>1, <1>2, <1>3, <1>4, <1>5, <1>6

LEMMA NextTypes ==
  ASSUME BacklogTypeOK, BacklogAssumption, [BacklogNext]_backlogVars
  PROVE  BacklogTypeOK'
<1>1. CASE BacklogNext
  BY <1>1, StepsAre, FilesTypes, MintMints, KeyKeys, SaveFormSaves, QuietTypes,
     OpenFormOpens
<1>2. CASE UNCHANGED backlogVars
  BY <1>2 DEF backlogVars, BacklogTypeOK, InHand
<1> QED
  BY <1>1, <1>2

(* The state has its type, and a worker has in hand what its next step     *)
(* uses: the row of a key exists, the call of the loop has a status.       *)
THEOREM BacklogTypes == BacklogSpec => []BacklogTypeOK
<1>1. BacklogTypeOK /\ [BacklogNext]_backlogVars => BacklogTypeOK'
  BY NextTypes, BacklogAssumption
<1> QED
  BY <1>1, InitTypes, PTL DEF BacklogSpec
----------------------------------------------------------------------------
(***************************************************************************)
(* Keys                                                                    *)
(***************************************************************************)

KeysAlike(a, b) ==
  <<tickets[a].org, tickets[a].prefix>> = <<tickets[b].org, tickets[b].prefix>>

Excused(a, b) ==
  {a, b} \subseteq together \/ {a, b} \intersect overtaken # {}

(* A ticket being keyed has no key yet, and one worker keys it.            *)
BlankWhileKeyed ==
  \A w \in Workers : worker[w].pc \in Keying => tickets[worker[w].ticket].number = 0

OneKeysIt ==
  \A w, o \in Workers :
    w # o /\ worker[w].pc \in Keying /\ worker[o].pc \in Keying
    => worker[w].ticket # worker[o].ticket

(* A form holds the key its ticket has; or none, if it was opened before   *)
(* the key was there; or anything, once such a form was saved.             *)
FormsHoldNoKey ==
  \A w, o \in Workers :
    /\ worker[w].pc \in Keying /\ worker[o].pc = "edit"
    /\ worker[o].ticket = worker[w].ticket
    => worker[o].copy.number = 0

FormsHoldTheKey ==
  \A w \in Workers : worker[w].pc = "edit" =>
    LET t == worker[w].ticket  c == worker[w].copy IN
      /\ c.org = tickets[t].org /\ c.prefix = tickets[t].prefix
      /\ c.number \in {0, tickets[t].number} \/ t \in overtaken

(* A number that was minted is of no ticket of its group, and of no other  *)
(* one that is being minted, but for those that are minted together.       *)
MintedTogether ==
  \A w, o \in Workers :
    /\ w # o /\ worker[w].pc = "key" /\ worker[o].pc = "key"
    /\ KeysAlike(worker[w].ticket, worker[o].ticket)
    => {worker[w].ticket, worker[o].ticket} \subseteq together

MintedIsNew ==
  \A w \in Workers : worker[w].pc = "key" =>
    /\ worker[w].number # 0
    /\ \A u \in DOMAIN tickets \ {worker[w].ticket} :
         KeysAlike(worker[w].ticket, u) /\ tickets[u].number = worker[w].number
         => Excused(worker[w].ticket, u)

KeyInv ==
  /\ BlankWhileKeyed /\ OneKeysIt /\ FormsHoldNoKey /\ FormsHoldTheKey
  /\ MintedTogether /\ MintedIsNew /\ KeysAreUnique

LEMMA TicketsInHand ==
  ASSUME BacklogTypeOK
  PROVE  \A w \in Workers : worker[w].pc \in Keying \union {"edit"} =>
           worker[w].ticket \in DOMAIN tickets
BY DEF BacklogTypeOK, InHand

(* A step that keeps all keys.                                             *)
LEMMA QuietKeys ==
  ASSUME BacklogTypeOK, KeyInv, NEW w \in Workers, Quiet(w)
  PROVE  KeyInv'
<1>1. \A o \in Workers : worker'[o].pc \in Keying \union {"edit"} =>
        worker'[o] = worker[o] /\ worker[o].ticket \in DOMAIN tickets
  BY TicketsInHand DEF Quiet, Moves
<1>2. /\ DOMAIN tickets' = DOMAIN tickets
      /\ \A t \in DOMAIN tickets :
           /\ tickets'[t].number = tickets[t].number
           /\ tickets'[t].org = tickets[t].org
           /\ tickets'[t].prefix = tickets[t].prefix
      /\ UNCHANGED <<together, overtaken>>
  BY DEF Quiet, SameKeys
<1>3. BlankWhileKeyed' /\ OneKeysIt' /\ FormsHoldNoKey'
  BY <1>1, <1>2 DEF KeyInv, BlankWhileKeyed, OneKeysIt, FormsHoldNoKey
<1>4. FormsHoldTheKey'
  BY <1>1, <1>2 DEF KeyInv, FormsHoldTheKey
<1>5. MintedTogether'
  BY <1>1, <1>2 DEF KeyInv, MintedTogether, KeysAlike, Keying
<1>6. MintedIsNew'
  BY <1>1, <1>2 DEF KeyInv, MintedIsNew, KeysAlike, Excused, Keying
<1>7. KeysAreUnique'
  BY <1>2 DEF KeyInv, KeysAreUnique
<1> QED
  BY <1>3, <1>4, <1>5, <1>6, <1>7 DEF KeyInv

LEMMA FilesKeys ==
  ASSUME BacklogTypeOK, KeyInv, NEW w \in Workers, Files(w)
  PROVE  KeyInv'
<1> DEFINE n == Len(tickets) + 1
<1>1. /\ DOMAIN tickets' = DOMAIN tickets \union {n} /\ n \notin DOMAIN tickets
      /\ tickets'[n].number = 0
      /\ \A u \in DOMAIN tickets : tickets'[u] = tickets[u]
      /\ UNCHANGED <<together, overtaken>>
  BY DEF Files, Adds
<1>2. /\ worker'[w].pc = "mint" /\ worker'[w].ticket = n
      /\ \A o \in Workers \ {w} : worker'[o] = worker[o]
  BY DEF Files, Moves
<1>3. \A o \in Workers : worker[o].pc \in Keying \union {"edit"} =>
        worker[o].ticket \in DOMAIN tickets
  BY TicketsInHand
<1> HIDE DEF n
<1>4. BlankWhileKeyed' /\ OneKeysIt' /\ FormsHoldNoKey'
  BY <1>1, <1>2, <1>3 DEF KeyInv, BlankWhileKeyed, OneKeysIt, FormsHoldNoKey, Keying
<1>5. FormsHoldTheKey'
  BY <1>1, <1>2, <1>3 DEF KeyInv, FormsHoldTheKey, Keying
<1>6. MintedTogether'
  BY <1>1, <1>2, <1>3 DEF KeyInv, MintedTogether, KeysAlike, Keying
<1>7. MintedIsNew'
  BY <1>1, <1>2, <1>3 DEF KeyInv, MintedIsNew, KeysAlike, Excused, Keying
<1>8. KeysAreUnique'
  BY <1>1 DEF KeyInv, KeysAreUnique
<1> QED
  BY <1>4, <1>5, <1>6, <1>7, <1>8 DEF KeyInv

LEMMA OpenFormKeys ==
  ASSUME BacklogTypeOK, KeyInv, NEW w \in Workers, NEW t \in DOMAIN tickets,
         OpenForm(w, t)
  PROVE  KeyInv'
<1>1. /\ worker'[w].pc = "edit" /\ worker'[w].ticket = t
      /\ worker'[w].copy = tickets[t]
      /\ \A o \in Workers \ {w} : worker'[o] = worker[o]
      /\ UNCHANGED <<tickets, together, overtaken>>
  BY OpenFormOpens DEF Moves
<1>2. BlankWhileKeyed' /\ OneKeysIt' /\ FormsHoldNoKey'
  BY <1>1 DEF KeyInv, BlankWhileKeyed, OneKeysIt, FormsHoldNoKey, Keying
<1>3. FormsHoldTheKey'
  BY <1>1 DEF KeyInv, FormsHoldTheKey
<1>4. MintedTogether' /\ MintedIsNew' /\ KeysAreUnique'
  BY <1>1 DEF KeyInv, MintedTogether, MintedIsNew, KeysAreUnique, KeysAlike, Excused
<1> QED
  BY <1>2, <1>3, <1>4 DEF KeyInv
LEMMA MintKeys ==
  ASSUME BacklogTypeOK, KeyInv, NEW w \in Workers, Mint(w)
  PROVE  KeyInv'
<1> DEFINE t == worker[w].ticket
<1>1. /\ worker[w].pc = "mint" /\ worker'[w].pc = "key" /\ worker'[w].ticket = t
      /\ worker'[w].number \in Nat \ {0}
      /\ \A o \in Workers \ {w} : worker'[o] = worker[o]
      /\ UNCHANGED <<tickets, overtaken>>
  BY MintMints DEF Moves
<1>2. t \in DOMAIN tickets
  BY <1>1, TicketsInHand DEF Keying
<1>3. together \subseteq together'
      /\ \A o \in Workers \ {w} :
           worker[o].pc = "key" /\ KeysAlike(t, worker[o].ticket)
           => {t, worker[o].ticket} \subseteq together'
  <2>1. PICK S : S = {o \in Workers \ {w} : /\ worker[o].pc = "key"
                                           /\ Minting(o) = Minting(w)}
    OBVIOUS
  <2>2. together' = IF S = {} THEN together
                    ELSE together \union {worker[o].ticket : o \in S \union {w}}
    BY <2>1 DEF Mint
  <2>3. \A o \in Workers \ {w} :
          worker[o].pc = "key" /\ KeysAlike(t, worker[o].ticket) => o \in S
    BY <2>1 DEF Minting, KeysAlike
  <2> QED
    BY <2>2, <2>3
<1>4. \A u \in DOMAIN tickets :
        KeysAlike(t, u) => tickets[u].number # worker'[w].number
  <2> SUFFICES ASSUME NEW u \in DOMAIN tickets, KeysAlike(t, u)
               PROVE  tickets[u].number # worker'[w].number
    OBVIOUS
  <2>1. PICK org, prefix : org = tickets[t].org /\ prefix = tickets[t].prefix
    OBVIOUS
  <2>2. tickets[u].org = org /\ tickets[u].prefix = prefix
    BY <2>1 DEF KeysAlike
  <2>3. worker'[w].number = NextKey(org, prefix)
    BY <2>1, MintMints
  <2>4. tickets[u].number < NextKey(org, prefix) /\ tickets[u].number \in Nat
    BY <2>2, NextKeyIs, RowIs DEF TicketRows
  <2>5. NextKey(org, prefix) \in Nat
    BY NextKeyIs
  <2> QED
    BY <2>3, <2>4, <2>5
<1> HIDE DEF t
<1>5. BlankWhileKeyed' /\ OneKeysIt' /\ FormsHoldNoKey'
  BY <1>1 DEF KeyInv, BlankWhileKeyed, OneKeysIt, FormsHoldNoKey, Keying, t
<1>6. FormsHoldTheKey'
  BY <1>1 DEF KeyInv, FormsHoldTheKey
<1>7. MintedTogether'
  BY <1>1, <1>3 DEF KeyInv, MintedTogether, KeysAlike
<1>8. MintedIsNew'
  <2>0. UNCHANGED tickets
    BY <1>1
  <2> SUFFICES ASSUME NEW o \in Workers, worker'[o].pc = "key", NEW x,
                      x = worker'[o].ticket
               PROVE  /\ worker'[o].number # 0
                      /\ \A u \in DOMAIN tickets \ {x} :
                           KeysAlike(x, u) /\ tickets[u].number = worker'[o].number
                           => Excused(x, u)'
    BY <2>0, Zenon DEF MintedIsNew, KeysAlike, Excused
  <2>1. CASE o = w
    BY <1>1, <1>4, <2>1
  <2>2. CASE o # w
    <3>1. worker'[o] = worker[o]
      BY <1>1, <2>2
    <3>2. ASSUME NEW u, Excused(x, u) PROVE Excused(x, u)'
      BY <1>1, <1>3, <3>2 DEF Excused
    <3> QED
      BY <3>1, <3>2 DEF KeyInv, MintedIsNew
  <2> QED
    BY <2>1, <2>2
<1>9. KeysAreUnique'
  BY <1>1, <1>3 DEF KeyInv, KeysAreUnique
<1> QED
  BY <1>5, <1>6, <1>7, <1>8, <1>9 DEF KeyInv

LEMMA KeyKeysKeys ==
  ASSUME BacklogTypeOK, KeyInv, NEW w \in Workers, Key(w)
  PROVE  KeyInv'
<1> DEFINE t == worker[w].ticket
<1>1. /\ worker[w].pc = "key" /\ worker'[w].pc \notin Keying \union {"edit"}
      /\ \A o \in Workers \ {w} : worker'[o] = worker[o]
      /\ UNCHANGED <<together, overtaken>>
  BY KeyKeys DEF Moves
<1>2. /\ t \in DOMAIN tickets /\ DOMAIN tickets' = DOMAIN tickets
      /\ \A u \in DOMAIN tickets :
           /\ tickets'[u].org = tickets[u].org
           /\ tickets'[u].prefix = tickets[u].prefix
           /\ tickets'[u].number = IF u = t THEN worker[w].number
                                           ELSE tickets[u].number
  BY KeyKeys
<1>3. \A o \in Workers : worker'[o].pc \in Keying \union {"edit"} =>
        o # w /\ worker'[o] = worker[o] /\ worker[o].ticket \in DOMAIN tickets
  BY <1>1, TicketsInHand
<1>4. \A o \in Workers \ {w} : worker[o].pc \in Keying => worker[o].ticket # t
  BY <1>1 DEF KeyInv, OneKeysIt, Keying
<1>5. \A o \in Workers \ {w} :
        worker[o].pc = "edit" /\ worker[o].ticket = t => worker[o].copy.number = 0
  BY <1>1 DEF KeyInv, FormsHoldNoKey, Keying
<1>6. \A u \in DOMAIN tickets \ {t} :
        KeysAlike(t, u) /\ tickets[u].number = worker[w].number => Excused(t, u)
  BY <1>1 DEF KeyInv, MintedIsNew
<1>7. \A a, b \in DOMAIN tickets : KeysAlike(a, b)' <=> KeysAlike(a, b)
  BY <1>2 DEF KeysAlike
<1> HIDE DEF t
<1>8. BlankWhileKeyed' /\ OneKeysIt' /\ FormsHoldNoKey'
  BY <1>2, <1>3, <1>4 DEF KeyInv, BlankWhileKeyed, OneKeysIt, FormsHoldNoKey
<1>9. FormsHoldTheKey'
  BY <1>1, <1>2, <1>3, <1>5 DEF KeyInv, FormsHoldTheKey
<1>10. MintedTogether'
  BY <1>1, <1>3, <1>7 DEF KeyInv, MintedTogether, Keying
<1>11. MintedIsNew'
  <2> SUFFICES ASSUME NEW o \in Workers, worker'[o].pc = "key", NEW x,
                      x = worker'[o].ticket
               PROVE  /\ worker'[o].number # 0
                      /\ \A u \in DOMAIN tickets \ {x} :
                           KeysAlike(x, u)' /\ tickets'[u].number = worker'[o].number
                           => Excused(x, u)
    BY <1>1, <1>2 DEF MintedIsNew, Excused, KeysAlike
  <2>1. /\ o # w /\ worker'[o] = worker[o] /\ worker[o].pc = "key"
        /\ x \in DOMAIN tickets /\ x = worker[o].ticket
    BY <1>3 DEF Keying
  <2>2. worker[o].number # 0
    BY <2>1 DEF KeyInv, MintedIsNew
  <2>3. ASSUME NEW u \in DOMAIN tickets \ {x}, KeysAlike(x, u),
               tickets'[u].number = worker[o].number
        PROVE  Excused(x, u)
    <3>1. CASE u = t
      BY <1>1, <2>1, <2>3, <3>1 DEF KeyInv, MintedTogether, Excused, t
    <3>2. CASE u # t
      BY <1>2, <2>1, <2>3, <3>2 DEF KeyInv, MintedIsNew
    <3> QED
      BY <3>1, <3>2
  <2> QED
    BY <1>2, <1>7, <2>1, <2>2, <2>3
<1>12. KeysAreUnique'
  <2> SUFFICES ASSUME NEW a \in DOMAIN tickets, NEW b \in DOMAIN tickets, a # b,
                      KeysAlike(a, b), tickets'[a].number = tickets'[b].number,
                      tickets'[a].number # 0
               PROVE  Excused(a, b)
    BY <1>1, <1>2, <1>7 DEF KeysAreUnique, Excused, KeysAlike
  <2>1. CASE a = t
    BY <1>2, <1>6, <2>1
  <2>2. CASE b = t
    <3>1. KeysAlike(t, a) /\ tickets[a].number = worker[w].number
      BY <1>2, <2>2 DEF KeysAlike
    <3>2. Excused(t, a)
      BY <1>6, <2>2, <3>1
    <3> QED
      BY <2>2, <3>2 DEF Excused
  <2>3. CASE a # t /\ b # t
    BY <1>2, <2>3 DEF KeyInv, KeysAreUnique, KeysAlike, Excused
  <2> QED
    BY <2>1, <2>2, <2>3
<1> QED
  BY <1>8, <1>9, <1>10, <1>11, <1>12 DEF KeyInv
LEMMA SaveFormKeys ==
  ASSUME BacklogTypeOK, KeyInv, NEW w \in Workers, SaveForm(w)
  PROVE  KeyInv'
<1>0. PICK t, c : t = worker[w].ticket /\ c = worker[w].copy
  OBVIOUS
<1>1. /\ worker[w].pc = "edit" /\ worker'[w].pc = "idle"
      /\ \A o \in Workers \ {w} : worker'[o] = worker[o]
      /\ overtaken' = IF c.number = 0 THEN overtaken \union {t} ELSE overtaken
      /\ UNCHANGED together
  BY <1>0, SaveFormSaves, FreeIs DEF Moves
<1>2. /\ t \in DOMAIN tickets /\ DOMAIN tickets' = DOMAIN tickets /\ tickets'[t] = c
      /\ \A u \in DOMAIN tickets \ {t} : tickets'[u] = tickets[u]
  BY <1>0, SaveFormSaves DEF WritesTo
<1>3. \A o \in Workers : worker'[o].pc \in Keying \union {"edit"} =>
        o # w /\ worker'[o] = worker[o] /\ worker[o].ticket \in DOMAIN tickets
  BY <1>1, TicketsInHand DEF Keying
<1>4. /\ c.org = tickets[t].org /\ c.prefix = tickets[t].prefix
      /\ c.number = tickets[t].number \/ t \in overtaken'
  BY <1>0, <1>1 DEF KeyInv, FormsHoldTheKey
<1>5. overtaken \subseteq overtaken'
  BY <1>1
<1>6. \A a, b \in DOMAIN tickets : KeysAlike(a, b)' <=> KeysAlike(a, b)
  BY <1>2, <1>4 DEF KeysAlike
<1>7. \A a, b : Excused(a, b) => Excused(a, b)'
  BY <1>1, <1>5 DEF Excused
<1>8. BlankWhileKeyed'
  <2> SUFFICES ASSUME NEW o \in Workers, worker'[o].pc \in Keying
               PROVE  tickets'[worker'[o].ticket].number = 0
    BY DEF BlankWhileKeyed
  <2>1. worker'[o] = worker[o] /\ worker[o].pc \in Keying
        /\ worker[o].ticket \in DOMAIN tickets
    BY <1>3
  <2>2. CASE worker[o].ticket = t
    BY <1>0, <1>1, <1>2, <2>1, <2>2 DEF KeyInv, FormsHoldNoKey
  <2>3. CASE worker[o].ticket # t
    BY <1>2, <2>1, <2>3 DEF KeyInv, BlankWhileKeyed
  <2> QED
    BY <2>2, <2>3
<1>9. OneKeysIt' /\ FormsHoldNoKey'
  BY <1>3 DEF KeyInv, OneKeysIt, FormsHoldNoKey
<1>10. FormsHoldTheKey'
  <2> SUFFICES ASSUME NEW o \in Workers, worker[o].pc = "edit",
                      worker[o].ticket \in DOMAIN tickets
               PROVE  LET u == worker[o].ticket  d == worker[o].copy IN
                      /\ d.org = tickets'[u].org /\ d.prefix = tickets'[u].prefix
                      /\ d.number \in {0, tickets'[u].number} \/ u \in overtaken'
    BY <1>3 DEF FormsHoldTheKey
  <2>1. CASE worker[o].ticket = t
    BY <1>2, <1>4, <1>5, <2>1 DEF KeyInv, FormsHoldTheKey
  <2>2. CASE worker[o].ticket # t
    BY <1>2, <1>5, <2>2 DEF KeyInv, FormsHoldTheKey
  <2> QED
    BY <2>1, <2>2
<1>11. MintedTogether'
  BY <1>1, <1>3, <1>6 DEF KeyInv, MintedTogether, Keying
<1>12. MintedIsNew'
  <2> SUFFICES ASSUME NEW o \in Workers, worker'[o].pc = "key", NEW x,
                      x = worker'[o].ticket
               PROVE  /\ worker'[o].number # 0
                      /\ \A u \in DOMAIN tickets \ {x} :
                           KeysAlike(x, u)' /\ tickets'[u].number = worker'[o].number
                           => Excused(x, u)'
    BY <1>1, <1>2 DEF MintedIsNew, Excused, KeysAlike
  <2>1. /\ worker'[o] = worker[o] /\ worker[o].pc = "key"
        /\ x \in DOMAIN tickets /\ x = worker[o].ticket
    BY <1>3 DEF Keying
  <2>2. worker[o].number # 0
    BY <2>1 DEF KeyInv, MintedIsNew
  <2>3. ASSUME NEW u \in DOMAIN tickets \ {x}, KeysAlike(x, u),
               tickets'[u].number = worker[o].number
        PROVE  Excused(x, u)'
    <3>1. CASE tickets[u].number = tickets'[u].number
      BY <1>7, <2>1, <2>3, <3>1 DEF KeyInv, MintedIsNew
    <3>2. CASE tickets[u].number # tickets'[u].number
      BY <1>2, <1>4, <3>2 DEF Excused
    <3> QED
      BY <3>1, <3>2
  <2> QED
    BY <1>6, <2>1, <2>2, <2>3
<1>13. KeysAreUnique'
  <2> SUFFICES ASSUME NEW a \in DOMAIN tickets, NEW b \in DOMAIN tickets, a # b,
                      KeysAlike(a, b), tickets'[a].number = tickets'[b].number,
                      tickets'[a].number # 0
               PROVE  Excused(a, b)'
    BY <1>2, <1>6 DEF KeysAreUnique, Excused, KeysAlike
  <2>1. CASE t \in {a, b} /\ t \in overtaken'
    BY <2>1 DEF Excused
  <2>2. CASE t \notin {a, b} \/ t \notin overtaken'
    <3>1. tickets'[a].number = tickets[a].number
          /\ tickets'[b].number = tickets[b].number
      BY <1>2, <1>4, <2>2
    <3> QED
      BY <1>7, <3>1 DEF KeyInv, KeysAreUnique, KeysAlike, Excused
  <2> QED
    BY <2>1, <2>2
<1> QED
  BY <1>8, <1>9, <1>10, <1>11, <1>12, <1>13 DEF KeyInv

(* The key of a ticket names no other one of its organisation, but for     *)
(* tickets whose keys were minted at the same time and tickets whose key   *)
(* an older copy of their form took away (next_ticket_key and the two      *)
(* saves of file_ticket, services.py:68-88 and 129-130; ticket_edit).      *)
THEOREM KeysNameTickets == BacklogSpec => []KeysAreUnique
<1>1. BacklogInit => KeyInv
  BY FreeIs DEF BacklogInit, KeyInv, BlankWhileKeyed, OneKeysIt, FormsHoldNoKey,
     FormsHoldTheKey, MintedTogether, MintedIsNew, KeysAreUnique, Keying
<1>2. BacklogTypeOK /\ KeyInv /\ [BacklogNext]_backlogVars => KeyInv'
  <2> SUFFICES ASSUME BacklogTypeOK, KeyInv, [BacklogNext]_backlogVars PROVE KeyInv'
    OBVIOUS
  <2>1. CASE BacklogNext
    BY <2>1, StepsAre, BacklogAssumption, FilesKeys, MintKeys, KeyKeysKeys,
       SaveFormKeys, QuietKeys, OpenFormKeys
  <2>2. CASE UNCHANGED backlogVars
    BY <2>2 DEF backlogVars, KeyInv, BlankWhileKeyed, OneKeysIt, FormsHoldNoKey,
       FormsHoldTheKey, MintedTogether, MintedIsNew, KeysAreUnique, KeysAlike, Excused
  <2> QED
    BY <2>1, <2>2
<1>3. KeyInv => KeysAreUnique
  BY DEF KeyInv
<1> QED
  BY <1>1, <1>2, <1>3, BacklogTypes, PTL DEF BacklogSpec
----------------------------------------------------------------------------
(***************************************************************************)
(* Merged tickets                                                          *)
(***************************************************************************)

(* w runs the handler of the merge and has yet to come to t.               *)
Handles(w, t) ==
  /\ worker[w].pr = tickets[t].pr
  /\ worker[w].pc = "query" \/ (worker[w].pc = "advance" /\ t \in worker[w].todo)

MergeInv ==
  \A t \in DOMAIN tickets \ touched :
    tickets[t].pr \in merged =>
      tickets[t].status = "done" \/ \E w \in Workers : Handles(w, t)

(* A worker that runs no handler goes on, and says so when it writes the   *)
(* status or the link of a row.                                            *)
LEMMA OthersMerge ==
  ASSUME MergeInv, NEW w \in Workers, Moves(w),
         worker[w].pc \notin {"query", "advance"}, UNCHANGED merged,
         touched \subseteq touched',
         \A u \in DOMAIN tickets' :
           \/ /\ u \in DOMAIN tickets /\ tickets'[u].pr = tickets[u].pr
              /\ tickets'[u].status = tickets[u].status
           \/ tickets'[u].pr \in merged => u \in touched'
  PROVE  MergeInv'
<1> SUFFICES ASSUME NEW t \in DOMAIN tickets', t \notin touched',
                    tickets'[t].pr \in merged, tickets'[t].status # "done"
             PROVE  \E o \in Workers : Handles(o, t)'
  BY DEF MergeInv
<1>1. /\ t \in DOMAIN tickets /\ tickets'[t].pr = tickets[t].pr
      /\ tickets'[t].status = tickets[t].status
  OBVIOUS
<1>2. PICK o \in Workers : Handles(o, t)
  BY <1>1 DEF MergeInv
<1>3. o # w
  BY <1>2 DEF Handles
<1>4. Handles(o, t)'
  BY <1>1, <1>2, <1>3 DEF Handles, Moves
<1> QED
  BY <1>4

(* A row of t is written.                                                  *)
LEMMA WriteMerge ==
  ASSUME BacklogTypeOK, MergeInv, NEW w \in Workers, Moves(w),
         worker[w].pc \notin {"query", "advance"}, UNCHANGED merged,
         NEW t \in DOMAIN tickets, NEW row, Write(t, row)
  PROVE  MergeInv'
<1>1. /\ DOMAIN tickets' = DOMAIN tickets /\ tickets'[t] = row
      /\ \A u \in DOMAIN tickets \ {t} : tickets'[u] = tickets[u]
  BY DEF BacklogTypeOK, Write
<1>2. touched \subseteq touched' /\ (row.pr \in merged => t \in touched')
  BY DEF Write, Touch
<1> QED
  BY <1>1, <1>2, OthersMerge

LEMMA FilesMerge ==
  ASSUME MergeInv, NEW w \in Workers, Files(w),
         worker[w].pc \notin {"query", "advance"}
  PROVE  MergeInv'
<1> DEFINE n == Len(tickets) + 1
<1>1. PICK row \in TicketRows : Adds(row) /\ Touch(n, row)
  BY DEF Files
<1>2. /\ DOMAIN tickets' = DOMAIN tickets \union {n} /\ tickets'[n] = row
      /\ \A u \in DOMAIN tickets : tickets'[u] = tickets[u]
  BY <1>1 DEF Adds
<1>3. touched \subseteq touched' /\ (row.pr \in merged => n \in touched')
  BY <1>1 DEF Touch
<1>4. Moves(w) /\ UNCHANGED merged
  BY DEF Files
<1> HIDE DEF n
<1> QED
  BY <1>2, <1>3, <1>4, OthersMerge

(* The rows stay, or only numbers change.                                  *)
LEMMA StayMerge ==
  ASSUME MergeInv, NEW w \in Workers, Moves(w),
         worker[w].pc \notin {"query", "advance"}, UNCHANGED <<merged, touched>>,
         DOMAIN tickets' = DOMAIN tickets,
         \A u \in DOMAIN tickets :
           tickets'[u].pr = tickets[u].pr /\ tickets'[u].status = tickets[u].status
  PROVE  MergeInv'
BY OthersMerge

LEMMA KeyMerge ==
  ASSUME BacklogTypeOK, MergeInv, NEW w \in Workers, Key(w)
  PROVE  MergeInv'
<1>1. worker[w].pc = "key" /\ Moves(w)
  BY KeyKeys
<1>2. worker[w].ticket \in DOMAIN tickets
  BY KeyKeys
<1>3. ASSUME NEW u \in DOMAIN tickets
      PROVE  tickets'[u].pr = tickets[u].pr /\ tickets'[u].status = tickets[u].status
  <2>1. tickets[u] \in TicketRows
    BY RowIs
  <2>2. tickets'[u] = IF u = worker[w].ticket
                      THEN [tickets[u] EXCEPT !.number = worker[w].number]
                      ELSE tickets[u]
    BY <1>2 DEF Key, BacklogTypeOK
  <2> QED
    BY <2>1, <2>2 DEF TicketRows
<1>4. DOMAIN tickets' = DOMAIN tickets /\ UNCHANGED <<merged, touched>>
  BY KeyKeys DEF Key, backlogHistory
<1> QED
  BY <1>1, <1>3, <1>4, StayMerge

(* The loop writes a row only where it says so.                            *)
LEMMA LoopUpdatesMerge ==
  ASSUME BacklogTypeOK, MergeInv, NEW w \in Workers, LoopUpdates(w)
  PROVE  MergeInv'
<1>1. /\ worker[w].pc = "update" /\ worker[w].ticket \in DOMAIN tickets
      /\ UNCHANGED merged
  BY DEF BacklogTypeOK, LoopUpdates, InHand
<1>2. Moves(w)
  BY LoopUpdatesQuiet DEF Quiet
<1>3. CASE UNCHANGED <<tickets, touched>>
  BY <1>1, <1>2, <1>3, StayMerge
<1>4. CASE ~ UNCHANGED <<tickets, touched>>
  <2>1. \E row : Write(worker[w].ticket, row)
    BY <1>4 DEF LoopUpdates
  <2> QED
    BY <1>1, <1>2, <2>1, WriteMerge
<1> QED
  BY <1>3, <1>4

LEMMA MergeSavedMerge ==
  ASSUME BacklogTypeOK, BacklogAssumption, MergeInv, NEW w \in Workers,
         NEW p \in PullRequests, MergeSaved(w, p)
  PROVE  MergeInv'
<1>1. /\ worker[w].pc = "idle" /\ merged' = merged \union {p}
      /\ UNCHANGED <<tickets, touched>>
  BY DEF MergeSaved, Job, backlogHistory
<1>2. Moves(w)
  BY MergeSavedQuiet DEF Quiet
<1>3. worker'[w].pc = "query" /\ worker'[w].pr = p
  BY FreeIs DEF MergeSaved, Does, Works, BacklogTypeOK
<1>4. ASSUME NEW t \in DOMAIN tickets \ touched, tickets[t].pr \in merged \union {p},
             tickets[t].status # "done"
      PROVE  \E o \in Workers : Handles(o, t)'
  <2>1. CASE tickets[t].pr = p
    BY <1>1, <1>3, <2>1 DEF Handles
  <2>2. CASE tickets[t].pr # p
    <3>1. PICK o \in Workers : Handles(o, t)
      BY <1>4, <2>2 DEF MergeInv
    <3>2. Handles(o, t)'
      BY <1>1, <1>2, <3>1 DEF Handles, Moves
    <3> QED
      BY <3>2
  <2> QED
    BY <2>1, <2>2
<1> QED
  BY <1>1, <1>4 DEF MergeInv
LEMMA QueryMerge ==
  ASSUME BacklogTypeOK, MergeInv, NEW w \in Workers, Query(w)
  PROVE  MergeInv'
<1>1. PICK p, hits : /\ p = worker[w].pr
                     /\ hits = {t \in Linked(p) : tickets[t].status # "done"}
  OBVIOUS
<1>2. /\ worker[w].pc = "query" /\ Moves(w)
      /\ UNCHANGED <<tickets, merged, touched>>
  BY QueryQuiet DEF Query, Quiet, backlogHistory
<1>3. hits # {} => worker'[w].pc = "advance" /\ worker'[w].pr = p
                   /\ worker'[w].todo = hits
  BY <1>1 DEF Query, Does, BacklogTypeOK, Works
<1>4. ASSUME NEW t \in DOMAIN tickets \ touched, tickets[t].pr \in merged,
             tickets[t].status # "done"
      PROVE  \E o \in Workers : Handles(o, t)'
  <2>1. PICK o \in Workers : Handles(o, t)
    BY <1>4 DEF MergeInv
  <2>2. CASE o = w
    <3>1. t \in hits
      BY <1>1, <1>4, <2>1, <2>2 DEF Handles, Linked
    <3> QED
      BY <1>2, <1>3, <3>1, <1>1 DEF Handles, Linked
  <2>3. CASE o # w
    BY <1>2, <2>1, <2>3 DEF Handles, Moves
  <2> QED
    BY <2>2, <2>3
<1> QED
  BY <1>2, <1>4 DEF MergeInv

LEMMA AdvanceMerge ==
  ASSUME BacklogTypeOK, MergeInv, NEW w \in Workers, Advance(w)
  PROVE  MergeInv'
<1>1. worker[w].pc = "advance" /\ Moves(w) /\ UNCHANGED <<merged, touched>>
  BY AdvanceQuiet DEF Advance, Quiet, backlogHistory
<1>2. PICK t \in worker[w].todo :
        /\ tickets' = [tickets EXCEPT ![t].status = "done"]
        /\ Does(w, IF worker[w].todo = {t} THEN Free
                   ELSE [worker[w] EXCEPT !.todo = @ \ {t}])
  BY DEF Advance
<1>3. t \in DOMAIN tickets
  BY <1>1 DEF BacklogTypeOK, InHand
<1>4. /\ DOMAIN tickets' = DOMAIN tickets /\ tickets'[t].status = "done"
      /\ \A u \in DOMAIN tickets \ {t} : tickets'[u] = tickets[u]
  <2>1. /\ DOMAIN tickets' = DOMAIN tickets
        /\ tickets'[t] = [tickets[t] EXCEPT !.status = "done"]
        /\ \A u \in DOMAIN tickets \ {t} : tickets'[u] = tickets[u]
    BY <1>2, <1>3 DEF BacklogTypeOK
  <2>2. tickets[t] \in TicketRows
    BY <1>3, RowIs
  <2> QED
    BY <2>1, <2>2 DEF TicketRows
<1>5. worker[w].todo # {t} => /\ worker'[w].pc = "advance"
                             /\ worker'[w].pr = worker[w].pr
                             /\ worker'[w].todo = worker[w].todo \ {t}
  BY <1>1, <1>2 DEF Does, BacklogTypeOK, Works
<1>6. ASSUME NEW u \in DOMAIN tickets \ touched, tickets'[u].pr \in merged,
             tickets'[u].status # "done"
      PROVE  \E o \in Workers : Handles(o, u)'
  <2>1. u # t /\ tickets'[u] = tickets[u]
    BY <1>4, <1>6
  <2>2. PICK o \in Workers : Handles(o, u)
    BY <1>6, <2>1 DEF MergeInv
  <2>3. CASE o = w
    BY <1>1, <1>5, <2>1, <2>2, <2>3 DEF Handles
  <2>4. CASE o # w
    BY <1>1, <2>1, <2>2, <2>4 DEF Handles, Moves
  <2> QED
    BY <2>3, <2>4
<1> QED
  BY <1>1, <1>4, <1>6 DEF MergeInv

LEMMA BreaksOffMerge ==
  ASSUME BacklogTypeOK, MergeInv, NEW w \in Workers, BreaksOffWork(w)
  PROVE  MergeInv'
<1>1. Moves(w) /\ UNCHANGED <<tickets, merged>>
  BY BreaksOffQuiet DEF BreaksOffWork, Quiet
<1>2. touched' = IF worker[w].pc \in {"query", "advance"}
                 THEN touched \union Linked(worker[w].pr) ELSE touched
  BY DEF BreaksOffWork
<1>3. ASSUME NEW t \in DOMAIN tickets \ touched', tickets[t].pr \in merged,
             tickets[t].status # "done"
      PROVE  \E o \in Workers : Handles(o, t)'
  <2>1. PICK o \in Workers : Handles(o, t)
    BY <1>2, <1>3 DEF MergeInv
  <2>2. o # w
    BY <1>2, <1>3, <2>1 DEF Handles, Linked
  <2> QED
    BY <1>1, <2>1, <2>2 DEF Handles, Moves
<1> QED
  BY <1>1, <1>3 DEF MergeInv

LEMMA NextMerge ==
  ASSUME BacklogTypeOK, BacklogAssumption, MergeInv, BacklogNext
  PROVE  MergeInv'
<1>1. PICK w \in Workers :
        \/ File(w) \/ Mint(w) \/ Key(w) \/ SaveForm(w)
        \/ \E t \in DOMAIN tickets : SetStatus(w, t) \/ Work(w, t) \/ OpenForm(w, t)
        \/ \E i \in Incidents : LoopStarts(w, i)
        \/ LoopLooks(w) \/ LoopUpdates(w) \/ LoopGoesOn(w)
        \/ \E p \in PullRequests : MergeSaved(w, p)
        \/ Query(w) \/ Advance(w) \/ BreaksOffWork(w)
  BY DEF BacklogNext
<1>2. CASE File(w)
  BY <1>2, FileFiles, FilesMerge DEF File, Job
<1>3. CASE LoopLooks(w)
  <2>1. worker[w].pc = "look"
    BY <1>3 DEF LoopLooks
  <2>2. CASE Of(worker[w].incident) = {}
    BY <1>3, <2>1, <2>2, LoopFiles, FilesMerge
  <2>3. CASE Of(worker[w].incident) # {}
    <3>1. Moves(w) /\ UNCHANGED <<tickets, touched, merged>>
      BY <1>3, <2>3, LoopLooksQuiet DEF LoopLooks, Quiet
    <3> QED
      BY <2>1, <3>1, StayMerge
  <2> QED
    BY <2>2, <2>3
<1>4. CASE Mint(w)
  BY <1>4, MintMints, StayMerge DEF Mint
<1>5. CASE SaveForm(w)
  <2>1. /\ Moves(w) /\ worker[w].pc = "edit" /\ worker[w].ticket \in DOMAIN tickets
    BY <1>5, SaveFormSaves
  <2>2. Write(worker[w].ticket, worker[w].copy) /\ UNCHANGED merged
    BY <1>5 DEF SaveForm
  <2> QED
    BY <2>1, <2>2, WriteMerge
<1>6. CASE \E t \in DOMAIN tickets : SetStatus(w, t) \/ Work(w, t)
  <2>1. PICK t \in DOMAIN tickets : SetStatus(w, t) \/ Work(w, t)
    BY <1>6
  <2>2. Moves(w) /\ worker[w].pc = "idle" /\ UNCHANGED merged
    BY <2>1, StatusQuiet DEF Quiet, SetStatus, Work, Job
  <2>3. \E row : Write(t, row)
    BY <2>1 DEF SetStatus, Work
  <2> QED
    BY <2>2, <2>3, WriteMerge
<1>7. CASE \E t \in DOMAIN tickets : OpenForm(w, t)
  BY <1>7, OpenFormOpens, StayMerge DEF OpenForm, Job, backlogHistory
<1>8. CASE \E i \in Incidents : LoopStarts(w, i)
  BY <1>8, LoopStartsQuiet, StayMerge DEF Quiet, LoopStarts, Job, backlogHistory
<1>9. CASE LoopGoesOn(w)
  BY <1>9, LoopGoesOnQuiet, StayMerge DEF Quiet, LoopGoesOn, backlogHistory
<1>10. CASE \E p \in PullRequests : MergeSaved(w, p)
  BY <1>10, MergeSavedMerge
<1> QED
  BY <1>1, <1>2, <1>3, <1>4, <1>5, <1>6, <1>7, <1>8, <1>9, <1>10, KeyMerge,
     LoopUpdatesMerge, QueryMerge, AdvanceMerge, BreaksOffMerge

(* A ticket linked to a merged pull request is Done when the handler of    *)
(* the merge has run, unless its status or its link was written since, or  *)
(* the handler broke off (advance_tickets_for_merged_pr, signals.py).      *)
THEOREM MergeClosesTickets == BacklogSpec => []MergedTicketIsDone
<1>1. BacklogInit => MergeInv
  BY DEF BacklogInit, MergeInv
<1>2. BacklogTypeOK /\ MergeInv /\ [BacklogNext]_backlogVars => MergeInv'
  <2>1. ASSUME UNCHANGED backlogVars, MergeInv PROVE MergeInv'
    BY <2>1 DEF backlogVars, MergeInv, Handles
  <2> QED
    BY <2>1, NextMerge, BacklogAssumption
<1>3. MergeInv => MergedTicketIsDone
  BY DEF MergeInv, Handles, MergedTicketIsDone
<1> QED
  BY <1>1, <1>2, <1>3, BacklogTypes, PTL DEF BacklogSpec

------------------------------------------------------------------------------
(***************************************************************************)
(* The wiki.                                                               *)
(***************************************************************************)

USE DEF Exists, Rows, wikiHistory

EditorStages == {"idle", "insert", "number", "snapshot", "save", "unlink", "link"}

Requests ==
  [pc : EditorStages, page : Pages \union {NoPage}, fresh : BOOLEAN,
   row : PageRows \union {NoPage}, new : PageRows \union {NoPage},
   last : Nat, todo : SUBSET Titles]

Revisions == [number : Nat, title : Titles, body : Bodies]

PageLinks == [source : Pages, target : Pages \union {NoPage}, title : Titles]

(* The type of the state.  A request under way is about a page and holds   *)
(* the row it read and the row it saves.                                   *)
WikiTypeOK ==
  /\ page \in [Pages -> PageRows \union {NoPage, Deleted}]
  /\ revisions \in [Pages -> SUBSET Revisions]
  /\ links \subseteq PageLinks
  /\ editor \in [Editors -> Requests]
  /\ \A e \in Editors : editor[e].pc # "idle" =>
       /\ editor[e].page \in Pages
       /\ editor[e].row \in PageRows /\ editor[e].new \in PageRows
  /\ written \subseteq Pages \X Bodies

LEMMA ReadingIs ==
  /\ Reading \in Requests /\ Reading.pc = "idle" /\ Reading.page = NoPage
  /\ Reading.fresh = FALSE
BY DEF Reading, Requests, EditorStages

(* What a step of e does to its request: it is over, it is at stage s, and *)
(* about the same page with the same rows.                                 *)
Ends(e) == editor' = [editor EXCEPT ![e] = Reading]

Serves(e, s) ==
  /\ editor' \in [Editors -> Requests]
  /\ editor'[e].pc = s
  /\ \A o \in Editors \ {e} : editor'[o] = editor[o]

Same(e) ==
  /\ editor'[e].page = editor[e].page /\ editor'[e].fresh = editor[e].fresh
  /\ editor'[e].row = editor[e].row   /\ editor'[e].new = editor[e].new

LEMMA GoesOn ==
  ASSUME WikiTypeOK, NEW e \in Editors, NEW s \in EditorStages, Goes(e, s)
  PROVE  Serves(e, s) /\ Same(e)
<1>1. editor \in [Editors -> Requests]
  BY DEF WikiTypeOK
<1> QED
  BY <1>1 DEF Goes, Serves, Same, Requests

LEMMA NewServes ==
  ASSUME WikiTypeOK, NEW e \in Editors, NEW p \in Pages, New(e, p)
  PROVE  /\ Serves(e, "insert")
         /\ editor'[e].page = p /\ editor'[e].fresh
         /\ editor'[e].row \in PageRows /\ editor'[e].new = editor'[e].row
<1>1. editor \in [Editors -> Requests]
  BY DEF WikiTypeOK
<1>2. PICK t \in Titles, b \in Bodies, s \in Spaces, up \in Rows \union {NoPage},
           k \in 1..(Cardinality(Pages) + 1) :
        LET row == [title |-> t, slug |-> <<t, k>>, space |-> s, parent |-> up,
                    body |-> b]
        IN  /\ IsUniqueSlug(s, row.slug, p)
            /\ editor' = [editor EXCEPT ![e] =
                 [Reading EXCEPT !.pc = "insert", !.page = p, !.fresh = TRUE,
                                 !.row = row, !.new = row]]
  BY Zenon DEF New
<1> DEFINE row == [title |-> t, slug |-> <<t, k>>, space |-> s, parent |-> up,
                   body |-> b]
<1>3. row \in PageRows
  BY DEF PageRows
<1>4. editor' = [editor EXCEPT ![e] =
        [Reading EXCEPT !.pc = "insert", !.page = p, !.fresh = TRUE, !.row = row,
                        !.new = row]]
  BY <1>2
<1> HIDE DEF row
<1> QED
  BY <1>1, <1>3, <1>4, ReadingIs DEF Serves, Requests, EditorStages

LEMMA EditServes ==
  ASSUME WikiTypeOK, NEW e \in Editors, NEW p \in Pages, Edit(e, p) \/ Restore(e, p)
  PROVE  /\ Serves(e, "number")
         /\ editor'[e].page = p /\ editor'[e].fresh = FALSE
         /\ editor'[e].row = page[p] /\ page[p] \in PageRows
         /\ editor'[e].new \in PageRows
<1>1. editor \in [Editors -> Requests]
  BY DEF WikiTypeOK
<1>2. page[p] \in PageRows
  BY DEF WikiTypeOK, Edit, Restore
<1>3. \E row \in PageRows :
        editor' = [editor EXCEPT ![e] =
          [Reading EXCEPT !.pc = "number", !.page = p, !.row = page[p], !.new = row]]
  <2>1. CASE Edit(e, p)
    <3>1. PICK t \in Titles, b \in Bodies, s \in Spaces :
            editor' = [editor EXCEPT ![e] =
              [Reading EXCEPT !.pc = "number", !.page = p, !.row = page[p],
                 !.new = [page[p] EXCEPT !.title = t, !.body = b, !.space = s]]]
      BY <2>1 DEF Edit
    <3>2. [page[p] EXCEPT !.title = t, !.body = b, !.space = s] \in PageRows
      BY <1>2 DEF PageRows
    <3> QED
      BY <3>1, <3>2
  <2>2. CASE Restore(e, p)
    <3>1. PICK r \in revisions[p] :
            editor' = [editor EXCEPT ![e] =
              [Reading EXCEPT !.pc = "number", !.page = p, !.row = page[p],
                 !.new = [page[p] EXCEPT !.title = r.title, !.body = r.body]]]
      BY <2>2 DEF Restore
    <3>2. r.title \in Titles /\ r.body \in Bodies
      BY DEF WikiTypeOK, Revisions
    <3>3. [page[p] EXCEPT !.title = r.title, !.body = r.body] \in PageRows
      BY <1>2, <3>2 DEF PageRows
    <3> QED
      BY <3>1, <3>3
  <2> QED
    BY <2>1, <2>2
<1>4. PICK row \in PageRows :
        editor' = [editor EXCEPT ![e] =
          [Reading EXCEPT !.pc = "number", !.page = p, !.row = page[p], !.new = row]]
  BY <1>3
<1> QED
  BY <1>1, <1>2, <1>4, ReadingIs DEF Serves, Requests, EditorStages

LEMMA NumberServes ==
  ASSUME WikiTypeOK, NEW e \in Editors, Number(e)
  PROVE  Serves(e, "snapshot") /\ Same(e)
<1>1. editor \in [Editors -> Requests] /\ editor[e].page \in Pages
  BY DEF WikiTypeOK, Number
<1>2. PICK last \in {r.number : r \in revisions[editor[e].page]} \union {0} :
        editor' = [editor EXCEPT ![e].last = last, ![e].pc = "snapshot"]
  BY DEF Number
<1>3. last \in Nat
  BY <1>1 DEF WikiTypeOK, Revisions
<1> DEFINE numbered == [editor[e] EXCEPT !.last = last, !.pc = "snapshot"]
<1>4. editor' = [editor EXCEPT ![e] = numbered]
  BY <1>1, <1>2
<1>5. numbered \in Requests /\ numbered.pc = "snapshot"
  BY <1>1, <1>3 DEF Requests, EditorStages
<1>6. Serves(e, "snapshot")
  BY <1>1, <1>4, <1>5 DEF Serves
<1>7. Same(e)
  BY <1>1, <1>2 DEF Same, Requests
<1> QED
  BY <1>6, <1>7

EndsOf(e) ==
  /\ editor'[e].pc = "idle" /\ editor'[e].page = NoPage /\ editor'[e].fresh = FALSE
  /\ \A o \in Editors \ {e} : editor'[o] = editor[o]

LEMMA EndsIs ==
  ASSUME WikiTypeOK, NEW e \in Editors, Ends(e)
  PROVE  EndsOf(e)
<1>1. editor \in [Editors -> Requests]
  BY DEF WikiTypeOK
<1> QED
  BY <1>1, ReadingIs DEF Ends, EndsOf

(* The links that are left are created, or the request is over.            *)
LEMMA LinkRestServes ==
  ASSUME WikiTypeOK, NEW e \in Editors, NEW todo \in SUBSET Titles, LinkRest(e, todo)
  PROVE  \/ todo = {} /\ Ends(e)
         \/ Serves(e, "link") /\ Same(e) /\ editor'[e].todo = todo
<1>1. editor \in [Editors -> Requests]
  BY DEF WikiTypeOK
<1> QED
  BY <1>1 DEF LinkRest, Done, Ends, Serves, Same, Requests, EditorStages

----------------------------------------------------------------------------
LEMMA WikiTypeInit == WikiInit => WikiTypeOK
BY ReadingIs DEF WikiInit, WikiTypeOK

LEMMA EndsKeepsType ==
  ASSUME WikiTypeOK, NEW e \in Editors, Ends(e)
  PROVE  /\ editor' \in [Editors -> Requests]
         /\ \A o \in Editors : editor'[o].pc # "idle" =>
              /\ editor'[o].page \in Pages
              /\ editor'[o].row \in PageRows /\ editor'[o].new \in PageRows
<1>1. editor \in [Editors -> Requests]
  BY DEF WikiTypeOK
<1>2. editor' \in [Editors -> Requests] /\ editor'[e].pc = "idle"
      /\ \A o \in Editors \ {e} : editor'[o] = editor[o]
  BY <1>1, ReadingIs DEF Ends
<1> QED
  BY <1>2 DEF WikiTypeOK

LEMMA ServesKeepsType ==
  ASSUME WikiTypeOK, NEW e \in Editors, NEW s, Serves(e, s) /\ Same(e), editor[e].pc # "idle"
  PROVE  /\ editor' \in [Editors -> Requests]
         /\ \A o \in Editors : editor'[o].pc # "idle" =>
              /\ editor'[o].page \in Pages
              /\ editor'[o].row \in PageRows /\ editor'[o].new \in PageRows
BY DEF WikiTypeOK, Serves, Same

LEMMA WikiTypeStep == WikiTypeOK /\ [WikiNext]_wikiVars => WikiTypeOK'
<1> SUFFICES ASSUME WikiTypeOK, [WikiNext]_wikiVars PROVE WikiTypeOK'
  OBVIOUS
<1>1. ASSUME NEW e \in Editors, NEW p \in Pages, New(e, p)
      PROVE  WikiTypeOK'
  <2>1. UNCHANGED <<page, revisions, links, written>>
    BY <1>1 DEF New, Posted
  <2> QED
    BY <1>1, <2>1, NewServes DEF WikiTypeOK, Serves
<1>2. ASSUME NEW e \in Editors, NEW p \in Pages, Edit(e, p)
      PROVE  WikiTypeOK'
  <2>1. UNCHANGED <<page, revisions, links, written>>
    BY <1>2 DEF Edit, Posted
  <2>2. /\ Serves(e, "number") /\ editor'[e].page = p
        /\ editor'[e].row \in PageRows /\ editor'[e].new \in PageRows
    BY <1>2, EditServes
  <2> QED
    BY <2>1, <2>2 DEF WikiTypeOK, Serves
<1>3. ASSUME NEW e \in Editors, NEW p \in Pages, Restore(e, p)
      PROVE  WikiTypeOK'
  <2>1. UNCHANGED <<page, revisions, links, written>>
    BY <1>3 DEF Restore, Posted
  <2>2. /\ Serves(e, "number") /\ editor'[e].page = p
        /\ editor'[e].row \in PageRows /\ editor'[e].new \in PageRows
    BY <1>3, EditServes
  <2> QED
    BY <2>1, <2>2 DEF WikiTypeOK, Serves
<1>4. ASSUME NEW e \in Editors, NEW p \in Pages, Delete(e, p)
      PROVE  WikiTypeOK'
  <2> DEFINE gone == Subtree(p)
  <2> HIDE DEF gone
  <2>1. /\ page' = [q \in Pages |-> IF q \in gone THEN Deleted ELSE page[q]]
        /\ revisions' = [q \in Pages |-> IF q \in gone THEN {} ELSE revisions[q]]
        /\ links' = {[l EXCEPT !.target = IF @ \in gone THEN NoPage ELSE @] :
                       l \in {k \in links : k.source \notin gone}}
        /\ written' = {w \in written : w[1] \notin gone}
        /\ UNCHANGED editor
    BY <1>4 DEF Delete, gone
  <2>2. page' \in [Pages -> PageRows \union {NoPage, Deleted}]
        /\ revisions' \in [Pages -> SUBSET Revisions]
    BY <2>1 DEF WikiTypeOK
  <2>3. links' \subseteq PageLinks
    <3>1. ASSUME NEW l \in links
          PROVE  [l EXCEPT !.target = IF @ \in gone THEN NoPage ELSE @] \in PageLinks
      BY DEF WikiTypeOK, PageLinks
    <3> QED
      BY <2>1, <3>1
  <2> QED
    BY <2>1, <2>2, <2>3 DEF WikiTypeOK
<1>5. ASSUME NEW e \in Editors, Insert(e)
      PROVE  WikiTypeOK'
  <2>1. CASE Fails(e)
    BY <1>5, <2>1, EndsKeepsType DEF Insert, Fails, Done, Ends, WikiTypeOK
  <2>2. CASE Writes(e, editor[e].page, editor[e].row) /\ Goes(e, "number")
             /\ UNCHANGED <<revisions, links>>
    <3>1. editor[e].page \in Pages /\ editor[e].row \in PageRows
      BY <1>5 DEF Insert, WikiTypeOK
    <3>2. page' \in [Pages -> PageRows \union {NoPage, Deleted}]
          /\ written' \subseteq Pages \X Bodies
      BY <2>2, <3>1 DEF Writes, WikiTypeOK, PageRows
    <3>3. Serves(e, "number") /\ Same(e)
      BY <2>2, GoesOn DEF EditorStages
    <3> QED
      BY <1>5, <2>2, <3>2, <3>3, ServesKeepsType DEF Insert, WikiTypeOK
  <2> QED
    BY <1>5, <2>1, <2>2 DEF Insert
<1>6. ASSUME NEW e \in Editors, Number(e)
      PROVE  WikiTypeOK'
  BY <1>6, NumberServes, ServesKeepsType DEF Number, WikiTypeOK
<1>7. ASSUME NEW e \in Editors, Snapshot(e)
      PROVE  WikiTypeOK'
  <2>1. CASE Fails(e)
    BY <1>7, <2>1, EndsKeepsType DEF Snapshot, Fails, Done, Ends, WikiTypeOK
  <2>2. CASE /\ revisions' = [revisions EXCEPT ![editor[e].page] =
                  @ \union {[number |-> editor[e].last + 1, title |-> editor[e].row.title,
                             body |-> editor[e].row.body]}]
             /\ Goes(e, IF editor[e].fresh THEN "unlink" ELSE "save")
             /\ UNCHANGED <<page, links, wikiHistory>>
    <3>1. /\ editor[e].page \in Pages /\ editor[e].row \in PageRows
          /\ editor[e].last \in Nat
      BY <1>7 DEF Snapshot, WikiTypeOK, Requests
    <3>2. revisions' \in [Pages -> SUBSET Revisions]
      BY <2>2, <3>1 DEF WikiTypeOK, PageRows, Revisions
    <3>3. \E s \in EditorStages : Serves(e, s) /\ Same(e)
      BY <2>2, GoesOn DEF EditorStages
    <3> QED
      BY <1>7, <2>2, <3>2, <3>3, ServesKeepsType DEF Snapshot, WikiTypeOK
  <2> QED
    BY <1>7, <2>1, <2>2 DEF Snapshot
<1>8. ASSUME NEW e \in Editors, Save(e)
      PROVE  WikiTypeOK'
  <2>1. CASE Fails(e)
    BY <1>8, <2>1, EndsKeepsType DEF Save, Fails, Done, Ends, WikiTypeOK
  <2>2. CASE Writes(e, editor[e].page, editor[e].new) /\ Goes(e, "unlink")
             /\ UNCHANGED <<revisions, links>>
    <3>1. editor[e].page \in Pages /\ editor[e].new \in PageRows
      BY <1>8 DEF Save, WikiTypeOK
    <3>2. page' \in [Pages -> PageRows \union {NoPage, Deleted}]
          /\ written' \subseteq Pages \X Bodies
      BY <2>2, <3>1 DEF Writes, WikiTypeOK, PageRows
    <3>3. Serves(e, "unlink") /\ Same(e)
      BY <2>2, GoesOn DEF EditorStages
    <3> QED
      BY <1>8, <2>2, <3>2, <3>3, ServesKeepsType DEF Save, WikiTypeOK
  <2> QED
    BY <1>8, <2>1, <2>2 DEF Save
<1>9. ASSUME NEW e \in Editors, Unlink(e)
      PROVE  WikiTypeOK'
  <2>1. editor[e].pc # "idle" /\ Mentions[editor[e].new.body] \in SUBSET Titles
    BY <1>9, WikiAssumption DEF Unlink, WikiTypeOK, PageRows
  <2>2. Ends(e) \/ (Serves(e, "link") /\ Same(e))
    BY <1>9, <2>1, LinkRestServes DEF Unlink
  <2> QED
    BY <1>9, <2>1, <2>2, EndsKeepsType, ServesKeepsType DEF Unlink, WikiTypeOK
<1>10. ASSUME NEW e \in Editors, Link(e)
      PROVE  WikiTypeOK'
  <2>1. CASE Fails(e)
    BY <1>10, <2>1, EndsKeepsType DEF Link, Fails, Done, Ends, WikiTypeOK
  <2>2. ASSUME NEW t \in editor[e].todo, NEW to \in Pages \union {NoPage},
               links' = links \union {[source |-> editor[e].page, target |-> to, title |-> t]},
               LinkRest(e, editor[e].todo \ {t}),
               UNCHANGED <<page, revisions, wikiHistory>>
        PROVE  WikiTypeOK'
    <3>1. /\ editor[e].pc # "idle" /\ editor[e].page \in Pages
          /\ editor[e].todo \in SUBSET Titles
      BY <1>10 DEF Link, WikiTypeOK, Requests
    <3>2. links' \subseteq PageLinks
      BY <2>2, <3>1 DEF WikiTypeOK, PageLinks
    <3>3. Ends(e) \/ (Serves(e, "link") /\ Same(e))
      BY <2>2, <3>1, LinkRestServes
    <3> QED
      BY <2>2, <3>1, <3>2, <3>3, EndsKeepsType, ServesKeepsType DEF WikiTypeOK
  <2> QED
    BY <1>10, <2>1, <2>2 DEF Link, Meant
<1>11. ASSUME NEW e \in Editors, BreaksOff(e)
      PROVE  WikiTypeOK'
  BY <1>11, EndsKeepsType DEF BreaksOff, Fails, Done, Ends, WikiTypeOK
<1>12. CASE UNCHANGED wikiVars
  BY <1>12 DEF wikiVars, wikiHistory, WikiTypeOK
<1> QED
  BY <1>1, <1>2, <1>3, <1>4, <1>5, <1>6, <1>7, <1>8, <1>9, <1>10, <1>11, <1>12 DEF WikiNext

(* Rows, revisions, links and requests keep values of their kinds.         *)
THEOREM WikiTypes == WikiSpec => []WikiTypeOK
<1>1. WikiInit => WikiTypeOK
  BY WikiTypeInit
<1>2. WikiTypeOK /\ [WikiNext]_wikiVars => WikiTypeOK'
  BY WikiTypeStep
<1> QED
  BY <1>1, <1>2, PTL DEF WikiSpec

----------------------------------------------------------------------------
(***************************************************************************)
(* No text is lost                                                         *)
(***************************************************************************)

(* A page that is about to be inserted has no row, no text and no other    *)
(* request about it.                                                       *)
NewIsAlone ==
  /\ \A w \in written : page[w[1]] # NoPage
  /\ \A e \in Editors : editor[e].pc = "insert" =>
       /\ ~Exists(editor[e].page)
       /\ editor[e].fresh /\ editor[e].row = editor[e].new
       /\ \A w \in written : w[1] # editor[e].page
       /\ \A o \in Editors \ {e} : editor[o].page # editor[e].page

LEMMA AloneInit == WikiInit => NewIsAlone
BY ReadingIs DEF WikiInit, NewIsAlone

LEMMA AloneStep ==
  WikiTypeOK /\ NewIsAlone /\ [WikiNext]_wikiVars => NewIsAlone'
<1> SUFFICES ASSUME WikiTypeOK, NewIsAlone, [WikiNext]_wikiVars PROVE NewIsAlone'
  OBVIOUS
<1> USE WikiAssumption
<1>1. ASSUME NEW e \in Editors, NEW p \in Pages, New(e, p)
      PROVE  NewIsAlone'
  <2>1. UNCHANGED <<page, revisions, links, written, exposed, torn>>
    BY <1>1 DEF New, Posted
  <2>2. /\ Serves(e, "insert")
        /\ editor'[e].page = p /\ editor'[e].fresh
        /\ editor'[e].row \in PageRows /\ editor'[e].new = editor'[e].row
    BY <1>1, NewServes
  <2>3. page[p] = NoPage /\ \A o \in Editors : editor[o].page # p
    BY <1>1 DEF New
  <2> QED
    BY <2>1, <2>2, <2>3 DEF NewIsAlone, WikiTypeOK, Serves, Same, EndsOf
<1>2. ASSUME NEW e \in Editors, NEW p \in Pages, Edit(e, p)
      PROVE  NewIsAlone'
  <2>1. UNCHANGED <<page, revisions, links, written, exposed, torn>>
    BY <1>2 DEF Edit, Posted
  <2>2. /\ Serves(e, "number") /\ editor'[e].page = p
        /\ editor'[e].row = page[p] /\ editor'[e].fresh = FALSE
    BY <1>2, EditServes
  <2>3. Exists(p) /\ editor[e].pc = "idle"
    BY <1>2 DEF Edit, Posted
  <2> QED
    BY <2>1, <2>2, <2>3 DEF NewIsAlone, WikiTypeOK, Serves, Same, EndsOf
<1>3. ASSUME NEW e \in Editors, NEW p \in Pages, Restore(e, p)
      PROVE  NewIsAlone'
  <2>1. UNCHANGED <<page, revisions, links, written, exposed, torn>>
    BY <1>3 DEF Restore, Posted
  <2>2. /\ Serves(e, "number") /\ editor'[e].page = p
        /\ editor'[e].row = page[p] /\ editor'[e].fresh = FALSE
    BY <1>3, EditServes
  <2>3. Exists(p) /\ editor[e].pc = "idle"
    BY <1>3 DEF Restore, Posted
  <2> QED
    BY <2>1, <2>2, <2>3 DEF NewIsAlone, WikiTypeOK, Serves, Same, EndsOf
<1>4. ASSUME NEW e \in Editors, NEW p \in Pages, Delete(e, p)
      PROVE  NewIsAlone'
  <2> DEFINE gone == Subtree(p)
  <2> HIDE DEF gone
  <2>1. /\ page' = [q \in Pages |-> IF q \in gone THEN Deleted ELSE page[q]]
        /\ revisions' = [q \in Pages |-> IF q \in gone THEN {} ELSE revisions[q]]
        /\ links' = {[l EXCEPT !.target = IF @ \in gone THEN NoPage ELSE @] :
                       l \in {k \in links : k.source \notin gone}}
        /\ written' = {w \in written : w[1] \notin gone}
        /\ UNCHANGED <<editor, exposed, torn>>
    BY <1>4 DEF Delete, gone
  <2> QED
    BY <2>1 DEF NewIsAlone, WikiTypeOK, Serves, Same, EndsOf
<1>5. ASSUME NEW e \in Editors, Insert(e)
      PROVE  NewIsAlone'
  <2>1. editor[e].pc = "insert"
    BY <1>5 DEF Insert
  <2>2. CASE Fails(e)
    <3>1. EndsOf(e) /\ UNCHANGED <<page, revisions, links, written, exposed>>
      BY <2>2, EndsIs DEF Fails, Done, Ends
    <3> QED
      BY <2>1, <2>2, <3>1 DEF NewIsAlone, WikiTypeOK, Serves, Same, EndsOf, Fails
  <2>3. CASE /\ Writes(e, editor[e].page, editor[e].row) /\ Goes(e, "number")
             /\ UNCHANGED <<revisions, links, exposed, torn>>
    <3>1. Serves(e, "number") /\ Same(e)
      BY <2>3, GoesOn DEF EditorStages
    <3>2. /\ editor[e].page \in Pages /\ editor[e].row \in PageRows
          /\ page' = [page EXCEPT ![editor[e].page] = editor[e].row]
          /\ written' = written \union {<<editor[e].page, editor[e].row.body>>}
      BY <2>1, <2>3 DEF Writes, WikiTypeOK
    <3> QED
      BY <2>1, <2>3, <3>1, <3>2 DEF NewIsAlone, WikiTypeOK, Serves, Same, EndsOf
  <2> QED
    BY <1>5, <2>2, <2>3 DEF Insert
<1>6. ASSUME NEW e \in Editors, Number(e)
      PROVE  NewIsAlone'
  <2>1. Serves(e, "snapshot") /\ Same(e)
    BY <1>6, NumberServes
  <2>2. UNCHANGED <<page, revisions, links, written, exposed, torn>> /\ editor[e].pc = "number"
    BY <1>6 DEF Number
  <2> QED
    BY <2>1, <2>2 DEF NewIsAlone, WikiTypeOK, Serves, Same, EndsOf
<1>7. ASSUME NEW e \in Editors, Snapshot(e)
      PROVE  NewIsAlone'
  <2>1. editor[e].pc = "snapshot"
    BY <1>7 DEF Snapshot
  <2>2. CASE Fails(e)
    <3>1. EndsOf(e) /\ UNCHANGED <<page, revisions, links, written, exposed>>
      BY <2>2, EndsIs DEF Fails, Done, Ends
    <3> QED
      BY <2>1, <2>2, <3>1 DEF NewIsAlone, WikiTypeOK, Serves, Same, EndsOf, Fails
  <2>3. CASE /\ revisions' = [revisions EXCEPT ![editor[e].page] =
                  @ \union {[number |-> editor[e].last + 1, title |-> editor[e].row.title,
                             body |-> editor[e].row.body]}]
             /\ Goes(e, IF editor[e].fresh THEN "unlink" ELSE "save")
             /\ UNCHANGED <<page, links, wikiHistory>>
    <3>1. Serves(e, IF editor[e].fresh THEN "unlink" ELSE "save") /\ Same(e)
      BY <2>3, GoesOn DEF EditorStages
    <3>2. editor[e].page \in Pages
      BY <2>1 DEF WikiTypeOK
    <3> QED
      BY <2>1, <2>3, <3>1, <3>2 DEF NewIsAlone, WikiTypeOK, Serves, Same, EndsOf
  <2> QED
    BY <1>7, <2>2, <2>3 DEF Snapshot
<1>8. ASSUME NEW e \in Editors, Save(e)
      PROVE  NewIsAlone'
  <2>1. editor[e].pc = "save"
    BY <1>8 DEF Save
  <2>2. CASE Fails(e)
    <3>1. EndsOf(e) /\ UNCHANGED <<page, revisions, links, written, exposed>>
      BY <2>2, EndsIs DEF Fails, Done, Ends
    <3> QED
      BY <2>1, <2>2, <3>1 DEF NewIsAlone, WikiTypeOK, Serves, Same, EndsOf, Fails
  <2>3. CASE ~Fails(e)
    <3>0. /\ Writes(e, editor[e].page, editor[e].new) /\ Goes(e, "unlink")
          /\ UNCHANGED <<revisions, links>>
      BY <1>8, <2>3 DEF Save
    <3>1. Serves(e, "unlink") /\ Same(e)
      BY <3>0, GoesOn DEF EditorStages
    <3>2. /\ editor[e].page \in Pages /\ editor[e].new \in PageRows
          /\ page' = [page EXCEPT ![editor[e].page] = editor[e].new]
          /\ written' = written \union {<<editor[e].page, editor[e].new.body>>}
          /\ UNCHANGED <<revisions, links>>
      BY <2>1, <3>0 DEF Writes, WikiTypeOK
    <3> QED
      BY <2>1, <3>1, <3>2 DEF NewIsAlone, WikiTypeOK, Serves, Same, EndsOf
  <2> QED
    BY <2>2, <2>3
<1>9. ASSUME NEW e \in Editors, Unlink(e)
      PROVE  NewIsAlone'
  <2>1. /\ editor[e].pc = "unlink" /\ UNCHANGED <<page, revisions, wikiHistory>>
        /\ editor[e].page \in Pages
        /\ links' = {l \in links : l.source # editor[e].page}
    BY <1>9 DEF Unlink, WikiTypeOK
  <2> DEFINE asked == Mentions[editor[e].new.body]
  <2>2. asked \in SUBSET Titles /\ LinkRest(e, asked)
    BY <1>9, <2>1, WikiAssumption DEF Unlink, WikiTypeOK, PageRows
  <2> HIDE DEF asked
  <2>3. \/ asked = {} /\ EndsOf(e)
        \/ Serves(e, "link") /\ Same(e) /\ editor'[e].todo = asked
    BY <2>2, LinkRestServes, EndsIs
  <2> QED
    BY <2>1, <2>2, <2>3 DEF NewIsAlone, WikiTypeOK, Serves, Same, EndsOf
<1>10. ASSUME NEW e \in Editors, Link(e)
      PROVE  NewIsAlone'
  <2>1. /\ editor[e].pc = "link" /\ editor[e].page \in Pages
        /\ editor[e].todo \in SUBSET Titles
    BY <1>10 DEF Link, WikiTypeOK, Requests
  <2>2. CASE Fails(e)
    <3>1. EndsOf(e) /\ UNCHANGED <<page, revisions, links, written, exposed>>
      BY <2>2, EndsIs DEF Fails, Done, Ends
    <3> QED
      BY <2>1, <2>2, <3>1 DEF NewIsAlone, WikiTypeOK, Serves, Same, EndsOf, Fails
  <2>3. ASSUME NEW t \in editor[e].todo, NEW to \in Rows \union {NoPage},
               links' = links \union {[source |-> editor[e].page, target |-> to, title |-> t]},
               LinkRest(e, editor[e].todo \ {t}),
               UNCHANGED <<page, revisions, wikiHistory>>
        PROVE  NewIsAlone'
    <3>1. \/ editor[e].todo \ {t} = {} /\ EndsOf(e)
          \/ Serves(e, "link") /\ Same(e) /\ editor'[e].todo = editor[e].todo \ {t}
      <4> DEFINE rest == editor[e].todo \ {t}
      <4>1. rest \in SUBSET Titles
        BY <2>1
      <4> HIDE DEF rest
      <4>2. LinkRest(e, rest)
        BY <2>3 DEF rest
      <4>3. (rest = {} /\ EndsOf(e)) \/ (Serves(e, "link") /\ Same(e) /\ editor'[e].todo = rest)
        BY <4>1, <4>2, LinkRestServes, EndsIs
      <4> QED
        BY <4>3 DEF rest
    <3> QED
      BY <2>1, <2>3, <3>1 DEF NewIsAlone, WikiTypeOK, Serves, Same, EndsOf
  <2> QED
    BY <1>10, <2>2, <2>3 DEF Link, Meant
<1>11. ASSUME NEW e \in Editors, BreaksOff(e)
      PROVE  NewIsAlone'
  <2>1. Ends(e) /\ UNCHANGED <<page, revisions, links, written, exposed>>
    BY <1>11 DEF BreaksOff, Fails, Done, Ends
  <2>2. EndsOf(e)
    BY <2>1, EndsIs
  <2> QED
    BY <1>11, <2>1, <2>2 DEF NewIsAlone, WikiTypeOK, Serves, Same, EndsOf, BreaksOff, Fails
<1>12. CASE UNCHANGED wikiVars
  BY <1>12 DEF wikiVars, wikiHistory, NewIsAlone
<1> QED
  BY <1>1, <1>2, <1>3, <1>4, <1>5, <1>6, <1>7, <1>8, <1>9, <1>10, <1>11, <1>12 DEF WikiNext

(* While the page is the only place a text is in, everybody who will       *)
(* overwrite it has read it and has yet to record it.                      *)
Unrecorded(w) == \A r \in revisions[w[1]] : r.body # w[2]

KeptInv ==
  /\ EveryBodyIsKept
  /\ \A w \in written \ exposed : Unrecorded(w) =>
       \A e \in Editors :
         editor[e].page = w[1] /\ editor[e].pc \in {"number", "snapshot", "save"}
           => editor[e].row.body = w[2] /\ editor[e].pc # "save"

LEMMA KeptInit == WikiInit => KeptInv
BY DEF WikiInit, KeptInv, EveryBodyIsKept

LEMMA KeptStep ==
  WikiTypeOK /\ NewIsAlone /\ KeptInv /\ [WikiNext]_wikiVars => KeptInv'
<1> SUFFICES ASSUME WikiTypeOK, NewIsAlone, KeptInv, [WikiNext]_wikiVars
             PROVE  KeptInv'
  OBVIOUS
<1> USE WikiAssumption
<1>1. ASSUME NEW e \in Editors, NEW p \in Pages, New(e, p)
      PROVE  KeptInv'
  <2>1. UNCHANGED <<page, revisions, links, written, exposed, torn>>
    BY <1>1 DEF New, Posted
  <2>2. /\ Serves(e, "insert")
        /\ editor'[e].page = p /\ editor'[e].fresh
        /\ editor'[e].row \in PageRows /\ editor'[e].new = editor'[e].row
    BY <1>1, NewServes
  <2>3. page[p] = NoPage /\ \A o \in Editors : editor[o].page # p
    BY <1>1 DEF New
  <2> QED
    BY <2>1, <2>2, <2>3 DEF KeptInv, EveryBodyIsKept, Unrecorded, NewIsAlone, WikiTypeOK,
         Serves, Same, EndsOf
<1>2. ASSUME NEW e \in Editors, NEW p \in Pages, Edit(e, p)
      PROVE  KeptInv'
  <2>1. UNCHANGED <<page, revisions, links, written, exposed, torn>>
    BY <1>2 DEF Edit, Posted
  <2>2. /\ Serves(e, "number") /\ editor'[e].page = p
        /\ editor'[e].row = page[p] /\ editor'[e].fresh = FALSE
    BY <1>2, EditServes
  <2>3. Exists(p) /\ editor[e].pc = "idle"
    BY <1>2 DEF Edit, Posted
  <2> QED
    BY <2>1, <2>2, <2>3 DEF KeptInv, EveryBodyIsKept, Unrecorded, NewIsAlone, WikiTypeOK,
         Serves, Same, EndsOf
<1>3. ASSUME NEW e \in Editors, NEW p \in Pages, Restore(e, p)
      PROVE  KeptInv'
  <2>1. UNCHANGED <<page, revisions, links, written, exposed, torn>>
    BY <1>3 DEF Restore, Posted
  <2>2. /\ Serves(e, "number") /\ editor'[e].page = p
        /\ editor'[e].row = page[p] /\ editor'[e].fresh = FALSE
    BY <1>3, EditServes
  <2>3. Exists(p) /\ editor[e].pc = "idle"
    BY <1>3 DEF Restore, Posted
  <2> QED
    BY <2>1, <2>2, <2>3 DEF KeptInv, EveryBodyIsKept, Unrecorded, NewIsAlone, WikiTypeOK,
         Serves, Same, EndsOf
<1>4. ASSUME NEW e \in Editors, NEW p \in Pages, Delete(e, p)
      PROVE  KeptInv'
  <2> DEFINE gone == Subtree(p)
  <2> HIDE DEF gone
  <2>1. /\ page' = [q \in Pages |-> IF q \in gone THEN Deleted ELSE page[q]]
        /\ revisions' = [q \in Pages |-> IF q \in gone THEN {} ELSE revisions[q]]
        /\ links' = {[l EXCEPT !.target = IF @ \in gone THEN NoPage ELSE @] :
                       l \in {k \in links : k.source \notin gone}}
        /\ written' = {w \in written : w[1] \notin gone}
        /\ UNCHANGED <<editor, exposed, torn>>
    BY <1>4 DEF Delete, gone
  <2>2. \A w \in written' : /\ w \in written /\ w[1] \in Pages
                            /\ page'[w[1]] = page[w[1]]
                            /\ revisions'[w[1]] = revisions[w[1]]
    BY <2>1 DEF WikiTypeOK
  <2>3. EveryBodyIsKept'
    BY <2>1, <2>2 DEF KeptInv, EveryBodyIsKept
  <2> QED
    BY <2>1, <2>2, <2>3 DEF KeptInv, Unrecorded
<1>5. ASSUME NEW e \in Editors, Insert(e)
      PROVE  KeptInv'
  <2>1. editor[e].pc = "insert"
    BY <1>5 DEF Insert
  <2>2. CASE Fails(e)
    <3>1. EndsOf(e) /\ UNCHANGED <<page, revisions, links, written, exposed>>
      BY <2>2, EndsIs DEF Fails, Done, Ends
    <3> QED
      BY <2>1, <2>2, <3>1 DEF KeptInv, EveryBodyIsKept, Unrecorded, NewIsAlone, WikiTypeOK,
         Serves, Same, EndsOf, Fails
  <2>3. CASE /\ Writes(e, editor[e].page, editor[e].row) /\ Goes(e, "number")
             /\ UNCHANGED <<revisions, links, exposed, torn>>
    <3>1. Serves(e, "number") /\ Same(e)
      BY <2>3, GoesOn DEF EditorStages
    <3>2. /\ editor[e].page \in Pages /\ editor[e].row \in PageRows
          /\ page' = [page EXCEPT ![editor[e].page] = editor[e].row]
          /\ written' = written \union {<<editor[e].page, editor[e].row.body>>}
      BY <2>1, <2>3 DEF Writes, WikiTypeOK
    <3> QED
      BY <2>1, <2>3, <3>1, <3>2 DEF KeptInv, EveryBodyIsKept, Unrecorded, NewIsAlone, WikiTypeOK,
         Serves, Same, EndsOf
  <2> QED
    BY <1>5, <2>2, <2>3 DEF Insert
<1>6. ASSUME NEW e \in Editors, Number(e)
      PROVE  KeptInv'
  <2>1. Serves(e, "snapshot") /\ Same(e)
    BY <1>6, NumberServes
  <2>2. UNCHANGED <<page, revisions, links, written, exposed, torn>> /\ editor[e].pc = "number"
    BY <1>6 DEF Number
  <2> QED
    BY <2>1, <2>2 DEF KeptInv, EveryBodyIsKept, Unrecorded, NewIsAlone, WikiTypeOK,
         Serves, Same, EndsOf
<1>7. ASSUME NEW e \in Editors, Snapshot(e)
      PROVE  KeptInv'
  <2>1. editor[e].pc = "snapshot"
    BY <1>7 DEF Snapshot
  <2>2. CASE Fails(e)
    <3>1. EndsOf(e) /\ UNCHANGED <<page, revisions, links, written, exposed>>
      BY <2>2, EndsIs DEF Fails, Done, Ends
    <3> QED
      BY <2>1, <2>2, <3>1 DEF KeptInv, EveryBodyIsKept, Unrecorded, NewIsAlone, WikiTypeOK,
         Serves, Same, EndsOf, Fails
  <2>3. CASE /\ revisions' = [revisions EXCEPT ![editor[e].page] =
                  @ \union {[number |-> editor[e].last + 1, title |-> editor[e].row.title,
                             body |-> editor[e].row.body]}]
             /\ Goes(e, IF editor[e].fresh THEN "unlink" ELSE "save")
             /\ UNCHANGED <<page, links, wikiHistory>>
    <3>1. Serves(e, IF editor[e].fresh THEN "unlink" ELSE "save") /\ Same(e)
      BY <2>3, GoesOn DEF EditorStages
    <3>2. editor[e].page \in Pages
      BY <2>1 DEF WikiTypeOK
    <3>3. /\ \A q \in Pages : revisions[q] \subseteq revisions'[q]
          /\ \E r \in revisions'[editor[e].page] : r.body = editor[e].row.body
      <4> DEFINE new == [number |-> editor[e].last + 1, title |-> editor[e].row.title,
                         body |-> editor[e].row.body]
      <4>1. new.body = editor[e].row.body
        OBVIOUS
      <4>2. revisions' = [revisions EXCEPT ![editor[e].page] = @ \union {new}]
        BY <2>3
      <4> HIDE DEF new
      <4>3. revisions \in [Pages -> SUBSET Revisions]
        BY DEF WikiTypeOK
      <4> QED
        BY <3>2, <4>1, <4>2, <4>3
    <3>4. EveryBodyIsKept'
      BY <2>3, <3>3 DEF KeptInv, EveryBodyIsKept, WikiTypeOK
    <3>5. ASSUME NEW w \in written \ exposed, Unrecorded(w)', NEW o \in Editors,
                 editor'[o].page = w[1],
                 editor'[o].pc \in {"number", "snapshot", "save"}
          PROVE  editor'[o].row.body = w[2] /\ editor'[o].pc # "save"
      <4>1. Unrecorded(w) /\ w[1] \in Pages
        BY <3>3, <3>5 DEF Unrecorded, WikiTypeOK
      <4>2. editor[e].page # w[1]
        BY <2>1, <3>3, <3>5, <4>1 DEF KeptInv, Unrecorded
      <4> QED
        BY <3>1, <3>5, <4>1, <4>2 DEF KeptInv, Serves, Same
    <3> QED
      BY <2>3, <3>4, <3>5 DEF KeptInv
  <2> QED
    BY <1>7, <2>2, <2>3 DEF Snapshot
<1>8. ASSUME NEW e \in Editors, Save(e)
      PROVE  KeptInv'
  <2>1. editor[e].pc = "save"
    BY <1>8 DEF Save
  <2>2. CASE Fails(e)
    <3>1. EndsOf(e) /\ UNCHANGED <<page, revisions, links, written, exposed>>
      BY <2>2, EndsIs DEF Fails, Done, Ends
    <3> QED
      BY <2>1, <2>2, <3>1 DEF KeptInv, EveryBodyIsKept, Unrecorded, NewIsAlone, WikiTypeOK,
         Serves, Same, EndsOf, Fails
  <2>3. CASE ~Fails(e)
    <3>0. /\ Writes(e, editor[e].page, editor[e].new) /\ Goes(e, "unlink")
          /\ UNCHANGED <<revisions, links>>
      BY <1>8, <2>3 DEF Save
    <3>1. Serves(e, "unlink") /\ Same(e)
      BY <3>0, GoesOn DEF EditorStages
    <3>2. /\ editor[e].page \in Pages /\ editor[e].new \in PageRows
          /\ page' = [page EXCEPT ![editor[e].page] = editor[e].new]
          /\ written' = written \union {<<editor[e].page, editor[e].new.body>>}
          /\ UNCHANGED <<revisions, links>>
      BY <2>1, <3>0 DEF Writes, WikiTypeOK
    <3> DEFINE p == editor[e].page
               b == editor[e].new.body
    <3>3. \A w : w # <<p, b>> => (w \in exposed' <=> w \in exposed)
      BY <1>8, <2>3 DEF Save
    <3>4. <<p, b>> \notin exposed' =>
            \A o \in Editors \ {e} :
              editor[o].page = p /\ editor[o].pc \in {"number", "snapshot", "save"}
                => /\ editor[o].row.body = b
                   /\ editor[o].pc = "save" => \E r \in revisions[p] : r.body = b
      BY <1>8, <2>3 DEF Save, At
    <3>5. ASSUME NEW w \in written' \ exposed'
          PROVE  /\ page'[w[1]].body = w[2] \/ ~Unrecorded(w)'
                 /\ Unrecorded(w)' =>
                      \A o \in Editors :
                        editor'[o].page = w[1]
                          /\ editor'[o].pc \in {"number", "snapshot", "save"}
                        => editor'[o].row.body = w[2] /\ editor'[o].pc # "save"
      <4>1. CASE w = <<p, b>>
        <5>1. page'[p].body = b
          BY <3>2 DEF WikiTypeOK
        <5> QED
          BY <3>1, <3>2, <3>4, <3>5, <4>1, <5>1 DEF Unrecorded, Serves
      <4>2. CASE w # <<p, b>>
        <5>1. w \in written \ exposed /\ w[1] \in Pages
          BY <3>2, <3>3, <3>5, <4>2 DEF WikiTypeOK
        <5>2. w[1] = p => ~Unrecorded(w)
          BY <2>1, <5>1 DEF KeptInv
        <5>3. Unrecorded(w)' = Unrecorded(w)
          BY <3>2 DEF Unrecorded
        <5>4. w[1] # p => page'[w[1]] = page[w[1]]
          BY <3>2, <5>1 DEF WikiTypeOK
        <5>5. CASE w[1] = p
          BY <5>2, <5>3, <5>5
        <5>6. CASE w[1] # p
          BY <3>1, <5>1, <5>3, <5>4, <5>6 DEF KeptInv, EveryBodyIsKept, Unrecorded,
             Serves, Same
        <5> QED
          BY <5>5, <5>6
      <4> QED
        BY <4>1, <4>2
    <3> QED
      BY <3>5 DEF KeptInv, EveryBodyIsKept, Unrecorded
  <2> QED
    BY <2>2, <2>3
<1>9. ASSUME NEW e \in Editors, Unlink(e)
      PROVE  KeptInv'
  <2>1. /\ editor[e].pc = "unlink" /\ UNCHANGED <<page, revisions, wikiHistory>>
        /\ editor[e].page \in Pages
        /\ links' = {l \in links : l.source # editor[e].page}
    BY <1>9 DEF Unlink, WikiTypeOK
  <2> DEFINE asked == Mentions[editor[e].new.body]
  <2>2. asked \in SUBSET Titles /\ LinkRest(e, asked)
    BY <1>9, <2>1, WikiAssumption DEF Unlink, WikiTypeOK, PageRows
  <2> HIDE DEF asked
  <2>3. \/ asked = {} /\ EndsOf(e)
        \/ Serves(e, "link") /\ Same(e) /\ editor'[e].todo = asked
    BY <2>2, LinkRestServes, EndsIs
  <2> QED
    BY <2>1, <2>2, <2>3 DEF KeptInv, EveryBodyIsKept, Unrecorded, NewIsAlone, WikiTypeOK,
         Serves, Same, EndsOf
<1>10. ASSUME NEW e \in Editors, Link(e)
      PROVE  KeptInv'
  <2>1. /\ editor[e].pc = "link" /\ editor[e].page \in Pages
        /\ editor[e].todo \in SUBSET Titles
    BY <1>10 DEF Link, WikiTypeOK, Requests
  <2>2. CASE Fails(e)
    <3>1. EndsOf(e) /\ UNCHANGED <<page, revisions, links, written, exposed>>
      BY <2>2, EndsIs DEF Fails, Done, Ends
    <3> QED
      BY <2>1, <2>2, <3>1 DEF KeptInv, EveryBodyIsKept, Unrecorded, NewIsAlone, WikiTypeOK,
         Serves, Same, EndsOf, Fails
  <2>3. ASSUME NEW t \in editor[e].todo, NEW to \in Rows \union {NoPage},
               links' = links \union {[source |-> editor[e].page, target |-> to, title |-> t]},
               LinkRest(e, editor[e].todo \ {t}),
               UNCHANGED <<page, revisions, wikiHistory>>
        PROVE  KeptInv'
    <3>1. \/ editor[e].todo \ {t} = {} /\ EndsOf(e)
          \/ Serves(e, "link") /\ Same(e) /\ editor'[e].todo = editor[e].todo \ {t}
      <4> DEFINE rest == editor[e].todo \ {t}
      <4>1. rest \in SUBSET Titles
        BY <2>1
      <4> HIDE DEF rest
      <4>2. LinkRest(e, rest)
        BY <2>3 DEF rest
      <4>3. (rest = {} /\ EndsOf(e)) \/ (Serves(e, "link") /\ Same(e) /\ editor'[e].todo = rest)
        BY <4>1, <4>2, LinkRestServes, EndsIs
      <4> QED
        BY <4>3 DEF rest
    <3> QED
      BY <2>1, <2>3, <3>1 DEF KeptInv, EveryBodyIsKept, Unrecorded, NewIsAlone, WikiTypeOK,
         Serves, Same, EndsOf
  <2> QED
    BY <1>10, <2>2, <2>3 DEF Link, Meant
<1>11. ASSUME NEW e \in Editors, BreaksOff(e)
      PROVE  KeptInv'
  <2>1. Ends(e) /\ UNCHANGED <<page, revisions, links, written, exposed>>
    BY <1>11 DEF BreaksOff, Fails, Done, Ends
  <2>2. EndsOf(e)
    BY <2>1, EndsIs
  <2> QED
    BY <1>11, <2>1, <2>2 DEF KeptInv, EveryBodyIsKept, Unrecorded, NewIsAlone, WikiTypeOK,
         Serves, Same, EndsOf, BreaksOff, Fails
<1>12. CASE UNCHANGED wikiVars
  BY <1>12 DEF wikiVars, wikiHistory, KeptInv, EveryBodyIsKept, Unrecorded
<1> QED
  BY <1>1, <1>2, <1>3, <1>4, <1>5, <1>6, <1>7, <1>8, <1>9, <1>10, <1>11, <1>12 DEF WikiNext

(* Whatever a page has ever said is what it says or in its history, but    *)
(* for what was saved while another request held an older copy.            *)
THEOREM TextIsKept == WikiSpec => []EveryBodyIsKept
<1>1. WikiInit => WikiTypeOK /\ NewIsAlone /\ KeptInv
  BY WikiTypeInit, AloneInit, KeptInit
<1>2. WikiTypeOK /\ NewIsAlone /\ KeptInv /\ [WikiNext]_wikiVars
        => (WikiTypeOK /\ NewIsAlone /\ KeptInv)'
  BY WikiTypeStep, AloneStep, KeptStep
<1>3. KeptInv => EveryBodyIsKept
  BY DEF KeptInv
<1> QED
  BY <1>1, <1>2, <1>3, PTL DEF WikiSpec

----------------------------------------------------------------------------
(***************************************************************************)
(* Links                                                                   *)
(***************************************************************************)

TitlesOf(p) == {l.title : l \in {k \in links : k.source = p}}

(* One request at a time rewrites the links of a page that is not torn,    *)
(* for the text the page has; what it has created and has yet to create    *)
(* is what that text asks for.                                             *)
LinkedFor(p) ==
  /\ \A e, o \in Editors : Linking(e, p) /\ Linking(o, p) => e = o
  /\ (\A e \in Editors : ~Linking(e, p)) => TitlesOf(p) = Mentions[page[p].body]
  /\ \A e \in Editors : Linking(e, p) =>
       /\ editor[e].new.body = page[p].body
       /\ editor[e].pc = "link" =>
            TitlesOf(p) \union editor[e].todo = Mentions[page[p].body]

NoLinkDangles == \A l \in links : l.target = NoPage \/ Exists(l.target)

LinkInv == NoLinkDangles /\ \A p \in Rows \ torn : LinkedFor(p)

LEMMA LinkInit == WikiInit => LinkInv
BY DEF WikiInit, LinkInv, NoLinkDangles

LEMMA Frame ==
  ASSUME NEW q, LinkedFor(q),
         TitlesOf(q)' = TitlesOf(q), page'[q] = page[q],
         \A o \in Editors :
           /\ Linking(o, q)' <=> Linking(o, q)
           /\ Linking(o, q) =>
                /\ editor'[o].new = editor[o].new
                /\ editor'[o].pc = "link" =>
                     editor[o].pc = "link" /\ editor'[o].todo = editor[o].todo
  PROVE  LinkedFor(q)'
BY DEF LinkedFor

(* Steps that write neither links nor pages that are not torn, and after   *)
(* which the same requests rewrite links.                                  *)
LEMMA SameLinkers ==
  ASSUME WikiTypeOK, LinkInv, UNCHANGED <<page, links, torn>>,
         \A o \in Editors, q \in Pages :
           /\ Linking(o, q)' <=> Linking(o, q)
           /\ Linking(o, q) =>
                /\ editor'[o].new = editor[o].new
                /\ editor'[o].pc = "link" =>
                     editor[o].pc = "link" /\ editor'[o].todo = editor[o].todo
  PROVE  LinkInv'
<1>1. NoLinkDangles'
  BY DEF LinkInv, NoLinkDangles
<1>2. ASSUME NEW q \in Rows' \ torn' PROVE LinkedFor(q)'
  <2>1. q \in Rows \ torn /\ TitlesOf(q)' = TitlesOf(q)
    BY <1>2 DEF TitlesOf
  <2> QED
    BY <2>1, Frame DEF LinkInv
<1> QED
  BY <1>1, <1>2 DEF LinkInv

(* A request that fails tears the page whose links it was rewriting.       *)
LEMMA FailsKeepsLinks ==
  ASSUME WikiTypeOK, LinkInv, NEW e \in Editors, Fails(e)
  PROVE  LinkInv'
<1>1. EndsOf(e) /\ UNCHANGED <<page, links>>
  BY EndsIs DEF Fails, Done, Ends
<1>2. torn' = torn \union {p \in Pages : Linking(e, p)}
  BY DEF Fails
<1>3. NoLinkDangles'
  BY <1>1 DEF LinkInv, NoLinkDangles
<1>4. ASSUME NEW q \in Rows' \ torn' PROVE LinkedFor(q)'
  <2>1. q \in Rows \ torn /\ ~Linking(e, q) /\ TitlesOf(q)' = TitlesOf(q)
    BY <1>1, <1>2, <1>4 DEF TitlesOf
  <2>2. ~Linking(e, q)'
    BY <1>1, WikiAssumption DEF Linking, At, EndsOf
  <2>3. \A o \in Editors \ {e} : editor'[o] = editor[o] /\ (Linking(o, q)' <=> Linking(o, q))
    BY <1>1 DEF Linking, At, EndsOf
  <2> QED
    BY <1>1, <2>1, <2>2, <2>3, Frame DEF LinkInv
<1> QED
  BY <1>3, <1>4 DEF LinkInv

LEMMA LinkStep ==
  WikiTypeOK /\ NewIsAlone /\ LinkInv /\ [WikiNext]_wikiVars => LinkInv'
<1> SUFFICES ASSUME WikiTypeOK, NewIsAlone, LinkInv, [WikiNext]_wikiVars
             PROVE  LinkInv'
  OBVIOUS
<1> USE WikiAssumption
<1>1. ASSUME NEW e \in Editors, NEW p \in Pages, New(e, p)
      PROVE  LinkInv'
  <2>1. UNCHANGED <<page, revisions, links, written, exposed, torn>>
    BY <1>1 DEF New, Posted
  <2>2. /\ Serves(e, "insert")
        /\ editor'[e].page = p /\ editor'[e].fresh
        /\ editor'[e].row \in PageRows /\ editor'[e].new = editor'[e].row
    BY <1>1, NewServes
  <2>3. page[p] = NoPage /\ \A o \in Editors : editor[o].page # p
    BY <1>1 DEF New
  <2>5. editor[e].pc = "idle"
    BY <1>1 DEF New, Posted
  <2>4. \A o \in Editors, q \in Pages :
          /\ Linking(o, q)' <=> Linking(o, q)
          /\ Linking(o, q) =>
               /\ editor'[o].new = editor[o].new
               /\ editor'[o].pc = "link" =>
                    editor[o].pc = "link" /\ editor'[o].todo = editor[o].todo
    BY <2>2, <2>5 DEF Linking, At, Serves, Same
  <2> QED
    BY <2>1, <2>4, SameLinkers
<1>2. ASSUME NEW e \in Editors, NEW p \in Pages, Edit(e, p)
      PROVE  LinkInv'
  <2>1. UNCHANGED <<page, revisions, links, written, exposed, torn>>
    BY <1>2 DEF Edit, Posted
  <2>2. /\ Serves(e, "number") /\ editor'[e].page = p
        /\ editor'[e].row = page[p] /\ editor'[e].fresh = FALSE
    BY <1>2, EditServes
  <2>3. Exists(p) /\ editor[e].pc = "idle"
    BY <1>2 DEF Edit, Posted
  <2>4. \A o \in Editors, q \in Pages :
          /\ Linking(o, q)' <=> Linking(o, q)
          /\ Linking(o, q) =>
               /\ editor'[o].new = editor[o].new
               /\ editor'[o].pc = "link" =>
                    editor[o].pc = "link" /\ editor'[o].todo = editor[o].todo
    BY <2>2, <2>3 DEF Linking, At, Serves, Same
  <2> QED
    BY <2>1, <2>4, SameLinkers
<1>3. ASSUME NEW e \in Editors, NEW p \in Pages, Restore(e, p)
      PROVE  LinkInv'
  <2>1. UNCHANGED <<page, revisions, links, written, exposed, torn>>
    BY <1>3 DEF Restore, Posted
  <2>2. /\ Serves(e, "number") /\ editor'[e].page = p
        /\ editor'[e].row = page[p] /\ editor'[e].fresh = FALSE
    BY <1>3, EditServes
  <2>3. Exists(p) /\ editor[e].pc = "idle"
    BY <1>3 DEF Restore, Posted
  <2>4. \A o \in Editors, q \in Pages :
          /\ Linking(o, q)' <=> Linking(o, q)
          /\ Linking(o, q) =>
               /\ editor'[o].new = editor[o].new
               /\ editor'[o].pc = "link" =>
                    editor[o].pc = "link" /\ editor'[o].todo = editor[o].todo
    BY <2>2, <2>3 DEF Linking, At, Serves, Same
  <2> QED
    BY <2>1, <2>4, SameLinkers
<1>4. ASSUME NEW e \in Editors, NEW p \in Pages, Delete(e, p)
      PROVE  LinkInv'
  <2> DEFINE gone == Subtree(p)
  <2> HIDE DEF gone
  <2>1. /\ page' = [q \in Pages |-> IF q \in gone THEN Deleted ELSE page[q]]
        /\ revisions' = [q \in Pages |-> IF q \in gone THEN {} ELSE revisions[q]]
        /\ links' = {[l EXCEPT !.target = IF @ \in gone THEN NoPage ELSE @] :
                       l \in {k \in links : k.source \notin gone}}
        /\ written' = {w \in written : w[1] \notin gone}
        /\ UNCHANGED <<editor, exposed, torn>>
    BY <1>4 DEF Delete, gone
  <2> DEFINE cut(l) == [l EXCEPT !.target = IF @ \in gone THEN NoPage ELSE @]
  <2>2. \A q \in Pages \ gone : page'[q] = page[q]
    BY <2>1 DEF WikiTypeOK
  <2>3. \A q \in gone : q \notin Rows'
    BY <2>1
  <2>4. \A l \in links :
          /\ cut(l).source = l.source /\ cut(l).title = l.title
          /\ cut(l).target = IF l.target \in gone THEN NoPage ELSE l.target
          /\ l.target \in Pages \union {NoPage}
    BY DEF WikiTypeOK, PageLinks
  <2>5. links' = {cut(l) : l \in {k \in links : k.source \notin gone}}
    BY <2>1
  <2> HIDE DEF cut
  <2>6. NoLinkDangles'
    <3>1. ASSUME NEW m \in links'
          PROVE  m.target = NoPage \/ Exists(m.target)'
      <4>1. PICK l \in links : m = cut(l)
        BY <2>5, <3>1
      <4> QED
        BY <2>2, <2>4, <4>1 DEF LinkInv, NoLinkDangles
    <3> QED
      BY <3>1 DEF NoLinkDangles
  <2>7. ASSUME NEW q \in Rows' \ torn' PROVE LinkedFor(q)'
    <3>1. q \in Pages \ gone /\ q \in Rows \ torn /\ page'[q] = page[q]
      BY <2>1, <2>2, <2>3, <2>7
    <3>2. TitlesOf(q)' = TitlesOf(q)
      <4>1. {l \in links' : l.source = q} = {cut(l) : l \in {k \in links : k.source = q}}
        BY <2>4, <2>5, <3>1
      <4> QED
        BY <2>4, <4>1 DEF TitlesOf
    <3>3. \A o \in Editors : (Linking(o, q)' <=> Linking(o, q)) /\ editor'[o] = editor[o]
      BY <2>1 DEF Linking, At
    <3> QED
      BY <3>1, <3>2, <3>3, Frame DEF LinkInv
  <2> QED
    BY <2>6, <2>7 DEF LinkInv
<1>5. ASSUME NEW e \in Editors, Insert(e)
      PROVE  LinkInv'
  <2>1. editor[e].pc = "insert"
    BY <1>5 DEF Insert
  <2>2. CASE Fails(e)
    <3>1. EndsOf(e) /\ UNCHANGED <<page, revisions, links, written, exposed>>
      BY <2>2, EndsIs DEF Fails, Done, Ends
    <3> QED
      BY <2>2, FailsKeepsLinks
  <2>3. CASE /\ Writes(e, editor[e].page, editor[e].row) /\ Goes(e, "number")
             /\ UNCHANGED <<revisions, links, exposed, torn>>
    <3>1. Serves(e, "number") /\ Same(e)
      BY <2>3, GoesOn DEF EditorStages
    <3>2. /\ editor[e].page \in Pages /\ editor[e].row \in PageRows
          /\ page' = [page EXCEPT ![editor[e].page] = editor[e].row]
          /\ written' = written \union {<<editor[e].page, editor[e].row.body>>}
      BY <2>1, <2>3 DEF Writes, WikiTypeOK
    <3> DEFINE p == editor[e].page
    <3>3. /\ ~Exists(p) /\ editor[e].fresh /\ editor[e].row = editor[e].new
          /\ \A o \in Editors \ {e} : editor[o].page # p
      BY <2>1 DEF NewIsAlone
    <3>4. \A q \in Pages \ {p} : page'[q] = page[q]
      BY <3>2 DEF WikiTypeOK
    <3>5. page'[p] = editor[e].row /\ p \in Rows'
      BY <3>2, WikiAssumption DEF WikiTypeOK
    <3>6. NoLinkDangles'
      BY <2>3, <3>4, <3>5 DEF LinkInv, NoLinkDangles, WikiTypeOK, PageLinks
    <3>7. ASSUME NEW q \in Rows' \ torn' PROVE LinkedFor(q)'
      <4>1. CASE q = p
        BY <3>1, <3>3, <3>5, <4>1 DEF LinkedFor, Linking, At, Serves, Same
      <4>2. CASE q # p
        <5>1. q \in Rows \ torn /\ page'[q] = page[q] /\ TitlesOf(q)' = TitlesOf(q)
          BY <2>3, <3>4, <3>7, <4>2 DEF TitlesOf
        <5>2. ~Linking(e, q) /\ ~Linking(e, q)'
          BY <3>1, <4>2 DEF Linking, At, Serves, Same
        <5>3. \A o \in Editors \ {e} : (Linking(o, q)' <=> Linking(o, q)) /\ editor'[o] = editor[o]
          BY <3>1 DEF Linking, At, Serves
        <5> QED
          BY <5>1, <5>2, <5>3, Frame DEF LinkInv
      <4> QED
        BY <4>1, <4>2
    <3> QED
      BY <3>6, <3>7 DEF LinkInv
  <2> QED
    BY <1>5, <2>2, <2>3 DEF Insert
<1>6. ASSUME NEW e \in Editors, Number(e)
      PROVE  LinkInv'
  <2>1. Serves(e, "snapshot") /\ Same(e)
    BY <1>6, NumberServes
  <2>2. UNCHANGED <<page, revisions, links, written, exposed, torn>> /\ editor[e].pc = "number"
    BY <1>6 DEF Number
  <2>3. \A o \in Editors, q \in Pages :
          /\ Linking(o, q)' <=> Linking(o, q)
          /\ Linking(o, q) =>
               /\ editor'[o].new = editor[o].new
               /\ editor'[o].pc = "link" =>
                    editor[o].pc = "link" /\ editor'[o].todo = editor[o].todo
    BY <2>1, <2>2 DEF Linking, At, Serves, Same
  <2> QED
    BY <2>1, <2>2, <2>3, SameLinkers
<1>7. ASSUME NEW e \in Editors, Snapshot(e)
      PROVE  LinkInv'
  <2>1. editor[e].pc = "snapshot"
    BY <1>7 DEF Snapshot
  <2>2. CASE Fails(e)
    <3>1. EndsOf(e) /\ UNCHANGED <<page, revisions, links, written, exposed>>
      BY <2>2, EndsIs DEF Fails, Done, Ends
    <3> QED
      BY <2>2, FailsKeepsLinks
  <2>3. CASE /\ revisions' = [revisions EXCEPT ![editor[e].page] =
                  @ \union {[number |-> editor[e].last + 1, title |-> editor[e].row.title,
                             body |-> editor[e].row.body]}]
             /\ Goes(e, IF editor[e].fresh THEN "unlink" ELSE "save")
             /\ UNCHANGED <<page, links, wikiHistory>>
    <3>1. Serves(e, IF editor[e].fresh THEN "unlink" ELSE "save") /\ Same(e)
      BY <2>3, GoesOn DEF EditorStages
    <3>2. editor[e].page \in Pages
      BY <2>1 DEF WikiTypeOK
    <3>3. \A o \in Editors, q \in Pages :
            /\ Linking(o, q)' <=> Linking(o, q)
            /\ Linking(o, q) =>
                 /\ editor'[o].new = editor[o].new
                 /\ editor'[o].pc = "link" =>
                      editor[o].pc = "link" /\ editor'[o].todo = editor[o].todo
      BY <2>1, <3>1 DEF Linking, At, Serves, Same
    <3> QED
      BY <2>3, <3>3, SameLinkers
  <2> QED
    BY <1>7, <2>2, <2>3 DEF Snapshot
<1>8. ASSUME NEW e \in Editors, Save(e)
      PROVE  LinkInv'
  <2>1. editor[e].pc = "save"
    BY <1>8 DEF Save
  <2>2. CASE Fails(e)
    <3>1. EndsOf(e) /\ UNCHANGED <<page, revisions, links, written, exposed>>
      BY <2>2, EndsIs DEF Fails, Done, Ends
    <3> QED
      BY <2>2, FailsKeepsLinks
  <2>3. CASE ~Fails(e)
    <3>0. /\ Writes(e, editor[e].page, editor[e].new) /\ Goes(e, "unlink")
          /\ UNCHANGED <<revisions, links>>
      BY <1>8, <2>3 DEF Save
    <3>1. Serves(e, "unlink") /\ Same(e)
      BY <3>0, GoesOn DEF EditorStages
    <3>2. /\ editor[e].page \in Pages /\ editor[e].new \in PageRows
          /\ page' = [page EXCEPT ![editor[e].page] = editor[e].new]
          /\ written' = written \union {<<editor[e].page, editor[e].new.body>>}
          /\ UNCHANGED <<revisions, links>>
      BY <2>1, <3>0 DEF Writes, WikiTypeOK
    <3> DEFINE p == editor[e].page
    <3>3. /\ \A q : q # p => (q \in torn' <=> q \in torn)
          /\ p \notin torn' => \A o \in Editors \ {e} : ~Linking(o, p)
      BY <1>8, <2>3 DEF Save
    <3>4. \A q \in Pages \ {p} : page'[q] = page[q]
      BY <3>2 DEF WikiTypeOK
    <3>5. page'[p] = editor[e].new /\ p \in Rows'
      BY <3>2, WikiAssumption DEF WikiTypeOK
    <3>6. NoLinkDangles'
      BY <3>2, <3>4, <3>5 DEF LinkInv, NoLinkDangles, WikiTypeOK, PageLinks
    <3>7. \A o \in Editors \ {e}, q \in Pages :
            (Linking(o, q)' <=> Linking(o, q)) /\ editor'[o] = editor[o]
      BY <3>1 DEF Linking, At, Serves
    <3>8. ASSUME NEW q \in Rows' \ torn' PROVE LinkedFor(q)'
      <4>1. CASE q = p
        BY <3>1, <3>3, <3>5, <3>7, <3>8, <4>1 DEF LinkedFor, Linking, At, Serves, Same
      <4>2. CASE q # p
        <5>1. q \in Rows \ torn /\ page'[q] = page[q] /\ TitlesOf(q)' = TitlesOf(q)
          BY <3>2, <3>3, <3>4, <3>8, <4>2 DEF TitlesOf
        <5>2. ~Linking(e, q) /\ ~Linking(e, q)'
          BY <3>1, <4>2 DEF Linking, At, Serves, Same
        <5> QED
          BY <3>7, <5>1, <5>2, Frame DEF LinkInv
      <4> QED
        BY <4>1, <4>2
    <3> QED
      BY <3>6, <3>8 DEF LinkInv
  <2> QED
    BY <2>2, <2>3
<1>9. ASSUME NEW e \in Editors, Unlink(e)
      PROVE  LinkInv'
  <2>1. /\ editor[e].pc = "unlink" /\ UNCHANGED <<page, revisions, wikiHistory>>
        /\ editor[e].page \in Pages
        /\ links' = {l \in links : l.source # editor[e].page}
    BY <1>9 DEF Unlink, WikiTypeOK
  <2> DEFINE asked == Mentions[editor[e].new.body]
  <2>2. asked \in SUBSET Titles /\ LinkRest(e, asked)
    BY <1>9, <2>1, WikiAssumption DEF Unlink, WikiTypeOK, PageRows
  <2> HIDE DEF asked
  <2>3. \/ asked = {} /\ EndsOf(e)
        \/ Serves(e, "link") /\ Same(e) /\ editor'[e].todo = asked
    BY <2>2, LinkRestServes, EndsIs
  <2> DEFINE p == editor[e].page
  <2>4. NoLinkDangles'
    BY <2>1 DEF LinkInv, NoLinkDangles
  <2>5. \A o \in Editors \ {e}, q \in Pages :
          (Linking(o, q)' <=> Linking(o, q)) /\ editor'[o] = editor[o]
    BY <2>3 DEF Linking, At, Serves, EndsOf
  <2>6. \A q \in Pages \ {p} : ~Linking(e, q) /\ ~Linking(e, q)'
    BY <2>1, <2>3, WikiAssumption DEF Linking, At, Serves, Same, EndsOf
  <2>7. ASSUME NEW q \in Rows' \ torn' PROVE LinkedFor(q)'
    <3>1. q \in Rows \ torn /\ page'[q] = page[q]
      BY <2>1, <2>7
    <3>2. CASE q = p
      <4>1. TitlesOf(q)' = {}
        BY <2>1, <3>2 DEF TitlesOf
      <4>2. Linking(e, q) /\ LinkedFor(q)
        BY <2>1, <3>1, <3>2 DEF Linking, At, LinkInv
      <4>3. asked = Mentions[page'[q].body]
            /\ \A o \in Editors \ {e} : ~Linking(o, q) /\ ~Linking(o, q)'
        BY <2>1, <2>5, <3>1, <3>2, <4>2 DEF LinkedFor, asked
      <4>4. CASE asked = {} /\ EndsOf(e)
        <5>1. ~Linking(e, q)'
          BY <2>1, <3>2, <4>4, WikiAssumption DEF Linking, At, EndsOf
        <5> QED
          BY <3>2, <4>1, <4>3, <4>4, <5>1 DEF LinkedFor
      <4>5. CASE Serves(e, "link") /\ Same(e) /\ editor'[e].todo = asked
        <5>1. editor'[e].new.body = page'[q].body
          BY <3>1, <3>2, <4>2, <4>5 DEF LinkedFor, Same
        <5>2. \A o \in Editors : Linking(o, q)' => o = e
          BY <4>3
        <5>3. Linking(e, q)'
          BY <2>1, <3>2, <4>5 DEF Linking, At, Serves, Same
        <5> QED
          BY <3>2, <4>1, <4>3, <4>5, <5>1, <5>2, <5>3 DEF LinkedFor
      <4> QED
        BY <2>3, <4>4, <4>5
    <3>3. CASE q # p
      <4>1. TitlesOf(q)' = TitlesOf(q)
        BY <2>1, <3>3 DEF TitlesOf
      <4> QED
        BY <2>5, <2>6, <3>1, <3>3, <4>1, Frame DEF LinkInv
    <3> QED
      BY <3>2, <3>3
  <2> QED
    BY <2>4, <2>7 DEF LinkInv
<1>10. ASSUME NEW e \in Editors, Link(e)
      PROVE  LinkInv'
  <2>1. /\ editor[e].pc = "link" /\ editor[e].page \in Pages
        /\ editor[e].todo \in SUBSET Titles
    BY <1>10 DEF Link, WikiTypeOK, Requests
  <2>2. CASE Fails(e)
    <3>1. EndsOf(e) /\ UNCHANGED <<page, revisions, links, written, exposed>>
      BY <2>2, EndsIs DEF Fails, Done, Ends
    <3> QED
      BY <2>2, FailsKeepsLinks
  <2>3. ASSUME NEW t \in editor[e].todo, NEW to \in Rows \union {NoPage},
               links' = links \union {[source |-> editor[e].page, target |-> to, title |-> t]},
               LinkRest(e, editor[e].todo \ {t}),
               UNCHANGED <<page, revisions, wikiHistory>>
        PROVE  LinkInv'
    <3>1. \/ editor[e].todo \ {t} = {} /\ EndsOf(e)
          \/ Serves(e, "link") /\ Same(e) /\ editor'[e].todo = editor[e].todo \ {t}
      <4> DEFINE rest == editor[e].todo \ {t}
      <4>1. rest \in SUBSET Titles
        BY <2>1
      <4> HIDE DEF rest
      <4>2. LinkRest(e, rest)
        BY <2>3 DEF rest
      <4>3. (rest = {} /\ EndsOf(e)) \/ (Serves(e, "link") /\ Same(e) /\ editor'[e].todo = rest)
        BY <4>1, <4>2, LinkRestServes, EndsIs
      <4> QED
        BY <4>3 DEF rest
    <3> DEFINE p == editor[e].page
               rest == editor[e].todo \ {t}
    <3>2. NoLinkDangles'
      BY <2>3 DEF LinkInv, NoLinkDangles
    <3>3. \A o \in Editors \ {e}, q \in Pages :
            (Linking(o, q)' <=> Linking(o, q)) /\ editor'[o] = editor[o]
      BY <3>1 DEF Linking, At, Serves, EndsOf
    <3>4. \A q \in Pages \ {p} : ~Linking(e, q) /\ ~Linking(e, q)'
      BY <2>1, <3>1, WikiAssumption DEF Linking, At, Serves, Same, EndsOf
    <3>5. ASSUME NEW q \in Rows' \ torn' PROVE LinkedFor(q)'
      <4>1. q \in Rows \ torn /\ page'[q] = page[q]
        BY <2>3, <3>5
      <4>2. CASE q = p
        <5>1. TitlesOf(q)' = TitlesOf(q) \union {t}
          <6> DEFINE new == [source |-> q, target |-> to, title |-> t]
          <6>1. new.source = q /\ new.title = t
            OBVIOUS
          <6>2. links' = links \union {new}
            BY <2>3, <4>2
          <6> HIDE DEF new
          <6>3. {l \in links' : l.source = q} = {l \in links : l.source = q} \union {new}
            BY <6>1, <6>2
          <6> QED
            BY <6>1, <6>3 DEF TitlesOf
        <5>2. Linking(e, q) /\ LinkedFor(q)
          BY <2>1, <4>1, <4>2 DEF Linking, At, LinkInv
        <5>3. TitlesOf(q)' \union rest = Mentions[page'[q].body]
              /\ editor[e].new.body = page'[q].body
              /\ \A o \in Editors \ {e} : ~Linking(o, q) /\ ~Linking(o, q)'
          BY <2>1, <2>3, <3>3, <4>1, <4>2, <5>1, <5>2 DEF LinkedFor
        <5>4. CASE rest = {} /\ EndsOf(e)
          <6>1. ~Linking(e, q)'
            BY <2>1, <4>2, <5>4, WikiAssumption DEF Linking, At, EndsOf
          <6> QED
            BY <4>2, <5>3, <5>4, <6>1 DEF LinkedFor
        <5>5. CASE Serves(e, "link") /\ Same(e) /\ editor'[e].todo = rest
          <6>1. editor'[e].new.body = page'[q].body
            BY <5>3, <5>5 DEF Same
          <6>2. \A o \in Editors : Linking(o, q)' => o = e
            BY <5>3
          <6>3. Linking(e, q)'
            BY <2>1, <4>2, <5>5 DEF Linking, At, Serves, Same
          <6> QED
            BY <4>2, <5>3, <5>5, <6>1, <6>2, <6>3 DEF LinkedFor
        <5> QED
          BY <3>1, <5>4, <5>5
      <4>3. CASE q # p
        <5>1. TitlesOf(q)' = TitlesOf(q)
          BY <2>3, <4>3 DEF TitlesOf
        <5> QED
          BY <3>3, <3>4, <4>1, <4>3, <5>1, Frame DEF LinkInv
      <4> QED
        BY <4>2, <4>3
    <3> QED
      BY <3>2, <3>5 DEF LinkInv
  <2> QED
    BY <1>10, <2>2, <2>3 DEF Link, Meant
<1>11. ASSUME NEW e \in Editors, BreaksOff(e)
      PROVE  LinkInv'
  <2>1. Ends(e) /\ UNCHANGED <<page, revisions, links, written, exposed>>
    BY <1>11 DEF BreaksOff, Fails, Done, Ends
  <2>2. EndsOf(e)
    BY <2>1, EndsIs
  <2> QED
    BY <1>11, FailsKeepsLinks DEF BreaksOff
<1>12. CASE UNCHANGED wikiVars
  BY <1>12 DEF wikiVars, wikiHistory, LinkInv, LinkedFor, NoLinkDangles, TitlesOf, Linking, At
<1> QED
  BY <1>1, <1>2, <1>3, <1>4, <1>5, <1>6, <1>7, <1>8, <1>9, <1>10, <1>11, <1>12 DEF WikiNext

(* Once nobody is at work on it, a page that is not torn has the links its *)
(* text asks for, and none leads to a page that is gone.                   *)
THEOREM LinksAreRight == WikiSpec => []LinksMatchBody
<1>1. WikiInit => WikiTypeOK /\ NewIsAlone /\ LinkInv
  BY WikiTypeInit, AloneInit, LinkInit
<1>2. WikiTypeOK /\ NewIsAlone /\ LinkInv /\ [WikiNext]_wikiVars
        => (WikiTypeOK /\ NewIsAlone /\ LinkInv)'
  BY WikiTypeStep, AloneStep, LinkStep
<1>3. LinkInv => LinksMatchBody
  BY DEF LinkInv, LinkedFor, NoLinkDangles, TitlesOf, LinksMatchBody
<1> QED
  BY <1>1, <1>2, <1>3, PTL DEF WikiSpec
==============================================================================
