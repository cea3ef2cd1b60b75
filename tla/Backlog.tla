------------------------------ MODULE Backlog ------------------------------
(***************************************************************************)
(* The tickets of the backlog (issues/services.py, views.py, signals.py):  *)
(* they are filed and given a key, edited, moved, picked up by agents,     *)
(* created and advanced by the remediation loop, and set to Done when the  *)
(* pull request they are linked to is merged.                              *)
(*                                                                         *)
(* No row is locked and no key is unique by a constraint.  A request or a  *)
(* thread works on the copy of a row it read, and writes some columns of   *)
(* it or, the form of a ticket, all of them.                               *)
(***************************************************************************)
EXTENDS Naturals, Sequences, FiniteSets, FiniteSetsExt

CONSTANTS
  Orgs,          (* organisations; Shared is the row without one           *)
  Prefixes,      (* prefixes of the boards; Hull is that of no board       *)
  Hull,
  Incidents,     (* incidents the loop works on                            *)
  PullRequests,
  Workers,       (* requests and threads                                   *)
  Asked,         (* statuses the forms are submitted with                  *)
  MaxJobs,       (* things they are asked to do (bound)                    *)
  Shared,
  None

Statuses == {"backlog", "todo", "in_progress", "in_review", "done"}

ASSUME BacklogAssumption ==
  /\ Hull \in Prefixes /\ MaxJobs \in Nat /\ Asked \subseteq Statuses
  /\ Shared \notin Orgs /\ None \notin Incidents \union PullRequests

VARIABLES
  tickets,   (* Ticket rows, in the order of their primary keys            *)
  merged,    (* pull requests whose row says merged                        *)
  worker,    (* what each request or thread does                           *)
  together,  (* history: tickets keyed while another key was being minted  *)
  overtaken, (* history: tickets saved whole from a copy without their key *)
  touched,   (* history: tickets somebody wrote status or link of after    *)
             (* the pull request they were or came to be linked to merged, *)
             (* or whose advance to Done broke off                         *)
  jobs

backlogHistory == <<together, overtaken, touched>>
backlogVars == <<tickets, merged, worker, together, overtaken, touched, jobs>>

----------------------------------------------------------------------------
(* A worker holds the ticket in hand and its row as it was read, the       *)
(* number it minted, what the loop calls ticket_for_incident with, and the *)
(* copies of the tickets a merge has yet to advance.                       *)
Free == [pc |-> "idle", ticket |-> 0, copy |-> None, number |-> 0,
         incident |-> None, pr |-> None, call |-> 0, todo |-> {}]

BacklogInit ==
  /\ tickets   = <<>>
  /\ merged    = {}
  /\ worker    = [w \in Workers |-> Free]
  /\ together  = {}
  /\ overtaken = {}
  /\ touched   = {}
  /\ jobs      = 0

Job(w) ==
  /\ worker[w].pc = "idle"
  /\ jobs < MaxJobs
  /\ jobs' = jobs + 1

Does(w, v) == worker' = [worker EXCEPT ![w] = v]

(* The status or the link of a ticket is written by other than the merge   *)
(* handler.                                                                *)
Touch(t, row) ==
  touched' = IF row.pr \in merged THEN touched \union {t} ELSE touched

Write(t, row) == tickets' = [tickets EXCEPT ![t] = row] /\ Touch(t, row)

Ticket(org, prefix, status, incident, pr) ==
  [org |-> org, prefix |-> prefix, number |-> 0, status |-> status,
   incident |-> incident, pr |-> pr]

(* A row is inserted with a blank key, here the number 0.                  *)
Create(w, row, v) ==
  LET t == Len(tickets) + 1 IN
  /\ tickets' = Append(tickets, row)
  /\ Touch(t, row)
  /\ Does(w, [v EXCEPT !.pc = "mint", !.ticket = t])

----------------------------------------------------------------------------
(***************************************************************************)
(* Filing                                                                  *)
(***************************************************************************)

(* file_ticket: by the form for its organisation, by agents without one.   *)
File(w) ==
  /\ Job(w)
  /\ \E o \in Orgs \union {Shared}, x \in Prefixes, s \in Asked :
       Create(w, Ticket(o, x, s, None, None), Free)
  /\ UNCHANGED <<merged, together, overtaken>>

(* Mutant: the tickets are counted, not their numbers.                     *)
NextKey_Counts(org, prefix) ==
  1 + Cardinality({t \in DOMAIN tickets : /\ tickets[t].prefix = prefix
                                          /\ tickets[t].number # 0
                                          /\ tickets[t].org = org})

(* next_ticket_key: one more than the highest number of the prefix in the  *)
(* organisation; without one, in all of them.                              *)
NextKey(org, prefix) ==
  1 + Max({0} \union {tickets[t].number :
                        t \in {u \in DOMAIN tickets :
                                 /\ tickets[u].prefix = prefix
                                 /\ org = Shared \/ tickets[u].org = org}})

Minting(w) ==
  LET row == tickets[worker[w].ticket] IN <<row.prefix, row.org>>

Mint(w) ==
  LET v    == worker[w]
      row  == tickets[v.ticket]
      with == {o \in Workers \ {w} : /\ worker[o].pc = "key"
                                     /\ Minting(o) = Minting(w)}
  IN
  /\ v.pc = "mint"
  /\ Does(w, [v EXCEPT !.pc = "key", !.number = NextKey(row.org, row.prefix)])
  /\ together' = IF with = {} THEN together
                 ELSE together \union {worker[o].ticket : o \in with \union {w}}
  /\ UNCHANGED <<tickets, merged, overtaken, touched, jobs>>

(* The key is saved alone; the loop goes on with the ticket it filed.      *)
Key(w) ==
  LET v == worker[w] IN
  /\ v.pc = "key"
  /\ tickets' = [tickets EXCEPT ![v.ticket].number = v.number]
  /\ Does(w, IF v.incident = None THEN Free ELSE [v EXCEPT !.pc = "hook"])
  /\ UNCHANGED <<merged, backlogHistory, jobs>>

----------------------------------------------------------------------------
(***************************************************************************)
(* The forms of a ticket                                                   *)
(***************************************************************************)

(* set_status, card_status                                                 *)
SetStatus(w, t) ==
  /\ Job(w)
  /\ \E s \in Asked \ {tickets[t].status} :
       Write(t, [tickets[t] EXCEPT !.status = s])
  /\ UNCHANGED <<merged, worker, together, overtaken>>

(* ticket_work: an agent is launched and the ticket picked up for it,      *)
(* whatever its status.                                                    *)
Work(w, t) ==
  /\ Job(w)
  /\ Write(t, [tickets[t] EXCEPT !.status = "in_progress"])
  /\ UNCHANGED <<merged, worker, together, overtaken>>

(* ticket_edit reads the row ...                                           *)
OpenForm(w, t) ==
  /\ Job(w)
  /\ Does(w, [Free EXCEPT !.pc = "edit", !.ticket = t, !.copy = tickets[t]])
  /\ UNCHANGED <<tickets, merged, backlogHistory>>

(* ... and saves it with what the form holds, none of which is modelled,   *)
(* and every other column as it was.                                       *)
SaveForm(w) ==
  LET v == worker[w] IN
  /\ v.pc = "edit"
  /\ Write(v.ticket, v.copy)
  /\ overtaken' = IF v.copy.number = 0 THEN overtaken \union {v.ticket} ELSE overtaken
  /\ Does(w, Free)
  /\ UNCHANGED <<merged, together, jobs>>

----------------------------------------------------------------------------
(***************************************************************************)
(* The remediation loop: ticket_for_incident at its start, after the agent *)
(* has opened a pull request, and at its end.                              *)
(***************************************************************************)

Calls == <<"todo", "in_progress", "done">>

LoopStarts(w, i) ==
  /\ Job(w)
  /\ \A o \in Workers : worker[o].incident # i
  /\ Does(w, [Free EXCEPT !.pc = "look", !.incident = i, !.call = 1])
  /\ UNCHANGED <<tickets, merged, backlogHistory>>

Of(i) == {t \in DOMAIN tickets : tickets[t].incident = i}

(* The oldest ticket of the incident is read, or one is filed.  The        *)
(* project of the incident may or may not have an organisation.            *)
LoopLooks(w) ==
  LET v == worker[w]
      status == Calls[v.call]
  IN
  /\ v.pc = "look"
  /\ IF Of(v.incident) # {}
     THEN /\ Does(w, [v EXCEPT !.pc = "update", !.ticket = Min(Of(v.incident)),
                               !.copy = tickets[Min(Of(v.incident))]])
          /\ UNCHANGED <<tickets, touched>>
     ELSE \E o \in Orgs \union {Shared} :
            Create(w, Ticket(o, Hull, status, v.incident, v.pr), v)
  /\ UNCHANGED <<merged, together, overtaken, jobs>>

(* Of status and link those are written that differ from the copy.         *)
LoopUpdates(w) ==
  LET v == worker[w]
      row == tickets[v.ticket]
      status == Calls[v.call]
      new == [row EXCEPT
                !.pr     = IF v.pr # None /\ v.copy.pr # v.pr THEN v.pr ELSE @,
                !.status = IF v.copy.status # status THEN status ELSE @]
  IN
  /\ v.pc = "update"
  /\ IF v.pr \in {None, v.copy.pr} /\ v.copy.status = status
     THEN UNCHANGED <<tickets, touched>>
     ELSE Write(v.ticket, new)
  /\ Does(w, [v EXCEPT !.pc = "hook"])
  /\ UNCHANGED <<merged, together, overtaken, jobs>>

(* Between its calls the agent opens a pull request, which anybody may     *)
(* merge; the loop merges it itself before the last one.                   *)
LoopGoesOn(w) ==
  LET v == worker[w] IN
  /\ v.pc = "hook"
  /\ CASE v.call = 1 ->
            \E p \in PullRequests :
              /\ p \notin merged /\ \A o \in Workers : worker[o].pr # p
              /\ \A t \in DOMAIN tickets : tickets[t].pr # p
              /\ Does(w, [v EXCEPT !.pc = "look", !.pr = p, !.call = 2])
       [] v.call = 2 -> v.pr \in merged /\ Does(w, [v EXCEPT !.pc = "look", !.call = 3])
       [] v.call = 3 -> Does(w, Free)
  /\ UNCHANGED <<tickets, merged, backlogHistory, jobs>>

----------------------------------------------------------------------------
(***************************************************************************)
(* signals.py: a pull request is saved as merged.                          *)
(***************************************************************************)

Opened(p) == \/ \E w \in Workers : worker[w].pr = p /\ worker[w].pc # "advance"
             \/ \E t \in DOMAIN tickets : tickets[t].pr = p

MergeSaved(w, p) ==
  /\ Job(w)
  /\ Opened(p)
  /\ merged' = merged \union {p}
  /\ Does(w, [Free EXCEPT !.pc = "query", !.pr = p])
  /\ UNCHANGED <<tickets, backlogHistory>>

(* Mutant: only what is in progress is advanced.                           *)
Linked_InProgress(p) ==
  {t \in DOMAIN tickets : tickets[t].pr = p /\ tickets[t].status = "in_progress"}

(* advance_tickets_for_merged_pr: the tickets linked to it ...             *)
Linked(p) == {t \in DOMAIN tickets : tickets[t].pr = p}

Query(w) ==
  LET v == worker[w]
      hits == {t \in Linked(v.pr) : tickets[t].status # "done"}
  IN
  /\ v.pc = "query"
  /\ Does(w, IF hits = {} THEN Free ELSE [v EXCEPT !.pc = "advance", !.todo = hits])
  /\ UNCHANGED <<tickets, merged, backlogHistory, jobs>>

(* ... that were not Done are set Done, whatever has become of them since. *)
Advance(w) ==
  LET v == worker[w] IN
  /\ v.pc = "advance"
  /\ \E t \in v.todo :
       /\ tickets' = [tickets EXCEPT ![t].status = "done"]
       /\ Does(w, IF v.todo = {t} THEN Free ELSE [v EXCEPT !.todo = @ \ {t}])
  /\ UNCHANGED <<merged, backlogHistory, jobs>>

(* A statement raises, or the process is restarted.                        *)
BreaksOffWork(w) ==
  LET v == worker[w] IN
  /\ v.pc # "idle"
  /\ touched' = IF v.pc \in {"query", "advance"} THEN touched \union Linked(v.pr)
                                                 ELSE touched
  /\ Does(w, Free)
  /\ UNCHANGED <<tickets, merged, together, overtaken, jobs>>

BacklogNext ==
  \E w \in Workers :
    \/ File(w) \/ Mint(w) \/ Key(w) \/ SaveForm(w)
    \/ \E t \in DOMAIN tickets : SetStatus(w, t) \/ Work(w, t) \/ OpenForm(w, t)
    \/ \E i \in Incidents : LoopStarts(w, i)
    \/ LoopLooks(w) \/ LoopUpdates(w) \/ LoopGoesOn(w)
    \/ \E p \in PullRequests : MergeSaved(w, p)
    \/ Query(w) \/ Advance(w) \/ BreaksOffWork(w)

BacklogSpec == BacklogInit /\ [][BacklogNext]_backlogVars

----------------------------------------------------------------------------
(***************************************************************************)
(* Properties                                                              *)
(***************************************************************************)

(* A key names one ticket of an organisation: two with the same key were   *)
(* minted at the same time (services.py:129-130 reads a maximum and saves  *)
(* it plus one), or the form of one of them was open before it had its key *)
(* and took the key away again when it was saved (views.py:396-408).       *)
KeysAreUnique ==
  \A a, b \in DOMAIN tickets :
    /\ a # b
    /\ <<tickets[a].org, tickets[a].prefix>> = <<tickets[b].org, tickets[b].prefix>>
    /\ tickets[a].number = tickets[b].number
    /\ tickets[a].number # 0
    => {a, b} \subseteq together \/ {a, b} \intersect overtaken # {}

(* A ticket that was linked to a pull request when it was merged is Done   *)
(* once the handler of the merge has run, unless somebody has written its  *)
(* status or its link since.                                               *)
MergedTicketIsDone ==
  \A t \in DOMAIN tickets \ touched :
    LET p == tickets[t].pr IN
      p \in merged /\ (\A w \in Workers : worker[w].pr = p =>
                          worker[w].pc \notin {"query", "advance"})
      => tickets[t].status = "done"
=============================================================================
