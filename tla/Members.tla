------------------------------ MODULE Members ------------------------------
(***************************************************************************)
(* Who belongs to an organisation, as what, and who may say so:            *)
(* accounts/ (sign-up, the members and invitations pages, the middleware   *)
(* that finds the organisation of a request) and enterprise/ (its own      *)
(* members page, API keys, the audit log).                                 *)
(*                                                                         *)
(* Two consoles change the same Membership rows, each with guards of its   *)
(* own.  A request reads rows, decides, and writes in later statements;    *)
(* requests of several threads interleave between them.                    *)
(***************************************************************************)
EXTENDS Naturals, Sequences, FiniteSets

CONSTANTS
  Users,        (* people with an account                                  *)
  Orgs,         (* organisations that may be founded                       *)
  Invites,      (* invitations that may be sent                            *)
  Keys,         (* API keys that may be made                               *)
  Threads,      (* threads of the server processes                         *)
  Offered,      (* roles the members forms are submitted with              *)
  OfferedNew,   (* roles the invitation form is submitted with             *)
  MaxAudits,    (* rows of the audit log about members (bound)             *)
  MaxFaults,    (* statements that raise (bound)                           *)
  Nothing

Roles    == {"owner", "admin", "member", "viewer"}
Standing == Roles \union {"none"}
Consoles == {"accounts", "enterprise"}

ASSUME MembersAssumption ==
  /\ Offered \subseteq Roles /\ OfferedNew \subseteq Roles
  /\ MaxAudits \in Nat /\ MaxFaults \in Nat
  /\ Nothing \notin Users \union Orgs \union Invites \union Keys

VARIABLES
  orgs,      (* Org rows                                                   *)
  role,      (* Membership.role by organisation and user; "none": no row   *)
  invite,    (* Invitation rows                                            *)
  key,       (* ApiKey rows                                                *)
  audit,     (* AuditLog rows of changes to members, oldest first          *)
  req,       (* the request each thread serves                             *)
  owned,     (* history: organisations that ever had an owner              *)
  raced,     (* history: organisations in which two requests that might    *)
             (* take an owner away overlapped                              *)
  tangled,   (* history: memberships with more than one writer             *)
  faults

rows    == <<orgs, role, invite, key, audit>>
history == <<owned, raced, tangled>>
vars == <<orgs, role, invite, key, audit, req, owned, raced, tangled,
          faults>>

----------------------------------------------------------------------------
Idle == [pc |-> "idle", user |-> Nothing, org |-> Nothing, target |-> Nothing,
         console |-> "accounts", old |-> "none", new |-> "none",
         row |-> Nothing]

NoInvite == [state |-> "none", org |-> Nothing, role |-> "none"]
NoKey    == [state |-> "none", org |-> Nothing]

Init ==
  /\ orgs    = {}
  /\ role    = [o \in Orgs |-> [u \in Users |-> "none"]]
  /\ invite  = [i \in Invites |-> NoInvite]
  /\ key     = [k \in Keys |-> NoKey]
  /\ audit   = <<>>
  /\ req     = [t \in Threads |-> Idle]
  /\ owned   = {}
  /\ raced   = {}
  /\ tangled = {}
  /\ faults  = 0

Free(t) == req[t].pc = "idle"

(* The response is sent, and clear_current_org() leaves nothing behind.    *)
Return(t) == req' = [req EXCEPT ![t] = Idle]

Fault == faults < MaxFaults /\ faults' = faults + 1

MemberOf(u) == {o \in Orgs : role[o][u] # "none"}

(* CurrentOrgMiddleware, org_required: the organisation of the session, or *)
(* another one the user is a member of, as the membership is today.  Which *)
(* one the session names (login, switch_org) is left open.                 *)
RequestOrg(u, o) == o \in MemberOf(u)

(* Membership.can_admin; has_role(request, "admin")                        *)
CanAdmin(o, u) == role[o][u] \in {"owner", "admin"}

Owners(o) == {u \in Users : role[o][u] = "owner"}

----------------------------------------------------------------------------
(* Entries of the audit log about a membership, and whether it has some or *)
(* is about to: a change that leaves none then breaks its trail.           *)
About(o, u) ==
  {n \in DOMAIN audit : audit[n].org = o /\ audit[n].user = u}

HasTrail(o, u) ==
  \/ About(o, u) # {}
  \/ \E t \in Threads : req[t].pc = "audit" /\ req[t].org = o /\ req[t].target = u

Untold(o, u) ==
  tangled' = IF HasTrail(o, u) THEN tangled \union {<<o, u>>} ELSE tangled

(***************************************************************************)
(* Organisations                                                           *)
(***************************************************************************)

(* signup and onboarding: the organisation first, its owner after.         *)
Found(t, u, o) ==
  /\ Free(t)
  /\ o \notin orgs
  /\ orgs' = orgs \union {o}
  /\ req' = [req EXCEPT ![t] =
         [Idle EXCEPT !.pc = "own", !.user = u, !.org = o]]
  /\ UNCHANGED <<role, invite, key, audit, history, faults>>

Own(t) ==
  LET o == req[t].org
      u == req[t].user
  IN
  /\ req[t].pc = "own"
  /\ role' = [role EXCEPT ![o][u] = "owner"]
  /\ owned' = owned \union {o}
  /\ Return(t)
  /\ UNCHANGED <<orgs, invite, key, audit, raced, tangled, faults>>

----------------------------------------------------------------------------
(***************************************************************************)
(* Members.  A request enters a console with everything it will decide on  *)
(* read: the organisation, the membership of the actor, the row of the     *)
(* target and the number of owners.                                        *)
(***************************************************************************)

(* The last-owner guard of both consoles                                   *)
IsLastOwner(o, u) == role[o][u] = "owner" /\ Owners(o) \subseteq {u}

(* Only the members page of accounts asks that an owner changes an owner.  *)
MayTouch(console, o, actor, u) ==
  console = "accounts" =>
    (role[o][u] = "owner" => role[o][actor] = "owner")

(* What a request may do to an owner: "none" takes the membership away.    *)
Takes(r, o) == r.pc = "apply" /\ r.org = o /\ r.new # "owner"

(* Mutant: the guard counts the owners and forgets that one goes.          *)
Allowed_CountsItself(console, o, actor, u, new) ==
  /\ MayTouch(console, o, actor, u)
  /\ new # "owner" => Owners(o) # {}

(* change_role, remove_member, member_role and member_remove, as far as    *)
(* they refuse                                                             *)
Allowed(console, o, actor, u, new) ==
  /\ MayTouch(console, o, actor, u)
  /\ new # "owner" => ~IsLastOwner(o, u)

Enter(t, actor, o, console, u, new) ==
  /\ Free(t)
  /\ RequestOrg(actor, o) /\ CanAdmin(o, actor)
  /\ role[o][u] # "none" /\ role[o][u] # new
  /\ Allowed(console, o, actor, u, new)
  /\ Len(audit) < MaxAudits
  /\ req' = [req EXCEPT ![t] =
         [Idle EXCEPT !.pc = "apply", !.user = actor, !.org = o, !.target = u,
                      !.console = console, !.old = role[o][u], !.new = new]]
  /\ raced' = IF new # "owner" /\ \E q \in Threads : Takes(req[q], o)
              THEN raced \union {o} ELSE raced
  /\ tangled' = IF \E q \in Threads : req[q].org = o /\ req[q].target = u
                THEN tangled \union {<<o, u>>} ELSE tangled
  /\ UNCHANGED <<orgs, role, invite, key, audit, owned, faults>>

ChangeRole(t, actor, o, u, new)  == Enter(t, actor, o, "accounts", u, new)
RemoveMember(t, actor, o, u)     == Enter(t, actor, o, "accounts", u, "none")
MemberRole(t, actor, o, u, new)  == Enter(t, actor, o, "enterprise", u, new)
MemberRemove(t, actor, o, u)     == Enter(t, actor, o, "enterprise", u, "none")

(* The save of the role, or the deletion of the row.  The save of a row    *)
(* that is gone raises, its deletion does not.  Only the enterprise        *)
(* console has something left to do.                                       *)
Apply(t) ==
  LET r == req[t] IN
  /\ r.pc = "apply"
  /\ role[r.org][r.target] # "none" \/ r.new = "none"
  /\ role' = [role EXCEPT ![r.org][r.target] = r.new]
  /\ owned' = IF r.new = "owner" THEN owned \union {r.org} ELSE owned
  /\ IF r.console = "enterprise"
       THEN /\ req' = [req EXCEPT ![t].pc = "audit"]
            /\ UNCHANGED tangled
       ELSE /\ Return(t)
            /\ Untold(r.org, r.target)
  /\ UNCHANGED <<orgs, invite, key, audit, raced, faults>>

ApplyRaises(t) ==
  LET r == req[t] IN
  /\ r.pc = "apply"
  /\ \/ role[r.org][r.target] = "none" /\ r.new # "none" /\ UNCHANGED faults
     \/ Fault
  /\ Return(t)
  /\ UNCHANGED <<rows, history>>

(* Mutant: the old role is read from the row that was just saved.          *)
Entry_AfterTheFact(r) ==
  [org |-> r.org, user |-> r.target, from |-> r.new, to |-> r.new]

(* record_audit; it never raises, and may write nothing.                   *)
Entry(r) == [org |-> r.org, user |-> r.target, from |-> r.old, to |-> r.new]

RecordAudit(t) ==
  LET r == req[t] IN
  /\ r.pc = "audit"
  /\ audit' = Append(audit, Entry(r))
  /\ Return(t)
  /\ UNCHANGED <<orgs, role, invite, key, history, faults>>

AuditFails(t) ==
  LET r == req[t] IN
  /\ r.pc = "audit"
  /\ Fault
  /\ tangled' = tangled \union {<<r.org, r.target>>}
  /\ Return(t)
  /\ UNCHANGED <<rows, owned, raced>>

----------------------------------------------------------------------------
(***************************************************************************)
(* Invitations                                                             *)
(***************************************************************************)

Invite(t, actor, o, i, r) ==
  /\ Free(t)
  /\ RequestOrg(actor, o) /\ CanAdmin(o, actor)
  /\ invite[i].state = "none"
  /\ invite' = [invite EXCEPT ![i] = [state |-> "pending", org |-> o, role |-> r]]
  /\ UNCHANGED <<orgs, role, key, audit, req, history, faults>>

(* revoke_invite deletes the row of a pending invitation.                  *)
Revoke(t, actor, o, i) ==
  /\ Free(t)
  /\ RequestOrg(actor, o) /\ CanAdmin(o, actor)
  /\ invite[i].state = "pending" /\ invite[i].org = o
  /\ invite' = [invite EXCEPT ![i].state = "revoked"]
  /\ UNCHANGED <<orgs, role, key, audit, req, history, faults>>

(* accept_invite: whoever is logged in opens the link, of an invitation    *)
(* that may have been accepted before.                                     *)
OpenInvite(t, u, i) ==
  /\ Free(t)
  /\ invite[i].state \in {"pending", "accepted"}
  /\ req' = [req EXCEPT ![t] =
         [Idle EXCEPT !.pc = "join", !.user = u, !.org = invite[i].org, !.row = i,
                      !.old = invite[i].state, !.new = invite[i].role]]
  /\ UNCHANGED <<rows, history, faults>>

(* get_or_create, which the unique constraint makes one step               *)
Join(t) ==
  LET r == req[t] IN
  /\ r.pc = "join"
  /\ IF role[r.org][r.user] = "none"
       THEN /\ role' = [role EXCEPT ![r.org][r.user] = r.new]
            /\ owned' = IF r.new = "owner" THEN owned \union {r.org} ELSE owned
            /\ Untold(r.org, r.user)
       ELSE UNCHANGED <<role, owned, tangled>>
  /\ req' = [req EXCEPT ![t].pc = "accept"]
  /\ UNCHANGED <<orgs, invite, key, audit, raced, faults>>

(* The invitation is marked, unless the copy says it is; the save of one   *)
(* that was revoked meanwhile raises, with the user joined.                *)
Accept(t) ==
  LET r == req[t] IN
  /\ r.pc = "accept"
  /\ \/ /\ r.old = "pending" /\ invite[r.row].state # "revoked"
        /\ invite' = [invite EXCEPT ![r.row].state = "accepted"]
     \/ /\ r.old = "accepted" \/ invite[r.row].state = "revoked"
        /\ UNCHANGED invite
  /\ Return(t)
  /\ UNCHANGED <<orgs, role, key, audit, history, faults>>

----------------------------------------------------------------------------
(***************************************************************************)
(* API keys                                                                *)
(***************************************************************************)

CreateKey(t, actor, o, k) ==
  /\ Free(t)
  /\ RequestOrg(actor, o) /\ CanAdmin(o, actor)
  /\ key[k].state = "none"
  /\ key' = [key EXCEPT ![k] = [state |-> "active", org |-> o]]
  /\ UNCHANGED <<orgs, role, invite, audit, req, history, faults>>

(* revoke_api_key; a second time it changes nothing.                       *)
RevokeKey(t, actor, o, k) ==
  /\ Free(t)
  /\ RequestOrg(actor, o) /\ CanAdmin(o, actor)
  /\ key[k].state # "none" /\ key[k].org = o
  /\ key' = [key EXCEPT ![k].state = "revoked"]
  /\ UNCHANGED <<orgs, role, invite, audit, req, history, faults>>

(* api_key_required: the key of a request is read ...                      *)
Present(t, k) ==
  /\ Free(t)
  /\ key[k].state = "active"
  /\ req' = [req EXCEPT ![t] =
         [Idle EXCEPT !.pc = "touch", !.org = key[k].org, !.row = k]]
  /\ UNCHANGED <<rows, history, faults>>

(* Mutant: the whole row that was read is saved.                           *)
Touch_WholeRow(t) ==
  /\ req[t].pc = "touch"
  /\ key' = [key EXCEPT ![req[t].row].state = "active"]
  /\ Return(t)
  /\ UNCHANGED <<orgs, role, invite, audit, history, faults>>

(* ... and marked as used, in that column only; the request is served.     *)
Touch(t) ==
  /\ req[t].pc = "touch"
  /\ key' = key
  /\ Return(t)
  /\ UNCHANGED <<orgs, role, invite, audit, history, faults>>

----------------------------------------------------------------------------
(* A statement raises, or its process is restarted: the request is over.   *)
Broken(t) ==
  /\ req[t].pc \in {"own", "join", "accept"}
  /\ Fault
  /\ Return(t)
  /\ UNCHANGED <<rows, history>>

Standings(t) ==
  \/ \E actor, u \in Users, o \in Orgs :
       \/ \E new \in Offered :
            ChangeRole(t, actor, o, u, new) \/ MemberRole(t, actor, o, u, new)
       \/ RemoveMember(t, actor, o, u) \/ MemberRemove(t, actor, o, u)
  \/ Apply(t) \/ ApplyRaises(t) \/ RecordAudit(t) \/ AuditFails(t)

Joining(t) ==
  \/ \E u \in Users, o \in Orgs, i \in Invites :
       (\E r \in OfferedNew : Invite(t, u, o, i, r)) \/ Revoke(t, u, o, i)
  \/ \E u \in Users, i \in Invites : OpenInvite(t, u, i)
  \/ Join(t) \/ Accept(t)

Access(t) ==
  \/ \E u \in Users, o \in Orgs, k \in Keys :
       CreateKey(t, u, o, k) \/ RevokeKey(t, u, o, k)
  \/ \E k \in Keys : Present(t, k)
  \/ Touch(t)

Next ==
  \E t \in Threads :
    \/ \E u \in Users, o \in Orgs : Found(t, u, o)
    \/ Own(t) \/ Broken(t)
    \/ Standings(t) \/ Joining(t) \/ Access(t)

Spec == Init /\ [][Next]_vars

----------------------------------------------------------------------------
(***************************************************************************)
(* Properties                                                              *)
(***************************************************************************)

Stages == {"idle", "own", "apply", "audit", "join", "accept", "touch"}

Requests ==
  [pc : Stages, user : Users \union {Nothing}, org : Orgs \union {Nothing},
   target : Users \union {Nothing}, console : Consoles,
   old : Standing \union {"pending", "accepted"}, new : Standing,
   row : Invites \union Keys \union {Nothing}]

Entries == [org : Orgs, user : Users, from : Standing, to : Standing]

(* The type of the state; a thread that is free holds nothing, and only    *)
(* organisations that exist have members.                                  *)
TypeOK ==
  /\ orgs \subseteq Orgs
  /\ role \in [Orgs -> [Users -> Standing]]
  /\ \A o \in Orgs : o \notin orgs => role[o] = [u \in Users |-> "none"]
  /\ invite \in [Invites -> [state : {"none", "pending", "accepted", "revoked"},
                             org : Orgs \union {Nothing}, role : Standing]]
  /\ key \in [Keys -> [state : {"none", "active", "revoked"},
                       org : Orgs \union {Nothing}]]
  /\ audit \in Seq(Entries)
  /\ req \in [Threads -> Requests]
  /\ \A t \in Threads : Free(t) => req[t] = Idle
  /\ owned \subseteq orgs /\ raced \subseteq orgs
  /\ tangled \subseteq Orgs \X Users
  /\ faults \in 0..MaxFaults

(* An organisation that ever had an owner has one, whatever its owners do  *)
(* to each other and to themselves in either console, unless two requests  *)
(* that may take an owner away overlapped: the guard counts before it      *)
(* writes ("Last-owner guard: never demote the final owner").              *)
OrgKeepsAnOwner ==
  \A o \in owned \ raced : Owners(o) # {}

(* The entries of the audit log about a membership form a chain: each      *)
(* begins with the role the one before it ended with, and the last one     *)
(* tells the role of today, or the entry that will is being written.  So   *)
(* it is for a membership that only the enterprise console changes, one    *)
(* request at a time (member_role and member_remove, record_audit).        *)
AuditIsAChain ==
  \A o \in Orgs, u \in Users :
    \A n \in About(o, u) : <<o, u>> \notin tangled =>
      LET later == {m \in About(o, u) : m > n} IN
      IF later = {}
        THEN \/ audit[n].to = role[o][u]
             \/ \E t \in Threads : req[t].pc = "audit" /\ req[t].org = o
                                   /\ req[t].target = u
        ELSE \E m \in later : /\ \A k \in later : m <= k
                              /\ audit[m].from = audit[n].to

(* A key that was revoked stays revoked, although a request that read it   *)
(* before saves it after (verify_api_key, update_fields).                  *)
RevokedStaysRevoked ==
  [][\A k \in Keys : key[k].state = "revoked" => key'[k].state = "revoked"]_vars

=============================================================================
