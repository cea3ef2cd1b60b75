--------------------------- MODULE MembersProofs ---------------------------
(***************************************************************************)
(* Theorems about Members, for any number of people, organisations,        *)
(* invitations, keys and threads.                                          *)
(***************************************************************************)
EXTENDS Members, WellFoundedInduction, TLAPS

USE DEF rows, history, Free, Return, Fault, NoInvite, NoKey

(* What a request holds at each of its stages, and which organisation an   *)
(* invitation is for.                                                      *)
Shape ==
  /\ \A i \in Invites : invite[i].state # "none" => invite[i].org \in orgs
  /\ \A t \in Threads :
       LET r == req[t] IN
       /\ r.pc = "own" => r.user \in Users /\ r.org \in orgs
       /\ r.pc \in {"apply", "audit"} =>
            r.target \in Users /\ r.org \in orgs /\ r.old \in Standing
       /\ r.pc \in {"join", "accept"} =>
            /\ r.user \in Users /\ r.org \in orgs /\ r.row \in Invites
            /\ invite[r.row].state # "none"
       /\ r.pc = "touch" => r.row \in Keys

(* What a step of t does to its request: it is over, it is at stage s, and *)
(* it is the same but for its stage.                                       *)
Served(t) == req' = [req EXCEPT ![t] = Idle]

Serves(t, s) ==
  /\ req' \in [Threads -> Requests]
  /\ req'[t].pc = s
  /\ \A x \in Threads \ {t} : req'[x] = req[x]

Same(t) ==
  /\ req'[t].user = req[t].user     /\ req'[t].org = req[t].org
  /\ req'[t].target = req[t].target /\ req'[t].row = req[t].row
  /\ req'[t].old = req[t].old       /\ req'[t].new = req[t].new

LEMMA IdleIs == Idle \in Requests /\ Idle.pc = "idle" /\ Idle.org = Nothing
BY DEF Idle, Requests, Stages, Consoles, Standing, Roles

LEMMA TypeInit == Init => TypeOK /\ Shape
BY MembersAssumption, IdleIs DEF Init, TypeOK, Shape, Standing, Roles, Requests,
   Stages, Consoles, Entries


LEMMA FoundServes ==
  ASSUME TypeOK, NEW t \in Threads, NEW u \in Users, NEW o \in Orgs, Found(t, u, o)
  PROVE  Serves(t, "own") /\ req'[t].user = u /\ req'[t].org = o
<1>1. req \in [Threads -> Requests]
  BY DEF TypeOK
<1>2. req' = [req EXCEPT ![t] =
                [Idle EXCEPT !.pc = "own", !.user = u, !.org = o]]
  BY DEF Found
<1> QED
  BY <1>1, <1>2, IdleIs DEF Serves, Requests, Stages

LEMMA EnterServes ==
  ASSUME TypeOK, NEW t \in Threads, NEW a \in Users, NEW o \in Orgs,
         NEW c \in Consoles, NEW u \in Users, NEW n \in Standing,
         Enter(t, a, o, c, u, n)
  PROVE  Serves(t, "apply") /\ req'[t].org = o /\ req'[t].target = u
         /\ req'[t].old = role[o][u] /\ req'[t].new = n
<1>1. req \in [Threads -> Requests] /\ role[o][u] \in Standing
  BY DEF TypeOK
<1>2. req' = [req EXCEPT ![t] =
                [Idle EXCEPT !.pc = "apply", !.user = a, !.org = o, !.target = u,
                             !.console = c, !.old = role[o][u], !.new = n]]
  BY DEF Enter
<1> QED
  BY <1>1, <1>2, IdleIs DEF Serves, Requests, Stages

LEMMA OpenServes ==
  ASSUME TypeOK, NEW t \in Threads, NEW u \in Users, NEW i \in Invites,
         OpenInvite(t, u, i)
  PROVE  Serves(t, "join") /\ req'[t].user = u /\ req'[t].org = invite[i].org
         /\ req'[t].row = i
<1>1. /\ req \in [Threads -> Requests]
      /\ invite[i].state \in {"pending", "accepted"}
      /\ invite[i].org \in Orgs \union {Nothing}
      /\ invite[i].role \in Standing
  BY DEF TypeOK, OpenInvite
<1>2. req' = [req EXCEPT ![t] =
                [Idle EXCEPT !.pc = "join", !.user = u, !.org = invite[i].org,
                             !.row = i, !.old = invite[i].state,
                             !.new = invite[i].role]]
  BY DEF OpenInvite
<1> QED
  BY <1>1, <1>2, IdleIs DEF Serves, Requests, Stages

LEMMA PresentServes ==
  ASSUME TypeOK, NEW t \in Threads, NEW k \in Keys, Present(t, k)
  PROVE  Serves(t, "touch") /\ req'[t].row = k
<1>1. req \in [Threads -> Requests] /\ key[k].org \in Orgs \union {Nothing}
  BY DEF TypeOK
<1>2. req' = [req EXCEPT ![t] =
                [Idle EXCEPT !.pc = "touch", !.org = key[k].org, !.row = k]]
  BY DEF Present
<1> QED
  BY <1>1, <1>2, IdleIs DEF Serves, Requests, Stages

LEMMA MovesOn ==
  ASSUME TypeOK, NEW t \in Threads, NEW s \in Stages,
         req' = [req EXCEPT ![t].pc = s]
  PROVE  Serves(t, s) /\ Same(t)
<1>1. req \in [Threads -> Requests]
  BY DEF TypeOK
<1> QED
  BY <1>1 DEF Serves, Same, Requests

LEMMA StandingMoves ==
  ASSUME TypeOK, NEW o \in Orgs, NEW u \in Users, NEW s \in Standing,
         role' = [role EXCEPT ![o][u] = s]
  PROVE  /\ role' \in [Orgs -> [Users -> Standing]]
         /\ role'[o][u] = s
         /\ \A p \in Orgs, v \in Users : p # o \/ v # u => role'[p][v] = role[p][v]
         /\ \A p \in Orgs \ {o} : role'[p] = role[p]
<1>1. role \in [Orgs -> [Users -> Standing]]
  BY DEF TypeOK
<1> QED
  BY <1>1

InviteRows ==
  [Invites -> [state : {"none", "pending", "accepted", "revoked"},
               org : Orgs \union {Nothing}, role : Standing]]

LEMMA InviteMoves ==
  ASSUME TypeOK, NEW i \in Invites, NEW s \in {"pending", "accepted", "revoked"},
         invite' = [invite EXCEPT ![i].state = s]
  PROVE  /\ invite' \in InviteRows
         /\ \A j \in Invites : invite'[j].org = invite[j].org
         /\ invite'[i].state = s
         /\ \A j \in Invites \ {i} : invite'[j] = invite[j]
<1>1. invite \in InviteRows
  BY DEF TypeOK, InviteRows
<1> QED
  BY <1>1 DEF InviteRows

LEMMA JoinMoves ==
  ASSUME TypeOK, Shape, NEW t \in Threads, Join(t)
  PROVE  /\ role' \in [Orgs -> [Users -> Standing]]
         /\ \A o \in Orgs \ {req[t].org} : role'[o] = role[o]
         /\ \A o \in Orgs, u \in Users :
              role[o][u] # "none" => role'[o][u] = role[o][u]
         /\ \A u \in Users :
              role'[req[t].org][u] = "owner"
                => role[req[t].org][u] = "owner" \/ req[t].org \in owned'
<1>1. req[t].org \in Orgs /\ req[t].user \in Users /\ req[t].new \in Standing
  BY DEF Join, Shape, TypeOK, Requests
<1>2. CASE role[req[t].org][req[t].user] = "none"
  <2>1. role' = [role EXCEPT ![req[t].org][req[t].user] = req[t].new]
    BY <1>2 DEF Join
  <2> QED
    BY <1>1, <1>2, <2>1, StandingMoves DEF Join, TypeOK
<1>3. CASE role[req[t].org][req[t].user] # "none"
  BY <1>3 DEF Join, TypeOK
<1> QED
  BY <1>2, <1>3

LEMMA AcceptMoves ==
  ASSUME TypeOK, Shape, NEW t \in Threads, Accept(t)
  PROVE  /\ invite' \in InviteRows
         /\ \A i \in Invites :
              /\ invite'[i].org = invite[i].org
              /\ invite'[i].state # "none" <=> invite[i].state # "none"
<1>1. req[t].row \in Invites /\ invite[req[t].row].state # "none"
  BY DEF Accept, Shape
<1>2. CASE UNCHANGED invite
  BY <1>2 DEF TypeOK, InviteRows
<1>3. CASE invite' = [invite EXCEPT ![req[t].row].state = "accepted"]
  BY <1>1, <1>3, InviteMoves
<1> QED
  BY <1>2, <1>3 DEF Accept

LEMMA ServedKeeps ==
  ASSUME TypeOK, NEW t \in Threads, Served(t)
  PROVE  (req \in [Threads -> Requests] /\ \A x \in Threads : Free(x) => req[x] = Idle)'
BY IdleIs DEF TypeOK, Served, Free

LEMMA ServesKeeps ==
  ASSUME TypeOK, NEW t \in Threads, NEW s, s # "idle", Serves(t, s)
  PROVE  (req \in [Threads -> Requests] /\ \A x \in Threads : Free(x) => req[x] = Idle)'
BY DEF TypeOK, Serves, Free

LEMMA TypeStep == TypeOK /\ Shape /\ [Next]_vars => TypeOK' /\ Shape'
<1> SUFFICES ASSUME TypeOK, Shape, [Next]_vars PROVE (TypeOK /\ Shape)'
  OBVIOUS
<1> USE MembersAssumption
<1>0. req \in [Threads -> Requests]
  BY DEF TypeOK
<1>1. ASSUME NEW t \in Threads, NEW u \in Users, NEW o \in Orgs, Found(t, u, o)
      PROVE  (TypeOK /\ Shape)'
  <2>0. Serves(t, "own") /\ req'[t].user = u /\ req'[t].org = o
    BY <1>1, FoundServes
  <2>1. (req \in [Threads -> Requests] /\ \A x \in Threads : Free(x) => req[x] = Idle)'
    BY <2>0, ServedKeeps, ServesKeeps
  <2>2. TypeOK'
    BY <1>1, <2>0, <2>1 DEF Found, TypeOK, Untold, Shape
  <2>3. Shape'
    BY <1>1, <1>0, <2>0, <2>1, IdleIs DEF Found, Served, Serves, Same, TypeOK, Shape
  <2>4. QED
    BY <2>2, <2>3
<1>2. ASSUME NEW t \in Threads, Own(t)
      PROVE  (TypeOK /\ Shape)'
  <2>0. Served(t)
    BY <1>2 DEF Own, Served
  <2>1. (req \in [Threads -> Requests] /\ \A x \in Threads : Free(x) => req[x] = Idle)'
    BY <2>0, ServedKeeps, ServesKeeps
  <2>2. req[t].org \in orgs /\ req[t].user \in Users /\ "owner" \in Standing
    BY <1>2, <1>0 DEF Own, Shape, Requests, Standing, Roles
  <2>3. role' \in [Orgs -> [Users -> Standing]]
        /\ (\A o \in Orgs : o \notin orgs => role[o] = [v \in Users |-> "none"])'
    BY <1>2, <2>2 DEF Own, TypeOK
  <2>4. TypeOK'
    BY <1>2, <2>0, <2>1, <2>2, <2>3 DEF Own, TypeOK, Untold, Shape
  <2>5. Shape'
    BY <1>2, <1>0, <2>0, <2>1, <2>2, <2>3, IdleIs DEF Own, Served, Serves, Same, TypeOK, Shape
  <2>6. QED
    BY <2>4, <2>5
<1>3. ASSUME NEW t \in Threads, Broken(t)
      PROVE  (TypeOK /\ Shape)'
  <2>0. Served(t)
    BY <1>3 DEF Broken, Served
  <2>1. (req \in [Threads -> Requests] /\ \A x \in Threads : Free(x) => req[x] = Idle)'
    BY <2>0, ServedKeeps, ServesKeeps
  <2>2. TypeOK'
    BY <1>3, <2>0, <2>1 DEF Broken, TypeOK, Untold, Shape
  <2>3. Shape'
    BY <1>3, <1>0, <2>0, <2>1, IdleIs DEF Broken, Served, Serves, Same, TypeOK, Shape
  <2>4. QED
    BY <2>2, <2>3
<1>4. ASSUME NEW t \in Threads, NEW a \in Users, NEW o \in Orgs,
             NEW c \in Consoles, NEW u \in Users, NEW n \in Standing,
             Enter(t, a, o, c, u, n)
      PROVE  (TypeOK /\ Shape)'
  <2>0. Serves(t, "apply") /\ req'[t].org = o /\ req'[t].target = u
        /\ req'[t].old = role[o][u] /\ req'[t].new = n
    BY <1>4, EnterServes
  <2>1. (req \in [Threads -> Requests] /\ \A x \in Threads : Free(x) => req[x] = Idle)'
    BY <2>0, ServedKeeps, ServesKeeps
  <2>2. TypeOK'
    BY <1>4, <2>0, <2>1 DEF Enter, TypeOK, Untold, Shape
  <2>3. Shape'
    BY <1>4, <1>0, <2>0, <2>1, IdleIs DEF Enter, Served, Serves, Same, TypeOK, Shape
  <2>4. QED
    BY <2>2, <2>3
<1>5. ASSUME NEW t \in Threads, Apply(t)
      PROVE  (TypeOK /\ Shape)'
  <2>0. Served(t) \/ (Serves(t, "audit") /\ Same(t))
    BY <1>5, MovesOn DEF Apply, Stages, Served
  <2>1. (req \in [Threads -> Requests] /\ \A x \in Threads : Free(x) => req[x] = Idle)'
    BY <2>0, ServedKeeps, ServesKeeps
  <2>2. req[t].org \in orgs /\ req[t].target \in Users /\ req[t].new \in Standing
    BY <1>5, <1>0 DEF Apply, Shape, Requests, Standing, Roles
  <2>3. role' \in [Orgs -> [Users -> Standing]]
        /\ (\A o \in Orgs : o \notin orgs => role[o] = [v \in Users |-> "none"])'
    BY <1>5, <2>2, StandingMoves DEF Apply, TypeOK
  <2>4. TypeOK'
    BY <1>5, <2>0, <2>1, <2>2, <2>3 DEF Apply, TypeOK, Untold, Shape
  <2>5. UNCHANGED <<orgs, invite>>
    BY <1>5 DEF Apply
  <2>6. ASSUME Served(t) PROVE Shape'
    BY <1>0, <2>5, <2>6, IdleIs DEF Served, Shape
  <2>7. ASSUME Serves(t, "audit"), Same(t) PROVE Shape'
    <3>1. req[t].pc = "apply"
      BY <1>5 DEF Apply
    <3>2. ASSUME NEW x \in Threads \ {t} PROVE req'[x] = req[x]
      BY <2>7 DEF Serves
    <3>3. /\ req'[t].pc = "audit" /\ req'[t].target \in Users
          /\ req'[t].org \in orgs /\ req'[t].old \in Standing
      BY <2>7, <3>1 DEF Serves, Same, Shape
    <3> QED
      BY <2>5, <3>2, <3>3 DEF Shape
  <2>8. QED
    BY <2>0, <2>4, <2>6, <2>7
<1>6. ASSUME NEW t \in Threads, ApplyRaises(t)
      PROVE  (TypeOK /\ Shape)'
  <2>0. Served(t)
    BY <1>6 DEF ApplyRaises, Served
  <2>1. (req \in [Threads -> Requests] /\ \A x \in Threads : Free(x) => req[x] = Idle)'
    BY <2>0, ServedKeeps, ServesKeeps
  <2>2. TypeOK'
    BY <1>6, <2>0, <2>1 DEF ApplyRaises, TypeOK, Untold, Shape
  <2>3. Shape'
    BY <1>6, <1>0, <2>0, <2>1, IdleIs DEF ApplyRaises, Served, Serves, Same, TypeOK, Shape
  <2>4. QED
    BY <2>2, <2>3
<1>7. ASSUME NEW t \in Threads, RecordAudit(t)
      PROVE  (TypeOK /\ Shape)'
  <2>0. Served(t)
    BY <1>7 DEF RecordAudit, Served
  <2>1. (req \in [Threads -> Requests] /\ \A x \in Threads : Free(x) => req[x] = Idle)'
    BY <2>0, ServedKeeps, ServesKeeps
  <2>2. audit' \in Seq(Entries)
    <3>1. Entry(req[t]) \in Entries
      BY <1>7, <1>0 DEF RecordAudit, Shape, Entry, Entries, Requests, TypeOK
    <3>2. QED
      BY <1>7, <3>1 DEF RecordAudit, TypeOK
  <2>3. TypeOK'
    BY <1>7, <2>0, <2>1, <2>2 DEF RecordAudit, TypeOK, Untold, Shape
  <2>4. Shape'
    BY <1>7, <1>0, <2>0, <2>1, <2>2, IdleIs DEF RecordAudit, Served, Serves, Same, TypeOK, Shape
  <2>5. QED
    BY <2>3, <2>4
<1>8. ASSUME NEW t \in Threads, AuditFails(t)
      PROVE  (TypeOK /\ Shape)'
  <2>0. Served(t)
    BY <1>8 DEF AuditFails, Served
  <2>1. (req \in [Threads -> Requests] /\ \A x \in Threads : Free(x) => req[x] = Idle)'
    BY <2>0, ServedKeeps, ServesKeeps
  <2>2. TypeOK'
    BY <1>8, <2>0, <2>1 DEF AuditFails, TypeOK, Untold, Shape
  <2>3. Shape'
    BY <1>8, <1>0, <2>0, <2>1, IdleIs DEF AuditFails, Served, Serves, Same, TypeOK, Shape
  <2>4. QED
    BY <2>2, <2>3
<1>9. ASSUME NEW t \in Threads, NEW u \in Users, NEW o \in Orgs,
             NEW i \in Invites, NEW r \in OfferedNew,
             Invite(t, u, o, i, r)
      PROVE  (TypeOK /\ Shape)'
  <2>0. req' = req
    BY <1>9 DEF Invite
  <2>1. (req \in [Threads -> Requests] /\ \A x \in Threads : Free(x) => req[x] = Idle)'
    BY <2>0 DEF Free, TypeOK
  <2>2. invite' \in InviteRows
    BY <1>9, MembersAssumption DEF Invite, TypeOK, Standing, InviteRows
  <2>3. TypeOK'
    BY <1>9, <2>0, <2>1, <2>2 DEF Invite, TypeOK, Untold, Shape, InviteRows
  <2>4. Shape'
    <3>1. o \in orgs /\ invite' = [invite EXCEPT ![i] = [state |-> "pending", org |-> o, role |-> r]]
      BY <1>9 DEF Invite, RequestOrg, MemberOf, TypeOK
    <3>2. \A j \in Invites \ {i} : invite'[j] = invite[j]
      BY <3>1 DEF TypeOK
    <3>3. invite'[i].state = "pending" /\ invite'[i].org = o
      BY <3>1 DEF TypeOK
    <3>4. QED
      BY <1>9, <2>0, <3>1, <3>2, <3>3 DEF Invite, Shape
  <2>5. QED
    BY <2>3, <2>4
<1>10. ASSUME NEW t \in Threads, NEW u \in Users, NEW o \in Orgs, NEW i \in Invites,
             Revoke(t, u, o, i)
      PROVE  (TypeOK /\ Shape)'
  <2>0. req' = req
    BY <1>10 DEF Revoke
  <2>1. (req \in [Threads -> Requests] /\ \A x \in Threads : Free(x) => req[x] = Idle)'
    BY <2>0 DEF Free, TypeOK
  <2>2. invite' \in InviteRows
    BY <1>10, InviteMoves DEF Revoke
  <2>3. TypeOK'
    BY <1>10, <2>0, <2>1, <2>2 DEF Revoke, TypeOK, Untold, Shape, InviteRows
  <2>4. Shape'
    <3>1. /\ \A j \in Invites : invite'[j].org = invite[j].org
          /\ \A j \in Invites \ {i} : invite'[j] = invite[j]
          /\ invite'[i].state = "revoked" /\ invite[i].state # "none"
      BY <1>10, InviteMoves DEF Revoke, TypeOK
    <3>2. QED
      BY <1>10, <2>0, <3>1 DEF Revoke, Shape
  <2>5. QED
    BY <2>3, <2>4
<1>11. ASSUME NEW t \in Threads, NEW u \in Users, NEW i \in Invites,
             OpenInvite(t, u, i)
      PROVE  (TypeOK /\ Shape)'
  <2>0. Serves(t, "join") /\ req'[t].user = u /\ req'[t].org = invite[i].org
        /\ req'[t].row = i
    BY <1>11, OpenServes
  <2>1. (req \in [Threads -> Requests] /\ \A x \in Threads : Free(x) => req[x] = Idle)'
    BY <2>0, ServedKeeps, ServesKeeps
  <2>2. TypeOK'
    BY <1>11, <2>0, <2>1 DEF OpenInvite, TypeOK, Untold, Shape
  <2>3. Shape'
    BY <1>11, <1>0, <2>0, <2>1, IdleIs DEF OpenInvite, Served, Serves, Same, TypeOK, Shape
  <2>4. QED
    BY <2>2, <2>3
<1>12. ASSUME NEW t \in Threads, Join(t)
      PROVE  (TypeOK /\ Shape)'
  <2>0. Serves(t, "accept") /\ Same(t)
    BY <1>12, MovesOn DEF Join, Stages, Served
  <2>1. (req \in [Threads -> Requests] /\ \A x \in Threads : Free(x) => req[x] = Idle)'
    BY <2>0, ServedKeeps, ServesKeeps
  <2>2. req[t].org \in orgs /\ req[t].user \in Users /\ req[t].new \in Standing
    BY <1>12, <1>0 DEF Join, Shape, Requests, Standing, Roles
  <2>3. role' \in [Orgs -> [Users -> Standing]]
        /\ (\A o \in Orgs : o \notin orgs => role[o] = [v \in Users |-> "none"])'
    BY <1>12, <2>2, JoinMoves DEF Join, TypeOK
  <2>4. TypeOK'
    BY <1>12, <2>0, <2>1, <2>2, <2>3 DEF Join, TypeOK, Untold, Shape
  <2>5. Shape'
    BY <1>12, <1>0, <2>0, <2>1, <2>2, <2>3, IdleIs DEF Join, Served, Serves, Same, TypeOK, Shape
  <2>6. QED
    BY <2>4, <2>5
<1>13. ASSUME NEW t \in Threads, Accept(t)
      PROVE  (TypeOK /\ Shape)'
  <2>0. Served(t)
    BY <1>13 DEF Accept, Served
  <2>1. (req \in [Threads -> Requests] /\ \A x \in Threads : Free(x) => req[x] = Idle)'
    BY <2>0, ServedKeeps, ServesKeeps
  <2>2. invite' \in InviteRows /\ \A i \in Invites : invite'[i].org = invite[i].org
                              /\ (invite'[i].state # "none" <=> invite[i].state # "none")
    BY <1>13, AcceptMoves
  <2>3. TypeOK'
    BY <1>13, <2>0, <2>1, <2>2 DEF Accept, TypeOK, Untold, Shape, InviteRows
  <2>4. Shape'
    BY <1>13, <1>0, <2>0, <2>1, <2>2, IdleIs DEF Accept, Served, Serves, Same, TypeOK, Shape, InviteRows
  <2>5. QED
    BY <2>3, <2>4
<1>14. ASSUME NEW t \in Threads, NEW u \in Users, NEW o \in Orgs, NEW k \in Keys,
             CreateKey(t, u, o, k)
      PROVE  (TypeOK /\ Shape)'
  <2>0. req' = req
    BY <1>14 DEF CreateKey
  <2>1. (req \in [Threads -> Requests] /\ \A x \in Threads : Free(x) => req[x] = Idle)'
    BY <2>0 DEF Free, TypeOK
  <2>2. TypeOK'
    BY <1>14, <2>0, <2>1 DEF CreateKey, TypeOK, Untold, Shape
  <2>3. Shape'
    BY <1>14, <1>0, <2>0, <2>1, IdleIs DEF CreateKey, Served, Serves, Same, TypeOK, Shape
  <2>4. QED
    BY <2>2, <2>3
<1>15. ASSUME NEW t \in Threads, NEW u \in Users, NEW o \in Orgs, NEW k \in Keys,
             RevokeKey(t, u, o, k)
      PROVE  (TypeOK /\ Shape)'
  <2>0. req' = req
    BY <1>15 DEF RevokeKey
  <2>1. (req \in [Threads -> Requests] /\ \A x \in Threads : Free(x) => req[x] = Idle)'
    BY <2>0 DEF Free, TypeOK
  <2>2. TypeOK'
    BY <1>15, <2>0, <2>1 DEF RevokeKey, TypeOK, Untold, Shape
  <2>3. Shape'
    BY <1>15, <1>0, <2>0, <2>1, IdleIs DEF RevokeKey, Served, Serves, Same, TypeOK, Shape
  <2>4. QED
    BY <2>2, <2>3
<1>16. ASSUME NEW t \in Threads, NEW k \in Keys, Present(t, k)
      PROVE  (TypeOK /\ Shape)'
  <2>0. Serves(t, "touch") /\ req'[t].row = k
    BY <1>16, PresentServes
  <2>1. (req \in [Threads -> Requests] /\ \A x \in Threads : Free(x) => req[x] = Idle)'
    BY <2>0, ServedKeeps, ServesKeeps
  <2>2. TypeOK'
    BY <1>16, <2>0, <2>1 DEF Present, TypeOK, Untold, Shape
  <2>3. Shape'
    BY <1>16, <1>0, <2>0, <2>1, IdleIs DEF Present, Served, Serves, Same, TypeOK, Shape
  <2>4. QED
    BY <2>2, <2>3
<1>17. ASSUME NEW t \in Threads, Touch(t)
      PROVE  (TypeOK /\ Shape)'
  <2>0. Served(t)
    BY <1>17 DEF Touch, Served
  <2>1. (req \in [Threads -> Requests] /\ \A x \in Threads : Free(x) => req[x] = Idle)'
    BY <2>0, ServedKeeps, ServesKeeps
  <2>2. TypeOK'
    BY <1>17, <2>0, <2>1 DEF Touch, TypeOK, Untold, Shape
  <2>3. Shape'
    BY <1>17, <1>0, <2>0, <2>1, IdleIs DEF Touch, Served, Serves, Same, TypeOK, Shape
  <2>4. QED
    BY <2>2, <2>3
<1>18. CASE UNCHANGED vars
  BY <1>18 DEF vars, TypeOK, Shape
<1> QED
  BY MembersAssumption, <1>1, <1>2, <1>3, <1>4, <1>5, <1>6, <1>7, <1>8, <1>9, <1>10, <1>11, <1>12, <1>13, <1>14, <1>15, <1>16, <1>17, <1>18
  DEF Next, Standings, Joining, Access, Consoles, ChangeRole, RemoveMember,
      MemberRole, MemberRemove, Standing

(* Rows, requests and the log keep values of their kinds, and only an      *)
(* organisation that exists has members.                                   *)
THEOREM TypeCorrect == Spec => []TypeOK
<1>1. Init => TypeOK /\ Shape
  BY TypeInit
<1>2. TypeOK /\ Shape /\ [Next]_vars => TypeOK' /\ Shape'
  BY TypeStep
<1> QED
  BY <1>1, <1>2, PTL DEF Spec

----------------------------------------------------------------------------
(***************************************************************************)
(* The last-owner guard counts before the write.  A request that is about  *)
(* to take an owner away, and that overlaps no other such request, has     *)
(* seen an owner besides its target, and nobody else can take that one     *)
(* away before it has written.                                             *)
(***************************************************************************)

(* Whoever is a member, or invited, or half way into or out of an          *)
(* organisation, found it with its founder in place.                       *)
AfterTheFounder ==
  /\ \A o \in Orgs, u \in Users : role[o][u] # "none" => o \in owned
  /\ \A i \in Invites : invite[i].state # "none" => invite[i].org \in owned
  /\ \A t \in Threads :
       req[t].pc \in {"apply", "audit", "join", "accept"} => req[t].org \in owned

LEMMA FounderInit == Init => AfterTheFounder
BY IdleIs DEF Init, AfterTheFounder

LEMMA FounderStep ==
  TypeOK /\ Shape /\ AfterTheFounder /\ [Next]_vars => AfterTheFounder'
<1> SUFFICES ASSUME TypeOK, Shape, AfterTheFounder, [Next]_vars
             PROVE  AfterTheFounder'
  OBVIOUS
<1> USE MembersAssumption
<1>0. req \in [Threads -> Requests]
  BY DEF TypeOK
<1>1. ASSUME NEW t \in Threads, NEW u \in Users, NEW o \in Orgs, Found(t, u, o)
      PROVE  AfterTheFounder'
  <2>0. Serves(t, "own") /\ req'[t].user = u /\ req'[t].org = o
    BY <1>1, FoundServes
  <2>1. QED
    BY <1>1, <1>0, <2>0, IdleIs DEF Found, Served, Serves, Same, TypeOK, Shape,
       AfterTheFounder, RequestOrg, MemberOf
<1>2. ASSUME NEW t \in Threads, Own(t)
      PROVE  AfterTheFounder'
  <2>0. Served(t)
    BY <1>2 DEF Own, Served
  <2>1. QED
    BY <1>2, <1>0, <2>0, IdleIs DEF Own, Served, Serves, Same, TypeOK, Shape,
       AfterTheFounder, RequestOrg, MemberOf
<1>3. ASSUME NEW t \in Threads, Broken(t)
      PROVE  AfterTheFounder'
  <2>0. Served(t)
    BY <1>3 DEF Broken, Served
  <2>1. QED
    BY <1>3, <1>0, <2>0, IdleIs DEF Broken, Served, Serves, Same, TypeOK, Shape,
       AfterTheFounder, RequestOrg, MemberOf
<1>4. ASSUME NEW t \in Threads, NEW a \in Users, NEW o \in Orgs,
             NEW c \in Consoles, NEW u \in Users, NEW n \in Standing,
             Enter(t, a, o, c, u, n)
      PROVE  AfterTheFounder'
  <2>0. Serves(t, "apply") /\ req'[t].org = o /\ req'[t].target = u
        /\ req'[t].old = role[o][u] /\ req'[t].new = n
    BY <1>4, EnterServes
  <2>1. QED
    BY <1>4, <1>0, <2>0, IdleIs DEF Enter, Served, Serves, Same, TypeOK, Shape,
       AfterTheFounder, RequestOrg, MemberOf
<1>5. ASSUME NEW t \in Threads, Apply(t)
      PROVE  AfterTheFounder'
  <2>0. Served(t) \/ (Serves(t, "audit") /\ Same(t))
    BY <1>5, MovesOn DEF Apply, Stages, Served
  <2>1. QED
    BY <1>5, <1>0, <2>0, IdleIs DEF Apply, Served, Serves, Same, TypeOK, Shape,
       AfterTheFounder, RequestOrg, MemberOf
<1>6. ASSUME NEW t \in Threads, ApplyRaises(t)
      PROVE  AfterTheFounder'
  <2>0. Served(t)
    BY <1>6 DEF ApplyRaises, Served
  <2>1. QED
    BY <1>6, <1>0, <2>0, IdleIs DEF ApplyRaises, Served, Serves, Same, TypeOK, Shape,
       AfterTheFounder, RequestOrg, MemberOf
<1>7. ASSUME NEW t \in Threads, RecordAudit(t)
      PROVE  AfterTheFounder'
  <2>0. Served(t)
    BY <1>7 DEF RecordAudit, Served
  <2>1. QED
    BY <1>7, <1>0, <2>0, IdleIs DEF RecordAudit, Served, Serves, Same, TypeOK, Shape,
       AfterTheFounder, RequestOrg, MemberOf
<1>8. ASSUME NEW t \in Threads, AuditFails(t)
      PROVE  AfterTheFounder'
  <2>0. Served(t)
    BY <1>8 DEF AuditFails, Served
  <2>1. QED
    BY <1>8, <1>0, <2>0, IdleIs DEF AuditFails, Served, Serves, Same, TypeOK, Shape,
       AfterTheFounder, RequestOrg, MemberOf
<1>9. ASSUME NEW t \in Threads, NEW u \in Users, NEW o \in Orgs,
             NEW i \in Invites, NEW r \in OfferedNew,
             Invite(t, u, o, i, r)
      PROVE  AfterTheFounder'
  <2>0. req' = req
    BY <1>9 DEF Invite
  <2>1. QED
    BY <1>9, <1>0, <2>0, IdleIs DEF Invite, Served, Serves, Same, TypeOK, Shape,
       AfterTheFounder, RequestOrg, MemberOf
<1>10. ASSUME NEW t \in Threads, NEW u \in Users, NEW o \in Orgs, NEW i \in Invites,
             Revoke(t, u, o, i)
      PROVE  AfterTheFounder'
  <2>0. req' = req
    BY <1>10 DEF Revoke
  <2>1. QED
    BY <1>10, <1>0, <2>0, IdleIs DEF Revoke, Served, Serves, Same, TypeOK, Shape,
       AfterTheFounder, RequestOrg, MemberOf
<1>11. ASSUME NEW t \in Threads, NEW u \in Users, NEW i \in Invites,
             OpenInvite(t, u, i)
      PROVE  AfterTheFounder'
  <2>0. Serves(t, "join") /\ req'[t].user = u /\ req'[t].org = invite[i].org
        /\ req'[t].row = i
    BY <1>11, OpenServes
  <2>1. QED
    BY <1>11, <1>0, <2>0, IdleIs DEF OpenInvite, Served, Serves, Same, TypeOK, Shape,
       AfterTheFounder, RequestOrg, MemberOf
<1>12. ASSUME NEW t \in Threads, Join(t)
      PROVE  AfterTheFounder'
  <2>0. Serves(t, "accept") /\ Same(t)
    BY <1>12, MovesOn DEF Join, Stages, Served
  <2>1. QED
    BY <1>12, <1>0, <2>0, IdleIs, JoinMoves DEF Join, Served, Serves, Same, TypeOK, Shape,
       AfterTheFounder, RequestOrg, MemberOf
<1>13. ASSUME NEW t \in Threads, Accept(t)
      PROVE  AfterTheFounder'
  <2>0. Served(t)
    BY <1>13 DEF Accept, Served
  <2>1. QED
    BY <1>13, <1>0, <2>0, IdleIs, AcceptMoves DEF Accept, Served, Serves, Same, TypeOK, Shape,
       AfterTheFounder, RequestOrg, MemberOf
<1>14. ASSUME NEW t \in Threads, NEW u \in Users, NEW o \in Orgs, NEW k \in Keys,
             CreateKey(t, u, o, k)
      PROVE  AfterTheFounder'
  <2>0. req' = req
    BY <1>14 DEF CreateKey
  <2>1. QED
    BY <1>14, <1>0, <2>0, IdleIs DEF CreateKey, Served, Serves, Same, TypeOK, Shape,
       AfterTheFounder, RequestOrg, MemberOf
<1>15. ASSUME NEW t \in Threads, NEW u \in Users, NEW o \in Orgs, NEW k \in Keys,
             RevokeKey(t, u, o, k)
      PROVE  AfterTheFounder'
  <2>0. req' = req
    BY <1>15 DEF RevokeKey
  <2>1. QED
    BY <1>15, <1>0, <2>0, IdleIs DEF RevokeKey, Served, Serves, Same, TypeOK, Shape,
       AfterTheFounder, RequestOrg, MemberOf
<1>16. ASSUME NEW t \in Threads, NEW k \in Keys, Present(t, k)
      PROVE  AfterTheFounder'
  <2>0. Serves(t, "touch") /\ req'[t].row = k
    BY <1>16, PresentServes
  <2>1. QED
    BY <1>16, <1>0, <2>0, IdleIs DEF Present, Served, Serves, Same, TypeOK, Shape,
       AfterTheFounder, RequestOrg, MemberOf
<1>17. ASSUME NEW t \in Threads, Touch(t)
      PROVE  AfterTheFounder'
  <2>0. Served(t)
    BY <1>17 DEF Touch, Served
  <2>1. QED
    BY <1>17, <1>0, <2>0, IdleIs DEF Touch, Served, Serves, Same, TypeOK, Shape,
       AfterTheFounder, RequestOrg, MemberOf
<1>18. CASE UNCHANGED vars
  BY <1>18 DEF vars, TypeOK, Shape, AfterTheFounder
<1> QED
  BY MembersAssumption, <1>1, <1>2, <1>3, <1>4, <1>5, <1>6, <1>7, <1>8, <1>9, <1>10, <1>11, <1>12, <1>13, <1>14, <1>15, <1>16, <1>17, <1>18
  DEF Next, Standings, Joining, Access, Consoles, ChangeRole, RemoveMember,
      MemberRole, MemberRemove, Standing

OwnerInv ==
  /\ OrgKeepsAnOwner
  /\ \A t \in Threads, o \in Orgs \ raced :
       Takes(req[t], o) =>
         /\ \A q \in Threads \ {t} : ~Takes(req[q], o)
         /\ \E w \in Users : w # req[t].target /\ role[o][w] = "owner"

LEMMA OwnerInit == Init => OwnerInv
BY IdleIs DEF Init, OwnerInv, OrgKeepsAnOwner, Takes

LEMMA OwnerStep ==
  TypeOK /\ Shape /\ AfterTheFounder /\ OwnerInv /\ [Next]_vars => OwnerInv'
<1> SUFFICES ASSUME TypeOK, Shape, AfterTheFounder, OwnerInv, [Next]_vars
             PROVE  OwnerInv'
  OBVIOUS
<1> USE MembersAssumption
<1>0. req \in [Threads -> Requests]
  BY DEF TypeOK
<1>1. ASSUME NEW t \in Threads, NEW u \in Users, NEW o \in Orgs, Found(t, u, o)
      PROVE  OwnerInv'
  <2>0. Serves(t, "own") /\ req'[t].user = u /\ req'[t].org = o
    BY <1>1, FoundServes
  <2>1. QED
    BY <1>1, <1>0, <2>0, IdleIs DEF Found, Served, Serves, Same, TypeOK, Shape,
       AfterTheFounder, RequestOrg, MemberOf, OwnerInv, OrgKeepsAnOwner, Takes,
       Owners
<1>2. ASSUME NEW t \in Threads, Own(t)
      PROVE  OwnerInv'
  <2>0. Served(t)
    BY <1>2 DEF Own, Served
  <2>1. QED
    BY <1>2, <1>0, <2>0, IdleIs DEF Own, Served, Serves, Same, TypeOK, Shape,
       AfterTheFounder, RequestOrg, MemberOf, OwnerInv, OrgKeepsAnOwner, Takes,
       Owners
<1>3. ASSUME NEW t \in Threads, Broken(t)
      PROVE  OwnerInv'
  <2>0. Served(t)
    BY <1>3 DEF Broken, Served
  <2>1. QED
    BY <1>3, <1>0, <2>0, IdleIs DEF Broken, Served, Serves, Same, TypeOK, Shape,
       AfterTheFounder, RequestOrg, MemberOf, OwnerInv, OrgKeepsAnOwner, Takes,
       Owners
<1>4. ASSUME NEW t \in Threads, NEW a \in Users, NEW o \in Orgs,
             NEW c \in Consoles, NEW u \in Users, NEW n \in Standing,
             Enter(t, a, o, c, u, n)
      PROVE  OwnerInv'
  <2>0. Serves(t, "apply") /\ req'[t].org = o /\ req'[t].target = u
        /\ req'[t].old = role[o][u] /\ req'[t].new = n
    BY <1>4, EnterServes
  <2>1. role' = role /\ owned' = owned /\ raced \subseteq raced'
    BY <1>4 DEF Enter
  <2>2. OrgKeepsAnOwner'
    BY <2>1 DEF OwnerInv, OrgKeepsAnOwner, Owners
  <2>3. \A q \in Threads \ {t}, p \in Orgs : Takes(req'[q], p) => Takes(req[q], p)
    BY <2>0 DEF Serves, Takes
  <2>4. \A p \in Orgs : Takes(req'[t], p) => p = o /\ n # "owner"
    BY <2>0 DEF Takes
  <2>5. CASE n = "owner"
    BY <2>0, <2>1, <2>2, <2>3, <2>4, <2>5 DEF OwnerInv, Serves
  <2>6. CASE n # "owner" /\ \E q \in Threads : Takes(req[q], o)
    <3>1. o \in raced'
      BY <1>4, <2>6 DEF Enter
    <3>2. QED
      BY <2>0, <2>1, <2>2, <2>3, <2>4, <3>1 DEF OwnerInv, Serves
  <2>7. CASE n # "owner" /\ ~\E q \in Threads : Takes(req[q], o)
    <3>1. o \in owned /\ ~IsLastOwner(o, u) /\ raced' = raced
      BY <1>4, <2>7 DEF Enter, Allowed, RequestOrg, MemberOf, AfterTheFounder
    <3>2. o \notin raced => \E w \in Users : w # u /\ role[o][w] = "owner"
      BY <3>1 DEF OwnerInv, OrgKeepsAnOwner, IsLastOwner, Owners
    <3>3. o \notin raced =>
            \E w \in Users : w # req'[t].target /\ role'[o][w] = "owner"
      BY <2>0, <2>1, <3>2
    <3>4. \A q \in Threads \ {t} : ~Takes(req'[q], o)
      BY <2>3, <2>7
    <3>5. ASSUME NEW q \in Threads, NEW p \in Orgs \ raced', Takes(req'[q], p)
          PROVE  /\ \A x \in Threads \ {q} : ~Takes(req'[x], p)
                 /\ \E w \in Users : w # req'[q].target /\ role'[p][w] = "owner"
      <4>1. CASE q = t
        BY <2>4, <3>1, <3>3, <3>4, <3>5, <4>1
      <4>2. CASE q # t
        <5>1. p # o /\ Takes(req[q], p) /\ req'[q] = req[q]
          BY <2>0, <2>3, <3>4, <3>5, <4>2 DEF Serves
        <5>2. ~Takes(req'[t], p)
          BY <2>4, <5>1
        <5>3. QED
          BY <2>1, <2>3, <3>1, <5>1, <5>2 DEF OwnerInv
      <4>3. QED
        BY <4>1, <4>2
    <3>6. QED
      BY <2>2, <3>5 DEF OwnerInv
  <2>8. QED
    BY <2>5, <2>6, <2>7
<1>5. ASSUME NEW t \in Threads, Apply(t)
      PROVE  OwnerInv'
  <2>0. Served(t) \/ (Serves(t, "audit") /\ Same(t))
    BY <1>5, MovesOn DEF Apply, Stages, Served
  <2>1. PICK o, u, n : o = req[t].org /\ u = req[t].target /\ n = req[t].new
    OBVIOUS
  <2>2. o \in Orgs /\ u \in Users /\ req[t].pc = "apply" /\ raced' = raced
    BY <1>5, <2>1 DEF Apply, Shape, TypeOK
  <2>3. /\ role'[o][u] = n
        /\ \A p \in Orgs, w \in Users : p # o \/ w # u => role'[p][w] = role[p][w]
        /\ owned' = IF n = "owner" THEN owned \union {o} ELSE owned
    BY <1>5, <2>1, <2>2 DEF Apply, TypeOK
  <2>4. \A q \in Threads \ {t} : req'[q] = req[q]
    BY <2>0 DEF Served, Serves, TypeOK
  <2>5. \A p \in Orgs : ~Takes(req'[t], p)
    BY <2>0, IdleIs DEF Served, Serves, TypeOK, Takes
  <2>6. o \notin raced /\ n # "owner" =>
          /\ \A q \in Threads \ {t} : ~Takes(req[q], o)
          /\ \E w \in Users : w # u /\ role[o][w] = "owner"
    BY <2>1, <2>2 DEF OwnerInv, Takes
  <2>7. ASSUME NEW q \in Threads, NEW p \in Orgs \ raced', Takes(req'[q], p)
        PROVE  /\ \A x \in Threads \ {q} : ~Takes(req'[x], p)
               /\ \E w \in Users : w # req'[q].target /\ role'[p][w] = "owner"
    <3>1. q # t /\ Takes(req[q], p) /\ req'[q] = req[q] /\ p \notin raced
      BY <2>2, <2>4, <2>5, <2>7
    <3>2. \A x \in Threads \ {q} : ~Takes(req'[x], p)
      BY <2>4, <2>5, <3>1 DEF OwnerInv
    <3>3. PICK w \in Users : w # req[q].target /\ role[p][w] = "owner"
      BY <3>1 DEF OwnerInv
    <3>4. p = o => n = "owner"
      BY <2>6, <3>1
    <3>5. role'[p][w] = "owner"
      BY <2>3, <3>3, <3>4
    <3>6. QED
      BY <3>1, <3>2, <3>3, <3>5
  <2>8. ASSUME NEW p \in owned' \ raced', p \in Orgs
        PROVE  \E w \in Users : role'[p][w] = "owner"
    <3>1. CASE p = o /\ n = "owner"
      BY <2>2, <2>3, <3>1
    <3>2. CASE p = o /\ n # "owner"
      BY <2>2, <2>3, <2>6, <2>8, <3>2
    <3>3. CASE p # o
      BY <2>2, <2>3, <2>8, <3>3 DEF OwnerInv, OrgKeepsAnOwner, Owners
    <3>4. QED
      BY <3>1, <3>2, <3>3
  <2>9. owned' \subseteq Orgs
    BY <2>2, <2>3 DEF TypeOK
  <2>10. OrgKeepsAnOwner'
    BY <2>8, <2>9 DEF OrgKeepsAnOwner, Owners
  <2>11. QED
    BY <2>7, <2>10 DEF OwnerInv
<1>6. ASSUME NEW t \in Threads, ApplyRaises(t)
      PROVE  OwnerInv'
  <2>0. Served(t)
    BY <1>6 DEF ApplyRaises, Served
  <2>1. QED
    BY <1>6, <1>0, <2>0, IdleIs DEF ApplyRaises, Served, Serves, Same, TypeOK, Shape,
       AfterTheFounder, RequestOrg, MemberOf, OwnerInv, OrgKeepsAnOwner, Takes,
       Owners
<1>7. ASSUME NEW t \in Threads, RecordAudit(t)
      PROVE  OwnerInv'
  <2>0. Served(t)
    BY <1>7 DEF RecordAudit, Served
  <2>1. QED
    BY <1>7, <1>0, <2>0, IdleIs DEF RecordAudit, Served, Serves, Same, TypeOK, Shape,
       AfterTheFounder, RequestOrg, MemberOf, OwnerInv, OrgKeepsAnOwner, Takes,
       Owners
<1>8. ASSUME NEW t \in Threads, AuditFails(t)
      PROVE  OwnerInv'
  <2>0. Served(t)
    BY <1>8 DEF AuditFails, Served
  <2>1. QED
    BY <1>8, <1>0, <2>0, IdleIs DEF AuditFails, Served, Serves, Same, TypeOK, Shape,
       AfterTheFounder, RequestOrg, MemberOf, OwnerInv, OrgKeepsAnOwner, Takes,
       Owners
<1>9. ASSUME NEW t \in Threads, NEW u \in Users, NEW o \in Orgs,
             NEW i \in Invites, NEW r \in OfferedNew,
             Invite(t, u, o, i, r)
      PROVE  OwnerInv'
  <2>0. req' = req
    BY <1>9 DEF Invite
  <2>1. QED
    BY <1>9, <1>0, <2>0, IdleIs DEF Invite, Served, Serves, Same, TypeOK, Shape,
       AfterTheFounder, RequestOrg, MemberOf, OwnerInv, OrgKeepsAnOwner, Takes,
       Owners
<1>10. ASSUME NEW t \in Threads, NEW u \in Users, NEW o \in Orgs, NEW i \in Invites,
             Revoke(t, u, o, i)
      PROVE  OwnerInv'
  <2>0. req' = req
    BY <1>10 DEF Revoke
  <2>1. QED
    BY <1>10, <1>0, <2>0, IdleIs DEF Revoke, Served, Serves, Same, TypeOK, Shape,
       AfterTheFounder, RequestOrg, MemberOf, OwnerInv, OrgKeepsAnOwner, Takes,
       Owners
<1>11. ASSUME NEW t \in Threads, NEW u \in Users, NEW i \in Invites,
             OpenInvite(t, u, i)
      PROVE  OwnerInv'
  <2>0. Serves(t, "join") /\ req'[t].user = u /\ req'[t].org = invite[i].org
        /\ req'[t].row = i
    BY <1>11, OpenServes
  <2>1. QED
    BY <1>11, <1>0, <2>0, IdleIs DEF OpenInvite, Served, Serves, Same, TypeOK, Shape,
       AfterTheFounder, RequestOrg, MemberOf, OwnerInv, OrgKeepsAnOwner, Takes,
       Owners
<1>12. ASSUME NEW t \in Threads, Join(t)
      PROVE  OwnerInv'
  <2>0. Serves(t, "accept") /\ Same(t)
    BY <1>12, MovesOn DEF Join, Stages, Served
  <2>1. owned' = owned /\ raced' = raced
    BY <1>12, <1>0 DEF Join, AfterTheFounder
  <2>2. \A o \in Orgs, w \in Users : role[o][w] = "owner" => role'[o][w] = "owner"
    BY <1>12, JoinMoves
  <2>3. OrgKeepsAnOwner'
    BY <2>1, <2>2 DEF OwnerInv, OrgKeepsAnOwner, Owners, TypeOK
  <2>4. \A q \in Threads, o \in Orgs :
          Takes(req'[q], o) => Takes(req[q], o) /\ req'[q] = req[q]
    BY <2>0 DEF Serves, Takes
  <2>5. QED
    BY <2>1, <2>2, <2>3, <2>4 DEF OwnerInv
<1>13. ASSUME NEW t \in Threads, Accept(t)
      PROVE  OwnerInv'
  <2>0. Served(t)
    BY <1>13 DEF Accept, Served
  <2>1. QED
    BY <1>13, <1>0, <2>0, IdleIs, AcceptMoves DEF Accept, Served, Serves, Same, TypeOK, Shape,
       AfterTheFounder, RequestOrg, MemberOf, OwnerInv, OrgKeepsAnOwner, Takes,
       Owners
<1>14. ASSUME NEW t \in Threads, NEW u \in Users, NEW o \in Orgs, NEW k \in Keys,
             CreateKey(t, u, o, k)
      PROVE  OwnerInv'
  <2>0. req' = req
    BY <1>14 DEF CreateKey
  <2>1. QED
    BY <1>14, <1>0, <2>0, IdleIs DEF CreateKey, Served, Serves, Same, TypeOK, Shape,
       AfterTheFounder, RequestOrg, MemberOf, OwnerInv, OrgKeepsAnOwner, Takes,
       Owners
<1>15. ASSUME NEW t \in Threads, NEW u \in Users, NEW o \in Orgs, NEW k \in Keys,
             RevokeKey(t, u, o, k)
      PROVE  OwnerInv'
  <2>0. req' = req
    BY <1>15 DEF RevokeKey
  <2>1. QED
    BY <1>15, <1>0, <2>0, IdleIs DEF RevokeKey, Served, Serves, Same, TypeOK, Shape,
       AfterTheFounder, RequestOrg, MemberOf, OwnerInv, OrgKeepsAnOwner, Takes,
       Owners
<1>16. ASSUME NEW t \in Threads, NEW k \in Keys, Present(t, k)
      PROVE  OwnerInv'
  <2>0. Serves(t, "touch") /\ req'[t].row = k
    BY <1>16, PresentServes
  <2>1. QED
    BY <1>16, <1>0, <2>0, IdleIs DEF Present, Served, Serves, Same, TypeOK, Shape,
       AfterTheFounder, RequestOrg, MemberOf, OwnerInv, OrgKeepsAnOwner, Takes,
       Owners
<1>17. ASSUME NEW t \in Threads, Touch(t)
      PROVE  OwnerInv'
  <2>0. Served(t)
    BY <1>17 DEF Touch, Served
  <2>1. QED
    BY <1>17, <1>0, <2>0, IdleIs DEF Touch, Served, Serves, Same, TypeOK, Shape,
       AfterTheFounder, RequestOrg, MemberOf, OwnerInv, OrgKeepsAnOwner, Takes,
       Owners
<1>18. CASE UNCHANGED vars
  BY <1>18 DEF vars, TypeOK, Shape, AfterTheFounder, OwnerInv,
     OrgKeepsAnOwner, Owners, Takes
<1> QED
  BY MembersAssumption, <1>1, <1>2, <1>3, <1>4, <1>5, <1>6, <1>7, <1>8, <1>9, <1>10, <1>11, <1>12, <1>13, <1>14, <1>15, <1>16, <1>17, <1>18
  DEF Next, Standings, Joining, Access, Consoles, ChangeRole, RemoveMember,
      MemberRole, MemberRemove, Standing

(* An organisation whose owners never raced each other has an owner.       *)
THEOREM OwnersRemain == Spec => []OrgKeepsAnOwner
<1>1. Init => TypeOK /\ Shape /\ AfterTheFounder /\ OwnerInv
  BY TypeInit, FounderInit, OwnerInit
<1>2. TypeOK /\ Shape /\ AfterTheFounder /\ OwnerInv /\ [Next]_vars
        => (TypeOK /\ Shape /\ AfterTheFounder /\ OwnerInv)'
  BY TypeStep, FounderStep, OwnerStep
<1>3. OwnerInv => OrgKeepsAnOwner
  BY DEF OwnerInv
<1> QED
  BY <1>1, <1>2, <1>3, PTL DEF Spec

----------------------------------------------------------------------------
(* A revoked key stays revoked: creation takes a key that is not there, a  *)
(* request that was served with the key writes another column.             *)
THEOREM KeysStayRevoked == Spec => RevokedStaysRevoked
<1> DEFINE Stays == \A k \in Keys : key[k].state = "revoked" => key'[k].state = "revoked"
<1>1. TypeOK /\ [Next]_vars => [Stays]_vars
  <2> SUFFICES ASSUME TypeOK, Next PROVE Stays
    OBVIOUS
  <2> USE DEF TypeOK
  <2>1. ASSUME NEW t \in Threads, NEW u \in Users, NEW o \in Orgs, NEW k \in Keys,
               CreateKey(t, u, o, k) \/ RevokeKey(t, u, o, k)
        PROVE  Stays
    BY <2>1 DEF CreateKey, RevokeKey
  <2>2. CASE UNCHANGED key
    BY <2>2
  <2>3. ASSUME NEW t \in Threads, NEW u \in Users, NEW o \in Orgs,
               NEW c \in Consoles, NEW v \in Users, NEW s, Enter(t, u, o, c, v, s)
        PROVE  UNCHANGED key
    BY <2>3 DEF Enter
  <2>4. ASSUME NEW t \in Threads, Standings(t)
        PROVE  UNCHANGED key
    BY <2>3, <2>4 DEF Standings, Consoles, ChangeRole, RemoveMember, MemberRole,
       MemberRemove, Apply, ApplyRaises, RecordAudit, AuditFails
  <2>5. ASSUME NEW t \in Threads, Joining(t)
        PROVE  UNCHANGED key
    BY <2>5 DEF Joining, Invite, Revoke, OpenInvite, Join, Accept
  <2>6. ASSUME NEW t \in Threads, Access(t)
        PROVE  Stays
    BY <2>1, <2>2, <2>6 DEF Access, Present, Touch
  <2> QED
    BY <2>2, <2>4, <2>5, <2>6 DEF Next, Found, Own, Broken
<1>2. Spec => []TypeOK
  BY TypeCorrect
<1> QED
  BY <1>1, <1>2, PTL DEF Spec, RevokedStaysRevoked

----------------------------------------------------------------------------
(***************************************************************************)
(* The chain of the audit log.  What a membership with one writer at a     *)
(* time owes to it: the writer read the role that is still there, or has   *)
(* written the one its entry will end with; the last entry ends with the   *)
(* role before that; and each entry begins where the one before it ended.  *)
(***************************************************************************)

Writes(q, o, u) ==
  /\ req[q].pc \in {"apply", "audit"}
  /\ req[q].org = o /\ req[q].target = u

Tells(q, o, u) == Writes(q, o, u) /\ req[q].pc = "audit"

OneWriter(o, u) ==
  \A q, x \in Threads : Writes(q, o, u) /\ Writes(x, o, u) => q = x

HasRead(o, u) ==
  \A q \in Threads :
    /\ Writes(q, o, u) /\ req[q].pc = "apply"
         => role[o][u] = req[q].old /\ req[q].old # "none"
    /\ Tells(q, o, u) => role[o][u] = req[q].new

IsLast(n, o, u) == \A m \in About(o, u) : m <= n

LastTells(o, u) ==
  \A n \in About(o, u) : IsLast(n, o, u) =>
    /\ \A q \in Threads : Tells(q, o, u) => audit[n].to = req[q].old
    /\ audit[n].to = role[o][u] \/ \E q \in Threads : Tells(q, o, u)

Linked(o, u) ==
  \A n, m \in About(o, u) :
    n < m /\ (\A k \in About(o, u) : k <= n \/ m <= k)
      => audit[m].from = audit[n].to

ChainOf(o, u) ==
  OneWriter(o, u) /\ HasRead(o, u) /\ LastTells(o, u) /\ Linked(o, u)

ChainInv ==
  \A o \in Orgs, u \in Users : <<o, u>> \notin tangled => ChainOf(o, u)

(* Until its founder owns it nobody has changed a member of it: nobody has *)
(* changed one where there are none.                                       *)
Founding ==
  /\ \A n \in DOMAIN audit : audit[n].org \in owned
  /\ \A t \in Threads : req[t].pc = "own" =>
       /\ req[t].org \notin owned
       /\ \A q \in Threads \ {t} : req[q].pc = "own" => req[q].org # req[t].org

LEMMA AboutIsIn ==
  ASSUME NEW o, NEW u
  PROVE  About(o, u) \subseteq DOMAIN audit
BY DEF About

(* A membership nobody writes and no entry is about owes nothing.          *)
LEMMA NothingOwed ==
  ASSUME NEW o, NEW u, About(o, u) = {}, \A q \in Threads : ~Writes(q, o, u)
  PROVE  ChainOf(o, u)
BY DEF ChainOf, OneWriter, HasRead, LastTells, Linked, Tells

LEMMA NothingOwedNext ==
  ASSUME NEW o, NEW u, About(o, u)' = {}, \A q \in Threads : ~Writes(q, o, u)'
  PROVE  ChainOf(o, u)'
BY DEF ChainOf, OneWriter, HasRead, LastTells, Linked, Tells

(* A membership keeps what it owes when its role and its entries are the   *)
(* same, nobody starts to write it and whoever has an entry to write still *)
(* has.                                                                    *)
LEMMA ChainFrame ==
  ASSUME NEW o, NEW u, ChainOf(o, u),
         role'[o][u] = role[o][u],
         About(o, u)' = About(o, u),
         \A n \in About(o, u) : audit'[n] = audit[n],
         \A q \in Threads : Writes(q, o, u)' => req'[q] = req[q],
         \A q \in Threads : Tells(q, o, u) => req'[q] = req[q]
  PROVE  ChainOf(o, u)'
<1>1. ASSUME NEW q \in Threads, Writes(q, o, u)'
      PROVE  Writes(q, o, u) /\ req'[q] = req[q]
  BY <1>1 DEF Writes
<1>2. ASSUME NEW q \in Threads
      PROVE  Tells(q, o, u)' <=> Tells(q, o, u)
  BY <1>1 DEF Tells, Writes
<1>3. OneWriter(o, u)'
  BY <1>1 DEF ChainOf, OneWriter
<1>4. HasRead(o, u)'
  BY <1>1 DEF ChainOf, HasRead, Tells
<1>5. LastTells(o, u)'
  BY <1>1, <1>2 DEF ChainOf, LastTells, IsLast, Tells
<1>6. Linked(o, u)'
  BY DEF ChainOf, Linked
<1> QED
  BY <1>3, <1>4, <1>5, <1>6 DEF ChainOf

LEMMA SameEntries ==
  ASSUME NEW o, NEW u, audit' = audit
  PROVE  About(o, u)' = About(o, u) /\ \A n \in About(o, u) : audit'[n] = audit[n]
BY DEF About

(* A step that changes no role and no entry keeps the chain when its       *)
(* thread writes nothing after it and had no entry to write before.        *)
LEMMA Quiet ==
  ASSUME ChainInv, NEW t \in Threads, role' = role, audit' = audit,
         tangled \subseteq tangled',
         \A x \in Threads \ {t} : req'[x] = req[x],
         req'[t] = req[t] \/ (req'[t].pc \notin {"apply", "audit"} /\ req[t].pc # "audit")
  PROVE  ChainInv'
<1> SUFFICES ASSUME NEW o \in Orgs, NEW u \in Users, <<o, u>> \notin tangled'
             PROVE  ChainOf(o, u)'
  BY DEF ChainInv
<1>1. ChainOf(o, u)
  BY DEF ChainInv
<1>2. \A q \in Threads : Writes(q, o, u)' => req'[q] = req[q]
  BY DEF Writes
<1>3. \A q \in Threads : Tells(q, o, u) => req'[q] = req[q]
  BY DEF Tells
<1> QED
  BY <1>1, <1>2, <1>3, SameEntries, ChainFrame

LEMMA ServedQuiet ==
  ASSUME TypeOK, ChainInv, NEW t \in Threads, Served(t), req[t].pc # "audit",
         role' = role, audit' = audit, tangled \subseteq tangled'
  PROVE  ChainInv'
<1>1. req \in [Threads -> Requests]
  BY DEF TypeOK
<1>2. req'[t] = Idle /\ \A x \in Threads \ {t} : req'[x] = req[x]
  BY <1>1 DEF Served
<1> QED
  BY <1>2, IdleIs, Quiet

LEMMA ServesQuiet ==
  ASSUME TypeOK, ChainInv, NEW t \in Threads, NEW s, Serves(t, s),
         s \notin {"apply", "audit"}, req[t].pc # "audit",
         role' = role, audit' = audit, tangled \subseteq tangled'
  PROVE  ChainInv'
BY Quiet DEF Serves

LEMMA WaitingQuiet ==
  ASSUME ChainInv, req' = req, role' = role, audit' = audit,
         tangled \subseteq tangled'
  PROVE  ChainInv'
<1> SUFFICES ASSUME NEW o \in Orgs, NEW u \in Users, <<o, u>> \notin tangled'
             PROVE  ChainOf(o, u)'
  BY DEF ChainInv
<1> QED
  BY SameEntries, ChainFrame DEF ChainInv

LEMMA FoundingInit == Init => Founding /\ ChainInv
BY IdleIs, NothingOwed DEF Init, Founding, ChainInv, About, Writes

LEMMA FoundingStep ==
  TypeOK /\ Shape /\ AfterTheFounder /\ Founding /\ [Next]_vars => Founding'
<1> SUFFICES ASSUME TypeOK, Shape, AfterTheFounder, Founding, [Next]_vars
             PROVE  Founding'
  OBVIOUS
<1> USE MembersAssumption
<1>0. req \in [Threads -> Requests] /\ audit \in Seq(Entries) /\ owned \subseteq orgs
  BY DEF TypeOK
<1>1. ASSUME NEW t \in Threads, NEW u \in Users, NEW o \in Orgs, Found(t, u, o)
      PROVE  Founding'
  <2>0. Serves(t, "own") /\ req'[t].user = u /\ req'[t].org = o
    BY <1>1, FoundServes
  <2> QED
    BY <1>1, <1>0, <2>0, IdleIs DEF Found, Served, Serves, Same, Shape,
       AfterTheFounder, RequestOrg, MemberOf, Founding
<1>2. ASSUME NEW t \in Threads, Own(t)
      PROVE  Founding'
  <2>0. Served(t)
    BY <1>2 DEF Own, Served
  <2> QED
    BY <1>2, <1>0, <2>0, IdleIs DEF Own, Served, Serves, Same, Shape,
       AfterTheFounder, RequestOrg, MemberOf, Founding
<1>3. ASSUME NEW t \in Threads, Broken(t)
      PROVE  Founding'
  <2>0. Served(t)
    BY <1>3 DEF Broken, Served
  <2> QED
    BY <1>3, <1>0, <2>0, IdleIs DEF Broken, Served, Serves, Same, Shape,
       AfterTheFounder, RequestOrg, MemberOf, Founding
<1>4. ASSUME NEW t \in Threads, NEW a \in Users, NEW o \in Orgs,
             NEW c \in Consoles, NEW u \in Users, NEW n \in Standing,
             Enter(t, a, o, c, u, n)
      PROVE  Founding'
  <2>0. Serves(t, "apply") /\ req'[t].org = o /\ req'[t].target = u
        /\ req'[t].old = role[o][u] /\ req'[t].new = n
    BY <1>4, EnterServes
  <2> QED
    BY <1>4, <1>0, <2>0, IdleIs DEF Enter, Served, Serves, Same, Shape,
       AfterTheFounder, RequestOrg, MemberOf, Founding
<1>5. ASSUME NEW t \in Threads, Apply(t)
      PROVE  Founding'
  <2>0. Served(t) \/ (Serves(t, "audit") /\ Same(t))
    BY <1>5, MovesOn DEF Apply, Stages, Served
  <2>1. owned' = owned /\ audit' = audit
    BY <1>5 DEF Apply, AfterTheFounder
  <2> QED
    BY <1>5, <1>0, <2>0, <2>1, IdleIs DEF Apply, Served, Serves, Same, Shape,
       AfterTheFounder, RequestOrg, MemberOf, Founding
<1>6. ASSUME NEW t \in Threads, ApplyRaises(t)
      PROVE  Founding'
  <2>0. Served(t)
    BY <1>6 DEF ApplyRaises, Served
  <2> QED
    BY <1>6, <1>0, <2>0, IdleIs DEF ApplyRaises, Served, Serves, Same, Shape,
       AfterTheFounder, RequestOrg, MemberOf, Founding
<1>7. ASSUME NEW t \in Threads, RecordAudit(t)
      PROVE  Founding'
  <2>0. Served(t)
    BY <1>7 DEF RecordAudit, Served
  <2>1. req[t].org \in owned /\ owned' = owned
    BY <1>7 DEF RecordAudit, AfterTheFounder
  <2>2. \A n \in DOMAIN audit' : audit'[n].org \in owned'
    BY <1>0, <1>7, <2>1 DEF RecordAudit, Entry, Founding
  <2> QED
    BY <1>0, <2>0, <2>1, <2>2, IdleIs DEF Served, Founding
<1>8. ASSUME NEW t \in Threads, AuditFails(t)
      PROVE  Founding'
  <2>0. Served(t)
    BY <1>8 DEF AuditFails, Served
  <2> QED
    BY <1>8, <1>0, <2>0, IdleIs DEF AuditFails, Served, Serves, Same, Shape,
       AfterTheFounder, RequestOrg, MemberOf, Founding
<1>9. ASSUME NEW t \in Threads, NEW u \in Users, NEW o \in Orgs,
             NEW i \in Invites, NEW r \in OfferedNew,
             Invite(t, u, o, i, r)
      PROVE  Founding'
  <2>0. req' = req
    BY <1>9 DEF Invite
  <2> QED
    BY <1>9, <1>0, <2>0, IdleIs DEF Invite, Served, Serves, Same, Shape,
       AfterTheFounder, RequestOrg, MemberOf, Founding
<1>10. ASSUME NEW t \in Threads, NEW u \in Users, NEW o \in Orgs, NEW i \in Invites,
             Revoke(t, u, o, i)
      PROVE  Founding'
  <2>0. req' = req
    BY <1>10 DEF Revoke
  <2> QED
    BY <1>10, <1>0, <2>0, IdleIs DEF Revoke, Served, Serves, Same, Shape,
       AfterTheFounder, RequestOrg, MemberOf, Founding
<1>11. ASSUME NEW t \in Threads, NEW u \in Users, NEW i \in Invites,
             OpenInvite(t, u, i)
      PROVE  Founding'
  <2>0. Serves(t, "join") /\ req'[t].user = u /\ req'[t].org = invite[i].org
        /\ req'[t].row = i
    BY <1>11, OpenServes
  <2> QED
    BY <1>11, <1>0, <2>0, IdleIs DEF OpenInvite, Served, Serves, Same, Shape,
       AfterTheFounder, RequestOrg, MemberOf, Founding
<1>12. ASSUME NEW t \in Threads, Join(t)
      PROVE  Founding'
  <2>0. Serves(t, "accept") /\ Same(t)
    BY <1>12, MovesOn DEF Join, Stages, Served
  <2>1. owned' = owned /\ audit' = audit
    BY <1>12 DEF Join, AfterTheFounder
  <2> QED
    BY <1>12, <1>0, <2>0, <2>1, IdleIs DEF Join, Served, Serves, Same, Shape,
       AfterTheFounder, RequestOrg, MemberOf, Founding
<1>13. ASSUME NEW t \in Threads, Accept(t)
      PROVE  Founding'
  <2>0. Served(t)
    BY <1>13 DEF Accept, Served
  <2> QED
    BY <1>13, <1>0, <2>0, IdleIs DEF Accept, Served, Serves, Same, Shape,
       AfterTheFounder, RequestOrg, MemberOf, Founding
<1>14. ASSUME NEW t \in Threads, NEW u \in Users, NEW o \in Orgs, NEW k \in Keys,
             CreateKey(t, u, o, k)
      PROVE  Founding'
  <2>0. req' = req
    BY <1>14 DEF CreateKey
  <2> QED
    BY <1>14, <1>0, <2>0, IdleIs DEF CreateKey, Served, Serves, Same, Shape,
       AfterTheFounder, RequestOrg, MemberOf, Founding
<1>15. ASSUME NEW t \in Threads, NEW u \in Users, NEW o \in Orgs, NEW k \in Keys,
             RevokeKey(t, u, o, k)
      PROVE  Founding'
  <2>0. req' = req
    BY <1>15 DEF RevokeKey
  <2> QED
    BY <1>15, <1>0, <2>0, IdleIs DEF RevokeKey, Served, Serves, Same, Shape,
       AfterTheFounder, RequestOrg, MemberOf, Founding
<1>16. ASSUME NEW t \in Threads, NEW k \in Keys, Present(t, k)
      PROVE  Founding'
  <2>0. Serves(t, "touch") /\ req'[t].row = k
    BY <1>16, PresentServes
  <2> QED
    BY <1>16, <1>0, <2>0, IdleIs DEF Present, Served, Serves, Same, Shape,
       AfterTheFounder, RequestOrg, MemberOf, Founding
<1>17. ASSUME NEW t \in Threads, Touch(t)
      PROVE  Founding'
  <2>0. Served(t)
    BY <1>17 DEF Touch, Served
  <2> QED
    BY <1>17, <1>0, <2>0, IdleIs DEF Touch, Served, Serves, Same, Shape,
       AfterTheFounder, RequestOrg, MemberOf, Founding
<1>18. CASE UNCHANGED vars
  BY <1>18 DEF vars, Founding
<1> QED
  BY MembersAssumption, <1>1, <1>2, <1>3, <1>4, <1>5, <1>6, <1>7, <1>8, <1>9, <1>10, <1>11, <1>12, <1>13, <1>14, <1>15, <1>16, <1>17, <1>18
  DEF Next, Standings, Joining, Access, Consoles, ChangeRole, RemoveMember,
      MemberRole, MemberRemove, Standing

LEMMA ChainStep ==
  TypeOK /\ Shape /\ AfterTheFounder /\ Founding /\ ChainInv /\ [Next]_vars
    => ChainInv'
<1> SUFFICES ASSUME TypeOK, Shape, AfterTheFounder, Founding, ChainInv, [Next]_vars
             PROVE  ChainInv'
  OBVIOUS
<1> USE MembersAssumption
<1>0. req \in [Threads -> Requests] /\ audit \in Seq(Entries)
  BY DEF TypeOK
<1>1. ASSUME NEW t \in Threads, NEW u \in Users, NEW o \in Orgs, Found(t, u, o)
      PROVE  ChainInv'
  <2>0. Serves(t, "own") /\ req'[t].user = u /\ req'[t].org = o
    BY <1>1, FoundServes
  <2> QED
    BY <1>1, <2>0, ServesQuiet DEF Found
<1>2. ASSUME NEW t \in Threads, Own(t)
      PROVE  ChainInv'
  <2>0. Served(t)
    BY <1>2 DEF Own, Served
  <2>1. /\ req'[t] = Idle /\ \A x \in Threads \ {t} : req'[x] = req[x]
        /\ req[t].pc = "own" /\ audit' = audit /\ tangled' = tangled
    BY <1>0, <1>2, <2>0 DEF Own, Served
  <2>2. req[t].org \in Orgs /\ req[t].user \in Users /\ req[t].org \notin owned
    BY <2>1 DEF Shape, TypeOK, Founding
  <2> SUFFICES ASSUME NEW o \in Orgs, NEW u \in Users, <<o, u>> \notin tangled'
               PROVE  ChainOf(o, u)'
    BY DEF ChainInv
  <2>3. CASE o = req[t].org
    <3>1. About(o, u)' = {}
      BY <2>1, <2>2, <2>3 DEF About, Founding
    <3>2. \A q \in Threads : ~Writes(q, o, u)'
      BY <2>1, <2>2, <2>3, IdleIs DEF Writes, AfterTheFounder
    <3> QED
      BY <3>1, <3>2, NothingOwedNext
  <2>4. CASE o # req[t].org
    <3>1. role'[o][u] = role[o][u]
      BY <1>2, <2>2, <2>4, StandingMoves DEF Own, Standing, Roles
    <3>2. \A q \in Threads : Writes(q, o, u)' => req'[q] = req[q]
      BY <2>1, IdleIs DEF Writes
    <3>3. \A q \in Threads : Tells(q, o, u) => req'[q] = req[q]
      BY <2>1 DEF Tells
    <3> QED
      BY <2>1, <3>1, <3>2, <3>3, SameEntries, ChainFrame DEF ChainInv
  <2> QED
    BY <2>3, <2>4
<1>3. ASSUME NEW t \in Threads, Broken(t)
      PROVE  ChainInv'
  <2>0. Served(t)
    BY <1>3 DEF Broken, Served
  <2> QED
    BY <1>3, <2>0, ServedQuiet DEF Broken
<1>4. ASSUME NEW t \in Threads, NEW a \in Users, NEW o \in Orgs,
             NEW c \in Consoles, NEW u \in Users, NEW n \in Standing,
             Enter(t, a, o, c, u, n)
      PROVE  ChainInv'
  <2>0. Serves(t, "apply") /\ req'[t].org = o /\ req'[t].target = u
        /\ req'[t].old = role[o][u] /\ req'[t].new = n
    BY <1>4, EnterServes
  <2>1. /\ role' = role /\ audit' = audit /\ tangled \subseteq tangled'
        /\ role[o][u] # "none" /\ req[t].pc = "idle"
    BY <1>4 DEF Enter
  <2>2. \A x \in Threads \ {t} : req'[x] = req[x]
    BY <2>0 DEF Serves
  <2> SUFFICES ASSUME NEW p \in Orgs, NEW v \in Users, <<p, v>> \notin tangled'
               PROVE  ChainOf(p, v)'
    BY DEF ChainInv
  <2>3. ChainOf(p, v)
    BY <2>1 DEF ChainInv
  <2>4. CASE <<p, v>> = <<o, u>>
    <3>1. \A q \in Threads : ~Writes(q, o, u)
      BY <1>4, <2>4 DEF Enter, Writes
    <3>2. \A q \in Threads : Writes(q, o, u)' => q = t
      BY <2>2, <3>1 DEF Writes
    <3>3. \A q \in Threads : ~Tells(q, o, u) /\ ~Tells(q, o, u)'
      BY <2>0, <3>1, <3>2 DEF Tells, Serves
    <3>4. About(o, u)' = About(o, u)
      BY <2>1, SameEntries
    <3>5. OneWriter(o, u)'
      BY <3>2 DEF OneWriter
    <3>6. HasRead(o, u)'
      BY <2>0, <2>1, <3>2, <3>3 DEF HasRead
    <3>7. LastTells(o, u)'
      BY <2>1, <2>3, <2>4, <3>3, <3>4 DEF ChainOf, LastTells, IsLast
    <3>8. Linked(o, u)'
      BY <2>1, <2>3, <2>4, <3>4 DEF ChainOf, Linked
    <3> QED
      BY <2>4, <3>5, <3>6, <3>7, <3>8 DEF ChainOf
  <2>5. CASE <<p, v>> # <<o, u>>
    <3>1. \A q \in Threads : Writes(q, p, v)' => req'[q] = req[q]
      BY <2>0, <2>2, <2>5 DEF Writes
    <3>2. \A q \in Threads : Tells(q, p, v) => req'[q] = req[q]
      BY <2>1, <2>2 DEF Tells
    <3> QED
      BY <2>1, <2>3, <3>1, <3>2, SameEntries, ChainFrame
  <2> QED
    BY <2>4, <2>5
<1>5. ASSUME NEW t \in Threads, Apply(t)
      PROVE  ChainInv'
  <2>0. Served(t) \/ (Serves(t, "audit") /\ Same(t))
    BY <1>5, MovesOn DEF Apply, Stages, Served
  <2>1. /\ req[t].pc = "apply" /\ audit' = audit /\ tangled \subseteq tangled'
        /\ req[t].org \in Orgs /\ req[t].target \in Users /\ req[t].new \in Standing
    BY <1>0, <1>5 DEF Apply, Untold, Shape, TypeOK, Requests
  <2>2. role' = [role EXCEPT ![req[t].org][req[t].target] = req[t].new]
    BY <1>5 DEF Apply
  <2>3. \A x \in Threads \ {t} : req'[x] = req[x]
    BY <1>0, <2>0 DEF Served, Serves
  <2> SUFFICES ASSUME NEW o \in Orgs, NEW u \in Users, <<o, u>> \notin tangled'
               PROVE  ChainOf(o, u)'
    BY DEF ChainInv
  <2>4. ChainOf(o, u) /\ About(o, u)' = About(o, u)
    BY <2>1, SameEntries DEF ChainInv
  <2>5. CASE o = req[t].org /\ u = req[t].target
    <3>1. role'[o][u] = req[t].new
      <4>1. role'[req[t].org][req[t].target] = req[t].new
        BY <2>1, <2>2 DEF TypeOK
      <4> QED
        BY <2>5, <4>1
    <3>2. Writes(t, o, u) /\ role[o][u] = req[t].old
      BY <2>1, <2>4, <2>5 DEF Writes, ChainOf, HasRead
    <3>3. \A q \in Threads : Writes(q, o, u) => q = t
      BY <2>4, <3>2 DEF ChainOf, OneWriter
    <3>4. \A q \in Threads : Writes(q, o, u)' => q = t
      BY <2>3, <3>3 DEF Writes
    <3>5. \A q \in Threads : ~Tells(q, o, u)
      BY <2>1, <3>3 DEF Tells
    <3>6. CASE Served(t)
      <4>1. req'[t] = Idle
        BY <1>0, <3>6 DEF Served
      <4>2. \A q \in Threads : ~Writes(q, o, u)'
        BY <3>4, <4>1, IdleIs DEF Writes
      <4>3. req[t].console # "enterprise"
        <5>1. ASSUME req[t].console = "enterprise" PROVE req'[t].pc = "audit"
          BY <1>5, <5>1, MovesOn DEF Apply, Stages, Serves
        <5> QED
          BY <4>1, <5>1, IdleIs
      <4>4. About(o, u) = {}
        BY <1>5, <2>5, <4>3 DEF Apply, Untold, HasTrail
      <4> QED
        BY <2>4, <4>2, <4>4, NothingOwedNext
    <3>7. CASE Serves(t, "audit") /\ Same(t)
      <4>1. /\ Tells(t, o, u)' /\ req'[t].pc = "audit"
            /\ req'[t].old = req[t].old /\ req'[t].new = req[t].new
        BY <2>5, <3>7 DEF Tells, Writes, Serves, Same
      <4>2. OneWriter(o, u)'
        BY <3>4 DEF OneWriter
      <4>3. HasRead(o, u)'
        BY <3>1, <3>4, <4>1 DEF HasRead, Tells
      <4>4. LastTells(o, u)'
        <5>1. ASSUME NEW n \in About(o, u), IsLast(n, o, u)
              PROVE  audit[n].to = req[t].old
          BY <2>4, <3>2, <3>5, <5>1 DEF ChainOf, LastTells
        <5> QED
          BY <2>1, <2>4, <3>4, <4>1, <5>1 DEF LastTells, IsLast, Tells
      <4>5. Linked(o, u)'
        BY <2>1, <2>4 DEF ChainOf, Linked
      <4> QED
        BY <4>2, <4>3, <4>4, <4>5 DEF ChainOf
    <3> QED
      BY <2>0, <3>6, <3>7
  <2>6. CASE ~(o = req[t].org /\ u = req[t].target)
    <3>1. role'[o][u] = role[o][u]
      BY <2>1, <2>2, <2>6, StandingMoves
    <3>2. \A q \in Threads : Writes(q, o, u)' => req'[q] = req[q]
      <4>1. ~Writes(t, o, u)'
        BY <1>0, <2>0, <2>6, IdleIs DEF Writes, Served, Same
      <4> QED
        BY <2>3, <4>1
    <3>3. \A q \in Threads : Tells(q, o, u) => req'[q] = req[q]
      BY <2>1, <2>3 DEF Tells
    <3> QED
      BY <2>1, <2>4, <3>1, <3>2, <3>3, SameEntries, ChainFrame
  <2> QED
    BY <2>5, <2>6
<1>6. ASSUME NEW t \in Threads, ApplyRaises(t)
      PROVE  ChainInv'
  <2>0. Served(t)
    BY <1>6 DEF ApplyRaises, Served
  <2> QED
    BY <1>6, <2>0, ServedQuiet DEF ApplyRaises
<1>7. ASSUME NEW t \in Threads, RecordAudit(t)
      PROVE  ChainInv'
  <2>0. Served(t)
    BY <1>7 DEF RecordAudit, Served
  <2>1. /\ req[t].pc = "audit" /\ role' = role /\ tangled' = tangled
        /\ audit' = Append(audit, Entry(req[t]))
        /\ req'[t] = Idle /\ \A x \in Threads \ {t} : req'[x] = req[x]
    BY <1>0, <1>7, <2>0 DEF RecordAudit, Served
  <2> DEFINE N == Len(audit) + 1
  <2>2. /\ DOMAIN audit = 1..Len(audit) /\ Len(audit) \in Nat
        /\ DOMAIN audit' = 1..N
        /\ \A n \in DOMAIN audit : audit'[n] = audit[n]
        /\ audit'[N].org = req[t].org /\ audit'[N].user = req[t].target
        /\ audit'[N].from = req[t].old /\ audit'[N].to = req[t].new
    BY <1>0, <2>1 DEF Entry
  <2> HIDE DEF N
  <2>3. N \in Nat /\ \A n \in DOMAIN audit : n # N /\ n < N /\ n \in Nat
    BY <2>2 DEF N
  <2>9. DOMAIN audit' = DOMAIN audit \union {N}
    BY <2>2 DEF N
  <2> SUFFICES ASSUME NEW o \in Orgs, NEW u \in Users, <<o, u>> \notin tangled'
               PROVE  ChainOf(o, u)'
    BY DEF ChainInv
  <2>4. ChainOf(o, u)
    BY <2>1 DEF ChainInv
  <2>5. \A q \in Threads : Writes(q, o, u)' => q # t /\ req'[q] = req[q]
    BY <2>1, IdleIs DEF Writes
  <2>6. CASE o = req[t].org /\ u = req[t].target
    <3>1. Tells(t, o, u)
      BY <2>1, <2>6 DEF Tells, Writes
    <3>2. \A q \in Threads : Writes(q, o, u) => q = t
      BY <2>4, <3>1 DEF ChainOf, OneWriter, Tells
    <3>3. \A q \in Threads : ~Writes(q, o, u)'
      BY <2>5, <3>2 DEF Writes
    <3>4. About(o, u)' = About(o, u) \union {N}
      BY <2>2, <2>6, <2>9 DEF About
    <3>5. role[o][u] = req[t].new
      BY <2>4, <3>1 DEF ChainOf, HasRead
    <3>6. LastTells(o, u)'
      <4>1. ASSUME NEW n \in About(o, u)', IsLast(n, o, u)'
            PROVE  n = N
        <5>1. N <= n
          BY <3>4, <4>1 DEF IsLast
        <5>2. n = N \/ n \in DOMAIN audit
          BY <3>4, <4>1, AboutIsIn
        <5> QED
          BY <2>3, <5>1, <5>2
      <4> QED
        BY <2>1, <2>2, <3>3, <3>5, <4>1 DEF LastTells, Tells
    <3>7. Linked(o, u)'
      <4> SUFFICES ASSUME NEW n \in About(o, u)', NEW m \in About(o, u)', n < m,
                          \A k \in About(o, u)' : k <= n \/ m <= k
                   PROVE  audit'[m].from = audit'[n].to
        BY DEF Linked
      <4>1. n \in About(o, u) /\ n \in DOMAIN audit
        <5>1. m = N \/ m \in DOMAIN audit
          BY <3>4, AboutIsIn
        <5>2. n # N
          BY <2>3, <5>1
        <5> QED
          BY <3>4, <5>2, AboutIsIn
      <4>2. CASE m = N
        <5>1. IsLast(n, o, u)
          <6> SUFFICES ASSUME NEW k \in About(o, u) PROVE k <= n
            BY DEF IsLast
          <6>1. k \in DOMAIN audit /\ (k <= n \/ m <= k)
            BY <3>4, AboutIsIn
          <6> QED
            BY <2>3, <4>2, <6>1
        <5>2. audit[n].to = req[t].old
          BY <2>4, <3>1, <4>1, <5>1 DEF ChainOf, LastTells
        <5> QED
          BY <2>2, <4>1, <4>2, <5>2
      <4>3. CASE m # N
        <5>1. m \in About(o, u) /\ m \in DOMAIN audit
          BY <3>4, <4>3, AboutIsIn
        <5>2. \A k \in About(o, u) : k <= n \/ m <= k
          BY <3>4
        <5>3. audit[m].from = audit[n].to
          BY <2>4, <4>1, <5>1, <5>2 DEF ChainOf, Linked
        <5> QED
          BY <2>2, <4>1, <5>1, <5>3
      <4> QED
        BY <4>2, <4>3
    <3> QED
      BY <3>3, <3>6, <3>7 DEF ChainOf, OneWriter, HasRead, Tells
  <2>7. CASE ~(o = req[t].org /\ u = req[t].target)
    <3>1. About(o, u)' = About(o, u)
      BY <2>2, <2>7, <2>9 DEF About
    <3>2. \A n \in About(o, u) : audit'[n] = audit[n]
      BY <2>2, AboutIsIn
    <3>3. \A q \in Threads : Tells(q, o, u) => req'[q] = req[q]
      BY <2>1, <2>7 DEF Tells, Writes
    <3> QED
      BY <2>1, <2>4, <2>5, <3>1, <3>2, <3>3, ChainFrame
  <2> QED
    BY <2>6, <2>7
<1>8. ASSUME NEW t \in Threads, AuditFails(t)
      PROVE  ChainInv'
  <2>0. Served(t)
    BY <1>8 DEF AuditFails, Served
  <2>1. /\ req[t].pc = "audit" /\ role' = role /\ audit' = audit
        /\ tangled' = tangled \union {<<req[t].org, req[t].target>>}
        /\ req'[t] = Idle /\ \A x \in Threads \ {t} : req'[x] = req[x]
    BY <1>0, <1>8, <2>0 DEF AuditFails, Served
  <2> SUFFICES ASSUME NEW o \in Orgs, NEW u \in Users, <<o, u>> \notin tangled'
               PROVE  ChainOf(o, u)'
    BY DEF ChainInv
  <2>2. ChainOf(o, u) /\ ~(o = req[t].org /\ u = req[t].target)
    BY <2>1 DEF ChainInv
  <2>3. \A q \in Threads : Writes(q, o, u)' => req'[q] = req[q]
    BY <2>1, IdleIs DEF Writes
  <2>4. \A q \in Threads : Tells(q, o, u) => req'[q] = req[q]
    BY <2>1, <2>2 DEF Tells, Writes
  <2> QED
    BY <2>1, <2>2, <2>3, <2>4, SameEntries, ChainFrame
<1>9. ASSUME NEW t \in Threads, NEW u \in Users, NEW o \in Orgs,
             NEW i \in Invites, NEW r \in OfferedNew,
             Invite(t, u, o, i, r)
      PROVE  ChainInv'
  <2>0. req' = req
    BY <1>9 DEF Invite
  <2> QED
    BY <1>9, <2>0, WaitingQuiet DEF Invite
<1>10. ASSUME NEW t \in Threads, NEW u \in Users, NEW o \in Orgs, NEW i \in Invites,
             Revoke(t, u, o, i)
      PROVE  ChainInv'
  <2>0. req' = req
    BY <1>10 DEF Revoke
  <2> QED
    BY <1>10, <2>0, WaitingQuiet DEF Revoke
<1>11. ASSUME NEW t \in Threads, NEW u \in Users, NEW i \in Invites,
             OpenInvite(t, u, i)
      PROVE  ChainInv'
  <2>0. Serves(t, "join") /\ req'[t].user = u /\ req'[t].org = invite[i].org
        /\ req'[t].row = i
    BY <1>11, OpenServes
  <2> QED
    BY <1>11, <2>0, ServesQuiet DEF OpenInvite
<1>12. ASSUME NEW t \in Threads, Join(t)
      PROVE  ChainInv'
  <2>0. Serves(t, "accept") /\ Same(t)
    BY <1>12, MovesOn DEF Join, Stages, Served
  <2>1. req[t].org \in Orgs /\ req[t].user \in Users /\ req[t].new \in Standing
    BY <1>0, <1>12 DEF Join, Shape, TypeOK, Requests
  <2>2. req[t].pc = "join" /\ audit' = audit /\ tangled \subseteq tangled'
    BY <1>12 DEF Join, Untold
  <2>3. CASE role[req[t].org][req[t].user] # "none"
    BY <1>12, <2>0, <2>2, <2>3, ServesQuiet DEF Join
  <2>4. ASSUME role[req[t].org][req[t].user] = "none",
               NEW o \in Orgs, NEW u \in Users, <<o, u>> \notin tangled'
        PROVE  ChainOf(o, u)'
    <3>1. role' = [role EXCEPT ![req[t].org][req[t].user] = req[t].new]
      BY <1>12, <2>4 DEF Join
    <3>2. ChainOf(o, u)
      BY <2>2, <2>4 DEF ChainInv
    <3>3. \A q \in Threads : Writes(q, o, u)' => q # t /\ req'[q] = req[q]
      BY <2>0 DEF Writes, Serves
    <3>4. CASE o = req[t].org /\ u = req[t].user
      <4>1. ~HasTrail(o, u)
        BY <1>12, <2>4, <3>4 DEF Join, Untold
      <4>2. \A q \in Threads : ~Writes(q, o, u)
        BY <2>4, <3>2, <3>4, <4>1 DEF HasTrail, ChainOf, HasRead, Writes
      <4>3. \A q \in Threads : ~Writes(q, o, u)'
        BY <3>3, <4>2 DEF Writes
      <4>4. About(o, u)' = {}
        BY <2>2, <4>1, SameEntries DEF HasTrail
      <4> QED
        BY <4>3, <4>4, NothingOwedNext
    <3>5. CASE ~(o = req[t].org /\ u = req[t].user)
      <4>1. role'[o][u] = role[o][u]
        BY <2>1, <3>1, <3>5, StandingMoves
      <4>2. \A q \in Threads : Tells(q, o, u) => req'[q] = req[q]
        BY <2>0, <2>2 DEF Tells, Serves
      <4> QED
        BY <2>2, <3>2, <3>3, <4>1, <4>2, SameEntries, ChainFrame
    <3> QED
      BY <3>4, <3>5
  <2> QED
    BY <2>3, <2>4 DEF ChainInv
<1>13. ASSUME NEW t \in Threads, Accept(t)
      PROVE  ChainInv'
  <2>0. Served(t)
    BY <1>13 DEF Accept, Served
  <2> QED
    BY <1>13, <2>0, ServedQuiet DEF Accept
<1>14. ASSUME NEW t \in Threads, NEW u \in Users, NEW o \in Orgs, NEW k \in Keys,
             CreateKey(t, u, o, k)
      PROVE  ChainInv'
  <2>0. req' = req
    BY <1>14 DEF CreateKey
  <2> QED
    BY <1>14, <2>0, WaitingQuiet DEF CreateKey
<1>15. ASSUME NEW t \in Threads, NEW u \in Users, NEW o \in Orgs, NEW k \in Keys,
             RevokeKey(t, u, o, k)
      PROVE  ChainInv'
  <2>0. req' = req
    BY <1>15 DEF RevokeKey
  <2> QED
    BY <1>15, <2>0, WaitingQuiet DEF RevokeKey
<1>16. ASSUME NEW t \in Threads, NEW k \in Keys, Present(t, k)
      PROVE  ChainInv'
  <2>0. Serves(t, "touch") /\ req'[t].row = k
    BY <1>16, PresentServes
  <2> QED
    BY <1>16, <2>0, ServesQuiet DEF Present
<1>17. ASSUME NEW t \in Threads, Touch(t)
      PROVE  ChainInv'
  <2>0. Served(t)
    BY <1>17 DEF Touch, Served
  <2> QED
    BY <1>17, <2>0, ServedQuiet DEF Touch
<1>18. CASE UNCHANGED vars
  BY <1>18, WaitingQuiet DEF vars
<1> QED
  BY MembersAssumption, <1>1, <1>2, <1>3, <1>4, <1>5, <1>6, <1>7, <1>8, <1>9, <1>10, <1>11, <1>12, <1>13, <1>14, <1>15, <1>16, <1>17, <1>18
  DEF Next, Standings, Joining, Access, Consoles, ChangeRole, RemoveMember,
      MemberRole, MemberRemove, Standing

(* Of the entries after one there is a first.                              *)
LEMMA FirstAfter ==
  ASSUME TypeOK, NEW o, NEW u, NEW n \in About(o, u),
         {m \in About(o, u) : m > n} # {}
  PROVE  \E m \in {m \in About(o, u) : m > n} :
           \A k \in {k \in About(o, u) : k > n} : m <= k
<1> DEFINE S == {m \in About(o, u) : m > n}
<1>1. S \subseteq Nat /\ S # {}
  BY AboutIsIn DEF TypeOK
<1>2. \E m \in S : \A y \in S : ~ (<<y, m>> \in OpToRel(<, Nat))
  <2> HIDE DEF S
  <2> QED
    BY <1>1, WFMin, NatLessThanWellFounded
<1>3. PICK m \in S : \A y \in S : ~ (y < m)
  BY <1>1, <1>2 DEF OpToRel
<1>4. \A y \in S : m <= y
  BY <1>1, <1>3
<1> QED
  BY <1>4

LEMMA ChainTells == TypeOK /\ ChainInv => AuditIsAChain
<1> SUFFICES ASSUME TypeOK, ChainInv, NEW o \in Orgs, NEW u \in Users,
                    NEW n \in About(o, u), <<o, u>> \notin tangled
             PROVE  LET later == {m \in About(o, u) : m > n} IN
                    IF later = {}
                      THEN \/ audit[n].to = role[o][u]
                           \/ \E t \in Threads : req[t].pc = "audit" /\ req[t].org = o
                                                 /\ req[t].target = u
                      ELSE \E m \in later : /\ \A k \in later : m <= k
                                            /\ audit[m].from = audit[n].to
  BY DEF AuditIsAChain
<1> DEFINE later == {m \in About(o, u) : m > n}
<1>1. LastTells(o, u) /\ Linked(o, u)
  BY DEF ChainInv, ChainOf
<1>2. About(o, u) \subseteq Nat
  BY AboutIsIn DEF TypeOK
<1>3. CASE later = {}
  <2>1. IsLast(n, o, u)
    BY <1>2, <1>3 DEF IsLast
  <2> QED
    BY <1>1, <1>3, <2>1 DEF LastTells, Tells, Writes
<1>4. CASE later # {}
  <2>1. PICK m \in later : \A k \in later : m <= k
    BY <1>4, FirstAfter
  <2>2. m \in About(o, u) /\ n < m
    BY <1>2, <2>1
  <2>3. \A k \in About(o, u) : k <= n \/ m <= k
    BY <1>2, <2>1
  <2>4. audit[m].from = audit[n].to
    BY <1>1, <2>2, <2>3 DEF Linked
  <2> QED
    BY <1>4, <2>1, <2>4
<1> QED
  BY <1>3, <1>4

(* The entries about a membership that one request at a time changes, each *)
(* leaving its entry, form a chain that ends with the role of today.       *)
THEOREM TrailHolds == Spec => []AuditIsAChain
<1>1. Init => TypeOK /\ Shape /\ AfterTheFounder /\ Founding /\ ChainInv
  BY TypeInit, FounderInit, FoundingInit
<1>2. TypeOK /\ Shape /\ AfterTheFounder /\ Founding /\ ChainInv /\ [Next]_vars
        => (TypeOK /\ Shape /\ AfterTheFounder /\ Founding /\ ChainInv)'
  BY TypeStep, FounderStep, FoundingStep, ChainStep
<1>3. TypeOK /\ ChainInv => AuditIsAChain
  BY ChainTells
<1> QED
  BY <1>1, <1>2, <1>3, PTL DEF Spec

=============================================================================
