---------------------------- MODULE SingleFlight ----------------------------
(***************************************************************************)
(* What the re-entrancy guard of remediate() promises a process: work on a *)
(* key is in flight at most once per holder.  A holder starts a new piece  *)
(* of work on a key only when none of its own is in flight for the key; it *)
(* lands; and a crash of the holder takes all of its work with it.  A      *)
(* piece of work is never taken up twice.                                  *)
(***************************************************************************)
CONSTANTS Holders, Keys, Jobs

VARIABLES
  flights,   (* <<holder, key, job>> in flight                             *)
  spent      (* jobs that were ever started                                *)

vars == <<flights, spent>>

Init == flights = {} /\ spent = {}

InFlight(h, k) == \E f \in flights : f[1] = h /\ f[2] = k

Start(h, k, j) ==
  /\ ~InFlight(h, k)
  /\ j \notin spent
  /\ flights' = flights \union {<<h, k, j>>}
  /\ spent' = spent \union {j}

Land(f) ==
  /\ f \in flights
  /\ flights' = flights \ {f}
  /\ UNCHANGED spent

Crash(h) ==
  /\ flights' = {f \in flights : f[1] # h}
  /\ UNCHANGED spent

Next ==
  \/ \E h \in Holders, k \in Keys, j \in Jobs : Start(h, k, j)
  \/ \E f \in flights : Land(f)
  \/ \E h \in Holders : Crash(h)

Spec == Init /\ [][Next]_vars
=============================================================================
