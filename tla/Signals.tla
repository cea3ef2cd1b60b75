------------------------------ MODULE Signals ------------------------------
(***************************************************************************)
(* The arithmetic of observability/services.py and of the two calendars of *)
(* oncall: the golden signals of a deployment, the monitors that compare   *)
(* them with a threshold, the banner that does, and the member of a        *)
(* schedule who is on call in a week.                                      *)
(*                                                                         *)
(* The code computes with floats.  Values are naturals here, rates are     *)
(* whole percents, and the rank of a percentile, which the code computes   *)
(* as ceil(pct / 100.0 * n), is the ceiling of the exact quotient.         *)
(***************************************************************************)
EXTENDS Integers, Sequences

CONSTANT NoValue     (* None: no sample in the window                      *)

(* What the points of a window add up to: their request and error counts,  *)
(* and the latencies, sorted.                                              *)
Windows == [requests : Nat, errors : Nat, latencies : Seq(Nat)]

Sorted(s) == \A i, j \in DOMAIN s : i <= j => s[i] <= s[j]

Percents == 1..100

(* _percentile: the rank is ceil(pct/100 * n), kept within 1..n.           *)
Rank(n, pct) ==
  LET ceiling == (pct * n + 99) \div 100
  IN  IF ceiling < 1 THEN 1 ELSE IF ceiling > n THEN n ELSE ceiling

Percentile(s, pct) == IF s = <<>> THEN NoValue ELSE s[Rank(Len(s), pct)]

(* rollups.  The error of a request is a row of its own, which may fall    *)
(* into the window when its request does not: hence the bound.             *)
ErrorRate(w) ==
  IF w.requests = 0 THEN 0
  ELSE IF w.errors > w.requests THEN 100 ELSE (100 * w.errors) \div w.requests

Rollup(w, minutes) ==
  [error_rate |-> ErrorRate(w),
   req_rate   |-> w.requests \div minutes,
   throughput |-> w.requests,
   p50        |-> Percentile(w.latencies, 50),
   p95        |-> Percentile(w.latencies, 95),
   p99        |-> Percentile(w.latencies, 99)]

Comparators == {"gt", "gte", "lt", "lte"}

(* Monitor.breaches                                                        *)
Breaches(comparator, threshold, value) ==
  /\ value # NoValue
  /\ CASE comparator = "gt"  -> value > threshold
       [] comparator = "gte" -> value >= threshold
       [] comparator = "lt"  -> value < threshold
       [] comparator = "lte" -> value <= threshold

(* Schedule.current_oncall: the weeks of every year are numbered as if it  *)
(* had 53 of them.                                                         *)
WeekIndex(year, week) == year * 53 + (week - 1)

Position(n, year, week) == (WeekIndex(year, week) % n) + 1

CurrentOncall(members, year, week) ==
  IF members = <<>> THEN NoValue
  ELSE members[Position(Len(members), year, week)]
=============================================================================
