----------------------------- MODULE MCOncall -----------------------------
(***************************************************************************)
(* A small instance of Oncall: a monitor on the median latency or on the   *)
(* error rate, two policies, and a rule and a step that may be added.      *)
(***************************************************************************)
EXTENDS Oncall, TLC

MCForms ==
  {[metric |-> "p50", comparator |-> "gt", threshold |-> 1, severity |-> 2,
    enabled |-> TRUE],
   [metric |-> "error_rate", comparator |-> "gte", threshold |-> 100,
    severity |-> 3, enabled |-> TRUE]}

MCMeasured ==
  {[requests |-> 2, errors |-> 0, latencies |-> <<1, 1>>],
   [requests |-> 2, errors |-> 2, latencies |-> <<2, 3>>]}

MCRules == <<[min |-> 2, mine |-> TRUE, priority |-> 0, policy |-> "major"],
             [min |-> 3, mine |-> TRUE, priority |-> 1, policy |-> "minor"]>>

MCNewRules == {[min |-> 3, mine |-> TRUE, priority |-> 0, policy |-> "minor"]}

MCSteps ==
  {[policy |-> "major", order |-> 0, after |-> 0, schedule |-> "weekly"],
   [policy |-> "major", order |-> 1, after |-> 1, schedule |-> "weekly"],
   [policy |-> "minor", order |-> 0, after |-> 1, schedule |-> Nobody]}

MCNewSteps == {[policy |-> "major", order |-> 2, after |-> 0, schedule |-> Nobody]}

MCRota == [weekly |-> <<"ann", "bob">>]
=============================================================================
