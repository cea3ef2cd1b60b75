---------------------------- MODULE MCIngestion ----------------------------
(* Instances of Ingestion for TLC.                                         *)
EXTENDS Ingestion, TLC

CONSTANTS d1, d2, p1, p2, w1, w2

MCProjectOf == [d \in Deployments |-> IF d = d1 THEN p1 ELSE p2]

Line(kind, error, place) == [kind |-> kind, error |-> error, place |-> place]

start   == Line("start", "-", "-")
frame   == Line("frame", "-", "cart.py:12")
summary == Line("summary", "ValueError", "-")
request == Line("request", "-", "-")

(* Tracebacks that a summary ends, the safety valve, the next request or   *)
(* the next traceback; some of them are of one signature.                  *)
MCScripts ==
  [d \in Deployments |->
     IF d = d1 THEN {<<start, frame, start, summary>>}
               ELSE {<<start, start, request>>}]

Symmetry == Permutations(Workers) \union Permutations(Readers)
============================================================================
