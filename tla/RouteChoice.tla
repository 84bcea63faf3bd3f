---------------------------- MODULE RouteChoice -----------------------------
(***************************************************************************)
(* What the planner may expect of find_path: one answer to a query, which  *)
(* is a route if there is one, and no route otherwise.  It does not say    *)
(* which route.  Dispatch takes its routes from the same set.              *)
(***************************************************************************)
EXTENDS RoadMap

VARIABLES query, answer

None == <<>>       (* The empty vector: no route.                          *)
Pending == <<0>>   (* Not answered yet.                                    *)

(* A query names two nodes and holds the snapshot of the map. *)
Allowed(q) == RoutesBetween(q.start, q.target, q.status, q.closed)

Init == answer = Pending

Answer ==
  /\ answer = Pending
  /\ \/ answer' \in Allowed(query)
     \/ Allowed(query) = {} /\ answer' = None
  /\ UNCHANGED query

Spec == Init /\ [][Answer]_<<query, answer>>
FairSpec == Spec /\ WF_<<query, answer>>(Answer)
=============================================================================
