------------------------------ MODULE FindPath ------------------------------
(***************************************************************************)
(* planner::find_path: A* over the planner's snapshot of the map.          *)
(*                                                                         *)
(* A node is closed when it is taken from the open set for the first time. *)
(* The estimate is a distance in pixels, the cost a weight: it may be far  *)
(* too high, so that a closed node may be found again at a lower cost, and *)
(* its predecessor changes although it has been expanded.  RouteChoice is  *)
(* what must be true of the answer all the same.                           *)
(***************************************************************************)
EXTENDS RoadMap

CONSTANTS
  Weight,    (* edges_[e-1].weight.                                        *)
  Penalty,   (* SOFT_OBSTACLE_PENALTY.                                     *)
  Estimate,  (* heuristic(a, b), for a node and a target.                  *)
  Queries    (* [start, target, status, closed]: the arguments.            *)

EdgeStatuses == {"IDLE", "OCCUPIED", "BLOCKED", "FAULT_TEMP", "FAULT_REPAIR"}

(* The target may be 0, which no check refuses, or beyond the map, where   *)
(* all numbers are alike.                                                  *)
Asked == 0..NodeCount + 1

ASSUME WeightAssumption   == Weight \in [Edges -> Nat \ {0}] /\ Penalty \in Nat
ASSUME EstimateAssumption == Estimate \in [Nodes -> [Asked -> Nat]]
ASSUME QueryAssumption ==
  Queries \subseteq [start : Nodes, target : Asked, status : [Edges -> EdgeStatuses],
                     closed : SUBSET Nodes]

(* A route, which visits no node twice, fits into path_stack. *)
ASSUME PathLenAssumption == NodeCount - 1 <= MaxPathLen

VARIABLES
  query,    (* The arguments.                                              *)
  pc,       (* "search": the outer loop; "relax": the neighbours of here;  *)
            (* "trace": the loop over came_from; "check", "done".          *)
  open,     (* open_set: pairs <<id, f_cost>>.                             *)
  cost,     (* g_cost, with Unreached for INF.                             *)
  via,      (* came_edge, 0 for -1; came_from[n] is From(via[n]).          *)
  shut,     (* The nodes that are closed.                                  *)
  here,     (* current, then cur.                                          *)
  todo,     (* Edges of adj that the loop has not come to.                 *)
  path      (* path_edges, in the order it has after reverse.              *)

vars == <<query, pc, open, cost, via, shut, here, todo, path>>

Unreached == -1

Priority(n, g) == <<n, g + Estimate[n][query.target]>>

Init ==
  /\ query \in Queries
  /\ pc = "check"
  /\ cost = [n \in Nodes |-> IF n = query.start THEN 0 ELSE Unreached]
  /\ open = {Priority(query.start, 0)}
  /\ via = [n \in Nodes |-> 0]
  /\ shut = {} /\ here = query.start /\ todo = {} /\ path = <<>>

(* The target is a node of the map, or 0. *)
Begin ==
  /\ pc = "check"
  /\ pc' = IF query.target <= NodeCount THEN "search" ELSE "done"
  /\ UNCHANGED <<query, open, cost, via, shut, here, todo, path>>

(* top(): the lowest f_cost; equal ones leave the heap in any order. *)
Tops == {entry \in open : \A other \in open : entry[2] <= other[2]}

(* The test comes before the pop. *)
MutSkip ==
  /\ pc = "search"
  /\ \E entry \in Tops : entry[1] \in shut
  /\ UNCHANGED vars

(* What was pushed again at a lower cost is found closed later. *)
Skip ==
  /\ pc = "search"
  /\ \E entry \in Tops : entry[1] \in shut /\ open' = open \ {entry}
  /\ UNCHANGED <<query, pc, cost, via, shut, here, todo, path>>

Expand ==
  /\ pc = "search"
  /\ \E entry \in Tops :
       /\ entry[1] \notin shut
       /\ open' = open \ {entry}
       /\ shut' = shut \cup {entry[1]}
       /\ here' = entry[1]
       /\ IF entry[1] = query.target
          THEN pc' = "trace" /\ todo' = {}
          ELSE /\ pc' = "relax"
               /\ todo' = {e \in Edges : From(e) = entry[1]}
  /\ UNCHANGED <<query, cost, via, path>>

GiveUp ==
  /\ pc = "search" /\ open = {}
  /\ pc' = "done"
  /\ UNCHANGED <<query, open, cost, via, shut, here, todo, path>>

Reached(e) ==
  cost[here] + Weight[e] + (IF query.status[e] = "FAULT_TEMP" THEN Penalty ELSE 0)

Cheaper(e) == cost[To(e)] = Unreached \/ Reached(e) < cost[To(e)]

(* The status of the node ahead is not looked at. *)
MutTaken(e) ==
  Usable(e) /\ query.status[e] \notin {"BLOCKED", "FAULT_REPAIR", "OCCUPIED"} /\ Cheaper(e)

Taken(e) == Usable(e) /\ Passable(e, query.status, query.closed) /\ Cheaper(e)

Relax ==
  /\ pc = "relax"
  /\ \E e \in todo :
       /\ \A f \in todo : e <= f
       /\ todo' = todo \ {e}
       /\ IF Taken(e)
          THEN /\ cost' = [cost EXCEPT ![To(e)] = Reached(e)]
               /\ via' = [via EXCEPT ![To(e)] = e]
               /\ open' = open \cup {Priority(To(e), Reached(e))}
          ELSE UNCHANGED <<cost, via, open>>
  /\ UNCHANGED <<query, pc, shut, here, path>>

Relaxed ==
  /\ pc = "relax" /\ todo = {}
  /\ pc' = "search"
  /\ UNCHANGED <<query, open, cost, via, shut, here, todo, path>>

(* The edge is taken for the node it comes from. *)
MutTrace ==
  /\ pc = "trace"
  /\ IF via[here] = 0
     THEN pc' = "done" /\ UNCHANGED <<here, path>>
     ELSE path' = <<via[here]>> \o path /\ here' = via[here] /\ UNCHANGED pc
  /\ UNCHANGED <<query, open, cost, via, shut, todo>>

Trace ==
  /\ pc = "trace"
  /\ IF via[here] = 0
     THEN pc' = "done" /\ UNCHANGED <<here, path>>
     ELSE path' = <<via[here]>> \o path /\ here' = From(via[here]) /\ UNCHANGED pc
  /\ UNCHANGED <<query, open, cost, via, shut, todo>>

Next == Begin \/ Skip \/ Expand \/ GiveUp \/ Relax \/ Relaxed \/ Trace

Spec == Init /\ [][Next]_vars
FairSpec == Spec /\ WF_vars(Next)

-----------------------------------------------------------------------------
(* Properties *)

TypeOK ==
  /\ query \in Queries
  /\ pc \in {"check", "search", "relax", "trace", "done"}
  /\ open \subseteq Nodes \X Nat
  /\ cost \in [Nodes -> Nat \cup {Unreached}]
  /\ via \in [Nodes -> Edges \cup {0}]
  /\ shut \subseteq Nodes /\ here \in Nodes /\ todo \subseteq Edges
  /\ path \in Seq(Edges)

(* However the predecessors of closed nodes were changed, the search ends  *)
(* with a chain of passable edges from start to target that visits no node *)
(* twice, and it answers "none" only if there is no such chain.            *)
Choice == INSTANCE RouteChoice
            WITH answer <- IF pc = "done" THEN path ELSE <<0>>

RouteIsAllowed == Choice!Spec

(* The search comes to an end: no node is expanded twice, and the loop over *)
(* came_from meets no cycle.                                                *)
SearchEnds == <>(pc = "done")
=============================================================================
