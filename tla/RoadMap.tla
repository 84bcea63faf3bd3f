------------------------------- MODULE RoadMap -------------------------------
(***************************************************************************)
(* The part of MapData that never changes: nodes with coordinates, and     *)
(* one-way edges written in pairs by init_map.  The i-th road yields edge  *)
(* i and, in the opposite direction, edge i + Len(Roads); bipaths records  *)
(* the pairs.                                                              *)
(***************************************************************************)
EXTENDS Integers, Sequences, SequencesExt

CONSTANTS
  Roads,     (* The list of init_map: a sequence of pairs <<from, to>>.    *)
  NodeCount, (* node_count_.                                               *)
  Pos,       (* Coordinates of the nodes: pairs <<x, y>>.                  *)
  MaxPathLen (* AGV_MAX_PATHLEN.                                           *)

Nodes     == 1..NodeCount
EdgeCount == 2 * Len(Roads)
Edges     == 1..EdgeCount

ASSUME RoadsAssumption == /\ NodeCount \in Nat
                          /\ Roads \in Seq(Nodes \X Nodes)
                          /\ Len(Roads) > 0
ASSUME SizeAssumption  == NodeCount <= EdgeCount /\ MaxPathLen \in Nat
ASSUME PosAssumption   == Pos \in [Nodes -> Int \X Int]

From(e) == IF e <= Len(Roads) THEN Roads[e][1] ELSE Roads[e - Len(Roads)][2]
To(e)   == IF e <= Len(Roads) THEN Roads[e][2] ELSE Roads[e - Len(Roads)][1]
Arc(e)  == <<From(e), To(e)>>
Arcs    == {Arc(e) : e \in Edges}

(* get_other_path over all of bipaths: every edge has a counterpart. *)
Pair(e) == IF e <= Len(Roads) THEN e + Len(Roads) ELSE e - Len(Roads)

EdgesOn(u, v) == {e \in Edges : Arc(e) = <<u, v>>}

(* The planner skips an id >= edge_count_, though ids start at 1: it never *)
(* looks at the edge with the largest id.                                  *)
Usable(e) == e < EdgeCount

-----------------------------------------------------------------------------
(* Geometry: three nodes, the middle one is where a car turns. *)

Cross1(a, b, c) == (Pos[b][1] - Pos[a][1]) * (Pos[c][2] - Pos[a][2])
Cross2(a, b, c) == (Pos[b][2] - Pos[a][2]) * (Pos[c][1] - Pos[a][1])
Along(a, b, c)  == (Pos[c][1] - Pos[b][1]) * (Pos[b][1] - Pos[a][1])
                 + (Pos[c][2] - Pos[b][2]) * (Pos[b][2] - Pos[a][2])

TurnNames == {"STRAIGHT", "LEFT", "RIGHT", "UTURN"}

(* generate_turn: y grows downwards on the map. *)
Turn(a, b, c) ==
  CASE Cross1(a, b, c) > Cross2(a, b, c) -> "RIGHT"
    [] Cross1(a, b, c) < Cross2(a, b, c) -> "LEFT"
    [] OTHER -> IF Along(a, b, c) > 0 THEN "STRAIGHT" ELSE "UTURN"

(* jud_rev: from a, c lies opposite to b (or beside a, never beyond b). *)
JudRev(a, b, c) == Cross1(a, b, c) = Cross2(a, b, c) /\ Along(a, b, c) <= 0

-----------------------------------------------------------------------------
(* What find_path may answer.  A* answers one chain of usable edges without *)
(* repeated nodes; which one depends on weights this module leaves out.     *)

IsChain(p) ==
  /\ \A i \in DOMAIN p : Usable(p[i]) /\ To(p[i]) # From(p[1])
  /\ \A i \in 1..Len(p) - 1 : To(p[i]) = From(p[i + 1])
  /\ \A i, j \in DOMAIN p : To(p[i]) = To(p[j]) => i = j

Min2(a, b) == IF a < b THEN a ELSE b

(* Longer chains would visit a node twice. *)
Routes == UNION {{p \in [1..n -> Edges] : IsChain(p)} : n \in 1..Min2(MaxPathLen, NodeCount - 1)}

(* status[e] of an edge and a set of closed nodes, as find_path tests them. *)
Passable(e, status, closed) ==
  status[e] \notin {"BLOCKED", "FAULT_REPAIR", "OCCUPIED"} /\ To(e) \notin closed

(* find_path({}, start = target) answers {}: it is not a member of Routes. *)
RoutesBetween(start, target, status, closed) ==
  {p \in Routes : /\ From(p[1]) = start
                  /\ To(Last(p)) = target
                  /\ \A i \in DOMAIN p : Passable(p[i], status, closed)}
=============================================================================
