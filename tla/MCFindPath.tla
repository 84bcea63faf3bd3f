----------------------------- MODULE MCFindPath -----------------------------
(***************************************************************************)
(* Six nodes of the map of init_map (4 to 9, here 1 to 6), with their      *)
(* coordinates and weights.  Some edges are not idle, perhaps in one       *)
(* direction only, and up to one node is closed.                           *)
(***************************************************************************)
EXTENDS FindPath, FiniteSets

MCRoads == << <<1, 2>>, <<2, 3>>, <<1, 4>>, <<2, 5>>, <<3, 6>>, <<4, 5>>, <<5, 6>> >>
MCPos == << <<260, 70>>, <<260, 190>>, <<260, 310>>, <<450, 70>>, <<450, 190>>, <<450, 310>> >>

MCWeight == [e \in Edges |-> 10]

(* The distance, rounded down; anything for the node that is not there. *)
Root(n) == CHOOSE r \in 0..400 : r * r <= n /\ n < (r + 1) * (r + 1)
Distance(a, b) == Root((Pos[a][1] - Pos[b][1]) * (Pos[a][1] - Pos[b][1])
                     + (Pos[a][2] - Pos[b][2]) * (Pos[a][2] - Pos[b][2]))
MCEstimate == [a \in Nodes |-> [b \in Asked |-> IF b \in Nodes THEN Distance(a, b) ELSE 7 * a]]

UpTo(k) == {S \in SUBSET Edges : Cardinality(S) <= k}

Statuses ==
  {[e \in Edges |-> IF e \in hard THEN "BLOCKED" ELSE IF e \in soft THEN "FAULT_TEMP" ELSE "IDLE"] :
     hard \in UpTo(1), soft \in UpTo(2)}

MCQueries == [start : {1}, target : {0, 3, 6, 7}, status : Statuses,
              closed : {{}, {2}}]
=============================================================================
