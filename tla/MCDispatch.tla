----------------------------- MODULE MCDispatch ------------------------------
(***************************************************************************)
(* Two small maps, each with two ways around and, as in the real map, an   *)
(* edge whose id is edge_count_: a stub (1-2) with a square (2-3-5-4), for *)
(* every kind of turn, and a square alone (1-2-4-3), where the shorter way *)
(* may also begin with a reversal.                                         *)
(***************************************************************************)
EXTENDS Dispatch

MCRoads == << <<1, 2>>, <<2, 3>>, <<2, 4>>, <<3, 5>>, <<4, 5>> >>
MCPos == << <<0, 0>>, <<2, 0>>, <<4, 0>>, <<2, 1>>, <<4, 1>> >>

MCSquare == << <<1, 2>>, <<2, 4>>, <<1, 3>>, <<3, 4>> >>
MCSquarePos == << <<0, 0>>, <<2, 0>>, <<0, 1>>, <<2, 1>> >>

OneCar == {1}
TwoCars == {1, 2}
OneStart == (1 :> <<1, 2>>)
TwoStarts == (1 :> <<1, 2>>) @@ (2 :> <<5, 3>>)

MCBudget(any, task, cancel, topology, field, fault) ==
  [any |-> any, task |-> task, cancel |-> cancel, topology |-> topology,
   obstacle |-> field, place |-> field, reset |-> fault, loss |-> fault]

TwoTasks   == MCBudget(2, 2, 0, 0, 0, 0)
ThreeTasks == MCBudget(3, 3, 0, 0, 0, 0)
TaskCancelObstacle == MCBudget(3, 1, 1, 0, 1, 0)
AnyThree   == MCBudget(3, 1, 1, 1, 1, 1)

MCPlaces == {<<3, 1>>}
MCRequests == {[edges |-> {2}, nodes |-> {3}]}
=============================================================================
