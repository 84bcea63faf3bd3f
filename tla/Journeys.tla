------------------------------ MODULE Journeys ------------------------------
(***************************************************************************)
(* What the operator may expect of the missions, whoever carries them out: *)
(* a car that sets out for a target takes a number of roads, each from the *)
(* node the one before led to, and is free again when it has reached the   *)
(* target.  Dispatch implements this as long as nobody interferes.         *)
(***************************************************************************)
EXTENDS Naturals, FiniteSets

CONSTANTS Cars, Arcs, Targets, StartArc

VARIABLES
  at,     (* The road of each car: <<node behind, node ahead>>.             *)
  goal,   (* Its target; 0: none.                                          *)
  left    (* The number of roads after this one.                           *)

vars == <<at, goal, left>>

Init ==
  /\ at = StartArc
  /\ goal = [c \in Cars |-> 0] /\ left = [c \in Cars |-> 0]

SetOut(c, t) ==
  /\ goal[c] = 0
  /\ goal' = [goal EXCEPT ![c] = t]
  /\ left' \in {[left EXCEPT ![c] = n] : n \in 1..Cardinality(Arcs)}
  /\ UNCHANGED at

TakeRoad(c) ==
  /\ left[c] > 0
  /\ \E arc \in Arcs : arc[1] = at[c][2] /\ at' = [at EXCEPT ![c] = arc]
  /\ left' = [left EXCEPT ![c] = @ - 1]
  /\ UNCHANGED goal

Arrive(c) ==
  /\ goal[c] # 0 /\ left[c] = 0 /\ at[c][2] = goal[c]
  /\ goal' = [goal EXCEPT ![c] = 0]
  /\ UNCHANGED <<at, left>>

Go(c) == TakeRoad(c) \/ Arrive(c)

Next == \E c \in Cars : Go(c) \/ \E t \in Targets : SetOut(c, t)

Spec == Init /\ [][Next]_vars /\ \A c \in Cars : WF_vars(Go(c))
=============================================================================
