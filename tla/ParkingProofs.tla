---------------------------- MODULE ParkingProofs ----------------------------
(***************************************************************************)
(* What planner and router do to the map on behalf of the cars: a road is  *)
(* occupied from when a car parks on it until its next mission starts.     *)
(* Neither locks what it read until it writes; that nothing is lost        *)
(* between depends on the stages of MissionProofs.                         *)
(***************************************************************************)
EXTENDS MissionProofs

-----------------------------------------------------------------------------
(* Who writes the map *)

NeverReset == Budget["reset"] = 0

(* The planner frees the road it found occupied. *)
StillOccupied == plan.pc = "free" => edge[plan.eid] = "OCCUPIED"

FreeInv == budget["reset"] = 0 /\ StillOccupied

(* While the topology changes the planner is idle: nobody else writes the  *)
(* map between its look at a road and its update.                          *)
LEMMA WritersOfMap ==
  ASSUME Undisturbed, MissionInv, budget["reset"] = 0, [Next]_vars, edge' # edge
  PROVE  \/ PlanFree \/ PlanFreePair \/ RouteOccupy \/ RouteOccupyPair
         \/ topo.pc # "idle" /\ UNCHANGED <<plan, route, car>>
<1>1. ~ResetMap
  BY DEF ResetMap, Spend
<1>2. Asked \/ Publish \/ Lose \/ (\E c \in Cars : Drive(c) \/ World(c)) \/ UNCHANGED vars
        => edge' = edge
  BY <1>1 DEF Asked, Assign, Cancel, TopoAsk, Publish, Lose, Drive, ReachNode, Decide, World,
       TimeOut, SeeObstacle, SeeClear, PutDown, vars, shm
<1>3. SubStep => edge' = edge
  BY DEF SubStep, SubArrive, SubRead, SubMark, SubMarkPair, SubConclude, SubScan, SubFree,
         SubFreePair, SubPlace, shm, MissionInv, CalmInv
<1>4. PlanStep /\ edge' # edge => PlanFree \/ PlanFreePair
  BY DEF PlanStep, PlanTake, PlanAccept, PlanRefuse, PlanFail, PlanGiveUp, PlanUpdate, PlanScan,
         PlanCount, PlanAct, shm
<1>5. RouteStep /\ edge' # edge => RouteOccupy \/ RouteOccupyPair
  BY DEF RouteStep, RouteTake, RoutePark, RouteTell, RouteOrient, RouteAdvance, shm
<1>6. TopoStep => topo.pc # "idle"
  BY DEF TopoStep, TopoEdge, TopoNode, TopoPair, TopoCars, TopoNotify
<1>7. TopoStep => UNCHANGED <<plan, route, car>>
  BY OthersKeepCars
<1> QED BY <1>2, <1>3, <1>4, <1>5, <1>6, <1>7 DEF Next

LEMMA PlannerRests ==
  ASSUME MissionInv, topo.pc # "idle"
  PROVE  plan.pc = "idle" /\ route.pc = "idle"
<1>1. plan \in PlanStates /\ plan.msg.car \in Cars /\ route.car \in Cars
  <2>1. plan \in PlanStates /\ plan.msg \in TaskMsgs /\ route \in RouteStates
    BY DEF MissionInv, TypeOK, PlanStates
  <2> QED BY <2>1, KeyTypes DEF RouteStates
<1>2. \A c \in Cars : Unplanned(c) /\ Unrouted(c)
  BY DEF MissionInv, CalmInv, Resting
<1>3. ASSUME plan.pc # "idle" PROVE FALSE
  <2>1. PICK c \in Cars : c = plan.msg.car
    BY <1>1
  <2> QED BY <1>2, <1>3, <2>1 DEF Unplanned, Planner
<1>4. ASSUME route.pc # "idle" PROVE FALSE
  <2>1. PICK c \in Cars : c = route.car
    BY <1>1
  <2> QED BY <1>2, <1>4, <2>1 DEF Unrouted, Router
<1> QED BY <1>3, <1>4

(* Who has no budget left never acts again. *)
LEMMA SpentIsSpent ==
  ASSUME TypeOK, NEW kind \in {"reset", "topology"}, budget[kind] = 0, [Next]_vars
  PROVE  budget'[kind] = 0
<1>1. ~Spend(kind)
  BY DEF Spend
<1>2. ASSUME NEW other \in ActionKinds \ {"any"}, Spend(other) PROVE budget'[kind] = 0
  <2>1. other # kind /\ kind \in ActionKinds \ {other, "any"}
    BY <1>1, <1>2 DEF ActionKinds
  <2> QED BY <1>2, <2>1, SpendOne
<1>3. Asked => budget'[kind] = 0
  BY <1>2 DEF Asked, Assign, Cancel, TopoAsk, ResetMap, ActionKinds
<1>4. TopoStep \/ RouteStep \/ Publish => budget' = budget
  BY DEF TopoStep, TopoEdge, TopoNode, TopoPair, TopoCars, TopoNotify, RouteStep, RouteTake,
         RouteOccupy, RouteOccupyPair, RoutePark, RouteTell, RouteOrient, RouteAdvance, Publish
<1>5. PlanStep \/ SubStep => budget' = budget
  BY DEF PlanStep, PlanTake, PlanAccept, PlanRefuse, PlanFail, PlanGiveUp, PlanUpdate, PlanScan,
         PlanFree, PlanFreePair, PlanCount, PlanAct, SubStep, SubArrive, SubRead, SubMark,
         SubMarkPair, SubConclude, SubScan, SubFree, SubFreePair, SubPlace
<1>6. Lose \/ (\E c \in Cars : Drive(c) \/ World(c)) => budget'[kind] = 0
  BY <1>2 DEF Lose, Drive, ReachNode, Decide, World, TimeOut, SeeObstacle, SeeClear, PutDown,
              ActionKinds
<1> QED BY <1>3, <1>4, <1>5, <1>6 DEF Next, vars

LEMMA FreeStep ==
  ASSUME Undisturbed, MissionInv, FreeInv, [Next]_vars
  PROVE  FreeInv'
<1>1. /\ TypeOK /\ edge \in [Edges -> EdgeStatuses] /\ plan \in PlanStates
      /\ route \in RouteStates /\ route.eid \in Edges
  BY DEF MissionInv, TypeOK, RouteStates
<1>2. budget'["reset"] = 0
  BY <1>1, SpentIsSpent DEF FreeInv
<1> SUFFICES ASSUME plan'.pc = "free" PROVE edge'[plan'.eid] = "OCCUPIED"
  BY <1>2 DEF FreeInv, StillOccupied
<1>3. CASE plan' # plan
  <2>1. PlanScan
    <3>1. ~PlanAccept
      <4> SUFFICES ASSUME PlanAccept PROVE plan'.pc = "update"
        OBVIOUS
      <4>1. PICK start \in StartNodes(car[plan.msg.car], plan.msg, plan.edge) :
              \E p \in Answers(car[plan.msg.car], plan.msg, start) :
                plan' = [plan EXCEPT !.pc = "update", !.old = car[plan.msg.car],
                           !.new = Replanned(car[plan.msg.car], plan.msg, start, p),
                           !.edge = PlanIdle.edge, !.closed = {}]
        BY DEF PlanAccept
      <4> QED BY <1>1, <4>1 DEF PlanStates
    <3>2. PlanStep
      <4>1. RouteStep \/ SubStep => plan' = plan
        BY DEF RouteStep, RouteTake, RouteOccupy, RouteOccupyPair, RoutePark, RouteTell,
               RouteOrient, RouteAdvance, SubStep, SubArrive, SubRead, SubMark, SubMarkPair,
               SubConclude, SubScan, SubFree, SubFreePair, SubPlace
      <4> QED BY <1>3, <4>1, OthersKeepCars DEF Next
    <3>3. ~PlanTake /\ ~PlanRefuse /\ ~PlanFail /\ ~PlanGiveUp /\ ~PlanUpdate
      <4>1. ~PlanTake /\ ~PlanFail /\ ~PlanUpdate
        BY <1>1 DEF PlanTake, PlanFail, PlanUpdate, PlanStates
      <4>2. PlanRefuse \/ PlanGiveUp => plan' = PlanIdle
        BY DEF PlanRefuse, PlanGiveUp
      <4> QED BY <4>1, <4>2 DEF PlanIdle
    <3>4. ~PlanFree /\ ~PlanFreePair /\ ~PlanCount /\ ~PlanAct
      BY <1>1 DEF PlanFree, PlanFreePair, PlanCount, PlanAct, PlanStates, PlanIdle
    <3> QED BY <3>1, <3>2, <3>3, <3>4 DEF PlanStep
  <2>2. PICK e \in Edges : edge[e] = "OCCUPIED" /\ plan' = [plan EXCEPT !.pc = "free", !.eid = e]
    BY <1>1, <2>1 DEF PlanScan, PlanStates, EdgesOn
  <2>3. plan'.eid = e /\ edge' = edge
    BY <1>1, <2>1, <2>2 DEF PlanStates, PlanScan, shm
  <2> QED BY <2>2, <2>3
<1>4. CASE plan' = plan
  <2>1. plan.pc = "free" /\ edge[plan.eid] = "OCCUPIED" /\ plan.eid \in Edges
    BY <1>1, <1>4 DEF FreeInv, StillOccupied, PlanStates
  <2>2. ~PlanFree /\ ~PlanFreePair
    BY <1>1, <1>4, <2>1 DEF PlanFree, PlanFreePair, PlanStates
  <2>3. topo.pc = "idle"
    BY <2>1, PlannerRests
  <2>4. edge' # edge => RouteOccupy \/ RouteOccupyPair
    BY <2>2, <2>3, WritersOfMap DEF FreeInv
  <2>5. ASSUME RouteOccupy \/ RouteOccupyPair PROVE edge'[plan.eid] = "OCCUPIED"
    BY <1>1, <2>1, <2>5 DEF RouteOccupy, RouteOccupyPair, SetEdge
  <2> QED BY <1>4, <2>1, <2>4, <2>5
<1> QED BY <1>3, <1>4

LEMMA NothingLost ==
  ASSUME Undisturbed, MissionInv, FreeInv, [Next]_vars
  PROVE  /\ \A c \in Cars : car'[c] # car[c] =>
              /\ plan.pc = "update" /\ plan'.pc = "scan" => plan.old = car[c]
              /\ route.pc \in {"park", "advance"} /\ route' # route => route.rec = car[c]
              /\ sub.pc = "place" /\ sub' # sub => sub.rec = car[c]
         /\ plan.pc = "free" /\ plan' # plan => edge[plan.eid] = "OCCUPIED"
         /\ sub.pc = "free" /\ sub' # sub => edge[sub.eid] = "OCCUPIED"
<1>1. sub.pc = "idle"
  BY DEF MissionInv, CalmInv
<1>2. ASSUME NEW c \in Cars, car'[c] # car[c]
      PROVE  /\ plan.pc = "update" /\ plan'.pc = "scan" => plan.old = car[c]
             /\ route.pc \in {"park", "advance"} /\ route' # route => route.rec = car[c]
  <2>1. PICK d \in Cars :
           /\ \A other \in Cars \ {d} : car'[other] = car[other]
           /\ \/ /\ PlanUpdate /\ Planner(d) = plan /\ Chosen(d) /\ car'[d] = plan.new
              \/ /\ RoutePark /\ Router(d) = route /\ Parking(d)
                 /\ car'[d] = [car[d] EXCEPT !.status = "IDLE", !.path = <<>>, !.start = car[d].cur]
              \/ /\ RouteAdvance /\ Router(d) = route
                 /\ route.rec = car[d] /\ car'[d] = Advanced(route)
                 /\ \E k \in Nat : NextRoad(route, k)
    BY <1>2, RecordsWritten
  <2>2. c = d
    BY <1>2, <2>1
  <2>3. CASE PlanUpdate /\ Chosen(d) /\ Planner(d) = plan
    BY <2>2, <2>3 DEF Chosen, PlanUpdate
  <2>4. CASE RoutePark /\ Parking(d) /\ Router(d) = route
    BY <2>2, <2>4 DEF RoutePark, Parking
  <2>5. CASE RouteAdvance /\ route.rec = car[d]
    BY <2>2, <2>5 DEF RouteAdvance
  <2> QED BY <2>1, <2>3, <2>4, <2>5
<1> QED BY <1>1, <1>2 DEF FreeInv, StillOccupied

(* Under an operator who waits for the cars, and as long as the map is not *)
(* reset, planner and router overwrite only what they have read: the       *)
(* record of a car is still the one they started from, and the road that   *)
(* the planner frees is still occupied, though neither holds a lock.       *)
THEOREM NoUpdateIsLost ==
  ASSUME Undisturbed, Roomy, WellSigned, NeverReset
  PROVE  Spec => NoLostUpdate
<1>1. Spec => []MissionInv
  BY MissionsKeepTheirStages
<1>2. Init => FreeInv
  <2> SUFFICES ASSUME Init PROVE FreeInv
    OBVIOUS
  <2>1. plan.pc = "idle" /\ budget = Budget
    BY DEF Init, PlanIdle
  <2> QED BY <2>1 DEF FreeInv, StillOccupied, NeverReset
<1>3. MissionInv /\ FreeInv /\ [Next]_vars => FreeInv'
  BY FreeStep
<1>4. MissionInv /\ FreeInv /\ [Next]_vars =>
        [/\ \A c \in Cars : car'[c] # car[c] =>
              /\ plan.pc = "update" /\ plan'.pc = "scan" => plan.old = car[c]
              /\ route.pc \in {"park", "advance"} /\ route' # route => route.rec = car[c]
              /\ sub.pc = "place" /\ sub' # sub => sub.rec = car[c]
         /\ plan.pc = "free" /\ plan' # plan => edge[plan.eid] = "OCCUPIED"
         /\ sub.pc = "free" /\ sub' # sub => edge[sub.eid] = "OCCUPIED"]_vars
  BY NothingLost
<1> QED BY <1>1, <1>2, <1>3, <1>4, PTL DEF Spec, NoLostUpdate
-----------------------------------------------------------------------------
(* Which roads are occupied *)

Sides(arc) == {arc, <<arc[2], arc[1]>>}

(* No two roads join the same two nodes, and none of them joins two nodes  *)
(* that cars are sent to; no two cars start on one road.                   *)
OneRoadEach  == \A e, f \in Edges : Arc(e) = Arc(f) => e = f
TargetsApart == \A e \in Edges : ~(From(e) \in Targets /\ To(e) \in Targets)
StartsApart  == \A c, d \in Cars : StartArc[c] \in Sides(StartArc[d]) => c = d

(* No two cars are sent to one node, and nobody else writes the map.       *)
RoadsApart == /\ Apart /\ OneRoadEach /\ TargetsApart /\ StartsApart
              /\ NeverReset /\ Budget["topology"] = 0

(* An edge is occupied on behalf of car c: the car is parked on the road,  *)
(* or the planner has yet to release it, or the router has occupied it.    *)
Holds(c, e) ==
  \/ /\ car[c].status = "IDLE" \/ Planner(c).pc \in {"scan", "free"}
     /\ Arc(e) \in Sides(Road(car[c]))
  \/ Planner(c).pc = "freePair" /\ e = Pair(Planner(c).eid)
  \/ Router(c).pc = "occupyPair" /\ e = Router(c).eid
  \/ Router(c).pc = "park" /\ e \in {Router(c).eid, Pair(Router(c).eid)}

(* The plan of car c, or the one the planner is about to write, ends on    *)
(* the road of e.                                                          *)
EndsOn(p, e) == p # <<>> /\ Arc(e) \in Sides(Arc(Last(p)))
Means(c, e) == \/ car[c].status = "MOVING" /\ EndsOn(car[c].path, e)
               \/ Planner(c).pc = "update" /\ EndsOn(Planner(c).new.path, e)

Claims(c, e) == Holds(c, e) \/ Means(c, e)

(* Car c is sent to t, or was last. *)
Heads(c, t) == \/ car[c].target = t \/ AssignTo(c, t) \in Tasks(c)
               \/ Planner(c).msg = AssignTo(c, t)

MapIsQuiet == budget["reset"] = 0 /\ budget["topology"] = 0 /\ topo.pc = "idle"

OccupiedIsHeld == \A e \in Edges : edge[e] = "OCCUPIED" <=> \E c \in Cars : Holds(c, e)

OneClaim == \A c, d \in Cars, e \in Edges : Claims(c, e) /\ Claims(d, e) => c = d

OneHead == \A c, d \in Cars, t \in Targets : Heads(c, t) /\ Heads(d, t) => c = d

(* Where a car is at the end of a mission, and what the planner releases.  *)
Placed(c) ==
  /\ car[c].target \in Targets \cup {0}
  /\ car[c].status = "IDLE" => car[c].target \in {0, car[c].cur}
  /\ car[c].status = "MOVING" /\ car[c].cur = car[c].target =>
       Road(car[c]) = Arc(Last(car[c].path))
  /\ Planner(c).pc = "update" => Planner(c).msg = AssignTo(c, Planner(c).new.target)
  /\ Planner(c).pc = "scan" => Road(Planner(c).old) = Road(car[c])
  /\ Planner(c).pc \in {"free", "freePair"} => Arc(Planner(c).eid) = Road(car[c])

(* The planner's copy of the map shows the cars that were never sent out.  *)
SeesStarters ==
  plan.pc = "cars" =>
    \A c \in Cars, e \in Edges :
      car[c].target = 0 /\ Arc(e) \in Sides(Road(car[c])) => plan.edge[e] = "OCCUPIED"

ParkingInv == /\ MapIsQuiet /\ OccupiedIsHeld /\ OneClaim /\ OneHead /\ SeesStarters
              /\ \A c \in Cars : Placed(c)

-----------------------------------------------------------------------------
(* Two edges are one road *)

LEMMA TwoSides ==
  ASSUME OneRoadEach, NEW e \in Edges
  PROVE  /\ Pair(e) \in Edges /\ Pair(e) # e
         /\ \A f \in Edges : Arc(f) \in Sides(Arc(e)) <=> f \in {e, Pair(e)}
<1>1. Pair(e) \in Edges /\ Arc(Pair(e)) = <<To(e), From(e)>> /\ Pair(e) # e
  BY MapType DEF Pair, Edges
<1>2. Sides(Arc(e)) = {Arc(e), Arc(Pair(e))}
  BY <1>1 DEF Sides, Arc
<1> QED BY <1>1, <1>2 DEF OneRoadEach

(* Two arcs of one road are the same, or lead opposite ways. *)
LEMMA SidesMeet ==
  ASSUME NEW a \in Arcs, NEW b \in Arcs, NEW x, x \in Sides(a), x \in Sides(b)
  PROVE  a = b \/ a = <<b[2], b[1]>>
<1>1. /\ a = <<a[1], a[2]>> /\ b = <<b[1], b[2]>>
  BY MapType
<1> QED BY <1>1 DEF Sides

LEMMA RoadOfCar ==
  ASSUME MissionInv, NEW c \in Cars, bot[c].at = Road(car[c])
  PROVE  \E e \in Edges : Arc(e) = Road(car[c])
<1>1. bot[c].at \in Arcs
  BY DEF MissionInv, TypeOK, Bots
<1> QED BY <1>1 DEF Arcs

-----------------------------------------------------------------------------
(* A step about one car *)

(* Nothing changes that the invariant says of c. *)
Alike(c) == /\ car'[c] = car[c] /\ Planner(c)' = Planner(c) /\ Router(c)' = Router(c)
            /\ Tasks(c)' = Tasks(c)

LEMMA AlikeKeeps ==
  ASSUME NEW c, Alike(c)
  PROVE  /\ \A e : Holds(c, e)' <=> Holds(c, e)
         /\ \A e : Means(c, e)' <=> Means(c, e)
         /\ \A t : Heads(c, t)' <=> Heads(c, t)
         /\ Placed(c)' <=> Placed(c)
BY DEF Alike, Holds, Means, Heads, Placed

(* A car may claim what it claimed, or what nobody else claims; the map    *)
(* changes where what it holds changes.                                    *)
LEMMA OneCarParks ==
  ASSUME ParkingInv, NEW c \in Cars, MapIsQuiet', SeesStarters', Placed(c)',
         \A d \in Cars \ {c} : Alike(d),
         \A e \in Edges : edge'[e] = "OCCUPIED" <=>
                            Holds(c, e)' \/ (edge[e] = "OCCUPIED" /\ ~Holds(c, e)),
         \A e \in Edges : Claims(c, e)' =>
           Claims(c, e) \/ \A d \in Cars \ {c} : ~Claims(d, e),
         \A t \in Targets : Heads(c, t)' =>
           Heads(c, t) \/ \A d \in Cars \ {c} : ~Heads(d, t)
  PROVE  ParkingInv'
<1>1. \A d \in Cars \ {c} : /\ \A e : Holds(d, e)' <=> Holds(d, e)
                            /\ \A e : Claims(d, e)' <=> Claims(d, e)
                            /\ \A t : Heads(d, t)' <=> Heads(d, t)
                            /\ Placed(d)' <=> Placed(d)
  BY AlikeKeeps DEF Claims
<1>2. OneClaim'
  BY <1>1 DEF ParkingInv, OneClaim
<1>3. OneHead'
  BY <1>1 DEF ParkingInv, OneHead
<1>4. OccupiedIsHeld'
  <2> SUFFICES ASSUME NEW e \in Edges
               PROVE  edge'[e] = "OCCUPIED" <=> \E d \in Cars : Holds(d, e)'
    BY DEF OccupiedIsHeld
  <2>1. \A d \in Cars \ {c} : Holds(d, e) => edge[e] = "OCCUPIED" /\ ~Holds(c, e)
    BY DEF ParkingInv, OccupiedIsHeld, OneClaim, Claims
  <2>2. edge[e] = "OCCUPIED" /\ ~Holds(c, e) => \E d \in Cars \ {c} : Holds(d, e)
    BY DEF ParkingInv, OccupiedIsHeld
  <2> QED BY <1>1, <2>1, <2>2
<1>5. \A d \in Cars : Placed(d)'
  BY <1>1 DEF ParkingInv
<1> QED BY <1>2, <1>3, <1>4, <1>5 DEF ParkingInv

(* What a car holds stays occupied while neither changes. *)
LEMMA HeldStays ==
  ASSUME ParkingInv, NEW c \in Cars, edge' = edge,
         \A e \in Edges : Holds(c, e)' <=> Holds(c, e)
  PROVE  \A e \in Edges : edge'[e] = "OCCUPIED" <=>
                            Holds(c, e)' \/ (edge[e] = "OCCUPIED" /\ ~Holds(c, e))
BY DEF ParkingInv, OccupiedIsHeld

(* Whoever was never sent out stays where it is. *)
LEMMA StartersStay ==
  ASSUME ParkingInv, plan' = plan, \A c \in Cars : car'[c] = car[c] \/ car'[c].target # 0
  PROVE  SeesStarters'
BY DEF ParkingInv, SeesStarters

LEMMA QuietStays ==
  ASSUME TypeOK, MapIsQuiet, [Next]_vars
  PROVE  MapIsQuiet'
<1>1. budget'["reset"] = 0 /\ budget'["topology"] = 0
  BY SpentIsSpent DEF MapIsQuiet
<1>2. ~TopoStep
  BY DEF MapIsQuiet, TopoStep, TopoEdge, TopoNode, TopoPair, TopoCars, TopoNotify
<1>3. Asked => topo' = topo
  BY DEF MapIsQuiet, Asked, Assign, Cancel, TopoAsk, ResetMap, Spend
<1>4. RouteStep \/ Publish \/ Lose \/ (\E c \in Cars : Drive(c) \/ World(c)) => topo' = topo
  BY DEF RouteStep, RouteTake, RouteOccupy, RouteOccupyPair, RoutePark, RouteTell, RouteOrient,
         RouteAdvance, Publish, Lose, Drive, ReachNode, Decide, World, TimeOut, SeeObstacle,
         SeeClear, PutDown
<1>5. PlanStep \/ SubStep => topo' = topo
  BY DEF PlanStep, PlanTake, PlanAccept, PlanRefuse, PlanFail, PlanGiveUp, PlanUpdate, PlanScan,
         PlanFree, PlanFreePair, PlanCount, PlanAct, SubStep, SubArrive, SubRead, SubMark,
         SubMarkPair, SubConclude, SubScan, SubFree, SubFreePair, SubPlace
<1> QED BY <1>1, <1>2, <1>3, <1>4, <1>5 DEF Next, vars, MapIsQuiet

-----------------------------------------------------------------------------
(* What the stages say of a record *)

LEMMA WayEnds ==
  ASSUME NEW me \in CarRecords, NEW k, OnWay(me, k)
  PROVE  /\ me.status = "MOVING" /\ me.path # <<>> /\ Last(me.path) \in Edges
         /\ To(Last(me.path)) = me.target /\ me.target \in Targets /\ me.target # 0
<1>1. me.path \in Seq(Edges) /\ Len(me.path) \in Nat \ {0} /\ Last(me.path) = me.path[Len(me.path)]
  BY AlongTheWay DEF CarRecords
<1>2. me.target \in Targets /\ me.target # 0
  BY InputAssumption, MapType DEF OnWay, Nodes
<1> QED BY <1>1, <1>2 DEF OnWay

(* A car is parked on its road, or on the way its record names. *)
LEMMA ParkedOrUnderWay ==
  ASSUME MissionInv, NEW c \in Cars
  PROVE  /\ car[c] \in CarRecords
         /\ Free(c) \/ \E k : OnWay(car[c], k)
<1>1. TypeOK /\ OnMission(c) /\ car[c] \in CarRecords
  BY DEF MissionInv, TypeOK
<1>2. ASSUME Catching(c), NEW k, OnWay(Record(c), k) PROVE \E i : OnWay(car[c], i)
  <2>1. CASE Router(c).pc = "advance"
    BY <1>2, <2>1 DEF Catching, NextRoad
  <2>2. CASE Router(c).pc # "advance"
    BY <1>2, <2>2 DEF Record
  <2> QED BY <2>1, <2>2
<1>3. ASSUME AtNode(c) PROVE \E k : OnWay(Record(c), k)
  BY <1>3 DEF AtNode
<1>4. CASE Resting(c) \/ Ordered(c) \/ Choosing(c) \/ Chosen(c) \/ Telling(c) \/ Arrived(c)
  BY <1>1, <1>4 DEF Resting, Ordered, Choosing, Chosen, Telling, Arrived
<1>5. CASE Planned(c) \/ Starting(c)
  BY <1>1, <1>5 DEF Planned, Starting
<1>6. CASE Driving(c) \/ Directing(c)
  BY <1>1, <1>2, <1>6 DEF Driving, Directing
<1>7. CASE Reaching(c) \/ Waiting(c)
  BY <1>1, <1>2, <1>3, <1>7 DEF Reaching, Waiting
<1>8. CASE Turning(c) \/ Parking(c)
  BY <1>1, <1>3, <1>8 DEF Turning, Parking, Record
<1> QED BY <1>1, <1>4, <1>5, <1>6, <1>7, <1>8 DEF OnMission

LEMMA MovingEnds ==
  ASSUME MissionInv, NEW c \in Cars
  PROVE  /\ car[c].status = "IDLE" => Free(c) /\ Road(car[c]) \in Arcs
         /\ car[c].status = "MOVING" =>
              /\ car[c].path # <<>> /\ Last(car[c].path) \in Edges
              /\ To(Last(car[c].path)) = car[c].target
              /\ car[c].target \in Targets /\ car[c].target # 0
         /\ car[c].status \in {"IDLE", "MOVING"}
<1>1. CASE Free(c)
  BY <1>1, RoadOfCar DEF Free, Parked, Arcs
<1>2. CASE \E k : OnWay(car[c], k)
  BY <1>2, ParkedOrUnderWay, WayEnds
<1> QED BY <1>1, <1>2, ParkedOrUnderWay

(* The router parks a car on the last road of its plan. *)
LEMMA ParkingEnds ==
  ASSUME MissionInv, NEW c \in Cars, Router(c).pc \in {"occupy", "occupyPair", "park"}
  PROVE  /\ Parking(c) /\ car[c].status = "MOVING" /\ car[c].path # <<>>
         /\ Router(c).eid = Last(car[c].path) /\ Router(c).eid \in Edges
         /\ Planner(c).pc = "idle" /\ car[c].cur = car[c].target
<1>1. Parking(c)
  BY StageByRouter DEF MissionInv
<1>2. car[c].status = "MOVING"
  <2>1. Record(c) = car[c] /\ OnWay(car[c], Len(car[c].path))
    BY <1>1 DEF Parking, AtNode, Record
  <2> QED BY <2>1 DEF OnWay
<1> QED BY <1>1, <1>2, MovingEnds DEF Parking, Unplanned

(* What a car without a planner at work on it claims. *)
LEMMA ClaimedAlone ==
  ASSUME MissionInv, OneRoadEach, NEW c \in Cars, Planner(c).pc \in {"idle", "cars"},
         NEW e \in Edges, Claims(c, e)
  PROVE  \/ car[c].status = "IDLE" /\ Arc(e) \in Sides(Road(car[c]))
         \/ car[c].status = "MOVING" /\ EndsOn(car[c].path, e)
<1>1. ASSUME Router(c).pc \in {"occupyPair", "park"}, e \in {Router(c).eid, Pair(Router(c).eid)}
      PROVE  car[c].status = "MOVING" /\ EndsOn(car[c].path, e)
  BY <1>1, ParkingEnds, TwoSides DEF EndsOn
<1> QED BY <1>1 DEF Claims, Holds, Means

-----------------------------------------------------------------------------
(* The planner *)

(* Nobody else claims the road on which an answer of find_path ends: the   *)
(* planner's copy of the map shows the cars that were never sent out, and  *)
(* all others are where they were sent to, or on their way there.          *)
LEMMA EndIsFree ==
  ASSUME RoadsApart, MissionInv, ParkingInv, NEW c \in Cars, NEW t \in Targets, Choosing(c),
         Planner(c) = plan, plan.msg = AssignTo(c, t), NEW start,
         NEW p \in Answers(car[c], plan.msg, start), p # <<>>, p \in Seq(Edges),
         NEW d \in Cars \ {c}, NEW e \in Edges, EndsOn(p, e)
  PROVE  ~Claims(d, e)
<1> SUFFICES ASSUME Claims(d, e) PROVE FALSE
  OBVIOUS
<1> DEFINE f == Last(p)
           status == WithoutOwn(car[c], plan.edge)
<1>1. /\ f \in Edges /\ To(f) = t /\ Passable(f, status, plan.closed)
      /\ Arc(f) \in Arcs /\ Arc(e) \in Sides(Arc(f))
  <2>1. Len(p) \in DOMAIN p /\ f = p[Len(p)]
    BY DEF Last
  <2>2. TargetOf(car[c], plan.msg) = t
    BY DEF TargetOf, AssignTo
  <2>3. To(f) = t /\ \A i \in DOMAIN p : Passable(p[i], status, plan.closed)
    BY <2>2 DEF Answers, RoutesBetween
  <2> QED BY <2>1, <2>3 DEF Arcs, EndsOn
<1> HIDE DEF f, status
<1>2. ~Heads(d, t) /\ Planner(d) = PlanIdle
  <2>1. Heads(c, t)
    BY DEF Heads
  <2>2. plan.msg.car # d
    BY DEF AssignTo
  <2> QED BY <2>1, <2>2 DEF ParkingInv, OneHead, Planner
<1>3. ASSUME NEW arc \in Arcs, Arc(e) \in Sides(arc), arc[2] \in Targets, Heads(d, arc[2])
      PROVE  FALSE
  <2>1. Arc(f) = arc \/ Arc(f) = <<arc[2], arc[1]>>
    BY <1>1, <1>3, SidesMeet
  <2>2. From(f) = Arc(f)[1] /\ To(f) = Arc(f)[2]
    BY DEF Arc
  <2>3. ~(From(f) \in Targets)
    BY <1>1 DEF RoadsApart, TargetsApart
  <2> QED BY <1>1, <1>2, <1>3, <2>1, <2>2, <2>3
<1>4. CASE car[d].status = "MOVING" /\ EndsOn(car[d].path, e)
  <2>1. /\ Arc(Last(car[d].path)) \in Arcs /\ Arc(e) \in Sides(Arc(Last(car[d].path)))
        /\ Arc(Last(car[d].path))[2] = car[d].target /\ car[d].target \in Targets
    BY <1>4, MovingEnds DEF EndsOn, Arcs, Arc
  <2> QED BY <1>3, <2>1 DEF Heads
<1>5. CASE car[d].status = "IDLE" /\ Arc(e) \in Sides(Road(car[d]))
  <2>1. Road(car[d]) \in Arcs /\ Road(car[d])[2] = car[d].cur
    BY <1>5, MovingEnds DEF Road
  <2>2. car[d].target = 0 \/ (car[d].target = car[d].cur /\ car[d].target \in Targets)
    BY <1>5 DEF ParkingInv, Placed
  <2>3. CASE car[d].target = 0
    <3>1. Arc(f) \in Sides(Road(car[d]))
      BY <1>1, <1>5, <2>1, SidesMeet DEF Sides
    <3>2. plan.edge[f] = "OCCUPIED"
      BY <1>1, <2>3, <3>1 DEF ParkingInv, SeesStarters, Choosing
    <3>3. Claims(d, f)
      BY <1>5, <3>1 DEF Claims, Holds
    <3>4. Arc(f) \notin Sides(Road(car[c]))
      <4>1. ASSUME Arc(f) \in Sides(Road(car[c])) PROVE Claims(c, f)
        BY <4>1 DEF Claims, Holds, Choosing, Free
      <4> QED BY <1>1, <3>3, <4>1 DEF ParkingInv, OneClaim
    <3>5. f \notin EdgesOn(car[c].last, car[c].cur) \cup EdgesOn(car[c].cur, car[c].last)
      BY <3>4 DEF EdgesOn, Sides, Road
    <3>6. status[f] = "OCCUPIED"
      BY <1>1, <3>2, <3>5 DEF status, WithoutOwn
    <3> QED BY <1>1, <3>6 DEF Passable
  <2>4. CASE car[d].target = car[d].cur /\ car[d].target \in Targets
    BY <1>3, <1>5, <2>1, <2>4 DEF Heads
  <2> QED BY <2>2, <2>3, <2>4
<1>6. \/ car[d].status = "IDLE" /\ Arc(e) \in Sides(Road(car[d]))
      \/ car[d].status = "MOVING" /\ EndsOn(car[d].path, e)
  BY <1>2, ClaimedAlone DEF RoadsApart, PlanIdle
<1> QED BY <1>4, <1>5, <1>6

(* A step of the planner about c leaves the other cars alone. *)
LEMMA OthersWait ==
  ASSUME plan.pc # "idle", NEW c, c = plan.msg.car, plan'.pc = "idle" \/ plan'.msg = plan.msg,
         UNCHANGED <<taskQ, route>>, \A d \in Cars \ {c} : car'[d] = car[d]
  PROVE  /\ \A d \in Cars \ {c} : Alike(d)
         /\ Tasks(c)' = Tasks(c) /\ Router(c)' = Router(c) /\ Planner(c) = plan
         /\ plan'.pc # "idle" => Planner(c)' = plan'
         /\ plan'.pc = "idle" => Planner(c)' = PlanIdle
BY PlannerMoves, ViewFrame DEF Alike, Planner

LEMMA PlannersCar ==
  ASSUME MissionInv
  PROVE  /\ plan \in PlanStates /\ edge \in [Edges -> EdgeStatuses] /\ car \in [Cars -> CarRecords]
         /\ plan.msg.car \in Cars /\ \A c \in Cars : OnMission(c)
<1>1. plan \in PlanStates /\ plan.msg \in TaskMsgs
  BY DEF MissionInv, TypeOK, PlanStates
<1> QED BY <1>1, KeyTypes DEF MissionInv, TypeOK

(* A task is taken out of the queue, and the map copied. *)
LEMMA PlanTakeParks ==
  ASSUME MissionInv, ParkingInv, MapIsQuiet', PlanTake
  PROVE  ParkingInv'
<1>1. TypeOK /\ QueueInv
  BY DEF MissionInv
<1>2. PICK m : m = Received(taskQ)
  OBVIOUS
<1>3. PICK c : c = m.car
  OBVIOUS
<1>4. /\ c \in Cars /\ m \in Tasks(c) /\ Tasks(c)' = Tasks(c) \ {m}
      /\ \A d \in Cars \ {c} : Tasks(d)' = Tasks(d)
  <2>1. Received(taskQ) = m /\ c = Received(taskQ).car
    BY <1>2, <1>3
  <2> QED BY <1>1, <2>1, TaskTaken DEF PlanTake
<1>5. plan.pc = "idle" /\ plan'.pc = "cars" /\ plan'.msg = m /\ plan'.edge = edge
  BY <1>2, PlannersCar DEF PlanTake, PlanStates
<1>6. /\ Planner(c)' = plan' /\ Planner(c) = PlanIdle
      /\ \A d \in Cars \ {c} : Planner(d)' = Planner(d)
  BY <1>3, <1>5 DEF Planner
<1>7. /\ \A d : car'[d] = car[d] /\ Router(d)' = Router(d)
      /\ edge' = edge
  BY ViewFrame DEF PlanTake, shm
<1>8. \A d \in Cars \ {c} : Alike(d)
  BY <1>4, <1>6, <1>7 DEF Alike
<1>9. \A e \in Edges : /\ Holds(c, e)' <=> Holds(c, e)
                       /\ Claims(c, e)' => Claims(c, e)
  BY <1>5, <1>6, <1>7 DEF Claims, Holds, Means, PlanIdle
<1>10. \A t \in Targets : Heads(c, t)' => Heads(c, t)
  BY <1>4, <1>5, <1>6, <1>7 DEF Heads
<1>11. Placed(c)'
  BY <1>4, <1>5, <1>6, <1>7 DEF ParkingInv, Placed
<1>12. SeesStarters'
  <2> SUFFICES ASSUME NEW d \in Cars, NEW e \in Edges, car[d].target = 0,
                      Arc(e) \in Sides(Road(car[d]))
               PROVE  edge[e] = "OCCUPIED"
    BY <1>5, <1>7 DEF SeesStarters
  <2>1. Holds(d, e)
    BY MovingEnds DEF Holds
  <2> QED BY <2>1 DEF ParkingInv, OccupiedIsHeld
<1>13. \A e \in Edges : edge'[e] = "OCCUPIED" <=>
                        Holds(c, e)' \/ (edge[e] = "OCCUPIED" /\ ~Holds(c, e))
  BY <1>4, <1>7, <1>9, HeldStays
<1> QED BY <1>4, <1>8, <1>9, <1>10, <1>11, <1>12, <1>13, OneCarParks

(* A route is found, or none. *)
LEMMA PlanChooseParks ==
  ASSUME RoadsApart, MissionInv, ParkingInv, MapIsQuiet', PlanAccept \/ PlanRefuse \/ PlanFail
  PROVE  ParkingInv'
<1>1. PICK c \in Cars : c = plan.msg.car
  BY PlannersCar
<1>2. plan.pc = "cars" /\ Planner(c) = plan
  BY <1>1 DEF PlanAccept, PlanRefuse, PlanFail, Planner
<1>3. Choosing(c)
  BY <1>2, PlannersCar, StageByPlanner
<1>4. PICK t \in Targets : plan.msg = AssignTo(c, t)
  BY <1>2, <1>3 DEF Choosing
<1>5. UNCHANGED <<edge, car, taskQ, route>>
  BY DEF PlanAccept, PlanRefuse, PlanFail, shm, mqs
<1>6. ~PlanFail
  BY <1>4 DEF PlanFail, AssignTo
<1>7. CASE PlanRefuse
  <2>1. plan'.pc = "idle"
    BY <1>7 DEF PlanRefuse, PlanIdle
  <2>2. /\ \A d \in Cars \ {c} : Alike(d)
        /\ Tasks(c)' = Tasks(c) /\ Router(c)' = Router(c) /\ Planner(c)' = PlanIdle
    BY <1>1, <1>2, <1>5, <2>1, OthersWait
  <2>3. \A e \in Edges : /\ Holds(c, e)' <=> Holds(c, e)
                         /\ Claims(c, e)' => Claims(c, e)
    BY <1>2, <1>5, <2>2 DEF Claims, Holds, Means, PlanIdle
  <2>4. \A x \in Targets : Heads(c, x)' => Heads(c, x)
    BY <1>5, <2>2 DEF Heads, PlanIdle, Replan, AssignTo
  <2>5. Placed(c)'
    BY <1>5, <2>2 DEF ParkingInv, Placed, PlanIdle
  <2>6. SeesStarters'
    BY <2>1 DEF SeesStarters
  <2>7. \A e \in Edges : edge'[e] = "OCCUPIED" <=>
                         Holds(c, e)' \/ (edge[e] = "OCCUPIED" /\ ~Holds(c, e))
    BY <1>5, <2>3, HeldStays
  <2> QED BY <2>2, <2>3, <2>4, <2>5, <2>6, <2>7, OneCarParks
<1>8. CASE PlanAccept
  <2> DEFINE me == car[c]
             msg == AssignTo(c, t)
  <2>1. PICK start \in StartNodes(car[plan.msg.car], plan.msg, plan.edge) :
          \E p \in Answers(car[plan.msg.car], plan.msg, start) :
            plan' = [plan EXCEPT !.pc = "update", !.old = car[plan.msg.car],
                       !.new = Replanned(car[plan.msg.car], plan.msg, start, p),
                       !.edge = PlanIdle.edge, !.closed = {}]
    BY <1>8 DEF PlanAccept
  <2>2. /\ start \in StartNodes(me, msg, plan.edge)
        /\ \E p \in Answers(me, msg, start) :
             plan' = [plan EXCEPT !.pc = "update", !.old = me,
                        !.new = Replanned(me, msg, start, p),
                        !.edge = PlanIdle.edge, !.closed = {}]
    BY <1>1, <1>4, <2>1
  <2>3. PICK p \in Answers(me, msg, start) :
           plan' = [plan EXCEPT !.pc = "update", !.old = me,
                      !.new = Replanned(me, msg, start, p),
                      !.edge = PlanIdle.edge, !.closed = {}]
    BY <2>2
  <2>4. /\ plan'.pc = "update" /\ plan'.msg = msg
        /\ plan'.new = Replanned(me, msg, start, p) /\ me \in CarRecords
    BY <1>4, <2>3, PlannersCar DEF PlanStates
  <2>5. OnWay(plan'.new, 0) /\ plan'.new.target = t /\ plan'.new.path = p
    <3>1. OnWay(plan'.new, 0) /\ plan'.new.target = t
      BY <2>2, <2>4, RouteOnWay
    <3>2. plan'.new.path = p
      BY <2>4 DEF Replanned, CarRecords
    <3> QED BY <3>1, <3>2
  <2>6. p # <<>> /\ p \in Seq(Edges)
    <3>1. p \in Routes
      BY DEF Answers, RoutesBetween
    <3> QED BY <2>5, <3>1, RouteType DEF OnWay
  <2>7. /\ \A d \in Cars \ {c} : Alike(d)
        /\ Tasks(c)' = Tasks(c) /\ Router(c)' = Router(c) /\ Planner(c)' = plan'
    BY <1>1, <1>2, <1>4, <1>5, <2>4, OthersWait
  <2>8. \A e \in Edges : Holds(c, e)' <=> Holds(c, e)
    BY <1>2, <1>5, <2>4, <2>7 DEF Holds
  <2>9. ASSUME NEW e \in Edges, Claims(c, e)'
        PROVE  Claims(c, e) \/ \A d \in Cars \ {c} : ~Claims(d, e)
    <3>1. CASE Holds(c, e)'
      BY <2>8, <3>1 DEF Claims
    <3>2. CASE Means(c, e)'
      <4>1. EndsOn(p, e)
        <5>1. car'[c].status = "IDLE"
          BY <1>3, <1>5 DEF Choosing, Free
        <5> QED BY <2>5, <2>7, <3>2, <5>1 DEF Means
      <4>2. p \in Answers(car[c], plan.msg, start)
        BY <1>4
      <4> QED BY <1>2, <1>3, <1>4, <2>6, <4>1, <4>2, EndIsFree
    <3> QED BY <2>9, <3>1, <3>2 DEF Claims
  <2>10. \A x \in Targets : Heads(c, x)' => Heads(c, x)
    BY <1>2, <1>4, <1>5, <2>4, <2>7 DEF Heads
  <2>11. Placed(c)'
    BY <1>5, <2>4, <2>5, <2>7 DEF ParkingInv, Placed
  <2>12. SeesStarters'
    BY <2>4 DEF SeesStarters
  <2>13. \A e \in Edges : edge'[e] = "OCCUPIED" <=>
                          Holds(c, e)' \/ (edge[e] = "OCCUPIED" /\ ~Holds(c, e))
    BY <1>5, <2>8, HeldStays
  <2> QED BY <2>7, <2>9, <2>10, <2>11, <2>12, <2>13, OneCarParks
<1> QED BY <1>6, <1>7, <1>8

(* The plan is written: the car still holds the road it stands on. *)
LEMMA PlanUpdateParks ==
  ASSUME MissionInv, ParkingInv, MapIsQuiet', PlanUpdate
  PROVE  ParkingInv'
<1>1. PICK c \in Cars : c = plan.msg.car
  BY PlannersCar
<1>2. /\ plan.pc = "update" /\ plan'.pc = "scan" /\ plan'.msg = plan.msg
      /\ plan'.old = plan.old /\ plan'.new = plan.new
      /\ car'[c] = plan.new /\ (\A d \in Cars \ {c} : car'[d] = car[d])
      /\ UNCHANGED <<edge, taskQ, route>>
  BY <1>1, PlannersCar DEF PlanUpdate, PlanStates, mqs
<1>3. /\ \A d \in Cars \ {c} : Alike(d)
      /\ Tasks(c)' = Tasks(c) /\ Router(c)' = Router(c) /\ Planner(c) = plan
      /\ Planner(c)' = plan'
  BY <1>1, <1>2, OthersWait
<1>4. Chosen(c)
  BY <1>2, <1>3, PlannersCar, StageByPlanner
<1>5. /\ car[c].status = "IDLE" /\ Road(car'[c]) = Road(car[c]) /\ plan.old = car[c]
      /\ Router(c).pc = "idle" /\ plan.msg = AssignTo(c, plan.new.target)
  BY <1>2, <1>3, <1>4 DEF Chosen, Free, Road, Unrouted, ParkingInv, Placed
<1>6. /\ car'[c].status = "MOVING" /\ car'[c].target \in Targets /\ car'[c].target # 0
      /\ car'[c].cur # car'[c].target
  <2>1. OnWay(plan.new, 0) /\ plan.new \in CarRecords
    BY <1>3, <1>4, PlannersCar DEF Chosen, PlanStates
  <2>2. Len(plan.new.path) # 0 /\ (plan.new.cur = plan.new.target <=> 0 = Len(plan.new.path))
    BY <2>1, AlongTheWay
  <2> QED BY <1>2, <2>1, <2>2, WayEnds
<1>7. \A e \in Edges : /\ Holds(c, e)' <=> Holds(c, e)
                       /\ Claims(c, e)' => Claims(c, e)
  BY <1>2, <1>3, <1>5 DEF Claims, Holds, Means
<1>8. \A t \in Targets : Heads(c, t)' => Heads(c, t)
  BY <1>2, <1>3, <1>5 DEF Heads
<1>9. Placed(c)'
  BY <1>2, <1>3, <1>5, <1>6 DEF Placed
<1>10. SeesStarters'
  BY <1>2 DEF SeesStarters
<1>11. \A e \in Edges : edge'[e] = "OCCUPIED" <=>
                        Holds(c, e)' \/ (edge[e] = "OCCUPIED" /\ ~Holds(c, e))
  BY <1>2, <1>7, HeldStays
<1> QED BY <1>3, <1>7, <1>8, <1>9, <1>10, <1>11, OneCarParks

(* The planner finds the road of the car occupied, and takes both edges    *)
(* back one after the other.                                               *)
LEMMA PlanFreesParks ==
  ASSUME RoadsApart, MissionInv, ParkingInv, MapIsQuiet', PlanScan \/ PlanFree \/ PlanFreePair
  PROVE  ParkingInv'
<1>1. PICK c \in Cars : c = plan.msg.car
  BY PlannersCar
<1>2. /\ plan.pc \in {"scan", "free", "freePair"} /\ plan'.pc \in {"count", "free", "freePair"}
      /\ plan'.msg = plan.msg /\ UNCHANGED <<car, taskQ, route>>
  BY PlannersCar DEF PlanScan, PlanFree, PlanFreePair, PlanStates, shm, mqs
<1>3. /\ \A d \in Cars \ {c} : Alike(d)
      /\ Tasks(c)' = Tasks(c) /\ Router(c)' = Router(c) /\ Planner(c) = plan
      /\ Planner(c)' = plan'
  BY <1>1, <1>2, OthersWait
<1>4. Planned(c) /\ Placed(c)
  BY <1>2, <1>3, PlannersCar, StageByPlanner DEF ParkingInv
<1>5. car[c].status = "MOVING" /\ Router(c).pc = "idle" /\ Road(car[c]) \in Arcs
  BY <1>4, RoadOfCar DEF Planned, Parked, OnWay, Unrouted, Arcs
<1>6. PICK f \in Edges : Arc(f) = Road(car[c])
  BY <1>5 DEF Arcs
<1>7. /\ Pair(f) \in Edges /\ Pair(f) # f
      /\ \A e \in Edges : Arc(e) \in Sides(Road(car[c])) <=> e \in {f, Pair(f)}
  BY <1>6, TwoSides DEF RoadsApart
<1>8. \A t \in Targets : Heads(c, t)' => Heads(c, t)
  BY <1>2, <1>3 DEF Heads
<1>9. SeesStarters'
  BY <1>2 DEF SeesStarters
<1>10. \A e : Means(c, e)' => Means(c, e)
  BY <1>2, <1>3 DEF Means
<1>11. CASE PlanScan
  <2>1. \A e \in Edges : Holds(c, e) <=> e \in {f, Pair(f)}
    BY <1>3, <1>5, <1>7, <1>11 DEF Holds, PlanScan
  <2>2. edge[f] = "OCCUPIED"
    BY <2>1 DEF ParkingInv, OccupiedIsHeld
  <2>3. \A e : e \in EdgesOn(plan.old.last, plan.old.cur) <=> e \in Edges /\ Arc(e) = Road(car[c])
    <3>1. Road(plan.old) = Road(car[c])
      BY <1>3, <1>4, <1>11 DEF Placed, PlanScan
    <3> QED BY <3>1 DEF EdgesOn, Road
  <2>4. PICK e \in Edges : Arc(e) = Road(car[c]) /\ plan' = [plan EXCEPT !.pc = "free", !.eid = e]
    <3>1. f \in EdgesOn(plan.old.last, plan.old.cur)
      BY <1>6, <2>3
    <3>2. {e \in EdgesOn(plan.old.last, plan.old.cur) : edge[e] = "OCCUPIED"} # {}
      BY <2>2, <3>1
    <3> QED BY <1>11, <2>3, <3>2 DEF PlanScan
  <2>5. plan'.pc = "free" /\ plan'.eid = e /\ edge' = edge
    BY <1>11, <2>4, PlannersCar DEF PlanStates, PlanScan, shm
  <2>6. \A x \in Edges : Holds(c, x)' <=> Holds(c, x)
    BY <1>2, <1>3, <1>5, <1>7, <2>1, <2>5 DEF Holds
  <2>7. Placed(c)'
    BY <1>2, <1>3, <1>4, <2>4, <2>5 DEF Placed
  <2>8. \A x \in Edges : Claims(c, x)' => Claims(c, x)
    BY <1>10, <2>6 DEF Claims
  <2>9. \A x \in Edges : edge'[x] = "OCCUPIED" <=>
                         Holds(c, x)' \/ (edge[x] = "OCCUPIED" /\ ~Holds(c, x))
    BY <2>5, <2>6, HeldStays
  <2> QED BY <1>3, <1>8, <1>9, <2>7, <2>8, <2>9, OneCarParks
<1>12. CASE PlanFree
  <2>1. plan.eid = f /\ plan'.eid = f /\ plan.pc = "free" /\ plan'.pc = "freePair"
    <3>1. Arc(plan.eid) = Road(car[c]) /\ plan.eid \in Edges
      BY <1>3, <1>4, <1>12, PlannersCar DEF Placed, PlanFree, PlanStates
    <3> QED BY <1>6, <1>12, <3>1, PlannersCar DEF RoadsApart, OneRoadEach, PlanFree, PlanStates
  <2>2. \A e \in Edges : Holds(c, e) <=> e \in {f, Pair(f)}
    BY <1>3, <1>5, <1>7, <2>1 DEF Holds
  <2>3. \A e \in Edges : Holds(c, e)' <=> e = Pair(f)
    BY <1>2, <1>3, <1>5, <1>7, <2>1 DEF Holds
  <2>4. Placed(c)'
    BY <1>2, <1>3, <1>4, <1>6, <2>1 DEF Placed
  <2>5. edge[Pair(f)] = "OCCUPIED" /\ edge' = [edge EXCEPT ![f] = "IDLE"]
    BY <1>7, <1>12, <2>1, <2>2 DEF ParkingInv, OccupiedIsHeld, PlanFree, SetEdge
  <2>6. \A e \in Edges : edge'[e] = "OCCUPIED" <=>
                         Holds(c, e)' \/ (edge[e] = "OCCUPIED" /\ ~Holds(c, e))
    BY <1>7, <2>2, <2>3, <2>5, PlannersCar
  <2>7. \A e \in Edges : Claims(c, e)' => Claims(c, e)
    BY <1>10, <2>2, <2>3 DEF Claims
  <2> QED BY <1>3, <1>8, <1>9, <2>4, <2>6, <2>7, OneCarParks
<1>13. CASE PlanFreePair
  <2>1. plan.eid = f /\ plan.pc = "freePair" /\ plan'.pc = "count"
    <3>1. Arc(plan.eid) = Road(car[c]) /\ plan.eid \in Edges
      BY <1>3, <1>4, <1>13, PlannersCar DEF Placed, PlanFreePair, PlanStates
    <3> QED BY <1>6, <1>13, <3>1, PlannersCar DEF RoadsApart, OneRoadEach, PlanFreePair, PlanStates
  <2>2. \A e \in Edges : Holds(c, e) <=> e = Pair(f)
    BY <1>3, <1>5, <1>7, <2>1 DEF Holds
  <2>3. \A e \in Edges : ~Holds(c, e)'
    BY <1>2, <1>3, <1>5, <2>1 DEF Holds
  <2>4. Placed(c)'
    BY <1>2, <1>3, <1>4, <2>1 DEF Placed
  <2>5. edge' = [edge EXCEPT ![Pair(f)] = "IDLE"]
    BY <1>13, <2>1 DEF PlanFreePair, SetEdge
  <2>6. \A e \in Edges : edge'[e] = "OCCUPIED" <=>
                         Holds(c, e)' \/ (edge[e] = "OCCUPIED" /\ ~Holds(c, e))
    BY <1>7, <2>2, <2>3, <2>5, PlannersCar
  <2>7. \A e \in Edges : Claims(c, e)' => Claims(c, e)
    BY <1>10, <2>3 DEF Claims
  <2> QED BY <1>3, <1>8, <1>9, <2>4, <2>6, <2>7, OneCarParks
<1> QED BY <1>11, <1>12, <1>13

(* The car is told how far to go, and to go. *)
LEMMA PlanTellParks ==
  ASSUME MissionInv, ParkingInv, MapIsQuiet', PlanCount \/ PlanAct
  PROVE  ParkingInv'
<1>1. PICK c \in Cars : c = plan.msg.car
  BY PlannersCar
<1>2. /\ plan.pc \in {"count", "act"} /\ plan'.pc \in {"act", "idle"}
      /\ plan'.pc = "idle" \/ plan'.msg = plan.msg
      /\ UNCHANGED <<edge, car, taskQ, route>>
  BY PlannersCar DEF PlanCount, PlanAct, PlanStates, PlanIdle, shm
<1>3. /\ \A d \in Cars \ {c} : Alike(d)
      /\ Tasks(c)' = Tasks(c) /\ Router(c)' = Router(c) /\ Planner(c) = plan
      /\ plan'.pc # "idle" => Planner(c)' = plan'
      /\ plan'.pc = "idle" => Planner(c)' = PlanIdle
  BY <1>1, <1>2, OthersWait
<1>4. Planner(c)'.pc \in {"act", "idle"}
  BY <1>2, <1>3 DEF PlanIdle
<1>5. \A e \in Edges : /\ Holds(c, e)' <=> Holds(c, e)
                       /\ Claims(c, e)' => Claims(c, e)
  BY <1>2, <1>3, <1>4 DEF Claims, Holds, Means
<1>6. \A t \in Targets : Heads(c, t)' => Heads(c, t)
  <2>1. \A t : Planner(c)'.msg = AssignTo(c, t) => Planner(c).msg = AssignTo(c, t)
    <3>1. \A t : PlanIdle.msg # AssignTo(c, t)
      BY DEF PlanIdle, Replan, AssignTo
    <3> QED BY <1>2, <1>3, <3>1
  <2> QED BY <1>2, <1>3, <2>1 DEF Heads
<1>7. Placed(c)'
  BY <1>2, <1>3, <1>4 DEF ParkingInv, Placed
<1>8. SeesStarters'
  BY <1>2 DEF SeesStarters
<1>9. \A e \in Edges : edge'[e] = "OCCUPIED" <=>
                       Holds(c, e)' \/ (edge[e] = "OCCUPIED" /\ ~Holds(c, e))
  BY <1>2, <1>5, HeldStays
<1> QED BY <1>3, <1>5, <1>6, <1>7, <1>8, <1>9, OneCarParks

-----------------------------------------------------------------------------
(* The router *)

LEMMA RoutersCar ==
  ASSUME MissionInv
  PROVE  /\ route \in RouteStates /\ edge \in [Edges -> EdgeStatuses]
         /\ car \in [Cars -> CarRecords] /\ route.car \in Cars /\ \A c \in Cars : OnMission(c)
BY DEF MissionInv, TypeOK, RouteStates

(* A step of the router about c leaves the other cars alone. *)
LEMMA OthersDrive ==
  ASSUME route.pc # "idle", NEW c, c = route.car, route'.pc = "idle" \/ route'.car = route.car,
         UNCHANGED <<taskQ, plan>>, \A d \in Cars \ {c} : car'[d] = car[d]
  PROVE  /\ \A d \in Cars \ {c} : Alike(d)
         /\ Tasks(c)' = Tasks(c) /\ Planner(c)' = Planner(c) /\ Router(c) = route
         /\ route'.pc # "idle" => Router(c)' = route'
         /\ route'.pc = "idle" => Router(c)' = RouteIdle
BY RouterMoves, ViewFrame DEF Alike, Router

(* Taking a report, giving a direction and saying that a car has arrived   *)
(* change nothing that a car holds.                                        *)
LEMMA RouteTakeParks ==
  ASSUME MissionInv, ParkingInv, MapIsQuiet', RouteTake
  PROVE  ParkingInv'
<1>1. PICK c : c = Received(routeQ)
  OBVIOUS
<1>2. c \in Cars /\ Due(c)
  <2>1. TypeOK /\ QueueInv
    BY DEF MissionInv
  <2> QED BY <1>1, <2>1, RouteTaken DEF RouteTake
<1>3. route.pc = "idle" /\ UNCHANGED <<edge, car, taskQ, plan>>
  BY DEF RouteTake, shm
<1>4. route'.pc \in {"idle", "occupy", "orient"} /\ (route'.pc # "idle" => route'.car = c)
  BY <1>1 DEF RouteTake, RouteIdle
<1>5. /\ Router(c).pc = "idle" /\ Router(c)'.pc \in {"idle", "occupy", "orient"}
      /\ \A d \in Cars \ {c} : Router(d)' = Router(d)
  BY <1>3, <1>4 DEF Router, RouteIdle
<1>6. \A d \in Cars : Tasks(d)' = Tasks(d) /\ Planner(d)' = Planner(d)
  BY <1>3, ViewFrame
<1>7. \A d \in Cars \ {c} : Alike(d)
  BY <1>3, <1>5, <1>6 DEF Alike
<1>8. \A e \in Edges : /\ Holds(c, e)' <=> Holds(c, e)
                       /\ Claims(c, e)' => Claims(c, e)
  BY <1>2, <1>3, <1>5, <1>6 DEF Claims, Holds, Means
<1>9. \A t \in Targets : Heads(c, t)' => Heads(c, t)
  BY <1>2, <1>3, <1>6 DEF Heads
<1>10. Placed(c)'
  BY <1>2, <1>3, <1>6 DEF ParkingInv, Placed
<1>11. SeesStarters'
  BY <1>3, StartersStay
<1>12. \A e \in Edges : edge'[e] = "OCCUPIED" <=>
                        Holds(c, e)' \/ (edge[e] = "OCCUPIED" /\ ~Holds(c, e))
  BY <1>2, <1>3, <1>8, HeldStays
<1> QED BY <1>2, <1>7, <1>8, <1>9, <1>10, <1>11, <1>12, OneCarParks

LEMMA RouteSaysParks ==
  ASSUME MissionInv, ParkingInv, MapIsQuiet', RouteTell \/ RouteOrient
  PROVE  ParkingInv'
<1>1. PICK c \in Cars : c = route.car
  BY RoutersCar
<1>2. /\ route.pc \in {"tell", "orient"} /\ route'.pc \in {"advance", "idle"}
      /\ route'.pc = "idle" \/ route'.car = route.car
      /\ UNCHANGED <<edge, car, taskQ, plan>>
  BY RoutersCar DEF RouteTell, RouteOrient, RouteStates, RouteIdle, shm
<1>3. /\ \A d \in Cars \ {c} : Alike(d)
      /\ Tasks(c)' = Tasks(c) /\ Planner(c)' = Planner(c) /\ Router(c) = route
      /\ Router(c)'.pc \in {"advance", "idle"}
  BY <1>1, <1>2, OthersDrive DEF RouteIdle
<1>4. \A e \in Edges : /\ Holds(c, e)' <=> Holds(c, e)
                       /\ Claims(c, e)' => Claims(c, e)
  BY <1>2, <1>3 DEF Claims, Holds, Means
<1>5. \A t \in Targets : Heads(c, t)' => Heads(c, t)
  BY <1>2, <1>3 DEF Heads
<1>6. Placed(c)'
  BY <1>2, <1>3 DEF ParkingInv, Placed
<1>7. SeesStarters'
  BY <1>2, StartersStay
<1>8. \A e \in Edges : edge'[e] = "OCCUPIED" <=>
                       Holds(c, e)' \/ (edge[e] = "OCCUPIED" /\ ~Holds(c, e))
  BY <1>2, <1>4, HeldStays
<1> QED BY <1>3, <1>4, <1>5, <1>6, <1>7, <1>8, OneCarParks

(* The router occupies both edges of the road one after the other: nobody  *)
(* else claims it, so that nobody takes either back.                       *)
LEMMA RouteOccupiesParks ==
  ASSUME RoadsApart, MissionInv, ParkingInv, MapIsQuiet', RouteOccupy \/ RouteOccupyPair
  PROVE  ParkingInv'
<1>1. PICK c \in Cars : c = route.car
  BY RoutersCar
<1>2. /\ route.pc \in {"occupy", "occupyPair"} /\ route'.pc \in {"occupyPair", "park"}
      /\ route'.car = route.car /\ route'.eid = route.eid
      /\ UNCHANGED <<car, taskQ, plan>>
  BY RoutersCar DEF RouteOccupy, RouteOccupyPair, RouteStates, mqs
<1>3. /\ \A d \in Cars \ {c} : Alike(d)
      /\ Tasks(c)' = Tasks(c) /\ Planner(c)' = Planner(c) /\ Router(c) = route
      /\ Router(c)' = route'
  BY <1>1, <1>2, OthersDrive
<1> DEFINE f == route.eid
<1>4. /\ car[c].status = "MOVING" /\ Planner(c).pc = "idle" /\ f \in Edges
      /\ EndsOn(car[c].path, f) /\ EndsOn(car[c].path, Pair(f))
      /\ Pair(f) \in Edges /\ Pair(f) # f
  BY <1>2, <1>3, ParkingEnds, TwoSides DEF EndsOn, RoadsApart
<1>5. Means(c, f) /\ Means(c, Pair(f))
  BY <1>4 DEF Means
<1>6. \A t \in Targets : Heads(c, t)' => Heads(c, t)
  BY <1>2, <1>3 DEF Heads
<1>7. Placed(c)'
  BY <1>2, <1>3 DEF ParkingInv, Placed
<1>8. SeesStarters'
  BY <1>2, StartersStay
<1>9. \A e : Means(c, e)' => Means(c, e)
  BY <1>2, <1>3 DEF Means
<1>10. CASE RouteOccupy
  <2>1. edge' = [edge EXCEPT ![f] = "OCCUPIED"] /\ route.pc = "occupy" /\ route'.pc = "occupyPair"
    BY <1>10, RoutersCar DEF RouteOccupy, SetEdge, RouteStates
  <2>2. \A e \in Edges : /\ ~Holds(c, e)
                         /\ Holds(c, e)' <=> e = f
    BY <1>2, <1>3, <1>4, <2>1 DEF Holds
  <2>3. \A e \in Edges : edge'[e] = "OCCUPIED" <=>
                         Holds(c, e)' \/ (edge[e] = "OCCUPIED" /\ ~Holds(c, e))
    BY <2>1, <2>2, RoutersCar
  <2>4. \A e \in Edges : Claims(c, e)' => Claims(c, e)
    BY <1>5, <1>9, <2>2 DEF Claims
  <2> QED BY <1>3, <1>6, <1>7, <1>8, <2>3, <2>4, OneCarParks
<1>11. CASE RouteOccupyPair
  <2>1. /\ edge' = [edge EXCEPT ![Pair(f)] = "OCCUPIED"]
        /\ route.pc = "occupyPair" /\ route'.pc = "park"
    BY <1>11, RoutersCar DEF RouteOccupyPair, SetEdge, RouteStates
  <2>2. \A e \in Edges : /\ Holds(c, e) <=> e = f
                         /\ Holds(c, e)' <=> e \in {f, Pair(f)}
    BY <1>2, <1>3, <1>4, <2>1 DEF Holds
  <2>3. edge[f] = "OCCUPIED"
    BY <1>4, <2>2 DEF ParkingInv, OccupiedIsHeld
  <2>4. \A e \in Edges : edge'[e] = "OCCUPIED" <=>
                         Holds(c, e)' \/ (edge[e] = "OCCUPIED" /\ ~Holds(c, e))
    BY <1>4, <2>1, <2>2, <2>3, RoutersCar
  <2>5. \A e \in Edges : Claims(c, e)' => Claims(c, e)
    BY <1>5, <1>9, <2>2 DEF Claims
  <2> QED BY <1>3, <1>6, <1>7, <1>8, <2>4, <2>5, OneCarParks
<1> QED BY <1>10, <1>11

(* The car is parked: it holds the road its record names. *)
LEMMA RouteParkParks ==
  ASSUME RoadsApart, MissionInv, ParkingInv, MapIsQuiet', RoutePark
  PROVE  ParkingInv'
<1>1. PICK c \in Cars : c = route.car
  BY RoutersCar
<1>2. /\ route.pc = "park" /\ route'.pc = "tell" /\ route'.car = route.car
      /\ \A d \in Cars \ {c} : car'[d] = car[d]
      /\ UNCHANGED <<edge, taskQ, plan>>
  BY <1>1, RoutersCar DEF RoutePark, RouteStates, mqs
<1>3. /\ \A d \in Cars \ {c} : Alike(d)
      /\ Tasks(c)' = Tasks(c) /\ Planner(c)' = Planner(c) /\ Router(c) = route
      /\ Router(c)' = route'
  BY <1>1, <1>2, OthersDrive
<1> DEFINE f == route.eid
<1>4. /\ car[c].status = "MOVING" /\ Planner(c).pc = "idle" /\ f \in Edges
      /\ f = Last(car[c].path) /\ car[c].cur = car[c].target /\ route.rec = car[c]
  BY <1>2, <1>3, ParkingEnds DEF Parking
<1>5. /\ car'[c].status = "IDLE" /\ Road(car'[c]) = Road(car[c])
      /\ car'[c].cur = car[c].cur /\ car'[c].target = car[c].target
  BY <1>1, <1>4, RoutersCar DEF RoutePark, CarRecords, Road
<1>6. Road(car[c]) = Arc(f)
  BY <1>4 DEF ParkingInv, Placed
<1>7. \A e \in Edges : /\ Holds(c, e) <=> e \in {f, Pair(f)}
                       /\ Holds(c, e)' <=> e \in {f, Pair(f)}
  BY <1>2, <1>3, <1>4, <1>5, <1>6, TwoSides DEF Holds, RoadsApart
<1>8. \A e \in Edges : Claims(c, e)' => Claims(c, e)
  BY <1>3, <1>4, <1>5, <1>7 DEF Claims, Means
<1>9. \A t \in Targets : Heads(c, t)' => Heads(c, t)
  BY <1>3, <1>5 DEF Heads
<1>10. Placed(c)' /\ car[c].target # 0
  BY <1>3, <1>4, <1>5, MovingEnds DEF Placed
<1>11. SeesStarters'
  BY <1>2, <1>5, <1>10, StartersStay
<1>12. \A e \in Edges : edge'[e] = "OCCUPIED" <=>
                        Holds(c, e)' \/ (edge[e] = "OCCUPIED" /\ ~Holds(c, e))
  BY <1>2, <1>7, HeldStays
<1> QED BY <1>3, <1>8, <1>9, <1>10, <1>11, <1>12, OneCarParks

(* The car is on the next road; the last one ends at its target. *)
LEMMA RouteAdvanceParks ==
  ASSUME MissionInv, ParkingInv, MapIsQuiet', RouteAdvance
  PROVE  ParkingInv'
<1>1. PICK c \in Cars : c = route.car
  BY RoutersCar
<1>2. /\ route.pc = "advance" /\ route'.pc = "idle" /\ car'[c] = Advanced(route)
      /\ \A d \in Cars \ {c} : car'[d] = car[d]
      /\ UNCHANGED <<edge, taskQ, plan>>
  BY <1>1, RoutersCar DEF RouteAdvance, RouteIdle, Advanced, mqs
<1>3. /\ \A d \in Cars \ {c} : Alike(d)
      /\ Tasks(c)' = Tasks(c) /\ Planner(c)' = Planner(c) /\ Router(c) = route
      /\ Router(c)' = RouteIdle
  BY <1>1, <1>2, OthersDrive
<1>4. Catching(c) /\ Unplanned(c)
  <2>1. Driving(c) \/ Reaching(c) \/ Waiting(c) \/ Directing(c)
    BY <1>2, <1>3, RoutersCar, StageByRouter
  <2> QED BY <2>1 DEF Driving, Reaching, Waiting, Directing
<1>5. PICK k \in Nat : route.rec = car[c] /\ NextRoad(route, k)
  BY <1>2, <1>3, <1>4 DEF Catching
<1> DEFINE me == car[c]
           new == car'[c]
<1>6. /\ OnWay(me, k) /\ OnWay(new, k + 1) /\ me.cur # me.target /\ route.eid = me.path[k + 1]
      /\ new \in CarRecords
  BY <1>2, <1>5, RoutersCar, OneRoadFurther DEF NextRoad
<1>7. /\ new.path = me.path /\ new.status = me.status /\ new.target = me.target
      /\ new.last = me.cur /\ new.cur = To(route.eid) /\ me \in CarRecords
  BY <1>2, <1>5, RoutersCar DEF Advanced, CarRecords
<1>8. me.status = "MOVING" /\ me.target # 0
  BY <1>6, <1>7, WayEnds
<1>9. ASSUME new.cur = new.target
      PROVE  Road(new) = Arc(Last(new.path))
  <2>1. k + 1 = Len(new.path) /\ Last(new.path) = new.path[Len(new.path)]
    BY <1>6, <1>9, AlongTheWay
  <2>2. From(me.path[k + 1]) = me.cur
    BY <1>6, <1>7, AlongTheWay
  <2> QED BY <1>6, <1>7, <2>1, <2>2 DEF Road, Arc
<1>10. \A e \in Edges : /\ Holds(c, e)' <=> Holds(c, e)
                        /\ Claims(c, e)' => Claims(c, e)
  BY <1>2, <1>3, <1>4, <1>7, <1>8 DEF Claims, Holds, Means, RouteIdle, Unplanned
<1>11. \A t \in Targets : Heads(c, t)' => Heads(c, t)
  BY <1>3, <1>7 DEF Heads
<1>12. Placed(c)'
  BY <1>3, <1>4, <1>7, <1>8, <1>9 DEF ParkingInv, Placed, Unplanned
<1>13. SeesStarters'
  BY <1>2, <1>7, <1>8, StartersStay
<1>14. \A e \in Edges : edge'[e] = "OCCUPIED" <=>
                        Holds(c, e)' \/ (edge[e] = "OCCUPIED" /\ ~Holds(c, e))
  BY <1>2, <1>10, HeldStays
<1> QED BY <1>3, <1>10, <1>11, <1>12, <1>13, <1>14, OneCarParks

-----------------------------------------------------------------------------
(* Everybody else *)

(* The operator sends a car where no other car is sent to or stands. *)
LEMMA AssignParks ==
  ASSUME Undisturbed, Roomy, RoadsApart, MissionInv, ParkingInv, MapIsQuiet',
         NEW c \in Cars, NEW t \in Targets, Assign(c, t)
  PROVE  ParkingInv'
<1>1. TypeOK /\ QueueInv /\ OnMission(c) /\ ~Reserved(t, c)
  BY DEF MissionInv, Assign, RoadsApart
<1>2. Tasks(c) = {}
  <2>1. Settled(c)
    BY DEF Assign, MayAsk, Undisturbed
  <2> QED BY <2>1, SettledMeansUnheard DEF Unheard
<1> DEFINE m == AssignTo(c, t)
<1>3. m \in TaskMsgs /\ m.car = c /\ SendTask("kPrioNormal", m)
  BY IdleTypes, InputAssumption DEF AssignTo, Assign
<1>4. Tasks(c)' = {m} /\ \A d \in Cars \ {c} : Tasks(d)' = Tasks(d)
  <2> HIDE DEF m
  <2> QED BY <1>1, <1>2, <1>3, TaskSent DEF Prios
<1>5. /\ \A d : /\ Planner(d)' = Planner(d) /\ Router(d)' = Router(d) /\ car'[d] = car[d]
      /\ UNCHANGED <<edge, plan>>
  BY ViewFrame DEF Assign, shm
<1>6. \A d \in Cars \ {c} : Alike(d)
  BY <1>4, <1>5 DEF Alike
<1>7. ASSUME NEW d \in Cars \ {c}, Heads(d, t)
      PROVE  FALSE
  <2>1. AssignTo(d, t) \in Tasks(d) => AssignTo(d, t) \in Held(taskQ)
    BY DEF Tasks
  <2>2. Planner(d).msg = AssignTo(d, t) => plan.pc # "idle" /\ plan.msg = AssignTo(d, t)
    <3>1. PlanIdle.msg # AssignTo(d, t)
      BY DEF PlanIdle, Replan, AssignTo
    <3> QED BY <3>1 DEF Planner
  <2> QED BY <1>1, <1>7, <2>1, <2>2 DEF Heads, Reserved
<1>8. ASSUME NEW x \in Targets, Heads(c, x)'
      PROVE  Heads(c, x) \/ \A d \in Cars \ {c} : ~Heads(d, x)
  <2>1. CASE x = t
    BY <1>7, <2>1
  <2>2. CASE x # t
    <3>1. AssignTo(c, x) # m
      BY <2>2 DEF AssignTo
    <3>2. AssignTo(c, x) \notin Tasks(c)'
      BY <1>4, <3>1
    <3> QED BY <1>5, <1>8, <3>2 DEF Heads
  <2> QED BY <2>1, <2>2
<1>9. \A e \in Edges : /\ Holds(c, e)' <=> Holds(c, e)
                       /\ Claims(c, e)' => Claims(c, e)
  BY <1>5 DEF Claims, Holds, Means
<1>10. Placed(c)'
  BY <1>5 DEF ParkingInv, Placed
<1>11. SeesStarters'
  BY <1>5, StartersStay
<1>12. \A e \in Edges : edge'[e] = "OCCUPIED" <=>
                        Holds(c, e)' \/ (edge[e] = "OCCUPIED" /\ ~Holds(c, e))
  BY <1>5, <1>9, HeldStays
<1> QED BY <1>6, <1>8, <1>9, <1>10, <1>11, <1>12, OneCarParks

(* Publisher, cars and subscriber write neither map nor records. *)
LEMMA UnseenParks ==
  ASSUME ParkingInv, MapIsQuiet', UNCHANGED <<edge, car, taskQ, plan, route>>
  PROVE  ParkingInv'
<1>1. PICK c : c \in Cars
  BY CarsAssumption
<1>2. \A d : Alike(d)
  BY ViewFrame DEF Alike
<1>3. /\ \A e : (Holds(c, e)' <=> Holds(c, e)) /\ (Claims(c, e)' <=> Claims(c, e))
      /\ \A t : Heads(c, t)' <=> Heads(c, t)
      /\ Placed(c)'
  BY <1>1, <1>2, AlikeKeeps DEF Claims, ParkingInv
<1>4. SeesStarters'
  BY StartersStay
<1>5. \A e \in Edges : edge'[e] = "OCCUPIED" <=>
                       Holds(c, e)' \/ (edge[e] = "OCCUPIED" /\ ~Holds(c, e))
  BY <1>1, <1>3, HeldStays
<1> QED BY <1>1, <1>2, <1>3, <1>4, <1>5, OneCarParks

LEMMA PlanParks ==
  ASSUME RoadsApart, MissionInv, ParkingInv, MapIsQuiet', PlanStep
  PROVE  ParkingInv'
<1>1. ~PlanGiveUp
  <2> SUFFICES ASSUME plan.pc = "fail" PROVE FALSE
    BY DEF PlanGiveUp
  <2>1. PICK c \in Cars : c = plan.msg.car
    BY PlannersCar
  <2>2. Planner(c) = plan
    BY <2>1 DEF Planner
  <2> QED BY <2>2, PlannersCar, StageByPlanner
<1> QED BY <1>1, PlanTakeParks, PlanChooseParks, PlanUpdateParks, PlanFreesParks, PlanTellParks
        DEF PlanStep

LEMMA RouteParks ==
  ASSUME RoadsApart, MissionInv, ParkingInv, MapIsQuiet', RouteStep
  PROVE  ParkingInv'
BY RouteTakeParks, RouteSaysParks, RouteOccupiesParks, RouteParkParks, RouteAdvanceParks
   DEF RouteStep

LEMMA NextParks ==
  ASSUME Undisturbed, Roomy, RoadsApart, MissionInv, ParkingInv, [Next]_vars
  PROVE  ParkingInv'
<1>1. MapIsQuiet'
  BY QuietStays DEF MissionInv, ParkingInv
<1>2. CASE Asked
  <2>1. (\A s, ask : ~TopoAsk(s, ask)) /\ ~ResetMap
    BY DEF ParkingInv, MapIsQuiet, TopoAsk, ResetMap, Spend
  <2> QED BY <1>1, <1>2, <2>1, NothingElse, AssignParks DEF Asked
<1>3. ~TopoStep
  BY DEF ParkingInv, MapIsQuiet, TopoStep, TopoEdge, TopoNode, TopoPair, TopoCars, TopoNotify
<1>4. SubStep => UNCHANGED <<edge, car, taskQ, plan, route>>
  BY DEF SubStep, SubArrive, SubRead, SubMark, SubMarkPair, SubConclude, SubScan, SubFree,
         SubFreePair, SubPlace, shm, mqs, MissionInv, CalmInv
<1>5. Publish \/ (\E c \in Cars : Drive(c)) \/ UNCHANGED vars
        => UNCHANGED <<edge, car, taskQ, plan, route>>
  BY DEF Publish, Drive, ReachNode, Decide, vars, shm, mqs
<1> QED BY <1>1, <1>2, <1>3, <1>4, <1>5, NothingElse, UnseenParks, PlanParks, RouteParks DEF Next

(* The table of init_map occupies the roads the cars start on. *)
LEMMA InitParks ==
  ASSUME RoadsApart, Init
  PROVE  ParkingInv
<1>1. /\ plan.pc = "idle" /\ route.pc = "idle" /\ topo.pc = "idle" /\ taskQ = EmptyQueue
      /\ edge = FreshEdges /\ budget = Budget
  BY DEF Init, PlanIdle, RouteIdle, TopoIdle
<1>2. \A c : Planner(c) = PlanIdle /\ Router(c) = RouteIdle /\ Tasks(c) = {}
  BY <1>1 DEF Planner, Router, Tasks, Held, EmptyQueue
<1>3. PlanIdle.pc = "idle" /\ RouteIdle.pc = "idle" /\ \A c, t : PlanIdle.msg # AssignTo(c, t)
  BY DEF PlanIdle, RouteIdle, Replan, AssignTo
<1>4. \A c \in Cars : /\ car[c].status = "IDLE" /\ car[c].target = 0
                      /\ Road(car[c]) = StartArc[c]
  <2>1. \A c \in Cars : /\ car[c].status = "IDLE" /\ car[c].target = 0
                        /\ car[c].last = StartArc[c][1] /\ car[c].cur = StartArc[c][2]
    BY DEF Init, NoCar
  <2>2. \A c \in Cars : StartArc[c] = <<StartArc[c][1], StartArc[c][2]>>
    BY CarsAssumption, MapType
  <2> QED BY <2>1, <2>2 DEF Road
<1>5. \A c \in Cars, e \in Edges : /\ Holds(c, e) <=> Arc(e) \in Sides(StartArc[c])
                                   /\ Claims(c, e) <=> Holds(c, e)
  BY <1>2, <1>3, <1>4 DEF Holds, Means, Claims
<1>6. \A c \in Cars, e \in Edges :
        Arc(e) \in Sides(StartArc[c]) <=> StartArc[c] \in {Arc(e), Arc(Pair(e))}
  <2> SUFFICES ASSUME NEW c \in Cars, NEW e \in Edges
               PROVE  Arc(e) \in Sides(StartArc[c]) <=> StartArc[c] \in {Arc(e), Arc(Pair(e))}
    OBVIOUS
  <2>1. /\ StartArc[c] = <<StartArc[c][1], StartArc[c][2]>>
        /\ Arc(e) = <<From(e), To(e)>> /\ Arc(Pair(e)) = <<To(e), From(e)>>
    BY CarsAssumption, MapType DEF Arc
  <2> QED BY <2>1 DEF Sides
<1>7. OccupiedIsHeld
  BY <1>1, <1>5, <1>6 DEF OccupiedIsHeld, FreshEdges
<1>8. OneClaim
  <2> SUFFICES ASSUME NEW c \in Cars, NEW d \in Cars, NEW e \in Edges,
                      Arc(e) \in Sides(StartArc[c]), Arc(e) \in Sides(StartArc[d])
               PROVE  c = d
    BY <1>5 DEF OneClaim
  <2>1. StartArc[c] \in Arcs /\ StartArc[d] \in Arcs
    BY CarsAssumption
  <2>2. StartArc[c] \in Sides(StartArc[d])
    BY <2>1, SidesMeet DEF Sides
  <2> QED BY <2>2 DEF RoadsApart, StartsApart
<1>9. OneHead
  <2>1. \A t \in Targets : t # 0
    BY InputAssumption, MapType DEF Nodes
  <2> QED BY <1>2, <1>3, <1>4, <2>1 DEF OneHead, Heads
<1>10. \A c \in Cars : Placed(c)
  BY <1>2, <1>3, <1>4 DEF Placed
<1> QED BY <1>1, <1>7, <1>8, <1>9, <1>10
        DEF ParkingInv, MapIsQuiet, SeesStarters, RoadsApart, NeverReset

LEMMA HeldIsParked ==
  ASSUME MissionInv, ParkingInv
  PROVE  OccupiedMeansParked
<1> SUFFICES ASSUME \A c \in Cars : Settled(c), NEW e \in Edges, edge[e] = "OCCUPIED"
             PROVE  \E c \in Cars : /\ car[c].status = "IDLE"
                                    /\ <<car[c].last, car[c].cur>> \in {Arc(e), Arc(Pair(e))}
  BY DEF OccupiedMeansParked
<1>1. PICK c \in Cars : Holds(c, e)
  BY DEF ParkingInv, OccupiedIsHeld
<1>2. Planner(c).pc = "idle" /\ Router(c).pc = "idle"
  BY SettledMeansUnheard DEF Unplanned, Unrouted
<1>3. car[c].status = "IDLE" /\ Arc(e) \in Sides(Road(car[c]))
  BY <1>1, <1>2 DEF Holds
<1>4. Arc(Pair(e)) = <<Arc(e)[2], Arc(e)[1]>>
  BY MapType DEF Arc
<1>5. <<car[c].last, car[c].cur>> \in {Arc(e), Arc(Pair(e))}
  BY <1>3, <1>4 DEF Sides, Road
<1> QED BY <1>3, <1>5

(* An edge is occupied exactly while a car is parked on its road, the      *)
(* router parks it or the planner is about to release it.                  *)
THEOREM RoadsAreHeld ==
  ASSUME Undisturbed, Roomy, WellSigned, RoadsApart
  PROVE  Spec => []ParkingInv
<1>1. Init => ParkingInv
  BY InitParks
<1>2. MissionInv /\ ParkingInv /\ [Next]_vars => ParkingInv'
  BY NextParks
<1>3. Spec => []MissionInv
  BY MissionsKeepTheirStages
<1> QED BY <1>1, <1>2, <1>3, PTL DEF Spec

(* When nothing is in flight, an occupied road is one a car without        *)
(* mission stands on: planner and router, each writing the two edges of a  *)
(* road one after the other, leave no road closed behind a car.            *)
THEOREM NoRoadStaysClosed ==
  ASSUME Undisturbed, Roomy, WellSigned, RoadsApart
  PROVE  Spec => []OccupiedMeansParked
<1>1. Spec => []MissionInv
  BY MissionsKeepTheirStages
<1>2. Spec => []ParkingInv
  BY RoadsAreHeld
<1>3. MissionInv /\ ParkingInv => OccupiedMeansParked
  BY HeldIsParked
<1> QED BY <1>1, <1>2, <1>3, PTL

(* A mission ends on the road that the record names: path_stack is not      *)
(* empty then, and its last entry is where the car is.                      *)
THEOREM ParkedOnTheRecordsRoad ==
  ASSUME Undisturbed, Roomy, WellSigned, RoadsApart
  PROVE  Spec => []OccupiesItsRoad
<1>1. Spec => []MissionInv
  BY MissionsKeepTheirStages
<1>2. Spec => []ParkingInv
  BY RoadsAreHeld
<1>3. MissionInv /\ ParkingInv => OccupiesItsRoad
  <2> SUFFICES ASSUME MissionInv, ParkingInv, route.pc \in {"occupy", "occupyPair"}
               PROVE  route.eid \in EdgesOn(route.rec.last, route.rec.cur)
    BY DEF OccupiesItsRoad
  <2>1. PICK c \in Cars : c = route.car
    BY RoutersCar
  <2>2. Router(c) = route /\ Parking(c)
    BY <2>1, StageByRouter DEF MissionInv, Router
  <2>3. /\ route.rec = car[c] /\ car[c].cur = car[c].target /\ route.eid = Last(car[c].path)
        /\ AtNode(c) /\ Record(c) = car[c]
    BY <2>2 DEF Parking, Record
  <2>4. OnWay(car[c], Len(car[c].path))
    BY <2>3 DEF AtNode
  <2>5. Road(car[c]) = Arc(route.eid)
    BY <2>3, <2>4 DEF ParkingInv, Placed, OnWay
  <2>6. route.eid \in Edges
    BY RoutersCar DEF RouteStates
  <2> QED BY <2>3, <2>5, <2>6 DEF EdgesOn, Road
<1> QED BY <1>1, <1>2, <1>3, PTL
=============================================================================
