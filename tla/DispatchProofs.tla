--------------------------- MODULE DispatchProofs ----------------------------
(***************************************************************************)
(* Dispatch for every map, fleet, queue capacity and budget: its variables *)
(* keep their types, and no order of the steps of planner, router and      *)
(* subscriber leaves a car on two nodes that no edge joins, or with a plan *)
(* that does not lead from where it is to its target.                      *)
(***************************************************************************)
EXTENDS Dispatch, NumberFacts

-----------------------------------------------------------------------------
(* The map *)

(* The operators on edges have their types, and a pair is one road taken in *)
(* both directions.                                                        *)
LEMMA MapType ==
  /\ Len(Roads) \in Nat \ {0} /\ EdgeCount \in Nat /\ NodeCount \in Nat
  /\ \A e \in Edges : /\ From(e) \in Nodes /\ To(e) \in Nodes
                      /\ Pair(e) \in Edges
                      /\ Arc(Pair(e)) = <<To(e), From(e)>>
  /\ Arcs \subseteq Nodes \X Nodes
<1>1. Len(Roads) \in Nat \ {0} /\ EdgeCount \in Nat /\ NodeCount \in Nat
  BY RoadsAssumption DEF EdgeCount
<1>2. \A i \in 1..Len(Roads) : Roads[i][1] \in Nodes /\ Roads[i][2] \in Nodes
  BY RoadsAssumption
<1>3. ASSUME NEW e \in Edges
      PROVE  /\ From(e) \in Nodes /\ To(e) \in Nodes
             /\ Pair(e) \in Edges
             /\ Arc(Pair(e)) = <<To(e), From(e)>>
  <2>1. CASE e <= Len(Roads)
    <3>1. e \in 1..Len(Roads) /\ e + Len(Roads) \in Edges /\ ~(e + Len(Roads) <= Len(Roads))
          /\ (e + Len(Roads)) - Len(Roads) = e
      BY <1>1, <2>1 DEF Edges, EdgeCount
    <3> QED BY <3>1, <2>1, <1>2 DEF From, To, Pair, Arc
  <2>2. CASE ~(e <= Len(Roads))
    <3>1. e - Len(Roads) \in 1..Len(Roads) /\ e - Len(Roads) \in Edges
      BY <1>1, <2>2 DEF Edges, EdgeCount
    <3> QED BY <3>1, <2>2, <1>2 DEF From, To, Pair, Arc
  <2> QED BY <2>1, <2>2
<1>4. Arcs \subseteq Nodes \X Nodes
  BY <1>3 DEF Arcs, Arc
<1> QED BY <1>1, <1>3, <1>4

(* A road can be taken in both directions. *)
LEMMA ArcsSymmetric ==
  \A u, v \in Nodes : <<u, v>> \in Arcs => <<v, u>> \in Arcs
<1> SUFFICES ASSUME NEW u \in Nodes, NEW v \in Nodes, <<u, v>> \in Arcs
             PROVE  <<v, u>> \in Arcs
  OBVIOUS
<1>1. PICK e \in Edges : Arc(e) = <<u, v>>
  BY DEF Arcs
<1> QED BY <1>1, MapType DEF Arcs, Arc

(* A route is a sequence of edges. *)
LEMMA RouteType == \A p \in Routes : p \in Seq(Edges) /\ Len(p) \in Nat
<1> SUFFICES ASSUME NEW p \in Routes
             PROVE  p \in Seq(Edges) /\ Len(p) \in Nat
  OBVIOUS
<1>1. PICK n \in 1..Min2(MaxPathLen, NodeCount - 1) : p \in [1..n -> Edges]
  BY DEF Routes
<1>2. n \in Nat
  BY MapType, SizeAssumption DEF Min2
<1> QED BY <1>1, <1>2

-----------------------------------------------------------------------------
(* Message queues *)

(* Sending and receiving keep the type of a queue. *)
LEMMA QueueType ==
  ASSUME NEW Msgs, NEW q \in Queues(Msgs)
  PROVE  /\ \A cap, m : \A p \in Prios : m \in Msgs => Sent(q, cap, p, m) \in Queues(Msgs)
         /\ HasMessage(q) => Received(q) \in Msgs /\ Remaining(q) \in Queues(Msgs)
<1>1. TopPrio(q) \in Prios /\ q[TopPrio(q)] \in Seq(Msgs)
  BY DEF Queues, TopPrio, Prios
<1>2. ASSUME NEW cap, NEW m \in Msgs, NEW p \in Prios
      PROVE  Sent(q, cap, p, m) \in Queues(Msgs)
  <2>1. Append(q[p], m) \in Seq(Msgs)
    BY DEF Queues
  <2> QED BY <2>1 DEF Sent, Queues
<1>3. ASSUME HasMessage(q)
      PROVE  Received(q) \in Msgs /\ Remaining(q) \in Queues(Msgs)
  <2>1. Head(q[TopPrio(q)]) \in Msgs /\ Tail(q[TopPrio(q)]) \in Seq(Msgs)
    BY <1>1, <1>3 DEF HasMessage
  <2> QED BY <2>1, <1>1 DEF Received, Remaining, Queues
<1> QED BY <1>2, <1>3

LEMMA EmptyType == \A Msgs : EmptyQueue \in Queues(Msgs)
  BY DEF EmptyQueue, Queues

-----------------------------------------------------------------------------
(* The local records and the messages *)

LEMMA IdleTypes ==
  /\ SomeCar \in Cars /\ NoCar \in CarRecords /\ 1 \in Edges
  /\ \A c \in Cars, imm \in Strategies : /\ Replan(c, imm) \in TaskMsgs
                                         /\ CancelOf(c, imm) \in TaskMsgs
  /\ \A c \in Cars, t \in Nodes : AssignTo(c, t) \in TaskMsgs
  /\ \A c \in Cars : \A type \in {"ARRIVE", "OBSTACLE", "REPAIRED", "POSITION"} :
       Event(type, c) \in Events
  /\ PlanIdle \in PlanStates /\ RouteIdle \in RouteStates
  /\ SubIdle \in SubStates /\ TopoIdle \in TopoStates
<1>1. SomeCar \in Cars
  BY CarsAssumption DEF SomeCar
<1>2. 1 \in Edges
  BY MapType DEF Edges, EdgeCount
<1>3. 1 \in Nodes
  <2>1. From(1) \in Nodes
    BY <1>2, MapType
  <2> QED BY <2>1, MapType DEF Nodes
<1>4. NoCar \in CarRecords
  BY <1>3 DEF NoCar, CarRecords, CarStatuses
<1>5. \A c \in Cars, imm \in Strategies : /\ Replan(c, imm) \in TaskMsgs
                                          /\ CancelOf(c, imm) \in TaskMsgs
  BY DEF Replan, CancelOf, TaskMsgs
<1>6. \A c \in Cars, t \in Nodes : AssignTo(c, t) \in TaskMsgs
  BY DEF AssignTo, TaskMsgs, Strategies
<1>7. \A c \in Cars : \A type \in {"ARRIVE", "OBSTACLE", "REPAIRED", "POSITION"} :
        Event(type, c) \in Events
  BY CarsAssumption DEF Event, Events
<1>8. PlanIdle \in PlanStates
  <2>1. Replan(SomeCar, "kNormal") \in TaskMsgs
    BY <1>1, <1>5 DEF Strategies
  <2>2. [e \in Edges |-> "IDLE"] \in [Edges -> EdgeStatuses]
    BY DEF EdgeStatuses
  <2> QED BY <2>1, <2>2, <1>2, <1>4 DEF PlanIdle, PlanStates
<1>9. RouteIdle \in RouteStates
  BY <1>1, <1>2, <1>4 DEF RouteIdle, RouteStates
<1>10. SubIdle \in SubStates
  <2>1. Event("ARRIVE", SomeCar) \in Events
    BY <1>1, <1>7
  <2> QED BY <2>1, <1>2, <1>4 DEF SubIdle, SubStates
<1>11. TopoIdle \in TopoStates
  BY <1>2 DEF TopoIdle, TopoStates, EdgeStatuses
<1> QED BY <1>1, <1>2, <1>4, <1>5, <1>6, <1>7, <1>8, <1>9, <1>10, <1>11

LEMMA TurnType == \A a, b, c : Turn(a, b, c) \in TurnNames
<1> SUFFICES ASSUME NEW a, NEW b, NEW c PROVE Turn(a, b, c) \in TurnNames
  OBVIOUS
<1>1. CASE Cross1(a, b, c) > Cross2(a, b, c)
  BY <1>1 DEF Turn, TurnNames
<1>2. CASE ~(Cross1(a, b, c) > Cross2(a, b, c))
  BY <1>2 DEF Turn, TurnNames
<1> QED BY <1>1, <1>2

-----------------------------------------------------------------------------
(* Initial states *)

LEMMA InitTypeOK == Init => TypeOK
<1> SUFFICES ASSUME Init PROVE TypeOK
  OBVIOUS
<1>1. edge \in [Edges -> EdgeStatuses] /\ closed \subseteq Nodes
  BY DEF Init, FreshEdges, EdgeStatuses
<1>2. car \in [Cars -> CarRecords]
  <2>1. \A c \in Cars : StartArc[c][1] \in Nodes /\ StartArc[c][2] \in Nodes
    BY CarsAssumption, MapType
  <2>2. \A c \in Cars : [NoCar EXCEPT !.last = StartArc[c][1], !.cur = StartArc[c][2],
                                      !.start = StartArc[c][1]] \in CarRecords
    BY <2>1, IdleTypes DEF CarRecords, CarStatuses, NoCar
  <2> QED BY <2>2 DEF Init
<1>3. taskQ \in Queues(TaskMsgs) /\ routeQ \in Queues(Cars) /\ mqttQ \in Queues(MqttMsgs)
  BY EmptyType DEF Init
<1>4. events \in Seq(Events)
  <2>1. events = <<>>
    BY DEF Init
  <2> QED BY <2>1
<1>5. plan \in PlanStates /\ route \in RouteStates /\ sub \in SubStates /\ topo \in TopoStates
  BY IdleTypes DEF Init
<1>6. bot \in [Cars -> Bots]
  BY CarsAssumption DEF Init, Bots
<1>7. budget \in [ActionKinds -> Nat]
  BY BudgetAssumption DEF Init
<1> QED BY <1>1, <1>2, <1>3, <1>4, <1>5, <1>6, <1>7 DEF TypeOK

-----------------------------------------------------------------------------
(* Steps *)

LEMMA TopoTypeOK == TypeOK /\ TopoStep => TypeOK'
<1> SUFFICES ASSUME TypeOK, TopoStep PROVE TypeOK'
  OBVIOUS
<1>1. CASE TopoPair
  <2>1. edge' \in [Edges -> EdgeStatuses]
    BY <1>1, MapType DEF TopoPair, SetEdge, TypeOK, TopoStates
  <2>2. topo' \in TopoStates
    BY <1>1 DEF TopoPair, TypeOK, TopoStates
  <2> QED BY <2>1, <2>2, <1>1 DEF TopoPair, TypeOK, mqs
<1>2. CASE TopoCars
  <2>1. topo' \in TopoStates
    BY <1>2, IdleTypes DEF TopoCars, TypeOK, TopoStates, TopoIdle
  <2> QED BY <2>1, <1>2 DEF TopoCars, TypeOK, mqs, shm
<1>3. ASSUME NEW c \in Cars, TopoNotify(c)
      PROVE  TypeOK'
  <2>1. topo' \in TopoStates
    BY <1>3, IdleTypes DEF TopoNotify, TypeOK, TopoStates
  <2>2. taskQ' \in Queues(TaskMsgs)
    BY <1>3, IdleTypes, QueueType DEF TopoNotify, SendTask, TypeOK, Prios, Strategies
  <2> QED BY <2>1, <2>2, <1>3 DEF TopoNotify, TypeOK, shm
<1>4. ASSUME NEW e \in Edges, TopoEdge(e)
      PROVE  TypeOK'
  <2>1. topo' \in TopoStates
    BY <1>4 DEF TopoEdge, TypeOK, TopoStates
  <2>2. edge' \in [Edges -> EdgeStatuses]
    BY <1>4 DEF TopoEdge, SetEdge, TypeOK, TopoStates
  <2> QED BY <2>1, <2>2, <1>4 DEF TopoEdge, TypeOK, mqs
<1>5. ASSUME NEW n \in Nodes, TopoNode(n)
      PROVE  TypeOK'
  <2>1. topo' \in TopoStates
    BY <1>5 DEF TopoNode, TypeOK, TopoStates
  <2>2. closed' \subseteq Nodes
    BY <1>5 DEF TopoNode, TypeOK
  <2> QED BY <2>1, <2>2, <1>5 DEF TopoNode, TypeOK, mqs
<1> QED BY <1>1, <1>2, <1>3, <1>4, <1>5 DEF TopoStep

(* What the planner writes back has the type of a car. *)
LEMMA ReplannedType ==
  ASSUME NEW me \in CarRecords, NEW msg \in TaskMsgs, NEW status,
         NEW start \in StartNodes(me, msg, status), NEW p \in Routes
  PROVE  start \in Nodes /\ Replanned(me, msg, start, p) \in CarRecords
<1>1. start \in Nodes
  <2>1. me.last \in Nodes /\ me.cur \in Nodes
    BY DEF CarRecords
  <2>2. ReverseNodes(me, status) \subseteq Nodes
    BY MapType DEF ReverseNodes
  <2>3. CASE msg.imm = "kUturnNoCross"
    BY <2>1, <2>3 DEF StartNodes
  <2>4. CASE msg.imm = "kUturn"
    BY <2>2, <2>4 DEF StartNodes
  <2>5. CASE msg.imm # "kUturnNoCross" /\ msg.imm # "kUturn"
    BY <2>1, <2>5 DEF StartNodes
  <2> QED BY <2>3, <2>4, <2>5
<1>2. TargetOf(me, msg) \in Nodes \cup {0}
  <2>1. me.target \in Nodes \cup {0} /\ me.start \in Nodes /\ msg.target \in Nodes \cup {0}
    BY DEF CarRecords, TaskMsgs
  <2>2. CASE msg.action = "kReplan"
    BY <2>1, <2>2 DEF TargetOf
  <2>3. CASE msg.action = "kCancel"
    BY <2>1, <2>3 DEF TargetOf
  <2>4. CASE msg.action # "kReplan" /\ msg.action # "kCancel"
    BY <2>1, <2>4 DEF TargetOf
  <2> QED BY <2>2, <2>3, <2>4
<1>3. p \in Seq(Edges)
  BY RouteType
<1> QED BY <1>1, <1>2, <1>3 DEF Replanned, CarRecords, CarStatuses

LEMMA PlanTypeOK == TypeOK /\ PlanStep => TypeOK'
<1> SUFFICES ASSUME TypeOK, PlanStep PROVE TypeOK'
  OBVIOUS
<1> USE DEF TypeOK
<1>0. plan.msg \in TaskMsgs /\ plan.msg.car \in Cars /\ plan.eid \in Edges
  BY DEF PlanStates, TaskMsgs
<1>1. CASE PlanTake
  <2>1. taskQ' \in Queues(TaskMsgs) /\ Received(taskQ) \in TaskMsgs
    BY <1>1, QueueType DEF PlanTake
  <2>2. plan' \in PlanStates
    BY <1>1, <2>1 DEF PlanTake, PlanStates
  <2> QED BY <2>1, <2>2, <1>1 DEF PlanTake, shm
<1>2. CASE PlanAccept
  <2>1. PICK start \in StartNodes(car[plan.msg.car], plan.msg, plan.edge) :
        \E p \in Answers(car[plan.msg.car], plan.msg, start) :
          plan' = [plan EXCEPT !.pc = "update", !.old = car[plan.msg.car],
                     !.new = Replanned(car[plan.msg.car], plan.msg, start, p),
                     !.edge = PlanIdle.edge, !.closed = {}]
    BY <1>2 DEF PlanAccept
  <2>2. PICK p \in Answers(car[plan.msg.car], plan.msg, start) :
          plan' = [plan EXCEPT !.pc = "update", !.old = car[plan.msg.car],
                     !.new = Replanned(car[plan.msg.car], plan.msg, start, p),
                     !.edge = PlanIdle.edge, !.closed = {}]
    BY <2>1
  <2>3. p \in Routes /\ car[plan.msg.car] \in CarRecords
    BY <1>0 DEF Answers, RoutesBetween
  <2>4. Replanned(car[plan.msg.car], plan.msg, start, p) \in CarRecords
    BY <2>3, <1>0, ReplannedType
  <2>5. PlanIdle.edge \in [Edges -> EdgeStatuses]
    BY DEF PlanIdle, EdgeStatuses
  <2>6. plan' \in PlanStates
    BY <2>2, <2>3, <2>4, <2>5 DEF PlanStates
  <2> QED BY <2>6, <1>2 DEF PlanAccept, shm, mqs
<1>3. CASE PlanRefuse
  BY <1>3, IdleTypes DEF PlanRefuse, shm, mqs
<1>4. CASE PlanFail
  <2>1. PlanIdle.edge \in [Edges -> EdgeStatuses]
    BY DEF PlanIdle, EdgeStatuses
  <2>2. plan' \in PlanStates
    BY <2>1, <1>4 DEF PlanFail, PlanStates
  <2> QED BY <2>2, <1>4 DEF PlanFail, shm, mqs
<1>5. CASE PlanGiveUp
  <2>1. plan' \in PlanStates
    BY <1>5, IdleTypes DEF PlanGiveUp
  <2>2. [type |-> "ACTION", car |-> plan.msg.car, param |-> "PAUSE"] \in MqttMsgs
    BY <1>0 DEF MqttMsgs
  <2>3. CancelOf(plan.msg.car, plan.msg.imm) \in TaskMsgs
    BY <1>0, IdleTypes DEF TaskMsgs
  <2>4. /\ Sent(taskQ, TaskCap, "kPrioHigh", CancelOf(plan.msg.car, plan.msg.imm))
             \in Queues(TaskMsgs)
        /\ Sent(mqttQ, MqttCap, "kPrioHigh",
                [type |-> "ACTION", car |-> plan.msg.car, param |-> "PAUSE"])
             \in Queues(MqttMsgs)
    BY <2>2, <2>3, QueueType DEF Prios
  <2>5. taskQ' \in Queues(TaskMsgs) /\ mqttQ' \in Queues(MqttMsgs)
    BY <1>5, <2>4, Zenon DEF PlanGiveUp, SendTask, SendMqtt
  <2> QED BY <2>1, <2>5, <1>5 DEF PlanGiveUp, shm
<1>6. CASE PlanUpdate
  <2>1. plan' \in PlanStates /\ plan.new \in CarRecords
    BY <1>6 DEF PlanUpdate, PlanStates
  <2> QED BY <2>1, <1>6 DEF PlanUpdate, mqs
<1>7. CASE PlanScan
  <2>1. plan' \in PlanStates
    BY <1>7 DEF PlanScan, PlanStates, EdgesOn
  <2> QED BY <2>1, <1>7 DEF PlanScan, mqs, shm
<1>8. CASE PlanFree
  <2>1. plan' \in PlanStates
    BY <1>8 DEF PlanFree, PlanStates
  <2> QED BY <2>1, <1>0, <1>8 DEF PlanFree, SetEdge, EdgeStatuses, mqs
<1>9. CASE PlanFreePair
  <2>1. plan' \in PlanStates
    BY <1>9 DEF PlanFreePair, PlanStates
  <2> QED BY <2>1, <1>0, <1>9, MapType DEF PlanFreePair, SetEdge, EdgeStatuses, mqs
<1>10. CASE PlanCount
  <2>1. plan' \in PlanStates
    BY <1>10, IdleTypes DEF PlanCount, PlanStates
  <2>2. Len(plan.new.path) \in Nat
    BY DEF PlanStates, CarRecords
  <2>3. [type |-> "CNT", car |-> plan.msg.car, param |-> Len(plan.new.path)] \in MqttMsgs
    BY <2>2, <1>0 DEF MqttMsgs
  <2>4. mqttQ' \in Queues(MqttMsgs)
    BY <1>10, <2>3, QueueType DEF PlanCount, SendMqtt, Prios
  <2> QED BY <2>1, <2>4, <1>10 DEF PlanCount, shm
<1>11. CASE PlanAct
  <2>1. plan' \in PlanStates
    BY <1>11, IdleTypes DEF PlanAct
  <2>2. [type |-> "ACTION", car |-> plan.msg.car,
         param |-> IF plan.msg.imm = "kImme" THEN "PROCESS" ELSE "UTURN"] \in MqttMsgs
    BY <1>0 DEF MqttMsgs
  <2>3. mqttQ' \in Queues(MqttMsgs)
    BY <1>11, <2>2, QueueType DEF PlanAct, SendMqtt, Prios
  <2> QED BY <2>1, <2>3, <1>11 DEF PlanAct, shm
<1> QED
  BY <1>1, <1>2, <1>3, <1>4, <1>5, <1>6, <1>7, <1>8, <1>9, <1>10, <1>11 DEF PlanStep

LEMMA RouteTypeOK == TypeOK /\ RouteStep => TypeOK'
<1> SUFFICES ASSUME TypeOK, RouteStep PROVE TypeOK'
  OBVIOUS
<1> USE DEF TypeOK
<1>0. /\ route.car \in Cars /\ route.eid \in Edges /\ route.rec \in CarRecords
      /\ Pair(route.eid) \in Edges /\ To(route.eid) \in Nodes
  BY MapType DEF RouteStates
<1>1. CASE RouteTake
  <2>1. routeQ' \in Queues(Cars) /\ Received(routeQ) \in Cars
    BY <1>1, QueueType DEF RouteTake
  <2> DEFINE me == car[Received(routeQ)]
  <2>2. me \in CarRecords /\ me.path \in Seq(Edges) /\ me.start \in Edges
    <3>1. me \in CarRecords
      BY <2>1
    <3>2. Nodes \subseteq Edges
      BY SizeAssumption, MapType DEF Nodes, Edges
    <3> QED BY <3>1, <3>2 DEF CarRecords
  <2>3. LastEdge(me) \in Edges
    BY <2>2 DEF LastEdge, Last
  <2>4. \A i \in Legs(me) : me.path[i] \in Edges
    BY <2>2 DEF Legs
  <2>5. route' \in RouteStates
    <3>1. CASE route' = [pc |-> "occupy", car |-> Received(routeQ), rec |-> me,
                         eid |-> LastEdge(me)]
      BY <3>1, <2>1, <2>2, <2>3 DEF RouteStates
    <3>2. CASE \E i \in Legs(me) : route' = [pc |-> "orient", car |-> Received(routeQ),
                                             rec |-> me, eid |-> me.path[i]]
      BY <3>2, <2>1, <2>2, <2>4 DEF RouteStates
    <3>3. CASE route' = RouteIdle
      BY <3>3, IdleTypes
    <3> QED BY <1>1, <3>1, <3>2, <3>3 DEF RouteTake
  <2> QED BY <2>1, <2>5, <1>1 DEF RouteTake, shm
<1>2. CASE RouteOccupy
  <2>1. route' \in RouteStates
    BY <1>2 DEF RouteOccupy, RouteStates
  <2> QED BY <2>1, <1>0, <1>2 DEF RouteOccupy, SetEdge, EdgeStatuses, mqs
<1>3. CASE RouteOccupyPair
  <2>1. route' \in RouteStates
    BY <1>3 DEF RouteOccupyPair, RouteStates
  <2> QED BY <2>1, <1>0, <1>3 DEF RouteOccupyPair, SetEdge, EdgeStatuses, mqs
<1>4. CASE RoutePark
  <2>1. route' \in RouteStates
    BY <1>4 DEF RoutePark, RouteStates
  <2>2. [route.rec EXCEPT !.status = "IDLE", !.path = <<>>, !.start = route.rec.cur]
          \in CarRecords
    <3>1. <<>> \in Seq(Edges) /\ route.rec.cur \in Nodes
      BY <1>0 DEF CarRecords
    <3> QED BY <3>1, <1>0 DEF CarRecords, CarStatuses
  <2> QED BY <2>1, <2>2, <1>0, <1>4 DEF RoutePark, mqs
<1>5. CASE RouteTell
  <2>1. [type |-> "ORIENT", car |-> route.car, param |-> "ARRIVED"] \in MqttMsgs
    BY <1>0 DEF MqttMsgs
  <2>2. mqttQ' \in Queues(MqttMsgs)
    BY <1>5, <2>1, QueueType DEF RouteTell, SendMqtt, Prios
  <2> QED BY <2>2, <1>5, IdleTypes DEF RouteTell, shm
<1>6. CASE RouteOrient
  <2>1. route' \in RouteStates
    BY <1>6 DEF RouteOrient, RouteStates
  <2>2. [type |-> "ORIENT", car |-> route.car,
         param |-> Turn(route.rec.last, route.rec.cur, To(route.eid))] \in MqttMsgs
    BY <1>0, TurnType DEF MqttMsgs
  <2>3. mqttQ' \in Queues(MqttMsgs)
    BY <1>6, <2>2, QueueType DEF RouteOrient, SendMqtt, Prios
  <2> QED BY <2>1, <2>3, <1>6 DEF RouteOrient, shm
<1>7. CASE RouteAdvance
  <2>1. [route.rec EXCEPT !.last = route.rec.cur, !.cur = To(route.eid)] \in CarRecords
    BY <1>0 DEF CarRecords
  <2> QED BY <2>1, <1>0, <1>7, IdleTypes DEF RouteAdvance, mqs
<1> QED BY <1>1, <1>2, <1>3, <1>4, <1>5, <1>6, <1>7 DEF RouteStep

LEMMA SubTypeOK == TypeOK /\ SubStep => TypeOK'
<1> SUFFICES ASSUME TypeOK, SubStep PROVE TypeOK'
  OBVIOUS
<1> USE DEF TypeOK
<1>0. /\ sub.ev \in Events /\ sub.ev.car \in Cars /\ sub.eid \in Edges
      /\ sub.rec \in CarRecords /\ Pair(sub.eid) \in Edges
      /\ sub.ev.arc[1] \in Nodes /\ sub.ev.arc[2] \in Nodes
  BY MapType DEF SubStates, Events
<1>1. ASSUME TakeEvent
      PROVE  Head(events) \in Events /\ Head(events).car \in Cars /\ events' \in Seq(Events)
  <2>1. Head(events) \in Events /\ events' \in Seq(Events)
    BY <1>1 DEF TakeEvent
  <2>2. \A ev \in Events : ev.car \in Cars
    BY DEF Events
  <2> QED BY <2>1, <2>2
<1>2. CASE SubArrive
  <2>1. routeQ' \in Queues(Cars)
    BY <1>1, <1>2, QueueType DEF SubArrive, SendRoute, Prios
  <2> QED BY <2>1, <1>1, <1>2 DEF SubArrive, shm
<1>3. CASE SubRead
  <2> DEFINE ev == Head(events)
             me == car[ev.car]
  <2>1. me \in CarRecords
    BY <1>1, <1>3 DEF SubRead
  <2>2. HasEdge(me.last, me.cur) => EdgeOfArc(me.last, me.cur) \in Edges
    BY DEF HasEdge, EdgeOfArc
  <2>3. (IF HasEdge(me.last, me.cur) THEN EdgeOfArc(me.last, me.cur) ELSE sub.eid) \in Edges
    BY <2>2, <1>0
  <2>4. (CASE ev.type = "POSITION" -> "scan"
           [] HasEdge(me.last, me.cur) -> "mark"
           [] OTHER -> "conclude") \in {"scan", "mark", "conclude"}
    <3>1. CASE ev.type = "POSITION" /\ ~HasEdge(me.last, me.cur)
      BY <3>1
    <3>2. CASE ev.type # "POSITION" /\ HasEdge(me.last, me.cur)
      BY <3>2
    <3>3. CASE ev.type # "POSITION" /\ ~HasEdge(me.last, me.cur)
      BY <3>3
    <3>4. CASE ev.type = "POSITION" /\ HasEdge(me.last, me.cur)
      BY <3>4
    <3> QED BY <3>1, <3>2, <3>3, <3>4
  <2>5. sub' \in SubStates
    BY <2>1, <2>3, <2>4, <1>1, <1>3 DEF SubRead, SubStates
  <2> QED BY <2>5, <1>1, <1>3 DEF SubRead, shm, mqs
<1>4. MarkOf(sub.ev) \in EdgeStatuses
  <2>1. CASE sub.ev.type = "REPAIRED"
    BY <2>1 DEF MarkOf, EdgeStatuses
  <2>2. CASE sub.ev.type # "REPAIRED" /\ sub.ev.temp
    BY <2>2 DEF MarkOf, EdgeStatuses
  <2>3. CASE sub.ev.type # "REPAIRED" /\ ~sub.ev.temp
    BY <2>3 DEF MarkOf, EdgeStatuses
  <2> QED BY <2>1, <2>2, <2>3
<1>5. CASE SubMark
  <2>1. sub' \in SubStates
    BY <1>5 DEF SubMark, SubStates
  <2> QED BY <2>1, <1>0, <1>4, <1>5 DEF SubMark, SetEdge, mqs
<1>6. CASE SubMarkPair
  <2>1. sub' \in SubStates
    BY <1>6 DEF SubMarkPair, SubStates
  <2> QED BY <2>1, <1>0, <1>4, <1>6 DEF SubMarkPair, SetEdge, mqs
<1>7. CASE SubConclude
  <2>1. \A imm \in Strategies : Sent(taskQ, TaskCap, "kPrioNormal", Replan(sub.ev.car, imm))
                                  \in Queues(TaskMsgs)
    BY <1>0, IdleTypes, QueueType DEF Prios
  <2>2. Sent(taskQ, TaskCap, "kPrioNormal",
             Replan(sub.ev.car, IF sub.ev.past THEN "kUturnNoCross" ELSE "kUturn"))
          \in Queues(TaskMsgs)
    BY <2>1 DEF Strategies
  <2>3. taskQ' \in Queues(TaskMsgs)
    BY <2>2, <1>7, Zenon DEF SubConclude, SendTask
  <2>4. \A s \in CarStatuses : [car EXCEPT ![sub.ev.car].status = s] \in [Cars -> CarRecords]
    BY <1>0 DEF CarRecords
  <2>5. car' \in [Cars -> CarRecords]
    BY <2>4, <1>7 DEF SubConclude, CarStatuses
  <2> QED BY <2>3, <2>5, <1>7, IdleTypes DEF SubConclude
<1>8. CASE SubScan
  <2>1. sub' \in SubStates
    BY <1>8 DEF SubScan, SubStates, EdgesOn
  <2> QED BY <2>1, <1>8 DEF SubScan, mqs, shm
<1>9. CASE SubFree
  <2>1. sub' \in SubStates
    BY <1>9 DEF SubFree, SubStates
  <2> QED BY <2>1, <1>0, <1>9 DEF SubFree, SetEdge, EdgeStatuses, mqs
<1>10. CASE SubFreePair
  <2>1. sub' \in SubStates
    BY <1>10 DEF SubFreePair, SubStates
  <2> QED BY <2>1, <1>0, <1>10 DEF SubFreePair, SetEdge, EdgeStatuses, mqs
<1>11. CASE SubPlace
  <2>1. [sub.rec EXCEPT !.last = sub.ev.arc[1], !.cur = sub.ev.arc[2],
                        !.path = <<>>, !.status = "IDLE"] \in CarRecords
    <3>1. <<>> \in Seq(Edges)
      OBVIOUS
    <3> QED BY <3>1, <1>0 DEF CarRecords, CarStatuses
  <2> QED BY <2>1, <1>0, <1>11, IdleTypes DEF SubPlace, mqs
<1> QED BY <1>2, <1>3, <1>5, <1>6, <1>7, <1>8, <1>9, <1>10, <1>11 DEF SubStep

LEMMA AskedTypeOK == TypeOK /\ Asked => TypeOK'
<1> SUFFICES ASSUME TypeOK, Asked PROVE TypeOK'
  OBVIOUS
<1> USE DEF TypeOK
<1>0. ASSUME NEW kind \in ActionKinds \ {"any"}, Spend(kind)
      PROVE  budget' \in [ActionKinds -> Nat]
  BY <1>0 DEF Spend, ActionKinds
<1>1. ASSUME NEW c \in Cars, NEW t \in Targets, Assign(c, t)
      PROVE  TypeOK'
  <2>1. taskQ' \in Queues(TaskMsgs)
    BY <1>1, IdleTypes, QueueType, InputAssumption DEF Assign, SendTask, Prios
  <2> QED BY <2>1, <1>0, <1>1 DEF Assign, ActionKinds, shm
<1>2. ASSUME NEW c \in Cars, Cancel(c)
      PROVE  TypeOK'
  <2>1. taskQ' \in Queues(TaskMsgs)
    BY <1>2, IdleTypes, QueueType DEF Cancel, SendTask, Prios, Strategies
  <2> QED BY <2>1, <1>0, <1>2 DEF Cancel, ActionKinds, shm
<1>3. ASSUME NEW s \in {"BLOCKED", "IDLE", "FAULT_REPAIR"}, NEW ask \in Requests, TopoAsk(s, ask)
      PROVE  TypeOK'
  <2>1. ask \in RequestLists /\ s \in EdgeStatuses
    BY InputAssumption DEF EdgeStatuses
  <2>2. topo' \in TopoStates
    BY <2>1, <1>3, IdleTypes DEF TopoAsk, TopoIdle, TopoStates, RequestLists
  <2> QED BY <2>2, <1>0, <1>3 DEF TopoAsk, ActionKinds, mqs, shm
<1>4. CASE ResetMap
  <2>1. edge' \in [Edges -> EdgeStatuses] /\ closed' = {}
    BY <1>4 DEF ResetMap, FreshEdges, EdgeStatuses
  <2> QED BY <2>1, <1>0, <1>4 DEF ResetMap, ActionKinds, mqs
<1> QED BY <1>1, <1>2, <1>3, <1>4 DEF Asked

(* What a car may become. *)
LEMMA BotTypes ==
  ASSUME NEW b \in Bots
  PROVE  /\ \A mode \in {"idle", "stopped"} : CountedOut(b, mode) \in Bots
         /\ SetOff(b) \in Bots /\ Halted(b) \in Bots /\ Resumed(b) \in Bots
         /\ Entered(b) \in Bots
         /\ \A temp \in BOOLEAN, mode \in {"idle", "stopped"} : StoppedBy(b, temp, mode) \in Bots
         /\ \A a \in Arcs : [b EXCEPT !.at = a] \in Bots
<1>1. \A mode \in {"idle", "stopped"} : CountedOut(b, mode) \in Bots
  BY DEF CountedOut, Bots
<1>2. SetOff(b) \in Bots
  <2>1. [b EXCEPT !.mode = "follow"] \in Bots
    BY DEF Bots
  <2> QED BY <1>1, <2>1 DEF SetOff
<1>3. Halted(b) \in Bots /\ Entered(b) \in Bots
  <2>1. Halted(b) \in Bots
    BY DEF Halted, Bots
  <2>2. b.count + 1 \in Nat
    BY DEF Bots
  <2>3. \A n \in Nat : [b EXCEPT !.mode = "approach", !.orient = "none", !.count = n] \in Bots
    BY DEF Bots
  <2> QED BY <2>1, <2>2, <2>3 DEF Entered
<1>4. Resumed(b) \in Bots
  <2>1. [b EXCEPT !.mode = "approach"] \in Bots /\ [b EXCEPT !.mode = "follow"] \in Bots
    BY DEF Bots
  <2>2. CASE b.mode = "idle"
    BY <1>2, <2>2 DEF Resumed
  <2>3. CASE b.mode # "idle"
    BY <2>1, <2>3 DEF Resumed
  <2> QED BY <2>2, <2>3
<1>5. ASSUME NEW temp \in BOOLEAN, NEW mode \in {"idle", "stopped"}
      PROVE  StoppedBy(b, temp, mode) \in Bots
  <2>1. (b.dog \/ temp) \in BOOLEAN
    OBVIOUS
  <2>2. \A dog \in BOOLEAN :
          [b EXCEPT !.mode = mode, !.dog = dog, !.orient = "none"] \in Bots
    BY DEF Bots
  <2> QED BY <2>1, <2>2 DEF StoppedBy
<1>6. \A a \in Arcs : [b EXCEPT !.at = a] \in Bots
  BY DEF Bots
<1> QED BY <1>1, <1>2, <1>3, <1>4, <1>5, <1>6

(* A message changes a car into one of the cars After names. *)
LEMMA AfterType ==
  ASSUME NEW b \in Bots, NEW m \in MqttMsgs
  PROVE  After(b, m) \subseteq Bots
<1>1. CASE m.type = "CNT"
  <2>1. m.param \in Nat
    BY <1>1 DEF MqttMsgs
  <2>2. Counting(b, m.param) \in Bots
    BY <2>1 DEF Bots, Counting
  <2> QED BY <2>2, <1>1 DEF After
<1>2. CASE m.type = "ORIENT"
  <2>1. m.param \in TurnNames \cup {"ARRIVED", "none"}
    BY <1>2 DEF MqttMsgs
  <2>2. Directed(b, m.param) \in Bots
    BY <2>1 DEF Bots, Directed
  <2> QED BY <2>2, <1>2 DEF After
<1>3. CASE m.type = "ACTION"
  <2>1. m.param \in {"PAUSE", "PROCESS", "UTURN"} 
    BY <1>3 DEF MqttMsgs
  <2>2. Halted(b) \in Bots /\ Resumed(b) \in Bots
    BY BotTypes
  <2>3. \A a \in Back(b.at) : Turned(b, a) \in Bots
    <3>1. b.at \in Arcs /\ <<b.at[2], b.at[1]>> \in Arcs
      BY ArcsSymmetric, MapType DEF Bots
    <3>2. \A n \in Ahead(<<b.at[2], b.at[1]>>, "STRAIGHT") : <<b.at[1], n>> \in Arcs
      BY DEF Ahead
    <3>3. Back(b.at) \subseteq Arcs
      BY <3>1, <3>2 DEF Back
    <3> QED BY <3>3, BotTypes DEF Turned
  <2>4. Obeyed(b, m.param) \subseteq Bots
    BY <2>1, <2>2, <2>3 DEF Obeyed
  <2> QED BY <2>4, <1>3 DEF After
<1> QED BY <1>1, <1>2, <1>3 DEF MqttMsgs

(* A car that becomes a car is a car. *)
LEMMA BecomesType ==
  ASSUME bot \in [Cars -> Bots], NEW c \in Cars, NEW b \in Bots, Becomes(c, b)
  PROVE  bot' \in [Cars -> Bots]
BY DEF Becomes

LEMMA PublishTypeOK == TypeOK /\ Publish => TypeOK'
<1> SUFFICES ASSUME TypeOK, Publish PROVE TypeOK'
  OBVIOUS
<1> USE DEF TypeOK
<1>1. mqttQ' \in Queues(MqttMsgs) /\ Received(mqttQ) \in MqttMsgs
  BY QueueType DEF Publish
<1>2. Received(mqttQ).car \in Cars
  BY <1>1 DEF MqttMsgs
<1>3. PICK b \in After(bot[Received(mqttQ).car], Received(mqttQ)) : Becomes(Received(mqttQ).car, b)
  BY DEF Publish
<1>4. b \in Bots
  BY <1>1, <1>2, AfterType
<1>5. bot' \in [Cars -> Bots]
  BY <1>2, <1>3, <1>4, BecomesType
<1> QED BY <1>1, <1>5 DEF Publish, shm

LEMMA LoseTypeOK == TypeOK /\ Lose => TypeOK'
<1> SUFFICES ASSUME TypeOK, Lose PROVE TypeOK'
  OBVIOUS
<1> USE DEF TypeOK
<1>1. mqttQ' \in Queues(MqttMsgs)
  BY QueueType DEF Lose
<1>2. budget' \in [ActionKinds -> Nat]
  BY DEF Lose, Spend, ActionKinds
<1> QED BY <1>1, <1>2 DEF Lose, shm

LEMMA CarTypeOK == ASSUME NEW c \in Cars PROVE TypeOK /\ (Drive(c) \/ World(c)) => TypeOK'
<1> SUFFICES ASSUME TypeOK, Drive(c) \/ World(c) PROVE TypeOK'
  OBVIOUS
<1> USE DEF TypeOK
<1>0. ASSUME NEW kind \in ActionKinds \ {"any"}, Spend(kind)
      PROVE  budget' \in [ActionKinds -> Nat]
  BY <1>0 DEF Spend, ActionKinds
<1>1. ASSUME NEW ev \in Events, Report(ev)
      PROVE  events' \in Seq(Events)
  BY <1>1 DEF Report
<1>2. bot[c] \in Bots /\ bot[c].count \in Nat
      /\ \A turn, n : n \in Ahead(bot[c].at, turn) => <<bot[c].at[2], n>> \in Arcs
  BY DEF Bots, Ahead
<1>3. CASE ReachNode(c)
  <2>1. Entered(bot[c]) \in Bots
    BY <1>2, BotTypes
  <2>2. CountedOut(Entered(bot[c]), "stopped") \in Bots
    BY <2>1, BotTypes
  <2>3. \/ Becomes(c, Entered(bot[c]))
        \/ Becomes(c, CountedOut(Entered(bot[c]), "stopped"))
    BY <1>3 DEF ReachNode
  <2>4. bot' \in [Cars -> Bots]
    BY <2>1, <2>2, <2>3, BecomesType
  <2> QED BY <2>4, <1>1, <1>3, IdleTypes DEF ReachNode, shm, mqs
<1>4. CASE Decide(c)
  <2>1. /\ [bot[c] EXCEPT !.mode = "paused", !.orient = "none"] \in Bots
        /\ [bot[c] EXCEPT !.mode = "lost", !.orient = "none"] \in Bots
        /\ \A n \in Ahead(bot[c].at, bot[c].orient) :
             [bot[c] EXCEPT !.mode = "follow", !.orient = "none", !.at = <<@[2], n>>] \in Bots
    BY <1>2 DEF Bots
  <2>2. bot' \in [Cars -> Bots]
    BY <2>1, <1>4, BecomesType DEF Decide
  <2> QED BY <2>2, <1>4 DEF Decide, shm, mqs
<1>5. CASE TimeOut(c)
  <2>1. [bot[c] EXCEPT !.mode = "paused"] \in Bots
    BY <1>2 DEF Bots
  <2>2. bot' \in [Cars -> Bots]
    BY <2>1, <1>5, BecomesType DEF TimeOut
  <2> QED BY <2>2, <1>5 DEF TimeOut, shm, mqs
<1>6. ASSUME NEW temp \in BOOLEAN, SeeObstacle(c, temp)
      PROVE  TypeOK'
  <2>1. /\ [Event("OBSTACLE", c) EXCEPT !.temp = temp] \in Events
        /\ [Event("OBSTACLE", c) EXCEPT !.temp = temp, !.past = TRUE] \in Events
        /\ Event("ARRIVE", c) \in Events
    BY CarsAssumption DEF Event, Events
  <2>2. bot[c] \in Bots /\ Entered(bot[c]) \in Bots
    BY <1>2, BotTypes
  <2>3. \A b \in Bots : StoppedBy(b, temp, "idle") \in Bots /\ StoppedBy(b, temp, "stopped") \in Bots
    BY BotTypes
  <2>4. ASSUME ObstacleAtMark(c, temp)
       PROVE  events' \in Seq(Events) /\ bot' \in [Cars -> Bots]
    <3>1. events' \in Seq(Events)
      <4>1. \A e \in Events : events \o <<Event("ARRIVE", c), e>> \in Seq(Events)
        BY <2>1
      <4>2. \/ events' = events \o <<Event("ARRIVE", c), [Event("OBSTACLE", c) EXCEPT !.temp = temp]>>
            \/ Report([Event("OBSTACLE", c) EXCEPT !.temp = temp])
        BY <2>4 DEF ObstacleAtMark
      <4> QED BY <2>1, <4>1, <4>2, <1>1
    <3>2. /\ StoppedBy(Entered(bot[c]), temp, "stopped") \in Bots
          /\ StoppedBy(bot[c], temp, "stopped") \in Bots
      BY <2>2, <2>3
    <3>3. bot' \in [Cars -> Bots]
      BY <3>2, <2>4, BecomesType DEF ObstacleAtMark
    <3> QED BY <3>1, <3>3
  <2>5. ASSUME ObstacleInJunction(c, temp)
       PROVE  events' \in Seq(Events) /\ bot' \in [Cars -> Bots]
    <3>1. events' \in Seq(Events)
      BY <2>1, <2>5, <1>1 DEF ObstacleInJunction
    <3>2. PICK n \in Ahead(bot[c].at, "STRAIGHT") :
            Becomes(c, [StoppedBy(bot[c], temp, "idle") EXCEPT !.at = <<@[2], n>>])
      BY <2>5 DEF ObstacleInJunction
    <3>3. StoppedBy(bot[c], temp, "idle").at = bot[c].at
      BY <1>2 DEF StoppedBy, Bots
    <3>4. <<StoppedBy(bot[c], temp, "idle").at[2], n>> \in Arcs
      BY <1>2, <3>2, <3>3
    <3>5. [StoppedBy(bot[c], temp, "idle") EXCEPT !.at = <<@[2], n>>] \in Bots
      BY <2>2, <2>3, <3>4, BotTypes
    <3> QED BY <3>1, <3>2, <3>5, BecomesType
  <2>6. ASSUME ObstacleOnRoad(c, temp)
       PROVE  events' \in Seq(Events) /\ bot' \in [Cars -> Bots]
    <3>1. events' \in Seq(Events)
      BY <2>1, <2>6, <1>1 DEF ObstacleOnRoad
    <3>2. bot' \in [Cars -> Bots]
      BY <2>2, <2>3, <2>6, BecomesType DEF ObstacleOnRoad
    <3> QED BY <3>1, <3>2
  <2>7. events' \in Seq(Events) /\ bot' \in [Cars -> Bots]
    BY <2>4, <2>5, <2>6, <1>6 DEF SeeObstacle
  <2> QED BY <2>7, <1>0, <1>6 DEF SeeObstacle, ActionKinds, shm, mqs
<1>7. CASE SeeClear(c)
  <2>1. DrivenOn(bot[c]) \subseteq Bots
    <3>1. bot[c] \in Bots /\ Resumed(bot[c]) \in Bots /\ CountedOut(bot[c], "stopped") \in Bots
      BY <1>2, BotTypes
    <3>2. [bot[c] EXCEPT !.mode = "lost"] \in Bots
      BY <1>2 DEF Bots
    <3>3. \A n \in Ahead(bot[c].at, "STRAIGHT") :
            [bot[c] EXCEPT !.mode = "follow", !.at = <<bot[c].at[2], n>>] \in Bots
      BY <1>2 DEF Bots
    <3>4. bot[c].mode \in {"idle", "follow", "approach", "paused", "stopped", "lost"}
      BY <1>2 DEF Bots
    <3> QED BY <3>1, <3>2, <3>3, <3>4 DEF DrivenOn
  <2>2. \A b \in Bots : [b EXCEPT !.dog = FALSE] \in Bots
    BY DEF Bots
  <2>3. bot' \in [Cars -> Bots]
    BY <2>1, <2>2, <1>7, BecomesType DEF SeeClear
  <2> QED BY <2>3, <1>1, <1>7, IdleTypes DEF SeeClear, shm, mqs
<1>8. ASSUME NEW arc \in Places, PutDown(c, arc)
      PROVE  TypeOK'
  <2>1. arc \in Arcs
    BY InputAssumption
  <2>2. [Event("POSITION", c) EXCEPT !.arc = arc] \in Events
    BY <2>1 DEF Event, Events
  <2>3. [bot[c] EXCEPT !.at = arc, !.mode = IF @ = "paused" THEN @ ELSE "idle"] \in Bots
    BY <1>2, <2>1 DEF Bots
  <2>4. bot' \in [Cars -> Bots]
    BY <2>3, <1>8, BecomesType DEF PutDown
  <2> QED BY <2>2, <2>4, <1>0, <1>1, <1>8 DEF PutDown, ActionKinds, shm, mqs
<1> QED BY <1>3, <1>4, <1>5, <1>6, <1>7, <1>8 DEF Drive, World

LEMMA StutterTypeOK == TypeOK /\ UNCHANGED vars => TypeOK'
  BY DEF TypeOK, vars, shm, mqs

LEMMA NextTypeOK == TypeOK /\ [Next]_vars => TypeOK'
  BY AskedTypeOK, TopoTypeOK, PlanTypeOK, RouteTypeOK, SubTypeOK, PublishTypeOK, LoseTypeOK,
     CarTypeOK, StutterTypeOK DEF Next

(* Every variable of the system keeps its type, for every map, fleet,      *)
(* capacity and budget, in every interleaving.                             *)
THEOREM Typing == Spec => []TypeOK
<1>1. Init => TypeOK
  BY InitTypeOK
<1>2. TypeOK /\ [Next]_vars => TypeOK'
  BY NextTypeOK
<1> QED BY <1>1, <1>2, PTL DEF Spec

-----------------------------------------------------------------------------
(* No car leaves the map.  Three processes write whole records of cars, and *)
(* each may overwrite what another wrote since it read.  What saves the    *)
(* pair <<last, cur>> is that each of them writes both fields, and computes *)
(* both from one snapshot; the invariant says so of the records in flight. *)

(* A record whose two nodes are joined by an edge. *)
Joined(rec) == <<rec.last, rec.cur>> \in Arcs

PlanKeepsToMap == plan.pc = "update" => Joined(plan.new)

RouteKeepsToMap ==
  /\ route.pc \in {"occupy", "occupyPair", "park"} => Joined(route.rec)
  /\ route.pc \in {"orient", "advance"} => From(route.eid) = route.rec.cur

MapInv == TypeOK /\ OnTheMap /\ PlanKeepsToMap /\ RouteKeepsToMap

(* A plan made from a record on the map puts the car on the map again,     *)
(* however it turns around.                                                *)
LEMMA ReplannedJoined ==
  ASSUME NEW me \in CarRecords, Joined(me), NEW msg \in TaskMsgs, NEW status,
         NEW start \in StartNodes(me, msg, status), NEW p
  PROVE  Joined(Replanned(me, msg, start, p))
<1>0. me.last \in Nodes /\ me.cur \in Nodes
  BY DEF CarRecords
<1>1. /\ Replanned(me, msg, start, p).cur = start
      /\ Replanned(me, msg, start, p).last = IF msg.imm = "kUturnNoCross" THEN me.cur ELSE me.last
  BY DEF Replanned, CarRecords
<1>2. CASE msg.imm = "kUturnNoCross"
  <2>1. start = me.last
    BY <1>2 DEF StartNodes
  <2> QED BY <1>0, <1>1, <1>2, <2>1, ArcsSymmetric DEF Joined
<1>3. CASE msg.imm = "kUturn"
  <2>1. PICK e \in Edges : start = To(e) /\ From(e) = me.last
    BY <1>3 DEF StartNodes, ReverseNodes
  <2>2. Arc(e) = <<me.last, start>>
    BY <2>1 DEF Arc
  <2> QED BY <1>1, <1>3, <2>2 DEF Joined, Arcs
<1>4. CASE msg.imm # "kUturnNoCross" /\ msg.imm # "kUturn"
  <2>1. start = me.cur
    BY <1>4 DEF StartNodes
  <2> QED BY <1>1, <1>4, <2>1 DEF Joined
<1> QED BY <1>2, <1>3, <1>4

LEMMA InitMapInv == Init => MapInv
<1> SUFFICES ASSUME Init PROVE MapInv
  OBVIOUS
<1>1. TypeOK
  BY InitTypeOK
<1>2. \A c \in Cars : car[c].last = StartArc[c][1] /\ car[c].cur = StartArc[c][2]
  BY DEF Init, NoCar
<1>3. \A c \in Cars : <<StartArc[c][1], StartArc[c][2]>> \in Arcs
  BY CarsAssumption, MapType
<1>4. OnTheMap
  BY <1>2, <1>3 DEF OnTheMap
<1>5. PlanKeepsToMap /\ RouteKeepsToMap
  BY DEF Init, PlanIdle, RouteIdle, PlanKeepsToMap, RouteKeepsToMap
<1> QED BY <1>1, <1>4, <1>5 DEF MapInv

(* Only PlanAccept has a record to write back. *)
LEMMA PlanElsewhere ==
  ASSUME plan \in PlanStates,
         PlanTake \/ PlanRefuse \/ PlanFail \/ PlanGiveUp \/ PlanScan \/ PlanFree
           \/ PlanFreePair \/ PlanCount \/ PlanAct
  PROVE  plan'.pc # "update"
<1>1. PlanIdle.pc = "idle"
  BY DEF PlanIdle
<1>2. PlanTake => plan'.pc = "cars"
  BY DEF PlanTake, PlanStates
<1>3. PlanRefuse \/ PlanGiveUp \/ PlanAct => plan'.pc = "idle"
  BY <1>1 DEF PlanRefuse, PlanGiveUp, PlanAct
<1>4. PlanFail => plan'.pc = "fail"
  BY DEF PlanFail, PlanStates
<1>5. PlanScan => plan'.pc \in {"free", "count"}
  BY DEF PlanScan, PlanStates
<1>6. PlanFree => plan'.pc = "freePair"
  BY DEF PlanFree, PlanStates
<1>7. PlanFreePair => plan'.pc \in {"scan", "count"}
  BY DEF PlanFreePair, PlanStates
<1>8. PlanCount => plan'.pc \in {"act", "idle"}
  BY <1>1 DEF PlanCount, PlanStates
<1> QED BY <1>1, <1>2, <1>3, <1>4, <1>5, <1>6, <1>7, <1>8

(* The planner. *)
LEMMA PlanMapInv == MapInv /\ PlanStep => MapInv'
<1> SUFFICES ASSUME MapInv, PlanStep PROVE MapInv'
  OBVIOUS
<1>0. /\ TypeOK /\ TypeOK' /\ OnTheMap /\ PlanKeepsToMap /\ RouteKeepsToMap
      /\ plan.msg \in TaskMsgs /\ plan.msg.car \in Cars /\ plan \in PlanStates
      /\ car \in [Cars -> CarRecords]
  BY PlanTypeOK DEF MapInv, TypeOK, PlanStates, TaskMsgs
<1>1. RouteKeepsToMap'
  BY <1>0 DEF PlanStep, PlanTake, PlanAccept, PlanRefuse, PlanFail, PlanGiveUp, PlanUpdate,
              PlanScan, PlanFree, PlanFreePair, PlanCount, PlanAct, RouteKeepsToMap, Joined
<1>2. CASE PlanAccept
  <2> DEFINE me == car[plan.msg.car]
  <2>1. PICK start \in StartNodes(me, plan.msg, plan.edge) :
        \E p \in Answers(me, plan.msg, start) :
          plan' = [plan EXCEPT !.pc = "update", !.old = me,
                     !.new = Replanned(me, plan.msg, start, p),
                     !.edge = PlanIdle.edge, !.closed = {}]
    BY <1>2 DEF PlanAccept
  <2>2. PICK p : plan'.new = Replanned(me, plan.msg, start, p)
    BY <2>1, <1>0 DEF PlanStates
  <2>3. me \in CarRecords /\ Joined(me)
    BY <1>0 DEF OnTheMap, Joined
  <2>4. Joined(Replanned(me, plan.msg, start, p))
    BY <2>3, <1>0, ReplannedJoined
  <2>5. PlanKeepsToMap'
    BY <2>2, <2>4 DEF PlanKeepsToMap, Joined
  <2>6. OnTheMap'
    BY <1>0, <1>2 DEF PlanAccept, OnTheMap, shm
  <2> QED BY <1>0, <1>1, <2>5, <2>6 DEF MapInv
<1>3. CASE PlanUpdate
  <2>1. Joined(plan.new) /\ plan'.pc = "scan"
    BY <1>0, <1>3 DEF PlanUpdate, PlanKeepsToMap, PlanStates
  <2>2. car' = [car EXCEPT ![plan.msg.car] = plan.new]
    BY <1>3 DEF PlanUpdate
  <2>3. OnTheMap'
    BY <1>0, <2>1, <2>2 DEF OnTheMap, Joined
  <2> QED BY <1>0, <1>1, <2>1, <2>3 DEF MapInv, PlanKeepsToMap
<1>4. CASE PlanTake \/ PlanRefuse \/ PlanFail \/ PlanGiveUp \/ PlanScan \/ PlanFree
           \/ PlanFreePair \/ PlanCount \/ PlanAct
  <2>1. car' = car
    BY <1>4 DEF PlanTake, PlanRefuse, PlanFail, PlanGiveUp, PlanScan, PlanFree, PlanFreePair,
                PlanCount, PlanAct, shm
  <2>2. plan'.pc # "update"
    BY <1>0, <1>4, PlanElsewhere
  <2> QED BY <1>0, <1>1, <2>1, <2>2 DEF MapInv, OnTheMap, PlanKeepsToMap
<1> QED BY <1>2, <1>3, <1>4 DEF PlanStep

(* The router. *)
LEMMA RouteMapInv == MapInv /\ RouteStep => MapInv'
<1> SUFFICES ASSUME MapInv, RouteStep PROVE MapInv'
  OBVIOUS
<1>0. /\ TypeOK /\ TypeOK' /\ OnTheMap /\ PlanKeepsToMap /\ RouteKeepsToMap
      /\ car \in [Cars -> CarRecords] /\ route \in RouteStates
      /\ route.car \in Cars /\ route.rec \in CarRecords /\ route.eid \in Edges
  BY RouteTypeOK DEF MapInv, TypeOK, RouteStates
<1>1. PlanKeepsToMap'
  BY <1>0 DEF RouteStep, RouteTake, RouteOccupy, RouteOccupyPair, RoutePark, RouteTell,
              RouteOrient, RouteAdvance, PlanKeepsToMap, Joined
<1>2. CASE RouteTake
  <2>1. Received(routeQ) \in Cars
    BY <1>0, <1>2, QueueType DEF RouteTake, TypeOK
  <2>2. Joined(car[Received(routeQ)])
    BY <1>0, <2>1 DEF OnTheMap, Joined
  <2>3. RouteKeepsToMap'
    BY <1>2, <2>2 DEF RouteTake, RouteKeepsToMap, Joined, Legs, RouteIdle
  <2> QED BY <1>0, <1>1, <1>2, <2>3 DEF MapInv, RouteTake, OnTheMap, shm
<1>3. CASE RoutePark
  <2>1. Joined(route.rec) /\ route'.pc = "tell"
    BY <1>0, <1>3 DEF RoutePark, RouteKeepsToMap, RouteStates
  <2> DEFINE parked == [route.rec EXCEPT !.status = "IDLE", !.path = <<>>,
                                         !.start = route.rec.cur]
  <2>2. parked.last = route.rec.last /\ parked.cur = route.rec.cur
    BY <1>0 DEF CarRecords
  <2>3. OnTheMap'
    BY <1>0, <1>3, <2>1, <2>2 DEF RoutePark, OnTheMap, Joined
  <2> QED BY <1>0, <1>1, <2>1, <2>3 DEF MapInv, RouteKeepsToMap
<1>4. CASE RouteAdvance
  <2>1. From(route.eid) = route.rec.cur /\ Arc(route.eid) \in Arcs
    BY <1>0, <1>4 DEF RouteAdvance, RouteKeepsToMap, Arcs
  <2> DEFINE moved == [route.rec EXCEPT !.last = route.rec.cur, !.cur = To(route.eid)]
  <2>2. <<moved.last, moved.cur>> \in Arcs
    BY <1>0, <2>1 DEF CarRecords, Arc
  <2>3. OnTheMap'
    BY <1>0, <1>4, <2>2 DEF RouteAdvance, OnTheMap
  <2>4. RouteKeepsToMap'
    BY <1>4 DEF RouteAdvance, RouteKeepsToMap, RouteIdle
  <2> QED BY <1>0, <1>1, <2>3, <2>4 DEF MapInv
<1>5. CASE RouteOccupy \/ RouteOccupyPair \/ RouteTell \/ RouteOrient
  <2>1. car' = car
    BY <1>5 DEF RouteOccupy, RouteOccupyPair, RouteTell, RouteOrient, shm
  <2>2. RouteKeepsToMap'
    BY <1>0, <1>5 DEF RouteOccupy, RouteOccupyPair, RouteTell, RouteOrient, RouteIdle,
                      RouteKeepsToMap, RouteStates, Joined
  <2> QED BY <1>0, <1>1, <2>1, <2>2 DEF MapInv, OnTheMap
<1> QED BY <1>2, <1>3, <1>4, <1>5 DEF RouteStep

(* The subscriber: POSITION names two nodes that an edge joins. *)
LEMMA SubMapInv == MapInv /\ SubStep => MapInv'
<1> SUFFICES ASSUME MapInv, SubStep PROVE MapInv'
  OBVIOUS
<1>0. /\ TypeOK /\ TypeOK' /\ OnTheMap /\ PlanKeepsToMap /\ RouteKeepsToMap
      /\ car \in [Cars -> CarRecords] /\ sub.rec \in CarRecords
      /\ sub.ev.car \in Cars /\ sub.ev.arc \in Arcs
  BY SubTypeOK DEF MapInv, TypeOK, SubStates, Events
<1>1. PlanKeepsToMap' /\ RouteKeepsToMap'
  BY <1>0 DEF SubStep, SubArrive, SubRead, SubMark, SubMarkPair, SubConclude, SubScan, SubFree,
              SubFreePair, SubPlace, PlanKeepsToMap, RouteKeepsToMap, Joined
<1>2. CASE SubPlace
  <2> DEFINE placed == [sub.rec EXCEPT !.last = sub.ev.arc[1], !.cur = sub.ev.arc[2],
                                       !.path = <<>>, !.status = "IDLE"]
  <2>1. <<placed.last, placed.cur>> \in Arcs
    <3>1. sub.ev.arc = <<sub.ev.arc[1], sub.ev.arc[2]>>
      BY <1>0, MapType
    <3>2. placed.last = sub.ev.arc[1] /\ placed.cur = sub.ev.arc[2]
      BY <1>0 DEF CarRecords
    <3> QED BY <1>0, <3>1, <3>2
  <2>2. OnTheMap'
    BY <1>0, <1>2, <2>1 DEF SubPlace, OnTheMap
  <2> QED BY <1>0, <1>1, <2>2 DEF MapInv
<1>3. CASE SubConclude
  <2>1. \A c \in Cars : car'[c].last = car[c].last /\ car'[c].cur = car[c].cur
    BY <1>0, <1>3 DEF SubConclude, CarRecords
  <2>2. OnTheMap'
    BY <1>0, <2>1 DEF OnTheMap
  <2> QED BY <1>0, <1>1, <2>2 DEF MapInv
<1>4. CASE SubArrive \/ SubRead \/ SubMark \/ SubMarkPair \/ SubScan \/ SubFree \/ SubFreePair
  <2>1. car' = car
    BY <1>4 DEF SubArrive, SubRead, SubMark, SubMarkPair, SubScan, SubFree, SubFreePair, shm
  <2> QED BY <1>0, <1>1, <2>1 DEF MapInv, OnTheMap
<1> QED BY <1>2, <1>3, <1>4 DEF SubStep

(* Nobody else writes the cars. *)
LEMMA OthersKeepCars ==
  Asked \/ TopoStep \/ Publish \/ Lose \/ (\E c \in Cars : Drive(c) \/ World(c)) \/ UNCHANGED vars
    => UNCHANGED <<car, plan, route>>
BY DEF Asked, Assign, Cancel, TopoAsk, ResetMap, TopoStep, TopoEdge, TopoNode, TopoPair,
       TopoCars, TopoNotify, Publish, Lose, Drive, ReachNode, Decide, World, TimeOut,
       SeeObstacle, SeeClear, PutDown, vars, shm

LEMMA OthersMapInv ==
  MapInv /\ (Asked \/ TopoStep \/ Publish \/ Lose \/ (\E c \in Cars : Drive(c) \/ World(c))
             \/ UNCHANGED vars) => MapInv'
<1> SUFFICES ASSUME MapInv,
                    Asked \/ TopoStep \/ Publish \/ Lose \/ (\E c \in Cars : Drive(c) \/ World(c))
                      \/ UNCHANGED vars
             PROVE  MapInv'
  OBVIOUS
<1>1. TypeOK'
  BY AskedTypeOK, TopoTypeOK, PublishTypeOK, LoseTypeOK, CarTypeOK, StutterTypeOK DEF MapInv
<1>2. UNCHANGED <<car, plan, route>>
  BY OthersKeepCars
<1> QED BY <1>1, <1>2 DEF MapInv, OnTheMap, PlanKeepsToMap, RouteKeepsToMap, Joined

(* The record of every car names an edge of the map at all times, although *)
(* the updates of planner, router and subscriber may overwrite each other: *)
(* alter_edges_status and jud_rev never look up a pair of nodes that no    *)
(* edge joins.                                                             *)
THEOREM CarsStayOnTheMap == Spec => []OnTheMap
<1>1. Init => MapInv
  BY InitMapInv
<1>2. MapInv /\ [Next]_vars => MapInv'
  BY PlanMapInv, RouteMapInv, SubMapInv, OthersMapInv DEF Next
<1>3. MapInv => OnTheMap
  BY DEF MapInv
<1> QED BY <1>1, <1>2, <1>3, PTL DEF Spec

-----------------------------------------------------------------------------
(* Plans lead to targets.  Again it is the records that are right, not the *)
(* order in which they are written: planner and router compute node, path  *)
(* and target of a record from one snapshot, and a car put down elsewhere  *)
(* has no plan.                                                            *)

(* From its k-th edge on, p leads along the map to t. *)
LeadsFrom(p, k, t) ==
  /\ \A j \in k..Len(p) - 1 : To(p[j]) = From(p[j + 1])
  /\ To(Last(p)) = t

(* The router has the edge to take in hand, out of the plan it read. *)
OnItsLeg == route.rec.cur # route.rec.target /\
            \E i \in Legs(route.rec) : route.eid = route.rec.path[i]

PlanLeadsOn == plan.pc = "update" => LeadsOn(plan.new)

RouteLeadsOn ==
  route.pc \in {"orient", "advance"} => OnItsLeg /\ LeadsOn(route.rec)

LeadInv == TypeOK /\ PlanLeadsToTarget /\ PlanLeadsOn /\ RouteLeadsOn

(* The router looks for the last edge that leaves cur: if there is one     *)
(* from which the path leads on, it finds one.                             *)
LEMMA LastLegLeads ==
  ASSUME NEW me, me.path \in Seq(Edges), NEW k \in DOMAIN me.path,
         From(me.path[k]) = me.cur, LeadsFrom(me.path, k, me.target)
  PROVE  LeadsOn(me)
<1> DEFINE p == me.path
           n == Len(p)
           T == {i \in 1..n : From(p[i]) = me.cur}
<1>1. n \in Nat /\ DOMAIN p = 1..n /\ k \in T
  OBVIOUS
<1>2. PICK i \in T : \A j \in T : j <= i
  <2>1. T \in SUBSET (1..n) /\ T # {}
    BY <1>1
  <2> HIDE DEF T
  <2> QED BY <1>1, <2>1, GreatestIndex
<1>3. i \in Legs(me)
  <2>1. i \in DOMAIN p /\ From(p[i]) = me.cur
    BY <1>1, <1>2
  <2>2. ASSUME NEW j \in DOMAIN p, j > i, From(p[j]) = me.cur
        PROVE  FALSE
    <3>1. j \in T /\ j <= i
      BY <1>1, <1>2, <2>2
    <3> QED BY <3>1, <2>2, <1>1
  <2> QED BY <2>1, <2>2 DEF Legs
<1>4. k <= i
  BY <1>1, <1>2
<1>5. \A j \in i..n - 1 : To(p[j]) = From(p[j + 1])
  <2>1. \A j \in i..n - 1 : j \in k..n - 1
    BY <1>1, <1>4
  <2> QED BY <2>1 DEF LeadsFrom
<1> QED BY <1>3, <1>5 DEF LeadsOn, LeadsFrom

(* A new plan leads on. *)
LEMMA ReplannedLeads ==
  ASSUME NEW me \in CarRecords, NEW msg \in TaskMsgs, NEW status,
         NEW start \in StartNodes(me, msg, status), NEW p \in Answers(me, msg, start)
  PROVE  LeadsOn(Replanned(me, msg, start, p))
<1> DEFINE new == Replanned(me, msg, start, p)
<1>1. p \in Routes /\ From(p[1]) = start /\ To(Last(p)) = TargetOf(me, msg)
  BY DEF Answers, RoutesBetween
<1>2. p \in Seq(Edges) /\ Len(p) \in Nat
  BY <1>1, RouteType
<1>3. PICK n \in 1..Min2(MaxPathLen, NodeCount - 1) : p \in [1..n -> Edges] /\ IsChain(p)
  BY <1>1 DEF Routes
<1>4. Len(p) = n /\ 1 \in DOMAIN p
  <2>1. n \in Nat \ {0}
    BY MapType, SizeAssumption DEF Min2
  <2> QED BY <1>2, <1>3, <2>1
<1>5. new.path = p /\ new.cur = start /\ new.target = TargetOf(me, msg)
  BY DEF Replanned, CarRecords
<1>6. LeadsFrom(p, 1, TargetOf(me, msg))
  BY <1>1, <1>3 DEF LeadsFrom, IsChain
<1> HIDE DEF new
<1>7. /\ new.path \in Seq(Edges) /\ 1 \in DOMAIN new.path /\ From(new.path[1]) = new.cur
      /\ LeadsFrom(new.path, 1, new.target)
  BY <1>1, <1>2, <1>4, <1>5, <1>6
<1>8. LeadsOn(new)
  BY <1>7, LastLegLeads
<1> QED BY <1>8 DEF new

(* A car that takes its leg still has a plan that leads on. *)
LEMMA AdvanceLeads ==
  ASSUME NEW me \in CarRecords, LeadsOn(me), me.cur # me.target, NEW i \in Legs(me)
  PROVE  LeadsOn([me EXCEPT !.last = me.cur, !.cur = To(me.path[i])])
<1> DEFINE p == me.path
           n == Len(p)
           new == [me EXCEPT !.last = me.cur, !.cur = To(p[i])]
<1>1. p \in Seq(Edges) /\ n \in Nat /\ DOMAIN p = 1..n /\ i \in 1..n
  BY DEF CarRecords, Legs
<1>2. new.path = p /\ new.target = me.target /\ new.cur = To(p[i])
  BY DEF CarRecords
<1>3. LeadsFrom(p, i, me.target)
  <2>1. p # <<>>
    BY <1>1
  <2>2. PICK k \in Legs(me) : LeadsFrom(p, k, me.target)
    BY <2>1 DEF LeadsOn, LeadsFrom
  <2>3. k \in 1..n /\ ~(k > i) /\ ~(i > k)
    BY <1>1 DEF Legs
  <2>4. k = i
    BY <1>1, <2>3
  <2> QED BY <2>2, <2>4
<1>4. CASE i = n
  <2>1. To(p[i]) = me.target
    BY <1>3, <1>4 DEF LeadsFrom, Last
  <2> QED BY <1>2, <2>1 DEF LeadsOn
<1>5. CASE i # n
  <2>1. i \in i..n - 1 /\ i + 1 \in DOMAIN p
    BY <1>1, <1>5
  <2>2. From(p[i + 1]) = To(p[i])
    BY <1>3, <2>1 DEF LeadsFrom
  <2>3. LeadsFrom(p, i + 1, me.target)
    <3>1. \A j \in i + 1..n - 1 : j \in i..n - 1
      BY <1>1
    <3> QED BY <1>3, <3>1 DEF LeadsFrom
  <2> HIDE DEF new
  <2>4. /\ new.path \in Seq(Edges) /\ i + 1 \in DOMAIN new.path
        /\ From(new.path[i + 1]) = new.cur /\ LeadsFrom(new.path, i + 1, new.target)
    BY <1>1, <1>2, <2>1, <2>2, <2>3
  <2>5. LeadsOn(new)
    BY <2>4, LastLegLeads
  <2> QED BY <2>5 DEF new
<1> QED BY <1>4, <1>5

(* Without path, nothing is said. *)
LEMMA NoPlanLeads == \A me : me.path = <<>> => LeadsOn(me)
  BY DEF LeadsOn

LEMMA InitLeadInv == Init => LeadInv
<1> SUFFICES ASSUME Init PROVE LeadInv
  OBVIOUS
<1>1. TypeOK
  BY InitTypeOK
<1>2. \A c \in Cars : car[c].path = <<>>
  BY DEF Init, NoCar
<1>3. PlanLeadsOn /\ RouteLeadsOn
  BY DEF Init, PlanIdle, RouteIdle, PlanLeadsOn, RouteLeadsOn
<1> QED BY <1>1, <1>2, <1>3, NoPlanLeads DEF LeadInv, PlanLeadsToTarget

(* The planner. *)
LEMMA PlanLeadInv == LeadInv /\ PlanStep => LeadInv'
<1> SUFFICES ASSUME LeadInv, PlanStep PROVE LeadInv'
  OBVIOUS
<1>0. /\ TypeOK /\ TypeOK' /\ PlanLeadsToTarget /\ PlanLeadsOn /\ RouteLeadsOn
      /\ plan.msg \in TaskMsgs /\ plan.msg.car \in Cars /\ plan \in PlanStates
      /\ car \in [Cars -> CarRecords]
  BY PlanTypeOK DEF LeadInv, TypeOK, PlanStates, TaskMsgs
<1>1. RouteLeadsOn'
  <2>1. route' = route
    BY DEF PlanStep, PlanTake, PlanAccept, PlanRefuse, PlanFail, PlanGiveUp, PlanUpdate,
           PlanScan, PlanFree, PlanFreePair, PlanCount, PlanAct
  <2> QED BY <1>0, <2>1 DEF RouteLeadsOn, OnItsLeg
<1>2. CASE PlanAccept
  <2> DEFINE me == car[plan.msg.car]
  <2>1. PICK start \in StartNodes(me, plan.msg, plan.edge) :
        \E p \in Answers(me, plan.msg, start) :
          plan' = [plan EXCEPT !.pc = "update", !.old = me,
                     !.new = Replanned(me, plan.msg, start, p),
                     !.edge = PlanIdle.edge, !.closed = {}]
    BY <1>2 DEF PlanAccept
  <2>2. PICK p \in Answers(me, plan.msg, start) :
          plan'.new = Replanned(me, plan.msg, start, p)
    BY <2>1, <1>0 DEF PlanStates
  <2>3. me \in CarRecords
    BY <1>0
  <2>4. LeadsOn(Replanned(me, plan.msg, start, p))
    BY <2>3, <1>0, ReplannedLeads
  <2>5. PlanLeadsOn'
    BY <2>2, <2>4 DEF PlanLeadsOn
  <2>6. PlanLeadsToTarget'
    BY <1>0, <1>2 DEF PlanAccept, PlanLeadsToTarget, shm
  <2> QED BY <1>0, <1>1, <2>5, <2>6 DEF LeadInv
<1>3. CASE PlanUpdate
  <2>1. LeadsOn(plan.new) /\ plan'.pc = "scan"
    BY <1>0, <1>3 DEF PlanUpdate, PlanLeadsOn, PlanStates
  <2>2. car' = [car EXCEPT ![plan.msg.car] = plan.new]
    BY <1>3 DEF PlanUpdate
  <2>3. PlanLeadsToTarget'
    BY <1>0, <2>1, <2>2 DEF PlanLeadsToTarget
  <2> QED BY <1>0, <1>1, <2>1, <2>3 DEF LeadInv, PlanLeadsOn
<1>4. CASE PlanTake \/ PlanRefuse \/ PlanFail \/ PlanGiveUp \/ PlanScan \/ PlanFree
           \/ PlanFreePair \/ PlanCount \/ PlanAct
  <2>1. car' = car
    BY <1>4 DEF PlanTake, PlanRefuse, PlanFail, PlanGiveUp, PlanScan, PlanFree, PlanFreePair,
                PlanCount, PlanAct, shm
  <2>2. plan'.pc # "update"
    BY <1>0, <1>4, PlanElsewhere
  <2> QED BY <1>0, <1>1, <2>1, <2>2 DEF LeadInv, PlanLeadsToTarget, PlanLeadsOn
<1> QED BY <1>2, <1>3, <1>4 DEF PlanStep

(* The router. *)
LEMMA RouteLeadInv == LeadInv /\ RouteStep => LeadInv'
<1> SUFFICES ASSUME LeadInv, RouteStep PROVE LeadInv'
  OBVIOUS
<1>0. /\ TypeOK /\ TypeOK' /\ PlanLeadsToTarget /\ PlanLeadsOn /\ RouteLeadsOn
      /\ car \in [Cars -> CarRecords] /\ route \in RouteStates
      /\ route.car \in Cars /\ route.rec \in CarRecords /\ route.eid \in Edges
  BY RouteTypeOK DEF LeadInv, TypeOK, RouteStates
<1>1. PlanLeadsOn'
  BY <1>0 DEF RouteStep, RouteTake, RouteOccupy, RouteOccupyPair, RoutePark, RouteTell,
              RouteOrient, RouteAdvance, PlanLeadsOn
<1>2. CASE RouteTake
  <2>1. Received(routeQ) \in Cars
    BY <1>0, <1>2, QueueType DEF RouteTake, TypeOK
  <2>2. LeadsOn(car[Received(routeQ)])
    BY <1>0, <2>1 DEF PlanLeadsToTarget
  <2>3. RouteLeadsOn'
    BY <1>2, <2>2 DEF RouteTake, RouteLeadsOn, OnItsLeg, RouteIdle
  <2> QED BY <1>0, <1>1, <1>2, <2>3 DEF LeadInv, RouteTake, PlanLeadsToTarget, shm
<1>3. CASE RoutePark
  <2> DEFINE parked == [route.rec EXCEPT !.status = "IDLE", !.path = <<>>,
                                         !.start = route.rec.cur]
  <2>1. parked.path = <<>> /\ route'.pc = "tell"
    BY <1>0, <1>3 DEF CarRecords, RoutePark, RouteStates
  <2>2. LeadsOn(parked)
    BY <2>1, NoPlanLeads
  <2>3. PlanLeadsToTarget'
    BY <1>0, <1>3, <2>2 DEF RoutePark, PlanLeadsToTarget
  <2> QED BY <1>0, <1>1, <2>1, <2>3 DEF LeadInv, RouteLeadsOn
<1>4. CASE RouteAdvance
  <2>1. OnItsLeg /\ LeadsOn(route.rec)
    BY <1>0, <1>4 DEF RouteAdvance, RouteLeadsOn
  <2> DEFINE moved == [route.rec EXCEPT !.last = route.rec.cur, !.cur = To(route.eid)]
  <2>2. LeadsOn(moved)
    BY <1>0, <2>1, AdvanceLeads DEF OnItsLeg
  <2>3. PlanLeadsToTarget'
    BY <1>0, <1>4, <2>2 DEF RouteAdvance, PlanLeadsToTarget
  <2>4. RouteLeadsOn'
    BY <1>4 DEF RouteAdvance, RouteLeadsOn, RouteIdle
  <2> QED BY <1>0, <1>1, <2>3, <2>4 DEF LeadInv
<1>5. CASE RouteOccupy \/ RouteOccupyPair \/ RouteTell \/ RouteOrient
  <2>1. car' = car
    BY <1>5 DEF RouteOccupy, RouteOccupyPair, RouteTell, RouteOrient, shm
  <2>2. RouteLeadsOn'
    <3>1. CASE RouteOrient
      <4>1. /\ route.pc = "orient" /\ route'.rec = route.rec /\ route'.eid = route.eid
        BY <1>0, <3>1 DEF RouteOrient, RouteStates
      <4> QED BY <1>0, <4>1 DEF RouteLeadsOn, OnItsLeg
    <3>2. CASE RouteOccupy \/ RouteOccupyPair \/ RouteTell
      <4>1. route'.pc \notin {"orient", "advance"}
        BY <1>0, <3>2 DEF RouteOccupy, RouteOccupyPair, RouteTell, RouteIdle, RouteStates
      <4> QED BY <4>1 DEF RouteLeadsOn
    <3> QED BY <1>5, <3>1, <3>2
  <2> QED BY <1>0, <1>1, <2>1, <2>2 DEF LeadInv, PlanLeadsToTarget
<1> QED BY <1>2, <1>3, <1>4, <1>5 DEF RouteStep

(* The subscriber: a car put down elsewhere loses its plan. *)
LEMMA SubLeadInv == LeadInv /\ SubStep => LeadInv'
<1> SUFFICES ASSUME LeadInv, SubStep PROVE LeadInv'
  OBVIOUS
<1>0. /\ TypeOK /\ TypeOK' /\ PlanLeadsToTarget /\ PlanLeadsOn /\ RouteLeadsOn
      /\ car \in [Cars -> CarRecords] /\ sub.rec \in CarRecords /\ sub.ev.car \in Cars
  BY SubTypeOK DEF LeadInv, TypeOK, SubStates, Events
<1>1. PlanLeadsOn' /\ RouteLeadsOn'
  <2>1. plan' = plan /\ route' = route
    BY DEF SubStep, SubArrive, SubRead, SubMark, SubMarkPair, SubConclude, SubScan, SubFree,
           SubFreePair, SubPlace
  <2> QED BY <1>0, <2>1 DEF PlanLeadsOn, RouteLeadsOn, OnItsLeg
<1>2. CASE SubPlace
  <2> DEFINE placed == [sub.rec EXCEPT !.last = sub.ev.arc[1], !.cur = sub.ev.arc[2],
                                       !.path = <<>>, !.status = "IDLE"]
  <2>1. placed.path = <<>>
    BY <1>0 DEF CarRecords
  <2>2. LeadsOn(placed)
    BY <2>1, NoPlanLeads
  <2>3. PlanLeadsToTarget'
    BY <1>0, <1>2, <2>2 DEF SubPlace, PlanLeadsToTarget
  <2> QED BY <1>0, <1>1, <2>3 DEF LeadInv
<1>3. CASE SubConclude
  <2>1. \A c \in Cars : /\ car'[c].cur = car[c].cur /\ car'[c].target = car[c].target
                        /\ car'[c].path = car[c].path
    BY <1>0, <1>3 DEF SubConclude, CarRecords
  <2>2. PlanLeadsToTarget'
    BY <1>0, <2>1 DEF PlanLeadsToTarget, LeadsOn, Legs
  <2> QED BY <1>0, <1>1, <2>2 DEF LeadInv
<1>4. CASE SubArrive \/ SubRead \/ SubMark \/ SubMarkPair \/ SubScan \/ SubFree \/ SubFreePair
  <2>1. car' = car
    BY <1>4 DEF SubArrive, SubRead, SubMark, SubMarkPair, SubScan, SubFree, SubFreePair, shm
  <2> QED BY <1>0, <1>1, <2>1 DEF LeadInv, PlanLeadsToTarget
<1> QED BY <1>2, <1>3, <1>4 DEF SubStep

(* Nobody else writes the cars or plans for them. *)
LEMMA OthersLeadInv ==
  LeadInv /\ (Asked \/ TopoStep \/ Publish \/ Lose \/ (\E c \in Cars : Drive(c) \/ World(c))
              \/ UNCHANGED vars) => LeadInv'
<1> SUFFICES ASSUME LeadInv,
                    Asked \/ TopoStep \/ Publish \/ Lose \/ (\E c \in Cars : Drive(c) \/ World(c))
                      \/ UNCHANGED vars
             PROVE  LeadInv'
  OBVIOUS
<1>1. TypeOK'
  BY AskedTypeOK, TopoTypeOK, PublishTypeOK, LoseTypeOK, CarTypeOK, StutterTypeOK DEF LeadInv
<1>2. UNCHANGED <<car, plan, route>>
  BY OthersKeepCars
<1> QED BY <1>1, <1>2 DEF LeadInv, PlanLeadsToTarget, PlanLeadsOn, RouteLeadsOn, OnItsLeg

(* A car that has a plan is on it, whatever planner, router and subscriber *)
(* overwrite of each other, and whatever the operator, the topology        *)
(* service, lost commands and full queues do meanwhile: the router finds   *)
(* the edge to take at every node before the target.                       *)
THEOREM PlansLeadToTargets == Spec => []PlanLeadsToTarget
<1>1. Init => LeadInv
  BY InitLeadInv
<1>2. LeadInv /\ [Next]_vars => LeadInv'
  BY PlanLeadInv, RouteLeadInv, SubLeadInv, OthersLeadInv DEF Next
<1>3. LeadInv => PlanLeadsToTarget
  BY DEF LeadInv
<1> QED BY <1>1, <1>2, <1>3, PTL DEF Spec
=============================================================================
