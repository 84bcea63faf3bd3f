------------------------------ MODULE Dispatch -------------------------------
(***************************************************************************)
(* Missions: the processes of master/ that share the map and the cars, the *)
(* message queues between them, and the cars they drive.                   *)
(*                                                                         *)
(*   http (Task.cpp, Topo.cpp) --taskQ--> planner --mqttQ--> publisher     *)
(*   car --events--> subscriber --routeQ--> router --mqttQ--> publisher    *)
(*                   subscriber --taskQ--> planner                         *)
(*                                                                         *)
(* An access to the shared memory is one step: Seqlock shows that, where   *)
(* its assumptions hold, a section behaves as an atomic register.  What a  *)
(* process does between two accesses or sends is part of the first; a      *)
(* snapshot is kept where a later step still uses it.  A route is any      *)
(* chain find_path may answer.                                             *)
(***************************************************************************)
EXTENDS RoadMap, PrioQueue

CONSTANTS
  Cars,          (* Car ids: indices of cars_ plus one.                     *)
  StartArc,      (* Per car: <<last_node_id, current_node_id>> of init_car. *)
  Targets,       (* Nodes the operator sends cars to.                       *)
  Requests,      (* The roads and nodes a topology request may list.        *)
  Places,        (* Roads a car may be put down on.                         *)
  TaskCap, RouteCap, MqttCap,   (* Capacities of the message queues.        *)
  Budget,        (* How often the outside world acts in a behaviour, per    *)
                 (* kind of act and, under "any", in all.                   *)
  Patient,       (* Does the operator wait until nothing is in flight?      *)
  Apart,         (* Does the operator send no two cars to one node?         *)
  MayTimeOut     (* Can a car's wait for a direction end before it comes?   *)

ActionKinds == {"task", "cancel", "topology", "reset", "obstacle", "place", "loss", "any"}
RequestLists == [edges : SUBSET Edges, nodes : SUBSET Nodes]

ASSUME CarsAssumption   == Cars # {} /\ StartArc \in [Cars -> Arcs]
ASSUME InputAssumption  == /\ Targets \subseteq Nodes /\ Places \subseteq Arcs
                           /\ Requests \subseteq RequestLists
ASSUME CapAssumption    == TaskCap \in Nat /\ RouteCap \in Nat /\ MqttCap \in Nat
ASSUME BudgetAssumption == Budget \in [ActionKinds -> Nat]
ASSUME SwitchAssumption == {Patient, Apart, MayTimeOut} \subseteq BOOLEAN

VARIABLES
  edge,      (* map.edges_[e-1].status.                                     *)
  closed,    (* Nodes whose status is FAULT.                                *)
  car,       (* cars.cars_: the Car records.                                *)
  taskQ,     (* /mq_task_dispatch.                                          *)
  routeQ,    (* /mq_route_exert: car ids.                                   *)
  mqttQ,     (* /mq_mqtt_publish.                                           *)
  events,    (* MQTT messages from the cars to the subscriber, in order.    *)
  plan,      (* Local state of the planner.                                 *)
  route,     (* Local state of the router.                                  *)
  sub,       (* Local state of the subscriber.                              *)
  topo,      (* Local state of the topology service.                        *)
  bot,       (* The cars themselves (peripheral/).                          *)
  budget     (* What is left of Budget.                                     *)

shm  == <<edge, closed, car>>
mqs  == <<taskQ, routeQ, mqttQ>>
vars == <<shm, mqs, events, plan, route, sub, topo, bot, budget>>

-----------------------------------------------------------------------------
(* Data *)

EdgeStatuses == {"IDLE", "OCCUPIED", "BLOCKED", "FAULT_TEMP", "FAULT_REPAIR"}
CarStatuses  == {"IDLE", "MOVING", "WAIT"}   (* FAULT, OFFLINE: never set.  *)

(* Field target is 0 until the first mission; start is last_start_node_id. *)
CarRecords == [status : CarStatuses, last : Nodes, cur : Nodes,
               target : Nodes \cup {0}, start : Nodes, path : Seq(Edges)]

Strategies == {"kNormal", "kImme", "kUturn", "kUturnNoCross"}
TaskMsgs == [action : {"kAssign", "kCancel", "kReplan"}, car : Cars,
             target : Nodes \cup {0}, imm : Strategies]
Replan(c, imm) == [action |-> "kReplan", car |-> c, target |-> 0, imm |-> imm]
CancelOf(c, imm) == [action |-> "kCancel", car |-> c, target |-> 0, imm |-> imm]
AssignTo(c, t) == [action |-> "kAssign", car |-> c, target |-> t, imm |-> "kImme"]

MqttMsgs == [type : {"ORIENT"}, car : Cars, param : TurnNames \cup {"ARRIVED"}]
       \cup [type : {"ACTION"}, car : Cars, param : {"PAUSE", "PROCESS", "UTURN"}]
       \cup [type : {"CNT"}, car : Cars, param : Nat]

(* temp: a label of AGC_TMP_OBSTACLE; past: "y" before the label; arc: the *)
(* two numbers of a POSITION.  A field a type does not use is constant.    *)
Events == [type : {"ARRIVE", "OBSTACLE", "REPAIRED", "POSITION"}, car : Cars,
           temp : BOOLEAN, past : BOOLEAN, arc : Arcs]
Event(type, c) == [type |-> type, car |-> c, temp |-> FALSE, past |-> FALSE,
                   arc |-> StartArc[c]]

SetEdge(e, s) == edge' = [edge EXCEPT ![e] = s]

(* The loop over adj_[from - 1]: at most one edge joins two nodes. *)
EdgeOfArc(u, v) == CHOOSE e \in Edges : Arc(e) = <<u, v>>
HasEdge(u, v) == \E e \in Edges : Arc(e) = <<u, v>>

SendTask(p, m)  == taskQ' = Sent(taskQ, TaskCap, p, m)
SendMqtt(p, m)  == mqttQ' = Sent(mqttQ, MqttCap, p, m)
SendRoute(c)    == routeQ' = Sent(routeQ, RouteCap, "kPrioNormal", c)

NoCar == [status |-> "IDLE", last |-> 1, cur |-> 1, target |-> 0, start |-> 1,
          path |-> <<>>]
SomeCar == CHOOSE c \in Cars : TRUE

PlanIdle == [pc |-> "idle", msg |-> Replan(SomeCar, "kNormal"),
             edge |-> [e \in Edges |-> "IDLE"], closed |-> {},
             old |-> NoCar, new |-> NoCar, eid |-> 1]
RouteIdle == [pc |-> "idle", car |-> SomeCar, rec |-> NoCar, eid |-> 1]
SubIdle == [pc |-> "idle", ev |-> Event("ARRIVE", SomeCar), rec |-> NoCar, eid |-> 1]
TopoIdle == [pc |-> "idle", status |-> "IDLE", edges |-> {}, nodes |-> {}, eid |-> 1,
             todo |-> {}]

(* The table of init_map: the roads the cars start on are occupied. *)
FreshEdges == [e \in Edges |-> IF \E c \in Cars : StartArc[c] \in {Arc(e), Arc(Pair(e))}
                               THEN "OCCUPIED" ELSE "IDLE"]

Init ==
  /\ edge = FreshEdges
  /\ closed = {}
  /\ car = [c \in Cars |-> [NoCar EXCEPT !.last = StartArc[c][1], !.cur = StartArc[c][2],
                                         !.start = StartArc[c][1]]]
  /\ taskQ = EmptyQueue /\ routeQ = EmptyQueue /\ mqttQ = EmptyQueue
  /\ events = <<>>
  /\ plan = PlanIdle /\ route = RouteIdle /\ sub = SubIdle /\ topo = TopoIdle
  /\ bot = [c \in Cars |-> [mode |-> "idle", orient |-> "none", num |-> 0, count |-> 0,
                            dog |-> FALSE, at |-> StartArc[c]]]
  /\ budget = Budget

-----------------------------------------------------------------------------
(* The outside world asks: the FastCGI services *)

Spend(kind) == /\ budget[kind] > 0 /\ budget["any"] > 0
               /\ budget' = [budget EXCEPT ![kind] = @ - 1, !["any"] = @ - 1]

Held(q) == UNION {{q[p][i] : i \in DOMAIN q[p]} : p \in Prios}

(* Nothing that concerns car c is in flight. *)
Settled(c) ==
  /\ \A m \in Held(taskQ) \cup Held(mqttQ) : m.car # c
  /\ c \notin Held(routeQ)
  /\ \A i \in DOMAIN events : events[i].car # c
  /\ plan.pc = "idle" \/ plan.msg.car # c
  /\ route.pc = "idle" \/ route.car # c
  /\ sub.pc = "idle" \/ sub.ev.car # c
  /\ topo.pc \in {"idle", "notify"} /\ c \notin topo.todo

Standing(c) == bot[c].mode \in {"idle", "paused", "stopped"}

MayAsk(c) == Patient => Settled(c) /\ Standing(c)

(* Another car is sent to t, or stands there. *)
Reserved(t, c) ==
  \E d \in Cars \ {c} : \/ car[d].target = t \/ AssignTo(d, t) \in Held(taskQ)
                        \/ plan.pc # "idle" /\ plan.msg = AssignTo(d, t)

Assign(c, t) ==
  /\ MayAsk(c) /\ (Apart => ~Reserved(t, c)) /\ Spend("task")
  /\ SendTask("kPrioNormal", AssignTo(c, t))
  /\ UNCHANGED <<shm, routeQ, mqttQ, events, plan, route, sub, topo, bot>>

Cancel(c) ==
  /\ MayAsk(c) /\ Spend("cancel")
  /\ SendTask("kPrioHigh", CancelOf(c, "kNormal"))
  /\ UNCHANGED <<shm, routeQ, mqttQ, events, plan, route, sub, topo, bot>>

(* ban, access or repair of a list of roads and, but for repair, of nodes. *)
TopoAsk(status, ask) ==
  /\ topo.pc = "idle" /\ Spend("topology") /\ \A c \in Cars : MayAsk(c)
  /\ topo' = [TopoIdle EXCEPT !.pc = "lists", !.status = status, !.edges = ask.edges,
                !.nodes = IF status = "FAULT_REPAIR" THEN {} ELSE ask.nodes]
  /\ UNCHANGED <<shm, mqs, events, plan, route, sub, bot>>

(* The id is looked up in bipaths as if it were an index: only the first   *)
(* edge of a pair finds the other one, and repair does not look.           *)
TopoEdge(e) ==
  /\ topo.pc = "lists" /\ e \in topo.edges
  /\ SetEdge(e, topo.status)
  /\ topo' = [topo EXCEPT !.edges = @ \ {e}, !.eid = e,
                !.pc = IF topo.status # "FAULT_REPAIR" /\ e <= Len(Roads) THEN "pair" ELSE @]
  /\ UNCHANGED <<closed, car, mqs, events, plan, route, sub, bot, budget>>

TopoPair ==
  /\ topo.pc = "pair"
  /\ SetEdge(Pair(topo.eid), topo.status)
  /\ topo' = [topo EXCEPT !.pc = "lists"]
  /\ UNCHANGED <<closed, car, mqs, events, plan, route, sub, bot, budget>>

TopoNode(n) ==
  /\ topo.pc = "lists" /\ topo.edges = {} /\ n \in topo.nodes
  /\ closed' = IF topo.status = "BLOCKED" THEN closed \cup {n} ELSE closed \ {n}
  /\ topo' = [topo EXCEPT !.nodes = @ \ {n}]
  /\ UNCHANGED <<edge, car, mqs, events, plan, route, sub, bot, budget>>

(* trigger_replan_all: a snapshot of the cars, then one message for each. *)
TopoCars ==
  /\ topo.pc = "lists" /\ topo.edges = {} /\ topo.nodes = {}
  /\ LET busy == {c \in Cars : car[c].status \in {"MOVING", "WAIT"}}
     IN topo' = IF busy = {} THEN TopoIdle
                ELSE [TopoIdle EXCEPT !.pc = "notify", !.todo = busy]
  /\ UNCHANGED <<shm, mqs, events, plan, route, sub, bot, budget>>

TopoNotify(c) ==
  /\ topo.pc = "notify" /\ c \in topo.todo
  /\ SendTask("kPrioHigh", Replan(c, "kNormal"))
  /\ topo' = IF topo.todo = {c} THEN TopoIdle ELSE [topo EXCEPT !.todo = @ \ {c}]
  /\ UNCHANGED <<shm, routeQ, mqttQ, events, plan, route, sub, bot, budget>>

(* reset_shm_map: the tables are written again, the cars are not. *)
ResetMap ==
  /\ Spend("reset")
  /\ edge' = FreshEdges /\ closed' = {}
  /\ UNCHANGED <<car, mqs, events, plan, route, sub, topo, bot>>

-----------------------------------------------------------------------------
(* Planner: handle_task *)

PlanTake ==
  /\ plan.pc = "idle" /\ HasMessage(taskQ)
  /\ taskQ' = Remaining(taskQ)
  /\ plan' = [plan EXCEPT !.pc = "cars", !.msg = Received(taskQ),
                          !.edge = edge, !.closed = closed]
  /\ UNCHANGED <<shm, routeQ, mqttQ, events, route, sub, topo, bot, budget>>

TargetOf(me, msg) == CASE msg.action = "kReplan" -> me.target
                       [] msg.action = "kCancel" -> me.start
                       [] OTHER -> msg.target

(* A car that turns around before the threshold rolls back over the node   *)
(* it came from, straight on to the next one: the road to it must be idle. *)
ReverseNodes(me, status) ==
  {To(e) : e \in {x \in Edges : /\ From(x) = me.last /\ Usable(x)
                                /\ To(x) # me.cur /\ status[x] = "IDLE"
                                /\ JudRev(me.last, me.cur, To(x))}}

StartNodes(me, msg, status) ==
  CASE msg.imm = "kUturnNoCross" -> {me.last}
    [] msg.imm = "kUturn"        -> ReverseNodes(me, status)
    [] OTHER                     -> {me.cur}

(* The car's own edge is no obstacle to itself. *)
WithoutOwn(me, status) ==
  LET own == {e \in EdgesOn(me.last, me.cur) : Usable(e) /\ status[e] = "OCCUPIED"}
      rev == {e \in EdgesOn(me.cur, me.last) : Usable(e) /\ status[e] = "OCCUPIED"}
  IN [e \in Edges |-> IF own # {} /\ e \in own \cup rev THEN "IDLE" ELSE status[e]]

Answers(me, msg, start) ==
  RoutesBetween(start, TargetOf(me, msg), WithoutOwn(me, plan.edge), plan.closed)

(* Definitions named Mut... are mutants: plausible mistakes in the one that *)
(* follows them, which the properties must notice.                         *)

(* A replan or cancel that forgets to write the target. *)
MutReplannedTarget(me, msg, start, p) ==
  [me EXCEPT !.last = IF msg.imm = "kUturnNoCross" THEN me.cur ELSE me.last,
             !.cur = start, !.path = p, !.status = "MOVING"]

Replanned(me, msg, start, p) ==
  [me EXCEPT !.last = IF msg.imm = "kUturnNoCross" THEN me.cur ELSE me.last,
             !.cur = start, !.target = TargetOf(me, msg), !.path = p,
             !.status = "MOVING"]

(* The car is told to go before its record is written. *)
MutPlanAccept ==
  /\ plan.pc = "cars"
  /\ LET me == car[plan.msg.car]
     IN \E start \in StartNodes(me, plan.msg, plan.edge) :
        \E p \in Answers(me, plan.msg, start) :
          plan' = [plan EXCEPT !.pc = "update", !.old = me,
                               !.new = Replanned(me, plan.msg, start, p),
                               !.edge = PlanIdle.edge, !.closed = {}]
  /\ SendMqtt("kPrioHigh", [type |-> "ACTION", car |-> plan.msg.car, param |-> "PROCESS"])
  /\ UNCHANGED <<shm, taskQ, routeQ, events, route, sub, topo, bot, budget>>

(* The cars are read after the map. *)
PlanAccept ==
  /\ plan.pc = "cars"
  /\ LET me == car[plan.msg.car]
     IN \E start \in StartNodes(me, plan.msg, plan.edge) :
        \E p \in Answers(me, plan.msg, start) :
          plan' = [plan EXCEPT !.pc = "update", !.old = me,
                               !.new = Replanned(me, plan.msg, start, p),
                               !.edge = PlanIdle.edge, !.closed = {}]
  /\ UNCHANGED <<shm, mqs, events, route, sub, topo, bot, budget>>

(* No way to turn around, whatever is asked; or no route for a new task. *)
PlanRefuse ==
  /\ plan.pc = "cars"
  /\ LET me == car[plan.msg.car]
         starts == StartNodes(me, plan.msg, plan.edge)
     IN \/ starts = {}
        \/ /\ plan.msg.action = "kAssign"
           /\ \E start \in starts : Answers(me, plan.msg, start) = {}
  /\ plan' = PlanIdle
  /\ UNCHANGED <<shm, mqs, events, route, sub, topo, bot, budget>>

(* No route for a cancel stops the car; none for a replan cancels. *)
PlanFail ==
  /\ plan.pc = "cars" /\ plan.msg.action # "kAssign"
  /\ LET me == car[plan.msg.car]
     IN \E start \in StartNodes(me, plan.msg, plan.edge) : Answers(me, plan.msg, start) = {}
  /\ plan' = [plan EXCEPT !.pc = "fail", !.edge = PlanIdle.edge, !.closed = {}]
  /\ UNCHANGED <<shm, mqs, events, route, sub, topo, bot, budget>>

PlanGiveUp ==
  /\ plan.pc = "fail"
  /\ LET c == plan.msg.car
     IN \/ /\ plan.msg.action = "kCancel"
           /\ SendMqtt("kPrioHigh", [type |-> "ACTION", car |-> c, param |-> "PAUSE"])
           /\ UNCHANGED taskQ
        \/ /\ plan.msg.action = "kReplan"
           /\ SendTask("kPrioHigh", CancelOf(c, plan.msg.imm))
           /\ UNCHANGED mqttQ
  /\ plan' = PlanIdle
  /\ UNCHANGED <<shm, routeQ, events, route, sub, topo, bot, budget>>

PlanUpdate ==
  /\ plan.pc = "update"
  /\ car' = [car EXCEPT ![plan.msg.car] = plan.new]
  /\ plan' = [plan EXCEPT !.pc = "scan"]
  /\ UNCHANGED <<edge, closed, mqs, events, route, sub, topo, bot, budget>>

(* Where the car stood is free again: the map is read a second time. *)
PlanScan ==
  /\ plan.pc = "scan"
  /\ LET held == {e \in EdgesOn(plan.old.last, plan.old.cur) : edge[e] = "OCCUPIED"}
     IN \/ /\ held = {} /\ plan' = [plan EXCEPT !.pc = "count"]
        \/ \E e \in held : plan' = [plan EXCEPT !.pc = "free", !.eid = e]
  /\ UNCHANGED <<shm, mqs, events, route, sub, topo, bot, budget>>

PlanFree ==
  /\ plan.pc = "free"
  /\ SetEdge(plan.eid, "IDLE")
  /\ plan' = [plan EXCEPT !.pc = "freePair"]
  /\ UNCHANGED <<closed, car, mqs, events, route, sub, topo, bot, budget>>

(* The opposite edge is left occupied. *)
MutPlanFreePair ==
  /\ plan.pc = "freePair"
  /\ plan' = [plan EXCEPT !.pc = "count"]
  /\ UNCHANGED <<shm, mqs, events, route, sub, topo, bot, budget>>

PlanFreePair ==
  /\ plan.pc = "freePair"
  /\ SetEdge(Pair(plan.eid), "IDLE")
  /\ plan' = [plan EXCEPT !.pc = "count"]
  /\ UNCHANGED <<closed, car, mqs, events, route, sub, topo, bot, budget>>

(* No strategy sends an action after the count. *)
MutPlanCountOnly ==
  /\ plan.pc = "count"
  /\ SendMqtt("kPrioHigh", [type |-> "CNT", car |-> plan.msg.car,
                            param |-> Len(plan.new.path)])
  /\ plan' = PlanIdle
  /\ UNCHANGED <<shm, taskQ, routeQ, events, route, sub, topo, bot, budget>>

(* The count of the nodes between, not of the roads. *)
MutPlanCountShort ==
  /\ plan.pc = "count"
  /\ SendMqtt("kPrioHigh", [type |-> "CNT", car |-> plan.msg.car,
                            param |-> Len(plan.new.path) - 1])
  /\ plan' = IF plan.msg.imm = "kNormal" THEN PlanIdle ELSE [plan EXCEPT !.pc = "act"]
  /\ UNCHANGED <<shm, taskQ, routeQ, events, route, sub, topo, bot, budget>>

PlanCount ==
  /\ plan.pc = "count"
  /\ SendMqtt("kPrioHigh", [type |-> "CNT", car |-> plan.msg.car,
                            param |-> Len(plan.new.path)])
  /\ plan' = IF plan.msg.imm = "kNormal" THEN PlanIdle ELSE [plan EXCEPT !.pc = "act"]
  /\ UNCHANGED <<shm, taskQ, routeQ, events, route, sub, topo, bot, budget>>

PlanAct ==
  /\ plan.pc = "act"
  /\ SendMqtt("kPrioHigh", [type |-> "ACTION", car |-> plan.msg.car,
                            param |-> IF plan.msg.imm = "kImme" THEN "PROCESS" ELSE "UTURN"])
  /\ plan' = PlanIdle
  /\ UNCHANGED <<shm, taskQ, routeQ, events, route, sub, topo, bot, budget>>

-----------------------------------------------------------------------------
(* Router: handle_task.  It uses the map for what never changes. *)

(* The first edge of the plan instead of the last. *)
MutLastEdge(me) == IF me.path = <<>> THEN me.start ELSE Head(me.path)

(* path_stack[path_len - 1]; when path_len is 0 that is the 16-bit word    *)
(* before path_stack, whose low byte is last_start_node_id.                *)
LastEdge(me) == IF me.path = <<>> THEN me.start ELSE Last(me.path)

(* The scan from the end of path_stack for an edge that leaves cur. *)
Legs(me) == {i \in DOMAIN me.path : /\ From(me.path[i]) = me.cur
                                    /\ \A j \in DOMAIN me.path :
                                         j > i => From(me.path[j]) # me.cur}

RouteTake ==
  /\ route.pc = "idle" /\ HasMessage(routeQ)
  /\ routeQ' = Remaining(routeQ)
  /\ LET c  == Received(routeQ)
         me == car[c]
     IN \/ /\ me.cur = me.target
           /\ route' = [pc |-> "occupy", car |-> c, rec |-> me, eid |-> LastEdge(me)]
        \/ /\ me.cur # me.target
           /\ \E i \in Legs(me) :
                route' = [pc |-> "orient", car |-> c, rec |-> me, eid |-> me.path[i]]
        \/ /\ me.cur # me.target /\ Legs(me) = {}
           /\ route' = RouteIdle
  /\ UNCHANGED <<shm, taskQ, mqttQ, events, plan, sub, topo, bot, budget>>

RouteOccupy ==
  /\ route.pc = "occupy"
  /\ SetEdge(route.eid, "OCCUPIED")
  /\ route' = [route EXCEPT !.pc = "occupyPair"]
  /\ UNCHANGED <<closed, car, mqs, events, plan, sub, topo, bot, budget>>

RouteOccupyPair ==
  /\ route.pc = "occupyPair"
  /\ SetEdge(Pair(route.eid), "OCCUPIED")
  /\ route' = [route EXCEPT !.pc = "park"]
  /\ UNCHANGED <<closed, car, mqs, events, plan, sub, topo, bot, budget>>

RoutePark ==
  /\ route.pc = "park"
  /\ car' = [car EXCEPT ![route.car] = [route.rec EXCEPT !.status = "IDLE", !.path = <<>>,
                                                         !.start = route.rec.cur]]
  /\ route' = [route EXCEPT !.pc = "tell"]
  /\ UNCHANGED <<edge, closed, mqs, events, plan, sub, topo, bot, budget>>

(* The only message of the router without kPrioHigh. *)
RouteTell ==
  /\ route.pc = "tell"
  /\ SendMqtt("kPrioNormal", [type |-> "ORIENT", car |-> route.car, param |-> "ARRIVED"])
  /\ route' = RouteIdle
  /\ UNCHANGED <<shm, taskQ, routeQ, events, plan, sub, topo, bot, budget>>

(* The turn is computed for the target instead of the next node. *)
MutRouteOrient ==
  /\ route.pc = "orient"
  /\ SendMqtt("kPrioHigh", [type |-> "ORIENT", car |-> route.car,
                            param |-> Turn(route.rec.last, route.rec.cur, route.rec.target)])
  /\ route' = [route EXCEPT !.pc = "advance"]
  /\ UNCHANGED <<shm, taskQ, routeQ, events, plan, sub, topo, bot, budget>>

RouteOrient ==
  /\ route.pc = "orient"
  /\ SendMqtt("kPrioHigh", [type |-> "ORIENT", car |-> route.car,
                            param |-> Turn(route.rec.last, route.rec.cur, To(route.eid))])
  /\ route' = [route EXCEPT !.pc = "advance"]
  /\ UNCHANGED <<shm, taskQ, routeQ, events, plan, sub, topo, bot, budget>>

(* The id of the edge is written where that of its node belongs. *)
MutRouteAdvanceId ==
  /\ route.pc = "advance"
  /\ car' = [car EXCEPT ![route.car] = [route.rec EXCEPT !.last = route.rec.cur,
                                                         !.cur = route.eid]]
  /\ route' = RouteIdle
  /\ UNCHANGED <<edge, closed, mqs, events, plan, sub, topo, bot, budget>>

(* The node behind the car is forgotten. *)
MutRouteAdvanceLast ==
  /\ route.pc = "advance"
  /\ car' = [car EXCEPT ![route.car] = [route.rec EXCEPT !.cur = To(route.eid)]]
  /\ route' = RouteIdle
  /\ UNCHANGED <<edge, closed, mqs, events, plan, sub, topo, bot, budget>>

RouteAdvance ==
  /\ route.pc = "advance"
  /\ car' = [car EXCEPT ![route.car] = [route.rec EXCEPT !.last = route.rec.cur,
                                                         !.cur = To(route.eid)]]
  /\ route' = RouteIdle
  /\ UNCHANGED <<edge, closed, mqs, events, plan, sub, topo, bot, budget>>

-----------------------------------------------------------------------------
(* Subscriber: dispatch *)

TakeEvent == events # <<>> /\ events' = Tail(events)

SubArrive ==
  /\ sub.pc = "idle" /\ TakeEvent /\ Head(events).type = "ARRIVE"
  /\ SendRoute(Head(events).car)
  /\ UNCHANGED <<shm, taskQ, mqttQ, plan, route, sub, topo, bot, budget>>

SubRead ==
  /\ sub.pc = "idle" /\ TakeEvent /\ Head(events).type # "ARRIVE"
  /\ LET ev == Head(events)
         me == car[ev.car]
     IN sub' = [sub EXCEPT !.ev = ev, !.rec = me,
                           !.pc = CASE ev.type = "POSITION" -> "scan"
                                    [] ev.type # "POSITION" /\ HasEdge(me.last, me.cur) -> "mark"
                                    [] OTHER -> "conclude",
                           !.eid = IF HasEdge(me.last, me.cur)
                                   THEN EdgeOfArc(me.last, me.cur) ELSE @]
  /\ UNCHANGED <<shm, mqs, plan, route, topo, bot, budget>>

(* alter_edges_status *)
MarkOf(ev) == IF ev.type = "REPAIRED" THEN "IDLE"
              ELSE IF ev.temp THEN "FAULT_TEMP" ELSE "FAULT_REPAIR"

SubMark ==
  /\ sub.pc = "mark"
  /\ SetEdge(sub.eid, MarkOf(sub.ev))
  /\ sub' = [sub EXCEPT !.pc = "markPair"]
  /\ UNCHANGED <<closed, car, mqs, events, plan, route, topo, bot, budget>>

SubMarkPair ==
  /\ sub.pc = "markPair"
  /\ SetEdge(Pair(sub.eid), MarkOf(sub.ev))
  /\ sub' = [sub EXCEPT !.pc = "conclude"]
  /\ UNCHANGED <<closed, car, mqs, events, plan, route, topo, bot, budget>>

(* A lasting obstacle asks for another route; a passing one, and its end,  *)
(* only change the status.                                                 *)
SubConclude ==
  /\ sub.pc = "conclude"
  /\ LET ev == sub.ev
     IN \/ /\ ev.type = "OBSTACLE" /\ ~ev.temp
           /\ SendTask("kPrioNormal",
                       Replan(ev.car, IF ev.past THEN "kUturnNoCross" ELSE "kUturn"))
           /\ UNCHANGED car
        \/ /\ ev.type = "REPAIRED" \/ ev.temp
           /\ car' = [car EXCEPT ![ev.car].status =
                                   IF ev.type = "REPAIRED" THEN "MOVING" ELSE "WAIT"]
           /\ UNCHANGED taskQ
  /\ sub' = SubIdle
  /\ UNCHANGED <<edge, closed, routeQ, mqttQ, events, plan, route, topo, bot, budget>>

SubScan ==
  /\ sub.pc = "scan"
  /\ LET held == {e \in EdgesOn(sub.rec.last, sub.rec.cur) : edge[e] = "OCCUPIED"}
     IN \/ /\ held = {} /\ sub' = [sub EXCEPT !.pc = "place"]
        \/ \E e \in held : sub' = [sub EXCEPT !.pc = "free", !.eid = e]
  /\ UNCHANGED <<shm, mqs, events, plan, route, topo, bot, budget>>

SubFree ==
  /\ sub.pc = "free"
  /\ SetEdge(sub.eid, "IDLE")
  /\ sub' = [sub EXCEPT !.pc = "freePair"]
  /\ UNCHANGED <<closed, car, mqs, events, plan, route, topo, bot, budget>>

SubFreePair ==
  /\ sub.pc = "freePair"
  /\ SetEdge(Pair(sub.eid), "IDLE")
  /\ sub' = [sub EXCEPT !.pc = "place"]
  /\ UNCHANGED <<closed, car, mqs, events, plan, route, topo, bot, budget>>

SubPlace ==
  /\ sub.pc = "place"
  /\ car' = [car EXCEPT ![sub.ev.car] =
               [sub.rec EXCEPT !.last = sub.ev.arc[1], !.cur = sub.ev.arc[2],
                               !.path = <<>>, !.status = "IDLE"]]
  /\ sub' = SubIdle
  /\ UNCHANGED <<edge, closed, mqs, events, plan, route, topo, bot, budget>>

-----------------------------------------------------------------------------
(* Publisher and cars.  A car is reduced to what the missions see of it:   *)
(*   idle      STATE_IDLE on the road                                      *)
(*   follow    STATE_FOLLOW or STATE_TURN                                  *)
(*   approach  from a node's marker to the decision                        *)
(*   paused    STATE_IDLE while juncPhase is still JUNCTION_APPROACH       *)
(*   stopped   STATE_IDLE on a marker, juncPhase reset to JUNCTION_NONE    *)
(*   lost      off the roads                                               *)
(* and "at", the road it is really on: <<node behind, node ahead>>.  That  *)
(* an obstacle still in view stops a resumed car once more, unreported, is *)
(* in CarControl only.                                                     *)

Ahead(at, turn) == {n \in Nodes : <<at[2], n>> \in Arcs /\ Turn(at[1], at[2], n) = turn}

(* Where a car may be after ACTION UTURN: on its way back, or across the   *)
(* node behind it if that was near.                                        *)
Back(at) == {<<at[2], at[1]>>} \cup {<<at[1], n>> : n \in Ahead(<<at[2], at[1]>>, "STRAIGHT")}

Counting(b, n) == [b EXCEPT !.num = n, !.count = 0]
Directed(b, turn) == [b EXCEPT !.orient = turn]

(* A car that has counted all its roads stops by itself. *)
OverCount(b) == b.num # 0 /\ b.count >= b.num + 1
CountedOut(b, mode) == [b EXCEPT !.mode = mode, !.count = 0, !.orient = "none"]
SetOff(b) == IF OverCount(b) THEN CountedOut(b, "idle") ELSE [b EXCEPT !.mode = "follow"]

Halted(b)  == [b EXCEPT !.mode = IF @ = "follow" THEN "idle"
                                 ELSE IF @ = "approach" THEN "paused" ELSE @]
Resumed(b) == CASE b.mode = "idle"    -> SetOff(b)
                [] b.mode = "paused"  -> [b EXCEPT !.mode = "approach"]
                [] b.mode = "stopped" -> [b EXCEPT !.mode = "follow"]
                [] OTHER              -> b
Turned(b, a) == [SetOff(b) EXCEPT !.at = a]

Obeyed(b, action) == CASE action = "PAUSE"   -> {Halted(b)}
                       [] action = "PROCESS" -> {Resumed(b)}
                       [] action = "UTURN"   -> {Turned(b, a) : a \in Back(b.at)}

After(b, m) == CASE m.type = "CNT"    -> {Counting(b, m.param)}
                 [] m.type = "ORIENT" -> {Directed(b, m.param)}
                 [] m.type = "ACTION" -> Obeyed(b, m.param)

Becomes(c, b) == bot' = [bot EXCEPT ![c] = b]

Publish ==
  /\ HasMessage(mqttQ) /\ mqttQ' = Remaining(mqttQ)
  /\ LET m == Received(mqttQ)
     IN \E b \in After(bot[m.car], m) : Becomes(m.car, b)
  /\ UNCHANGED <<shm, taskQ, routeQ, events, plan, route, sub, topo, budget>>

(* Without connection, or when mosquitto_publish fails, a command is dropped. *)
Lose ==
  /\ Spend("loss") /\ HasMessage(mqttQ) /\ mqttQ' = Remaining(mqttQ)
  /\ UNCHANGED <<shm, taskQ, routeQ, events, plan, route, sub, topo, bot>>

Report(ev) == events' = Append(events, ev)

(* The marker's rising edge: any direction received before it is void. *)
Entered(b) == [b EXCEPT !.mode = "approach", !.orient = "none", !.count = @ + 1]

ReachNode(c) ==
  /\ bot[c].mode = "follow"
  /\ Report(Event("ARRIVE", c))
  /\ LET b == Entered(bot[c])
     IN Becomes(c, IF OverCount(b) THEN CountedOut(b, "stopped") ELSE b)
  /\ UNCHANGED <<shm, mqs, plan, route, sub, topo, budget>>

(* executeOrientDecision; a turn no road answers to leaves the car lost. *)
Decide(c) ==
  /\ bot[c].mode = "approach" /\ bot[c].orient # "none"
  /\ \/ /\ bot[c].orient = "ARRIVED"
        /\ Becomes(c, [bot[c] EXCEPT !.mode = "paused", !.orient = "none"])
     \/ \E n \in Ahead(bot[c].at, bot[c].orient) :
          Becomes(c, [bot[c] EXCEPT !.mode = "follow", !.orient = "none",
                                    !.at = <<@[2], n>>])
     \/ /\ bot[c].orient # "ARRIVED" /\ Ahead(bot[c].at, bot[c].orient) = {}
        /\ Becomes(c, [bot[c] EXCEPT !.mode = "lost", !.orient = "none"])
  /\ UNCHANGED <<shm, mqs, events, plan, route, sub, topo, budget>>

(* STATE_WAIT_COMMAND ends after COMMAND_WAIT_TIMEOUT_MS without ORIENT. *)
TimeOut(c) ==
  /\ MayTimeOut /\ bot[c].mode = "approach" /\ bot[c].orient = "none"
  /\ Becomes(c, [bot[c] EXCEPT !.mode = "paused"])
  /\ UNCHANGED <<shm, mqs, events, plan, route, sub, topo, budget>>

(* handleObstacleStop: only a passing obstacle is awaited. *)
StoppedBy(b, temp, mode) == [b EXCEPT !.mode = mode, !.dog = @ \/ temp, !.orient = "none"]

(* An obstacle at a node's marker stops the car there, reported or not: the *)
(* report of the node goes first, and a direction that is there is void.   *)
ObstacleAtMark(c, temp) ==
  LET seen == [Event("OBSTACLE", c) EXCEPT !.temp = temp]
  IN \/ /\ bot[c].mode = "follow"
        /\ events' = events \o <<Event("ARRIVE", c), seen>>
        /\ Becomes(c, StoppedBy(Entered(bot[c]), temp, "stopped"))
     \/ /\ bot[c].mode = "approach"
        /\ Report(seen)
        /\ Becomes(c, StoppedBy(bot[c], temp, "stopped"))

(* One between marker and decision counts if the car is told to go straight *)
(* on, and stops it behind the node.                                       *)
ObstacleInJunction(c, temp) ==
  /\ bot[c].mode = "approach" /\ bot[c].orient = "STRAIGHT"
  /\ Report([Event("OBSTACLE", c) EXCEPT !.temp = temp, !.past = TRUE])
  /\ \E n \in Ahead(bot[c].at, "STRAIGHT") :
       Becomes(c, [StoppedBy(bot[c], temp, "idle") EXCEPT !.at = <<@[2], n>>])

(* A direction kept since before this road is void at the next marker. *)
ObstacleOnRoad(c, temp) ==
  /\ bot[c].mode = "follow"
  /\ Report([Event("OBSTACLE", c) EXCEPT !.temp = temp])
  /\ Becomes(c, StoppedBy(bot[c], temp, "idle"))

SeeObstacle(c, temp) ==
  /\ Spend("obstacle")
  /\ ObstacleAtMark(c, temp) \/ ObstacleInJunction(c, temp) \/ ObstacleOnRoad(c, temp)
  /\ UNCHANGED <<shm, mqs, plan, route, sub, topo>>

(* Where a car that drives on without a direction may be.  lastNodeFlag is *)
(* what the camera sees: on a marker there is no edge, and the car goes    *)
(* straight across, or stops where its count was reached unnoticed.        *)
DrivenOn(b) ==
  CASE b.mode \in {"idle", "paused"} -> {Resumed(b)}
    [] b.mode \in {"follow", "approach", "lost"} -> {b}
    [] b.mode = "stopped" ->
         IF OverCount(b) THEN {CountedOut(b, "stopped")}
         ELSE IF Ahead(b.at, "STRAIGHT") = {} THEN {[b EXCEPT !.mode = "lost"]}
         ELSE {[b EXCEPT !.mode = "follow", !.at = <<b.at[2], n>>] :
                 n \in Ahead(b.at, "STRAIGHT")}

(* Three frames without obstacle: the car drives on, whatever it was told. *)
SeeClear(c) ==
  /\ bot[c].dog
  /\ Report(Event("REPAIRED", c))
  /\ \E b \in DrivenOn(bot[c]) : Becomes(c, [b EXCEPT !.dog = FALSE])
  /\ UNCHANGED <<shm, mqs, plan, route, sub, topo, budget>>

(* Somebody puts a standing car on another road and presses its key. *)
PutDown(c, arc) ==
  /\ Spend("place") /\ (Standing(c) \/ bot[c].mode = "lost")
  /\ Report([Event("POSITION", c) EXCEPT !.arc = arc])
  /\ Becomes(c, [bot[c] EXCEPT !.at = arc, !.mode = IF @ = "paused" THEN @ ELSE "idle"])
  /\ UNCHANGED <<shm, mqs, plan, route, sub, topo>>

-----------------------------------------------------------------------------

Asked ==
  \/ \E c \in Cars : (\E t \in Targets : Assign(c, t)) \/ Cancel(c)
  \/ \E s \in {"BLOCKED", "IDLE", "FAULT_REPAIR"}, ask \in Requests : TopoAsk(s, ask)
  \/ ResetMap

TopoStep == \/ TopoPair \/ TopoCars \/ \E e \in Edges : TopoEdge(e)
            \/ (\E n \in Nodes : TopoNode(n)) \/ \E c \in Cars : TopoNotify(c)

PlanStep == \/ PlanTake \/ PlanAccept \/ PlanRefuse \/ PlanFail \/ PlanGiveUp
            \/ PlanUpdate \/ PlanScan \/ PlanFree \/ PlanFreePair \/ PlanCount \/ PlanAct

RouteStep == \/ RouteTake \/ RouteOccupy \/ RouteOccupyPair \/ RoutePark
             \/ RouteTell \/ RouteOrient \/ RouteAdvance

SubStep == \/ SubArrive \/ SubRead \/ SubMark \/ SubMarkPair \/ SubConclude
           \/ SubScan \/ SubFree \/ SubFreePair \/ SubPlace

Drive(c) == ReachNode(c) \/ Decide(c)

World(c) == TimeOut(c) \/ (\E temp \in BOOLEAN : SeeObstacle(c, temp)) \/ SeeClear(c)
            \/ \E arc \in Places : PutDown(c, arc)

Next == Asked \/ TopoStep \/ PlanStep \/ RouteStep \/ SubStep \/ Publish \/ Lose
        \/ \E c \in Cars : Drive(c) \/ World(c)

Spec == Init /\ [][Next]_vars

(* Every process waits in poll for its queue and is scheduled; a car that  *)
(* drives reaches the next node.                                           *)
Fairness == /\ WF_vars(TopoStep) /\ WF_vars(PlanStep) /\ WF_vars(RouteStep)
            /\ WF_vars(SubStep) /\ WF_vars(Publish)
            /\ \A c \in Cars : WF_vars(Drive(c))

FairSpec == Spec /\ Fairness

-----------------------------------------------------------------------------
(* Properties *)

PlanStates ==
  [pc : {"idle", "cars", "fail", "update", "scan", "free", "freePair", "count", "act"},
   msg : TaskMsgs, edge : [Edges -> EdgeStatuses], closed : SUBSET Nodes,
   old : CarRecords, new : CarRecords, eid : Edges]
RouteStates ==
  [pc : {"idle", "occupy", "occupyPair", "park", "tell", "orient", "advance"},
   car : Cars, rec : CarRecords, eid : Edges]
SubStates ==
  [pc : {"idle", "mark", "markPair", "conclude", "scan", "free", "freePair", "place"},
   ev : Events, rec : CarRecords, eid : Edges]
TopoStates ==
  [pc : {"idle", "lists", "pair", "notify"}, status : EdgeStatuses, edges : SUBSET Edges,
   nodes : SUBSET Nodes, eid : Edges, todo : SUBSET Cars]
Bots ==
  [mode : {"idle", "follow", "approach", "paused", "stopped", "lost"},
   orient : TurnNames \cup {"ARRIVED", "none"},
   num : Nat, count : Nat, dog : BOOLEAN, at : Arcs]

(* Every variable and local record has its type. *)
TypeOK ==
  /\ edge \in [Edges -> EdgeStatuses] /\ closed \subseteq Nodes
  /\ car \in [Cars -> CarRecords]
  /\ taskQ \in Queues(TaskMsgs) /\ routeQ \in Queues(Cars) /\ mqttQ \in Queues(MqttMsgs)
  /\ events \in Seq(Events)
  /\ plan \in PlanStates /\ route \in RouteStates /\ sub \in SubStates /\ topo \in TopoStates
  /\ bot \in [Cars -> Bots]
  /\ budget \in [ActionKinds -> Nat]

(* The record of every car names an edge of the map, whatever the planner, *)
(* the router and the subscriber overwrite of each other: alter_edges_status *)
(* and jud_rev index the map with these two fields.                        *)
OnTheMap == \A c \in Cars : <<car[c].last, car[c].cur>> \in Arcs

(* When nothing about a car is in flight and it has no direction left to   *)
(* follow, it is on the road its record names.                             *)
OnCourse ==
  \A c \in Cars : Settled(c) /\ bot[c].orient \in {"none", "ARRIVED"} =>
                    bot[c].at = <<car[c].last, car[c].cur>>

(* When nothing about a car on a mission is in flight, it moves or has its *)
(* direction: it does not stand waiting for a message nobody will send.    *)
NotStranded ==
  \A c \in Cars : Settled(c) /\ car[c].status = "MOVING" =>
    \/ bot[c].mode = "follow"
    \/ bot[c].mode = "approach" /\ bot[c].orient # "none"

(* When nothing is in flight, an occupied road is one a car without mission *)
(* stands on: no road stays closed to everybody after its car has left.    *)
OccupiedMeansParked ==
  (\A c \in Cars : Settled(c)) => \A e \in Edges : edge[e] = "OCCUPIED" =>
    \E c \in Cars : /\ car[c].status = "IDLE"
                    /\ <<car[c].last, car[c].cur>> \in {Arc(e), Arc(Pair(e))}

(* The road the router occupies for a car that has arrived is the one the  *)
(* car's record names, the last of its path (router.h:68-69).              *)
OccupiesItsRoad ==
  route.pc \in {"occupy", "occupyPair"} =>
    route.eid \in EdgesOn(route.rec.last, route.rec.cur)

(* What a process overwrites is what it read before: the record of a car   *)
(* that the planner, the router or the subscriber writes back, and the      *)
(* road that it found occupied and frees.  No update is lost.              *)
NoLostUpdate ==
  [][/\ \A c \in Cars : car'[c] # car[c] =>
          /\ plan.pc = "update" /\ plan'.pc = "scan" => plan.old = car[c]
          /\ route.pc \in {"park", "advance"} /\ route' # route => route.rec = car[c]
          /\ sub.pc = "place" /\ sub' # sub => sub.rec = car[c]
     /\ plan.pc = "free" /\ plan' # plan => edge[plan.eid] = "OCCUPIED"
     /\ sub.pc = "free" /\ sub' # sub => edge[sub.eid] = "OCCUPIED"]_vars

(* A record with a plan that has not reached its target: the plan leads    *)
(* from the node ahead to the target, and the router finds where it is.    *)
LeadsOn(me) ==
  me.path # <<>> /\ me.cur # me.target =>
    \E i \in Legs(me) :
      /\ \A j \in i..Len(me.path) - 1 : To(me.path[j]) = From(me.path[j + 1])
      /\ To(Last(me.path)) = me.target

(* However planner, router and subscriber interleave and whatever of each   *)
(* other they overwrite, a car that has a plan is on it: the router never  *)
(* runs out of road before the target.                                     *)
PlanLeadsToTarget == \A c \in Cars : LeadsOn(car[c])

(* Missions are journeys: a record follows its car from road to road to the *)
(* target, though three processes write it and none of them locks it       *)
(* between reading and writing.  Left of the plan is what comes after the  *)
(* edge the router takes next.                                             *)
RoadsLeft(me) ==
  IF me.path = <<>> \/ me.cur = me.target THEN 0
  ELSE Len(me.path) + 1 - (CHOOSE i \in Legs(me) : TRUE)

Journey == INSTANCE Journeys WITH
  at   <- [c \in Cars |-> <<car[c].last, car[c].cur>>],
  goal <- [c \in Cars |-> IF car[c].status = "MOVING" THEN car[c].target ELSE 0],
  left <- [c \in Cars |-> RoadsLeft(car[c])]

MissionsAreJourneys == Journey!Spec

(* Every mission ends where it was meant to, in the record and on the road. *)
MissionsComplete ==
  \A c \in Cars : \A t \in Targets :
    car[c].status = "MOVING" /\ car[c].target = t ~>
      car[c].status = "IDLE" /\ car[c].cur = t /\ bot[c].at[2] = t /\ Standing(c)

=============================================================================
