---------------------------- MODULE MissionProofs ----------------------------
(***************************************************************************)
(* Missions for every map, fleet and operator who asks only for cars that  *)
(* stand and about which nothing is in flight: a car goes through a fixed  *)
(* order of stages, whatever planner, router, subscriber and publisher do  *)
(* for the other cars meanwhile.                                           *)
(***************************************************************************)
EXTENDS DispatchProofs, FiniteSetTheorems

-----------------------------------------------------------------------------
(* Hypotheses *)

(* The operator waits, gives tasks, changes the topology and resets the    *)
(* map; no obstacle, time-out, lost command, cancel or car put elsewhere.  *)
Undisturbed ==
  /\ Patient /\ ~MayTimeOut
  /\ \A kind \in {"cancel", "obstacle", "place", "loss"} : Budget[kind] = 0

(* Every queue has room for what can be in it about every car. *)
Roomy ==
  /\ IsFiniteSet(Cars)
  /\ Cardinality(Cars) <= TaskCap /\ Cardinality(Cars) <= RouteCap
  /\ Cardinality(Cars \X {1, 2}) <= MqttCap

(* At a node no two roads lie in the same of the four directions. *)
WellSigned ==
  \A arc \in Arcs, turn \in TurnNames : \A m, n \in Ahead(arc, turn) : m = n

-----------------------------------------------------------------------------
(* What is in flight about a car *)

Tasks(c) == {m \in Held(taskQ) : m.car = c}
Told(c)  == {m \in Held(mqttQ) : m.car = c}
Reported == {events[i] : i \in DOMAIN events}
News(c)  == {ev \in Reported : ev.car = c}
Due(c)   == c \in Held(routeQ)

Planner(c) == IF plan.pc # "idle" /\ plan.msg.car = c THEN plan ELSE PlanIdle
Router(c)  == IF route.pc # "idle" /\ route.car = c THEN route ELSE RouteIdle

Unheard(c)   == Tasks(c) = {} /\ Told(c) = {} /\ News(c) = {} /\ ~Due(c)
Unplanned(c) == Planner(c).pc = "idle"
Unrouted(c)  == Router(c).pc = "idle"

CountTo(c, n)  == [type |-> "CNT", car |-> c, param |-> n]
Go(c)          == [type |-> "ACTION", car |-> c, param |-> "PROCESS"]
Direct(c, turn) == [type |-> "ORIENT", car |-> c, param |-> turn]

-----------------------------------------------------------------------------
(* The stages of a mission *)

Road(me) == <<me.last, me.cur>>

(* The record when the router has written what it is about to. *)
Advanced(r) == [r.rec EXCEPT !.last = r.rec.cur, !.cur = To(r.eid)]
Record(c)   == IF Router(c).pc = "advance" THEN Advanced(Router(c)) ELSE car[c]

(* A record of which the car has taken the first k roads of the plan. *)
OnWay(me, k) ==
  /\ me.status = "MOVING" /\ me.path # <<>> /\ IsChain(me.path)
  /\ me.target \in Targets /\ me.target = To(Last(me.path))
  /\ k \in 0..Len(me.path)
  /\ me.cur = IF k = 0 THEN From(me.path[1]) ELSE To(me.path[k])

Parked(c) == /\ bot[c].mode \in {"idle", "stopped"} /\ bot[c].orient \in {"none", "ARRIVED"}
             /\ bot[c].at = Road(car[c])

Free(c) == Parked(c) /\ car[c].status = "IDLE" /\ car[c].path = <<>>

Resting(c) == Unheard(c) /\ Unplanned(c) /\ Unrouted(c) /\ Free(c)

Ordered(c) ==    (* The task is in the queue. *)
  /\ \E t \in Targets : Tasks(c) = {AssignTo(c, t)}
  /\ Told(c) = {} /\ News(c) = {} /\ ~Due(c) /\ Unplanned(c) /\ Unrouted(c) /\ Free(c)

Choosing(c) ==
  /\ Planner(c).pc = "cars" /\ \E t \in Targets : Planner(c).msg = AssignTo(c, t)
  /\ Unheard(c) /\ Unrouted(c) /\ Free(c)

Chosen(c) ==
  /\ Planner(c).pc = "update" /\ \E t \in Targets : Planner(c).msg = AssignTo(c, t)
  /\ Planner(c).old = car[c] /\ OnWay(Planner(c).new, 0)
  /\ Planner(c).new.last = car[c].last /\ Planner(c).new.cur = car[c].cur
  /\ Unheard(c) /\ Unrouted(c) /\ Free(c)

Planned(c) ==
  /\ Planner(c).pc \in {"scan", "free", "freePair", "count"}
  /\ \E t \in Targets : Planner(c).msg = AssignTo(c, t)
  /\ car[c] = Planner(c).new /\ OnWay(car[c], 0)
  /\ Unheard(c) /\ Unrouted(c) /\ Parked(c)

Starting(c) ==    (* The count is sent, the order to go follows it. *)
  /\ Planner(c).pc \in {"act", "idle"}
  /\ Planner(c).pc = "act" => \E t \in Targets : Planner(c).msg = AssignTo(c, t)
  /\ Told(c) \subseteq {CountTo(c, Len(car[c].path)), Go(c)}
  /\ Go(c) \in Told(c) <=> Unplanned(c)
  /\ CountTo(c, Len(car[c].path)) \notin Told(c) =>
       bot[c].num = Len(car[c].path) /\ bot[c].count = 0
  /\ OnWay(car[c], 0) /\ Tasks(c) = {} /\ News(c) = {} /\ ~Due(c) /\ Unrouted(c)
  /\ Parked(c)

(* The router is about to write that the car is on the next road. *)
NextRoad(r, k) == OnWay(r.rec, k) /\ r.rec.cur # r.rec.target /\ r.eid = r.rec.path[k + 1]

(* What the router has still to do when the direction is sent. *)
Catching(c) ==
  /\ Router(c).pc \in {"idle", "advance"}
  /\ Router(c).pc = "advance" => Router(c).rec = car[c] /\ \E k \in Nat : NextRoad(Router(c), k)

Counts(c) == bot[c].num = Len(Record(c).path)

Driving(c) ==
  /\ bot[c].mode = "follow" /\ bot[c].orient \in {"none", "ARRIVED"}
  /\ bot[c].at = Road(Record(c)) /\ Counts(c) /\ OnWay(Record(c), bot[c].count)
  /\ Unheard(c) /\ Unplanned(c) /\ Catching(c)

(* The car is at the node ahead of its road; at its target it has stopped. *)
AtNode(c) ==
  /\ bot[c].orient = "none" /\ bot[c].at = Road(Record(c)) /\ Counts(c)
  /\ IF Record(c).cur = Record(c).target
       THEN bot[c].mode = "stopped" /\ OnWay(Record(c), Len(Record(c).path))
       ELSE bot[c].mode = "approach" /\ OnWay(Record(c), bot[c].count - 1)

Reaching(c) ==
  /\ News(c) = {Event("ARRIVE", c)} /\ AtNode(c)
  /\ Tasks(c) = {} /\ Told(c) = {} /\ ~Due(c) /\ Unplanned(c) /\ Catching(c)

Waiting(c) ==
  /\ Due(c) /\ AtNode(c)
  /\ Tasks(c) = {} /\ Told(c) = {} /\ News(c) = {} /\ Unplanned(c) /\ Catching(c)

Turning(c) ==
  /\ Router(c).pc = "orient" /\ Router(c).rec = car[c] /\ car[c].cur # car[c].target
  /\ bot[c].count \in DOMAIN car[c].path /\ Router(c).eid = car[c].path[bot[c].count]
  /\ AtNode(c) /\ Unheard(c) /\ Unplanned(c)

Parking(c) ==
  /\ Router(c).pc \in {"occupy", "occupyPair", "park"}
  /\ Router(c).rec = car[c] /\ car[c].cur = car[c].target /\ Router(c).eid = Last(car[c].path)
  /\ AtNode(c) /\ Unheard(c) /\ Unplanned(c)

(* The direction is on its way, or received and not yet carried out. *)
Directing(c) ==
  LET turn == Turn(bot[c].at[1], bot[c].at[2], Record(c).cur)
  IN /\ \/ Told(c) = {Direct(c, turn)} /\ bot[c].orient = "none"
        \/ Told(c) = {} /\ bot[c].orient = turn
     /\ bot[c].mode = "approach" /\ Record(c).last = bot[c].at[2] /\ Joined(Record(c))
     /\ Counts(c) /\ OnWay(Record(c), bot[c].count)
     /\ Tasks(c) = {} /\ News(c) = {} /\ ~Due(c) /\ Unplanned(c) /\ Catching(c)

Telling(c) == Router(c).pc = "tell" /\ Unheard(c) /\ Unplanned(c) /\ Free(c)

Arrived(c) == /\ Told(c) = {Direct(c, "ARRIVED")} /\ Tasks(c) = {} /\ News(c) = {} /\ ~Due(c)
              /\ Unplanned(c) /\ Unrouted(c) /\ Free(c)

OnMission(c) ==
  \/ Resting(c) \/ Ordered(c) \/ Choosing(c) \/ Chosen(c) \/ Planned(c) \/ Starting(c)
  \/ Driving(c) \/ Reaching(c) \/ Waiting(c) \/ Turning(c) \/ Directing(c)
  \/ Parking(c) \/ Telling(c) \/ Arrived(c)

-----------------------------------------------------------------------------
(* The queues: of what a key tells apart, one message at a time. *)

Distinct(q, key) ==
  \A p, r \in Prios : \A i \in DOMAIN q[p], j \in DOMAIN q[r] :
    key[q[p][i]] = key[q[r][j]] => p = r /\ i = j

TaskKey  == [m \in TaskMsgs |-> m.car]
RouteKey == [c \in Cars |-> c]
MqttKey  == [m \in MqttMsgs |-> <<m.car, IF m.type = "CNT" THEN 1 ELSE 2>>]

(* A car is told how far to go before it is told to go. *)
CountFirst ==
  \A i, j \in DOMAIN mqttQ["kPrioHigh"] :
    LET m == mqttQ["kPrioHigh"][i]
        n == mqttQ["kPrioHigh"][j]
    IN m.car = n.car /\ m.type = "CNT" /\ n.type # "CNT" => i < j

CountHigh == \A i \in DOMAIN mqttQ["kPrioNormal"] : mqttQ["kPrioNormal"][i].type # "CNT"

OrderInv == Distinct(mqttQ, MqttKey) /\ CountFirst /\ CountHigh

OneReport == \A i, j \in DOMAIN events : events[i].car = events[j].car => i = j

QueueInv == /\ Distinct(taskQ, TaskKey) /\ Distinct(routeQ, RouteKey)
            /\ OrderInv /\ OneReport

(* Nothing disturbs; while the topology is changed, all cars rest. *)
CalmInv ==
  /\ \A kind \in {"cancel", "obstacle", "place", "loss"} : budget[kind] = 0
  /\ sub.pc = "idle" /\ \A c \in Cars : ~bot[c].dog
  /\ topo.pc \in {"idle", "lists", "pair"}
  /\ topo.pc # "idle" => \A c \in Cars : Resting(c)

MissionInv == TypeOK /\ QueueInv /\ CalmInv /\ \A c \in Cars : OnMission(c)

-----------------------------------------------------------------------------
(* Queues *)

(* A message sent to a queue with room is in it, and keys stay distinct if *)
(* nothing in the queue has its key.                                       *)
LEMMA SentHolds ==
  ASSUME NEW Msgs, NEW q \in Queues(Msgs), NEW cap, Size(q) < cap, NEW p \in Prios, NEW m \in Msgs
  PROVE  /\ Held(Sent(q, cap, p, m)) = Held(q) \cup {m}
         /\ \A key : Distinct(q, key) /\ (\A x \in Held(q) : key[x] # key[m])
                       => Distinct(Sent(q, cap, p, m), key)
<1> DEFINE s == Sent(q, cap, p, m)
           n == Len(q[p]) + 1
<1>1. /\ \A r \in Prios : q[r] \in Seq(Msgs)
      /\ s = [q EXCEPT ![p] = Append(@, m)]
      /\ n \in Nat /\ DOMAIN q[p] = 1..n - 1
  BY DEF Queues, Sent
<1>2. /\ \A r \in Prios : r # p => s[r] = q[r]
      /\ DOMAIN s[p] = 1..n /\ s[p][n] = m
      /\ \A i \in 1..n - 1 : s[p][i] = q[p][i]
  BY <1>1 DEF Queues
<1> HIDE DEF s
<1>3. ASSUME NEW r \in Prios, NEW i \in DOMAIN s[r]
      PROVE  \/ i \in DOMAIN q[r] /\ s[r][i] = q[r][i]
             \/ r = p /\ i = n /\ s[r][i] = m
  BY <1>1, <1>2
<1>4. ASSUME NEW r \in Prios, NEW i \in DOMAIN q[r]
      PROVE  i \in DOMAIN s[r] /\ s[r][i] = q[r][i]
  BY <1>1, <1>2
<1>5. n \in DOMAIN s[p] /\ s[p][n] = m
  BY <1>1, <1>2
<1>6. Held(s) = Held(q) \cup {m}
  BY <1>3, <1>4, <1>5 DEF Held
<1>7. ASSUME NEW key, Distinct(q, key), \A x \in Held(q) : key[x] # key[m]
      PROVE  Distinct(s, key)
  <2> SUFFICES ASSUME NEW r \in Prios, NEW u \in Prios, NEW i \in DOMAIN s[r], NEW j \in DOMAIN s[u],
                      key[s[r][i]] = key[s[u][j]]
               PROVE  r = u /\ i = j
    BY DEF Distinct
  <2>1. \A v \in Prios : \A k \in DOMAIN q[v] : key[q[v][k]] # key[m]
    BY <1>7 DEF Held
  <2> QED BY <1>3, <1>7, <2>1 DEF Distinct
<1> QED BY <1>6, <1>7 DEF s

(* Receiving takes one message out of a queue, the only one with its key. *)
LEMMA ReceivedHeld ==
  ASSUME NEW Msgs, NEW q \in Queues(Msgs), HasMessage(q), NEW key, Distinct(q, key)
  PROVE  /\ Received(q) \in Held(q) /\ Held(Remaining(q)) = Held(q) \ {Received(q)}
         /\ Distinct(Remaining(q), key)
<1> DEFINE t == TopPrio(q)
           s == Remaining(q)
<1>1. t \in Prios
  BY DEF TopPrio, Prios
<1>2. /\ \A r \in Prios : q[r] \in Seq(Msgs)
      /\ q[t] # <<>> /\ Received(q) = q[t][1] /\ s = [q EXCEPT ![t] = Tail(@)]
  BY <1>1 DEF Queues, HasMessage, Received, Remaining
<1> HIDE DEF t
<1>3. /\ \A r \in Prios : r # t => s[r] = q[r]
      /\ Len(q[t]) \in Nat \ {0} /\ DOMAIN q[t] = 1..Len(q[t])
      /\ DOMAIN s[t] = 1..Len(q[t]) - 1
      /\ \A i \in 1..Len(q[t]) - 1 : s[t][i] = q[t][i + 1]
  BY <1>1, <1>2 DEF Queues
<1> HIDE DEF s
<1>4. ASSUME NEW r \in Prios, NEW i \in DOMAIN s[r]
      PROVE  \/ r # t /\ i \in DOMAIN q[r] /\ s[r][i] = q[r][i]
             \/ r = t /\ i \in Nat /\ i + 1 \in DOMAIN q[r] /\ i + 1 # 1 /\ s[r][i] = q[r][i + 1]
  BY <1>1, <1>3
<1>5. ASSUME NEW r \in Prios, NEW i \in DOMAIN q[r]
      PROVE  \/ r = t /\ i = 1
             \/ \E j \in DOMAIN s[r] : s[r][j] = q[r][i]
  <2>1. CASE r # t
    BY <1>3, <2>1
  <2>2. CASE r = t /\ i # 1
    <3>1. i - 1 \in DOMAIN s[t] /\ s[t][i - 1] = q[t][(i - 1) + 1] /\ (i - 1) + 1 = i
      BY <1>3, <2>2
    <3> QED BY <2>2, <3>1
  <2> QED BY <2>1, <2>2
<1>6. 1 \in DOMAIN q[t]
  BY <1>3
<1>7. ASSUME NEW r \in Prios, NEW i \in DOMAIN q[r], q[r][i] = q[t][1]
      PROVE  r = t /\ i = 1
  BY <1>1, <1>6, <1>7 DEF Distinct
<1>8. Received(q) \in Held(q)
  BY <1>1, <1>2, <1>6 DEF Held
<1>9. ASSUME NEW r \in Prios, NEW i \in DOMAIN s[r]
      PROVE  s[r][i] \in Held(q) /\ s[r][i] # Received(q)
  BY <1>2, <1>4, <1>7 DEF Held
<1>10. Held(s) = Held(q) \ {Received(q)}
  <2>1. Held(s) \subseteq Held(q) \ {Received(q)}
    BY <1>9 DEF Held
  <2>2. ASSUME NEW m \in Held(q), m # Received(q) PROVE m \in Held(s)
    <3>1. PICK r \in Prios : \E i \in DOMAIN q[r] : m = q[r][i]
      BY DEF Held
    <3>2. \E j \in DOMAIN s[r] : s[r][j] = m
      BY <1>2, <1>5, <2>2, <3>1
    <3> QED BY <3>2 DEF Held
  <2> QED BY <2>1, <2>2
<1>11. Distinct(s, key)
  <2> SUFFICES ASSUME NEW r \in Prios, NEW u \in Prios, NEW i \in DOMAIN s[r], NEW j \in DOMAIN s[u],
                      key[s[r][i]] = key[s[u][j]]
               PROVE  r = u /\ i = j
    BY DEF Distinct
  <2> QED BY <1>4 DEF Distinct
<1> QED BY <1>8, <1>10, <1>11 DEF s

(* As long as some key is not in it, a queue holds fewer messages than     *)
(* there are keys.                                                         *)
LEMMA HasRoom ==
  ASSUME NEW Msgs, NEW q \in Queues(Msgs), NEW K, IsFiniteSet(K), NEW key \in [Msgs -> K],
         Distinct(q, key), NEW k \in K, \A x \in Held(q) : key[x] # k
  PROVE  Size(q) < Cardinality(K)
<1> DEFINE a == Len(q["kPrioNormal"])
           b == Len(q["kPrioHigh"])
           slot == [i \in 1..a + b |-> IF i <= a THEN key[q["kPrioNormal"][i]]
                                       ELSE key[q["kPrioHigh"][i - a]]]
<1>1. /\ q["kPrioNormal"] \in Seq(Msgs) /\ q["kPrioHigh"] \in Seq(Msgs)
      /\ a \in Nat /\ b \in Nat
      /\ DOMAIN q["kPrioNormal"] = 1..a /\ DOMAIN q["kPrioHigh"] = 1..b
  BY DEF Queues, Prios
<1>0. Size(q) = a + b
  BY DEF Size
<1> HIDE DEF a, b
<1>2. \A p \in Prios : \A i \in DOMAIN q[p] : key[q[p][i]] \in K \ {k}
  BY DEF Held, Queues
<1>3. "kPrioNormal" \in Prios /\ "kPrioHigh" \in Prios
  BY DEF Prios
<1> DEFINE Normal(i) == i \in 1..a /\ slot[i] = key[q["kPrioNormal"][i]]
           High(i) == i - a \in 1..b /\ slot[i] = key[q["kPrioHigh"][i - a]]
<1>4. ASSUME NEW i \in 1..a + b PROVE Normal(i) \/ High(i)
  <2>1. CASE i <= a
    BY <1>1, <2>1
  <2>2. CASE ~(i <= a)
    <3>1. i - a \in 1..b
      BY <1>1, <2>2
    <3> QED BY <3>1, <2>2
  <2> QED BY <2>1, <2>2
<1>5. slot \in [1..a + b -> K \ {k}]
  <2>1. \A i \in 1..a + b : slot[i] \in K \ {k}
    <3> SUFFICES ASSUME NEW i \in 1..a + b PROVE slot[i] \in K \ {k}
      OBVIOUS
    <3>1. CASE Normal(i)
      <4> HIDE DEF slot
      <4> QED BY <1>1, <1>2, <1>3, <3>1
    <3>2. CASE High(i)
      <4> HIDE DEF slot
      <4> QED BY <1>1, <1>2, <1>3, <3>2
    <3> QED BY <1>4, <3>1, <3>2
  <2>2. slot = [i \in 1..a + b |-> slot[i]]
    OBVIOUS
  <2> QED BY <2>1, <2>2
<1> HIDE DEF slot
<1>6. ASSUME NEW i \in 1..a + b, NEW j \in 1..a + b, slot[i] = slot[j]
      PROVE  i = j
  <2> DEFINE N == "kPrioNormal"
             H == "kPrioHigh"
  <2>1. /\ \A x, y \in 1..a : key[q[N][x]] = key[q[N][y]] => x = y
        /\ \A x, y \in 1..b : key[q[H][x]] = key[q[H][y]] => x = y
        /\ \A x \in 1..a, y \in 1..b : key[q[N][x]] # key[q[H][y]]
    BY <1>1, <1>3 DEF Distinct
  <2>2. CASE Normal(i) /\ Normal(j)
    BY <1>6, <2>1, <2>2
  <2>3. CASE Normal(i) /\ High(j)
    BY <1>6, <2>1, <2>3
  <2>4. CASE High(i) /\ Normal(j)
    BY <1>6, <2>1, <2>4
  <2>5. CASE High(i) /\ High(j)
    <3>1. i - a = j - a
      BY <1>6, <2>1, <2>5
    <3> QED BY <1>1, <3>1
  <2> QED BY <1>4, <2>2, <2>3, <2>4, <2>5
<1>7. slot \in Injection(1..a + b, K \ {k})
  BY <1>5, <1>6 DEF Injection, IsInjective
<1>8. IsFiniteSet(K \ {k}) /\ Cardinality(K \ {k}) = Cardinality(K) - 1
  BY FS_RemoveElement
<1>9. Cardinality(1..a + b) <= Cardinality(K \ {k})
  BY <1>7, <1>8, FS_Injection
<1>10. Cardinality(1..a + b) = a + b
  <2>1. 1 \in Int /\ a + b \in Nat
    BY <1>1
  <2>2. Cardinality(1..a + b) = IF 1 > a + b THEN 0 ELSE (a + b) - 1 + 1
    BY <2>1, FS_Interval
  <2> QED BY <2>1, <2>2
<1>11. Cardinality(K) \in Nat
  BY FS_CardinalityType
<1> QED BY <1>0, <1>1, <1>8, <1>9, <1>10, <1>11

-----------------------------------------------------------------------------
(* Each queue, as the cars see it: a send adds a message about one car, a  *)
(* receive takes one away, and the other cars notice nothing.              *)

LEMMA TwoIsFinite == IsFiniteSet({1, 2})
<1>1. IsFiniteSet({1}) /\ IsFiniteSet({1} \cup {2})
  BY FS_Singleton, FS_AddElement
<1>2. {1, 2} = {1} \cup {2}
  OBVIOUS
<1> QED BY <1>1, <1>2

LEMMA KeyTypes ==
  /\ TaskKey \in [TaskMsgs -> Cars] /\ RouteKey \in [Cars -> Cars]
  /\ MqttKey \in [MqttMsgs -> Cars \X {1, 2}]
  /\ \A m \in TaskMsgs : m.car \in Cars /\ TaskKey[m] = m.car
  /\ \A c \in Cars : RouteKey[c] = c
  /\ \A m \in MqttMsgs : /\ m.car \in Cars
                         /\ MqttKey[m] = <<m.car, IF m.type = "CNT" THEN 1 ELSE 2>>
<1>1. \A m \in TaskMsgs : m.car \in Cars
  BY DEF TaskMsgs
<1>2. \A m \in MqttMsgs : m.car \in Cars
  BY DEF MqttMsgs
<1> QED BY <1>1, <1>2 DEF TaskKey, RouteKey, MqttKey

LEMMA HeldType == ASSUME NEW Msgs, NEW q \in Queues(Msgs) PROVE Held(q) \subseteq Msgs
BY DEF Held, Queues

LEMMA TaskSent ==
  ASSUME TypeOK, QueueInv, Roomy, NEW m \in TaskMsgs, Tasks(m.car) = {},
         NEW p \in Prios, SendTask(p, m)
  PROVE  /\ Tasks(m.car)' = {m} /\ Distinct(taskQ, TaskKey)'
         /\ \A d \in Cars \ {m.car} : Tasks(d)' = Tasks(d)
<1>1. taskQ \in Queues(TaskMsgs) /\ Distinct(taskQ, TaskKey) /\ m.car \in Cars
  BY DEF TypeOK, QueueInv, TaskMsgs
<1>2. \A x \in Held(taskQ) : x.car # m.car /\ x \in TaskMsgs
  BY <1>1, HeldType DEF Tasks
<1>3. \A x \in Held(taskQ) : TaskKey[x] # m.car /\ TaskKey[x] # TaskKey[m]
  BY <1>2, KeyTypes
<1>4. Size(taskQ) < Cardinality(Cars)
  BY <1>1, <1>3, KeyTypes, HasRoom DEF Roomy
<1>5. Size(taskQ) < TaskCap
  BY <1>1, <1>4, FS_CardinalityType, CapAssumption DEF Roomy, Size, Queues, Prios
<1>6. Held(taskQ') = Held(taskQ) \cup {m} /\ Distinct(taskQ', TaskKey)
  BY <1>1, <1>3, <1>5, SentHolds DEF SendTask
<1>7. Distinct(taskQ, TaskKey)'
  BY <1>6 DEF Distinct
<1> QED BY <1>6, <1>7 DEF Tasks

LEMMA TaskTaken ==
  ASSUME TypeOK, QueueInv, HasMessage(taskQ), taskQ' = Remaining(taskQ), NEW c,
         c = Received(taskQ).car
  PROVE  /\ c \in Cars /\ Received(taskQ) \in Tasks(c) /\ Distinct(taskQ, TaskKey)'
         /\ Tasks(c)' = Tasks(c) \ {Received(taskQ)}
         /\ \A d \in Cars \ {c} : Tasks(d)' = Tasks(d)
<1>1. taskQ \in Queues(TaskMsgs) /\ Distinct(taskQ, TaskKey)
  BY DEF TypeOK, QueueInv
<1>2. Received(taskQ) \in TaskMsgs /\ c \in Cars
  <2>1. Received(taskQ) \in TaskMsgs
    BY <1>1, QueueType
  <2> QED BY <2>1, KeyTypes
<1>3. /\ Received(taskQ) \in Held(taskQ)
      /\ Held(taskQ') = Held(taskQ) \ {Received(taskQ)} /\ Distinct(taskQ', TaskKey)
  BY <1>1, ReceivedHeld
<1>4. Distinct(taskQ, TaskKey)'
  BY <1>3 DEF Distinct
<1> QED BY <1>2, <1>3, <1>4 DEF Tasks

LEMMA RouteSent ==
  ASSUME TypeOK, QueueInv, Roomy, NEW c \in Cars, ~Due(c), SendRoute(c)
  PROVE  /\ Due(c)' /\ Distinct(routeQ, RouteKey)'
         /\ \A d \in Cars \ {c} : Due(d)' <=> Due(d)
<1>1. routeQ \in Queues(Cars) /\ Distinct(routeQ, RouteKey)
  BY DEF TypeOK, QueueInv
<1>2. \A x \in Held(routeQ) : RouteKey[x] # c /\ RouteKey[x] # RouteKey[c]
  BY <1>1, HeldType, KeyTypes DEF Due
<1>3. Size(routeQ) < Cardinality(Cars)
  BY <1>1, <1>2, KeyTypes, HasRoom DEF Roomy
<1>4. Size(routeQ) < RouteCap
  BY <1>1, <1>3, FS_CardinalityType, CapAssumption DEF Roomy, Size, Queues, Prios
<1>5. Held(routeQ') = Held(routeQ) \cup {c} /\ Distinct(routeQ', RouteKey)
  BY <1>1, <1>2, <1>4, SentHolds DEF SendRoute, Prios
<1>6. Distinct(routeQ, RouteKey)'
  BY <1>5 DEF Distinct
<1> QED BY <1>5, <1>6 DEF Due

LEMMA RouteTaken ==
  ASSUME TypeOK, QueueInv, HasMessage(routeQ), routeQ' = Remaining(routeQ), NEW c,
         c = Received(routeQ)
  PROVE  /\ c \in Cars /\ Due(c) /\ ~Due(c)' /\ Distinct(routeQ, RouteKey)'
         /\ \A d \in Cars \ {c} : Due(d)' <=> Due(d)
<1>1. routeQ \in Queues(Cars) /\ Distinct(routeQ, RouteKey)
  BY DEF TypeOK, QueueInv
<1>2. c \in Cars
  BY <1>1, QueueType
<1>3. c \in Held(routeQ) /\ Held(routeQ') = Held(routeQ) \ {c} /\ Distinct(routeQ', RouteKey)
  BY <1>1, ReceivedHeld
<1>4. Distinct(routeQ, RouteKey)'
  BY <1>3 DEF Distinct
<1> QED BY <1>2, <1>3, <1>4 DEF Due

LEMMA MqttSent ==
  ASSUME TypeOK, QueueInv, Roomy, NEW m \in MqttMsgs, NEW p \in Prios, SendMqtt(p, m),
         m.type = "CNT" => p = "kPrioHigh" /\ Told(m.car) = {},
         m.type # "CNT" => \A x \in Told(m.car) : x.type = "CNT"
  PROVE  /\ Told(m.car)' = Told(m.car) \cup {m} /\ OrderInv'
         /\ \A d \in Cars \ {m.car} : Told(d)' = Told(d)
<1> DEFINE k == IF m.type = "CNT" THEN 1 ELSE 2
           H == mqttQ["kPrioHigh"]
           L == mqttQ["kPrioNormal"]
<1>1. /\ mqttQ \in Queues(MqttMsgs) /\ Distinct(mqttQ, MqttKey) /\ CountFirst /\ CountHigh
      /\ m.car \in Cars
  BY KeyTypes DEF TypeOK, QueueInv, OrderInv
<1>2. ASSUME NEW x \in Held(mqttQ)
      PROVE  x \in MqttMsgs /\ (x.car = m.car => (x.type = "CNT" <=> m.type # "CNT"))
  BY <1>1, HeldType DEF Told
<1>3. \A x \in Held(mqttQ) : MqttKey[x] # <<m.car, k>> /\ MqttKey[x] # MqttKey[m]
  BY <1>2, KeyTypes
<1>4. Size(mqttQ) < Cardinality(Cars \X {1, 2})
  <2>1. IsFiniteSet(Cars \X {1, 2})
    BY TwoIsFinite, FS_Product DEF Roomy
  <2>2. <<m.car, k>> \in Cars \X {1, 2}
    BY <1>1
  <2> DEFINE key == <<m.car, k>>
  <2>3. \A x \in Held(mqttQ) : MqttKey[x] # key
    BY <1>3
  <2>4. MqttKey \in [MqttMsgs -> Cars \X {1, 2}]
    BY KeyTypes
  <2> HIDE DEF key
  <2> QED BY <1>1, <2>1, <2>2, <2>3, <2>4, HasRoom DEF key
<1>5. Size(mqttQ) < MqttCap
  <2>1. Size(mqttQ) \in Nat
    BY <1>1 DEF Size, Queues, Prios
  <2>2. Cardinality(Cars \X {1, 2}) \in Nat
    <3>1. IsFiniteSet(Cars \X {1, 2})
      BY TwoIsFinite, FS_Product DEF Roomy
    <3> QED BY <3>1, FS_CardinalityType
  <2> QED BY <1>4, <2>1, <2>2, CapAssumption DEF Roomy
<1>6. Held(mqttQ') = Held(mqttQ) \cup {m} /\ Distinct(mqttQ', MqttKey)
  BY <1>1, <1>3, <1>5, SentHolds DEF SendMqtt
<1>7. mqttQ' = [mqttQ EXCEPT ![p] = Append(@, m)] /\ H \in Seq(MqttMsgs) /\ L \in Seq(MqttMsgs)
  BY <1>1, <1>5 DEF SendMqtt, Sent, Queues, Prios
<1>8. CountHigh'
  <2>1. CASE p = "kPrioHigh"
    BY <1>1, <1>7, <2>1 DEF CountHigh, Queues, Prios
  <2>2. CASE p = "kPrioNormal"
    <3>1. mqttQ'["kPrioNormal"] = Append(L, m) /\ m.type # "CNT"
      BY <1>1, <1>7, <2>2 DEF Queues, Prios
    <3> QED BY <1>1, <1>7, <3>1 DEF CountHigh
  <2> QED BY <2>1, <2>2 DEF Prios
<1>9. CountFirst'
  <2>1. CASE p = "kPrioNormal"
    BY <1>1, <1>7, <2>1 DEF CountFirst, Queues, Prios
  <2>2. CASE p = "kPrioHigh"
    <3>1. mqttQ'["kPrioHigh"] = Append(H, m)
      BY <1>1, <1>7, <2>2 DEF Queues, Prios
    <3>2. \A i \in DOMAIN H : H[i] \in Held(mqttQ)
      BY DEF Held, Prios
    <3> SUFFICES ASSUME NEW i \in 1..Len(H) + 1, NEW j \in 1..Len(H) + 1,
                        Append(H, m)[i].car = Append(H, m)[j].car,
                        Append(H, m)[i].type = "CNT", Append(H, m)[j].type # "CNT"
                 PROVE  i < j
      BY <1>7, <3>1 DEF CountFirst
    <3>3. CASE i = Len(H) + 1
      <4>1. m.type = "CNT" /\ Told(m.car) = {} /\ j \in DOMAIN H /\ H[j].car = m.car
        BY <1>7, <3>3
      <4> QED BY <3>2, <4>1 DEF Told
    <3>4. CASE i # Len(H) + 1 /\ j = Len(H) + 1
      BY <1>7, <3>4
    <3>5. CASE i # Len(H) + 1 /\ j # Len(H) + 1
      <4>1. /\ i \in DOMAIN H /\ j \in DOMAIN H
            /\ Append(H, m)[i] = H[i] /\ Append(H, m)[j] = H[j]
        BY <1>7, <3>5
      <4> QED BY <1>1, <4>1 DEF CountFirst
    <3> QED BY <3>3, <3>4, <3>5
  <2> QED BY <2>1, <2>2 DEF Prios
<1>10. Distinct(mqttQ, MqttKey)'
  BY <1>6 DEF Distinct
<1> QED BY <1>6, <1>8, <1>9, <1>10 DEF Told, OrderInv

LEMMA MqttTaken ==
  ASSUME TypeOK, QueueInv, HasMessage(mqttQ), mqttQ' = Remaining(mqttQ), NEW m,
         m = Received(mqttQ)
  PROVE  /\ m \in MqttMsgs /\ m.car \in Cars /\ m \in Told(m.car) /\ OrderInv'
         /\ Told(m.car)' = Told(m.car) \ {m}
         /\ \A d \in Cars \ {m.car} : Told(d)' = Told(d)
         /\ m.type # "CNT" => \A x \in Told(m.car) : x.type # "CNT"
<1> DEFINE H == mqttQ["kPrioHigh"]
           L == mqttQ["kPrioNormal"]
<1>1. mqttQ \in Queues(MqttMsgs) /\ Distinct(mqttQ, MqttKey) /\ CountFirst /\ CountHigh
  BY DEF TypeOK, QueueInv, OrderInv
<1>2. m \in MqttMsgs /\ m.car \in Cars
  BY <1>1, QueueType, KeyTypes
<1>3. /\ m \in Held(mqttQ)
      /\ Held(mqttQ') = Held(mqttQ) \ {m} /\ Distinct(mqttQ', MqttKey)
  BY <1>1, ReceivedHeld
<1>4. H \in Seq(MqttMsgs) /\ L \in Seq(MqttMsgs)
  BY <1>1 DEF Queues, Prios
<1>5. CASE H # <<>>
  <2>1. mqttQ'["kPrioHigh"] = Tail(H) /\ mqttQ'["kPrioNormal"] = L /\ m = H[1]
    BY <1>1, <1>5 DEF Remaining, Received, TopPrio, Queues, Prios
  <2>2. \A i \in 1..Len(H) - 1 : Tail(H)[i] = H[i + 1] /\ i + 1 \in DOMAIN H
    BY <1>4, <1>5
  <2>3. Len(H) \in Nat /\ DOMAIN Tail(H) = 1..Len(H) - 1
    BY <1>4, <1>5
  <2>4. CountFirst'
    BY <1>1, <2>1, <2>2, <2>3 DEF CountFirst
  <2>5. CountHigh'
    BY <1>1, <2>1 DEF CountHigh
  <2>6. ASSUME m.type # "CNT", NEW x \in Told(m.car), x.type = "CNT"
        PROVE  FALSE
    <3>1. PICK i \in DOMAIN H : x = H[i]
      BY <1>1, <2>6 DEF Told, Held, CountHigh, Prios
    <3>2. 1 \in DOMAIN H /\ i < 1
      BY <1>1, <1>4, <1>5, <2>1, <2>6, <3>1 DEF CountFirst, Told
    <3> QED BY <1>4, <3>2
  <2> QED BY <1>2, <1>3, <2>4, <2>5, <2>6 DEF Told, OrderInv, Distinct
<1>6. CASE H = <<>>
  <2>1. mqttQ'["kPrioHigh"] = H /\ mqttQ'["kPrioNormal"] = Tail(L) /\ L # <<>>
    BY <1>1, <1>6 DEF Remaining, Received, TopPrio, Queues, Prios, HasMessage
  <2>2. CountFirst'
    BY <1>1, <2>1 DEF CountFirst
  <2>3. \A i \in DOMAIN Tail(L) : i + 1 \in DOMAIN L /\ Tail(L)[i] = L[i + 1]
    BY <1>4, <2>1
  <2>4. CountHigh'
    BY <1>1, <2>1, <2>3 DEF CountHigh
  <2>5. \A x \in Held(mqttQ) : x.type # "CNT"
    BY <1>1, <1>6 DEF CountHigh, Held, Prios
  <2> QED BY <1>2, <1>3, <2>2, <2>4, <2>5 DEF Told, OrderInv, Distinct
<1> QED BY <1>5, <1>6

LEMMA NewsSent ==
  ASSUME TypeOK, QueueInv, NEW ev \in Events, News(ev.car) = {}, Report(ev)
  PROVE  /\ News(ev.car)' = {ev}
         /\ \A d \in Cars \ {ev.car} : News(d)' = News(d)
         /\ OneReport'
<1> DEFINE n == Len(events) + 1
<1>1. events \in Seq(Events) /\ events' = Append(events, ev) /\ n \in Nat
  BY DEF TypeOK, Report
<1>2. DOMAIN events' = 1..n /\ events'[n] = ev /\ DOMAIN events = 1..n - 1
  BY <1>1
<1>3. \A i \in 1..n - 1 : events'[i] = events[i]
  BY <1>1
<1>4. Reported' = Reported \cup {ev}
  BY <1>1, <1>2, <1>3 DEF Reported
<1>5. \A i \in DOMAIN events : events[i].car # ev.car
  BY DEF News, Reported
<1>6. \A i, j \in DOMAIN events : events[i].car = events[j].car => i = j
  BY DEF QueueInv, OneReport
<1>7. \A i, j \in DOMAIN events' : events'[i].car = events'[j].car => i = j
  BY <1>1, <1>2, <1>3, <1>5, <1>6
<1> QED BY <1>4, <1>7 DEF News, OneReport

LEMMA NewsTaken ==
  ASSUME TypeOK, QueueInv, TakeEvent, NEW ev, ev = Head(events)
  PROVE  /\ ev \in Events /\ ev.car \in Cars /\ ev \in News(ev.car)
         /\ News(ev.car)' = News(ev.car) \ {ev}
         /\ \A d \in Cars \ {ev.car} : News(d)' = News(d)
         /\ OneReport'
<1>1. /\ events \in Seq(Events) /\ events # <<>> /\ events' = Tail(events) /\ ev = events[1]
      /\ Len(events) \in Nat /\ DOMAIN events = 1..Len(events) /\ 1 \in DOMAIN events
  BY DEF TypeOK, TakeEvent
<1>2. ev \in Events /\ ev.car \in Cars
  <2>1. ev \in Events
    BY <1>1
  <2>2. \A x \in Events : x.car \in Cars
    BY DEF Events
  <2> QED BY <2>1, <2>2
<1>3. /\ DOMAIN events' = 1..Len(events) - 1
      /\ \A i \in DOMAIN events' : events'[i] = events[i + 1] /\ i + 1 \in DOMAIN events
                                   /\ i + 1 # 1
  BY <1>1
<1>4. \A i \in DOMAIN events : i = 1 \/ \E j \in DOMAIN events' : events'[j] = events[i]
  <2> SUFFICES ASSUME NEW i \in DOMAIN events, i # 1
               PROVE  \E j \in DOMAIN events' : events'[j] = events[i]
    OBVIOUS
  <2>1. i - 1 \in DOMAIN events' /\ (i - 1) + 1 = i
    BY <1>1, <1>3
  <2> QED BY <1>3, <2>1
<1>5. \A i, j \in DOMAIN events : events[i].car = events[j].car => i = j
  BY DEF QueueInv, OneReport
<1>6. Reported' = Reported \ {ev}
  <2>1. \A i \in DOMAIN events' : events'[i] # ev /\ events'[i] \in Reported
    BY <1>1, <1>3, <1>5 DEF Reported
  <2>2. \A x \in Reported : x = ev \/ x \in Reported'
    BY <1>1, <1>4 DEF Reported
  <2> QED BY <2>1, <2>2 DEF Reported
<1>7. \A i, j \in DOMAIN events' : events'[i].car = events'[j].car => i = j
  <2> SUFFICES ASSUME NEW i \in DOMAIN events', NEW j \in DOMAIN events',
                      events'[i].car = events'[j].car
               PROVE  i = j
    OBVIOUS
  <2>1. i + 1 = j + 1
    BY <1>3, <1>5
  <2> QED BY <1>1, <1>3, <2>1
<1> QED BY <1>1, <1>2, <1>6, <1>7 DEF News, Reported, OneReport
-----------------------------------------------------------------------------
(* What a step does not touch stays as it is. *)

(* The step changes nothing about car c. *)
Same(c) ==
  /\ Tasks(c)' = Tasks(c) /\ Told(c)' = Told(c) /\ News(c)' = News(c) /\ (Due(c)' <=> Due(c))
  /\ Planner(c)' = Planner(c) /\ Router(c)' = Router(c) /\ bot'[c] = bot[c] /\ car'[c] = car[c]

LEMMA StageFrame ==
  ASSUME NEW c, Same(c)
  PROVE  /\ Resting(c) => Resting(c)'
         /\ OnMission(c) => OnMission(c)'
<1>1. /\ Unheard(c)' <=> Unheard(c)
      /\ Unplanned(c)' <=> Unplanned(c)
      /\ Unrouted(c)' <=> Unrouted(c)
  BY DEF Same, Unheard, Unplanned, Unrouted
<1>2. Record(c)' = Record(c)
  BY DEF Same, Record
<1>3. /\ Parked(c)' <=> Parked(c)
      /\ Free(c)' <=> Free(c)
      /\ Catching(c)' <=> Catching(c)
      /\ Counts(c)' <=> Counts(c)
      /\ AtNode(c)' <=> AtNode(c)
  BY <1>2 DEF Same, Parked, Free, Catching, Counts, AtNode
<1>4. Resting(c) => Resting(c)'
  BY <1>1, <1>3 DEF Resting
<1>5. /\ Ordered(c) => Ordered(c)'
      /\ Choosing(c) => Choosing(c)'
      /\ Chosen(c) => Chosen(c)'
      /\ Planned(c) => Planned(c)'
      /\ Starting(c) => Starting(c)'
  BY <1>1, <1>3 DEF Same, Ordered, Choosing, Chosen, Planned, Starting
<1>6. /\ Driving(c) => Driving(c)'
      /\ Reaching(c) => Reaching(c)'
      /\ Waiting(c) => Waiting(c)'
      /\ Directing(c) => Directing(c)'
  BY <1>1, <1>2, <1>3 DEF Same, Driving, Reaching, Waiting, Directing
<1>7. /\ Turning(c) => Turning(c)'
      /\ Parking(c) => Parking(c)'
      /\ Telling(c) => Telling(c)'
      /\ Arrived(c) => Arrived(c)'
  BY <1>1, <1>3 DEF Same, Turning, Parking, Telling, Arrived
<1> QED BY <1>4, <1>5, <1>6, <1>7 DEF OnMission

(* A message changes the queues of its kind only. *)
LEMMA ViewFrame ==
  /\ UNCHANGED taskQ  => \A c : Tasks(c)' = Tasks(c)
  /\ UNCHANGED mqttQ  => \A c : Told(c)' = Told(c)
  /\ UNCHANGED routeQ => \A c : Due(c)' <=> Due(c)
  /\ UNCHANGED events => \A c : News(c)' = News(c)
  /\ UNCHANGED plan   => \A c : Planner(c)' = Planner(c)
  /\ UNCHANGED route  => \A c : Router(c)' = Router(c)
BY DEF Tasks, Told, Due, News, Reported, Planner, Router, Held

LEMMA QueueFrame ==
  /\ UNCHANGED taskQ  => Distinct(taskQ, TaskKey)' = Distinct(taskQ, TaskKey)
  /\ UNCHANGED routeQ => Distinct(routeQ, RouteKey)' = Distinct(routeQ, RouteKey)
  /\ UNCHANGED mqttQ  => OrderInv' = OrderInv
  /\ UNCHANGED events => OneReport' = OneReport
BY DEF Distinct, OrderInv, CountFirst, CountHigh, OneReport

(* Planner and router work for one car at a time. *)
LEMMA PlannerMoves ==
  ASSUME plan.pc # "idle", NEW c, c = plan.msg.car,
         plan'.pc = "idle" \/ plan'.msg = plan.msg
  PROVE  /\ Planner(c) = plan /\ \A d : d # c => Planner(d)' = Planner(d)
         /\ plan'.pc # "idle" => Planner(c)' = plan'
         /\ plan'.pc = "idle" => Unplanned(c)'
BY DEF Planner, Unplanned, PlanIdle

LEMMA RouterMoves ==
  ASSUME route.pc # "idle", NEW c, c = route.car,
         route'.pc = "idle" \/ route'.car = route.car
  PROVE  /\ Router(c) = route /\ \A d : d # c => Router(d)' = Router(d)
         /\ route'.pc # "idle" => Router(c)' = route'
         /\ route'.pc = "idle" => Unrouted(c)'
BY DEF Router, Unrouted, RouteIdle

(* While no operator or topology request acts, a step about one car keeps  *)
(* the invariant if that car stays on its mission.                         *)
LEMMA OneCar ==
  ASSUME MissionInv, TypeOK', QueueInv', NEW c \in Cars, ~Resting(c), OnMission(c)',
         \A d \in Cars \ {c} : Same(d), bot'[c].dog = bot[c].dog,
         UNCHANGED <<sub, topo, budget>>
  PROVE  MissionInv'
<1>1. topo.pc = "idle" /\ sub.pc = "idle"
  BY DEF MissionInv, CalmInv
<1>2. \A d \in Cars : OnMission(d)'
  <2> SUFFICES ASSUME NEW d \in Cars, d # c PROVE OnMission(d)'
    OBVIOUS
  <2> QED BY StageFrame DEF MissionInv
<1>3. \A d \in Cars : ~bot'[d].dog
  BY DEF MissionInv, CalmInv, Same
<1>4. \A kind \in {"cancel", "obstacle", "place", "loss"} : budget'[kind] = 0
  BY DEF MissionInv, CalmInv
<1> QED BY <1>1, <1>2, <1>3, <1>4 DEF MissionInv, CalmInv

-----------------------------------------------------------------------------
(* Each thing in flight, and each mode of the car, tells the stage. *)

LEMMA StageByPlanner ==
  ASSUME NEW c, OnMission(c)
  PROVE  /\ Planner(c).pc = "cars"   => Choosing(c)
         /\ Planner(c).pc = "update" => Chosen(c)
         /\ Planner(c).pc \in {"scan", "free", "freePair", "count"} => Planned(c)
         /\ Planner(c).pc = "act"    => Starting(c)
         /\ Planner(c).pc # "fail"
BY DEF OnMission, Resting, Ordered, Choosing, Chosen, Planned, Starting, Driving, Reaching,
       Waiting, Turning, Directing, Parking, Telling, Arrived, Unplanned

LEMMA StageByRouter ==
  ASSUME NEW c, OnMission(c)
  PROVE  /\ Router(c).pc \in {"occupy", "occupyPair", "park"} => Parking(c)
         /\ Router(c).pc = "tell"    => Telling(c)
         /\ Router(c).pc = "orient"  => Turning(c)
         /\ Router(c).pc = "advance" => \/ Driving(c) \/ Reaching(c)
                                        \/ Waiting(c) \/ Directing(c)
BY DEF OnMission, Resting, Ordered, Choosing, Chosen, Planned, Starting, Driving, Reaching,
       Waiting, Turning, Directing, Parking, Telling, Arrived, Unrouted, Catching

LEMMA StageByMessage ==
  ASSUME NEW c, OnMission(c)
  PROVE  /\ Tasks(c) # {} => Ordered(c)
         /\ News(c) # {}  => Reaching(c)
         /\ Due(c)        => Waiting(c)
         /\ Told(c) # {}  => Starting(c) \/ Directing(c) \/ Arrived(c)
BY DEF OnMission, Resting, Ordered, Choosing, Chosen, Planned, Starting, Driving, Reaching,
       Waiting, Turning, Directing, Parking, Telling, Arrived, Unheard

LEMMA StageByMode ==
  ASSUME NEW c, OnMission(c)
  PROVE  /\ bot[c].mode = "follow" => Driving(c)
         /\ bot[c].mode = "approach" /\ bot[c].orient # "none" => Directing(c)
BY DEF OnMission, Resting, Ordered, Choosing, Chosen, Planned, Starting, Driving, Reaching,
       Waiting, Turning, Directing, Parking, Telling, Arrived, Free, Parked, AtNode

(* A car that stands and about which nothing is in flight rests. *)
LEMMA SettledMeansUnheard ==
  ASSUME NEW c, Settled(c)
  PROVE  Unheard(c) /\ Unplanned(c) /\ Unrouted(c)
BY DEF Settled, Unheard, Unplanned, Unrouted, Tasks, Told, News, Reported, Due,
       Planner, Router, PlanIdle, RouteIdle

LEMMA StandingRests ==
  ASSUME NEW c, OnMission(c), Settled(c)
  PROVE  \/ Resting(c) \/ Driving(c)
         \/ Directing(c) /\ bot[c].orient # "none" /\ Unrouted(c)
<1>1. Unheard(c) /\ Unplanned(c) /\ Unrouted(c)
  BY SettledMeansUnheard
<1>2. Tasks(c) = {} /\ Told(c) = {} /\ News(c) = {} /\ ~Due(c)
  BY <1>1 DEF Unheard
<1>3. Router(c).pc = "idle" /\ Planner(c).pc = "idle"
  BY <1>1 DEF Unrouted, Unplanned
<1>4. ~Ordered(c) /\ ~Choosing(c) /\ ~Chosen(c) /\ ~Planned(c)
  BY <1>2, <1>3 DEF Ordered, Choosing, Chosen, Planned
<1>5. ~Starting(c) /\ ~Reaching(c) /\ ~Waiting(c) /\ ~Turning(c)
  BY <1>1, <1>2, <1>3 DEF Starting, Reaching, Waiting, Turning
<1>6. ~Parking(c) /\ ~Telling(c) /\ ~Arrived(c)
  BY <1>2, <1>3 DEF Parking, Telling, Arrived
<1>7. Directing(c) => bot[c].orient # "none"
  <2>1. Directing(c) => bot[c].orient = Turn(bot[c].at[1], bot[c].at[2], Record(c).cur)
    BY <1>2 DEF Directing
  <2>2. "none" \notin TurnNames
    BY DEF TurnNames
  <2> QED BY <2>1, <2>2, TurnType
<1> QED BY <1>1, <1>4, <1>5, <1>6, <1>7 DEF OnMission
-----------------------------------------------------------------------------
(* Routes *)

(* Along a chain, a node is passed once: the target is reached with the    *)
(* last road and not before, and the router finds the road the car takes   *)
(* next.                                                                   *)
LEMMA AlongTheWay ==
  ASSUME NEW me \in CarRecords, NEW k, OnWay(me, k)
  PROVE  /\ Len(me.path) \in Nat \ {0} /\ k \in Nat /\ Last(me.path) = me.path[Len(me.path)]
         /\ me.cur = me.target <=> k = Len(me.path)
         /\ me.cur # me.target => /\ k + 1 \in DOMAIN me.path /\ Legs(me) = {k + 1}
                                  /\ From(me.path[k + 1]) = me.cur
<1> DEFINE p == me.path
           n == Len(p)
<1>1. /\ p \in Seq(Edges) /\ n \in Nat \ {0} /\ DOMAIN p = 1..n /\ k \in 0..n
      /\ Last(p) = p[n]
  BY DEF CarRecords, OnWay, Last
<1>2. /\ \A i \in 1..n : To(p[i]) # From(p[1])
      /\ \A i \in 1..n - 1 : To(p[i]) = From(p[i + 1])
      /\ \A i, j \in 1..n : To(p[i]) = To(p[j]) => i = j
  BY <1>1 DEF OnWay, IsChain
<1>3. me.target = To(p[n]) /\ me.cur = IF k = 0 THEN From(p[1]) ELSE To(p[k])
  BY <1>1 DEF OnWay
<1> HIDE DEF n
<1>4. me.cur = me.target <=> k = n
  BY <1>1, <1>2, <1>3
<1>5. ASSUME k # n
      PROVE  k + 1 \in 1..n /\ From(p[k + 1]) = me.cur /\ Legs(me) = {k + 1}
  <2>1. k + 1 \in 1..n
    BY <1>1, <1>5
  <2>2. From(p[k + 1]) = me.cur
    BY <1>1, <1>2, <1>3, <2>1
  <2>3. ASSUME NEW j \in 1..n, From(p[j]) = me.cur PROVE j = k + 1
    <3>1. CASE j = 1
      BY <1>1, <1>2, <1>3, <2>3, <3>1
    <3>2. CASE j # 1
      <4>1. j - 1 \in 1..n - 1 /\ (j - 1) + 1 = j /\ j - 1 \in 1..n
        BY <1>1, <3>2
      <4>2. To(p[j - 1]) = me.cur
        BY <1>2, <2>3, <4>1
      <4>3. k # 0 /\ k \in 1..n
        BY <1>1, <1>2, <1>3, <4>1, <4>2
      <4>4. j - 1 = k
        BY <1>2, <1>3, <4>1, <4>2, <4>3
      <4> QED BY <4>1, <4>4, <1>1
    <3> QED BY <3>1, <3>2
  <2>4. \A j \in 1..n : j > k + 1 => j # k + 1
    BY <1>1
  <2>5. Legs(me) = {k + 1}
    BY <1>1, <2>1, <2>2, <2>3, <2>4 DEF Legs
  <2> QED BY <2>1, <2>2, <2>5
<1> QED BY <1>1, <1>4, <1>5 DEF n

(* Taking it leads one road further, on the map. *)
LEMMA OneRoadFurther ==
  ASSUME NEW r \in RouteStates, NEW k, OnWay(r.rec, k), r.rec.cur # r.rec.target,
         r.eid = r.rec.path[k + 1]
  PROVE  OnWay(Advanced(r), k + 1) /\ Joined(Advanced(r)) /\ Advanced(r) \in CarRecords
<1>1. r.rec \in CarRecords /\ r.eid \in Edges
  BY DEF RouteStates
<1>2. /\ k \in Nat /\ k + 1 \in DOMAIN r.rec.path /\ From(r.eid) = r.rec.cur
      /\ Len(r.rec.path) \in Nat
  BY <1>1, AlongTheWay
<1>3. /\ Advanced(r).last = r.rec.cur /\ Advanced(r).cur = To(r.eid)
      /\ Advanced(r).path = r.rec.path /\ Advanced(r).status = r.rec.status
      /\ Advanced(r).target = r.rec.target
  BY <1>1 DEF Advanced, CarRecords
<1>4. k + 1 \in 0..Len(r.rec.path) /\ k + 1 # 0
  BY <1>1, <1>2 DEF CarRecords
<1>5. OnWay(Advanced(r), k + 1)
  BY <1>3, <1>4 DEF OnWay
<1>6. Joined(Advanced(r))
  BY <1>1, <1>2, <1>3 DEF Joined, Arcs, Arc
<1>7. Advanced(r) \in CarRecords
  BY <1>1, <1>2, MapType DEF Advanced, CarRecords
<1> QED BY <1>5, <1>6, <1>7

(* What find_path answers is a way to the target from the first road on. *)
LEMMA RouteOnWay ==
  ASSUME NEW me \in CarRecords, NEW c \in Cars, NEW t \in Targets, NEW start,
         start \in StartNodes(me, AssignTo(c, t), plan.edge),
         NEW p \in Answers(me, AssignTo(c, t), start)
  PROVE  LET new == Replanned(me, AssignTo(c, t), start, p)
         IN OnWay(new, 0) /\ new.last = me.last /\ new.cur = me.cur /\ new.target = t
<1> DEFINE msg == AssignTo(c, t)
           new == Replanned(me, msg, start, p)
<1>1. msg.imm = "kImme" /\ msg.action = "kAssign" /\ msg.target = t
  BY DEF AssignTo
<1> HIDE DEF msg
<1>2. start = me.cur
  BY <1>1 DEF StartNodes, msg
<1>3. TargetOf(me, msg) = t
  BY <1>1 DEF TargetOf
<1>4. p \in Routes /\ From(p[1]) = start /\ To(Last(p)) = t
  BY <1>3 DEF Answers, RoutesBetween, msg
<1>5. PICK n \in 1..Min2(MaxPathLen, NodeCount - 1) : p \in [1..n -> Edges] /\ IsChain(p)
  BY <1>4 DEF Routes
<1>6. p \in Seq(Edges) /\ p # <<>> /\ Len(p) \in Nat
  <2>1. p \in Seq(Edges) /\ Len(p) \in Nat
    BY <1>4, RouteType
  <2>2. n \in Nat \ {0} /\ DOMAIN p = 1..n
    BY <1>5, MapType, SizeAssumption DEF Min2
  <2>3. 1 \in DOMAIN p
    BY <2>2
  <2> QED BY <2>1, <2>3
<1>7. /\ new.status = "MOVING" /\ new.path = p /\ new.target = t /\ new.cur = me.cur
      /\ new.last = me.last
  BY <1>1, <1>2, <1>3 DEF Replanned, CarRecords
<1>8. OnWay(new, 0)
  BY <1>2, <1>4, <1>5, <1>6, <1>7 DEF OnWay
<1> QED BY <1>7, <1>8 DEF msg

(* The record that follows the car has the type and the plan of the one in *)
(* the shared memory.                                                      *)
LEMMA RecordFacts ==
  ASSUME TypeOK, NEW c \in Cars, Catching(c)
  PROVE  /\ Record(c) \in CarRecords /\ Record(c).path = car[c].path
         /\ Record(c).target = car[c].target
<1>1. car[c] \in CarRecords
  BY DEF TypeOK
<1>2. CASE Router(c).pc # "advance"
  BY <1>1, <1>2 DEF Record
<1>3. CASE Router(c).pc = "advance"
  <2>1. Router(c).rec = car[c] /\ Router(c).eid \in Edges
    BY <1>3 DEF Catching, Router, RouteIdle, TypeOK, RouteStates
  <2>2. Record(c) = [car[c] EXCEPT !.last = car[c].cur, !.cur = To(Router(c).eid)]
    BY <1>3, <2>1 DEF Record, Advanced
  <2>3. car[c].cur \in Nodes /\ To(Router(c).eid) \in Nodes
    BY <1>1, <2>1, MapType DEF CarRecords
  <2> QED BY <1>1, <2>2, <2>3 DEF CarRecords
<1> QED BY <1>2, <1>3
-----------------------------------------------------------------------------
(* Publisher and cars *)

(* A car reaches a node: it reports that, and stops there if that is its   *)
(* target.                                                                 *)
LEMMA ReachNodeMission ==
  ASSUME MissionInv, TypeOK', NEW c \in Cars, ReachNode(c)
  PROVE  MissionInv'
<1>1. TypeOK /\ QueueInv /\ bot[c] \in Bots
  BY DEF MissionInv, TypeOK
<1>2. Driving(c)
  BY StageByMode DEF MissionInv, ReachNode
<1>3. Event("ARRIVE", c) \in Events /\ Event("ARRIVE", c).car = c
  BY IdleTypes DEF Event
<1>4. /\ News(c)' = {Event("ARRIVE", c)} /\ OneReport'
      /\ \A d \in Cars \ {c} : News(d)' = News(d)
  BY <1>1, <1>2, <1>3, NewsSent DEF ReachNode, Driving, Unheard
<1>5. /\ \A d : /\ Tasks(d)' = Tasks(d) /\ Told(d)' = Told(d) /\ (Due(d)' <=> Due(d))
                /\ Planner(d)' = Planner(d) /\ Router(d)' = Router(d) /\ car'[d] = car[d]
      /\ UNCHANGED <<sub, topo, budget>>
  BY ViewFrame DEF ReachNode, shm, mqs
<1>6. QueueInv'
  BY <1>1, <1>4, QueueFrame DEF ReachNode, mqs, QueueInv
<1> DEFINE me == Record(c)
           k == bot[c].count
           done == bot[c].num # 0 /\ k + 1 >= bot[c].num + 1
<1>7. /\ bot'[c] = [bot[c] EXCEPT !.mode = IF done THEN "stopped" ELSE "approach",
                                  !.orient = "none", !.count = IF done THEN 0 ELSE @ + 1]
      /\ \A d \in Cars \ {c} : bot'[d] = bot[d]
  <2> DEFINE b == Entered(bot[c])
  <2>1. /\ b = [bot[c] EXCEPT !.mode = "approach", !.orient = "none", !.count = k + 1]
        /\ CountedOut(b, "stopped") = [bot[c] EXCEPT !.mode = "stopped", !.orient = "none", !.count = 0]
        /\ OverCount(b) <=> done
    BY <1>1 DEF Entered, CountedOut, OverCount, Bots
  <2>2. bot' = [bot EXCEPT ![c] = IF OverCount(b) THEN CountedOut(b, "stopped") ELSE b]
    BY DEF ReachNode, Becomes
  <2> HIDE DEF b, done
  <2>3. bot \in [Cars -> Bots]
    BY DEF MissionInv, TypeOK
  <2>4. /\ bot'[c] = IF done THEN [bot[c] EXCEPT !.mode = "stopped", !.orient = "none", !.count = 0]
                     ELSE [bot[c] EXCEPT !.mode = "approach", !.orient = "none", !.count = k + 1]
        /\ \A d \in Cars \ {c} : bot'[d] = bot[d]
    BY <2>1, <2>2, <2>3
  <2> QED BY <2>4
<1>8. Record(c)' = me /\ Catching(c)'
  BY <1>2, <1>5 DEF Record, Catching, Driving
<1>9. me \in CarRecords /\ OnWay(me, k) /\ bot[c].num = Len(me.path)
  BY <1>1, <1>2, RecordFacts DEF Driving, Counts
<1>10. done <=> me.cur = me.target
  <2>1. k \in Nat /\ Len(me.path) \in Nat \ {0} /\ k <= Len(me.path)
    BY <1>9, AlongTheWay DEF OnWay
  <2> QED BY <1>9, <2>1, AlongTheWay
<1>11. AtNode(c)'
  <2>1. /\ bot'[c].orient = "none" /\ bot'[c].at = Road(me) /\ bot'[c].num = Len(me.path)
    BY <1>1, <1>2, <1>7 DEF Driving, Counts, Bots
  <2>2. CASE me.cur = me.target
    <3>1. bot'[c].mode = "stopped" /\ OnWay(me, Len(me.path))
      BY <1>1, <1>7, <1>9, <1>10, <2>2, AlongTheWay DEF Bots
    <3> QED BY <1>8, <2>1, <2>2, <3>1 DEF AtNode, Counts
  <2>3. CASE me.cur # me.target
    <3>1. bot'[c].mode = "approach" /\ bot'[c].count = k + 1 /\ (k + 1) - 1 = k
      BY <1>1, <1>7, <1>10, <2>3 DEF Bots
    <3> QED BY <1>8, <1>9, <2>1, <2>3, <3>1 DEF AtNode, Counts
  <2> QED BY <2>2, <2>3
<1>12. Reaching(c)'
  BY <1>2, <1>4, <1>5, <1>8, <1>11 DEF Reaching, Driving, Unheard, Unplanned
<1>13. ~Resting(c) /\ OnMission(c)'
  BY <1>2, <1>12 DEF OnMission, Driving, Resting, Free, Parked
<1>14. \A d \in Cars \ {c} : Same(d)
  BY <1>4, <1>5, <1>7 DEF Same
<1>15. bot'[c].dog = bot[c].dog
  BY <1>1, <1>7 DEF Bots
<1> QED BY <1>5, <1>6, <1>13, <1>14, <1>15, OneCar

(* A car with a direction takes the road the router had in mind, the only  *)
(* one that direction can mean.                                            *)
LEMMA DecideMission ==
  ASSUME WellSigned, MissionInv, TypeOK', NEW c \in Cars, Decide(c)
  PROVE  MissionInv'
<1>1. TypeOK /\ QueueInv /\ bot[c] \in Bots
  BY DEF MissionInv, TypeOK
<1>2. Directing(c)
  BY StageByMode DEF MissionInv, Decide
<1> DEFINE me == Record(c)
           at == bot[c].at
           turn == Turn(at[1], at[2], me.cur)
<1>3. /\ Told(c) = {} /\ bot[c].orient = turn /\ turn \in TurnNames
  BY <1>2, TurnType DEF Directing, Decide
<1>4. turn # "ARRIVED"
  BY <1>3 DEF TurnNames
<1>5. /\ at \in Arcs /\ me.last = at[2] /\ <<at[2], me.cur>> \in Arcs /\ me \in CarRecords
      /\ OnWay(me, bot[c].count)
  BY <1>1, <1>2, RecordFacts DEF Directing, Joined, Bots
<1>6. Ahead(at, turn) = {me.cur}
  <2>1. me.cur \in Ahead(at, turn)
    BY <1>5 DEF Ahead, CarRecords
  <2> QED BY <1>3, <1>5, <2>1 DEF WellSigned
<1>7. /\ bot'[c] = [bot[c] EXCEPT !.mode = "follow", !.orient = "none", !.at = <<at[2], me.cur>>]
      /\ \A d \in Cars \ {c} : bot'[d] = bot[d]
  <2>1. Becomes(c, [bot[c] EXCEPT !.mode = "follow", !.orient = "none", !.at = <<@[2], me.cur>>])
    <3> HIDE DEF me, at, turn
    <3>1. Decide(c) /\ bot[c].orient # "ARRIVED" /\ Ahead(bot[c].at, bot[c].orient) = {me.cur}
      BY <1>3, <1>4, <1>6 DEF at
    <3> QED BY <3>1 DEF Decide
  <2> QED BY <1>1, <2>1 DEF Becomes, TypeOK, Bots
<1>8. /\ \A d : /\ Tasks(d)' = Tasks(d) /\ Told(d)' = Told(d) /\ (Due(d)' <=> Due(d))
                /\ Planner(d)' = Planner(d) /\ Router(d)' = Router(d) /\ car'[d] = car[d]
                /\ News(d)' = News(d)
      /\ UNCHANGED <<sub, topo, budget>>
  BY ViewFrame DEF Decide, shm, mqs
<1>9. QueueInv'
  BY <1>1, QueueFrame DEF Decide, mqs, QueueInv
<1>10. Record(c)' = me /\ Catching(c)'
  BY <1>2, <1>8 DEF Record, Catching, Directing
<1>11. /\ bot'[c].mode = "follow" /\ bot'[c].orient = "none" /\ bot'[c].at = Road(me)
       /\ bot'[c].num = bot[c].num /\ bot'[c].count = bot[c].count /\ bot'[c].dog = bot[c].dog
  BY <1>1, <1>5, <1>7 DEF Bots, Road
<1>12. Driving(c)'
  BY <1>2, <1>3, <1>5, <1>8, <1>10, <1>11
     DEF Driving, Directing, Unheard, Unplanned, Counts
<1>13. ~Resting(c) /\ OnMission(c)'
  BY <1>2, <1>12 DEF OnMission, Directing, Resting, Free, Parked
<1>14. \A d \in Cars \ {c} : Same(d)
  BY <1>7, <1>8 DEF Same
<1> QED BY <1>8, <1>9, <1>11, <1>13, <1>14, OneCar

(* A car obeys: count, order to go, direction, and the word that it has    *)
(* arrived, each when it stands or waits for it.                           *)
LEMMA PublishMission ==
  ASSUME MissionInv, TypeOK', Publish
  PROVE  MissionInv'
<1>0. PICK m : m = Received(mqttQ)
  OBVIOUS
<1> DEFINE c == m.car
<1>1. TypeOK /\ QueueInv /\ HasMessage(mqttQ) /\ mqttQ' = Remaining(mqttQ)
  BY DEF MissionInv, Publish
<1>2. /\ m \in MqttMsgs /\ c \in Cars /\ m \in Told(c) /\ OrderInv'
      /\ Told(c)' = Told(c) \ {m}
      /\ \A d \in Cars \ {c} : Told(d)' = Told(d)
      /\ m.type # "CNT" => \A x \in Told(c) : x.type # "CNT"
  BY <1>0, <1>1, MqttTaken
<1>3. PICK b \in After(bot[c], m) : Becomes(c, b)
  BY <1>0 DEF Publish
<1>4. /\ \A d : /\ Tasks(d)' = Tasks(d) /\ (Due(d)' <=> Due(d)) /\ News(d)' = News(d)
                /\ Planner(d)' = Planner(d) /\ Router(d)' = Router(d) /\ car'[d] = car[d]
      /\ UNCHANGED <<sub, topo, budget>>
  BY ViewFrame DEF Publish, shm
<1>5. QueueInv'
  BY <1>1, <1>2, QueueFrame DEF Publish, QueueInv
<1>6. bot[c] \in Bots /\ bot'[c] = b /\ \A d \in Cars \ {c} : bot'[d] = bot[d]
  BY <1>1, <1>2, <1>3 DEF Becomes, TypeOK
<1>7. \A d \in Cars \ {c} : Same(d)
  BY <1>2, <1>4, <1>6 DEF Same
<1>8. Record(c)' = Record(c) /\ (Catching(c)' <=> Catching(c))
  BY <1>4 DEF Record, Catching
<1>9. CASE Starting(c)
  <2> DEFINE n == Len(car[c].path)
  <2>1. CASE m = CountTo(c, n)
    <3>1. b = Counting(bot[c], n)
      BY <1>3, <2>1 DEF After, CountTo
    <3>2. /\ b.num = n /\ b.count = 0 /\ b.mode = bot[c].mode /\ b.orient = bot[c].orient
          /\ b.at = bot[c].at /\ b.dog = bot[c].dog
      BY <1>6, <3>1 DEF Counting, Bots
    <3>3. Go(c) # m
      BY <2>1 DEF Go, CountTo
    <3>4. Starting(c)' /\ ~Resting(c)
      BY <1>2, <1>4, <1>6, <1>9, <3>2, <3>3
         DEF Starting, Unrouted, Unplanned, Parked, Resting, Free, OnWay
    <3> QED BY <1>2, <1>4, <1>5, <1>6, <1>7, <3>2, <3>4, OneCar DEF MissionInv, OnMission
  <2>2. CASE m = Go(c)
    <3>1. m.type # "CNT" /\ CountTo(c, n).type = "CNT"
      BY <2>2 DEF Go, CountTo
    <3>2. Told(c)' = {} /\ CountTo(c, n) \notin Told(c) /\ Unplanned(c)
      BY <1>2, <1>9, <2>2, <3>1 DEF Starting
    <3>3. b = Resumed(bot[c])
      BY <1>3, <2>2 DEF After, Go, Obeyed
    <3>4. bot[c].mode \in {"idle", "stopped"} /\ bot[c].num = n /\ bot[c].count = 0
      BY <1>9, <3>2 DEF Starting, Parked
    <3>5. /\ b.mode = "follow" /\ b.num = n /\ b.count = 0 /\ b.orient = bot[c].orient
          /\ b.at = bot[c].at /\ b.dog = bot[c].dog
      <4>1. ~OverCount(bot[c])
        BY <3>4, <1>6 DEF OverCount, Bots
      <4>2. b = [bot[c] EXCEPT !.mode = "follow"]
        BY <3>3, <3>4, <4>1 DEF Resumed, SetOff
      <4> QED BY <4>2, <3>4, <1>6 DEF Bots
    <3>6. Record(c) = car[c] /\ Catching(c)
      BY <1>9 DEF Record, Starting, Unrouted, Catching
    <3>7. Driving(c)' /\ ~Resting(c)
      BY <1>2, <1>4, <1>6, <1>8, <1>9, <3>2, <3>5, <3>6
         DEF Driving, Starting, Counts, Unheard, Unplanned, Parked, Resting, Free, OnWay
    <3> QED BY <1>2, <1>4, <1>5, <1>6, <1>7, <3>5, <3>7, OneCar DEF MissionInv, OnMission
  <2> QED BY <1>2, <1>9, <2>1, <2>2 DEF Starting
<1>10. CASE Directing(c)
  <2> DEFINE turn == Turn(bot[c].at[1], bot[c].at[2], Record(c).cur)
  <2>1. m = Direct(c, turn) /\ Told(c)' = {}
    BY <1>2, <1>10 DEF Directing
  <2>2. b = Directed(bot[c], turn)
    BY <1>3, <2>1 DEF After, Direct
  <2>3. /\ b.mode = bot[c].mode /\ b.num = bot[c].num /\ b.count = bot[c].count
        /\ b.orient = turn /\ b.at = bot[c].at /\ b.dog = bot[c].dog
    BY <1>6, <2>2 DEF Directed, Bots
  <2>4. Directing(c)' /\ ~Resting(c)
    BY <1>2, <1>4, <1>6, <1>8, <1>10, <2>1, <2>3
       DEF Directing, Counts, Unplanned, Resting, Free, Parked
  <2> QED BY <1>2, <1>4, <1>5, <1>6, <1>7, <2>3, <2>4, OneCar DEF MissionInv, OnMission
<1>11. CASE Arrived(c)
  <2>1. m = Direct(c, "ARRIVED") /\ Told(c)' = {}
    BY <1>2, <1>11 DEF Arrived
  <2>2. b = Directed(bot[c], "ARRIVED")
    BY <1>3, <2>1 DEF After, Direct
  <2>3. /\ b.mode = bot[c].mode /\ b.orient = "ARRIVED" /\ b.at = bot[c].at /\ b.dog = bot[c].dog
    BY <1>6, <2>2 DEF Directed, Bots
  <2>4. Resting(c)' /\ ~Resting(c)
    BY <1>2, <1>4, <1>6, <1>11, <2>1, <2>3
       DEF Resting, Arrived, Unheard, Unplanned, Unrouted, Free, Parked
  <2> QED BY <1>2, <1>4, <1>5, <1>6, <1>7, <2>3, <2>4, OneCar DEF MissionInv, OnMission
<1>12. Starting(c) \/ Directing(c) \/ Arrived(c)
  BY <1>2, StageByMessage DEF MissionInv
<1> QED BY <1>9, <1>10, <1>11, <1>12
-----------------------------------------------------------------------------
(* Subscriber *)

(* The subscriber passes an arrival on; nothing else is reported.          *)
LEMMA SubMission ==
  ASSUME Roomy, MissionInv, TypeOK', SubStep
  PROVE  MissionInv'
<1>1. TypeOK /\ QueueInv /\ sub.pc = "idle"
  BY DEF MissionInv, CalmInv
<1>2. SubArrive \/ SubRead
  BY <1>1 DEF SubStep, SubMark, SubMarkPair, SubConclude, SubScan, SubFree, SubFreePair, SubPlace
<1>3. PICK ev : ev = Head(events)
  OBVIOUS
<1> DEFINE c == ev.car
<1>4. /\ c \in Cars /\ ev \in News(c) /\ OneReport' /\ News(c)' = News(c) \ {ev}
      /\ \A d \in Cars \ {c} : News(d)' = News(d)
  BY <1>1, <1>2, <1>3, NewsTaken DEF SubArrive, SubRead
<1>5. Reaching(c) /\ News(c) = {Event("ARRIVE", c)}
  <2>1. Reaching(c)
    BY <1>4, StageByMessage DEF MissionInv
  <2> QED BY <2>1 DEF Reaching
<1>6. ev.type = "ARRIVE" /\ News(c)' = {}
  <2>1. ev = Event("ARRIVE", c)
    BY <1>4, <1>5
  <2>2. News(c)' = {}
    BY <1>4, <1>5, <2>1
  <2>3. Event("ARRIVE", c).type = "ARRIVE"
    BY DEF Event
  <2> QED BY <2>1, <2>2, <2>3
<1>7. SubArrive /\ SendRoute(c)
  BY <1>2, <1>3, <1>6 DEF SubRead, SubArrive
<1>8. /\ \A d : /\ Tasks(d)' = Tasks(d) /\ Told(d)' = Told(d)
                /\ Planner(d)' = Planner(d) /\ Router(d)' = Router(d) /\ car'[d] = car[d]
                /\ bot'[d] = bot[d]
      /\ UNCHANGED <<sub, topo, budget>>
  BY <1>7, ViewFrame DEF SubArrive, shm
<1>9. /\ Due(c)' /\ Distinct(routeQ, RouteKey)'
      /\ \A d \in Cars \ {c} : Due(d)' <=> Due(d)
  BY <1>1, <1>4, <1>5, <1>7, RouteSent DEF Reaching
<1>10. QueueInv'
  BY <1>1, <1>4, <1>7, <1>9, QueueFrame DEF SubArrive, QueueInv
<1>11. /\ Record(c)' = Record(c) /\ (Catching(c)' <=> Catching(c))
       /\ (AtNode(c)' <=> AtNode(c))
  BY <1>8 DEF Record, Catching, AtNode, Counts
<1>12. Waiting(c)' /\ ~Resting(c)
  BY <1>5, <1>6, <1>8, <1>9, <1>11 DEF Waiting, Reaching, Unplanned, Resting, Unheard
<1>13. \A d \in Cars \ {c} : Same(d)
  BY <1>4, <1>8, <1>9 DEF Same
<1> QED BY <1>4, <1>8, <1>10, <1>12, <1>13, OneCar DEF OnMission

-----------------------------------------------------------------------------
(* Router *)

(* The router finds the car where its plan says it is: at the target, or   *)
(* before the next road.                                                   *)
LEMMA RouteTakeMission ==
  ASSUME MissionInv, TypeOK', RouteTake
  PROVE  MissionInv'
<1>1. TypeOK /\ QueueInv
  BY DEF MissionInv
<1>2. PICK c : c = Received(routeQ)
  OBVIOUS
<1>3. /\ c \in Cars /\ Due(c) /\ ~Due(c)' /\ Distinct(routeQ, RouteKey)'
      /\ \A d \in Cars \ {c} : Due(d)' <=> Due(d)
  BY <1>1, <1>2, RouteTaken DEF RouteTake
<1>4. Waiting(c)
  BY <1>3, StageByMessage DEF MissionInv
<1>5. /\ \A d : /\ Tasks(d)' = Tasks(d) /\ Told(d)' = Told(d) /\ News(d)' = News(d)
                /\ Planner(d)' = Planner(d) /\ car'[d] = car[d] /\ bot'[d] = bot[d]
      /\ UNCHANGED <<sub, topo, budget>>
  BY ViewFrame DEF RouteTake, shm
<1>6. QueueInv'
  BY <1>1, <1>3, QueueFrame DEF RouteTake, QueueInv
<1> DEFINE me == car[c]
           k == bot[c].count - 1
<1>7. route.pc = "idle" /\ Record(c) = me /\ me \in CarRecords /\ bot[c].count \in Nat
  BY <1>1, <1>3 DEF RouteTake, Record, Router, RouteIdle, TypeOK, Bots
<1>8. /\ me.cur = me.target => OnWay(me, Len(me.path))
      /\ me.cur # me.target => OnWay(me, k)
  BY <1>4, <1>7 DEF Waiting, AtNode
<1>9. me.cur = me.target => LastEdge(me) = Last(me.path)
  BY <1>8 DEF LastEdge, OnWay
<1>10. me.cur # me.target =>
         /\ Legs(me) = {bot[c].count} /\ bot[c].count \in DOMAIN me.path
         /\ k + 1 = bot[c].count
  <2> SUFFICES ASSUME me.cur # me.target
               PROVE  /\ Legs(me) = {bot[c].count} /\ bot[c].count \in DOMAIN me.path
                      /\ k + 1 = bot[c].count
    OBVIOUS
  <2>1. Legs(me) = {k + 1} /\ k + 1 \in DOMAIN me.path
    BY <1>7, <1>8, AlongTheWay
  <2>2. k + 1 = bot[c].count
    BY <1>7
  <2> HIDE DEF k, me
  <2> QED BY <2>1, <2>2
<1>11. route' = IF me.cur = me.target
                THEN [pc |-> "occupy", car |-> c, rec |-> me, eid |-> Last(me.path)]
                ELSE [pc |-> "orient", car |-> c, rec |-> me, eid |-> me.path[bot[c].count]]
  <2> HIDE DEF me
  <2> QED BY <1>2, <1>9, <1>10 DEF RouteTake, me
<1>12. route'.pc # "idle" /\ route'.car = c
  BY <1>11
<1>13. Router(c)' = route' /\ \A d : d # c => Router(d)' = Router(d)
  BY <1>7, <1>12 DEF Router
<1>14. Record(c)' = me
  BY <1>5, <1>11, <1>13 DEF Record
<1>15. AtNode(c)'
  BY <1>4, <1>5, <1>7, <1>14 DEF Waiting, AtNode, Counts
<1>16. CASE me.cur = me.target
  <2>1. Parking(c)' /\ ~Resting(c)
    BY <1>3, <1>4, <1>5, <1>11, <1>13, <1>15, <1>16
       DEF Parking, Waiting, Unheard, Unplanned, Resting
  <2> QED BY <1>3, <1>5, <1>6, <1>13, <2>1, OneCar DEF OnMission, Same
<1>17. CASE me.cur # me.target
  <2>1. Turning(c)' /\ ~Resting(c)
    BY <1>3, <1>4, <1>5, <1>10, <1>11, <1>13, <1>15, <1>17
       DEF Turning, Waiting, Unheard, Unplanned, Resting
  <2> QED BY <1>3, <1>5, <1>6, <1>13, <2>1, OneCar DEF OnMission, Same
<1> QED BY <1>16, <1>17

(* The router sends the direction of the next road, and then writes that   *)
(* the car is on it: neither order of the two and of the car's own steps   *)
(* takes the record off the car's way.                                     *)
LEMMA RouteOrientMission ==
  ASSUME Roomy, MissionInv, TypeOK', RouteOrient
  PROVE  MissionInv'
<1>1. TypeOK /\ QueueInv /\ route \in RouteStates
  BY DEF MissionInv, TypeOK
<1>2. PICK c : c = route.car
  OBVIOUS
<1>3. c \in Cars /\ route'.pc = "advance" /\ route' = [route EXCEPT !.pc = "advance"]
  BY <1>1, <1>2 DEF RouteOrient, RouteStates
<1>4. route.pc = "orient" /\ route'.car = route.car
  BY <1>1 DEF RouteOrient, RouteStates
<1>5. /\ Router(c) = route /\ Router(c)' = route' /\ \A d : d # c => Router(d)' = Router(d)
  BY <1>2, <1>3, <1>4, RouterMoves
<1>6. Turning(c)
  BY <1>3, <1>4, <1>5, StageByRouter DEF MissionInv
<1> DEFINE me == car[c]
           k == bot[c].count - 1
           turn == Turn(me.last, me.cur, To(route.eid))
           m == Direct(c, turn)
<1>7. route.rec = me /\ me \in CarRecords /\ me.cur # me.target /\ route.eid = me.path[bot[c].count]
  BY <1>1, <1>3, <1>5, <1>6 DEF Turning, TypeOK
<1>8. /\ Record(c) = me /\ Told(c) = {} /\ bot[c].orient = "none" /\ bot[c].at = Road(me)
      /\ bot[c].num = Len(me.path) /\ bot[c].mode = "approach" /\ OnWay(me, k)
      /\ k + 1 = bot[c].count
  <2>1. Record(c) = me
    BY <1>4, <1>5 DEF Record
  <2>2. bot[c].count \in Nat
    BY <1>1, <1>3 DEF TypeOK, Bots
  <2> QED BY <1>6, <1>7, <2>1, <2>2 DEF Turning, AtNode, Counts, Unheard
<1>9. /\ OnWay(Advanced(route), k + 1) /\ Joined(Advanced(route))
  <2>1. route.eid = route.rec.path[k + 1]
    BY <1>7, <1>8
  <2>2. OnWay(route.rec, k) /\ route.rec.cur # route.rec.target
    BY <1>7, <1>8
  <2> HIDE DEF k
  <2> QED BY <1>1, <2>1, <2>2, OneRoadFurther
<1>10. /\ Advanced(route).last = me.cur /\ Advanced(route).cur = To(route.eid)
       /\ Advanced(route).path = me.path
  BY <1>7 DEF Advanced, CarRecords
<1>11. m \in MqttMsgs /\ m.car = c /\ m.type = "ORIENT" /\ SendMqtt("kPrioHigh", m)
  <2>1. turn \in TurnNames
    BY TurnType
  <2>2. m \in MqttMsgs
    BY <1>3, <2>1 DEF Direct, MqttMsgs
  <2> QED BY <1>2, <1>7, <2>2 DEF Direct, RouteOrient
<1>12. /\ Told(c)' = {m} /\ OrderInv' /\ \A d \in Cars \ {c} : Told(d)' = Told(d)
  <2> HIDE DEF m
  <2> QED BY <1>1, <1>8, <1>11, MqttSent DEF Prios
<1>13. /\ \A d : /\ Tasks(d)' = Tasks(d) /\ (Due(d)' <=> Due(d)) /\ News(d)' = News(d)
                 /\ Planner(d)' = Planner(d) /\ car'[d] = car[d] /\ bot'[d] = bot[d]
       /\ UNCHANGED <<sub, topo, budget>>
  BY ViewFrame DEF RouteOrient, shm
<1>14. QueueInv'
  BY <1>1, <1>12, QueueFrame DEF RouteOrient, QueueInv
<1>15. Record(c)' = Advanced(route) /\ Catching(c)'
  <2>1. route'.pc = "advance" /\ route'.rec = route.rec /\ route'.eid = route.eid
    BY <1>1, <1>3 DEF RouteStates
  <2>2. Advanced(route') = Advanced(route)
    BY <2>1 DEF Advanced
  <2>3. k \in Nat /\ NextRoad(route', k)
    <3>1. k \in Nat
      BY <1>7, <1>8, AlongTheWay
    <3> QED BY <1>7, <1>8, <2>1, <3>1 DEF NextRoad
  <2> HIDE DEF k
  <2> QED BY <1>5, <1>7, <1>13, <2>1, <2>2, <2>3 DEF Record, Catching
<1>16. Directing(c)'
  <2>1. Turn(bot'[c].at[1], bot'[c].at[2], Record(c)'.cur) = turn
    BY <1>8, <1>10, <1>13, <1>15 DEF Road
  <2>2. Told(c)' = {Direct(c, Turn(bot'[c].at[1], bot'[c].at[2], Record(c)'.cur))}
    BY <1>12, <2>1
  <2>3. Record(c)'.last = bot'[c].at[2] /\ bot'[c].num = Len(Record(c)'.path)
    BY <1>8, <1>10, <1>13, <1>15 DEF Road
  <2>4. OnWay(Record(c)', bot'[c].count) /\ Joined(Record(c)')
    BY <1>8, <1>9, <1>13, <1>15
  <2> QED BY <1>6, <1>8, <1>13, <1>15, <2>2, <2>3, <2>4
          DEF Directing, Turning, Counts, Unheard, Unplanned
<1>17. ~Resting(c) /\ OnMission(c)'
  BY <1>4, <1>5, <1>16 DEF Resting, Unrouted, OnMission
<1>18. \A d \in Cars \ {c} : Same(d)
  BY <1>5, <1>12, <1>13 DEF Same
<1> QED BY <1>3, <1>13, <1>14, <1>17, <1>18, OneCar
(* The road the car parks on is marked; the mission goes on unchanged. *)
LEMMA RouteOccupyMission ==
  ASSUME MissionInv, TypeOK', RouteOccupy \/ RouteOccupyPair
  PROVE  MissionInv'
<1>1. TypeOK /\ QueueInv /\ route \in RouteStates
  BY DEF MissionInv, TypeOK
<1>2. PICK c : c = route.car
  OBVIOUS
<1>3. /\ c \in Cars /\ route.pc \in {"occupy", "occupyPair"}
      /\ route'.pc \in {"occupyPair", "park"} /\ route'.car = route.car
      /\ route'.rec = route.rec /\ route'.eid = route.eid
  BY <1>1, <1>2 DEF RouteOccupy, RouteOccupyPair, RouteStates
<1>4. Router(c) = route /\ Router(c)' = route' /\ \A d : d # c => Router(d)' = Router(d)
  BY <1>2, <1>3, RouterMoves
<1>5. Parking(c)
  BY <1>3, <1>4, StageByRouter DEF MissionInv
<1>6. /\ \A d : /\ Tasks(d)' = Tasks(d) /\ Told(d)' = Told(d) /\ (Due(d)' <=> Due(d))
                /\ News(d)' = News(d)
                /\ Planner(d)' = Planner(d) /\ car'[d] = car[d] /\ bot'[d] = bot[d]
      /\ UNCHANGED <<sub, topo, budget>>
  BY ViewFrame DEF RouteOccupy, RouteOccupyPair, mqs
<1>7. QueueInv'
  BY <1>1, QueueFrame DEF RouteOccupy, RouteOccupyPair, mqs, QueueInv
<1>8. Record(c)' = Record(c)
  BY <1>3, <1>4, <1>6 DEF Record
<1>9. Parking(c)' /\ ~Resting(c)
  BY <1>3, <1>4, <1>5, <1>6, <1>8
     DEF Parking, AtNode, Counts, Unheard, Unplanned, Resting, Unrouted
<1>10. \A d \in Cars \ {c} : Same(d)
  BY <1>4, <1>6 DEF Same
<1> QED BY <1>3, <1>6, <1>7, <1>9, <1>10, OneCar DEF OnMission

(* The mission is over: the record says so before the car is told.         *)
LEMMA RouteParkMission ==
  ASSUME MissionInv, TypeOK', RoutePark
  PROVE  MissionInv'
<1>1. TypeOK /\ QueueInv /\ route \in RouteStates
  BY DEF MissionInv, TypeOK
<1>2. PICK c : c = route.car
  OBVIOUS
<1>3. c \in Cars /\ route.pc = "park" /\ route'.pc = "tell" /\ route'.car = route.car
  BY <1>1, <1>2 DEF RoutePark, RouteStates
<1>4. Router(c) = route /\ Router(c)' = route' /\ \A d : d # c => Router(d)' = Router(d)
  BY <1>2, <1>3, RouterMoves
<1>5. Parking(c)
  BY <1>3, <1>4, StageByRouter DEF MissionInv
<1>6. /\ \A d : /\ Tasks(d)' = Tasks(d) /\ Told(d)' = Told(d) /\ (Due(d)' <=> Due(d))
                /\ News(d)' = News(d) /\ Planner(d)' = Planner(d) /\ bot'[d] = bot[d]
      /\ UNCHANGED <<sub, topo, budget>>
  BY ViewFrame DEF RoutePark, mqs
<1>7. QueueInv'
  BY <1>1, QueueFrame DEF RoutePark, mqs, QueueInv
<1>8. route.rec = car[c] /\ car[c] \in CarRecords /\ car[c].cur = car[c].target /\ Record(c) = car[c]
  BY <1>1, <1>3, <1>4, <1>5 DEF Parking, Record, TypeOK
<1>9. /\ car'[c] = [route.rec EXCEPT !.status = "IDLE", !.path = <<>>, !.start = route.rec.cur]
      /\ \A d \in Cars \ {c} : car'[d] = car[d]
  BY <1>1, <1>2, <1>3 DEF RoutePark, TypeOK
<1>10. /\ car'[c].status = "IDLE" /\ car'[c].path = <<>>
       /\ car'[c].last = car[c].last /\ car'[c].cur = car[c].cur
  BY <1>8, <1>9 DEF CarRecords
<1>11. Free(c)'
  BY <1>5, <1>6, <1>8, <1>10 DEF Parking, AtNode, Free, Parked, Road
<1>12. Telling(c)' /\ ~Resting(c)
  BY <1>3, <1>4, <1>5, <1>6, <1>11
     DEF Parking, Telling, Unheard, Unplanned, Resting, Unrouted
<1>13. \A d \in Cars \ {c} : Same(d)
  BY <1>4, <1>6, <1>9 DEF Same
<1> QED BY <1>3, <1>6, <1>7, <1>12, <1>13, OneCar DEF OnMission

(* The car is told that it has arrived. *)
LEMMA RouteTellMission ==
  ASSUME Roomy, MissionInv, TypeOK', RouteTell
  PROVE  MissionInv'
<1>1. TypeOK /\ QueueInv /\ route \in RouteStates
  BY DEF MissionInv, TypeOK
<1>2. PICK c : c = route.car
  OBVIOUS
<1>3. c \in Cars /\ route.pc = "tell" /\ route'.pc = "idle"
  BY <1>1, <1>2 DEF RouteTell, RouteStates, RouteIdle
<1>4. Router(c) = route /\ Unrouted(c)' /\ \A d : d # c => Router(d)' = Router(d)
  BY <1>2, <1>3, RouterMoves
<1>5. Telling(c)
  BY <1>3, <1>4, StageByRouter DEF MissionInv
<1> DEFINE m == Direct(c, "ARRIVED")
<1>6. m \in MqttMsgs /\ m.car = c /\ m.type = "ORIENT" /\ SendMqtt("kPrioNormal", m)
  BY <1>2, <1>3 DEF Direct, MqttMsgs, RouteTell
<1>7. /\ Told(c)' = {m} /\ OrderInv' /\ \A d \in Cars \ {c} : Told(d)' = Told(d)
  <2>1. Told(c) = {}
    BY <1>5 DEF Telling, Unheard
  <2> HIDE DEF m
  <2> QED BY <1>1, <1>6, <2>1, MqttSent DEF Prios
<1>8. /\ \A d : /\ Tasks(d)' = Tasks(d) /\ (Due(d)' <=> Due(d)) /\ News(d)' = News(d)
                /\ Planner(d)' = Planner(d) /\ car'[d] = car[d] /\ bot'[d] = bot[d]
      /\ UNCHANGED <<sub, topo, budget>>
  BY ViewFrame DEF RouteTell, shm
<1>9. QueueInv'
  BY <1>1, <1>7, QueueFrame DEF RouteTell, QueueInv
<1>10. Arrived(c)' /\ ~Resting(c)
  BY <1>3, <1>4, <1>5, <1>7, <1>8
     DEF Arrived, Telling, Unheard, Unplanned, Free, Parked, Resting, Unrouted
<1>11. \A d \in Cars \ {c} : Same(d)
  BY <1>4, <1>7, <1>8 DEF Same
<1> QED BY <1>3, <1>8, <1>9, <1>10, <1>11, OneCar DEF OnMission

(* The router writes what the mission already counts on. *)
LEMMA RouteAdvanceMission ==
  ASSUME MissionInv, TypeOK', RouteAdvance
  PROVE  MissionInv'
<1>1. TypeOK /\ QueueInv /\ route \in RouteStates
  BY DEF MissionInv, TypeOK
<1>2. PICK c : c = route.car
  OBVIOUS
<1>3. c \in Cars /\ route.pc = "advance" /\ route'.pc = "idle"
  BY <1>1, <1>2 DEF RouteAdvance, RouteStates, RouteIdle
<1>4. Router(c) = route /\ Unrouted(c)' /\ \A d : d # c => Router(d)' = Router(d)
  BY <1>2, <1>3, RouterMoves
<1>5. Driving(c) \/ Reaching(c) \/ Waiting(c) \/ Directing(c)
  BY <1>3, <1>4, StageByRouter DEF MissionInv
<1>6. /\ \A d : /\ Tasks(d)' = Tasks(d) /\ Told(d)' = Told(d) /\ (Due(d)' <=> Due(d))
                /\ News(d)' = News(d) /\ Planner(d)' = Planner(d) /\ bot'[d] = bot[d]
      /\ UNCHANGED <<sub, topo, budget>>
  BY ViewFrame DEF RouteAdvance, mqs
<1>7. QueueInv'
  BY <1>1, QueueFrame DEF RouteAdvance, mqs, QueueInv
<1>8. car'[c] = Advanced(route) /\ \A d \in Cars \ {c} : car'[d] = car[d]
  BY <1>1, <1>2, <1>3 DEF RouteAdvance, TypeOK, Advanced
<1>9. Record(c)' = Record(c) /\ Catching(c)'
  BY <1>3, <1>4, <1>8 DEF Record, Catching, Unrouted
<1>10. /\ (Counts(c)' <=> Counts(c)) /\ (AtNode(c)' <=> AtNode(c))
       /\ (Unheard(c)' <=> Unheard(c)) /\ (Unplanned(c)' <=> Unplanned(c))
  BY <1>6, <1>9 DEF Counts, AtNode, Unheard, Unplanned
<1>11. /\ Driving(c) => Driving(c)'
       /\ Reaching(c) => Reaching(c)'
       /\ Waiting(c) => Waiting(c)'
       /\ Directing(c) => Directing(c)'
  BY <1>6, <1>9, <1>10 DEF Driving, Reaching, Waiting, Directing
<1>12. ~Resting(c) /\ OnMission(c)'
  BY <1>3, <1>4, <1>5, <1>11 DEF Resting, Unrouted, OnMission
<1>13. \A d \in Cars \ {c} : Same(d)
  BY <1>4, <1>6, <1>8 DEF Same
<1> QED BY <1>3, <1>6, <1>7, <1>12, <1>13, OneCar
-----------------------------------------------------------------------------
(* Planner *)

(* The planner takes up the task of a car that waits for it. *)
LEMMA PlanTakeMission ==
  ASSUME MissionInv, TypeOK', PlanTake
  PROVE  MissionInv'
<1>1. TypeOK /\ QueueInv
  BY DEF MissionInv
<1>2. PICK m : m = Received(taskQ)
  OBVIOUS
<1>3. PICK c : c = m.car
  OBVIOUS
<1>4. /\ c \in Cars /\ m \in Tasks(c) /\ Distinct(taskQ, TaskKey)'
      /\ Tasks(c)' = Tasks(c) \ {m}
      /\ \A d \in Cars \ {c} : Tasks(d)' = Tasks(d)
  <2>1. Received(taskQ) = m /\ c = Received(taskQ).car
    BY <1>2, <1>3
  <2>2. /\ c \in Cars /\ Received(taskQ) \in Tasks(c) /\ Distinct(taskQ, TaskKey)'
        /\ Tasks(c)' = Tasks(c) \ {Received(taskQ)}
        /\ \A d \in Cars \ {c} : Tasks(d)' = Tasks(d)
    BY <1>1, <2>1, TaskTaken DEF PlanTake
  <2> QED BY <2>1, <2>2
<1>5. Ordered(c)
  BY <1>4, StageByMessage DEF MissionInv
<1>6. PICK t \in Targets : m = AssignTo(c, t) /\ Tasks(c) = {AssignTo(c, t)}
  BY <1>4, <1>5 DEF Ordered
<1>7. plan.pc = "idle" /\ plan'.pc = "cars" /\ plan'.msg = m
  BY <1>1, <1>2 DEF PlanTake, TypeOK, PlanStates
<1>8. Planner(c)' = plan' /\ \A d : d # c => Planner(d)' = Planner(d)
  BY <1>3, <1>7 DEF Planner
<1>9. /\ \A d : /\ Told(d)' = Told(d) /\ (Due(d)' <=> Due(d)) /\ News(d)' = News(d)
                /\ Router(d)' = Router(d) /\ car'[d] = car[d] /\ bot'[d] = bot[d]
      /\ UNCHANGED <<sub, topo, budget>>
  BY ViewFrame DEF PlanTake, shm
<1>10. QueueInv'
  BY <1>1, <1>4, QueueFrame DEF PlanTake, QueueInv
<1>11. Choosing(c)' /\ ~Resting(c)
  <2>1. Tasks(c)' = {}
    BY <1>4, <1>6
  <2> QED BY <1>4, <1>5, <1>6, <1>7, <1>8, <1>9, <2>1
          DEF Choosing, Ordered, Unheard, Unrouted, Free, Parked, Resting
<1>12. \A d \in Cars \ {c} : Same(d)
  BY <1>4, <1>8, <1>9 DEF Same
<1> QED BY <1>4, <1>9, <1>10, <1>11, <1>12, OneCar DEF OnMission

(* What most steps of the planner leave alone. *)
LEMMA PlannerAlone ==
  ASSUME MissionInv, UNCHANGED <<mqs, events, route, sub, topo, bot, budget>>
  PROVE  /\ QueueInv'
         /\ \A d : /\ Tasks(d)' = Tasks(d) /\ Told(d)' = Told(d) /\ (Due(d)' <=> Due(d))
                   /\ News(d)' = News(d) /\ Router(d)' = Router(d) /\ bot'[d] = bot[d]
BY ViewFrame, QueueFrame DEF mqs, MissionInv, QueueInv

(* There is a route, or there is none and the car stays where it is.       *)
LEMMA PlanChooseMission ==
  ASSUME MissionInv, TypeOK', PlanAccept \/ PlanRefuse \/ PlanFail
  PROVE  MissionInv'
<1>1. TypeOK /\ QueueInv /\ plan \in PlanStates /\ plan.pc = "cars" /\ plan.msg.car \in Cars
  <2>1. plan \in PlanStates /\ plan.msg \in TaskMsgs
    BY DEF MissionInv, TypeOK, PlanStates
  <2> QED BY <2>1, KeyTypes DEF MissionInv, PlanAccept, PlanRefuse, PlanFail
<1>2. PICK c \in Cars : c = plan.msg.car
  BY <1>1
<1>3. plan'.pc \in {"idle", "update", "fail"} /\ (plan'.pc = "idle" \/ plan'.msg = plan.msg)
  <2>1. ASSUME PlanAccept PROVE plan'.pc = "update" /\ plan'.msg = plan.msg
    <3>1. PICK start \in StartNodes(car[plan.msg.car], plan.msg, plan.edge) :
            \E p \in Answers(car[plan.msg.car], plan.msg, start) :
              plan' = [plan EXCEPT !.pc = "update", !.old = car[plan.msg.car],
                         !.new = Replanned(car[plan.msg.car], plan.msg, start, p),
                         !.edge = PlanIdle.edge, !.closed = {}]
      BY <2>1 DEF PlanAccept
    <3> QED BY <1>1, <3>1 DEF PlanStates
  <2>2. PlanFail => plan'.pc = "fail" /\ plan'.msg = plan.msg
    BY <1>1 DEF PlanFail, PlanStates
  <2>3. PlanRefuse => plan'.pc = "idle"
    BY DEF PlanRefuse, PlanIdle
  <2> QED BY <2>1, <2>2, <2>3
<1>4. /\ Planner(c) = plan /\ \A d : d # c => Planner(d)' = Planner(d)
      /\ plan'.pc # "idle" => Planner(c)' = plan'
      /\ plan'.pc = "idle" => Unplanned(c)'
  BY <1>1, <1>2, <1>3, PlannerMoves
<1>5. Choosing(c)
  BY <1>1, <1>4, StageByPlanner DEF MissionInv
<1>6. PICK t \in Targets : plan.msg = AssignTo(c, t)
  BY <1>4, <1>5 DEF Choosing
<1>7. ~PlanFail
  BY <1>6 DEF PlanFail, AssignTo
<1>8. /\ car' = car /\ UNCHANGED <<sub, topo, budget>> /\ QueueInv'
      /\ \A d : /\ Tasks(d)' = Tasks(d) /\ Told(d)' = Told(d) /\ (Due(d)' <=> Due(d))
                /\ News(d)' = News(d) /\ Router(d)' = Router(d) /\ bot'[d] = bot[d]
  BY PlannerAlone DEF PlanAccept, PlanRefuse, PlanFail, shm
<1>9. /\ (Unheard(c)' <=> Unheard(c)) /\ (Unrouted(c)' <=> Unrouted(c)) /\ (Free(c)' <=> Free(c))
  BY <1>8 DEF Unheard, Unrouted, Free, Parked
<1>10. \A d \in Cars \ {c} : Same(d)
  BY <1>4, <1>8 DEF Same
<1>11. ~Resting(c)
  BY <1>5 DEF Choosing, Resting, Unplanned
<1>12. CASE PlanRefuse
  <2>1. plan'.pc = "idle"
    BY <1>12 DEF PlanRefuse, PlanIdle
  <2>2. Resting(c)'
    BY <1>4, <1>5, <1>9, <2>1 DEF Choosing, Resting
  <2> QED BY <1>8, <1>10, <1>11, <2>2, OneCar DEF OnMission
<1>13. CASE PlanAccept
  <2> DEFINE me == car[c]
             msg == AssignTo(c, t)
  <2>1. PICK start \in StartNodes(car[plan.msg.car], plan.msg, plan.edge) :
          \E p \in Answers(car[plan.msg.car], plan.msg, start) :
            plan' = [plan EXCEPT !.pc = "update", !.old = car[plan.msg.car],
                       !.new = Replanned(car[plan.msg.car], plan.msg, start, p),
                       !.edge = PlanIdle.edge, !.closed = {}]
    BY <1>13 DEF PlanAccept
  <2>2. /\ start \in StartNodes(me, msg, plan.edge)
        /\ \E p \in Answers(me, msg, start) :
             plan' = [plan EXCEPT !.pc = "update", !.old = me,
                        !.new = Replanned(me, msg, start, p),
                        !.edge = PlanIdle.edge, !.closed = {}]
    BY <1>2, <1>6, <2>1
  <2>3. PICK p \in Answers(me, msg, start) :
           plan' = [plan EXCEPT !.pc = "update", !.old = me,
                      !.new = Replanned(me, msg, start, p),
                      !.edge = PlanIdle.edge, !.closed = {}]
    BY <2>2
  <2>4. /\ plan'.pc = "update" /\ plan'.msg = msg /\ plan'.old = me
        /\ plan'.new = Replanned(me, msg, start, p)
    BY <1>1, <1>6, <2>3 DEF PlanStates
  <2>5. me \in CarRecords
    BY <1>1 DEF TypeOK
  <2>6. OnWay(plan'.new, 0) /\ plan'.new.last = me.last /\ plan'.new.cur = me.cur
    BY <2>2, <2>4, <2>5, RouteOnWay
  <2>7. Chosen(c)'
    BY <1>4, <1>5, <1>8, <1>9, <2>4, <2>6 DEF Choosing, Chosen
  <2> QED BY <1>8, <1>10, <1>11, <2>7, OneCar DEF OnMission
<1> QED BY <1>7, <1>12, <1>13

(* The plan is written, and the road the car stands on released.           *)
LEMMA PlanWriteMission ==
  ASSUME MissionInv, TypeOK', PlanUpdate \/ PlanScan \/ PlanFree \/ PlanFreePair
  PROVE  MissionInv'
<1>1. TypeOK /\ QueueInv /\ plan \in PlanStates /\ plan.msg.car \in Cars
  <2>1. plan \in PlanStates /\ plan.msg \in TaskMsgs
    BY DEF MissionInv, TypeOK, PlanStates
  <2> QED BY <2>1, KeyTypes DEF MissionInv
<1>2. PICK c \in Cars : c = plan.msg.car
  BY <1>1
<1>3. /\ plan.pc \in {"update", "scan", "free", "freePair"}
      /\ plan'.pc \in {"scan", "free", "freePair", "count"}
      /\ plan'.msg = plan.msg /\ plan'.new = plan.new
  BY <1>1 DEF PlanUpdate, PlanScan, PlanFree, PlanFreePair, PlanStates
<1>4. /\ Planner(c) = plan /\ \A d : d # c => Planner(d)' = Planner(d)
      /\ Planner(c)' = plan'
  BY <1>2, <1>3, PlannerMoves
<1>5. /\ UNCHANGED <<sub, topo, budget>> /\ QueueInv'
      /\ \A d : /\ Tasks(d)' = Tasks(d) /\ Told(d)' = Told(d) /\ (Due(d)' <=> Due(d))
                /\ News(d)' = News(d) /\ Router(d)' = Router(d) /\ bot'[d] = bot[d]
  BY PlannerAlone DEF PlanUpdate, PlanScan, PlanFree, PlanFreePair, shm
<1>6. (Unheard(c)' <=> Unheard(c)) /\ (Unrouted(c)' <=> Unrouted(c))
  BY <1>5 DEF Unheard, Unrouted
<1>7. ~Resting(c)
  BY <1>3, <1>4 DEF Resting, Unplanned
<1>8. CASE PlanUpdate
  <2>1. Chosen(c)
    BY <1>4, <1>8, StageByPlanner DEF MissionInv, PlanUpdate
  <2>2. car'[c] = plan.new /\ \A d \in Cars \ {c} : car'[d] = car[d]
    BY <1>1, <1>2, <1>8 DEF PlanUpdate, TypeOK
  <2>3. Road(car'[c]) = Road(car[c])
    BY <1>4, <2>1, <2>2 DEF Chosen, Road
  <2>4. Parked(c)'
    BY <1>5, <2>1, <2>3 DEF Chosen, Free, Parked
  <2>5. Planned(c)'
    BY <1>3, <1>4, <1>6, <2>1, <2>2, <2>4 DEF Chosen, Planned
  <2>6. \A d \in Cars \ {c} : Same(d)
    BY <1>4, <1>5, <2>2 DEF Same
  <2> QED BY <1>5, <1>7, <2>5, <2>6, OneCar DEF OnMission
<1>9. CASE ~PlanUpdate
  <2>1. car' = car
    BY <1>9 DEF PlanScan, PlanFree, PlanFreePair, shm
  <2>2. plan.pc \in {"scan", "free", "freePair"}
    BY <1>9 DEF PlanScan, PlanFree, PlanFreePair
  <2>3. Planned(c)
    BY <1>4, <2>2, StageByPlanner DEF MissionInv
  <2>4. Planned(c)'
    BY <1>3, <1>4, <1>5, <1>6, <2>1, <2>3 DEF Planned, Parked
  <2>5. \A d \in Cars \ {c} : Same(d)
    BY <1>4, <1>5, <2>1 DEF Same
  <2> QED BY <1>5, <1>7, <2>4, <2>5, OneCar DEF OnMission
<1> QED BY <1>8, <1>9

(* The count is sent, and then the order to go. *)
LEMMA PlanTellMission ==
  ASSUME Roomy, MissionInv, TypeOK', PlanCount \/ PlanAct
  PROVE  MissionInv'
<1>1. TypeOK /\ QueueInv /\ plan \in PlanStates /\ plan.msg.car \in Cars
  <2>1. plan \in PlanStates /\ plan.msg \in TaskMsgs
    BY DEF MissionInv, TypeOK, PlanStates
  <2> QED BY <2>1, KeyTypes DEF MissionInv
<1>2. PICK c \in Cars : c = plan.msg.car
  BY <1>1
<1>3. /\ plan.pc \in {"count", "act"} /\ plan'.pc \in {"act", "idle"}
      /\ plan'.pc = "idle" \/ plan'.msg = plan.msg
  BY <1>1 DEF PlanCount, PlanAct, PlanStates, PlanIdle
<1>4. /\ Planner(c) = plan /\ \A d : d # c => Planner(d)' = Planner(d)
      /\ plan'.pc # "idle" => Planner(c)' = plan'
      /\ plan'.pc = "idle" => Unplanned(c)'
  BY <1>2, <1>3, PlannerMoves
<1>5. PICK t \in Targets : plan.msg = AssignTo(c, t)
  BY <1>3, <1>4, StageByPlanner DEF MissionInv, Planned, Starting
<1>6. plan.msg.imm = "kImme"
  BY <1>5 DEF AssignTo
<1>7. /\ \A d : /\ Tasks(d)' = Tasks(d) /\ (Due(d)' <=> Due(d)) /\ News(d)' = News(d)
                /\ Router(d)' = Router(d) /\ car'[d] = car[d] /\ bot'[d] = bot[d]
      /\ UNCHANGED <<sub, topo, budget>>
  BY ViewFrame DEF PlanCount, PlanAct, shm
<1>8. /\ Distinct(taskQ, TaskKey)' /\ Distinct(routeQ, RouteKey)' /\ OneReport'
  BY <1>1, QueueFrame DEF PlanCount, PlanAct, QueueInv
<1>9. ~Resting(c)
  BY <1>3, <1>4 DEF Resting, Unplanned
<1>10. (Parked(c)' <=> Parked(c)) /\ (Unrouted(c)' <=> Unrouted(c))
  BY <1>7 DEF Parked, Unrouted
<1> DEFINE n == Len(car[c].path)
<1>11. CASE PlanCount
  <2> DEFINE m == CountTo(c, n)
  <2>1. Planned(c) /\ plan.new = car[c]
    BY <1>4, <1>11, StageByPlanner DEF MissionInv, PlanCount, Planned
  <2>2. n \in Nat
    BY <1>1 DEF TypeOK, CarRecords
  <2>3. m \in MqttMsgs /\ m.car = c /\ m.type = "CNT" /\ SendMqtt("kPrioHigh", m)
    BY <1>2, <1>11, <2>1, <2>2 DEF CountTo, MqttMsgs, PlanCount
  <2>4. Told(c) = {} /\ Tasks(c) = {} /\ News(c) = {} /\ ~Due(c)
    BY <2>1 DEF Planned, Unheard
  <2>5. /\ Told(c)' = {m} /\ OrderInv' /\ \A d \in Cars \ {c} : Told(d)' = Told(d)
    <3> HIDE DEF m
    <3> QED BY <1>1, <2>3, <2>4, MqttSent DEF Prios
  <2>6. plan'.pc = "act" /\ plan'.msg = plan.msg /\ Planner(c)' = plan'
    BY <1>1, <1>4, <1>6, <1>11 DEF PlanCount, PlanStates
  <2>7. Go(c) \notin Told(c)' /\ Len(car'[c].path) = n
    BY <1>7, <2>5 DEF Go, CountTo
  <2>8. Starting(c)'
    BY <1>5, <1>7, <1>10, <2>1, <2>4, <2>5, <2>6, <2>7 DEF Planned, Starting, Unplanned
  <2>9. \A d \in Cars \ {c} : Same(d)
    BY <1>4, <1>7, <2>5 DEF Same
  <2> QED BY <1>7, <1>8, <1>9, <2>5, <2>8, <2>9, OneCar DEF OnMission, QueueInv
<1>12. CASE PlanAct
  <2> DEFINE m == Go(c)
  <2>1. Starting(c) /\ ~Unplanned(c)
    BY <1>4, <1>12, StageByPlanner DEF MissionInv, PlanAct, Unplanned
  <2>2. m \in MqttMsgs /\ m.car = c /\ m.type = "ACTION" /\ SendMqtt("kPrioHigh", m)
    BY <1>2, <1>6, <1>12 DEF Go, MqttMsgs, PlanAct
  <2>3. Told(c) \subseteq {CountTo(c, n)} /\ Go(c) # CountTo(c, n)
    BY <2>1 DEF Starting, Go, CountTo
  <2>4. \A x \in Told(c) : x.type = "CNT"
    BY <2>3 DEF CountTo
  <2>5. /\ Told(c)' = Told(c) \cup {m} /\ OrderInv'
        /\ \A d \in Cars \ {c} : Told(d)' = Told(d)
    <3> HIDE DEF m
    <3> QED BY <1>1, <2>2, <2>4, MqttSent DEF Prios
  <2>6. plan'.pc = "idle" /\ Unplanned(c)'
    BY <1>4, <1>12 DEF PlanAct, PlanIdle
  <2>7. Starting(c)'
    BY <1>7, <1>10, <2>1, <2>3, <2>5, <2>6 DEF Starting, Unplanned
  <2>8. \A d \in Cars \ {c} : Same(d)
    BY <1>4, <1>7, <2>5 DEF Same
  <2> QED BY <1>7, <1>8, <1>9, <2>5, <2>7, <2>8, OneCar DEF OnMission, QueueInv
<1> QED BY <1>11, <1>12
-----------------------------------------------------------------------------
(* What is asked, and what is not *)

(* A request uses up what it is allowed, and nothing of another kind. *)
LEMMA SpendOne ==
  ASSUME TypeOK, NEW kind \in ActionKinds \ {"any"}, Spend(kind)
  PROVE  \A other \in ActionKinds \ {kind, "any"} : budget'[other] = budget[other]
BY DEF Spend, TypeOK

LEMMA CalmKinds ==
  ASSUME MissionInv
  PROVE  /\ \A kind \in {"cancel", "obstacle", "place", "loss"} : ~Spend(kind)
         /\ \A kind \in {"task", "topology", "reset"} : Spend(kind) =>
              \A other \in {"cancel", "obstacle", "place", "loss"} : budget'[other] = 0
<1>1. \A kind \in {"cancel", "obstacle", "place", "loss"} : budget[kind] = 0
  BY DEF MissionInv, CalmInv
<1>2. \A kind \in {"cancel", "obstacle", "place", "loss"} : ~Spend(kind)
  BY <1>1 DEF Spend
<1>3. ASSUME NEW kind \in {"task", "topology", "reset"}, Spend(kind),
             NEW other \in {"cancel", "obstacle", "place", "loss"}
      PROVE  budget'[other] = 0
  <2>1. kind \in ActionKinds \ {"any"} /\ other \in ActionKinds \ {kind, "any"}
    BY DEF ActionKinds
  <2> QED BY <1>1, <1>3, <2>1, SpendOne DEF MissionInv
<1> QED BY <1>2, <1>3

(* A step that changes nothing about any car. *)
LEMMA NoCarMission ==
  ASSUME MissionInv, TypeOK', QueueInv', \A c \in Cars : Same(c), sub' = sub,
         \A kind \in {"cancel", "obstacle", "place", "loss"} : budget'[kind] = 0,
         topo'.pc \in {"idle", "lists", "pair"},
         topo'.pc # "idle" => \A c \in Cars : Resting(c)
  PROVE  MissionInv'
<1>1. \A c \in Cars : OnMission(c)' /\ (Resting(c) => Resting(c)') /\ ~bot'[c].dog
  BY StageFrame DEF MissionInv, CalmInv, Same
<1> QED BY <1>1 DEF MissionInv, CalmInv

(* A task goes to a car that rests. *)
LEMMA AssignMission ==
  ASSUME Undisturbed, Roomy, MissionInv, TypeOK', NEW c \in Cars, NEW t \in Targets, Assign(c, t)
  PROVE  MissionInv'
<1>1. TypeOK /\ QueueInv /\ OnMission(c) /\ sub.pc = "idle"
  BY DEF MissionInv, CalmInv
<1>2. Settled(c) /\ Standing(c)
  BY DEF Assign, MayAsk, Undisturbed
<1>3. Resting(c)
  BY <1>1, <1>2, StandingRests DEF Standing, Driving, Directing
<1>4. topo.pc = "idle"
  BY <1>2 DEF MissionInv, CalmInv, Settled
<1> DEFINE m == AssignTo(c, t)
<1>5. m \in TaskMsgs /\ m.car = c /\ SendTask("kPrioNormal", m)
  BY IdleTypes, InputAssumption DEF AssignTo, Assign
<1>6. /\ Tasks(c)' = {m} /\ Distinct(taskQ, TaskKey)'
      /\ \A d \in Cars \ {c} : Tasks(d)' = Tasks(d)
  <2>1. Tasks(c) = {}
    BY <1>3 DEF Resting, Unheard
  <2> HIDE DEF m
  <2> QED BY <1>1, <1>5, <2>1, TaskSent DEF Prios
<1>7. /\ \A d : /\ Told(d)' = Told(d) /\ (Due(d)' <=> Due(d)) /\ News(d)' = News(d)
                /\ Planner(d)' = Planner(d) /\ Router(d)' = Router(d)
                /\ car'[d] = car[d] /\ bot'[d] = bot[d]
      /\ UNCHANGED <<sub, topo>>
  BY ViewFrame DEF Assign, shm
<1>8. QueueInv'
  BY <1>1, <1>6, QueueFrame DEF Assign, QueueInv
<1>9. Ordered(c)'
  BY <1>3, <1>6, <1>7 DEF Resting, Ordered, Unheard, Unplanned, Unrouted, Free, Parked
<1>10. \A d \in Cars \ {c} : OnMission(d)'
  <2>1. \A d \in Cars \ {c} : Same(d)
    BY <1>6, <1>7 DEF Same
  <2> QED BY <2>1, StageFrame DEF MissionInv
<1>11. \A kind \in {"cancel", "obstacle", "place", "loss"} : budget'[kind] = 0
  BY CalmKinds DEF Assign
<1>12. \A d \in Cars : ~bot'[d].dog
  BY <1>7 DEF MissionInv, CalmInv
<1>13. \A d \in Cars : OnMission(d)'
  BY <1>9, <1>10 DEF OnMission
<1> QED BY <1>1, <1>4, <1>7, <1>8, <1>11, <1>12, <1>13 DEF MissionInv, CalmInv

(* The map is reset under way; nobody's mission depends on its tables.     *)
LEMMA ResetMission ==
  ASSUME MissionInv, TypeOK', ResetMap
  PROVE  MissionInv'
<1>1. \A c : Same(c)
  BY ViewFrame DEF ResetMap, mqs, Same
<1>2. QueueInv'
  BY QueueFrame DEF ResetMap, mqs, MissionInv, QueueInv
<1>3. \A kind \in {"cancel", "obstacle", "place", "loss"} : budget'[kind] = 0
  BY CalmKinds DEF ResetMap
<1>4. /\ sub' = sub /\ topo' = topo
      /\ topo.pc \in {"idle", "lists", "pair"}
      /\ topo.pc # "idle" => \A c \in Cars : Resting(c)
  BY DEF ResetMap, MissionInv, CalmInv
<1> QED BY <1>1, <1>2, <1>3, <1>4, NoCarMission

(* A request to the topology service comes when all cars rest; it then     *)
(* finds none on a mission and asks for no other route.                    *)
LEMMA TopoAskMission ==
  ASSUME Undisturbed, MissionInv, TypeOK', NEW s, NEW ask, TopoAsk(s, ask)
  PROVE  MissionInv'
<1>1. \A c : Same(c)
  BY ViewFrame DEF TopoAsk, mqs, shm, Same
<1>2. QueueInv'
  BY QueueFrame DEF TopoAsk, mqs, MissionInv, QueueInv
<1>3. \A kind \in {"cancel", "obstacle", "place", "loss"} : budget'[kind] = 0
  BY CalmKinds DEF TopoAsk
<1>4. sub' = sub /\ topo'.pc = "lists"
  BY DEF TopoAsk, TopoIdle
<1>5. \A c \in Cars : Resting(c)
  <2> SUFFICES ASSUME NEW c \in Cars PROVE Resting(c)
    OBVIOUS
  <2>1. Settled(c) /\ Standing(c) /\ OnMission(c)
    BY DEF TopoAsk, MayAsk, Undisturbed, MissionInv
  <2> QED BY <2>1, StandingRests DEF Standing, Driving, Directing
<1> QED BY <1>1, <1>2, <1>3, <1>4, <1>5, NoCarMission

LEMMA TopoMission ==
  ASSUME MissionInv, TypeOK', TopoStep
  PROVE  MissionInv'
<1>0. TypeOK /\ topo \in TopoStates /\ topo.pc \in {"idle", "lists", "pair"}
  BY DEF MissionInv, CalmInv, TypeOK
<1>1. topo.pc # "idle" /\ \A c : ~TopoNotify(c)
  BY <1>0 DEF TopoStep, TopoPair, TopoCars, TopoEdge, TopoNode, TopoNotify
<1>2. \A c \in Cars : Resting(c)
  BY <1>1 DEF MissionInv, CalmInv
<1>3. topo'.pc \in {"idle", "lists", "pair"}
  <2>1. TopoPair => topo'.pc = "lists"
    BY <1>0 DEF TopoPair, TopoStates
  <2>2. \A e : TopoEdge(e) => topo'.pc \in {"lists", "pair"}
    BY <1>0 DEF TopoEdge, TopoStates
  <2>3. \A n : TopoNode(n) => topo'.pc = "lists"
    BY <1>0 DEF TopoNode, TopoStates
  <2>4. TopoCars => topo'.pc = "idle"
    <3>1. {c \in Cars : car[c].status \in {"MOVING", "WAIT"}} = {}
      BY <1>2 DEF Resting, Free
    <3> QED BY <3>1 DEF TopoCars, TopoIdle
  <2> QED BY <1>1, <2>1, <2>2, <2>3, <2>4 DEF TopoStep
<1>4. UNCHANGED <<car, mqs, events, plan, route, sub, bot, budget>>
  BY <1>1 DEF TopoStep, TopoPair, TopoCars, TopoEdge, TopoNode, shm
<1>5. \A c : Same(c)
  BY <1>4, ViewFrame DEF mqs, Same
<1>6. QueueInv'
  BY <1>4, QueueFrame DEF mqs, MissionInv, QueueInv
<1>7. \A kind \in {"cancel", "obstacle", "place", "loss"} : budget'[kind] = 0
  BY <1>4 DEF MissionInv, CalmInv
<1> QED BY <1>2, <1>3, <1>4, <1>5, <1>6, <1>7, NoCarMission

(* Nothing else happens to a car, or is asked. *)
LEMMA NothingElse ==
  ASSUME Undisturbed, MissionInv
  PROVE  ~Lose /\ \A c \in Cars : ~World(c) /\ ~Cancel(c)
<1>1. ~Lose /\ \A c : ~Cancel(c)
  BY CalmKinds DEF Lose, Cancel
<1>2. \A c, temp : ~SeeObstacle(c, temp)
  BY CalmKinds DEF SeeObstacle
<1>3. \A c, arc : ~PutDown(c, arc)
  BY CalmKinds DEF PutDown
<1>4. \A c \in Cars : ~SeeClear(c) /\ ~TimeOut(c)
  BY DEF SeeClear, TimeOut, Undisturbed, MissionInv, CalmInv
<1> QED BY <1>1, <1>2, <1>3, <1>4 DEF World

LEMMA PlanMission ==
  ASSUME Roomy, MissionInv, TypeOK', PlanStep
  PROVE  MissionInv'
<1>1. ~PlanGiveUp
  <2> SUFFICES ASSUME plan.pc = "fail" PROVE FALSE
    BY DEF PlanGiveUp
  <2>1. plan.msg \in TaskMsgs
    BY DEF MissionInv, TypeOK, PlanStates
  <2>2. PICK c \in Cars : c = plan.msg.car
    BY <2>1, KeyTypes
  <2>3. Planner(c) = plan
    BY <2>2 DEF Planner
  <2> QED BY <2>3, StageByPlanner DEF MissionInv
<1> QED BY <1>1, PlanTakeMission, PlanChooseMission, PlanWriteMission, PlanTellMission
        DEF PlanStep

LEMMA RouteMission ==
  ASSUME Roomy, MissionInv, TypeOK', RouteStep
  PROVE  MissionInv'
BY RouteTakeMission, RouteOccupyMission, RouteParkMission, RouteTellMission,
   RouteOrientMission, RouteAdvanceMission DEF RouteStep

LEMMA NextMission ==
  ASSUME Undisturbed, Roomy, WellSigned, MissionInv, [Next]_vars
  PROVE  MissionInv'
<1>1. TypeOK'
  BY NextTypeOK DEF MissionInv
<1>2. CASE Asked
  BY <1>1, <1>2, NothingElse, AssignMission, TopoAskMission, ResetMission DEF Asked
<1>3. CASE TopoStep
  BY <1>1, <1>3, TopoMission
<1>4. CASE PlanStep
  BY <1>1, <1>4, PlanMission
<1>5. CASE RouteStep
  BY <1>1, <1>5, RouteMission
<1>6. CASE SubStep
  BY <1>1, <1>6, SubMission
<1>7. CASE Publish
  BY <1>1, <1>7, PublishMission
<1>8. ASSUME NEW c \in Cars, Drive(c)
      PROVE  MissionInv'
  BY <1>1, <1>8, ReachNodeMission, DecideMission DEF Drive
<1>9. CASE UNCHANGED vars
  <2>1. \A c : Same(c)
    BY <1>9, ViewFrame DEF vars, shm, mqs, Same
  <2>2. QueueInv'
    BY <1>9, QueueFrame DEF vars, mqs, MissionInv, QueueInv
  <2> QED BY <1>1, <1>9, <2>1, <2>2, NoCarMission DEF vars, MissionInv, CalmInv
<1> QED BY <1>2, <1>3, <1>4, <1>5, <1>6, <1>7, <1>8, <1>9, NothingElse DEF Next

LEMMA InitMission == ASSUME Undisturbed, Init PROVE MissionInv
<1>1. TypeOK
  BY InitTypeOK
<1>2. /\ taskQ = EmptyQueue /\ routeQ = EmptyQueue /\ mqttQ = EmptyQueue /\ events = <<>>
      /\ plan.pc = "idle" /\ route.pc = "idle" /\ sub.pc = "idle" /\ topo.pc = "idle"
      /\ budget = Budget
  BY DEF Init, PlanIdle, RouteIdle, SubIdle, TopoIdle
<1>3. Held(EmptyQueue) = {}
  BY DEF Held, EmptyQueue
<1>4. \A c : Unheard(c) /\ Unplanned(c) /\ Unrouted(c)
  BY <1>2, <1>3 DEF Unheard, Tasks, Told, Due, News, Reported, Unplanned, Planner, PlanIdle,
                    Unrouted, Router, RouteIdle
<1>5. \A c \in Cars : Free(c) /\ ~bot[c].dog
  <2> SUFFICES ASSUME NEW c \in Cars PROVE Free(c) /\ ~bot[c].dog
    OBVIOUS
  <2>1. /\ bot[c].mode = "idle" /\ bot[c].orient = "none" /\ bot[c].at = StartArc[c]
        /\ bot[c].dog = FALSE
    BY DEF Init
  <2>2. /\ car[c].status = "IDLE" /\ car[c].path = <<>>
        /\ car[c].last = StartArc[c][1] /\ car[c].cur = StartArc[c][2]
    BY DEF Init, NoCar
  <2>3. StartArc[c] = <<StartArc[c][1], StartArc[c][2]>>
    BY CarsAssumption, MapType
  <2> QED BY <2>1, <2>2, <2>3 DEF Free, Parked, Road
<1>6. QueueInv
  BY <1>2 DEF QueueInv, Distinct, EmptyQueue, OrderInv, CountFirst, CountHigh, OneReport, Prios
<1>7. \A kind \in {"cancel", "obstacle", "place", "loss"} : budget[kind] = 0
  BY <1>2 DEF Undisturbed
<1>8. \A c \in Cars : OnMission(c)
  BY <1>4, <1>5 DEF OnMission, Resting
<1> QED BY <1>1, <1>2, <1>5, <1>6, <1>7, <1>8 DEF MissionInv, CalmInv

-----------------------------------------------------------------------------
(* Theorems *)

(* Whatever planner, router, subscriber and publisher do in between, a     *)
(* mission goes through its stages.                                        *)
THEOREM MissionsKeepTheirStages ==
  ASSUME Undisturbed, Roomy, WellSigned
  PROVE  Spec => []MissionInv
<1>1. Init => MissionInv
  BY InitMission
<1>2. MissionInv /\ [Next]_vars => MissionInv'
  BY NextMission
<1> QED BY <1>1, <1>2, PTL DEF Spec

LEMMA MissionOnCourse == MissionInv => OnCourse
<1> SUFFICES ASSUME MissionInv, NEW c \in Cars, Settled(c), bot[c].orient \in {"none", "ARRIVED"}
             PROVE  bot[c].at = <<car[c].last, car[c].cur>>
  BY DEF OnCourse
<1>1. Resting(c) \/ Driving(c) \/ (Directing(c) /\ bot[c].orient # "none")
  BY StandingRests DEF MissionInv
<1>2. Unheard(c) /\ Unrouted(c)
  BY SettledMeansUnheard
<1>3. ~(Directing(c) /\ bot[c].orient # "none")
  <2>1. "none" \notin TurnNames /\ "ARRIVED" \notin TurnNames
    BY DEF TurnNames
  <2> QED BY <2>1, TurnType DEF Directing
<1>4. Record(c) = car[c]
  BY <1>2 DEF Record, Unrouted
<1> QED BY <1>1, <1>3, <1>4 DEF Resting, Free, Parked, Driving, Road

LEMMA MissionNotStranded == MissionInv => NotStranded
<1> SUFFICES ASSUME MissionInv, NEW c \in Cars, Settled(c), car[c].status = "MOVING"
             PROVE  \/ bot[c].mode = "follow"
                    \/ bot[c].mode = "approach" /\ bot[c].orient # "none"
  BY DEF NotStranded
<1>1. Resting(c) \/ Driving(c) \/ (Directing(c) /\ bot[c].orient # "none")
  BY StandingRests DEF MissionInv
<1> QED BY <1>1 DEF Resting, Free, Driving, Directing

(* A car about which nothing is in flight is on the road its record names. *)
THEOREM CarsAreOnCourse ==
  ASSUME Undisturbed, Roomy, WellSigned
  PROVE  Spec => []OnCourse
<1>1. Spec => []MissionInv
  BY MissionsKeepTheirStages
<1> QED BY <1>1, MissionOnCourse, PTL

(* No car on a mission stands waiting for a message nobody will send.      *)
THEOREM NobodyIsStranded ==
  ASSUME Undisturbed, Roomy, WellSigned
  PROVE  Spec => []NotStranded
<1>1. Spec => []MissionInv
  BY MissionsKeepTheirStages
<1> QED BY <1>1, MissionNotStranded, PTL
-----------------------------------------------------------------------------
(* Missions are journeys: only three steps change a record, each of which  *)
(* is a step of Journeys, and for every other step the journeys wait.      *)

LEMMA LeftOnTheWay ==
  /\ \A me : me.path = <<>> => RoadsLeft(me) = 0
  /\ \A me \in CarRecords : \A k : OnWay(me, k) => RoadsLeft(me) = Len(me.path) - k
<1>1. ASSUME NEW me \in CarRecords, NEW k, OnWay(me, k)
      PROVE  RoadsLeft(me) = Len(me.path) - k
  <2>1. /\ Len(me.path) \in Nat \ {0} /\ k \in Nat /\ me.path # <<>>
        /\ me.cur = me.target <=> k = Len(me.path)
        /\ me.cur # me.target => Legs(me) = {k + 1}
    BY <1>1, AlongTheWay DEF OnWay
  <2>2. CASE me.cur = me.target
    BY <2>1, <2>2 DEF RoadsLeft
  <2>3. CASE me.cur # me.target
    <3> DEFINE leg == CHOOSE i \in Legs(me) : TRUE
    <3>1. leg = k + 1
      BY <2>1, <2>3
    <3>2. RoadsLeft(me) = Len(me.path) + 1 - leg
      BY <2>1, <2>3, Zenon DEF RoadsLeft
    <3> HIDE DEF leg
    <3>3. \A n, i \in Nat : n + 1 - (i + 1) = n - i
      OBVIOUS
    <3>4. RoadsLeft(me) = Len(me.path) + 1 - (k + 1)
      BY <3>1, <3>2
    <3> QED BY <2>1, <3>3, <3>4
  <2> QED BY <2>2, <2>3
<1> QED BY <1>1 DEF RoadsLeft

(* A way takes no road twice. *)
LEMMA WayIsShort ==
  ASSUME NEW me \in CarRecords, NEW k, OnWay(me, k)
  PROVE  Len(me.path) \in 1..Cardinality(Arcs)
<1> DEFINE p == me.path
           n == Len(p)
           road == [i \in 1..n |-> Arc(p[i])]
<1>1. /\ p \in Seq(Edges) /\ n \in Nat \ {0} /\ DOMAIN p = 1..n
  BY AlongTheWay DEF CarRecords
<1>2. \A i, j \in 1..n : To(p[i]) = To(p[j]) => i = j
  BY <1>1 DEF OnWay, IsChain
<1>3. \A i \in 1..n : Arc(p[i]) \in Arcs
  BY <1>1 DEF Arcs
<1> HIDE DEF n
<1>4. \A i, j \in 1..n : road[i] = road[j] => i = j
  BY <1>2 DEF Arc
<1>5. road \in Injection(1..n, Arcs)
  BY <1>3, <1>4 DEF Injection, IsInjective
<1>6. IsFiniteSet(Arcs)
  <2>1. IsFiniteSet(Nodes)
    BY MapType, FS_Interval DEF Nodes
  <2>2. IsFiniteSet(Nodes \X Nodes)
    BY <2>1, FS_Product
  <2> QED BY <2>2, MapType, FS_Subset
<1>7. Cardinality(1..n) = n
  <2>1. 1 \in Int /\ n \in Int
    BY <1>1
  <2>2. Cardinality(1..n) = IF 1 > n THEN 0 ELSE n - 1 + 1
    BY <2>1, FS_Interval
  <2> QED BY <1>1, <2>2
<1>8. Cardinality(1..n) <= Cardinality(Arcs) /\ Cardinality(Arcs) \in Nat
  BY <1>5, <1>6, FS_Injection, FS_CardinalityType
<1> QED BY <1>1, <1>7, <1>8 DEF n

(* Nobody but planner and router writes a record. *)
LEMMA WritersOfRecords ==
  ASSUME MissionInv, Undisturbed, [Next]_vars, car' # car
  PROVE  PlanUpdate \/ RoutePark \/ RouteAdvance
<1>1. ~SubConclude /\ ~SubPlace
  BY DEF MissionInv, CalmInv, SubConclude, SubPlace
<1>2. PlanStep => PlanUpdate
  BY DEF PlanStep, PlanTake, PlanAccept, PlanRefuse, PlanFail, PlanGiveUp, PlanScan,
         PlanFree, PlanFreePair, PlanCount, PlanAct, shm
<1>3. RouteStep => RoutePark \/ RouteAdvance
  BY DEF RouteStep, RouteTake, RouteOccupy, RouteOccupyPair, RouteTell, RouteOrient, shm
<1>4. ~SubStep
  BY <1>1 DEF SubStep, SubArrive, SubRead, SubMark, SubMarkPair, SubScan, SubFree,
              SubFreePair, shm
<1> QED BY <1>2, <1>3, <1>4, OthersKeepCars DEF Next, vars, shm

(* The three steps, as they change the record of one car. *)
LEMMA RecordsWritten ==
  ASSUME Undisturbed, MissionInv, [Next]_vars, car' # car
  PROVE  \E c \in Cars :
           /\ \A d \in Cars \ {c} : car'[d] = car[d]
           /\ \/ /\ PlanUpdate /\ Planner(c) = plan /\ Chosen(c) /\ car'[c] = plan.new
              \/ /\ RoutePark /\ Router(c) = route /\ Parking(c)
                 /\ car'[c] = [car[c] EXCEPT !.status = "IDLE", !.path = <<>>, !.start = car[c].cur]
              \/ /\ RouteAdvance /\ Router(c) = route
                 /\ route.rec = car[c] /\ car'[c] = Advanced(route)
                 /\ \E k \in Nat : NextRoad(route, k)
<1>1. TypeOK /\ car \in [Cars -> CarRecords] /\ route \in RouteStates /\ plan \in PlanStates
  BY DEF MissionInv, TypeOK
<1>2. plan.msg.car \in Cars /\ route.car \in Cars
  <2>1. plan.msg \in TaskMsgs
    BY <1>1 DEF PlanStates
  <2> QED BY <1>1, <2>1, KeyTypes DEF RouteStates
<1>3. PlanUpdate \/ RoutePark \/ RouteAdvance
  BY WritersOfRecords
<1>4. CASE PlanUpdate
  <2>1. PICK c \in Cars : c = plan.msg.car
    BY <1>2
  <2>2. plan.pc = "update" /\ Planner(c) = plan
    BY <1>4, <2>1 DEF PlanUpdate, Planner
  <2>3. Chosen(c)
    BY <2>2, StageByPlanner DEF MissionInv
  <2>4. car'[c] = plan.new /\ \A d \in Cars \ {c} : car'[d] = car[d]
    BY <1>1, <1>4, <2>1 DEF PlanUpdate
  <2> QED BY <1>4, <2>2, <2>3, <2>4
<1>5. CASE RoutePark
  <2>1. PICK c \in Cars : c = route.car
    BY <1>2
  <2>2. route.pc = "park" /\ Router(c) = route
    BY <1>5, <2>1 DEF RoutePark, Router
  <2>3. Parking(c) /\ route.rec = car[c]
    BY <2>2, StageByRouter DEF MissionInv, Parking
  <2>4. /\ car'[c] = [car[c] EXCEPT !.status = "IDLE", !.path = <<>>, !.start = car[c].cur]
        /\ \A d \in Cars \ {c} : car'[d] = car[d]
    BY <1>1, <1>5, <2>1, <2>3 DEF RoutePark
  <2> QED BY <1>5, <2>2, <2>3, <2>4
<1>6. CASE RouteAdvance
  <2>1. PICK c \in Cars : c = route.car
    BY <1>2
  <2>2. route.pc = "advance" /\ Router(c) = route
    BY <1>6, <2>1 DEF RouteAdvance, Router
  <2>3. Catching(c)
    BY <2>2, StageByRouter DEF MissionInv, Driving, Reaching, Waiting, Directing
  <2>4. car'[c] = Advanced(route) /\ \A d \in Cars \ {c} : car'[d] = car[d]
    BY <1>1, <1>6, <2>1 DEF RouteAdvance, Advanced
  <2> QED BY <1>6, <2>2, <2>3, <2>4 DEF Catching
<1> QED BY <1>3, <1>4, <1>5, <1>6

LEMMA JourneyInit == ASSUME Init PROVE Journey!Init
<1>1. \A c \in Cars : /\ car[c].status = "IDLE" /\ RoadsLeft(car[c]) = 0
                      /\ car[c].last = StartArc[c][1] /\ car[c].cur = StartArc[c][2]
  BY LeftOnTheWay DEF Init, NoCar
<1>2. \A c \in Cars : StartArc[c] = <<StartArc[c][1], StartArc[c][2]>>
  BY CarsAssumption, MapType
<1>3. [c \in Cars |-> <<car[c].last, car[c].cur>>] = StartArc
  BY <1>1, <1>2, CarsAssumption
<1>4. /\ [c \in Cars |-> IF car[c].status = "MOVING" THEN car[c].target ELSE 0]
           = [c \in Cars |-> 0]
      /\ [c \in Cars |-> RoadsLeft(car[c])] = [c \in Cars |-> 0]
  BY <1>1
<1> QED BY <1>3, <1>4, Zenon DEF Journey!Init

LEMMA JourneyStep ==
  ASSUME Undisturbed, MissionInv, [Next]_vars
  PROVE  [Journey!Next]_(Journey!vars)
<1> DEFINE at   == [c \in Cars |-> <<car[c].last, car[c].cur>>]
           goal == [c \in Cars |-> IF car[c].status = "MOVING" THEN car[c].target ELSE 0]
           left == [c \in Cars |-> RoadsLeft(car[c])]
<1>1. CASE car' = car
  <2>1. at' = at /\ goal' = goal /\ left' = left
    BY <1>1
  <2> QED BY <2>1 DEF Journey!vars
<1>2. CASE car' # car
  <2>1. PICK c \in Cars :
          /\ \A d \in Cars \ {c} : car'[d] = car[d]
          /\ \/ /\ PlanUpdate /\ Planner(c) = plan /\ Chosen(c) /\ car'[c] = plan.new
             \/ /\ RoutePark /\ Router(c) = route /\ Parking(c)
                /\ car'[c] = [car[c] EXCEPT !.status = "IDLE", !.path = <<>>, !.start = car[c].cur]
             \/ /\ RouteAdvance /\ Router(c) = route
                /\ route.rec = car[c] /\ car'[c] = Advanced(route)
                /\ \E k \in Nat : NextRoad(route, k)
    BY <1>2, RecordsWritten
  <2> DEFINE me  == car[c]
             new == car'[c]
  <2>2. /\ me \in CarRecords /\ route \in RouteStates
        /\ new \in CarRecords
    BY NextTypeOK DEF MissionInv, TypeOK
  <2>3. \A d \in Cars \ {c} : at'[d] = at[d] /\ goal'[d] = goal[d] /\ left'[d] = left[d]
    BY <2>1
  <2>4. /\ at[c] = <<me.last, me.cur>> /\ at'[c] = <<new.last, new.cur>>
        /\ goal[c] = IF me.status = "MOVING" THEN me.target ELSE 0
        /\ goal'[c] = IF new.status = "MOVING" THEN new.target ELSE 0
        /\ left[c] = RoadsLeft(me) /\ left'[c] = RoadsLeft(new)
    OBVIOUS
  <2>5. /\ at = [d \in Cars |-> at[d]] /\ at' = [d \in Cars |-> at'[d]]
        /\ goal = [d \in Cars |-> goal[d]] /\ goal' = [d \in Cars |-> goal'[d]]
        /\ left = [d \in Cars |-> left[d]] /\ left' = [d \in Cars |-> left'[d]]
    OBVIOUS
  <2> HIDE DEF at, goal, left
  <2>6. CASE PlanUpdate /\ Planner(c) = plan /\ Chosen(c) /\ new = plan.new
    <3>1. /\ OnWay(new, 0) /\ new.last = me.last /\ new.cur = me.cur /\ me.status = "IDLE"
      BY <2>6 DEF Chosen, Free
    <3>2. /\ RoadsLeft(new) = Len(new.path) - 0 /\ Len(new.path) \in 1..Cardinality(Arcs)
          /\ Len(new.path) \in Nat
      BY <2>2, <3>1, LeftOnTheWay, WayIsShort DEF CarRecords
    <3>3. PICK t \in Targets : new.status = "MOVING" /\ new.target = t
      BY <3>1 DEF OnWay
    <3>4. /\ goal[c] = 0 /\ goal' = [goal EXCEPT ![c] = t] /\ at' = at
          /\ left' = [left EXCEPT ![c] = Len(new.path)]
      BY <2>3, <2>4, <2>5, <3>1, <3>2, <3>3
    <3>5. left' \in {[left EXCEPT ![c] = n] : n \in 1..Cardinality(Arcs)}
      BY <3>2, <3>4
    <3>6. Journey!SetOut(c, t)
      <4>1. Journey!Cardinality(Arcs) = Cardinality(Arcs)
        BY DEF Journey!Cardinality, Cardinality
      <4> QED BY <3>4, <3>5, <4>1 DEF Journey!SetOut, at, goal, left
    <3> QED BY <3>6 DEF Journey!Next
  <2>7. CASE /\ RoutePark /\ Router(c) = route /\ Parking(c)
             /\ new = [me EXCEPT !.status = "IDLE", !.path = <<>>, !.start = me.cur]
    <3>1. OnWay(me, Len(me.path)) /\ me.cur = me.target
      BY <2>7 DEF Parking, AtNode, Record
    <3>2. me.status = "MOVING" /\ me.target \in Targets /\ RoadsLeft(me) = 0
      BY <2>2, <3>1, AlongTheWay, LeftOnTheWay DEF OnWay
    <3>3. me.target # 0
      BY <3>2, InputAssumption, MapType DEF Nodes
    <3>4. /\ new.status = "IDLE" /\ RoadsLeft(new) = 0
          /\ new.last = me.last /\ new.cur = me.cur
      BY <2>2, <2>7, LeftOnTheWay DEF CarRecords
    <3>5. /\ goal[c] # 0 /\ left[c] = 0 /\ at[c][2] = goal[c]
          /\ goal' = [goal EXCEPT ![c] = 0] /\ at' = at /\ left' = left
      BY <2>3, <2>4, <2>5, <3>1, <3>2, <3>3, <3>4
    <3>6. Journey!Arrive(c)
      BY <3>5 DEF Journey!Arrive, at, goal, left
    <3> QED BY <3>6 DEF Journey!Next, Journey!Go
  <2>8. CASE /\ RouteAdvance /\ Router(c) = route
             /\ route.rec = me /\ new = Advanced(route)
             /\ \E k \in Nat : NextRoad(route, k)
    <3>1. PICK k \in Nat : NextRoad(route, k)
      BY <2>8
    <3>2. /\ OnWay(me, k) /\ OnWay(new, k + 1) /\ Joined(new) /\ me.cur # me.target
      BY <2>2, <2>8, <3>1, OneRoadFurther DEF NextRoad
    <3>3. /\ new.last = me.cur /\ new.path = me.path /\ new.status = me.status
          /\ new.target = me.target
      BY <2>2, <2>8 DEF Advanced, CarRecords
    <3>4. /\ RoadsLeft(me) = Len(me.path) - k /\ RoadsLeft(new) = Len(me.path) - (k + 1)
          /\ Len(me.path) \in Nat
      BY <2>2, <3>2, <3>3, LeftOnTheWay DEF CarRecords
    <3>5. k + 1 <= Len(me.path)
      BY <2>2, <3>2, <3>3, <3>4, AlongTheWay DEF OnWay
    <3>6. left[c] > 0 /\ left'[c] = left[c] - 1 /\ goal'[c] = goal[c]
      BY <2>4, <3>3, <3>4, <3>5
    <3>7. /\ left[c] > 0 /\ left' = [left EXCEPT ![c] = @ - 1] /\ goal' = goal
          /\ at'[c] \in Arcs /\ at'[c][1] = at[c][2] /\ at' = [at EXCEPT ![c] = at'[c]]
      BY <2>3, <2>4, <2>5, <3>2, <3>3, <3>6 DEF Joined
    <3>8. Journey!TakeRoad(c)
      BY <3>7 DEF Journey!TakeRoad, at, goal, left
    <3> QED BY <3>8 DEF Journey!Next, Journey!Go
  <2> QED BY <2>1, <2>6, <2>7, <2>8
<1> QED BY <1>1, <1>2

(* Every mission is a journey: the record of a car follows it from road to *)
(* road to the target, though planner and router write it without locking  *)
(* it between reading and writing.                                         *)
THEOREM MissionsAreJourneysSafely ==
  ASSUME Undisturbed, Roomy, WellSigned
  PROVE  Spec => Journey!Init /\ [][Journey!Next]_(Journey!vars)
<1>1. Init => Journey!Init
  BY JourneyInit
<1>2. MissionInv /\ [Next]_vars => [Journey!Next]_(Journey!vars)
  BY JourneyStep
<1>3. Spec => []MissionInv
  BY MissionsKeepTheirStages
<1> QED BY <1>1, <1>2, <1>3, PTL DEF Spec
=============================================================================
