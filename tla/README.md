# ENavigate in TLA+

ENavigate steers small line-following cars over a map of nodes and roads. A
master (`master/`, C++ processes on Linux) keeps the map and the cars in shared
memory, plans routes and sends directions over MQTT; each car (`peripheral/`,
ESP32 with FreeRTOS) follows the line, reports the nodes it reaches and the
obstacles its camera (`K230/`) recognises, and carries out the directions.

This directory holds TLA+ modules of the parts where order, interleaving and
failure matter, TLC configurations that check them on small instances, and
proofs checked by TLAPS. Paths below are relative to `src/`.

    tlc -workers 2 -config seqlock.cfg MCSeqlock.tla
    tlapm SeqlockProofs.tla

## 1. Inventory

| Component | Source | State | Operations | Hard behaviour |
|---|---|---|---|---|
| Shared memory access | `master/lib/ipc/seqlock.h`, `shm_manager.h`, `shm_layout.h` | two sections (map, cars), each with a sequence number and a robust process-shared mutex | guarded writers, retrying readers | readers copy while words are stored; writers die holding the mutex; weak memory order; the number wraps |
| Message queues | `master/lib/ipc/mq_wrapper.h`, `include/agv/mq_msg.h` | three POSIX queues with priorities | non-blocking send and receive | priorities reorder; a full queue drops, and no caller looks |
| Map and geometry | `shm_layout.h`, `model_manager.cpp:28-102` | nodes, one-way edges in pairs, adjacency, pairs (`bipath`) | `jud_rev`, `generate_turn`, `get_other_path` | ids start at 1, indices at 0 |
| Planner | `master/src/planner/` | none between messages | `handle_task`: assign, cancel, replan; `find_path` (A*) | works on snapshots, writes whole records back; the estimate of A* is no lower bound |
| Router | `master/src/router/` | none between messages | `handle_task`: next direction or arrival | the same, concurrently with the planner |
| MQTT subscriber | `master/src/mqtt_service/mqtt_subscriber.cpp` | connection | ARRIVE, OBSTACLE, REPAIRED, POSITION | the same; the events of cars arrive at any time |
| MQTT publisher | `mqtt_publisher.cpp`, `mqtt_client.h` | connection | takes the highest priority, publishes | drops while the broker is away |
| Task and topology services | `master/src/http_service/Task.cpp`, `Topo.cpp` | none | assign, cancel; ban, access, repair, then replan of every busy car | lists of roads and nodes, several writes per request, no transaction |
| Car control | `peripheral/src/main.cpp`, `mqtt_handler.cpp`, `vision.cpp`, `encoder.cpp` | `ControlCtx_t`, command and frame queues, encoders | one cycle of `ControlTask` every 5 ms; `VisionTask`, `MQTTTask` | stale frames, late directions, obstacles inside a junction, time-outs |
| Start-up, restart, reset of the map | `model_manager.cpp`, `shm_manager.h`, `mq_wrapper.h`, `scripts/systemd/` | segment and queues, under names | create, attach, reset, unlink, restart | a name may be unlinked and created again while others hold what it stood for; receivers create queues too |
| Status, capture, upload | `Status.cpp`, `Capture.cpp`, `Upload.cpp` | none, files | read-only snapshots, file transfer | - |
| Logging | `lib/logger`, `log_daemon` | a queue, files | log | every call opens the queue once more; `mq_send` may block |
| Timers, signals, exit | `lib/timer`, `signal_handler.h`, `secure_exit.h` | descriptors | - | timers are used by tests only |
| Camera, web page | `K230/`, `web/` | - | recognition, presentation | - |

Interactions. The processes of the master share the two sections and talk over
three queues: services, subscriber and planner send to the planner
(`/mq_task_dispatch`), the subscriber to the router (`/mq_route_exert`), planner
and router to the publisher (`/mq_mqtt_publish`). The publisher and the
subscriber talk to the cars over MQTT. In a car, `VisionTask` and the MQTT
callback feed `ControlTask` through two queues of five. `model_manager` creates
queues and segment, and resets the map when it gets SIGUSR1; systemd starts the
processes and starts them again.

`peripheral/src/vision.cpp` and `mqtt_handler.cpp` are committed with the
conflict markers of an unfinished merge. The models follow the side whose names
`main.cpp` uses (`g_visionQueue`, `g_commandQueue`).

What makes each part correct: snapshots are whole and writers exclude each
other (shared memory); the record of a car stays on the map and agrees with the
road the car is on, its plan leads to its target, missions end, no road stays
closed behind a car (planner, router, subscriber, queues together); a search ends
and answers a route exactly if there is one (planner); processes that run share
their queues and a filled segment, whoever is started and killed when (start-up);
a direction is carried out at the node it was given for, counts hold, a car does
not drive into what its camera shows, and a stopped car drives on when it should
and only then (car control). PROJECT.json lists the hazards line by line, with
the properties that cover them.

## 2. Modules

| Module | Models |
|---|---|
| `AtomicRegister` | the abstract promise of a shared section: indivisible updates, whole snapshots |
| `Seqlock` | one section: `ProcMutex`, `SeqlockMWWriteGuard`, `SEQLOCK_READ`; words stored and copied one at a time |
| `PrioQueue` | a message queue: priorities, capacity, drop |
| `RoadMap` | the unchanging map, turns and reversals, and the routes `find_path` may answer |
| `RouteChoice` | the abstract promise of `find_path`: one of the routes of `RoadMap`, or none if there are none |
| `FindPath` | `find_path` itself: A* with its open set, costs and predecessors |
| `Journeys` | the abstract promise of the missions: a car takes road after road and is free again at its target |
| `Dispatch` | planner, router, subscriber, publisher, task and topology services, the reset of the map, and the cars as missions see them; extends `RoadMap` and `PrioQueue`, takes its routes from the set of `RouteChoice` |
| `Services` | start-up and restart: names, the objects they stand for, and who holds which |
| `CarControl` | one car in detail: `ControlTask`, its queues, camera, road, and a master that is reduced to what the car can receive |
| `MCSeqlock`, `MCDispatch`, `MCFindPath`, `MCServices` | instances for TLC (`CarControl` needs none) |
| `MCCarControl` | `CarControl` with a history variable: what was heard before a mark |
| `SeqlockProofs`, `FindPathProofs`, `ServicesProofs`, `CarControlProofs` | theorems |
| `DispatchProofs`, `MissionProofs`, `ParkingProofs` | theorems about `Dispatch`: what holds whatever happens; the stages of an undisturbed mission; the roads of the map meanwhile |
| `NumberFacts` | lemmas on least and greatest numbers that the proofs share |

Three detailed modules implement an abstract one, by a refinement mapping that TLC
checks: `Seqlock` implements `AtomicRegister`, `FindPath` implements `RouteChoice`
(both proved as well), `Dispatch` implements `Journeys` (of which the safety part is proved). `Dispatch` rests on the
first two: it takes an access to a section as one step, and a route as any member
of the set.

Definitions called `Mut...` are mutants: plausible mistakes in the definition
that follows them. No specification uses them; they record which mistake each
property is able to notice.

### Seqlock

`seq` is `seq_`; `mutex` is the robust mutex with the extra state `Dead` (its
owner was killed); `mem` is the section; `wpc`, `rpc` say where a process is in
the guard or in the read loop. `Request` is the call of an accessor with the
words it assigns; `Lock`, `WriteBegin`, `StoreCell`, `WriteEnd`, `Unlock` are
the guard's constructor, the assignment and the destructor; `ReadBegin`,
`CopyCell`, `ReadEnd` one turn of `SEQLOCK_READ`. `Crash` kills a writer inside
the critical section. `hidden` models the store buffer: with `EarlyStores` the
odd number may become visible after stores of the update, which a
store-release permits; write_end is a store-release too and so never early.
`age` and `committed` are history variables for the proof and the refinement.

### Dispatch

An access to the shared memory, or a send, is one step; what a process computes
between two of them belongs to the first. `plan`, `route`, `sub` and `topo` are
the local variables and the place of the four processes (`plan.pc = "update"`:
the planner is about to write the record back). `car` holds the `Car` records,
`edge` and `closed` the states of edges and nodes. A route is any chain that
`find_path` may answer, since the choice depends on weights that no property is
about; an edge whose id is `edge_count_` is never in it, as in the code.
`taskQ`, `routeQ`, `mqttQ` are `PrioQueue`s; `events` carries the reports of the
cars in order. A car is reduced to six modes, its count, the direction it holds and
the road it is really on: `idle` and `follow` on the open road, `approach` and
`paused` inside a junction (moving or waiting, and stopped), `stopped` on a mark with
the junction forgotten, `lost`.

An obstacle (`SeeObstacle`) stops a car in one of three ways, as in the cases of
`ControlTask`: at a mark, where the node is reported and counted first, if it was not
before, and any direction is dropped (`ObstacleAtMark`); between mark and decision,
where it counts if the car is told to go straight on, and stops it behind the node
(`ObstacleInJunction`); on the open road (`ObstacleOnRoad`). A passing one that is
gone lets the car drive on (`SeeClear`): from a mark it goes straight across without
an edge of the flag, and so without a report (`DrivenOn`).

A topology request is a list: its roads and nodes are written one by one, each
direction of a road in a step of its own, before the cars are told (`TopoEdge`,
`TopoPair`, `TopoNode`, `TopoCars`, `TopoNotify`). `edges` and `nodes` are sets, so
any order is allowed; `repair` ignores nodes and does not look for the opposite
direction, as in the code. `ResetMap` is `reset_shm_map`: the statuses are those of
`init_map` again, whatever the cars do. Its second entries in the adjacency lists
are left out, because every use looks for an edge and finds the first one. `Lose`
is a command that the publisher drops.

The mapping to `Journeys` reads a car's road, its target while it is MOVING, and
the number of roads of its plan that are left, from its record.

`path_stack[path_len-1]` with `path_len` 0 reads the word before the array,
whose low byte is `last_start_node_id`; the model takes that value (`LastEdge`).

### FindPath

`open` is the priority queue without its order, `shut` is `closed`, `via` is
`came_edge` (and so `came_from`). `Skip` and `Expand` are one turn of the outer
loop, `Relax` one of the inner, `Trace` one of the loop over `came_from`. Weights
and estimate are constants: the code adds weights of 10 and distances in pixels of
over 100, so the estimate is far from a lower bound, closed nodes are reached
again at a lower cost, and the answer need not be the cheapest. `RouteChoice` says
what holds all the same. A target of 0 or beyond the map is asked too.

### Services

`name` says which object a name stands for now, `handle` what a process has open.
`Script` lists, for each process, what its `main` opens before its loop and what
becomes of it when that fails: planner, router and publisher end, Task, Topo and
Status go on without. `Receive` creates the queue if there is none (`O_CREAT`),
`Validate` is `validate_header` (a segment without a size is a SIGBUS, one without
a header a time-out). `OpenExisting` fails when the name is missing (ENOENT) and when
the process may not write what root has created (EACCES): Task, Topo and Status run as
`www-data`, the objects have mode 0666 less the umask. `model_manager` runs through `ManagerScript`; an orderly stop
unlinks the queues but not the segment, since `exit` does not run the destructor of
`owner_shm`, and a kill leaves everything.

A `policy` says who is started only when `model_manager` is ready (`waits`), who is
stopped and started with it (`restarted`), who may not write (`refused`), whether
names are left from an earlier run, and how often something is killed. `since` is a
history of the handles: those whose name was opened after `model_manager` had unlinked
it in its present run.

### CarControl

A cycle of `ControlTask` is four steps (`pc`): `Wake` takes the newest frame,
`TakeCommand` drains the command queue, `Sense...` is the obstacle section with
its cases A to D and the clear case, `Drive` is the state machine. `ctx` is
`ControlCtx_t`. Encoders are one bit (`far`): whether the car has passed the
distance the code compares with. The empty label of the zero-initialised
`visionData` is the label `"blank"`, which the code treats as an obstacle. LEFT,
RIGHT and UTURN differ only in the angle, so the instance has one of them.

The world: `Capture` puts a frame in the queue, with what is ahead of the car
and whether it stands at a mark; `Wake` may also move the car from road to mark,
from mark to node, from node to road, each with or without the encoders passing the
distance that is compared, so that a car may still drive in FOLLOW and APPROACH
between mark and centre when the next frame comes. The master answers reports in their order
with any direction, at any time before the car reaches the next mark, or never
(the report was lost); it may send PROCESS, PAUSE and CNT at any time, UTURN as
the answer to a lasting obstacle. That a direction answers a report is what the router
does (`router.h:86-122` follows the ARRIVE it took), and that it is for the mark
reached last is what `main.cpp:461` does. `mqtt-api.md` says otherwise; `MCCarControl`
adds `heard` (a direction came on the open road) to state that. Frames and commands that would come in the
second half of a cycle come after it, which no step can tell apart.

## 3. Runs

| Run | What it asks |
|---|---|
| `seqlock` | Two writers, a reader, two words, without crashes or reordering: the section implements `AtomicRegister` (`SnapshotsAreAtomic`), no snapshot is returned during an update, readers and writers get through, while the number wraps from 7 to 0. |
| `seqlock_faults` | With crashes and early stores: exclusion and the hand-over of the mutex survive. |
| `dispatch_two_cars` | Two cars, three missions overlapping in time: missions are journeys (`MissionsAreJourneys`), record and car agree (`OnCourse`), nobody waits for a message that will not come (`NotStranded`), no road stays occupied behind a car (`OccupiedMeansParked`), the router occupies the road a car parks on (`OccupiesItsRoad`), nothing is overwritten that another process wrote (`NoLostUpdate`), every mission ends at its target (`MissionsComplete`). |
| `dispatch_orders` | Any three of assign, cancel, topology request, reset of the map, obstacle, a car put down elsewhere, a lost command, at any moment, with time-outs and queues of two that overflow: types, records on the map (`OnTheMap`), plans that lead to their targets (`PlanLeadsToTarget`). |
| `route_search` | A* on six nodes with blocked and slow roads: it ends (`SearchEnds`), with a route exactly if there is one (`RouteIsAllowed`). |
| `services` | Started in the orders that the documents intend, and by the systemd units with names from an earlier run and services without the right to write; with kills and restarts: in the former who runs is connected to the others (`ConnectedInOrder`), always what was opened since `model_manager` unlinked a name is shared (`SharedSinceUnlink`), nobody runs on a segment without header and mutexes (`AttachedIsUsable`), and in the end all run (`Recovers`). |
| `car_control` | The control loop against camera, road and master: `DirectionsFit`, `StraightWhenFree`, `CountObeyed`, `DrivesOn`. |

Five runs show disagreements between the code and what its documents or comments
say; each finding in PROJECT.json quotes the line.

| Run | Violated | What happens |
|---|---|---|
| `seqlock_crash_spin` | `ReadsReturn` | A writer dies with the number odd; the robust mutex is taken over, the next update makes the number even during the update and odd after it, and readers spin for ever on a free mutex. |
| `dispatch_lost_update` | `NoLostUpdate` | Planner and router read, change and write back the same record in separate critical sections, and one overwrites what the other wrote. (That the subscriber does the same to a record, and that planner and subscriber free a road they saw occupied although a ban was set meanwhile, is in the model but not in this trace.) |
| `startup_race` | `Connected` | Under the systemd units a receiver may create its queue before `model_manager` replaces it, and then hears nothing for ever. |
| `car_blind` | `NoBlindCrossing` | A dog stops the car at a node's mark; when it resumes it has forgotten the junction and crosses the node without a direction. |
| `car_early_direction` | `KnownBeforeArrival` | A direction that comes before the mark, as `mqtt-api.md:42` and `:131` describe it, is forgotten at the mark; router and car agree on another protocol, in which the direction follows the report. |

Four more configurations give counterexamples that bear on a hazard. They are not runs
of PROJECT.json, and can be started in the same way.

| Configuration | Violated | What happens |
|---|---|---|
| `seqlock_early_stores` | `SnapshotsAreAtomic` | The store-release of `write_begin` lets a later store be seen before the odd number; a reader returns one new word and one old. |
| `dispatch_wrong_road` | `OccupiesItsRoad` | A mission, a cancel, and a passing obstacle at a mark, where the car then crosses the node without its direction; later it reports a node after it was parked, and the router takes the word before the empty `path_stack` for the road to occupy. |
| `car_flicker` | `ThreeFramesClear` | The counter that should wait for three frames counts cycles of 5 ms, so one frame is counted three times. |
| `startup_empty_map` | `AttachedIsFilled` | The flag a client waits for is set before map and cars are filled; what the units start meanwhile runs on an empty map. |

### Bounds

- `Seqlock`: `MaxWrites` 2 or 3 updates, `SeqMax` 7 with `InitSeq` 4, so that the
  number wraps within the behaviour; two words, the fewest that can be torn;
  two values. Three updates let one overlap a copy on each side; a copy that
  lasts for four updates would be fooled, and is not reached (the proof makes
  this a hypothesis, see below).
- `Dispatch`: five nodes and ten edges with a stub and a square, so that there
  are two ways around, every kind of turn and an edge with the largest id.
  `dispatch_orders`, where far more can happen, has the square alone (four nodes, two
  ways around, one of them begun by turning back), one car and one target; a topology
  request lists a road of the way and a node, and the car can be put on one other road.
  `Budget` bounds how often the outside acts, per kind and in all (`any`); three
  acts are the fewest with which one disturbs a mission while another disturbs the
  replan that answers the first. `MqttCap` is 8 where the properties are about
  missions, which the bursts never fill, and 2 in `dispatch_orders`, where they do.
  The queues of the code hold 10, 16 and 32 messages. `dispatch_two_cars` was also
  checked with four missions. It satisfies every hypothesis of the theorems in
  `MissionProofs` and `ParkingProofs`, and the invariants of both were checked on it.
  `dispatch_wrong_road` has one car, one mission, one cancel and one obstacle.
- `FindPath`: six of the fifteen nodes of `init_map` with their coordinates and
  weights, two meshes, so that a node can be reached again after it was closed; up
  to one blocked and two slow edges (one direction each) and a closed node. The
  proof covers every map, weight and estimate.
- `Services`: planner (for planner and router, whose scripts are alike), publisher, Task
  and Topo in `services`; the scripts of subscriber and Status are in `startup_race` and
  `startup_empty_map`, and the theorems hold for all. One kill or stop of
  `model_manager` in two of the three policies, one of a client in two, and names left
  from an earlier run in two. `Objects` 5 are more than one name can stand for in such
  a behaviour while processes still hold the older ones.
- `CarControl`: `MaxNodes` 2 marks (a direction kept from the first would show at
  the second), `MaxSightings` 3 changes of what the camera sees (an obstacle, its
  end and another), `MaxCommands` 2 actions or counts, `CmdCap` 2, so that the
  queue overflows. The safety properties were also checked with three commands. `car_early_direction`
  has one obstacle and one command.

`CHECK_DEADLOCK FALSE` stands where a behaviour may really end: the budget is
spent and every car stands, a crashed writer leaves readers spinning, or the
camera's and the master's bounds are used up. In `route_search` it is the end of the
search. In `seqlock` deadlock is checked: a reader may always call again.

### Fairness and assumptions

- `Seqlock!Fairness`: a process that can take a step of an accessor takes one;
  a store leaves the store buffer. Calls are not fair. `ReadsReturn` assumes that
  updates stop with a free mutex, because the code accepts endless retries while
  they go on (`seqlock.h:18`).
- `Dispatch!Fairness`: weak fairness of every process, which waits in `poll` for
  its queue, and of driving cars. Requests and disturbances are not fair.
- `CarControl!FairSpec`: `ControlTask` is periodic (weak fairness) and frames keep
  coming between its cycles (strong fairness, since a step of the model between
  two cycles is enabled only there).
- `Services!Fairness`: systemd starts what has ended (`Restart=always`), and a
  process that boots takes its next step. Kills are bounded and not fair.
- `FindPath!FairSpec`: the search is not interrupted for ever.
- `dispatch_two_cars` assumes a `Patient` operator, who gives a car a task when
  nothing about it is in flight, no obstacle, no time-out (`MayTimeOut` FALSE) and
  no lost command. Without patience the lost update of section 3 makes the
  properties false; that is what `dispatch_lost_update` shows. It also assumes that
  no two cars park on one road: no two are sent to one node (`Apart`), and no two
  targets are neighbours. Otherwise the planner that frees the road's two directions
  for the one interleaves with the router that occupies them for the other, and one
  direction stays OCCUPIED for ever; with neighbouring targets TLC finds this within
  seconds. It takes a car that passes another one on the line, which the model does
  not exclude, so this is an assumption here and not a finding.
- `Atomicity`, and so the one step per access in `Dispatch`, assumes that stores
  become visible in order. `seqlock_early_stores.cfg` shows what
  happens otherwise: the store-release in `write_begin` (`seqlock.h:43`) keeps earlier
  stores before the odd number, not later ones behind it. Compilers for x86 leave the
  order as it is.
- `services` has three policies. Under the first everything waits for `model_manager`
  and is started again after it, as the documents intend. The second shows what
  suffices without failures of `model_manager`: that the receivers wait. These two are
  `Ordered`. The third follows the systemd units: nothing waits, planner and router
  alone go down with `model_manager`, the publisher is not ordered after it. `Connected`
  is false there (`startup_race`), and `ConnectedInOrder` claims it for the first two;
  the other properties hold under all three.
- In `CarControl` the car passes no place faster than a frame is seen there, a
  road is longer than `ENCODER_PASS_THRESHOLD` (a car whose turn was cut short by
  PAUSE keeps the phase APPROACH), and the answer to a report does not come later
  than the next mark. An answer that
  does would be taken for the answer to the next report: messages carry no
  number.

## 4. Proofs

`SeqlockProofs`, for any writers, readers, words, values and wrap-around:

- `Typing`: `TypeOK` is inductive.
- `MutualExclusion`: `WriterExclusion` also with crashes and early stores. It is
  not inductive; `OwnerIsInside` (a writer is in the critical section exactly if
  it owns the mutex) is, and implies it.
- `Atomicity`: without crashes and early stores, and if no copy lasts while the
  number comes round (`NotOvertaken`), `Spec` implements `AtomicRegister`. The
  invariant has four parts: `OwnerIsInside`; `Parity` (the number is even exactly
  if nobody writes); `StoredSoFar` (the memory differs from the last completed
  update only in the words the owner has stored); `CopiedSoFar` (if the number
  has not moved since a reader began, its copy agrees with the register).
  `Parity` is what a crash destroys and early stores hide: `seqlock_crash_spin` shows
  the one, `seqlock_early_stores` the other.
- `ReadsAreQuiet`: `NoReadDuringUpdate`, from the same invariant and without
  `NotOvertaken`: a torn copy may be accepted after the number came round, but never
  while a writer stores.

`DispatchProofs`, for any map, fleet, queue capacities and budget:

- `Typing`: `TypeOK`, one lemma per process.
- `CarsStayOnTheMap`: `OnTheMap`, although records are overwritten. Inductive only
  with `PlanKeepsToMap` and `RouteKeepsToMap`: the record the planner is about
  to write, and the one the router goes on from, are on the map too. What saves
  the map from the lost updates is that every process writes both nodes of a
  road and computes both from one snapshot.

- `PlansLeadToTargets`: `PlanLeadsToTarget`, with resets, lost commands and full
  queues. Inductive with two more conjuncts: the record the planner is about to
  write leads on (`PlanLeadsOn`), and so does the one the router holds, which has
  the edge it is about to take on its plan (`RouteLeadsOn`). The lemma that carries
  it (`LastLegLeads`): the router's scan from the end of `path_stack` finds an edge
  from which the plan goes on, if there is one.

`MissionProofs`, for any map, fleet, targets and number of tasks, with topology
requests and resets in between, under three hypotheses: `Undisturbed` (a patient
operator who cancels nothing; no obstacle, time-out, lost command or car put
elsewhere), `Roomy` (a queue has room for what can be in flight about all cars: as
many entries as cars, and two per car towards the publisher; the code has two cars
and queues of 10, 16 and 32), `WellSigned` (no two roads leave a node in the same of
the four directions, seen from a car that arrives; the map of `init_map` is a grid of
three by five). `dispatch_lost_update` and `dispatch_orders` show behaviours without
the first.

- `MissionsKeepTheirStages`: the invariant `MissionInv`, from which the others follow.
  None of the properties is near to inductive, since what planner, router,
  subscriber, publisher and car do next depends on what is in the queues. `MissionInv`
  says for each car that it is in one of fourteen stages (`OnMission`, from `Resting`
  over `Ordered`, `Choosing`, ... to `Arrived`). A stage fixes the car's record, the
  local copies that planner and router hold of it, which messages about it are in
  which queue, and where the car really is. `QueueInv` says that a queue holds no two
  messages of one kind about one car, and that a car's count comes before its order to
  go; `CalmInv` that the topology is changed only while all cars rest. The two
  messages of the planner and the router's late write of the record overlap with what
  the car does: `Starting` and the condition `Catching` cover every order of the two. A step for one car leaves the stage of the others (`StageFrame`, `OneCar`).
- `CarsAreOnCourse`, `NobodyIsStranded`: `OnCourse` and `NotStranded`.
- `MissionsAreJourneysSafely`: under the mapping of `MissionsAreJourneys` the initial
  state is one of `Journeys`, and every step is a step of `Journeys` or a stutter.
  Only three steps write a record (`WritersOfRecords`); each finds in it what its
  process has read.

`ParkingProofs`, under the same hypotheses:

- `NoUpdateIsLost`: `NoLostUpdate`, if the map is not reset (`NeverReset`). Records
  are never overwritten, as the stages show; of the roads, `FreeInv` says that the one
  the planner is about to free is still occupied. This is what the code relies on
  in place of locks that last from reading to writing.
- `RoadsAreHeld`, `NoRoadStaysClosed`: `OccupiedMeansParked`, if nobody else writes
  the map and no two cars park on one road (`RoadsApart`: at most one road between two
  nodes; no two cars start on one road or are sent to one node; no two targets are
  neighbours). Stations at the six dead ends of `init_map` are such targets, and its cars
  start on two different roads. The invariant `ParkingInv`: `OccupiedIsHeld` (an edge is occupied
  exactly if a car holds it; the steps between the two directions of a road are cases
  of `Holds`), `OneClaim` and `OneHead` (no two cars hold or mean to park on one
  road), `SeesStarters` (a plan avoids the roads of cars that were never sent out,
  which the planner's copy of the map shows), `Placed` (the road the planner frees is
  the one the car stands on, the one the router occupies is the last of the plan).
  The lemma that carries it (`EndIsFree`): a plan that is accepted ends on a road that
  nobody else claims.
- `ParkedOnTheRecordsRoad`: `OccupiesItsRoad`, from `Parking` (the router takes the end
  of a plan that is not empty) and `Placed` (that end is the road of the record). Without
  `Undisturbed` it is false: `dispatch_wrong_road.cfg`.

`FindPathProofs`, for any map, weights, estimate and query:

- `Typing`, and `AnswersAreRoutes`: `FindPath` implements `RouteChoice`. The
  invariant (`SearchInv`) has four parts: `TreeInv` (the predecessors form a tree: a
  node is dearer than the one it was reached from, also after either has become
  cheaper, which is where weights above zero are needed); `FrontInv` (a node that
  was reached is closed or open, and the edges of closed nodes have been looked
  at, so that an empty open set means that there is no route); `PathInv` (what is
  traced is a piece of the tree, with costs that rise, so no node occurs twice);
  `AnswerInv`.

`ServicesProofs`, for any set of processes, objects and kills:

- `Typing`.
- `SharedSince`: `SharedSinceUnlink`, whatever waits or does not and whoever survives
  `model_manager`. The invariant `SinceInv` adds that such a handle lies behind its
  owner (`s[2] < pc[s[1]]`) and that its name was unlinked in the present run. What
  carries it: `ManagerScript` unlinks each name once, before it opens it
  (`UnlinkedOnce`), and every other open leaves a name that stands for something as
  it is, because none asks for `O_EXCL`.
- `AttachedUsable`: `AttachedIsUsable`, also for every policy. `Building` says what the
  segment contains at each step of `model_manager`; `UsableInv` that a handle that was
  checked has header and mutexes, which no step takes away again; `SettledInv` that who
  waits for `model_manager` and goes down with it holds the segment that is filled.

`Connected` has no such theorem: the units do not give it (`startup_race`), and for
the intended orders `ConnectedInOrder` is model-checked.

`CarControlProofs`, for any obstacles, counts, queue length and numbers of marks,
commands and frames. One invariant, `CarInv`, is inductive together with
`TypeOK`:

- `CountInv` (for `CountIsObeyed`): `CountObeyed` speaks of the beginning of a
  cycle; it needs that the count of a car in WAIT_COMMAND is right in every step,
  because that state drives on without comparing it.
- `RepliesFit` and `DirectionFits` (for `DirectionsAreForTheMark`): every report on
  its way and every direction in the queue belongs to the mark reached last, and
  so does the direction a car holds in APPROACH. Rests on the assumption of
  section 3 that the master answers before the next mark, and on the reset of
  `hasOrient` at the rising edge.
- `ObstacleNoted` (for `NoStraightIntoObstacle`): what the camera shows in a
  junction is pending when the state machine runs. The three theorems, and
  `Typing`, follow.

Only model-checked: `ConnectedInOrder`; liveness under fairness (`DrivesOn`, `MissionsComplete`,
`SearchEnds`, `Recovers`, `ReadsReturn` and `WritersNotStuck`), which is beyond the
prover, and with it the fairness that `Journeys` demands in `MissionsAreJourneys`.

## 5. Not modelled

- Steering and PWM, display and keys of a car, its reconnection to the broker,
  image recognition, the web page, the content of snapshots and files that
  `Status`, `Capture` and `Upload` pass on; parsing and formatting of messages and
  replies. `Task.cpp:71` narrows a node id to eight bits; targets are nodes of the
  map in `Dispatch`, and numbers beyond it in `FindPath`.
- Logging. Every `LOG_*` call opens the log queue again and does not close it, and
  a full queue blocks the caller, in `reset_shm_map` even while it holds the mutex
  of the map. The models take the log daemon as running and descriptors as
  plentiful.
- `bipaths` is read without a lock; the models take the pairs from the map, which
  never changes, so a copy made during a reset, with a low count, is not among them.
- In `Services`, the umask itself (`refused` names who may not write), queue attributes
  (the publisher asks for 10 messages where `model_manager` asks for 32), and messages
  in the queues.
- The second entries that a reset appends to the adjacency lists (section 2).
- What a cancel without a mission, a PAUSE during an obstacle, or a MOVING car
  without a plan should mean: neither the code nor its documents say, so no property
  claims it.

## 6. What could come next

1. A log queue with its blocking senders, composed with the guarded section of
   `Seqlock`: who waits for whom when the daemon is down.
2. The broker connection as a process with descriptors, instead of single lost
   commands in `Dispatch`.
3. Request numbers in commands and answers, so that a cancel that overtakes its
   assignment, and a direction that comes after the next mark, can be told apart.
4. Theorems with weaker hypotheses: the stages of a mission when obstacles or cancels
   disturb it.
