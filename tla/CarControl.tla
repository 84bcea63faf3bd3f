------------------------------ MODULE CarControl ------------------------------
(***************************************************************************)
(* One car (peripheral/): ControlTask with the two queues it drains, the   *)
(* road under it, the camera in front of it and the master behind MQTT.    *)
(* A cycle of ControlTask is four steps: take the newest frame, drain the  *)
(* commands, react to obstacles, run the state machine.  VisionTask and    *)
(* MQTTTask act in between.                                                *)
(*                                                                         *)
(* Distances are reduced to what the code compares: "far" says whether the *)
(* encoders have passed ENCODER_PASS_THRESHOLD or POST_TURN_DISTANCE since *)
(* they were reset.  Places on the way: road, mark (the line before a      *)
(* node), node (its centre).                                               *)
(***************************************************************************)
EXTENDS Naturals, Sequences

CONSTANTS
  Obstacles,    (* Labels the camera may see besides "none" and "car".     *)
  Passing,      (* Those of them that go away: dog, cat, people.           *)
  Turns,        (* Directions that turn the car: LEFT, RIGHT, UTURN, which *)
                (* differ only in the angle.                               *)
  Counts,       (* Arguments of CNT.                                       *)
  CmdCap,       (* Length of g_commandQueue.                               *)
  MaxCommands,  (* Bound on the actions and counts the master sends.       *)
  MaxNodes,     (* Bound on the marks the car reaches.                     *)
  MaxSightings  (* Bound on the changes of what is ahead.                  *)

ASSUME ObstacleAssumption == /\ Passing \subseteq Obstacles
                             /\ {"none", "car", "blank"} \cap Obstacles = {}
ASSUME TurnAssumption == {"NONE", "STRAIGHT", "ARRIVED"} \cap Turns = {}
ASSUME CountAssumption == Counts \subseteq Nat
ASSUME CarBoundAssumption == /\ CmdCap \in Nat /\ MaxCommands \in Nat
                             /\ MaxNodes \in Nat /\ MaxSightings \in Nat

VARIABLES
  pc,        (* Next step of the cycle.                                    *)
  ctx,       (* ControlCtx_t.                                              *)
  vision,    (* visionData: the frame of this cycle.                       *)
  far,       (* Encoders since resetEncoders.                              *)
  cam,       (* Newest frame in g_visionQueue: a sequence of at most one.  *)
  cmds,      (* g_commandQueue.                                            *)
  place,     (* Where the car is.                                          *)
  ahead,     (* What the camera sees ahead of it.                          *)
  replies,   (* Reports of nodes the router has still to answer.           *)
  stuckAt,   (* Has a lasting obstacle been reported and not answered?     *)
  node,      (* Marks reached so far.                                      *)
  answers,   (* History: mark whose report ctx.orient answers.             *)
  clear,     (* History: frames "none" in a row since the stop, up to 3.   *)
  sent,      (* Actions and counts sent so far.                            *)
  sightings  (* Changes of ahead so far.                                   *)

control == <<pc, ctx, vision, far>>
queues  == <<cam, cmds>>
world   == <<place, ahead>>
master  == <<replies, stuckAt>>
history == <<node, answers, clear>>
bounds  == <<sent, sightings>>
vars    == <<control, queues, world, master, history, bounds>>

-----------------------------------------------------------------------------
States  == {"IDLE", "FOLLOW", "TURN", "WAIT_COMMAND"}
Phases  == {"NONE", "APPROACH", "POST_TURN"}
Orients == Turns \cup {"STRAIGHT", "ARRIVED"}

(* "blank" is the empty label ControlTask works with before the first      *)
(* frame; it is neither "none" nor "car".                                  *)
Labels  == Obstacles \cup {"none", "car", "blank"}

Frames  == [flag : BOOLEAN, obs : Labels]

(* A command: exactly one of orient and action is set; for is the mark a   *)
(* direction answers, num the argument of CNT.                             *)
Cmds == [orient : Orients \cup {"NONE"}, action : {"NONE", "PAUSE", "PROCESS", "UTURN", "SETN"},
         num : Counts \cup {0}, for : 0..MaxNodes]
Direction(o, n) == [orient |-> o, action |-> "NONE", num |-> 0, for |-> n]
Action(a, k)    == [orient |-> "NONE", action |-> a, num |-> k, for |-> 0]

Start == [state |-> "IDLE", orient |-> "NONE", num |-> 0, count |-> 0,
          lastFlag |-> FALSE, phase |-> "NONE", has |-> FALSE,
          reported |-> FALSE, dog |-> FALSE, pending |-> FALSE, type |-> "blank",
          nones |-> 0]

Init ==
  /\ pc = "wake" /\ ctx = Start
  /\ vision = [flag |-> FALSE, obs |-> "blank"] /\ far = FALSE
  /\ cam = <<>> /\ cmds = <<>>
  /\ place = "road" /\ ahead = "none"
  /\ replies = <<>> /\ stuckAt = FALSE
  /\ node = 0 /\ answers = 0 /\ clear = 0
  /\ sent = 0 /\ sightings = 0

-----------------------------------------------------------------------------
(* The world *)

(* VisionTask: a full queue loses its oldest frame, and ControlTask keeps  *)
(* only the newest, so the others are not modelled.  A frame that comes    *)
(* later in a cycle is as good as one that comes before the next.          *)
Capture(label) ==
  /\ pc = "wake"
  /\ ahead' = label /\ cam' = <<[flag |-> place = "mark", obs |-> label]>>
  /\ \/ label = ahead /\ UNCHANGED sightings
     \/ label # ahead /\ sightings < MaxSightings /\ sightings' = sightings + 1
  /\ clear' = IF label # "none" \/ ~ctx.dog THEN 0 ELSE IF clear < 3 THEN clear + 1 ELSE 3
  /\ UNCHANGED <<control, cmds, place, master, node, answers, sent>>

(* mqttCallback: a command that finds the queue full is dropped.  One that *)
(* comes in the second half of a cycle is as good as one after it.         *)
Enqueue(c) == pc \in {"wake", "cmds"} /\ cmds' = IF Len(cmds) < CmdCap THEN Append(cmds, c) ELSE cmds

(* The router answers the reports in their order, with any direction. *)
Answer(o) ==
  /\ replies # <<>> /\ replies' = Tail(replies)
  /\ Enqueue(Direction(o, Head(replies)))
  /\ UNCHANGED <<control, cam, world, stuckAt, history, bounds>>

(* The planner starts and stops the car at any time; it makes it turn      *)
(* around only as an answer to a lasting obstacle.                         *)
Command(a, k) ==
  /\ sent < MaxCommands /\ sent' = sent + 1
  /\ a = "UTURN" => stuckAt
  /\ stuckAt' = (stuckAt /\ a # "UTURN")
  /\ Enqueue(Action(a, k))
  /\ UNCHANGED <<control, cam, world, replies, history, sightings>>

(* Where a car that follows the line may be in the next cycle; "node" is   *)
(* from the mark to as far behind the centre.  A car that turned around    *)
(* near a node may reach its mark within the distance after a turn; for    *)
(* one that turned around on a mark, "node" is the strip of road it comes  *)
(* back over.                                                              *)
Onward == CASE place = "road" -> {"road", "mark"}
            [] place = "mark" -> {"node"}
            [] place = "node" -> {"node", "road"}

-----------------------------------------------------------------------------
(* ControlTask *)

(* The cycle is short: the car does not leave a place before a frame taken *)
(* there was seen, and the master answers before the next mark is reached. *)
(* A road is longer than ENCODER_PASS_THRESHOLD: no car comes to a mark    *)
(* while it still approaches the centre of the last node.  Nor does a car   *)
(* that approaches the centre pass it before the cycle that finds it far.  *)
MayRoll(p) == /\ ctx.state = "FOLLOW" /\ vision.flag = (place = "mark")
              /\ p = "mark" => /\ node < MaxNodes /\ ctx.phase # "APPROACH"
                               /\ replies = <<>>
                               /\ \A i \in DOMAIN cmds : cmds[i].orient = "NONE"
              /\ place = "node" => (p = "node" <=> ctx.phase = "APPROACH")

Wake ==
  /\ pc = "wake" /\ pc' = "cmds"
  /\ IF cam = <<>> THEN UNCHANGED <<vision, cam>> ELSE vision' = Head(cam) /\ cam' = <<>>
  /\ \/ UNCHANGED <<place, far, node>>
     \/ \E p \in Onward : /\ MayRoll(p) /\ place' = p
                          /\ far' \in IF place = "mark" THEN {far, TRUE} ELSE {TRUE}
                          /\ node' = IF p = "mark" THEN node + 1 ELSE node
  /\ UNCHANGED <<ctx, cmds, ahead, master, answers, clear, bounds>>

(* Definitions named Mut... are mutants: plausible mistakes in the one that *)
(* follows them, which the properties must notice.                         *)

MutCounting(c, x) == [x EXCEPT !.num = @ + c.num, !.count = 0]   (* Counts add up. *)

Counting(c, x) == [x EXCEPT !.num = c.num, !.count = 0]

Commanded(c, x) ==
  CASE c.action = "PAUSE"   -> [x EXCEPT !.state = "IDLE"]
    [] c.action = "PROCESS" -> IF x.state = "IDLE"
                               THEN [x EXCEPT !.state = "FOLLOW", !.lastFlag = FALSE] ELSE x
    [] c.action = "UTURN"   -> [x EXCEPT !.state = "TURN"]
    [] c.action = "SETN"    -> Counting(c, x)
    [] c.action = "NONE"    -> [x EXCEPT !.orient = c.orient, !.has = TRUE]

TakeCommand ==
  /\ pc = "cmds" /\ cmds # <<>>
  /\ LET c == Head(cmds)
     IN /\ ctx' = Commanded(c, ctx)
        /\ answers' = IF c.orient = "NONE" THEN answers ELSE c.for
        /\ far' = (far /\ c.action # "UTURN")
  /\ cmds' = Tail(cmds)
  /\ UNCHANGED <<pc, vision, cam, world, master, node, clear, bounds>>

CommandsDone ==
  /\ pc = "cmds" /\ cmds = <<>> /\ pc' = "sense"
  /\ UNCHANGED <<ctx, vision, far, queues, world, master, history, bounds>>

-----------------------------------------------------------------------------
(* Obstacles *)

(* handleObstacleStop, with resetJunctionCtx. *)
Stopped(x, label) ==
  [x EXCEPT !.reported = TRUE, !.dog = @ \/ (~x.reported /\ label \in Passing),
            !.state = "IDLE", !.phase = "NONE", !.has = FALSE, !.pending = FALSE]

(* What a lasting obstacle leaves the master to do. *)
Informed(x, label) == stuckAt' = (stuckAt \/ (~x.reported /\ label \notin Passing))

(* The mark's rising edge: a direction received before it is void.  The    *)
(* report may be lost on its way.                                          *)
Rising(x) == x.phase = "NONE" /\ vision.flag /\ ~x.lastFlag

MutEntered(x) ==   (* The direction of the last node is kept. *)
  [x EXCEPT !.phase = "APPROACH", !.pending = FALSE, !.count = @ + 1]

Entered(x) ==
  [x EXCEPT !.phase = "APPROACH", !.has = FALSE, !.pending = FALSE, !.count = @ + 1]

ReportNode == replies' \in {replies, Append(replies, node)}

Blocked == vision.obs \notin {"none", "car"}

SenseAtMark ==   (* Case A *)
  /\ pc = "sense" /\ pc' = "drive"
  /\ Blocked /\ ctx.state = "FOLLOW" /\ vision.flag /\ ctx.phase # "POST_TURN"
  /\ LET x == [ctx EXCEPT !.nones = 0]
     IN /\ ctx' = Stopped(IF Rising(x) THEN Entered(x) ELSE x, vision.obs)
        /\ Informed(x, vision.obs)
        /\ IF Rising(x) THEN ReportNode /\ far' = FALSE
                        ELSE UNCHANGED <<replies, far>>
  /\ UNCHANGED <<vision, queues, world, history, bounds>>

(* A waiting car does not look. *)
MutInJunction(x) == x.state = "FOLLOW" /\ x.phase = "APPROACH" /\ ~vision.flag

InJunction(x) == \/ x.state = "FOLLOW" /\ x.phase = "APPROACH" /\ ~vision.flag
                 \/ x.state = "WAIT_COMMAND"

SenseInJunction ==   (* Cases B and C *)
  /\ pc = "sense" /\ pc' = "drive"
  /\ Blocked /\ InJunction(ctx)
  /\ ctx' = IF ctx.pending THEN [ctx EXCEPT !.nones = 0]
            ELSE [ctx EXCEPT !.nones = 0, !.pending = TRUE, !.type = vision.obs]
  /\ UNCHANGED <<vision, far, queues, world, master, history, bounds>>

SenseOnRoad ==   (* Case D *)
  /\ pc = "sense" /\ pc' = "drive"
  /\ Blocked /\ ctx.state = "FOLLOW" /\ ctx.phase = "NONE" /\ ~vision.flag
  /\ ctx' = Stopped([ctx EXCEPT !.nones = 0], vision.obs)
  /\ Informed(ctx, vision.obs)
  /\ UNCHANGED <<vision, far, queues, world, replies, history, bounds>>

(* Nothing to do: the car stands or turns, or has just left a node. *)
SenseIgnored ==
  /\ pc = "sense" /\ pc' = "drive"
  /\ Blocked /\ ~InJunction(ctx)
  /\ ctx.state # "FOLLOW" \/ ctx.phase = "POST_TURN"
  /\ ctx' = [ctx EXCEPT !.nones = 0]
  /\ UNCHANGED <<vision, far, queues, world, master, history, bounds>>

MutCounted(x) ==   (* A stopped car does not count. *)
  IF vision.obs = "none" /\ x.state # "IDLE" /\ x.nones < 3 THEN x.nones + 1 ELSE x.nones

(* noneCnt, here up to 3: it counts cycles, whether or not a frame came. *)
Counted(x) == IF vision.obs = "none" /\ x.nones < 3 THEN x.nones + 1 ELSE x.nones

(* A frame without obstacle; after three cycles a stopped car drives on. *)
SenseNothing ==
  /\ pc = "sense" /\ pc' = "drive"
  /\ ~Blocked
  /\ LET x == [ctx EXCEPT !.nones = Counted(ctx)]
     IN ctx' = IF vision.obs = "car" \/ x.nones < 3 THEN x
               ELSE IF x.dog
               THEN [x EXCEPT !.dog = FALSE, !.lastFlag = vision.flag, !.state = "FOLLOW",
                              !.reported = FALSE, !.pending = FALSE]
               ELSE [x EXCEPT !.reported = FALSE, !.pending = FALSE]
  /\ UNCHANGED <<vision, far, queues, world, master, history, bounds>>

-----------------------------------------------------------------------------
(* The state machine *)

(* executeOrientDecision: x is the context it is called with. *)
Dispatched(x) ==
  [x EXCEPT !.state = CASE x.orient = "STRAIGHT" -> "FOLLOW"
                        [] x.orient = "ARRIVED"  -> "IDLE"
                        [] OTHER                 -> "TURN",
            !.phase = IF x.orient = "STRAIGHT" THEN "POST_TURN" ELSE @,
            !.orient = "NONE", !.has = FALSE, !.pending = FALSE]

Decide(x) ==
  IF x.pending /\ x.orient = "STRAIGHT"
  THEN /\ ctx' = [Stopped(x, x.type) EXCEPT !.orient = "NONE"]
       /\ Informed(x, x.type)
       /\ UNCHANGED far
  ELSE /\ ctx' = Dispatched(x)
       /\ far' = (far /\ x.orient = "ARRIVED")
       /\ UNCHANGED stuckAt

MutOverCount(x) == x.num # 0 /\ x.count > x.num + 1   (* One node too far. *)

(* After the edge, before lastFlag is brought up to date. *)
OverCount(x) == x.num # 0 /\ x.count >= x.num + 1

FollowEdge ==
  /\ ctx.state = "FOLLOW" /\ Rising(ctx)
  /\ ReportNode /\ far' = FALSE
  /\ LET x == Entered(ctx)
     IN ctx' = IF OverCount(x)
               THEN [x EXCEPT !.state = "IDLE", !.count = 0, !.orient = "NONE", !.phase = "NONE"]
               ELSE [x EXCEPT !.lastFlag = vision.flag]
  /\ UNCHANGED stuckAt

(* A count that was reached while the car was stopped by an obstacle. *)
FollowOver ==
  /\ ctx.state = "FOLLOW" /\ ~Rising(ctx) /\ OverCount(ctx)
  /\ ctx' = [ctx EXCEPT !.state = "IDLE", !.count = 0, !.orient = "NONE",
                        !.phase = "NONE", !.has = FALSE, !.pending = FALSE]
  /\ UNCHANGED <<far, master>>

AtCentre == ctx.state = "FOLLOW" /\ ~Rising(ctx) /\ ~OverCount(ctx)
            /\ ctx.phase = "APPROACH" /\ far

FollowDecide ==
  /\ AtCentre /\ ctx.has
  /\ Decide([ctx EXCEPT !.lastFlag = vision.flag])
  /\ UNCHANGED replies

FollowWait ==
  /\ AtCentre /\ ~ctx.has
  /\ ctx' = [ctx EXCEPT !.state = "WAIT_COMMAND", !.lastFlag = vision.flag]
  /\ UNCHANGED <<far, master>>

(* The line is followed; far from the last node the marks count again. *)
FollowOn ==
  /\ ctx.state = "FOLLOW" /\ ~Rising(ctx) /\ ~OverCount(ctx) /\ ~AtCentre
  /\ ctx' = [ctx EXCEPT !.lastFlag = vision.flag,
                        !.phase = IF @ = "POST_TURN" /\ ~vision.flag /\ far THEN "NONE" ELSE @]
  /\ UNCHANGED <<far, master>>

WaitOver ==
  /\ ctx.state = "WAIT_COMMAND" /\ ctx.has
  /\ Decide(ctx)
  /\ UNCHANGED replies

(* COMMAND_WAIT_TIMEOUT_MS: the phase stays what it is. *)
WaitTimeOut ==
  /\ ctx.state = "WAIT_COMMAND" /\ ~ctx.has
  /\ ctx' = [ctx EXCEPT !.state = "IDLE", !.pending = FALSE]
  /\ UNCHANGED <<far, master>>

TurnDone ==
  /\ ctx.state = "TURN"
  /\ ctx' = [ctx EXCEPT !.state = "FOLLOW", !.phase = "POST_TURN"]
  /\ far' = FALSE
  /\ UNCHANGED master

Stand ==
  /\ ctx.state # "FOLLOW"
  /\ ctx.state = "WAIT_COMMAND" => ~ctx.has
  /\ UNCHANGED <<ctx, far, master>>

Drive ==
  /\ pc = "drive" /\ pc' = "wake"
  /\ \/ FollowEdge \/ FollowOver \/ FollowDecide \/ FollowWait \/ FollowOn
     \/ WaitOver \/ WaitTimeOut \/ TurnDone \/ Stand
  /\ UNCHANGED <<vision, queues, world, node, answers, clear, bounds>>

Sense == SenseAtMark \/ SenseInJunction \/ SenseOnRoad \/ SenseIgnored \/ SenseNothing

ControlTask == Wake \/ TakeCommand \/ CommandsDone \/ Sense \/ Drive

MasterActs == \/ \E o \in Orients : Answer(o)
              \/ \E a \in {"PAUSE", "PROCESS", "UTURN"} : Command(a, 0)
              \/ \E k \in Counts : Command("SETN", k)

VisionTask == \E label \in Labels \ {"blank"} : Capture(label)

Next == ControlTask \/ VisionTask \/ MasterActs

Spec == Init /\ [][Next]_vars

(* Both tasks run periodically: frames keep coming between the cycles. *)
FairSpec == Spec /\ WF_vars(ControlTask) /\ SF_vars(VisionTask)

-----------------------------------------------------------------------------
TypeOK ==
  /\ pc \in {"wake", "cmds", "sense", "drive"}
  /\ ctx \in [state : States, orient : Orients \cup {"NONE"}, num : Counts \cup {0},
              count : Nat, lastFlag : BOOLEAN, phase : Phases, has : BOOLEAN,
              reported : BOOLEAN, dog : BOOLEAN, pending : BOOLEAN, type : Labels, nones : 0..3]
  /\ vision \in Frames /\ far \in BOOLEAN
  /\ cam \in Seq(Frames) /\ cmds \in Seq(Cmds) /\ Len(cmds) <= CmdCap
  /\ place \in {"road", "mark", "node"} /\ ahead \in Labels
  /\ replies \in Seq(0..MaxNodes) /\ stuckAt \in BOOLEAN
  /\ node \in 0..MaxNodes /\ answers \in 0..MaxNodes /\ clear \in 0..3
  /\ sent \in 0..MaxCommands /\ sightings \in 0..MaxSightings

(* A direction is carried out at the mark whose report it answers: one     *)
(* that came too late, or to a stopped car, is not kept for the next mark. *)
(* This is what router.h sends, the direction for the node of the report,  *)
(* and what main.cpp makes of it; mqtt-api.md says otherwise (see          *)
(* MCCarControl).                                                          *)
CarriedOut == /\ pc = "drive" /\ ctx.phase = "APPROACH" /\ ctx.has
              /\ ~ctx'.has /\ ctx'.phase # "NONE"
DirectionsFit == [][CarriedOut => node = answers]_vars

(* A car does not go straight on from a mark while its camera shows an     *)
(* obstacle, whatever it had seen when it came there.                      *)
StraightWhenFree ==
  [][CarriedOut /\ ctx.orient = "STRAIGHT" => vision.obs \in {"none", "car"}]_vars

(* A car with n roads to go does not drive on from the mark after them:    *)
(* not when an obstacle stopped it there, nor when it was reported twice.  *)
CountObeyed ==
  pc = "wake" /\ ctx.state \in {"FOLLOW", "WAIT_COMMAND"} /\ ctx.phase # "POST_TURN"
    => ctx.num = 0 \/ ctx.count <= ctx.num

(* A car stopped by a passing obstacle drives on once the road stays free. *)
DrivesOn == <>[](ahead = "none") => (ctx.dog ~> ~ctx.dog)

(* A car leaves a node only with a direction: without one it waits there.  *)
NoBlindCrossing ==
  [][place = "node" /\ place' = "road" => ctx.phase = "POST_TURN"]_vars

(* A stopped car drives on only after three frames without obstacle.       *)
ThreeFramesClear == [][ctx.dog /\ ~ctx'.dog => clear = 3]_vars
=============================================================================
