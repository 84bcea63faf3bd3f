--------------------------- MODULE CarControlProofs ---------------------------
(***************************************************************************)
(* The control loop of a car for any obstacles, counts, queue length and   *)
(* number of marks, commands and frames: types, and what holds where a     *)
(* node is counted, decided at and driven across.                          *)
(***************************************************************************)
EXTENDS CarControl, TLAPS

-----------------------------------------------------------------------------
(* Types *)

Contexts ==
  [state : States, orient : Orients \cup {"NONE"}, num : Counts \cup {0}, count : Nat,
   lastFlag : BOOLEAN, phase : Phases, has : BOOLEAN, reported : BOOLEAN, dog : BOOLEAN,
   pending : BOOLEAN, type : Labels, nones : 0..3]

LEMMA InitTypeOK == Init => TypeOK
<1> SUFFICES ASSUME Init PROVE TypeOK
  OBVIOUS
<1>1. ctx \in Contexts
  BY DEF Init, Start, Contexts, States, Phases, Labels
<1>2. vision \in Frames
  BY DEF Init, Frames, Labels
<1>3. /\ cam \in Seq(Frames) /\ cmds \in Seq(Cmds) /\ Len(cmds) <= CmdCap
      /\ replies \in Seq(0..MaxNodes)
  BY CarBoundAssumption DEF Init
<1>4. /\ stuckAt \in BOOLEAN /\ far \in BOOLEAN /\ ahead \in Labels
      /\ node \in 0..MaxNodes /\ answers \in 0..MaxNodes /\ clear \in 0..3
      /\ sent \in 0..MaxCommands /\ sightings \in 0..MaxSightings
  <2>1. /\ stuckAt = FALSE /\ far = FALSE /\ ahead = "none"
        /\ node = 0 /\ answers = 0 /\ clear = 0 /\ sent = 0 /\ sightings = 0
    BY Zenon DEF Init
  <2>2. 0 \in 0..MaxNodes /\ 0 \in 0..MaxCommands /\ 0 \in 0..MaxSightings /\ 0 \in 0..3
    BY CarBoundAssumption
  <2>3. QED
    BY <2>1, <2>2, Zenon DEF Labels
<1>5. pc \in {"wake", "cmds", "sense", "drive"} /\ place \in {"road", "mark", "node"}
  BY DEF Init
<1>6. QED
  BY <1>1, <1>2, <1>3, <1>4, <1>5 DEF TypeOK, Contexts

(* What ControlTask does to its context keeps the types. *)
LEMMA ContextTypes ==
  ASSUME NEW x \in Contexts
  PROVE  /\ \A c \in Cmds : Commanded(c, x) \in Contexts
         /\ \A l \in Labels : Stopped(x, l) \in Contexts
         /\ Entered(x) \in Contexts
         /\ Counted(x) \in 0..3
         /\ Dispatched(x) \in Contexts
<1>1. ASSUME NEW c \in Cmds PROVE Commanded(c, x) \in Contexts
  <2>1. c.orient \in Orients \cup {"NONE"} /\ c.num \in Counts \cup {0}
        /\ c.action \in {"NONE", "PAUSE", "PROCESS", "UTURN", "SETN"}
    BY DEF Cmds
  <2>2. QED
    BY <2>1 DEF Commanded, Counting, Contexts, States
<1>2. ASSUME NEW l \in Labels PROVE Stopped(x, l) \in Contexts
  BY DEF Stopped, Contexts, States, Phases
<1>3. Entered(x) \in Contexts
  <2> DEFINE k == x.count + 1
  <2>1. k \in Nat
    BY DEF Contexts
  <2>2. Entered(x) = [x EXCEPT !.phase = "APPROACH", !.has = FALSE, !.pending = FALSE,
                                !.count = k]
    BY Zenon DEF Entered
  <2> HIDE DEF k
  <2>3. QED
    BY <2>1, <2>2 DEF Contexts, Phases
<1>4. Counted(x) \in 0..3
  BY DEF Counted, Contexts
<1>5. Dispatched(x) \in Contexts
  BY DEF Dispatched, Contexts, States, Phases
<1>6. QED
  BY <1>1, <1>2, <1>3, <1>4, <1>5

LEMMA CommandTypes ==
  /\ \A o \in Orients, n \in 0..MaxNodes : Direction(o, n) \in Cmds
  /\ \A a \in {"PAUSE", "PROCESS", "UTURN", "SETN"}, k \in Counts \cup {0} : Action(a, k) \in Cmds
<1>1. 0 \in 0..MaxNodes
  BY CarBoundAssumption
<1>2. QED
  BY <1>1 DEF Direction, Action, Cmds

LEMMA EnqueueType ==
  ASSUME TypeOK, NEW c \in Cmds, Enqueue(c)
  PROVE  cmds' \in Seq(Cmds) /\ Len(cmds') <= CmdCap
BY CarBoundAssumption DEF TypeOK, Enqueue

LEMMA HeadTailType ==
  ASSUME NEW S, NEW q \in Seq(S), q # <<>>
  PROVE  Head(q) \in S /\ Tail(q) \in Seq(S) /\ Len(Tail(q)) = Len(q) - 1
OBVIOUS

(* The steps of the other tasks. *)
LEMMA OthersTypeOK == TypeOK /\ (VisionTask \/ MasterActs) => TypeOK'
<1> SUFFICES ASSUME TypeOK, VisionTask \/ MasterActs PROVE TypeOK'
  OBVIOUS
<1>1. ASSUME NEW l \in Labels, Capture(l) PROVE TypeOK'
  <2>1. cam' \in Seq(Frames)
    BY <1>1 DEF Capture, Frames
  <2>2. clear' \in 0..3
    BY <1>1 DEF Capture, TypeOK
  <2>3. sightings' \in 0..MaxSightings
    BY <1>1, CarBoundAssumption DEF Capture, TypeOK
  <2>4. QED
    BY <1>1, <2>1, <2>2, <2>3 DEF Capture, TypeOK, control, master
<1>2. ASSUME NEW o \in Orients, Answer(o) PROVE TypeOK'
  <2>1. replies' \in Seq(0..MaxNodes) /\ Head(replies) \in 0..MaxNodes
    <3>1. replies \in Seq(0..MaxNodes) /\ replies # <<>> /\ replies' = Tail(replies)
      BY <1>2, Zenon DEF Answer, TypeOK
    <3>2. QED
      BY <3>1, HeadTailType
  <2>2. cmds' \in Seq(Cmds) /\ Len(cmds') <= CmdCap
    BY <1>2, <2>1, CommandTypes, EnqueueType DEF Answer
  <2>3. QED
    BY <1>2, <2>1, <2>2 DEF Answer, TypeOK, control, world, history, bounds
<1>3. ASSUME NEW a \in {"PAUSE", "PROCESS", "UTURN", "SETN"}, NEW k \in Counts \cup {0},
             Command(a, k)
      PROVE  TypeOK'
  <2>1. cmds' \in Seq(Cmds) /\ Len(cmds') <= CmdCap
    BY <1>3, CommandTypes, EnqueueType DEF Command
  <2>2. stuckAt' \in BOOLEAN
    BY <1>3, Zenon DEF Command, TypeOK
  <2>3. sent' \in 0..MaxCommands
    BY <1>3, CarBoundAssumption DEF Command, TypeOK
  <2>4. QED
    BY <1>3, <2>1, <2>2, <2>3 DEF Command, TypeOK, control, world, history
<1>4. QED
  BY <1>1, <1>2, <1>3 DEF VisionTask, MasterActs

(* The first half of a cycle. *)
LEMMA QueuesTypeOK == TypeOK /\ (Wake \/ TakeCommand \/ CommandsDone) => TypeOK'
<1> SUFFICES ASSUME TypeOK, Wake \/ TakeCommand \/ CommandsDone PROVE TypeOK'
  OBVIOUS
<1>1. CASE Wake
  <2>1. vision' \in Frames /\ cam' \in Seq(Frames)
    <3>1. CASE cam = <<>>
      BY <1>1, <3>1 DEF Wake, TypeOK
    <3>2. CASE cam # <<>>
      BY <1>1, <3>2, HeadTailType DEF Wake, TypeOK
    <3>3. QED
      BY <3>1, <3>2
  <2>2. place' \in {"road", "mark", "node"} /\ far' \in BOOLEAN
    BY <1>1 DEF Wake, TypeOK, Onward
  <2>3. node' \in 0..MaxNodes
    <3>1. node \in 0..MaxNodes
      BY Zenon DEF TypeOK
    <3>2. ASSUME NEW p, MayRoll(p), p = "mark" PROVE node < MaxNodes
      BY <3>2, Zenon DEF MayRoll
    <3>3. node' = node \/ (node' = node + 1 /\ node < MaxNodes)
      BY <1>1, <3>2, Zenon DEF Wake
    <3>4. QED
      BY <3>1, <3>3, CarBoundAssumption
  <2>4. QED
    BY <1>1, <2>1, <2>2, <2>3 DEF Wake, TypeOK, master, bounds
<1>2. CASE TakeCommand
  <2>1. /\ cmds' \in Seq(Cmds) /\ Len(cmds') <= CmdCap /\ Head(cmds) \in Cmds
    <3>1. cmds \in Seq(Cmds) /\ Len(cmds) <= CmdCap /\ cmds # <<>> /\ cmds' = Tail(cmds)
      BY <1>2, Zenon DEF TakeCommand, TypeOK
    <3>2. Len(Tail(cmds)) = Len(cmds) - 1 /\ Len(cmds) \in Nat /\ Len(Tail(cmds)) \in Nat
      BY <3>1, HeadTailType
    <3>3. QED
      BY <3>1, <3>2, HeadTailType, CarBoundAssumption
  <2>2. ctx' \in Contexts
    BY <1>2, <2>1, ContextTypes DEF TakeCommand, TypeOK, Contexts
  <2>3. answers' \in 0..MaxNodes
    BY <1>2, <2>1 DEF TakeCommand, TypeOK, Cmds
  <2>4. far' \in BOOLEAN
    BY <1>2, Zenon DEF TakeCommand, TypeOK
  <2>5. QED
    BY <1>2, <2>1, <2>2, <2>3, <2>4 DEF TakeCommand, TypeOK, Contexts, world, master, bounds
<1>3. CASE CommandsDone
  BY <1>3 DEF CommandsDone, TypeOK, queues, world, master, history, bounds
<1>4. QED
  BY <1>1, <1>2, <1>3

(* What the second half of a cycle may change: not the queues it drained,  *)
(* nor anything outside the car but what the master is told.               *)
Halfway ==
  UNCHANGED <<vision, queues, world, history, bounds>>

LEMMA HalfwayTypeOK ==
  ASSUME TypeOK, Halfway, pc' \in {"drive", "wake"}, ctx' \in Contexts, far' \in BOOLEAN,
         replies' \in Seq(0..MaxNodes), stuckAt' \in BOOLEAN
  PROVE  TypeOK'
BY DEF Halfway, TypeOK, Contexts, queues, world, history, bounds

LEMMA ElementType ==
  ASSUME NEW S, NEW q \in Seq(S)
  PROVE  \A i \in DOMAIN q : q[i] \in S
OBVIOUS

LEMMA AppendType ==
  ASSUME NEW S, NEW q \in Seq(S), NEW e \in S
  PROVE  Append(q, e) \in Seq(S)
OBVIOUS

LEMMA ReportType == TypeOK /\ ReportNode => replies' \in Seq(0..MaxNodes)
<1> SUFFICES ASSUME TypeOK, ReportNode PROVE replies' \in Seq(0..MaxNodes)
  OBVIOUS
<1>1. replies \in Seq(0..MaxNodes) /\ node \in 0..MaxNodes
  BY Zenon DEF TypeOK
<1>2. Append(replies, node) \in Seq(0..MaxNodes)
  BY <1>1, AppendType
<1>3. QED
  BY <1>1, <1>2, Zenon DEF ReportNode

LEMMA InformedType == \A x, l : Informed(x, l) => stuckAt' \in BOOLEAN
BY Zenon DEF Informed

LEMMA SenseTypeOK == TypeOK /\ Sense => TypeOK'
<1> SUFFICES ASSUME TypeOK, Sense PROVE TypeOK'
  OBVIOUS
<1>1. /\ ctx \in Contexts /\ vision.obs \in Labels /\ far \in BOOLEAN
      /\ replies \in Seq(0..MaxNodes) /\ stuckAt \in BOOLEAN
  BY DEF TypeOK, Contexts, Frames
<1>2. [ctx EXCEPT !.nones = 0] \in Contexts
  BY <1>1 DEF Contexts
<1>3. CASE SenseAtMark
  <2> DEFINE x == [ctx EXCEPT !.nones = 0]
             y == IF Rising(x) THEN Entered(x) ELSE x
  <2>1. ctx' \in Contexts
    <3>1. x \in Contexts
      BY <1>2
    <3>2. Entered(x) \in Contexts
      BY <3>1, ContextTypes
    <3>3. y \in Contexts
      BY <3>1, <3>2, Zenon
    <3>4. ctx' = Stopped(y, vision.obs)
      BY <1>3, Zenon DEF SenseAtMark
    <3> HIDE DEF y
    <3>5. QED
      BY <1>1, <3>3, <3>4, ContextTypes
  <2>2. far' \in BOOLEAN /\ replies' \in Seq(0..MaxNodes) /\ stuckAt' \in BOOLEAN
    BY <1>1, <1>3, ReportType, InformedType DEF SenseAtMark
  <2>3. QED
    BY <1>3, <2>1, <2>2, HalfwayTypeOK DEF SenseAtMark, Halfway
<1>4. CASE SenseInJunction
  <2>1. /\ [ctx EXCEPT !.nones = 0] \in Contexts
        /\ [ctx EXCEPT !.nones = 0, !.pending = TRUE, !.type = vision.obs] \in Contexts
    <3>1. ASSUME NEW c \in Contexts, NEW l \in Labels
          PROVE  [c EXCEPT !.pending = TRUE, !.type = l] \in Contexts
      BY DEF Contexts
    <3>2. [[ctx EXCEPT !.nones = 0] EXCEPT !.pending = TRUE, !.type = vision.obs]
            = [ctx EXCEPT !.nones = 0, !.pending = TRUE, !.type = vision.obs]
      BY <1>1 DEF Contexts
    <3>3. QED
      BY <1>1, <1>2, <3>1, <3>2, Zenon
  <2>2. ctx' \in Contexts
    BY <1>4, <2>1, Zenon DEF SenseInJunction
  <2>3. QED
    BY <1>1, <1>4, <2>2, HalfwayTypeOK DEF SenseInJunction, Halfway, master
<1>5. CASE SenseOnRoad
  <2>1. ctx' \in Contexts
    BY <1>1, <1>2, <1>5, ContextTypes DEF SenseOnRoad
  <2>2. stuckAt' \in BOOLEAN
    BY <1>5, InformedType DEF SenseOnRoad
  <2>3. QED
    BY <1>1, <1>5, <2>1, <2>2, HalfwayTypeOK DEF SenseOnRoad, Halfway
<1>6. CASE SenseIgnored
  BY <1>1, <1>2, <1>6, HalfwayTypeOK DEF SenseIgnored, Halfway, master
<1>7. CASE SenseNothing
  <2>1. [ctx EXCEPT !.nones = Counted(ctx)] \in Contexts
    BY <1>1, ContextTypes DEF Contexts
  <2>2. ctx' \in Contexts
    BY <1>1, <1>7, <2>1 DEF SenseNothing, Contexts, States, Frames, TypeOK
  <2>3. QED
    BY <1>1, <1>7, <2>2, HalfwayTypeOK DEF SenseNothing, Halfway, master
<1>8. QED
  BY <1>3, <1>4, <1>5, <1>6, <1>7 DEF Sense

(* The state machine. *)
LEMMA DecideType ==
  ASSUME NEW x \in Contexts, far \in BOOLEAN, stuckAt \in BOOLEAN, Decide(x)
  PROVE  ctx' \in Contexts /\ far' \in BOOLEAN /\ stuckAt' \in BOOLEAN
<1>1. CASE x.pending /\ x.orient = "STRAIGHT"
  <2>1. x.type \in Labels
    BY DEF Contexts
  <2>2. Stopped(x, x.type) \in Contexts
    BY <2>1, ContextTypes
  <2>3. [Stopped(x, x.type) EXCEPT !.orient = "NONE"] \in Contexts
    BY <2>2 DEF Contexts
  <2>4. QED
    BY <1>1, <2>3, InformedType, Zenon DEF Decide
<1>2. CASE ~(x.pending /\ x.orient = "STRAIGHT")
  <2>1. Dispatched(x) \in Contexts
    BY ContextTypes
  <2>2. QED
    BY <1>2, <2>1, Zenon DEF Decide
<1>3. QED
  BY <1>1, <1>2

LEMMA DriveTypeOK == TypeOK /\ Drive => TypeOK'
<1> SUFFICES ASSUME TypeOK, Drive PROVE TypeOK'
  OBVIOUS
<1>1. /\ ctx \in Contexts /\ vision.flag \in BOOLEAN /\ far \in BOOLEAN
      /\ replies \in Seq(0..MaxNodes) /\ stuckAt \in BOOLEAN
  BY DEF TypeOK, Contexts, Frames
<1>2. Halfway /\ pc' \in {"drive", "wake"}
  BY Zenon DEF Drive, Halfway, history
<1> SUFFICES /\ ctx' \in Contexts /\ far' \in BOOLEAN
             /\ replies' \in Seq(0..MaxNodes) /\ stuckAt' \in BOOLEAN
  BY <1>2, HalfwayTypeOK
<1>3. CASE FollowEdge
  <2> DEFINE x == Entered(ctx)
  <2>1. x \in Contexts
    BY <1>1, ContextTypes
  <2>2. \/ ctx' = [x EXCEPT !.state = "IDLE", !.count = 0, !.orient = "NONE", !.phase = "NONE"]
        \/ ctx' = [x EXCEPT !.lastFlag = vision.flag]
    BY <1>3, Zenon DEF FollowEdge
  <2> HIDE DEF x
  <2>3. ctx' \in Contexts
    <3>1. /\ [x EXCEPT !.state = "IDLE", !.count = 0, !.orient = "NONE", !.phase = "NONE"]
               \in Contexts
          /\ [x EXCEPT !.lastFlag = vision.flag] \in Contexts
      BY <1>1, <2>1 DEF Contexts, States, Phases
    <3>2. QED
      BY <2>2, <3>1, Zenon
  <2>4. far' \in BOOLEAN /\ replies' \in Seq(0..MaxNodes) /\ stuckAt' \in BOOLEAN
    BY <1>1, <1>3, ReportType, Zenon DEF FollowEdge
  <2>5. QED
    BY <2>3, <2>4
<1>4. CASE FollowOver \/ FollowWait \/ FollowOn \/ WaitTimeOut \/ TurnDone \/ Stand
  <2>1. ctx' \in Contexts
    <3>1. CASE FollowOver
      BY <1>1, <3>1 DEF FollowOver, Contexts, States, Phases
    <3>2. CASE FollowWait
      BY <1>1, <3>2 DEF FollowWait, Contexts, States
    <3>3. CASE FollowOn
      <4>1. PICK p \in {"NONE", ctx.phase} :
              ctx' = [ctx EXCEPT !.lastFlag = vision.flag, !.phase = p]
        BY <3>3, Zenon DEF FollowOn
      <4>2. p \in Phases
        BY <1>1 DEF Contexts, Phases
      <4>3. QED
        BY <1>1, <4>1, <4>2 DEF Contexts
    <3>4. CASE WaitTimeOut \/ TurnDone \/ Stand
      BY <1>1, <3>4 DEF WaitTimeOut, TurnDone, Stand, Contexts, States, Phases
    <3>5. QED
      BY <1>4, <3>1, <3>2, <3>3, <3>4
  <2>2. far' \in BOOLEAN /\ UNCHANGED master
    BY <1>1, <1>4, Zenon DEF FollowOver, FollowWait, FollowOn, WaitTimeOut, TurnDone, Stand
  <2>3. QED
    BY <1>1, <2>1, <2>2, Zenon DEF master
<1>5. CASE FollowDecide
  <2>1. [ctx EXCEPT !.lastFlag = vision.flag] \in Contexts
    BY <1>1 DEF Contexts
  <2>2. QED
    BY <1>1, <1>5, <2>1, DecideType, Zenon DEF FollowDecide
<1>6. CASE WaitOver
  BY <1>1, <1>6, DecideType, Zenon DEF WaitOver
<1>7. QED
  BY <1>3, <1>4, <1>5, <1>6, Zenon DEF Drive

LEMMA NextTypeOK == TypeOK /\ [Next]_vars => TypeOK'
<1> SUFFICES ASSUME TypeOK, [Next]_vars PROVE TypeOK'
  OBVIOUS
<1>1. CASE Next
  BY <1>1, OthersTypeOK, QueuesTypeOK, SenseTypeOK, DriveTypeOK, Zenon DEF Next, ControlTask
<1>2. CASE UNCHANGED vars
  BY <1>2 DEF vars, control, queues, world, master, history, bounds, TypeOK
<1>3. QED
  BY <1>1, <1>2

-----------------------------------------------------------------------------
(* Safety *)

Within(x) == x.num = 0 \/ x.count <= x.num

(* CountObeyed is not inductive: a waiting car drives on in the middle of  *)
(* a cycle, so its count must be right in every step.                      *)
CountInv == CountObeyed /\ (ctx.state = "WAIT_COMMAND" => Within(ctx))

(* A report is answered, and the answer is taken, before the next mark.    *)
Fitting(n) == {c \in Cmds : IF c.orient = "NONE" THEN c.action # "NONE" ELSE c.for = n}

RepliesFit == replies \in Seq({node}) /\ cmds \in Seq(Fitting(node))

DirectionFits == ctx.phase = "APPROACH" /\ ctx.has => answers = node

(* What the car sees in a junction it has noted before it decides. *)
ObstacleNoted ==
  /\ pc = "drive" /\ Blocked
  /\ \/ ctx.state = "FOLLOW" /\ ctx.phase = "APPROACH"
     \/ ctx.state = "WAIT_COMMAND"
  => ctx.pending

CarInv == CountInv /\ RepliesFit /\ DirectionFits /\ ObstacleNoted

LEMMA InitCarInv == Init => CarInv
<1> SUFFICES ASSUME Init PROVE CarInv
  OBVIOUS
<1>1. ctx.state = "IDLE" /\ ctx.phase = "NONE" /\ replies = <<>> /\ cmds = <<>>
  BY DEF Init, Start
<1>2. QED
  BY <1>1 DEF CarInv, CountInv, CountObeyed, RepliesFit, DirectionFits, ObstacleNoted

LEMMA CountsNat == \A k \in Counts \cup {0} : k \in Nat
BY CountAssumption

LEMMA NotOver == \A x \in Contexts : ~OverCount(x) => Within(x)
<1> SUFFICES ASSUME NEW x \in Contexts, ~OverCount(x) PROVE Within(x)
  OBVIOUS
<1>1. x.num \in Nat /\ x.count \in Nat
  <2>1. x.num \in Counts \cup {0} /\ x.count \in Nat
    BY DEF Contexts
  <2>2. QED
    BY <2>1, CountsNat
<1>2. QED
  BY <1>1 DEF OverCount, Within

LEMMA DecideFields ==
  ASSUME NEW x \in Contexts, Decide(x)
  PROVE  ctx'.num = x.num /\ ctx'.count = x.count /\ ~ctx'.has
<1>1. CASE x.pending /\ x.orient = "STRAIGHT"
  BY <1>1 DEF Decide, Stopped, Contexts
<1>2. CASE ~(x.pending /\ x.orient = "STRAIGHT")
  <2>1. ctx' = Dispatched(x)
    BY <1>2, Zenon DEF Decide
  <2>2. QED
    BY <2>1 DEF Dispatched, Contexts
<1>3. QED
  BY <1>1, <1>2

LEMMA DecisionFields ==
  ASSUME TypeOK, FollowDecide \/ WaitOver
  PROVE  /\ ctx'.num = ctx.num /\ ctx'.count = ctx.count /\ ~ctx'.has
<1>1. ctx \in Contexts
  BY DEF TypeOK, Contexts
<1>2. CASE FollowDecide
  <2> DEFINE y == [ctx EXCEPT !.lastFlag = vision.flag]
  <2>1. y \in Contexts /\ y.num = ctx.num /\ y.count = ctx.count
    BY <1>1 DEF Contexts, TypeOK, Frames
  <2>2. Decide(y)
    BY <1>2, Zenon DEF FollowDecide
  <2> HIDE DEF y
  <2>3. QED
    BY <2>1, <2>2, DecideFields
<1>3. CASE WaitOver
  BY <1>1, <1>3, DecideFields DEF WaitOver
<1>4. QED
  BY <1>2, <1>3

(* What the other tasks leave alone. *)
LEMMA OthersKeep == VisionTask \/ MasterActs => UNCHANGED <<control, place, node, answers>>
BY DEF VisionTask, MasterActs, Capture, Answer, Command, control, world, history

(* The count: in a cycle's first steps. *)
LEMMA CountQueues == TypeOK /\ CountInv /\ (Wake \/ TakeCommand \/ CommandsDone) => CountInv'
<1> SUFFICES ASSUME TypeOK, CountInv, Wake \/ TakeCommand \/ CommandsDone PROVE CountInv'
  OBVIOUS
<1>1. CASE Wake \/ CommandsDone
  <2>1. UNCHANGED ctx /\ pc' # "wake"
    BY <1>1 DEF Wake, CommandsDone
  <2>2. QED
    BY <2>1 DEF CountInv, CountObeyed, Within
<1>2. CASE TakeCommand
  <2>1. pc' # "wake"
    BY <1>2 DEF TakeCommand
  <2>2. PICK c \in Cmds : ctx' = Commanded(c, ctx)
    <3>1. cmds \in Seq(Cmds) /\ cmds # <<>>
      BY <1>2, Zenon DEF TakeCommand, TypeOK
    <3>2. Head(cmds) \in Cmds
      BY <3>1, HeadTailType
    <3>3. QED
      BY <1>2, <3>2, Zenon DEF TakeCommand
  <2>3. ASSUME ctx'.state = "WAIT_COMMAND" PROVE Within(ctx')
    <3>1. ctx \in Contexts
      BY DEF TypeOK, Contexts
    <3>2. c.num \in Nat /\ c.action \in {"NONE", "PAUSE", "PROCESS", "UTURN", "SETN"}
      <4>1. c.num \in Counts \cup {0}
        BY DEF Cmds
      <4>2. QED
        BY <4>1, CountsNat DEF Cmds
    <3>3. CASE c.action = "SETN"
      <4>1. ctx' = Counting(c, ctx)
        BY <2>2, <3>2, <3>3 DEF Commanded
      <4>2. ctx'.num = c.num /\ ctx'.count = 0
        BY <3>1, <4>1 DEF Counting, Contexts
      <4>3. QED
        BY <3>2, <4>2 DEF Within
    <3>4. CASE c.action # "SETN"
      <4>1. ctx.state = "WAIT_COMMAND" /\ ctx'.num = ctx.num /\ ctx'.count = ctx.count
        BY <2>2, <2>3, <3>1, <3>2, <3>4 DEF Commanded, Contexts
      <4>2. QED
        BY <4>1 DEF CountInv, Within
    <3>5. QED
      BY <3>3, <3>4
  <2>4. QED
    BY <2>1, <2>3 DEF CountInv, CountObeyed
<1>3. QED
  BY <1>1, <1>2

LEMMA StoppedWhere ==
  ASSUME TypeOK, SenseAtMark \/ SenseOnRoad
  PROVE  ctx'.state = "IDLE" /\ ctx'.phase = "NONE"
<1>1. ctx \in Contexts
  BY DEF TypeOK, Contexts
<1>2. CASE SenseAtMark
  <2> DEFINE y == [ctx EXCEPT !.nones = 0]
             z == IF Rising(y) THEN Entered(y) ELSE y
  <2>1. y \in Contexts /\ Entered(y) \in Contexts
    <3>1. y \in Contexts
      BY <1>1 DEF Contexts
    <3>2. QED
      BY <3>1, ContextTypes
  <2>2. z \in Contexts /\ ctx' = Stopped(z, vision.obs)
    BY <1>2, <2>1, Zenon DEF SenseAtMark
  <2> HIDE DEF z
  <2>3. QED
    BY <2>2 DEF Stopped, Contexts
<1>3. CASE SenseOnRoad
  BY <1>1, <1>3 DEF SenseOnRoad, Stopped, Contexts
<1>4. QED
  BY <1>2, <1>3

LEMMA CountSense == TypeOK /\ CountInv /\ Sense => CountInv'
<1> SUFFICES ASSUME TypeOK, CountInv, Sense PROVE CountInv'
  OBVIOUS
<1>1. ctx \in Contexts
  BY DEF TypeOK, Contexts
<1>2. pc' = "drive"
  BY DEF Sense, SenseAtMark, SenseInJunction, SenseOnRoad, SenseIgnored, SenseNothing
<1>3. CASE SenseAtMark \/ SenseOnRoad
  <2>1. ctx'.state # "WAIT_COMMAND"
    BY <1>3, StoppedWhere
  <2>2. QED
    BY <1>2, <2>1 DEF CountInv, CountObeyed
<1>4. CASE SenseInJunction \/ SenseIgnored \/ SenseNothing
  <2>1. /\ ctx'.state = "WAIT_COMMAND" => ctx.state = "WAIT_COMMAND"
        /\ ctx'.num = ctx.num /\ ctx'.count = ctx.count
    BY <1>1, <1>4 DEF SenseInJunction, SenseIgnored, SenseNothing, Contexts
  <2>2. QED
    BY <1>2, <2>1 DEF CountInv, CountObeyed, Within
<1>5. QED
  BY <1>3, <1>4 DEF Sense

LEMMA CountDrive == TypeOK /\ CountInv /\ Drive => CountInv'
<1> SUFFICES ASSUME TypeOK, CountInv, Drive PROVE CountInv'
  OBVIOUS
<1>1. ctx \in Contexts
  BY DEF TypeOK, Contexts
<1>2. pc' = "wake"
  BY DEF Drive
<1>3. SUFFICES /\ ctx'.state = "WAIT_COMMAND" => Within(ctx')
               /\ ctx'.state = "FOLLOW" /\ ctx'.phase # "POST_TURN" => Within(ctx')
  BY <1>3 DEF CountInv, CountObeyed, Within
<1>4. ~OverCount(ctx) => Within(ctx)
  BY <1>1, NotOver
<1>5. CASE FollowEdge
  <2> DEFINE x == Entered(ctx)
  <2>1. x \in Contexts
    BY <1>1, ContextTypes
  <2>2. ctx' = IF OverCount(x)
               THEN [x EXCEPT !.state = "IDLE", !.count = 0, !.orient = "NONE", !.phase = "NONE"]
               ELSE [x EXCEPT !.lastFlag = vision.flag]
    BY <1>5, Zenon DEF FollowEdge
  <2> HIDE DEF x
  <2>3. CASE OverCount(x)
    BY <2>1, <2>2, <2>3 DEF Contexts
  <2>4. CASE ~OverCount(x)
    <3>1. Within(x)
      BY <2>1, <2>4, NotOver
    <3>2. ctx'.num = x.num /\ ctx'.count = x.count
      BY <2>1, <2>2, <2>4 DEF Contexts
    <3>3. QED
      BY <3>1, <3>2 DEF Within
  <2>5. QED
    BY <2>3, <2>4
<1>6. CASE FollowOver \/ WaitTimeOut \/ TurnDone
  BY <1>1, <1>6 DEF FollowOver, WaitTimeOut, TurnDone, Contexts
<1>7. CASE FollowWait \/ FollowOn
  <2>1. Within(ctx) /\ ctx'.num = ctx.num /\ ctx'.count = ctx.count
    BY <1>1, <1>4, <1>7 DEF FollowWait, FollowOn, AtCentre, Contexts
  <2>2. QED
    BY <2>1 DEF Within
<1>8. CASE FollowDecide \/ WaitOver
  <2>1. Within(ctx)
    BY <1>4, <1>8, Zenon DEF FollowDecide, AtCentre, WaitOver, CountInv
  <2>2. ctx'.num = ctx.num /\ ctx'.count = ctx.count
    BY <1>8, DecisionFields
  <2>3. QED
    BY <2>1, <2>2 DEF Within
<1>9. CASE Stand
  BY <1>9 DEF Stand, CountInv, Within
<1>10. QED
  BY <1>5, <1>6, <1>7, <1>8, <1>9 DEF Drive

LEMMA CountNext == TypeOK /\ CountInv /\ [Next]_vars => CountInv'
<1> SUFFICES ASSUME TypeOK, CountInv, [Next]_vars PROVE CountInv'
  OBVIOUS
<1>1. CASE UNCHANGED control
  BY <1>1 DEF control, CountInv, CountObeyed, Within
<1>2. CASE ControlTask
  BY <1>2, CountQueues, CountSense, CountDrive, Zenon DEF ControlTask
<1>3. QED
  BY <1>1, <1>2, OthersKeep DEF Next, vars

(* Directions: what the master and the queues hold for the car's mark. *)
LEMMA SubSeqType ==
  ASSUME NEW S, NEW T, NEW q \in Seq(S), \A i \in DOMAIN q : q[i] \in T
  PROVE  q \in Seq(T)
OBVIOUS

LEMMA FittingCommands ==
  /\ \A o \in Orients, n \in 0..MaxNodes : Direction(o, n) \in Fitting(n)
  /\ \A a \in {"PAUSE", "PROCESS", "UTURN", "SETN"}, k \in Counts \cup {0}, n \in 0..MaxNodes :
       Action(a, k) \in Fitting(n)
<1>1. "NONE" \notin Orients
  BY TurnAssumption DEF Orients
<1>2. ASSUME NEW o \in Orients, NEW n \in 0..MaxNodes PROVE Direction(o, n) \in Fitting(n)
  <2>1. Direction(o, n) \in Cmds
    BY CommandTypes
  <2>2. Direction(o, n).orient = o /\ Direction(o, n).for = n
    BY DEF Direction
  <2>3. QED
    BY <1>1, <2>1, <2>2 DEF Fitting
<1>3. ASSUME NEW a \in {"PAUSE", "PROCESS", "UTURN", "SETN"}, NEW k \in Counts \cup {0},
             NEW n \in 0..MaxNodes
      PROVE  Action(a, k) \in Fitting(n)
  <2>1. Action(a, k) \in Cmds
    BY CommandTypes
  <2>2. Action(a, k).orient = "NONE" /\ Action(a, k).action # "NONE"
    BY DEF Action
  <2>3. QED
    BY <2>1, <2>2 DEF Fitting
<1>4. QED
  BY <1>2, <1>3

LEMMA EnqueueFits ==
  ASSUME NEW S, cmds \in Seq(S), NEW c \in S, Enqueue(c)
  PROVE  cmds' \in Seq(S)
BY AppendType, Zenon DEF Enqueue

LEMMA FitsOthers == TypeOK /\ RepliesFit /\ (VisionTask \/ MasterActs) => RepliesFit'
<1> SUFFICES ASSUME TypeOK, RepliesFit, VisionTask \/ MasterActs PROVE RepliesFit'
  OBVIOUS
<1>1. node' = node
  BY OthersKeep
<1>2. /\ replies \in Seq({node}) /\ cmds \in Seq(Fitting(node)) /\ node \in 0..MaxNodes
  BY Zenon DEF RepliesFit, TypeOK
<1>3. ASSUME NEW l \in Labels, Capture(l) PROVE RepliesFit'
  BY <1>1, <1>2, <1>3, Zenon DEF Capture, master, RepliesFit
<1>4. ASSUME NEW o \in Orients, Answer(o) PROVE RepliesFit'
  <2>1. Head(replies) = node /\ Tail(replies) \in Seq({node})
    <3>1. replies # <<>>
      BY <1>4, Zenon DEF Answer
    <3>2. QED
      BY <1>2, <3>1, HeadTailType
  <2>2. Direction(o, Head(replies)) \in Fitting(node)
    BY <1>2, <2>1, FittingCommands
  <2>3. cmds' \in Seq(Fitting(node))
    BY <1>2, <1>4, <2>2, EnqueueFits, Zenon DEF Answer
  <2>4. QED
    BY <1>1, <1>4, <2>1, <2>3, Zenon DEF Answer, RepliesFit
<1>5. ASSUME NEW a \in {"PAUSE", "PROCESS", "UTURN", "SETN"}, NEW k \in Counts \cup {0},
             Command(a, k)
      PROVE  RepliesFit'
  <2>1. Action(a, k) \in Fitting(node)
    BY <1>2, FittingCommands
  <2>2. cmds' \in Seq(Fitting(node))
    BY <1>2, <1>5, <2>1, EnqueueFits, Zenon DEF Command
  <2>3. QED
    BY <1>1, <1>2, <1>5, <2>2, Zenon DEF Command, RepliesFit
<1>6. QED
  BY <1>3, <1>4, <1>5 DEF VisionTask, MasterActs

LEMMA FitsControl == TypeOK /\ RepliesFit /\ ControlTask => RepliesFit'
<1> SUFFICES ASSUME TypeOK, RepliesFit, ControlTask PROVE RepliesFit'
  OBVIOUS
<1>1. replies \in Seq({node}) /\ cmds \in Seq(Fitting(node)) /\ node \in 0..MaxNodes
  BY Zenon DEF RepliesFit, TypeOK
<1>2. CASE Wake
  <2>1. UNCHANGED <<replies, cmds>>
    BY <1>2, Zenon DEF Wake, master
  <2>2. CASE node' = node
    BY <1>1, <2>1, <2>2, Zenon DEF RepliesFit
  <2>3. CASE node' # node
    <3>1. replies = <<>> /\ \A i \in DOMAIN cmds : cmds[i].orient = "NONE"
      BY <1>2, <2>3, Zenon DEF Wake, MayRoll
    <3>2. cmds \in Seq(Fitting(node'))
      <4>1. \A c \in Fitting(node) : c.orient = "NONE" => c \in Fitting(node')
        BY DEF Fitting
      <4>2. \A i \in DOMAIN cmds : cmds[i] \in Fitting(node)
        BY <1>1, ElementType
      <4>3. \A i \in DOMAIN cmds : cmds[i] \in Fitting(node')
        BY <3>1, <4>1, <4>2, Zenon
      <4>4. QED
        BY <1>1, <4>3, SubSeqType
    <3>3. QED
      BY <2>1, <3>1, <3>2 DEF RepliesFit
  <2>4. QED
    BY <2>2, <2>3
<1>3. CASE TakeCommand
  <2>1. Tail(cmds) \in Seq(Fitting(node))
    <3>1. cmds # <<>>
      BY <1>3, Zenon DEF TakeCommand
    <3>2. QED
      BY <1>1, <3>1, HeadTailType
  <2>2. QED
    BY <1>1, <1>3, <2>1, Zenon DEF TakeCommand, master, RepliesFit
<1>4. CASE CommandsDone \/ Sense \/ Drive
  <2>1. cmds' = cmds /\ node' = node
    BY <1>4 DEF CommandsDone, Sense, SenseAtMark, SenseInJunction, SenseOnRoad, SenseIgnored,
      SenseNothing, Drive, queues, history
  <2>2. replies' \in {replies, Append(replies, node)}
    BY <1>4, Zenon DEF CommandsDone, Sense, SenseAtMark, SenseInJunction, SenseOnRoad, SenseIgnored,
      SenseNothing, Drive, FollowEdge, FollowOver, FollowDecide, FollowWait, FollowOn, WaitOver,
      WaitTimeOut, TurnDone, Stand, ReportNode, master
  <2>3. Append(replies, node) \in Seq({node})
    BY <1>1, AppendType
  <2>4. QED
    BY <1>1, <2>1, <2>2, <2>3, Zenon DEF RepliesFit
<1>5. QED
  BY <1>2, <1>3, <1>4 DEF ControlTask

LEMMA FitsNext == TypeOK /\ RepliesFit /\ [Next]_vars => RepliesFit'
<1>1. ASSUME RepliesFit, UNCHANGED vars PROVE RepliesFit'
  BY <1>1 DEF RepliesFit, vars, queues, master, history
<1>2. QED
  BY <1>1, FitsOthers, FitsControl, Zenon DEF Next

(* The direction a car holds at a mark. *)
LEMMA DirectionTake == TypeOK /\ RepliesFit /\ DirectionFits /\ TakeCommand => DirectionFits'
<1> SUFFICES ASSUME TypeOK, RepliesFit, DirectionFits, TakeCommand PROVE DirectionFits'
  OBVIOUS
<1>1. ctx \in Contexts
  BY DEF TypeOK, Contexts
<1>2. PICK c \in Fitting(node) : /\ ctx' = Commanded(c, ctx)
                                 /\ answers' = IF c.orient = "NONE" THEN answers ELSE c.for
  <2>1. cmds \in Seq(Fitting(node)) /\ cmds # <<>>
    BY Zenon DEF TakeCommand, RepliesFit
  <2>2. Head(cmds) \in Fitting(node)
    BY <2>1, HeadTailType
  <2>3. QED
    BY <2>2, Zenon DEF TakeCommand
<1>3. node' = node
  BY DEF TakeCommand
<1>4. CASE c.orient # "NONE"
  BY <1>2, <1>3, <1>4 DEF Fitting, DirectionFits
<1>5. CASE c.orient = "NONE"
  <2>1. c.action \in {"PAUSE", "PROCESS", "UTURN", "SETN"}
    BY <1>5 DEF Fitting, Cmds
  <2>2. ctx'.phase = ctx.phase /\ ctx'.has = ctx.has
    BY <1>1, <1>2, <2>1 DEF Commanded, Counting, Contexts
  <2>3. QED
    BY <1>2, <1>3, <1>5, <2>2 DEF DirectionFits
<1>6. QED
  BY <1>4, <1>5

LEMMA DirectionSense == TypeOK /\ DirectionFits /\ Sense => DirectionFits'
<1> SUFFICES ASSUME TypeOK, DirectionFits, Sense PROVE DirectionFits'
  OBVIOUS
<1>1. ctx \in Contexts
  BY DEF TypeOK, Contexts
<1>2. UNCHANGED <<node, answers>>
  BY DEF Sense, SenseAtMark, SenseInJunction, SenseOnRoad, SenseIgnored, SenseNothing, history
<1>3. CASE SenseAtMark \/ SenseOnRoad
  <2>1. ctx'.phase = "NONE"
    BY <1>3, StoppedWhere
  <2>2. QED
    BY <2>1 DEF DirectionFits
<1>4. CASE SenseInJunction \/ SenseIgnored \/ SenseNothing
  <2>1. ctx'.phase = ctx.phase /\ ctx'.has = ctx.has
    BY <1>1, <1>4 DEF SenseInJunction, SenseIgnored, SenseNothing, Contexts
  <2>2. QED
    BY <1>2, <2>1 DEF DirectionFits
<1>5. QED
  BY <1>3, <1>4 DEF Sense

LEMMA DirectionDrive == TypeOK /\ DirectionFits /\ Drive => DirectionFits'
<1> SUFFICES ASSUME TypeOK, DirectionFits, Drive PROVE DirectionFits'
  OBVIOUS
<1>1. ctx \in Contexts
  BY DEF TypeOK, Contexts
<1>2. UNCHANGED <<node, answers>>
  BY DEF Drive
<1>3. CASE FollowEdge
  <2> DEFINE x == Entered(ctx)
  <2>1. x \in Contexts /\ ~x.has
    <3>1. x \in Contexts
      BY <1>1, ContextTypes
    <3>2. QED
      BY <1>1, <3>1 DEF Entered, Contexts
  <2>2. \/ ctx' = [x EXCEPT !.state = "IDLE", !.count = 0, !.orient = "NONE", !.phase = "NONE"]
        \/ ctx' = [x EXCEPT !.lastFlag = vision.flag]
    BY <1>3, Zenon DEF FollowEdge
  <2> HIDE DEF x
  <2>3. ~ctx'.has
    BY <2>1, <2>2 DEF Contexts
  <2>4. QED
    BY <2>3 DEF DirectionFits
<1>4. CASE FollowDecide \/ WaitOver
  <2>1. ~ctx'.has
    BY <1>1, <1>4, DecisionFields
  <2>2. QED
    BY <2>1 DEF DirectionFits
<1>5. CASE FollowOver \/ FollowWait \/ FollowOn \/ WaitTimeOut \/ TurnDone \/ Stand
  <2>1. ctx'.phase = "APPROACH" /\ ctx'.has => ctx.phase = "APPROACH" /\ ctx.has
    BY <1>1, <1>5 DEF FollowOver, FollowWait, FollowOn, WaitTimeOut, TurnDone, Stand, Contexts
  <2>2. QED
    BY <1>2, <2>1 DEF DirectionFits
<1>6. QED
  BY <1>3, <1>4, <1>5 DEF Drive

LEMMA DirectionNext == TypeOK /\ RepliesFit /\ DirectionFits /\ [Next]_vars => DirectionFits'
<1> SUFFICES ASSUME TypeOK, RepliesFit, DirectionFits, [Next]_vars PROVE DirectionFits'
  OBVIOUS
<1>1. CASE UNCHANGED <<ctx, node, answers>>
  BY <1>1 DEF DirectionFits
<1>2. CASE Wake
  <2>1. UNCHANGED <<ctx, answers>> /\ (ctx.phase = "APPROACH" => node' = node)
    BY <1>2 DEF Wake, MayRoll
  <2>2. QED
    BY <2>1 DEF DirectionFits
<1>3. QED
  BY <1>1, <1>2, OthersKeep, DirectionTake, DirectionSense, DirectionDrive, Zenon
  DEF Next, ControlTask, CommandsDone, vars, control, history

(* What the car sees: Sense leaves every obstacle in a junction noted. *)
LEMMA NotedNext == TypeOK /\ ObstacleNoted /\ [Next]_vars => ObstacleNoted'
<1> SUFFICES ASSUME TypeOK, ObstacleNoted, [Next]_vars PROVE ObstacleNoted'
  OBVIOUS
<1>1. ctx \in Contexts
  BY DEF TypeOK, Contexts
<1>2. CASE UNCHANGED control
  BY <1>2 DEF control, ObstacleNoted, Blocked
<1>3. CASE Wake \/ TakeCommand \/ CommandsDone \/ Drive
  <2>1. pc' # "drive"
    BY <1>3 DEF Wake, TakeCommand, CommandsDone, Drive
  <2>2. QED
    BY <2>1 DEF ObstacleNoted
<1>4. CASE Sense
  <2>1. vision' = vision
    BY <1>4 DEF Sense, SenseAtMark, SenseInJunction, SenseOnRoad, SenseIgnored, SenseNothing
  <2>2. CASE SenseAtMark \/ SenseOnRoad
    BY <2>2, StoppedWhere DEF ObstacleNoted
  <2>3. CASE SenseInJunction
    BY <1>1, <2>3 DEF SenseInJunction, ObstacleNoted, Contexts
  <2>4. CASE SenseIgnored
    <3>1. /\ ctx'.state = ctx.state /\ ctx'.phase = ctx.phase
          /\ ctx.state # "WAIT_COMMAND"
          /\ ctx.state # "FOLLOW" \/ ctx.phase = "POST_TURN"
      BY <1>1, <2>4 DEF SenseIgnored, InJunction, Contexts
    <3>2. QED
      BY <3>1 DEF ObstacleNoted
  <2>5. CASE SenseNothing
    BY <2>1, <2>5 DEF SenseNothing, ObstacleNoted, Blocked
  <2>6. QED
    BY <1>4, <2>2, <2>3, <2>4, <2>5 DEF Sense
<1>5. QED
  BY <1>2, <1>3, <1>4, OthersKeep, Zenon DEF Next, ControlTask, vars

(* A decision at a mark: what the car knows when it is carried out. *)
LEMMA CarriedOutWhen ==
  ASSUME TypeOK, ObstacleNoted, [Next]_vars, CarriedOut, ctx.orient = "STRAIGHT"
  PROVE  vision.obs \in {"none", "car"}
<1>1. ctx \in Contexts
  BY DEF TypeOK, Contexts
<1>2. /\ pc = "drive" /\ ctx.phase = "APPROACH" /\ ctx.has
      /\ ~ctx'.has /\ ctx'.phase # "NONE"
  BY DEF CarriedOut
<1>3. Drive
  <2>1. ~UNCHANGED ctx
    BY <1>2
  <2>2. QED
    BY <1>2, <2>1, OthersKeep
    DEF Next, ControlTask, Wake, TakeCommand, CommandsDone, vars, control,
        Sense, SenseAtMark, SenseInJunction, SenseOnRoad, SenseIgnored, SenseNothing
<1>4. FollowDecide \/ WaitOver
  <2>1. ~FollowEdge
    BY <1>2 DEF FollowEdge, Rising
  <2>2. ~FollowOver
    BY <1>1, <1>2 DEF FollowOver, Contexts
  <2>3. ~(FollowWait \/ FollowOn \/ WaitTimeOut \/ TurnDone \/ Stand)
    BY <1>1, <1>2 DEF FollowWait, FollowOn, WaitTimeOut, TurnDone, Stand, Contexts
  <2>4. QED
    BY <1>3, <2>1, <2>2, <2>3, Zenon DEF Drive
<1>5. ~ctx.pending
  <2>1. ASSUME NEW x \in Contexts, Decide(x), x.orient = "STRAIGHT", x.pending PROVE FALSE
    <3>1. x.type \in Labels
      BY DEF Contexts
    <3>2. ctx'.phase = "NONE"
      BY <2>1 DEF Decide, Stopped, Contexts
    <3>3. QED
      BY <1>2, <3>2
  <2>2. CASE FollowDecide
    <3> DEFINE y == [ctx EXCEPT !.lastFlag = vision.flag]
    <3>1. y \in Contexts /\ y.orient = ctx.orient /\ y.pending = ctx.pending
      BY <1>1 DEF Contexts, TypeOK, Frames
    <3>2. Decide(y)
      BY <2>2, Zenon DEF FollowDecide
    <3> HIDE DEF y
    <3>3. QED
      BY <2>1, <3>1, <3>2
  <2>3. CASE WaitOver
    BY <1>1, <2>1, <2>3 DEF WaitOver
  <2>4. QED
    BY <1>4, <2>2, <2>3
<1>6. ctx.state \in {"FOLLOW", "WAIT_COMMAND"}
  BY <1>4 DEF FollowDecide, WaitOver, AtCentre
<1>7. QED
  BY <1>2, <1>5, <1>6 DEF ObstacleNoted, Blocked

-----------------------------------------------------------------------------
(* CarInv is inductive. *)
LEMMA Inductive == Spec => [](TypeOK /\ CarInv)
<1>1. Init => TypeOK /\ CarInv
  BY InitTypeOK, InitCarInv
<1>2. TypeOK /\ CarInv /\ [Next]_vars => (TypeOK /\ CarInv)'
  BY NextTypeOK, CountNext, FitsNext, DirectionNext, NotedNext, Zenon DEF CarInv
<1>3. QED
  BY <1>1, <1>2, PTL DEF Spec

(* Every variable of the control loop, its queues and its surroundings     *)
(* keeps its type, whatever is seen, sent or counted.                      *)
THEOREM Typing == Spec => []TypeOK
BY Inductive, PTL

(* A car with n roads to go stands after n of them, although the count is  *)
(* compared one step after it was raised and a stop may come in between.   *)
THEOREM CountIsObeyed == Spec => []CountObeyed
<1>1. CarInv => CountObeyed
  BY DEF CarInv, CountInv
<1>2. QED
  BY <1>1, Inductive, PTL

(* A direction is carried out at the mark whose report it answers, for any *)
(* queue length, and whichever reports are lost, directions are dropped or *)
(* come after the car gave up; the master answers before the next mark.    *)
THEOREM DirectionsAreForTheMark == Spec => DirectionsFit
<1>1. CarInv => [CarriedOut => node = answers]_vars
  BY DEF CarInv, DirectionFits, CarriedOut
<1>2. QED
  BY <1>1, Inductive, PTL DEF DirectionsFit

(* No car goes straight on from a mark towards an obstacle it sees.        *)
THEOREM NoStraightIntoObstacle == Spec => StraightWhenFree
<1>1. TypeOK /\ CarInv /\ [Next]_vars
        => [CarriedOut /\ ctx.orient = "STRAIGHT" => vision.obs \in {"none", "car"}]_vars
  BY CarriedOutWhen, Zenon DEF CarInv
<1>2. QED
  BY <1>1, Inductive, PTL DEF Spec, StraightWhenFree
=============================================================================
