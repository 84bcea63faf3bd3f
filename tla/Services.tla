------------------------------ MODULE Services ------------------------------
(***************************************************************************)
(* Start-up and restart of the processes of the master.  model_manager      *)
(* creates the three queues and the segment under fixed names; every other  *)
(* process opens, once, when it starts, what it needs, and keeps it.  A     *)
(* name may be unlinked and created again while processes hold what it      *)
(* stood for before: they go on with an object that nobody else uses.       *)
(***************************************************************************)
EXTENDS Integers, Sequences

CONSTANTS
  Clients,   (* The processes besides model_manager that run, of planner,  *)
             (* router, publisher, subscriber, Task, Topo, Status.         *)
  Objects,   (* Numbers that tell the queues or segments apart that one    *)
             (* name has stood for.                                        *)
  Policies   (* [waits, restarted, refused, leftover, kills]: see policy.  *)

Names == {"task", "mqtt", "route", "shm"}
Queues == Names \ {"shm"}

ASSUME PolicyAssumption ==
  Policies \subseteq [waits : SUBSET Clients, restarted : SUBSET Clients, refused : SUBSET Clients,
                      leftover : BOOLEAN, kills : [{"manager", "clients"} -> Nat]]
ASSUME ObjectsAssumption == Objects \subseteq Nat \ {0} /\ "manager" \notin Clients

(* A segment that was created, enlarged, initialised and filled. *)
Contents == {"empty", "sized", "valid", "filled"}

-----------------------------------------------------------------------------
(* What the processes do before their loops.  A step that fails ends the    *)
(* process, or it goes on at step "next" without what steps "lost" opened.  *)

Step(op, on)               == [op |-> op, on |-> on, next |-> 0, lost |-> {}]
Try(op, on, next, lost)    == [op |-> op, on |-> on, next |-> next, lost |-> lost]

PlannerScript    == <<Step("receive", "task"), Step("map", "shm"), Step("check", "shm"),
                      Step("send", "task"), Step("send", "mqtt"), Step("send", "route")>>
RouterScript     == <<Step("receive", "route"), Step("map", "shm"), Step("check", "shm"),
                      Step("send", "mqtt")>>
PublisherScript  == <<Step("receive", "mqtt")>>
SubscriberScript == <<Try("send", "task", 4, 1..3), Try("send", "mqtt", 4, 1..3),
                      Try("send", "route", 4, 1..3), Step("map", "shm"), Step("check", "shm")>>
TaskScript       == <<Try("send", "task", 2, {1})>>
TopoScript       == <<Try("map", "shm", 3, 1..2), Try("check", "shm", 3, 1..2),
                      Try("send", "task", 4, {3})>>
StatusScript     == <<Try("map", "shm", 3, 1..2), Try("check", "shm", 3, 1..2)>>

Script(c) ==
  CASE c = "planner"    -> PlannerScript
    [] c = "router"     -> RouterScript
    [] c = "publisher"  -> PublisherScript
    [] c = "subscriber" -> SubscriberScript
    [] c = "Task"       -> TaskScript
    [] c = "Topo"       -> TopoScript
    [] OTHER            -> StatusScript

ManagerScript ==
  << <<"unlink", "task">>, <<"open", "task">>, <<"unlink", "mqtt">>, <<"open", "mqtt">>,
     <<"unlink", "route">>, <<"open", "route">>, <<"unlink", "shm">>, <<"open", "shm">>,
     <<"size", "shm">>, <<"init", "shm">>, <<"fill", "shm">> >>

(* After=: a process is forked after these, which need not have got far. *)
After(c) ==
  CASE c = "publisher" -> {}
    [] c = "planner"   -> {"manager"} \cup ({"router"} \cap Clients)
    [] OTHER           -> {"manager"}

-----------------------------------------------------------------------------
VARIABLES
  policy,   (* How the system is started and what goes wrong: the clients   *)
            (* that are started only when model_manager is in its loop;     *)
            (* those that are stopped and started with it; those that may   *)
            (* not write what root has created; whether names are left from *)
            (* an earlier run; how often model_manager and how often the    *)
            (* clients are ended.                                           *)
  name,     (* The object a name stands for, 0 if there is none.            *)
  content,  (* What is in a segment.                                        *)
  mm,       (* The step model_manager comes to; 0: it does not run.         *)
  pc,       (* The same of the clients.                                     *)
  handle,   (* What the steps of the clients have opened.                   *)
  forked,   (* Who has been started at all.                                 *)
  kills,    (* How often that has happened.                                 *)
  since     (* A history of handles: <<c, i>> if step i of c opened its     *)
            (* name after model_manager had unlinked it, in its present run.*)

vars == <<policy, name, content, mm, pc, handle, forked, kills, since>>

ManagerLoop == Len(ManagerScript) + 1
Loop(c) == Len(Script(c)) + 1

(* The number of a new object: the least that nobody holds. *)
Free(n) ==
  Objects \ ({name[n]} \cup UNION {{handle[c][i] : i \in {j \in DOMAIN Script(c) : Script(c)[j].on = n}}
                                  : c \in Clients})
Fresh(n, o) == o \in Free(n) /\ \A p \in Free(n) : o <= p

Kinds == {"manager", "clients"}
Count(who) == kills[who] < policy.kills[who] /\ kills' = [kills EXCEPT ![who] = @ + 1]

NoHandles(c) == [i \in DOMAIN Script(c) |-> 0]

Init ==
  /\ policy \in Policies
  /\ \E first \in Objects, queues \in BOOLEAN :
       /\ \A o \in Objects : first <= o
       /\ name = [n \in Names |-> IF ~policy.leftover THEN 0
                                  ELSE IF n = "shm" \/ queues THEN first ELSE 0]
  /\ content = [o \in Objects |-> "filled"]
  /\ mm = 0 /\ pc = [c \in Clients |-> 0] /\ handle = [c \in Clients |-> NoHandles(c)]
  /\ forked = {} /\ kills = [who \in Kinds |-> 0] /\ since = {}

-----------------------------------------------------------------------------
(* model_manager *)

(* systemd stops the processes that require it before it starts it again. *)
StartManager ==
  /\ mm = 0
  /\ \A c \in policy.restarted : pc[c] = 0
  /\ mm' = 1 /\ forked' = forked \cup {"manager"}
  /\ UNCHANGED <<policy, name, content, pc, handle, kills, since>>

ManagerAt(op) == mm \in DOMAIN ManagerScript /\ ManagerScript[mm][1] = op

Unlink ==
  /\ ManagerAt("unlink")
  /\ name' = [name EXCEPT ![ManagerScript[mm][2]] = 0]
  /\ mm' = mm + 1
  /\ UNCHANGED <<policy, content, pc, handle, forked, kills, since>>

(* A queue that a receiver has created meanwhile is replaced.               *)
MutOpen ==
  /\ ManagerAt("open")
  /\ LET n == ManagerScript[mm][2] IN
     \E o \in Objects :
       /\ Fresh(n, o)
       /\ name' = [name EXCEPT ![n] = o]
       /\ content' = IF n = "shm" THEN [content EXCEPT ![o] = "empty"] ELSE content
  /\ mm' = mm + 1
  /\ UNCHANGED <<policy, pc, handle, forked, kills, since>>

(* O_CREAT without O_EXCL: a receiver may have created the queue meanwhile. *)
Open ==
  /\ ManagerAt("open")
  /\ LET n == ManagerScript[mm][2] IN
     IF name[n] # 0
     THEN UNCHANGED <<name, content>>
     ELSE \E o \in Objects :
            /\ Fresh(n, o)
            /\ name' = [name EXCEPT ![n] = o]
            /\ content' = IF n = "shm" THEN [content EXCEPT ![o] = "empty"] ELSE content
  /\ mm' = mm + 1
  /\ UNCHANGED <<policy, pc, handle, forked, kills, since>>

Filled(op) == CASE op = "size" -> "sized" [] op = "init" -> "valid" [] op = "fill" -> "filled"

FillSegment ==
  /\ \E op \in {"size", "init", "fill"} :
       /\ ManagerAt(op)
       /\ content' = [content EXCEPT ![name["shm"]] = Filled(op)]
  /\ mm' = mm + 1
  /\ UNCHANGED <<policy, name, pc, handle, forked, kills, since>>

ManagerBoots == Unlink \/ Open \/ FillSegment

(* SIGTERM in the loop: the queues are unlinked; ::exit does not destroy    *)
(* owner_shm, so that the name of the segment stays.  A kill leaves both.   *)
ManagerEnds ==
  /\ mm # 0 /\ Count("manager")
  /\ \/ mm = ManagerLoop /\ name' = [n \in Names |-> IF n \in Queues THEN 0 ELSE name[n]]
     \/ UNCHANGED name
  /\ mm' = 0 /\ since' = {}
  /\ UNCHANGED <<policy, content, pc, handle, forked>>

-----------------------------------------------------------------------------
(* The other processes *)

(* The list of what was open is thrown away with it. *)
MutEnds(c) ==
  /\ pc' = [pc EXCEPT ![c] = 0]
  /\ handle' = [handle EXCEPT ![c] = <<>>]
  /\ since' = {s \in since : s[1] # c}

Ends(c) ==
  /\ pc' = [pc EXCEPT ![c] = 0]
  /\ handle' = [handle EXCEPT ![c] = NoHandles(c)]
  /\ since' = {s \in since : s[1] # c}

(* A process that waits for model_manager is started at once. *)
MutStart(c) ==
  /\ pc[c] = 0 /\ After(c) \subseteq forked
  /\ pc' = [pc EXCEPT ![c] = 1] /\ forked' = forked \cup {c}
  /\ UNCHANGED <<policy, name, content, mm, handle, kills, since>>

(* Restart=always starts it again, whatever ended it. *)
Start(c) ==
  /\ pc[c] = 0 /\ After(c) \subseteq forked
  /\ c \in policy.waits => mm = ManagerLoop
  /\ c \in policy.restarted => mm # 0
  /\ pc' = [pc EXCEPT ![c] = 1] /\ forked' = forked \cup {c}
  /\ UNCHANGED <<policy, name, content, mm, handle, kills, since>>

At(c, op) == pc[c] \in DOMAIN Script(c) /\ Script(c)[pc[c]].op = op
Wanted(c) == Script(c)[pc[c]].on

Unlinked(n) == \E k \in DOMAIN ManagerScript : k < mm /\ ManagerScript[k] = <<"unlink", n>>

(* What is checked was opened by the step before.                           *)
OpensSince(c) ==
  IF At(c, "check") THEN <<c, pc[c] - 1>> \in since ELSE Unlinked(Wanted(c))

Holds(c, o) ==
  /\ handle' = [handle EXCEPT ![c][pc[c]] = o]
  /\ pc' = [pc EXCEPT ![c] = @ + 1]
  /\ since' = since \cup {s \in {<<c, pc[c]>>} : OpensSince(c)}

Fails(c) ==
  LET step == Script(c)[pc[c]] IN
  IF step.next = 0 THEN Ends(c)
  ELSE /\ pc' = [pc EXCEPT ![c] = step.next]
       /\ handle' = [handle EXCEPT ![c] = [i \in DOMAIN Script(c) |->
                                             IF i \in step.lost THEN 0 ELSE @[i]]]
       /\ since' = {s \in since : s[1] = c => s[2] \notin step.lost}

(* MqReceiver::init opens the queue, or creates it. *)
Receive(c) ==
  /\ At(c, "receive")
  /\ IF name[Wanted(c)] # 0
     THEN Holds(c, name[Wanted(c)]) /\ UNCHANGED name
     ELSE \E o \in Objects : /\ Fresh(Wanted(c), o) /\ Holds(c, o)
                             /\ name' = [name EXCEPT ![Wanted(c)] = o]
  /\ UNCHANGED <<policy, content, mm, forked, kills>>

(* A sender, too, creates a queue that is not there. *)
MutOpenExisting(c) ==
  /\ At(c, "send") \/ At(c, "map")
  /\ IF name[Wanted(c)] # 0 /\ c \notin policy.refused
     THEN Holds(c, name[Wanted(c)]) /\ UNCHANGED name
     ELSE IF At(c, "map") \/ c \in policy.refused
     THEN Fails(c) /\ UNCHANGED name
     ELSE \E o \in Objects : /\ Fresh(Wanted(c), o) /\ Holds(c, o)
                             /\ name' = [name EXCEPT ![Wanted(c)] = o]
  /\ UNCHANGED <<policy, content, mm, forked, kills>>

(* MqSender::init, and shm_open and mmap of ShmClient::attach: ENOENT if    *)
(* the name stands for nothing, EACCES if the umask of its creator has left *)
(* the process no right to write.                                           *)
OpenExisting(c) ==
  /\ At(c, "send") \/ At(c, "map")
  /\ IF name[Wanted(c)] # 0 /\ c \notin policy.refused
     THEN Holds(c, name[Wanted(c)])
     ELSE Fails(c)
  /\ UNCHANGED <<policy, name, content, mm, forked, kills>>

(* The flag "initialized" is not waited for. *)
MutValidate(c) ==
  /\ At(c, "check")
  /\ LET o == handle[c][pc[c] - 1] IN
     \/ content[o] = "empty" /\ Ends(c)
     \/ content[o] # "empty" /\ Holds(c, o)
  /\ UNCHANGED <<policy, name, content, mm, forked, kills>>

(* validate_header: a segment without a size has no page to read, which is  *)
(* SIGBUS; on one without a header it waits, and at last gives up.          *)
Validate(c) ==
  /\ At(c, "check")
  /\ LET o == handle[c][pc[c] - 1] IN
     \/ content[o] = "empty" /\ Ends(c)
     \/ content[o] = "sized" /\ Fails(c)
     \/ content[o] \in {"valid", "filled"} /\ Holds(c, o)
  /\ UNCHANGED <<policy, name, content, mm, forked, kills>>

Boots(c) == Receive(c) \/ OpenExisting(c) \/ Validate(c)

StopWithManager(c) ==
  /\ c \in policy.restarted /\ pc[c] # 0 /\ mm = 0
  /\ Ends(c)
  /\ UNCHANGED <<policy, name, content, mm, forked, kills>>

Killed(c) ==
  /\ pc[c] # 0 /\ Count("clients")
  /\ Ends(c)
  /\ UNCHANGED <<policy, name, content, mm, forked>>

-----------------------------------------------------------------------------
Next ==
  \/ StartManager \/ ManagerBoots \/ ManagerEnds
  \/ \E c \in Clients : Start(c) \/ Boots(c) \/ StopWithManager(c) \/ Killed(c)

Spec == Init /\ [][Next]_vars

(* systemd starts what has ended, and a running process gets on. *)
Fairness ==
  /\ WF_vars(StartManager) /\ WF_vars(ManagerBoots)
  /\ \A c \in Clients : WF_vars(Start(c)) /\ WF_vars(Boots(c)) /\ WF_vars(StopWithManager(c))

FairSpec == Spec /\ Fairness

-----------------------------------------------------------------------------
(* Properties *)

TypeOK ==
  /\ policy \in Policies
  /\ name \in [Names -> Objects \cup {0}]
  /\ content \in [Objects -> Contents]
  /\ mm \in 0..ManagerLoop
  /\ pc \in [Clients -> Nat] /\ handle \in [Clients -> Seq(Objects \cup {0})]
  /\ \A c \in Clients : pc[c] <= Loop(c) /\ DOMAIN handle[c] = DOMAIN Script(c)
  /\ forked \subseteq Clients \cup {"manager"}
  /\ kills \in [Kinds -> Nat]
  /\ since \subseteq Clients \X Nat
  /\ \A s \in since : s[2] \in DOMAIN Script(s[1])

Running(c) == pc[c] = Loop(c)

(* However the processes are started: what one of them has opened after     *)
(* model_manager unlinked the name is what the name stands for, and so what *)
(* all others get that open it after that, although receivers create queues *)
(* too, in the middle of the start of model_manager.                        *)
SharedSinceUnlink ==
  \A s \in since :
    LET n == Script(s[1])[s[2]].on IN name[n] # 0 /\ handle[s[1]][s[2]] = name[n]

(* When model_manager is in its loop, two processes that are in theirs hold *)
(* the same queue and the same segment under one name, whenever they have   *)
(* opened it and whoever was killed before: what one sends reaches the      *)
(* other.                                                                   *)
Connected ==
  mm = ManagerLoop => \A c, d \in Clients : Running(c) /\ Running(d) =>
    \A i \in DOMAIN Script(c), j \in DOMAIN Script(d) :
      /\ Script(c)[i].on = Script(d)[j].on
      /\ handle[c][i] # 0 /\ handle[d][j] # 0
      => handle[c][i] = handle[d][j]

(* The orders that suffice: everybody waits for model_manager and goes down *)
(* with it; or, where no names are left and it is never ended, those wait   *)
(* that create a queue.                                                     *)
Receivers == {c \in Clients : \E i \in DOMAIN Script(c) : Script(c)[i].op = "receive"}
Ordered ==
  \/ Clients \subseteq policy.waits \cap policy.restarted
  \/ Receivers \subseteq policy.waits /\ ~policy.leftover /\ policy.kills["manager"] = 0

ConnectedInOrder == Ordered => Connected

(* It runs only while what model_manager has filled is there.               *)
Settled(c) ==
  c \in policy.waits /\ (c \in policy.restarted \/ policy.kills["manager"] = 0)

(* However the processes are started, none uses a segment whose mutexes and *)
(* header are not initialised, though it may be attached in the middle of   *)
(* its creation and be replaced later; and one that waited for              *)
(* model_manager finds the map and the cars in it.                          *)
AttachedIsUsable ==
  \A c \in Clients : Running(c) =>
    \A i \in DOMAIN Script(c) :
      Script(c)[i].on = "shm" /\ handle[c][i] # 0 =>
        /\ content[handle[c][i]] \in {"valid", "filled"}
        /\ Settled(c) => content[handle[c][i]] = "filled"

(* What a process that runs has attached is what model_manager has finished *)
(* to initialise, as the flag it waits for says.                            *)
AttachedIsFilled ==
  \A c \in Clients : Running(c) =>
    \A i \in DOMAIN Script(c) :
      Script(c)[i].on = "shm" /\ handle[c][i] # 0 => content[handle[c][i]] = "filled"

(* Whatever was killed, at last every process runs for good, and one that   *)
(* waits for model_manager has everything it may open, under its name.      *)
Recovers ==
  <>[](/\ mm = ManagerLoop
       /\ \A c \in Clients :
            /\ Running(c)
            /\ c \in policy.waits \ policy.refused =>
                 \A i \in DOMAIN Script(c) : handle[c][i] # 0 /\ handle[c][i] = name[Script(c)[i].on])
=============================================================================
