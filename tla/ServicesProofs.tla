--------------------------- MODULE ServicesProofs ---------------------------
(***************************************************************************)
(* Services for any processes, objects, policies and numbers of failures:   *)
(* types, what two processes share that opened a name since it was unlinked,*)
(* and what is in a segment that a process uses.                            *)
(***************************************************************************)
EXTENDS Services, TLAPS

-----------------------------------------------------------------------------
(* The scripts *)

StepTypes == [op : {"receive", "send", "map", "check"}, on : Names, next : Nat, lost : SUBSET Nat]

(* The steps of the clients are steps; a step that may fail goes on further *)
(* down; only queues are sent to and received from; the header checked is that of the   *)
(* step before, and both are lost when it is not accepted.                  *)
LEMMA ScriptType ==
  \A c : /\ Script(c) \in Seq(StepTypes)
         /\ \A i \in DOMAIN Script(c) :
              /\ Script(c)[i].next <= Loop(c)
              /\ Script(c)[i].next = 0 \/ i < Script(c)[i].next
              /\ Script(c)[i].op = "send" => Script(c)[i].on \in Queues
              /\ Script(c)[i].op = "receive" => Script(c)[i].on \in Queues
              /\ Script(c)[i].op = "check" =>
                   i - 1 \in DOMAIN Script(c) /\ Script(c)[i - 1].on = "shm" /\ Script(c)[i].on = "shm"
              /\ Script(c)[i].op = "check" =>
                   Script(c)[i].next = 0 \/ {i - 1, i} \subseteq Script(c)[i].lost
              /\ Script(c)[i].op = "map" =>
                   i + 1 \in DOMAIN Script(c) /\ Script(c)[i + 1].op = "check"
<1> DEFINE Good(s) ==
      /\ s \in Seq(StepTypes)
      /\ \A i \in DOMAIN s :
           /\ s[i].next <= Len(s) + 1
           /\ s[i].next = 0 \/ i < s[i].next
           /\ s[i].op = "send" => s[i].on \in Queues
           /\ s[i].op = "receive" => s[i].on \in Queues
           /\ s[i].op = "check" =>
                i - 1 \in DOMAIN s /\ s[i - 1].on = "shm" /\ s[i].on = "shm"
           /\ s[i].op = "check" => s[i].next = 0 \/ {i - 1, i} \subseteq s[i].lost
           /\ s[i].op = "map" => i + 1 \in DOMAIN s /\ s[i + 1].op = "check"
<1>1. Good(PlannerScript)
  BY DEF PlannerScript, Step, StepTypes, Names, Queues
<1>2. Good(RouterScript)
  BY DEF RouterScript, Step, StepTypes, Names, Queues
<1>3. Good(PublisherScript)
  BY DEF PublisherScript, Step, StepTypes, Names, Queues
<1>4. Good(SubscriberScript)
  BY DEF SubscriberScript, Step, Try, StepTypes, Names, Queues
<1>5. Good(TaskScript)
  BY DEF TaskScript, Try, StepTypes, Names, Queues
<1>6. Good(TopoScript)
  BY DEF TopoScript, Try, StepTypes, Names, Queues
<1>7. Good(StatusScript)
  BY DEF StatusScript, Try, StepTypes, Names, Queues
<1>8. \A c : Script(c) \in {PlannerScript, RouterScript, PublisherScript, SubscriberScript,
                            TaskScript, TopoScript, StatusScript}
  BY DEF Script
<1> HIDE DEF Good
<1>9. \A c : Good(Script(c))
  BY <1>1, <1>2, <1>3, <1>4, <1>5, <1>6, <1>7, <1>8
<1> QED BY <1>9 DEF Good, Loop

(* The steps of model_manager: it unlinks every name once, the segment's    *)
(* just before it creates it, and then sizes, initialises and fills it.     *)
LEMMA ManagerSteps ==
  /\ DOMAIN ManagerScript = 1..11 /\ ManagerLoop = 12
  /\ \A k \in 1..11 : /\ ManagerScript[k][2] \in Names
                      /\ ManagerScript[k][1] = "unlink" => k <= 7
                      /\ ManagerScript[k][1] = "open" => k <= 8
                      /\ ManagerScript[k][1] = "size" <=> k = 9
                      /\ ManagerScript[k][1] = "init" <=> k = 10
                      /\ ManagerScript[k][1] = "fill" <=> k = 11
                      /\ k \in 7..11 <=> ManagerScript[k][2] = "shm"
  /\ ManagerScript[7][1] = "unlink" /\ ManagerScript[8][1] = "open"
  /\ \A k, l \in 1..11 : /\ ManagerScript[k][1] = "unlink" /\ ManagerScript[l][1] = "unlink"
                         /\ ManagerScript[k][2] = ManagerScript[l][2]
                         => k = l
<1>1. DOMAIN ManagerScript = 1..11 /\ ManagerLoop = 12
      /\ ManagerScript[7][1] = "unlink" /\ ManagerScript[8][1] = "open"
  BY DEF ManagerScript, ManagerLoop
<1>2. ASSUME NEW k \in 1..11
      PROVE  /\ ManagerScript[k][2] \in Names
             /\ ManagerScript[k][1] = "unlink" => k <= 7
             /\ ManagerScript[k][1] = "open" => k <= 8
             /\ ManagerScript[k][1] = "size" <=> k = 9
             /\ ManagerScript[k][1] = "init" <=> k = 10
             /\ ManagerScript[k][1] = "fill" <=> k = 11
             /\ k \in 7..11 <=> ManagerScript[k][2] = "shm"
             /\ ManagerScript[k][1] = "unlink" =>
                  \/ k = 1 /\ ManagerScript[k][2] = "task"
                  \/ k = 3 /\ ManagerScript[k][2] = "mqtt"
                  \/ k = 5 /\ ManagerScript[k][2] = "route"
                  \/ k = 7 /\ ManagerScript[k][2] = "shm"
  <2>1. k \in {1, 2, 3, 4, 5, 6, 7, 8, 9, 10, 11}
    OBVIOUS
  <2> QED BY <2>1 DEF ManagerScript, Names
<1>3. ASSUME NEW k \in 1..11, NEW l \in 1..11,
             ManagerScript[k][1] = "unlink" /\ ManagerScript[l][1] = "unlink",
             ManagerScript[k][2] = ManagerScript[l][2]
      PROVE  k = l
  BY <1>2, <1>3
<1> QED BY <1>1, <1>2, <1>3

-----------------------------------------------------------------------------
(* Types *)

(* What a step of a client is about. *)
LEMMA AtStep ==
  ASSUME NEW c \in Clients, NEW op, At(c, op)
  PROVE  /\ pc[c] \in DOMAIN Script(c) /\ pc[c] \in 1..Len(Script(c))
         /\ Script(c)[pc[c]] \in StepTypes /\ Script(c)[pc[c]].op = op
         /\ Wanted(c) \in Names
<1>1. pc[c] \in DOMAIN Script(c) /\ Script(c)[pc[c]].op = op
  BY DEF At
<1>2. Script(c) \in Seq(StepTypes)
  BY ScriptType
<1>3. Script(c)[pc[c]] \in StepTypes /\ pc[c] \in 1..Len(Script(c))
  BY <1>1, <1>2
<1> QED BY <1>1, <1>3 DEF Wanted, StepTypes

LEMMA LoopType == \A c : Loop(c) \in Nat /\ Len(Script(c)) \in Nat /\ DOMAIN Script(c) = 1..Len(Script(c))
<1> SUFFICES ASSUME NEW c
             PROVE  Loop(c) \in Nat /\ Len(Script(c)) \in Nat /\ DOMAIN Script(c) = 1..Len(Script(c))
  OBVIOUS
<1>1. Script(c) \in Seq(StepTypes)
  BY ScriptType
<1> QED BY <1>1 DEF Loop

(* Nothing is held at first. *)
LEMMA NoHandlesType ==
  \A c : NoHandles(c) \in Seq(Objects \cup {0}) /\ DOMAIN NoHandles(c) = DOMAIN Script(c)
BY LoopType DEF NoHandles

(* The ways in which a step of a client changes it keep its type. *)
ClientType ==
  /\ pc \in [Clients -> Nat] /\ handle \in [Clients -> Seq(Objects \cup {0})]
  /\ \A c \in Clients : pc[c] <= Loop(c) /\ DOMAIN handle[c] = DOMAIN Script(c)
  /\ since \subseteq Clients \X Nat
  /\ \A s \in since : s[2] \in DOMAIN Script(s[1])

LEMMA EndsType ==
  ASSUME ClientType, NEW c \in Clients, Ends(c)
  PROVE  ClientType'
<1>1. /\ pc' = [pc EXCEPT ![c] = 0]
      /\ handle' = [handle EXCEPT ![c] = NoHandles(c)]
      /\ since' \subseteq since
  BY DEF Ends
<1> QED BY <1>1, NoHandlesType, LoopType DEF ClientType

LEMMA HoldsType ==
  ASSUME ClientType, NEW c \in Clients, NEW op, At(c, op), NEW o \in Objects \cup {0}, Holds(c, o)
  PROVE  ClientType'
<1> DEFINE k == pc[c]
<1> DEFINE h == [handle[c] EXCEPT ![k] = o]
<1>1. pc' = [pc EXCEPT ![c] = @ + 1] /\ handle' = [handle EXCEPT ![c] = h]
  BY DEF Holds
<1>2. k \in Nat /\ k + 1 \in Nat /\ k + 1 <= Loop(c)
  BY AtStep, LoopType DEF Loop
<1>3. h \in Seq(Objects \cup {0}) /\ DOMAIN h = DOMAIN Script(c)
  BY AtStep DEF ClientType
<1>4. pc' = [pc EXCEPT ![c] = k + 1]
  BY <1>1 DEF ClientType
<1> DEFINE k1 == k + 1
<1> HIDE DEF h, k, k1
<1>5. pc' = [pc EXCEPT ![c] = k1] /\ k1 \in Nat /\ k1 <= Loop(c)
  BY <1>2, <1>4 DEF k1
<1>6. since' \subseteq Clients \X Nat /\ \A s \in since' : s[2] \in DOMAIN Script(s[1])
  <2>1. since' \subseteq since \cup {<<c, k>>}
    BY DEF Holds, k
  <2>2. k \in Nat /\ k \in DOMAIN Script(c)
    BY AtStep, <1>2 DEF k
  <2> QED BY <2>1, <2>2 DEF ClientType
<1> QED BY <1>1, <1>3, <1>5, <1>6 DEF ClientType

LEMMA FailsType ==
  ASSUME ClientType, NEW c \in Clients, NEW op, At(c, op), Fails(c)
  PROVE  ClientType'
<1> DEFINE step == Script(c)[pc[c]]
           h == [i \in DOMAIN Script(c) |-> IF i \in step.lost THEN 0 ELSE handle[c][i]]
<1>1. step \in StepTypes /\ step.next \in Nat /\ step.next <= Loop(c)
  BY AtStep, ScriptType DEF StepTypes
<1>2. CASE step.next = 0
  BY <1>2, EndsType DEF Fails
<1>3. CASE step.next # 0
  <2>1. pc' = [pc EXCEPT ![c] = step.next] /\ handle' = [handle EXCEPT ![c] = h]
    BY <1>3 DEF Fails, ClientType
  <2>3. since' \subseteq since
    BY <1>3 DEF Fails
  <2>2. h \in Seq(Objects \cup {0}) /\ DOMAIN h = DOMAIN Script(c)
    <3>1. \A i \in DOMAIN Script(c) : handle[c][i] \in Objects \cup {0}
      BY LoopType DEF ClientType
    <3> QED BY <3>1, LoopType
  <2> HIDE DEF h, step
  <2> QED BY <1>1, <2>1, <2>2, <2>3 DEF ClientType
<1> QED BY <1>2, <1>3

LEMMA InitType == Init => TypeOK
<1> SUFFICES ASSUME Init PROVE TypeOK
  OBVIOUS
<1>1. policy \in Policies /\ name \in [Names -> Objects \cup {0}] /\ content \in [Objects -> Contents]
  BY DEF Init, Contents
<1>2. mm \in 0..ManagerLoop /\ forked \subseteq Clients \cup {"manager"} /\ kills \in [Kinds -> Nat]
  BY ManagerSteps DEF Init
<1>3. /\ pc \in [Clients -> Nat] /\ handle \in [Clients -> Seq(Objects \cup {0})]
      /\ \A c \in Clients : pc[c] <= Loop(c) /\ DOMAIN handle[c] = DOMAIN Script(c)
      /\ since \subseteq Clients \X Nat /\ \A s \in since : s[2] \in DOMAIN Script(s[1])
  <2>1. pc = [c \in Clients |-> 0] /\ handle = [c \in Clients |-> NoHandles(c)] /\ since = {}
    BY DEF Init
  <2> QED BY <2>1, NoHandlesType, LoopType
<1> QED BY <1>1, <1>2, <1>3 DEF TypeOK

LEMMA NextType == TypeOK /\ [Next]_vars => TypeOK'
<1> SUFFICES ASSUME TypeOK, [Next]_vars PROVE TypeOK'
  OBVIOUS
<1> DEFINE Rest == /\ policy \in Policies
                   /\ name \in [Names -> Objects \cup {0}] /\ content \in [Objects -> Contents]
                   /\ mm \in 0..ManagerLoop
                   /\ forked \subseteq Clients \cup {"manager"}
                   /\ kills \in [Kinds -> Nat]
<1>1. ClientType /\ Rest
  BY DEF TypeOK, ClientType
<1>2. ClientType' /\ Rest' => TypeOK'
  BY DEF TypeOK, ClientType
<1>3. ASSUME NEW who \in Kinds, Count(who)
      PROVE  kills' \in [Kinds -> Nat]
  <2>1. kills[who] \in Nat /\ kills' = [kills EXCEPT ![who] = kills[who] + 1]
    BY <1>1, <1>3 DEF Count
  <2> QED BY <1>1, <2>1
<1>4. mm \in DOMAIN ManagerScript => mm + 1 \in 0..ManagerLoop /\ ManagerScript[mm][2] \in Names
  BY ManagerSteps
<1>5. CASE StartManager
  BY <1>1, <1>2, <1>5, ManagerSteps DEF StartManager, ClientType
<1>6. CASE Unlink
  BY <1>1, <1>2, <1>4, <1>6 DEF Unlink, ManagerAt, ClientType
<1>7. CASE Open
  <2>1. mm' \in 0..ManagerLoop /\ ManagerScript[mm][2] \in Names
    BY <1>4, <1>7 DEF Open, ManagerAt
  <2>2. name' \in [Names -> Objects \cup {0}] /\ content' \in [Objects -> Contents]
    BY <1>1, <1>7, <2>1 DEF Open, Contents
  <2> QED BY <1>1, <1>2, <1>7, <2>1, <2>2 DEF Open, ClientType
<1>8. CASE FillSegment
  <2>1. PICK op \in {"size", "init", "fill"} :
          ManagerAt(op) /\ content' = [content EXCEPT ![name["shm"]] = Filled(op)]
    BY <1>8 DEF FillSegment
  <2>2. Filled(op) \in Contents
    BY DEF Filled, Contents
  <2>3. mm' \in 0..ManagerLoop
    BY <1>4, <1>8, <2>1 DEF FillSegment, ManagerAt
  <2> QED BY <1>1, <1>2, <1>8, <2>1, <2>2, <2>3 DEF FillSegment, ClientType
<1>9. CASE ManagerEnds
  <2>1. kills' \in [Kinds -> Nat] /\ mm' \in 0..ManagerLoop
    BY <1>3, <1>9, ManagerSteps DEF ManagerEnds, Kinds
  <2>2. name' \in [Names -> Objects \cup {0}]
    BY <1>1, <1>9 DEF ManagerEnds
  <2> QED BY <1>1, <1>2, <1>9, <2>1, <2>2 DEF ManagerEnds, ClientType
<1>10. ASSUME NEW c \in Clients, Start(c) PROVE TypeOK'
  <2>1. ClientType'
    <3>1. 1 <= Loop(c)
      BY LoopType DEF Loop
    <3> QED BY <1>1, <1>10, <3>1 DEF Start, ClientType
  <2> QED BY <1>1, <1>2, <1>10, <2>1 DEF Start
<1>11. ASSUME NEW c \in Clients, Receive(c) PROVE TypeOK'
  <2>1. Wanted(c) \in Names /\ At(c, "receive")
    BY <1>11, AtStep DEF Receive
  <2>2. /\ \E o \in Objects \cup {0} : Holds(c, o)
        /\ name' \in [Names -> Objects \cup {0}]
    <3>1. CASE name[Wanted(c)] # 0
      BY <1>1, <1>11, <2>1, <3>1 DEF Receive
    <3>2. CASE name[Wanted(c)] = 0
      BY <1>1, <1>11, <2>1, <3>2 DEF Receive
    <3> QED BY <3>1, <3>2
  <2>3. ClientType'
    BY <1>1, <2>1, <2>2, HoldsType
  <2> QED BY <1>1, <1>2, <1>11, <2>2, <2>3 DEF Receive
<1>12. ASSUME NEW c \in Clients, OpenExisting(c) PROVE TypeOK'
  <2>1. PICK op : At(c, op)
    BY <1>12 DEF OpenExisting
  <2>2. name[Wanted(c)] \in Objects \cup {0}
    BY <1>1, <2>1, AtStep
  <2>3. Holds(c, name[Wanted(c)]) \/ Fails(c)
    BY <1>12 DEF OpenExisting
  <2>4. ClientType'
    BY <1>1, <2>1, <2>2, <2>3, HoldsType, FailsType
  <2> QED BY <1>1, <1>2, <1>12, <2>4 DEF OpenExisting
<1>13. ASSUME NEW c \in Clients, Validate(c) PROVE TypeOK'
  <2> DEFINE o == handle[c][pc[c] - 1]
  <2>1. At(c, "check")
    BY <1>13 DEF Validate
  <2>2. pc[c] - 1 \in DOMAIN Script(c)
    BY <2>1, AtStep, ScriptType
  <2>3. o \in Objects \cup {0}
    BY <1>1, <2>2, LoopType DEF ClientType
  <2>4. Ends(c) \/ Fails(c) \/ Holds(c, o)
    BY <1>13 DEF Validate
  <2>5. ClientType'
    BY <1>1, <2>1, <2>3, <2>4, EndsType, HoldsType, FailsType
  <2> QED BY <1>1, <1>2, <1>13, <2>5 DEF Validate
<1>14. ASSUME NEW c \in Clients, StopWithManager(c) PROVE TypeOK'
  BY <1>1, <1>2, <1>14, EndsType DEF StopWithManager
<1>15. ASSUME NEW c \in Clients, Killed(c) PROVE TypeOK'
  <2>1. kills' \in [Kinds -> Nat]
    BY <1>3, <1>15 DEF Killed, Kinds
  <2> QED BY <1>1, <1>2, <1>15, <2>1, EndsType DEF Killed
<1>16. CASE UNCHANGED vars
  BY <1>1, <1>2, <1>16 DEF vars, ClientType
<1> QED BY <1>5, <1>6, <1>7, <1>8, <1>9, <1>10, <1>11, <1>12, <1>13, <1>14, <1>15, <1>16
        DEF Next, ManagerBoots, Boots

(* The variables keep their types, for all processes, policies and kills.   *)
THEOREM Typing == Spec => []TypeOK
BY InitType, NextType, PTL DEF Spec

-----------------------------------------------------------------------------
(* What a step of a client does to its handles *)

(* A step that opens something. *)
LEMMA HoldsEffect ==
  ASSUME TypeOK, NEW c \in Clients, NEW op, At(c, op), NEW o \in Objects \cup {0}, Holds(c, o)
  PROVE  /\ pc[c] \in DOMAIN Script(c) /\ pc[c] # 0 /\ pc'[c] = pc[c] + 1 /\ pc'[c] # 0
         /\ \A d \in Clients \ {c} : pc'[d] = pc[d] /\ handle'[d] = handle[d]
         /\ \A i \in DOMAIN Script(c) : handle'[c][i] = IF i = pc[c] THEN o ELSE handle[c][i]
         /\ since \subseteq since'
         /\ \A s \in since' \ since : s = <<c, pc[c]>> /\ OpensSince(c)
<1>1. pc[c] \in 1..Len(Script(c)) /\ pc[c] \in DOMAIN handle[c] /\ handle[c] \in Seq(Objects \cup {0})
      /\ DOMAIN handle[c] = DOMAIN Script(c)
  BY AtStep DEF TypeOK
<1>2. pc' = [pc EXCEPT ![c] = pc[c] + 1]
      /\ handle' = [handle EXCEPT ![c] = [handle[c] EXCEPT ![pc[c]] = o]]
      /\ since' = since \cup {s \in {<<c, pc[c]>>} : OpensSince(c)}
  BY DEF Holds, TypeOK
<1>3. pc[c] # 0 /\ pc[c] + 1 # 0
  BY <1>1, LoopType
<1>4. pc'[c] = pc[c] + 1 /\ \A d \in Clients \ {c} : pc'[d] = pc[d]
  BY <1>2 DEF TypeOK
<1>5. /\ handle'[c] = [handle[c] EXCEPT ![pc[c]] = o]
      /\ \A d \in Clients \ {c} : handle'[d] = handle[d]
  BY <1>2 DEF TypeOK
<1>6. since \subseteq since' /\ \A s \in since' \ since : s = <<c, pc[c]>> /\ OpensSince(c)
  BY <1>2
<1> QED BY <1>1, <1>3, <1>4, <1>5, <1>6

(* A step that opens nothing only lets go, and a check that fails lets go   *)
(* of what it checked.                                                      *)
LEMMA LosesEffect ==
  ASSUME TypeOK, NEW c \in Clients, pc[c] # 0,
         Ends(c) \/ (Fails(c) /\ \E op : At(c, op))
  PROVE  /\ \A d \in Clients \ {c} : pc'[d] = pc[d] /\ handle'[d] = handle[d]
         /\ pc'[c] = 0 => handle'[c] = NoHandles(c)
         /\ \A i \in DOMAIN Script(c) : handle'[c][i] \in {0, handle[c][i]}
         /\ since' \subseteq since
         /\ pc'[c] \in Nat
         /\ \A s \in since' : s[1] = c => pc'[c] > pc[c] /\ handle'[c][s[2]] = handle[c][s[2]]
         /\ At(c, "check") => handle'[c][pc[c] - 1] = 0
<1>1. CASE Ends(c)
  <2>1. pc' = [pc EXCEPT ![c] = 0] /\ handle' = [handle EXCEPT ![c] = NoHandles(c)]
        /\ since' = {s \in since : s[1] # c}
    BY <1>1 DEF Ends
  <2>2. At(c, "check") => pc[c] - 1 \in DOMAIN Script(c)
    BY AtStep, ScriptType
  <2>3. \A i \in DOMAIN Script(c) : handle'[c][i] = 0
    BY <2>1 DEF NoHandles, TypeOK
  <2> QED BY <2>1, <2>2, <2>3 DEF TypeOK
<1>2. CASE Fails(c) /\ ~Ends(c)
  <2> DEFINE step == Script(c)[pc[c]]
             h == [i \in DOMAIN Script(c) |-> IF i \in step.lost THEN 0 ELSE handle[c][i]]
  <2>1. step.next # 0
    BY <1>2 DEF Fails
  <2>2. pc' = [pc EXCEPT ![c] = step.next] /\ handle' = [handle EXCEPT ![c] = h]
        /\ since' = {s \in since : s[1] = c => s[2] \notin step.lost}
    BY <1>2, <2>1 DEF Fails, TypeOK
  <2>3. pc'[c] = step.next /\ \A d \in Clients \ {c} : pc'[d] = pc[d]
    BY <2>2 DEF TypeOK
  <2>4. handle'[c] = h /\ \A d \in Clients \ {c} : handle'[d] = handle[d]
    <3> HIDE DEF h
    <3> QED BY <2>2 DEF TypeOK
  <2>5. pc[c] \in DOMAIN Script(c) /\ step.next > pc[c] /\ step.next \in Nat
    <3>1. PICK op : At(c, op)
      BY <1>1, <1>2
    <3>2. pc[c] \in DOMAIN Script(c) /\ step \in StepTypes
      BY <3>1, AtStep
    <3>3. step.next \in Nat /\ pc[c] \in Nat /\ (step.next = 0 \/ pc[c] < step.next)
      BY <3>2, ScriptType DEF StepTypes, TypeOK
    <3> QED BY <2>1, <3>2, <3>3
  <2>6. At(c, "check") => pc[c] - 1 \in DOMAIN Script(c) /\ pc[c] - 1 \in step.lost
    BY <2>1, <2>5, ScriptType DEF At
  <2>7. \A s \in since' : s[1] = c => s[2] \in DOMAIN Script(c) /\ handle'[c][s[2]] = handle[c][s[2]]
    BY <2>2, <2>4 DEF TypeOK
  <2> QED BY <2>1, <2>2, <2>3, <2>4, <2>5, <2>6, <2>7
<1> QED BY <1>1, <1>2

-----------------------------------------------------------------------------
(* What was opened since the name was unlinked *)

On(s) == Script(s[1])[s[2]].on

(* A handle of the history was opened before the step its process comes to, *)
(* after the name was unlinked, and is what the name stands for.            *)
SinceInv ==
  \A s \in since : /\ s[2] < pc[s[1]]
                   /\ Unlinked(On(s))
                   /\ name[On(s)] # 0 /\ handle[s[1]][s[2]] = name[On(s)]

(* Nothing is unlinked twice, or when model_manager does not run.           *)
LEMMA UnlinkedOnce ==
  ASSUME TypeOK, NEW n \in Names, Unlinked(n)
  PROVE  mm # 0 /\ ~(ManagerAt("unlink") /\ ManagerScript[mm][2] = n)
<1>1. PICK k \in 1..11 : k < mm /\ ManagerScript[k] = <<"unlink", n>>
  BY ManagerSteps DEF Unlinked
<1>2. ManagerScript[k][1] = "unlink" /\ ManagerScript[k][2] = n
  BY <1>1
<1>3. mm \in 0..12
  BY ManagerSteps DEF TypeOK
<1>4. ASSUME ManagerAt("unlink"), ManagerScript[mm][2] = n PROVE FALSE
  BY <1>1, <1>2, <1>4, ManagerSteps DEF ManagerAt
<1> QED BY <1>1, <1>3, <1>4

(* It stays unlinked while model_manager goes on.                           *)
LEMMA UnlinkedStays ==
  ASSUME TypeOK, mm' = mm \/ mm' = mm + 1, NEW n, Unlinked(n)
  PROVE  Unlinked(n)'
<1>1. PICK k \in DOMAIN ManagerScript : k < mm /\ ManagerScript[k] = <<"unlink", n>>
  BY DEF Unlinked
<1>2. k \in 1..11 /\ mm \in 0..12 /\ k < mm'
  BY <1>1, ManagerSteps DEF TypeOK
<1> QED BY <1>1, <1>2 DEF Unlinked

LEMMA OnType == TypeOK => \A s \in since : s[1] \in Clients /\ s[2] \in DOMAIN Script(s[1]) /\ On(s) \in Names
<1> SUFFICES ASSUME TypeOK, NEW s \in since
             PROVE  s[1] \in Clients /\ s[2] \in DOMAIN Script(s[1]) /\ On(s) \in Names
  OBVIOUS
<1>1. s[1] \in Clients /\ s[2] \in DOMAIN Script(s[1])
  BY DEF TypeOK
<1>2. Script(s[1])[s[2]] \in StepTypes
  BY <1>1, ScriptType, LoopType
<1> QED BY <1>1, <1>2 DEF On, StepTypes

(* Who lets go of things, or opens what a name stands for, keeps it.        *)
LEMMA LosesSince ==
  ASSUME TypeOK, SinceInv, NEW c \in Clients, pc[c] # 0,
         Ends(c) \/ (Fails(c) /\ \E op : At(c, op)),
         UNCHANGED <<name, mm>>
  PROVE  SinceInv'
<1>1. /\ \A d \in Clients \ {c} : pc'[d] = pc[d] /\ handle'[d] = handle[d]
      /\ since' \subseteq since
      /\ \A s \in since' : s[1] = c => pc'[c] > pc[c] /\ handle'[c][s[2]] = handle[c][s[2]]
  BY LosesEffect
<1>2. ASSUME NEW s \in since'
      PROVE  /\ s[2] < pc'[s[1]] /\ Unlinked(On(s))'
             /\ name'[On(s)] # 0 /\ handle'[s[1]][s[2]] = name'[On(s)]
  <2>1. s \in since /\ s[1] \in Clients /\ s[2] \in DOMAIN Script(s[1])
    BY <1>1, OnType
  <2>2. Unlinked(On(s))'
    BY <2>1, UnlinkedStays DEF SinceInv
  <2>3. handle'[s[1]][s[2]] = handle[s[1]][s[2]]
    BY <1>1, <2>1
  <2>4. s[2] < pc'[s[1]]
    <3>1. s[2] < pc[s[1]] /\ pc[s[1]] \in Nat /\ s[2] \in Nat
      BY <2>1, LoopType DEF SinceInv, TypeOK
    <3>2. pc'[c] \in Nat
      BY LosesEffect
    <3> QED BY <1>1, <2>1, <3>1, <3>2
  <2> QED BY <2>1, <2>2, <2>3, <2>4 DEF SinceInv
<1> QED BY <1>2 DEF SinceInv, On

LEMMA HoldsSince ==
  ASSUME TypeOK, SinceInv, NEW c \in Clients, NEW op, At(c, op), NEW o \in Objects \cup {0}, Holds(c, o),
         OpensSince(c) => Unlinked(Wanted(c)) /\ o # 0 /\ o = name'[Wanted(c)],
         \A n \in Names : name[n] # 0 => name'[n] = name[n],
         UNCHANGED mm
  PROVE  SinceInv'
<1>1. /\ pc[c] \in DOMAIN Script(c) /\ pc'[c] = pc[c] + 1
      /\ \A d \in Clients \ {c} : pc'[d] = pc[d] /\ handle'[d] = handle[d]
      /\ \A i \in DOMAIN Script(c) : handle'[c][i] = IF i = pc[c] THEN o ELSE handle[c][i]
      /\ \A s \in since' \ since : s = <<c, pc[c]>> /\ OpensSince(c)
  BY HoldsEffect
<1>2. pc[c] \in Nat
  BY DEF TypeOK
<1>3. ASSUME NEW s \in since
      PROVE  /\ s[2] < pc'[s[1]] /\ Unlinked(On(s))'
             /\ name'[On(s)] # 0 /\ handle'[s[1]][s[2]] = name'[On(s)]
  <2>1. s[1] \in Clients /\ s[2] \in DOMAIN Script(s[1]) /\ On(s) \in Names
    BY OnType
  <2>2. s[2] \in Nat /\ s[2] < pc[s[1]] /\ pc[s[1]] \in Nat
    BY <2>1, LoopType DEF SinceInv, TypeOK
  <2>3. Unlinked(On(s))'
    BY UnlinkedStays DEF SinceInv, On
  <2>4. handle'[s[1]][s[2]] = handle[s[1]][s[2]] /\ s[2] < pc'[s[1]]
    BY <1>1, <1>2, <2>1, <2>2
  <2> QED BY <2>1, <2>3, <2>4 DEF SinceInv
<1>4. ASSUME NEW s \in since' \ since
      PROVE  /\ s[2] < pc'[s[1]] /\ Unlinked(On(s))'
             /\ name'[On(s)] # 0 /\ handle'[s[1]][s[2]] = name'[On(s)]
  <2>1. s = <<c, pc[c]>> /\ OpensSince(c)
    BY <1>1, <1>4
  <2>2. On(s) = Wanted(c) /\ s[1] = c /\ s[2] = pc[c]
    BY <2>1 DEF On, Wanted
  <2>3. Unlinked(On(s))'
    BY <2>1, <2>2, UnlinkedStays DEF On
  <2> QED BY <1>1, <1>2, <2>1, <2>2, <2>3
<1> QED BY <1>3, <1>4 DEF SinceInv, On

LEMMA InitSince == Init => SinceInv
BY DEF Init, SinceInv

LEMMA NextSince ==
  ASSUME TypeOK, SinceInv, [Next]_vars
  PROVE  SinceInv'
<1>1. /\ name \in [Names -> Objects \cup {0}] /\ mm \in 0..12
      /\ pc \in [Clients -> Nat]
  BY ManagerSteps DEF TypeOK
<1>2. \A s \in since : mm # 0 /\ On(s) \in Names /\ ~(ManagerAt("unlink") /\ ManagerScript[mm][2] = On(s))
  BY OnType, UnlinkedOnce DEF SinceInv
<1>3. ASSUME mm' = mm \/ mm' = mm + 1, UNCHANGED <<pc, handle, since>>,
             \A s \in since : name'[On(s)] = name[On(s)]
      PROVE  SinceInv'
  <2>1. \A s \in since : Unlinked(On(s))'
    BY <1>3, UnlinkedStays DEF SinceInv, On
  <2> QED BY <1>3, <2>1 DEF SinceInv, On
<1>4. CASE StartManager
  BY <1>1, <1>3, <1>4 DEF StartManager
<1>5. CASE Unlink
  <2>1. \A s \in since : name'[On(s)] = name[On(s)]
    BY <1>1, <1>2, <1>5 DEF Unlink
  <2> QED BY <1>3, <1>5, <2>1 DEF Unlink
<1>6. CASE Open
  <2>1. \A s \in since : name'[On(s)] = name[On(s)]
    BY <1>1, <1>2, <1>6 DEF Open, SinceInv
  <2> QED BY <1>3, <1>6, <2>1 DEF Open
<1>7. CASE FillSegment
  BY <1>3, <1>7 DEF FillSegment
<1>8. CASE ManagerEnds
  BY <1>8 DEF ManagerEnds, SinceInv
<1>9. ASSUME NEW c \in Clients, Start(c) PROVE SinceInv'
  <2>1. pc[c] = 0 /\ pc' = [pc EXCEPT ![c] = 1] /\ UNCHANGED <<name, mm, handle, since>>
    BY <1>9 DEF Start
  <2>2. \A s \in since : s[1] # c
    <3>1. \A s \in since : s[2] \in Nat /\ s[2] < pc[s[1]]
      BY OnType, LoopType DEF SinceInv
    <3> QED BY <2>1, <3>1
  <2>3. \A s \in since : Unlinked(On(s))'
    BY <2>1, UnlinkedStays DEF SinceInv, On
  <2>4. \A s \in since : pc'[s[1]] = pc[s[1]]
    BY <1>1, <2>1, <2>2, OnType
  <2> QED BY <2>1, <2>3, <2>4 DEF SinceInv, On
<1>10. ASSUME NEW c \in Clients, Receive(c) PROVE SinceInv'
  <2>1. At(c, "receive") /\ Wanted(c) \in Names /\ UNCHANGED mm /\ ~At(c, "check")
    BY <1>10, AtStep DEF Receive, At
  <2>2. CASE name[Wanted(c)] # 0
    <3>1. Holds(c, name[Wanted(c)]) /\ name' = name /\ name[Wanted(c)] \in Objects \cup {0}
      BY <1>1, <1>10, <2>1, <2>2 DEF Receive
    <3> QED BY <2>1, <2>2, <3>1, HoldsSince DEF OpensSince
  <2>3. CASE name[Wanted(c)] = 0
    <3>1. PICK o \in Objects : Holds(c, o) /\ name' = [name EXCEPT ![Wanted(c)] = o]
      BY <1>10, <2>3 DEF Receive
    <3>2. /\ name'[Wanted(c)] = o /\ \A n \in Names : name[n] # 0 => name'[n] = name[n]
      BY <1>1, <2>1, <2>3, <3>1
    <3>3. o # 0
      BY ObjectsAssumption
    <3> QED BY <2>1, <3>1, <3>2, <3>3, HoldsSince DEF OpensSince
  <2> QED BY <2>2, <2>3
<1>11. ASSUME NEW c \in Clients, OpenExisting(c) PROVE SinceInv'
  <2>1. PICK op \in {"send", "map"} : At(c, op)
    BY <1>11 DEF OpenExisting
  <2>2. pc[c] # 0 /\ Wanted(c) \in Names /\ ~At(c, "check")
    BY <2>1, AtStep, LoopType DEF At
  <2>3. UNCHANGED <<name, mm>> /\ name[Wanted(c)] \in Objects \cup {0}
    BY <1>1, <1>11, <2>2 DEF OpenExisting
  <2>4. CASE name[Wanted(c)] # 0 /\ Holds(c, name[Wanted(c)])
    BY <2>1, <2>2, <2>3, <2>4, HoldsSince DEF OpensSince
  <2>5. CASE Fails(c)
    BY <2>1, <2>2, <2>3, <2>5, LosesSince
  <2> QED BY <1>11, <2>4, <2>5 DEF OpenExisting
<1>12. ASSUME NEW c \in Clients, Validate(c) PROVE SinceInv'
  <2> DEFINE o == handle[c][pc[c] - 1]
             s == <<c, pc[c] - 1>>
  <2>1. At(c, "check") /\ UNCHANGED <<name, mm>> /\ pc[c] # 0
    BY <1>12, AtStep, LoopType DEF Validate
  <2>2. /\ pc[c] - 1 \in DOMAIN Script(c) /\ Script(c)[pc[c] - 1].on = "shm" /\ Wanted(c) = "shm"
    BY <2>1, AtStep, ScriptType DEF Wanted
  <2>3. o \in Objects \cup {0}
    BY <2>2, LoopType DEF TypeOK
  <2>4. OpensSince(c) => Unlinked(Wanted(c)) /\ o # 0 /\ o = name'[Wanted(c)]
    <3>1. OpensSince(c) => s \in since
      BY <2>1 DEF OpensSince
    <3>2. On(s) = Wanted(c) /\ s[1] = c /\ s[2] = pc[c] - 1
      BY <2>2 DEF On
    <3> QED BY <2>1, <3>1, <3>2 DEF SinceInv
  <2>5. Ends(c) \/ Fails(c) \/ Holds(c, o)
    BY <1>12 DEF Validate
  <2>6. CASE Ends(c) \/ Fails(c)
    BY <2>1, <2>6, LosesSince
  <2>7. CASE Holds(c, o)
    <3> HIDE DEF o
    <3> QED BY <2>1, <2>3, <2>4, <2>7, HoldsSince
  <2> QED BY <2>5, <2>6, <2>7
<1>13. ASSUME NEW c \in Clients, StopWithManager(c) PROVE SinceInv'
  BY <1>13, LosesSince DEF StopWithManager
<1>14. ASSUME NEW c \in Clients, Killed(c) PROVE SinceInv'
  BY <1>14, LosesSince DEF Killed
<1>15. CASE UNCHANGED vars
  BY <1>3, <1>15 DEF vars
<1> QED BY <1>4, <1>5, <1>6, <1>7, <1>8, <1>9, <1>10, <1>11, <1>12, <1>13, <1>14, <1>15
        DEF Next, ManagerBoots, Boots

(* However processes are started, stopped and killed: what one has opened   *)
(* after model_manager unlinked the name is what the name stands for, so    *)
(* that all who opened it since then share it.                              *)
THEOREM SharedSince == Spec => []SharedSinceUnlink
<1>1. Init => TypeOK /\ SinceInv
  BY InitType, InitSince
<1>2. TypeOK /\ SinceInv /\ [Next]_vars => (TypeOK /\ SinceInv)'
  BY NextType, NextSince
<1>3. SinceInv => SharedSinceUnlink
  BY DEF SinceInv, SharedSinceUnlink, On
<1> QED BY <1>1, <1>2, <1>3, PTL DEF Spec

-----------------------------------------------------------------------------
(* What is in the segments *)

(* The segment of which model_manager is at work: its content goes with the *)
(* step it comes to.                                                        *)
Building ==
  /\ mm = 8 => name["shm"] = 0
  /\ mm \in 9..12 => name["shm"] \in Objects
  /\ mm = 9 => content[name["shm"]] = "empty"
  /\ mm = 10 => content[name["shm"]] = "sized"
  /\ mm = 11 => content[name["shm"]] = "valid"
  /\ mm = 12 => content[name["shm"]] = "filled"

Usable(o) == content[o] \in {"valid", "filled"}

(* What was attached is usable, unless its check comes next.                *)
UsableInv ==
  \A c \in Clients : \A i \in DOMAIN Script(c) :
    /\ Script(c)[i].on = "shm" /\ handle[c][i] # 0
    /\ ~(Script(c)[i].op = "map" /\ pc[c] = i + 1)
    => Usable(handle[c][i])

(* A process that waits for model_manager and is stopped before its restart *)
(* runs only while the segment is filled.                                   *)
SettledInv ==
  \A c \in Clients :
    /\ pc[c] = 0 => \A i \in DOMAIN Script(c) : handle[c][i] = 0
    /\ Settled(c) /\ pc[c] # 0 =>
         /\ mm = 12 \/ (mm = 0 /\ c \in policy.restarted)
         /\ name["shm"] \in Objects /\ content[name["shm"]] = "filled"
    /\ Settled(c) =>
         \A i \in DOMAIN Script(c) :
           Script(c)[i].on = "shm" /\ handle[c][i] # 0 => content[handle[c][i]] = "filled"

SegmentInv == Building /\ UsableInv /\ SettledInv

LEMMA InitSegment == Init => SegmentInv
<1> SUFFICES ASSUME Init PROVE SegmentInv
  OBVIOUS
<1>1. mm = 0 /\ pc = [c \in Clients |-> 0] /\ handle = [c \in Clients |-> NoHandles(c)]
  BY DEF Init
<1>2. \A c \in Clients : pc[c] = 0 /\ \A i \in DOMAIN Script(c) : handle[c][i] = 0
  BY <1>1 DEF NoHandles
<1> QED BY <1>1, <1>2 DEF SegmentInv, Building, UsableInv, SettledInv

(* Who lets go of things keeps it; a map whose check fails is among them.   *)
LEMMA LosesSegment ==
  ASSUME TypeOK, SegmentInv, NEW c \in Clients, pc[c] # 0,
         Ends(c) \/ (Fails(c) /\ \E op : At(c, op)),
         UNCHANGED <<policy, name, content, mm>>
  PROVE  SegmentInv'
<1>1. /\ \A d \in Clients \ {c} : pc'[d] = pc[d] /\ handle'[d] = handle[d]
      /\ pc'[c] = 0 => handle'[c] = NoHandles(c)
      /\ \A i \in DOMAIN Script(c) : handle'[c][i] \in {0, handle[c][i]}
      /\ At(c, "check") => handle'[c][pc[c] - 1] = 0
  BY LosesEffect
<1>2. Building'
  BY DEF SegmentInv, Building
<1>3. UsableInv'
  <2> SUFFICES ASSUME NEW d \in Clients, NEW i \in DOMAIN Script(d),
                      Script(d)[i].on = "shm", handle'[d][i] # 0,
                      ~(Script(d)[i].op = "map" /\ pc'[d] = i + 1)
               PROVE  content'[handle'[d][i]] \in {"valid", "filled"}
    BY DEF UsableInv, Usable
  <2>1. CASE d # c
    BY <1>1, <2>1 DEF SegmentInv, UsableInv, Usable
  <2>2. CASE d = c /\ ~(Script(c)[i].op = "map" /\ pc[c] = i + 1)
    BY <1>1, <2>2 DEF SegmentInv, UsableInv, Usable
  <2>3. CASE d = c /\ Script(c)[i].op = "map" /\ pc[c] = i + 1
    <3>1. At(c, "check") /\ pc[c] - 1 = i
      BY <2>3, ScriptType, LoopType DEF At
    <3> QED BY <1>1, <2>3, <3>1
  <2> QED BY <2>1, <2>2, <2>3
<1>4. SettledInv'
  <2> SUFFICES ASSUME NEW d \in Clients
               PROVE  /\ pc'[d] = 0 => \A i \in DOMAIN Script(d) : handle'[d][i] = 0
                      /\ Settled(d)' /\ pc'[d] # 0 =>
                           /\ mm' = 12 \/ (mm' = 0 /\ d \in policy'.restarted)
                           /\ name'["shm"] \in Objects /\ content'[name'["shm"]] = "filled"
                      /\ Settled(d)' =>
                           \A i \in DOMAIN Script(d) :
                             Script(d)[i].on = "shm" /\ handle'[d][i] # 0
                             => content'[handle'[d][i]] = "filled"
    BY DEF SettledInv, Settled
  <2>1. Settled(d)' = Settled(d)
    BY DEF Settled
  <2>2. pc'[d] = 0 => \A i \in DOMAIN Script(d) : handle'[d][i] = 0
    BY <1>1 DEF NoHandles, SegmentInv, SettledInv
  <2>3. pc'[d] # 0 => pc[d] # 0
    BY <1>1
  <2>4. \A i \in DOMAIN Script(d) : handle'[d][i] \in {0, handle[d][i]}
    BY <1>1
  <2> QED BY <2>1, <2>2, <2>3, <2>4 DEF SegmentInv, SettledInv
<1> QED BY <1>2, <1>3, <1>4 DEF SegmentInv

(* So does who opens a queue, or the segment, or finds it usable.           *)
LEMMA HoldsSegment ==
  ASSUME TypeOK, SegmentInv, NEW c \in Clients, NEW op, At(c, op), NEW o \in Objects \cup {0}, Holds(c, o),
         Wanted(c) = "shm" /\ op # "map" => Usable(o),
         Wanted(c) = "shm" /\ op = "map" => o = name["shm"],
         op = "check" => o = handle[c][pc[c] - 1],
         Wanted(c) = "shm" => op \in {"map", "check"},
         name'["shm"] = name["shm"], UNCHANGED <<policy, content, mm>>
  PROVE  SegmentInv'
<1>1. /\ pc[c] \in DOMAIN Script(c) /\ pc[c] # 0 /\ pc'[c] = pc[c] + 1 /\ pc'[c] # 0
      /\ \A d \in Clients \ {c} : pc'[d] = pc[d] /\ handle'[d] = handle[d]
      /\ \A i \in DOMAIN Script(c) : handle'[c][i] = IF i = pc[c] THEN o ELSE handle[c][i]
      /\ Script(c)[pc[c]].op = op /\ Wanted(c) = Script(c)[pc[c]].on
  BY HoldsEffect DEF At, Wanted
<1>2. Building'
  BY DEF SegmentInv, Building
<1>3. UsableInv'
  <2> SUFFICES ASSUME NEW d \in Clients, NEW i \in DOMAIN Script(d),
                      Script(d)[i].on = "shm", handle'[d][i] # 0,
                      ~(Script(d)[i].op = "map" /\ pc'[d] = i + 1)
               PROVE  content'[handle'[d][i]] \in {"valid", "filled"}
    BY DEF UsableInv, Usable
  <2>1. CASE d # c
    BY <1>1, <2>1 DEF SegmentInv, UsableInv, Usable
  <2>2. CASE d = c /\ i = pc[c]
    BY <1>1, <2>2 DEF Usable
  <2>3. CASE d = c /\ i # pc[c] /\ ~(Script(c)[i].op = "map" /\ pc[c] = i + 1)
    BY <1>1, <2>3 DEF SegmentInv, UsableInv, Usable
  <2>4. CASE d = c /\ i # pc[c] /\ Script(c)[i].op = "map" /\ pc[c] = i + 1
    <3>1. op = "check" /\ pc[c] - 1 = i /\ Wanted(c) = "shm"
      BY <1>1, <2>4, ScriptType, LoopType
    <3> QED BY <1>1, <2>4, <3>1 DEF Usable
  <2> QED BY <2>1, <2>2, <2>3, <2>4
<1>4. SettledInv'
  <2> SUFFICES ASSUME NEW d \in Clients
               PROVE  /\ pc'[d] = 0 => \A i \in DOMAIN Script(d) : handle'[d][i] = 0
                      /\ Settled(d)' /\ pc'[d] # 0 =>
                           /\ mm' = 12 \/ (mm' = 0 /\ d \in policy'.restarted)
                           /\ name'["shm"] \in Objects /\ content'[name'["shm"]] = "filled"
                      /\ Settled(d)' =>
                           \A i \in DOMAIN Script(d) :
                             Script(d)[i].on = "shm" /\ handle'[d][i] # 0
                             => content'[handle'[d][i]] = "filled"
    BY DEF SettledInv, Settled
  <2>1. Settled(d)' = Settled(d) /\ (pc'[d] # 0 => pc[d] # 0) /\ (pc'[d] = 0 => d # c)
    BY <1>1 DEF Settled
  <2>2. CASE d # c
    BY <1>1, <2>1, <2>2 DEF SegmentInv, SettledInv
  <2>3. CASE d = c
    <3>1. Settled(c) /\ Wanted(c) = "shm" /\ o # 0 => content[o] = "filled"
      <4>1. CASE op = "map"
        BY <1>1, <4>1 DEF SegmentInv, SettledInv
      <4>2. CASE op = "check"
        BY <1>1, <4>2, ScriptType DEF SegmentInv, SettledInv
      <4> QED BY <4>1, <4>2
    <3>2. \A i \in DOMAIN Script(c) \ {pc[c]} : handle'[c][i] = handle[c][i]
      BY <1>1
    <3> QED BY <1>1, <2>1, <2>3, <3>1, <3>2 DEF SegmentInv, SettledInv
  <2> QED BY <2>2, <2>3
<1> QED BY <1>2, <1>3, <1>4 DEF SegmentInv

(* While model_manager is at work no settled process runs.                  *)
LEMMA ManagerAlone ==
  ASSUME SegmentInv, mm \in 1..11, NEW c \in Clients, Settled(c)
  PROVE  pc[c] = 0 /\ \A i \in DOMAIN Script(c) : handle[c][i] = 0
BY DEF SegmentInv, SettledInv

LEMMA NextSegment ==
  ASSUME TypeOK, SegmentInv, [Next]_vars
  PROVE  SegmentInv'
<1>1. /\ name \in [Names -> Objects \cup {0}] /\ content \in [Objects -> Contents]
      /\ mm \in 0..12 /\ pc \in [Clients -> Nat] /\ "shm" \in Names
  BY ManagerSteps DEF TypeOK, Names
<1>2. ASSUME NEW c \in Clients PROVE Script(c) \in Seq(StepTypes) /\ DOMAIN Script(c) = 1..Len(Script(c))
  BY ScriptType, LoopType
<1>3. CASE StartManager
  <2>1. mm = 0 /\ mm' = 1 /\ UNCHANGED <<policy, name, content, pc, handle>>
        /\ \A c \in policy.restarted : pc[c] = 0
    BY <1>3 DEF StartManager
  <2>2. \A c \in Clients : Settled(c)' = Settled(c) /\ (Settled(c) => pc[c] = 0)
    BY <2>1 DEF Settled, SegmentInv, SettledInv
  <2> QED BY <2>1, <2>2 DEF SegmentInv, Building, UsableInv, Usable, SettledInv
<1>4. CASE Unlink
  <2>1. mm \in 1..7 /\ mm' = mm + 1 /\ UNCHANGED <<policy, content, pc, handle>>
        /\ name' = [name EXCEPT ![ManagerScript[mm][2]] = 0]
    BY <1>4, ManagerSteps DEF Unlink, ManagerAt
  <2>2. mm = 7 => name'["shm"] = 0
    BY <1>1, <2>1, ManagerSteps
  <2>3. Building'
    BY <2>1, <2>2 DEF Building
  <2>4. \A c \in Clients : Settled(c)' = Settled(c) /\ (Settled(c) => pc[c] = 0)
    BY <2>1, ManagerAlone DEF Settled
  <2> QED BY <2>1, <2>3, <2>4 DEF SegmentInv, UsableInv, Usable, SettledInv
<1>5. CASE Open
  <2> DEFINE n == ManagerScript[mm][2]
  <2>1. mm \in 1..8 /\ mm' = mm + 1 /\ UNCHANGED <<policy, pc, handle>> /\ n \in Names
        /\ (n = "shm" <=> mm \in {7, 8}) /\ mm # 7
    BY <1>5, ManagerSteps DEF Open, ManagerAt
  <2>2. \A c \in Clients : Settled(c)' = Settled(c) /\ (Settled(c) => pc[c] = 0)
    BY <2>1, ManagerAlone DEF Settled
  <2>3. CASE mm # 8
    <3>1. content' = content
      BY <1>5, <2>1, <2>3 DEF Open
    <3>2. Building' 
      BY <2>1, <2>3 DEF Building, ManagerAt
    <3> QED BY <2>1, <2>2, <3>1, <3>2 DEF SegmentInv, UsableInv, Usable, SettledInv
  <2>4. CASE mm = 8
    <3>1. n = "shm" /\ name["shm"] = 0
      BY <2>1, <2>4 DEF SegmentInv, Building
    <3>2. PICK o \in Objects : /\ Fresh("shm", o) /\ name' = [name EXCEPT !["shm"] = o]
                               /\ content' = [content EXCEPT ![o] = "empty"]
      BY <1>5, <3>1 DEF Open
    <3>3. name'["shm"] = o /\ content'[o] = "empty" /\ mm' = 9
      BY <1>1, <2>1, <2>4, <3>2
    <3>4. ASSUME NEW c \in Clients, NEW i \in DOMAIN Script(c), Script(c)[i].on = "shm"
          PROVE  handle[c][i] # o
      BY <3>2, <3>4 DEF Fresh, Free
    <3>5. \A c \in Clients : \A i \in DOMAIN Script(c) :
            Script(c)[i].on = "shm" => content'[handle[c][i]] = content[handle[c][i]]
      BY <3>2, <3>4
    <3>6. Building'
      BY <3>3 DEF Building
    <3> QED BY <2>1, <2>2, <3>5, <3>6 DEF SegmentInv, UsableInv, Usable, SettledInv
  <2> QED BY <2>3, <2>4
<1>6. CASE FillSegment
  <2> DEFINE o == name["shm"]
  <2>1. PICK op \in {"size", "init", "fill"} :
          ManagerAt(op) /\ content' = [content EXCEPT ![o] = Filled(op)]
    BY <1>6 DEF FillSegment
  <2>2. mm \in 9..11 /\ mm' = mm + 1 /\ UNCHANGED <<policy, pc, handle, name>>
        /\ (op = "size" <=> mm = 9) /\ (op = "init" <=> mm = 10) /\ (op = "fill" <=> mm = 11)
    BY <1>6, <2>1, ManagerSteps DEF FillSegment, ManagerAt
  <2>3. o \in Objects
    BY <2>2 DEF SegmentInv, Building
  <2>4. content'[o] = Filled(op)
    BY <1>1, <2>1, <2>3
  <2>5. Building'
    BY <2>1, <2>2, <2>3, <2>4 DEF Building, Filled
  <2>6. \A p : Usable(p) => Usable(p)'
    <3>1. mm = 9 => ~Usable(o)
      BY DEF SegmentInv, Building, Usable
    <3>2. mm # 9 => Filled(op) \in {"valid", "filled"}
      BY <2>1, <2>2 DEF Filled
    <3>3. \A p : p # o => content'[p] = content[p]
      BY <2>1
    <3> QED BY <2>2, <2>4, <3>1, <3>2, <3>3 DEF Usable
  <2>7. \A c \in Clients : Settled(c)' = Settled(c) /\ (Settled(c) => pc[c] = 0 /\ \A i \in DOMAIN Script(c) : handle[c][i] = 0)
    BY <2>2, ManagerAlone DEF Settled
  <2>8. UsableInv'
    BY <2>2, <2>6 DEF SegmentInv, UsableInv
  <2>9. SettledInv'
    BY <2>2, <2>7 DEF SegmentInv, SettledInv
  <2> QED BY <2>5, <2>8, <2>9 DEF SegmentInv
<1>7. CASE ManagerEnds
  <2>1. mm' = 0 /\ mm # 0 /\ UNCHANGED <<policy, pc, handle, content>> /\ kills["manager"] < policy.kills["manager"]
    BY <1>7 DEF ManagerEnds, Count
  <2>2. name'["shm"] = name["shm"]
    BY <1>1, <1>7 DEF ManagerEnds, Queues
  <2>3. policy.kills["manager"] # 0
    <3>1. kills["manager"] \in Nat
      BY DEF TypeOK, Kinds
    <3> QED BY <2>1, <3>1
  <2>4. \A c \in Clients : Settled(c)' = Settled(c) /\ (Settled(c) => c \in policy.restarted)
    BY <2>1, <2>3 DEF Settled
  <2> QED BY <2>1, <2>2, <2>4 DEF SegmentInv, Building, UsableInv, Usable, SettledInv
<1>8. ASSUME NEW c \in Clients, Start(c) PROVE SegmentInv'
  <2>1. /\ pc[c] = 0 /\ pc' = [pc EXCEPT ![c] = 1] /\ UNCHANGED <<policy, name, content, mm, handle>>
        /\ c \in policy.waits => mm = 12
    BY <1>8, ManagerSteps DEF Start
  <2>2. pc'[c] = 1 /\ \A d \in Clients \ {c} : pc'[d] = pc[d]
    BY <1>1, <2>1
  <2>3. Building'
    BY <2>1 DEF SegmentInv, Building
  <2>4. \A i \in DOMAIN Script(c) : handle[c][i] = 0
    BY <2>1 DEF SegmentInv, SettledInv
  <2>5. UsableInv'
    <3>1. \A d \in Clients : \A i \in DOMAIN Script(d) : handle'[d][i] # 0 => d # c /\ pc'[d] = pc[d]
      BY <2>1, <2>2, <2>4
    <3> QED BY <2>1, <3>1 DEF SegmentInv, UsableInv, Usable
  <2>6. SettledInv'
    <3>1. \A d \in Clients : Settled(d)' = Settled(d)
      BY <2>1 DEF Settled
    <3>2. Settled(c) => mm = 12 /\ name["shm"] \in Objects /\ content[name["shm"]] = "filled"
      BY <2>1 DEF Settled, SegmentInv, Building
    <3>3. \A d \in Clients : pc'[d] = 0 => pc[d] = 0
      BY <2>1, <2>2
    <3>4. \A d \in Clients : d = c \/ pc'[d] = pc[d]
      BY <2>2
    <3> QED BY <2>1, <3>1, <3>2, <3>3, <3>4 DEF SegmentInv, SettledInv
  <2> QED BY <2>3, <2>5, <2>6 DEF SegmentInv
<1>9. ASSUME NEW c \in Clients, Receive(c) PROVE SegmentInv'
  <2>1. At(c, "receive") /\ Wanted(c) \in Queues /\ Wanted(c) \in Names
    <3>1. At(c, "receive")
      BY <1>9 DEF Receive
    <3> QED BY <3>1, AtStep, ScriptType DEF Wanted
  <2>2. UNCHANGED <<policy, content, mm>> /\ Wanted(c) # "shm"
    BY <1>9, <2>1 DEF Receive, Queues
  <2>3. \E o \in Objects \cup {0} : Holds(c, o) /\ name'["shm"] = name["shm"]
    BY <1>1, <1>9, <2>1, <2>2 DEF Receive
  <2> QED BY <2>1, <2>2, <2>3, HoldsSegment
<1>10. ASSUME NEW c \in Clients, OpenExisting(c) PROVE SegmentInv'
  <2>1. PICK op \in {"send", "map"} : At(c, op)
    BY <1>10 DEF OpenExisting
  <2>2. pc[c] # 0 /\ Wanted(c) \in Names
    BY <2>1, AtStep, LoopType
  <2>3. UNCHANGED <<policy, name, content, mm>> /\ name[Wanted(c)] \in Objects \cup {0}
    BY <1>1, <1>10, <2>2 DEF OpenExisting
  <2>4. CASE Holds(c, name[Wanted(c)])
    <3>1. op = "send" => Wanted(c) # "shm"
      BY <2>1, ScriptType DEF At, Wanted, Queues
    <3> QED BY <2>1, <2>2, <2>3, <2>4, <3>1, HoldsSegment
  <2>5. CASE Fails(c)
    BY <2>1, <2>2, <2>3, <2>5, LosesSegment
  <2> QED BY <1>10, <2>4, <2>5 DEF OpenExisting
<1>11. ASSUME NEW c \in Clients, Validate(c) PROVE SegmentInv'
  <2> DEFINE o == handle[c][pc[c] - 1]
  <2>1. At(c, "check") /\ UNCHANGED <<policy, name, content, mm>> /\ pc[c] # 0
    BY <1>11, AtStep, LoopType DEF Validate
  <2>2. /\ pc[c] - 1 \in DOMAIN Script(c) /\ Script(c)[pc[c] - 1].on = "shm" /\ Wanted(c) = "shm"
    BY <2>1, AtStep, ScriptType DEF Wanted
  <2>3. o \in Objects \cup {0}
    BY <2>2, LoopType DEF TypeOK
  <2>4. Ends(c) \/ Fails(c) \/ (Holds(c, o) /\ Usable(o))
    BY <1>11 DEF Validate, Usable
  <2>5. CASE Ends(c) \/ Fails(c)
    BY <2>1, <2>5, LosesSegment
  <2>6. CASE Holds(c, o) /\ Usable(o)
    <3> HIDE DEF o
    <3>1. o = handle[c][pc[c] - 1]
      BY DEF o
    <3> QED BY <2>1, <2>2, <2>3, <2>6, <3>1, HoldsSegment
  <2> QED BY <2>4, <2>5, <2>6
<1>12. ASSUME NEW c \in Clients, StopWithManager(c) PROVE SegmentInv'
  BY <1>12, LosesSegment DEF StopWithManager
<1>13. ASSUME NEW c \in Clients, Killed(c) PROVE SegmentInv'
  BY <1>13, LosesSegment DEF Killed
<1>14. CASE UNCHANGED vars
  BY <1>14 DEF vars, SegmentInv, Building, UsableInv, Usable, SettledInv, Settled
<1> QED BY <1>3, <1>4, <1>5, <1>6, <1>7, <1>8, <1>9, <1>10, <1>11, <1>12, <1>13, <1>14
        DEF Next, ManagerBoots, Boots

(* However processes are started, stopped and killed, none that runs uses a *)
(* segment without header and mutexes: what is checked is usable, what is   *)
(* attached is never built upon again, and a new segment is another object. *)
THEOREM AttachedUsable == Spec => []AttachedIsUsable
<1>1. Init => TypeOK /\ SegmentInv
  BY InitType, InitSegment
<1>2. TypeOK /\ SegmentInv /\ [Next]_vars => (TypeOK /\ SegmentInv)'
  BY NextType, NextSegment
<1>3. TypeOK /\ SegmentInv => AttachedIsUsable
  <2>1. \A c \in Clients : \A i \in DOMAIN Script(c) :
          Script(c)[i].op = "map" => i + 1 # Loop(c)
    BY ScriptType, LoopType DEF Loop
  <2> QED BY <2>1 DEF SegmentInv, UsableInv, Usable, SettledInv, AttachedIsUsable, Running
<1> QED BY <1>1, <1>2, <1>3, PTL DEF Spec
=============================================================================
