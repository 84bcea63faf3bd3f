------------------------------ MODULE PrioQueue ------------------------------
(***************************************************************************)
(* A POSIX message queue as master/lib/ipc/mq_wrapper.h uses it: both ends *)
(* are opened O_NONBLOCK, a receiver gets the oldest message of the        *)
(* highest priority, and a message sent to a full queue is dropped: send   *)
(* returns FALSE, and no caller looks at it.  kPrioLow is never used.      *)
(***************************************************************************)
EXTENDS Naturals, Sequences

Prios == {"kPrioNormal", "kPrioHigh"}

Queues(Msgs) == [Prios -> Seq(Msgs)]

EmptyQueue == [p \in Prios |-> <<>>]

Size(q) == Len(q["kPrioNormal"]) + Len(q["kPrioHigh"])

(* The queue after mq_send of m with priority p to a queue of cap messages. *)
Sent(q, cap, p, m) ==
  IF Size(q) < cap THEN [q EXCEPT ![p] = Append(@, m)] ELSE q

TopPrio(q) == IF q["kPrioHigh"] # <<>> THEN "kPrioHigh" ELSE "kPrioNormal"

HasMessage(q) == q[TopPrio(q)] # <<>>

(* What mq_receive returns from a queue with a message, and what it leaves. *)
Received(q)  == Head(q[TopPrio(q)])
Remaining(q) == [q EXCEPT ![TopPrio(q)] = Tail(@)]
=============================================================================
