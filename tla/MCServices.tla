----------------------------- MODULE MCServices -----------------------------
EXTENDS Services

Policy(waits, restarted, refused, leftover, ofManager, ofClients) ==
  [waits |-> waits, restarted |-> restarted, refused |-> refused, leftover |-> leftover,
   kills |-> [manager |-> ofManager, clients |-> ofClients]]

(* By hand, all under one user: every process when model_manager is ready,  *)
(* and all of them again after it.  Or, on a machine without names from an  *)
(* earlier run, only those wait that create queues, and model_manager is    *)
(* not ended.                                                               *)
MCByHand == {Policy(Clients, Clients, {}, TRUE, 1, 1), Policy(Receivers, {}, {}, FALSE, 0, 1)}

(* The units of systemd: nothing waits, planner and router go down with     *)
(* model_manager, and the services run as www-data.                         *)
Units(leftover, ofManager, ofClients) ==
  {Policy({}, Clients \cap {"planner", "router"}, Clients \cap {"Task", "Topo", "Status"},
          leftover, ofManager, ofClients)}

(* A first start without any failure, and what may come later.              *)
MCSystemd == Units(FALSE, 0, 0)
MCSystemdFails == Units(TRUE, 1, 0)

MCBoth == MCByHand \cup MCSystemdFails
=============================================================================
