--------------------------- MODULE AtomicRegister ---------------------------
(***************************************************************************)
(* What a section of the shared memory (the map or the car table) promises *)
(* its users: shm_update_car, shm_set_edge_status and the other guarded    *)
(* writers change it in one indivisible step, and the snapshot that        *)
(* shm_read_map, shm_read_cars or shm_read_car returns is the whole of the *)
(* section at one instant.  Seqlock.tla is shown to implement this.        *)
(***************************************************************************)
CONSTANTS
  Readers,   (* Processes that take snapshots.                             *)
  Cells,     (* Words of the section: an update stores them one at a time. *)
  Values,    (* What a word may hold.                                      *)
  InitValue  (* What every word holds at start.                            *)

VARIABLES
  reg,       (* The content of the section.                                *)
  out        (* The last snapshot returned to each reader.                 *)

vars == <<reg, out>>

(* Store v in every word of S and leave the other words alone. *)
Overwrite(m, S, v) == [c \in Cells |-> IF c \in S THEN v ELSE m[c]]

Blank == [c \in Cells |-> InitValue]

Init == reg = Blank /\ out = [r \in Readers |-> Blank]

Write == /\ \E S \in SUBSET Cells, v \in Values : reg' = Overwrite(reg, S, v)
         /\ UNCHANGED out

Read(r) == /\ out' = [out EXCEPT ![r] = reg]
           /\ UNCHANGED reg

Next == Write \/ \E r \in Readers : Read(r)

Spec == Init /\ [][Next]_vars
=============================================================================
