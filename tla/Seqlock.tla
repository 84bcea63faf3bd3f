------------------------------- MODULE Seqlock -------------------------------
(***************************************************************************)
(* One guarded section of the shared memory: master/lib/ipc/seqlock.h with *)
(* the accessors of shm_manager.h that use it.  Writers take a robust      *)
(* process-shared mutex (ProcMutex), make the sequence number odd, store   *)
(* the words of their update one at a time, make it even and unlock.       *)
(* Readers wait for an even number, copy the words and keep the copy if    *)
(* the number has not moved.  ShmLayout holds two independent sections,    *)
(* map and cars; each is an instance of this module.                       *)
(***************************************************************************)
EXTENDS Naturals

CONSTANTS
  Writers,      (* Processes that update the section.                      *)
  Readers,      (* Processes that take snapshots of it.                    *)
  Cells,        (* Words of the section, in no particular order.           *)
  Values,       (* What a word may hold.                                   *)
  InitValue,    (* What every word holds at start.                         *)
  Free, Dead,   (* Mutex without owner; mutex whose owner died holding it. *)
  SeqMax,       (* Largest sequence number, 2^32 - 1 in the code.          *)
  InitSeq,      (* What the updates of the past have left in seq_.         *)
  MaxWrites,    (* Bound on the updates of a behaviour.                    *)
  MayCrash,     (* Can a writer be killed inside its critical section?     *)
  EarlyStores   (* Can a store of the update be seen before the store that *)
                (* makes the number odd?  A store-release does not forbid  *)
                (* it: it only orders what comes before it.                *)

ASSUME SectionAssumption == InitValue \in Values
ASSUME MutexAssumption   == Free \notin Writers /\ Dead \notin Writers /\ Free # Dead
ASSUME SeqMaxAssumption  == SeqMax \in Nat /\ SeqMax % 2 = 1
ASSUME InitSeqAssumption == InitSeq \in 0..SeqMax /\ InitSeq % 2 = 0
ASSUME BoundAssumption   == MaxWrites \in Nat
ASSUME FlagsAssumption   == MayCrash \in BOOLEAN /\ EarlyStores \in BOOLEAN

VARIABLES
  mutex,      (* Free, Dead or the writer that owns it.                    *)
  seq,        (* seq_, as its last writer left it.                         *)
  hidden,     (* TRUE while the odd number is not visible to the others.   *)
  mem,        (* The words of the section.                                 *)
  wpc, wset, todo, wval,   (* Per writer: place in the code, words of the  *)
                           (* update, those still to store, new value.     *)
  rpc, rseq, left, rbuf,   (* Per reader: place in the code, _seq, words   *)
                           (* still to copy, the copy.                     *)
  out,        (* The last snapshot returned to each reader.                *)
  age,        (* History: changes of seq_ since a reader began its copy.   *)
  writes,     (* Updates requested so far.                                 *)
  committed   (* History: the words as the last completed update left them.*)

wvars == <<wpc, wset, todo, wval>>
rvars == <<rpc, rseq, left, rbuf, out, age>>
vars  == <<mutex, seq, hidden, mem, wvars, rvars, writes, committed>>

Blank == [c \in Cells |-> InitValue]

(* Definitions named Mut... are mutants: plausible mistakes in the one that *)
(* follows them, which the properties must notice.                         *)

MutSucc(s) == s + 1   (* A number that does not wrap. *)

(* seq_ is a uint32_t: s + 1 wraps. *)
Succ(s) == IF s = SeqMax THEN 0 ELSE s + 1
Pred(s) == IF s = 0 THEN SeqMax ELSE s - 1

(* What another processor loads from seq_. *)
VisibleSeq == IF hidden THEN Pred(seq) ELSE seq

Init ==
  /\ mutex = Free /\ seq = InitSeq /\ hidden = FALSE
  /\ mem = Blank /\ committed = Blank
  /\ wpc = [w \in Writers |-> "idle"]
  /\ wset = [w \in Writers |-> {}] /\ todo = [w \in Writers |-> {}]
  /\ wval = [w \in Writers |-> InitValue]
  /\ rpc = [r \in Readers |-> "idle"]
  /\ rseq = [r \in Readers |-> 0] /\ left = [r \in Readers |-> {}]
  /\ rbuf = [r \in Readers |-> Blank] /\ out = [r \in Readers |-> Blank]
  /\ age = [r \in Readers |-> 0]
  /\ writes = 0

-----------------------------------------------------------------------------
(* Writers: SeqlockMWWriteGuard around the assignment of an accessor. *)

WriterAt(w, from, to) == wpc[w] = from /\ wpc' = [wpc EXCEPT ![w] = to]

(* An accessor is called with the words S and the value v. *)
Request(w, S, v) ==
  /\ WriterAt(w, "idle", "waiting")
  /\ writes < MaxWrites /\ writes' = writes + 1
  /\ wset' = [wset EXCEPT ![w] = S] /\ todo' = [todo EXCEPT ![w] = S]
  /\ wval' = [wval EXCEPT ![w] = v]
  /\ UNCHANGED <<mutex, seq, hidden, mem, rvars, committed>>

(* The mutex is not waited for. *)
MutLock(w) ==
  /\ WriterAt(w, "waiting", "locked")
  /\ mutex' = w
  /\ UNCHANGED <<seq, hidden, mem, wset, todo, wval, rvars, writes, committed>>

(* EOWNERDEAD is taken for a failure. *)
MutLockOnlyFree(w) ==
  /\ WriterAt(w, "waiting", "locked")
  /\ mutex = Free /\ mutex' = w
  /\ UNCHANGED <<seq, hidden, mem, wset, todo, wval, rvars, writes, committed>>

(* ProcMutex::lock: EOWNERDEAD is answered with pthread_mutex_consistent, *)
(* which repairs the mutex and looks at neither seq_ nor the data.        *)
Lock(w) ==
  /\ WriterAt(w, "waiting", "locked")
  /\ mutex \in {Free, Dead} /\ mutex' = w
  /\ UNCHANGED <<seq, hidden, mem, wset, todo, wval, rvars, writes, committed>>

(* The number changes: the copies under way get older. *)
Advance ==
  /\ seq' = Succ(seq)
  /\ age' = [r \in Readers |-> IF rpc[r] = "copying" THEN age[r] + 1 ELSE 0]
  /\ UNCHANGED <<rpc, rseq, left, rbuf, out>>

WriteBegin(w) ==
  /\ WriterAt(w, "locked", "writing")
  /\ Advance
  /\ hidden' \in (IF EarlyStores THEN BOOLEAN ELSE {FALSE})
  /\ UNCHANGED <<mutex, mem, wset, todo, wval, writes, committed>>

(* The store of write_begin leaves the store buffer. *)
SeqSeen ==
  /\ hidden /\ hidden' = FALSE
  /\ UNCHANGED <<mutex, seq, mem, wvars, rvars, writes, committed>>

StoreCell(w, c) ==
  /\ wpc[w] = "writing" /\ c \in todo[w]
  /\ mem' = [mem EXCEPT ![c] = wval[w]]
  /\ todo' = [todo EXCEPT ![w] = @ \ {c}]
  /\ UNCHANGED <<mutex, seq, hidden, wpc, wset, wval, rvars, writes, committed>>

(* A store-release: everything the writer stored before it is visible. *)
WriteEnd(w) ==
  /\ WriterAt(w, "writing", "written")
  /\ todo[w] = {} /\ ~hidden
  /\ Advance
  /\ committed' = mem
  /\ UNCHANGED <<mutex, hidden, mem, wset, todo, wval, writes>>

(* The destructor of the guard forgets the mutex. *)
MutUnlock(w) ==
  /\ WriterAt(w, "written", "idle")
  /\ UNCHANGED <<mutex, seq, hidden, mem, wset, todo, wval, rvars, writes, committed>>

Unlock(w) ==
  /\ WriterAt(w, "written", "idle")
  /\ mutex' = Free
  /\ UNCHANGED <<seq, hidden, mem, wset, todo, wval, rvars, writes, committed>>

(* The owner is killed; systemd starts it again without its old state. *)
Crash(w) ==
  /\ MayCrash /\ mutex = w
  /\ mutex' = Dead /\ hidden' = FALSE
  /\ wpc' = [wpc EXCEPT ![w] = "idle"]
  /\ UNCHANGED <<seq, mem, wset, todo, wval, rvars, writes, committed>>

-----------------------------------------------------------------------------
(* Readers: SEQLOCK_READ around the copy of an accessor. *)

Call(r) ==
  /\ rpc[r] = "idle" /\ rpc' = [rpc EXCEPT ![r] = "begin"]
  /\ UNCHANGED <<mutex, seq, hidden, mem, wvars, rseq, left, rbuf, out, age, writes, committed>>

(* An odd number is not waited out. *)
MutReadBegin(r) ==
  /\ rpc[r] = "begin" /\ rpc' = [rpc EXCEPT ![r] = "copying"]
  /\ rseq' = [rseq EXCEPT ![r] = VisibleSeq]
  /\ left' = [left EXCEPT ![r] = Cells]
  /\ UNCHANGED <<mutex, seq, hidden, mem, wvars, rbuf, out, age, writes, committed>>

(* read_begin: spins (the action stays disabled) while the number is odd. *)
ReadBegin(r) ==
  /\ rpc[r] = "begin" /\ VisibleSeq % 2 = 0
  /\ rpc' = [rpc EXCEPT ![r] = "copying"]
  /\ rseq' = [rseq EXCEPT ![r] = VisibleSeq]
  /\ left' = [left EXCEPT ![r] = Cells]
  /\ UNCHANGED <<mutex, seq, hidden, mem, wvars, rbuf, out, age, writes, committed>>

(* The copy is not atomic: it may run while a writer stores. *)
CopyCell(r, c) ==
  /\ rpc[r] = "copying" /\ c \in left[r]
  /\ rbuf' = [rbuf EXCEPT ![r][c] = mem[c]]
  /\ left' = [left EXCEPT ![r] = @ \ {c}]
  /\ UNCHANGED <<mutex, seq, hidden, mem, wvars, rpc, rseq, out, age, writes, committed>>

(* The numbers are not compared. *)
MutReadEnd(r) ==
  /\ rpc[r] = "copying" /\ left[r] = {}
  /\ rpc' = [rpc EXCEPT ![r] = "idle"] /\ out' = [out EXCEPT ![r] = rbuf[r]]
  /\ age' = [age EXCEPT ![r] = 0]
  /\ UNCHANGED <<mutex, seq, hidden, mem, wvars, rseq, left, rbuf, writes, committed>>

(* The loop is not left after a copy that is good. *)
MutReadEndless(r) ==
  /\ rpc[r] = "copying" /\ left[r] = {}
  /\ rpc' = [rpc EXCEPT ![r] = "begin"] /\ age' = [age EXCEPT ![r] = 0]
  /\ UNCHANGED <<mutex, seq, hidden, mem, wvars, rseq, left, rbuf, out, writes, committed>>

(* read_end: return the copy if the number is the same, else start again. *)
ReadEnd(r) ==
  /\ rpc[r] = "copying" /\ left[r] = {}
  /\ IF VisibleSeq = rseq[r]
       THEN rpc' = [rpc EXCEPT ![r] = "idle"] /\ out' = [out EXCEPT ![r] = rbuf[r]]
       ELSE rpc' = [rpc EXCEPT ![r] = "begin"] /\ UNCHANGED out
  /\ age' = [age EXCEPT ![r] = 0]
  /\ UNCHANGED <<mutex, seq, hidden, mem, wvars, rseq, left, rbuf, writes, committed>>

-----------------------------------------------------------------------------
WriterStep(w) ==
  \/ Lock(w) \/ WriteBegin(w) \/ WriteEnd(w) \/ Unlock(w)
  \/ \E c \in Cells : StoreCell(w, c)

ReaderStep(r) == ReadBegin(r) \/ ReadEnd(r) \/ \E c \in Cells : CopyCell(r, c)

Next ==
  \/ \E w \in Writers, S \in SUBSET Cells, v \in Values : Request(w, S, v)
  \/ \E w \in Writers : WriterStep(w) \/ Crash(w)
  \/ \E r \in Readers : Call(r) \/ ReaderStep(r)
  \/ SeqSeen

Spec == Init /\ [][Next]_vars

(* Every process that has something to do is scheduled; a store does not   *)
(* stay in the store buffer.  Nobody is obliged to call an accessor.       *)
Fairness == /\ \A w \in Writers : WF_vars(WriterStep(w))
            /\ \A r \in Readers : WF_vars(ReaderStep(r))
            /\ WF_vars(SeqSeen)

FairSpec == Spec /\ Fairness

-----------------------------------------------------------------------------
InCritical(w) == wpc[w] \in {"locked", "writing", "written"}

TypeOK ==
  /\ mutex \in Writers \cup {Free, Dead}
  /\ seq \in 0..SeqMax /\ hidden \in BOOLEAN
  /\ mem \in [Cells -> Values] /\ committed \in [Cells -> Values]
  /\ wpc \in [Writers -> {"idle", "waiting", "locked", "writing", "written"}]
  /\ wset \in [Writers -> SUBSET Cells] /\ todo \in [Writers -> SUBSET Cells]
  /\ wval \in [Writers -> Values]
  /\ rpc \in [Readers -> {"idle", "begin", "copying"}]
  /\ rseq \in [Readers -> 0..SeqMax] /\ left \in [Readers -> SUBSET Cells]
  /\ rbuf \in [Readers -> [Cells -> Values]] /\ out \in [Readers -> [Cells -> Values]]
  /\ age \in [Readers -> Nat]
  /\ writes \in 0..MaxWrites

(* At most one process is between lock and unlock, also after a writer was *)
(* killed there and the mutex was taken over (seqlock.h:83-84, 102-110).   *)
WriterExclusion ==
  \A v, w \in Writers : InCritical(v) /\ InCritical(w) => v = w

(* Updates are indivisible and snapshots whole: the section behaves as an  *)
(* atomic register whose content changes at write_end (seqlock.h:9-14).    *)
Register == INSTANCE AtomicRegister WITH reg <- committed
SnapshotsAreAtomic == Register!Spec

(* A snapshot is only returned when no update is under way: the number a   *)
(* reader finds unchanged is not one a writer is working under.            *)
NoReadDuringUpdate ==
  [][\A r \in Readers : out'[r] # out[r] => \A w \in Writers : wpc[w] # "writing"]_vars

(* A reader that asked for a snapshot gets one, if the updates stop and    *)
(* leave the mutex free (seqlock.h:18 accepts retries while they go on;    *)
(* free means that the mutex of a killed owner has been taken over).       *)
ReadsReturn ==
  <>[](mutex = Free) => \A r \in Readers : rpc[r] = "begin" ~> rpc[r] = "idle"

(* A writer waiting for the mutex gets it, even if its owner was killed.   *)
WritersNotStuck == \A w \in Writers : wpc[w] = "waiting" ~> wpc[w] # "waiting"
=============================================================================
