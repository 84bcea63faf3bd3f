---------------------------- MODULE SeqlockProofs ----------------------------
(***************************************************************************)
(* Proofs about Seqlock, for any number of writers, readers and words.     *)
(*                                                                         *)
(* MutualExclusion needs nothing: it holds when writers are killed and     *)
(* when stores are seen early.  Atomicity (the section implements          *)
(* AtomicRegister) holds when neither happens and no copy lasts as long as *)
(* it takes the 32-bit number to come round again; the counterexamples of  *)
(* the violation runs show that each of the first two conditions is needed.*)
(* ReadsAreQuiet (no snapshot is returned while a writer stores) needs     *)
(* only the first two.                                                     *)
(***************************************************************************)
EXTENDS Seqlock, TLAPS

-----------------------------------------------------------------------------
(* Types. *)

LEMMA BlankType == Blank \in [Cells -> Values]
BY SectionAssumption DEF Blank

LEMMA InitTypeOK == Init => TypeOK
<1> SUFFICES ASSUME Init PROVE TypeOK
  OBVIOUS
<1>1. seq \in 0..SeqMax /\ writes \in 0..MaxWrites /\ rseq \in [Readers -> 0..SeqMax]
  BY SeqMaxAssumption, InitSeqAssumption, BoundAssumption DEF Init
<1>2. /\ mem \in [Cells -> Values] /\ committed \in [Cells -> Values]
      /\ rbuf \in [Readers -> [Cells -> Values]] /\ out \in [Readers -> [Cells -> Values]]
  BY BlankType DEF Init
<1>3. QED
  BY <1>1, <1>2, SectionAssumption DEF Init, TypeOK

LEMMA SuccType == ASSUME NEW s \in 0..SeqMax PROVE Succ(s) \in 0..SeqMax
BY SeqMaxAssumption DEF Succ

LEMMA VisibleType == TypeOK => VisibleSeq \in 0..SeqMax
BY SeqMaxAssumption DEF TypeOK, VisibleSeq, Pred

(* Every step keeps every variable in its type. *)
LEMMA NextTypeOK == TypeOK /\ [Next]_vars => TypeOK'
<1> SUFFICES ASSUME TypeOK, [Next]_vars PROVE TypeOK'
  OBVIOUS
<1> USE DEF TypeOK
<1>1. ASSUME NEW w \in Writers, NEW S \in SUBSET Cells, NEW v \in Values, Request(w, S, v)
      PROVE  TypeOK'
  BY <1>1, BoundAssumption DEF Request, WriterAt, rvars
<1>2. ASSUME NEW w \in Writers, Lock(w) PROVE TypeOK'
  BY <1>2 DEF Lock, WriterAt, rvars
<1>3. ASSUME NEW w \in Writers, WriteBegin(w) PROVE TypeOK'
  <2>1. seq' \in 0..SeqMax /\ age' \in [Readers -> Nat]
    BY <1>3, SuccType DEF WriteBegin, Advance
  <2>2. hidden' \in BOOLEAN
    BY <1>3, Zenon DEF WriteBegin
  <2> QED BY <2>1, <2>2, <1>3 DEF WriteBegin, WriterAt, Advance
<1>4. ASSUME NEW w \in Writers, WriteEnd(w) PROVE TypeOK'
  <2>1. seq' \in 0..SeqMax /\ age' \in [Readers -> Nat]
    BY <1>4, SuccType DEF WriteEnd, Advance
  <2> QED BY <2>1, <1>4 DEF WriteEnd, WriterAt, Advance
<1>5. ASSUME NEW w \in Writers, Unlock(w) PROVE TypeOK'
  BY <1>5 DEF Unlock, WriterAt, rvars
<1>6. ASSUME NEW w \in Writers, NEW c \in Cells, StoreCell(w, c) PROVE TypeOK'
  BY <1>6 DEF StoreCell, rvars
<1>7. ASSUME NEW w \in Writers, Crash(w) PROVE TypeOK'
  BY <1>7 DEF Crash, rvars
<1>8. ASSUME NEW r \in Readers, Call(r) PROVE TypeOK'
  BY <1>8 DEF Call, wvars
<1>9. ASSUME NEW r \in Readers, ReadBegin(r) PROVE TypeOK'
  BY <1>9, VisibleType DEF ReadBegin, wvars
<1>10. ASSUME NEW r \in Readers, NEW c \in Cells, CopyCell(r, c) PROVE TypeOK'
  BY <1>10 DEF CopyCell, wvars
<1>11. ASSUME NEW r \in Readers, ReadEnd(r) PROVE TypeOK'
  BY <1>11 DEF ReadEnd, wvars
<1>12. CASE SeqSeen
  BY <1>12 DEF SeqSeen, wvars, rvars
<1>13. CASE UNCHANGED vars
  BY <1>13 DEF vars, wvars, rvars
<1>14. QED
  BY <1>1, <1>2, <1>3, <1>4, <1>5, <1>6, <1>7, <1>8, <1>9, <1>10, <1>11, <1>12, <1>13
     DEF Next, WriterStep, ReaderStep

(* Every variable keeps its type, for any writers, readers, words and      *)
(* wrap-around: the guard and the read loop of seqlock.h index nothing else.*)
THEOREM Typing == Spec => []TypeOK
BY InitTypeOK, NextTypeOK, PTL DEF Spec

-----------------------------------------------------------------------------
(* Mutual exclusion: the owner of the mutex is the process that is between *)
(* lock and unlock.                                                        *)

OwnerIsInside == \A w \in Writers : InCritical(w) <=> mutex = w

LEMMA NextOwner == TypeOK /\ OwnerIsInside /\ [Next]_vars => OwnerIsInside'
<1> SUFFICES ASSUME TypeOK, OwnerIsInside, [Next]_vars PROVE OwnerIsInside'
  OBVIOUS
<1> USE MutexAssumption DEF TypeOK, OwnerIsInside, InCritical
<1>1. ASSUME NEW w \in Writers, NEW S \in SUBSET Cells, NEW v \in Values, Request(w, S, v)
      PROVE  OwnerIsInside'
  BY <1>1 DEF Request, WriterAt
<1>2. ASSUME NEW w \in Writers, Lock(w) PROVE OwnerIsInside'
  BY <1>2 DEF Lock, WriterAt
<1>3. ASSUME NEW w \in Writers, WriteBegin(w) PROVE OwnerIsInside'
  BY <1>3 DEF WriteBegin, WriterAt
<1>4. ASSUME NEW w \in Writers, WriteEnd(w) PROVE OwnerIsInside'
  BY <1>4 DEF WriteEnd, WriterAt
<1>5. ASSUME NEW w \in Writers, Unlock(w) PROVE OwnerIsInside'
  BY <1>5 DEF Unlock, WriterAt
<1>6. ASSUME NEW w \in Writers, NEW c \in Cells, StoreCell(w, c) PROVE OwnerIsInside'
  BY <1>6 DEF StoreCell
<1>7. ASSUME NEW w \in Writers, Crash(w) PROVE OwnerIsInside'
  BY <1>7 DEF Crash
<1>8. ASSUME UNCHANGED <<mutex, wpc>> PROVE OwnerIsInside'
  BY <1>8
<1>9. QED
  BY <1>1, <1>2, <1>3, <1>4, <1>5, <1>6, <1>7, <1>8
     DEF Next, WriterStep, ReaderStep, Call, ReadBegin, CopyCell, ReadEnd, SeqSeen, vars, wvars

(* No two writers are ever inside the critical section, whatever is killed *)
(* or reordered (ProcMutex, seqlock.h:83-84).                              *)
THEOREM MutualExclusion == Spec => []WriterExclusion
<1>1. Init => OwnerIsInside
  BY MutexAssumption DEF Init, OwnerIsInside, InCritical
<1>2. OwnerIsInside => WriterExclusion
  BY DEF OwnerIsInside, WriterExclusion
<1>3. QED
  BY <1>1, <1>2, NextOwner, Typing, PTL DEF Spec

-----------------------------------------------------------------------------
(* Atomicity, when nobody is killed, stores are seen in order and no copy  *)
(* lasts too long.                                                         *)

Quiet == \A w \in Writers : wpc[w] # "writing"

(* The number is odd exactly while a writer stores. *)
Parity == ~hidden /\ mutex # Dead /\ (seq % 2 = 0 <=> Quiet)

(* Between updates the words are the committed ones; during an update they *)
(* are the committed ones with the part of the update stored so far.       *)
StoredSoFar ==
  /\ Quiet => mem = committed
  /\ \A w \in Writers :
       /\ todo[w] \subseteq wset[w]
       /\ wpc[w] \in {"waiting", "locked"} => todo[w] = wset[w]
       /\ wpc[w] = "writing" => mem = Register!Overwrite(committed, wset[w] \ todo[w], wval[w])

(* How many changes lead from number a to number b, coming round if need be. *)
Distance(a, b) == IF a <= b THEN b - a ELSE b - a + SeqMax + 1

(* What a reader has copied while the number did not change is what is     *)
(* there, and age tells how far the number is from the one it has read.    *)
CopiedSoFar ==
  \A r \in Readers : IF rpc[r] # "copying" THEN age[r] = 0 ELSE
    /\ rseq[r] % 2 = 0
    /\ age[r] <= SeqMax => age[r] = Distance(rseq[r], seq)
    /\ age[r] = 0 => \A c \in Cells \ left[r] : rbuf[r][c] = mem[c]

AtomicInv == TypeOK /\ OwnerIsInside /\ Parity /\ StoredSoFar /\ CopiedSoFar

(* No copy is under way while the number comes round: 2^31 updates.        *)
NotOvertaken == \A r \in Readers : rpc[r] = "copying" => age[r] <= SeqMax

LEMMA InitAtomic == Init => AtomicInv
<1> SUFFICES ASSUME Init PROVE AtomicInv
  OBVIOUS
<1>1. TypeOK
  BY InitTypeOK
<1>2. OwnerIsInside /\ Parity /\ StoredSoFar /\ CopiedSoFar
  BY MutexAssumption, InitSeqAssumption
     DEF Init, OwnerIsInside, InCritical, Parity, Quiet, StoredSoFar, CopiedSoFar
<1>3. QED
  BY <1>1, <1>2 DEF AtomicInv

LEMMA SuccParity ==
  ASSUME NEW s \in 0..SeqMax
  PROVE  Succ(s) % 2 = 0 <=> s % 2 # 0
BY SeqMaxAssumption DEF Succ

(* A change of the number adds one to its distance from every other number, *)
(* until it has come round.                                                *)
LEMMA DistanceStep ==
  ASSUME NEW a \in 0..SeqMax, NEW b \in 0..SeqMax, Distance(a, b) < SeqMax
  PROVE  Distance(a, Succ(b)) = Distance(a, b) + 1
BY SeqMaxAssumption DEF Distance, Succ

LEMMA DistanceZero ==
  ASSUME NEW a \in 0..SeqMax, NEW b \in 0..SeqMax, Distance(a, b) = 0
  PROVE  a = b
BY SeqMaxAssumption DEF Distance

(* Only the owner of the mutex stores, so a writer that begins or ends its *)
(* stores is the only one that could be storing.                           *)
LEMMA OnlyOwnerWrites ==
  ASSUME TypeOK, OwnerIsInside, NEW w \in Writers, InCritical(w),
         NEW v \in Writers, wpc[v] = "writing"
  PROVE  v = w
BY DEF OwnerIsInside, InCritical

(* A reader that is copying when the number moves will not keep its copy. *)
LEMMA StaleCopy ==
  ASSUME TypeOK, CopiedSoFar, Advance
  PROVE  CopiedSoFar'
<1> SUFFICES ASSUME NEW r \in Readers, rpc[r] = "copying"
             PROVE  /\ rseq[r] % 2 = 0
                    /\ age'[r] <= SeqMax => age'[r] = Distance(rseq[r], seq')
                    /\ age'[r] # 0
  BY DEF CopiedSoFar, Advance
<1>1. /\ rseq[r] \in 0..SeqMax /\ seq \in 0..SeqMax /\ age[r] \in Nat /\ SeqMax \in Nat
      /\ age'[r] = age[r] + 1 /\ seq' = Succ(seq)
  BY SeqMaxAssumption DEF TypeOK, Advance
<1>2. rseq[r] % 2 = 0
  BY DEF CopiedSoFar
<1>3. ASSUME age[r] + 1 <= SeqMax PROVE age[r] + 1 = Distance(rseq[r], Succ(seq))
  <2>1. age[r] = Distance(rseq[r], seq) /\ age[r] < SeqMax
    BY <1>1, <1>3 DEF CopiedSoFar
  <2> QED BY <1>1, <2>1, DistanceStep
<1>4. QED
  BY <1>1, <1>2, <1>3

LEMMA NextAtomic ==
  ASSUME ~MayCrash, ~EarlyStores, AtomicInv, [Next]_vars
  PROVE  AtomicInv'
<1>0. TypeOK' /\ OwnerIsInside'
  BY NextTypeOK, NextOwner DEF AtomicInv
<1> SUFFICES Parity' /\ StoredSoFar' /\ CopiedSoFar'
  BY <1>0 DEF AtomicInv
<1> USE DEF AtomicInv, TypeOK
<1>1. ASSUME NEW w \in Writers, NEW S \in SUBSET Cells, NEW v \in Values, Request(w, S, v)
      PROVE  Parity' /\ StoredSoFar' /\ CopiedSoFar'
  <2> USE <1>1 DEF Request, WriterAt, rvars
  <2>1. Quiet' <=> Quiet
    BY DEF Quiet
  <2>2. QED
    BY <2>1 DEF Parity, StoredSoFar, CopiedSoFar
<1>2. ASSUME NEW w \in Writers, Lock(w)
      PROVE  Parity' /\ StoredSoFar' /\ CopiedSoFar'
  <2> USE <1>2 DEF Lock, WriterAt, rvars
  <2>1. Quiet' <=> Quiet
    BY DEF Quiet
  <2>2. QED
    BY <2>1, MutexAssumption DEF Parity, StoredSoFar, CopiedSoFar
<1>3. ASSUME NEW w \in Writers, WriteBegin(w)
      PROVE  Parity' /\ StoredSoFar' /\ CopiedSoFar'
  <2> USE <1>3 DEF WriteBegin, WriterAt, Advance
  <2>1. Quiet /\ ~Quiet'
    BY OnlyOwnerWrites DEF Quiet, InCritical
  <2>2. seq' % 2 # 0
    BY <2>1, SuccParity DEF Parity, Advance
  <2>3. Parity'
    BY <2>1, <2>2 DEF Parity
  <2>4. StoredSoFar'
    <3>1. mem' = Register!Overwrite(committed', wset'[w] \ todo'[w], wval'[w])
      BY <2>1 DEF StoredSoFar, Register!Overwrite
    <3>2. \A v \in Writers : wpc'[v] = "writing" => v = w
      BY <2>1 DEF Quiet
    <3>3. QED
      BY <2>1, <3>1, <3>2 DEF StoredSoFar
  <2>5. CopiedSoFar'
    BY StaleCopy
  <2>6. QED
    BY <2>3, <2>4, <2>5
<1>4. ASSUME NEW w \in Writers, WriteEnd(w)
      PROVE  Parity' /\ StoredSoFar' /\ CopiedSoFar'
  <2> USE <1>4 DEF WriteEnd, WriterAt, Advance
  <2>1. ~Quiet /\ Quiet'
    BY OnlyOwnerWrites DEF Quiet, InCritical
  <2>2. seq' % 2 = 0
    BY <2>1, SuccParity DEF Parity, Advance
  <2>3. Parity' /\ StoredSoFar'
    BY <2>1, <2>2 DEF Parity, StoredSoFar, Quiet
  <2>4. CopiedSoFar'
    BY StaleCopy
  <2>5. QED
    BY <2>3, <2>4
<1>5. ASSUME NEW w \in Writers, Unlock(w)
      PROVE  Parity' /\ StoredSoFar' /\ CopiedSoFar'
  <2> USE <1>5 DEF Unlock, WriterAt, rvars
  <2>1. Quiet' <=> Quiet
    BY DEF Quiet
  <2>2. QED
    BY <2>1, MutexAssumption DEF Parity, StoredSoFar, CopiedSoFar
<1>6. ASSUME NEW w \in Writers, NEW c \in Cells, StoreCell(w, c)
      PROVE  Parity' /\ StoredSoFar' /\ CopiedSoFar'
  <2> USE <1>6 DEF StoreCell, rvars
  <2>1. ~Quiet /\ seq % 2 # 0 /\ Quiet' = Quiet
    BY DEF Quiet, Parity
  <2>2. StoredSoFar'
    <3>1. mem' = Register!Overwrite(committed', wset'[w] \ todo'[w], wval'[w])
      BY DEF StoredSoFar, Register!Overwrite
    <3>2. \A v \in Writers : wpc'[v] = "writing" => v = w
      BY OnlyOwnerWrites DEF InCritical
    <3>3. \A v \in Writers : /\ todo'[v] \subseteq wset'[v]
                            /\ wpc'[v] \in {"waiting", "locked"} => todo'[v] = wset'[v]
      BY DEF StoredSoFar
    <3>4. QED
      BY <2>1, <3>1, <3>2, <3>3 DEF StoredSoFar
  <2>3. CopiedSoFar'
    <3>1. \A r \in Readers : rpc[r] = "copying" => age[r] # 0
      <4> SUFFICES ASSUME NEW r \in Readers, rpc[r] = "copying", age[r] = 0
                   PROVE  FALSE
        OBVIOUS
      <4>1. rseq[r] % 2 = 0 /\ Distance(rseq[r], seq) = 0
        BY SeqMaxAssumption DEF CopiedSoFar
      <4>2. rseq[r] = seq
        <5>1. rseq[r] \in 0..SeqMax /\ seq \in 0..SeqMax
          OBVIOUS
        <5> QED BY <4>1, <5>1, DistanceZero
      <4> QED BY <4>1, <4>2, <2>1
    <3> QED BY <3>1 DEF CopiedSoFar
  <2>4. QED
    BY <2>1, <2>2, <2>3 DEF Parity
<1>7. ASSUME NEW w \in Writers, Crash(w)
      PROVE  Parity' /\ StoredSoFar' /\ CopiedSoFar'
  BY <1>7 DEF Crash
<1>8. ASSUME NEW r \in Readers, Call(r)
      PROVE  Parity' /\ StoredSoFar' /\ CopiedSoFar'
  BY <1>8 DEF Call, wvars, Parity, StoredSoFar, CopiedSoFar, Quiet
<1>9. ASSUME NEW r \in Readers, ReadBegin(r)
      PROVE  Parity' /\ StoredSoFar' /\ CopiedSoFar'
  <2> USE <1>9 DEF ReadBegin, wvars
  <2>1. VisibleSeq = seq
    BY DEF VisibleSeq, Parity
  <2>2. seq \in Nat
    BY SeqMaxAssumption
  <2>3. \A q \in Readers : q # r => /\ rpc'[q] = rpc[q] /\ rseq'[q] = rseq[q]
                                   /\ left'[q] = left[q]
    OBVIOUS
  <2>4. rseq'[r] = seq /\ seq % 2 = 0 /\ left'[r] = Cells
    BY <2>1
  <2>5. age[r] = 0 /\ Distance(seq, seq) = 0
    BY <2>2 DEF CopiedSoFar, Distance
  <2>6. ASSUME NEW q \in Readers, rpc'[q] = "copying"
        PROVE  /\ rseq'[q] % 2 = 0
               /\ age'[q] <= SeqMax => age'[q] = Distance(rseq'[q], seq)
               /\ age'[q] = 0 => \A c \in Cells \ left'[q] : rbuf[q][c] = mem[c]
    <3>1. CASE q = r
      BY <2>2, <2>4, <2>5, <3>1
    <3>2. CASE q # r
      BY <2>3, <2>6, <3>2 DEF CopiedSoFar
    <3>3. QED
      BY <3>1, <3>2
  <2>7. CopiedSoFar'
    BY <2>6, <2>3 DEF CopiedSoFar
  <2>8. QED
    BY <2>7 DEF Parity, StoredSoFar, Quiet
<1>10. ASSUME NEW r \in Readers, NEW c \in Cells, CopyCell(r, c)
      PROVE  Parity' /\ StoredSoFar' /\ CopiedSoFar'
  <2> USE <1>10 DEF CopyCell, wvars
  <2>1. CopiedSoFar'
    BY DEF CopiedSoFar
  <2>2. QED
    BY <2>1 DEF Parity, StoredSoFar, Quiet
<1>11. ASSUME NEW r \in Readers, ReadEnd(r)
      PROVE  Parity' /\ StoredSoFar' /\ CopiedSoFar'
  <2> USE <1>11 DEF ReadEnd, wvars
  <2>1. age'[r] = 0 /\ rpc'[r] # "copying"
    OBVIOUS
  <2>2. \A q \in Readers : q # r => age'[q] = age[q] /\ rpc'[q] = rpc[q]
    OBVIOUS
  <2>3. CopiedSoFar'
    BY <2>1, <2>2 DEF CopiedSoFar
  <2>4. QED
    BY <2>3 DEF Parity, StoredSoFar, Quiet
<1>12. CASE SeqSeen
  BY <1>12 DEF SeqSeen, Parity
<1>13. CASE UNCHANGED vars
  BY <1>13 DEF vars, wvars, rvars, Parity, StoredSoFar, CopiedSoFar, Quiet
<1>14. QED
  BY <1>1, <1>2, <1>3, <1>4, <1>5, <1>6, <1>7, <1>8, <1>9, <1>10, <1>11, <1>12, <1>13
     DEF Next, WriterStep, ReaderStep

(* An update takes effect at write_end, a snapshot at the read_end that    *)
(* keeps it; every other step is invisible to the users of the section.    *)
LEMMA StepIsAtomic ==
  ASSUME ~MayCrash, ~EarlyStores, AtomicInv, NotOvertaken, [Next]_vars
  PROVE  [Register!Next]_(Register!vars)
<1> USE DEF AtomicInv, TypeOK
<1>1. ASSUME NEW w \in Writers, WriteEnd(w) PROVE Register!Write
  <2> USE <1>1 DEF WriteEnd, WriterAt, Advance
  <2>1. wset[w] \ todo[w] = wset[w]
    OBVIOUS
  <2>2. committed' = Register!Overwrite(committed, wset[w], wval[w])
    BY <2>1 DEF StoredSoFar
  <2>3. QED
    BY <2>2 DEF Register!Write
<1>2. ASSUME NEW r \in Readers, ReadEnd(r), out' # out PROVE Register!Read(r)
  <2> USE <1>2 DEF ReadEnd, wvars
  <2>1. rseq[r] = seq /\ Quiet
    BY DEF VisibleSeq, Parity, CopiedSoFar
  <2>2. age[r] = 0
    <3>1. age[r] = Distance(rseq[r], seq)
      BY DEF CopiedSoFar, NotOvertaken
    <3> QED BY <2>1, <3>1, SeqMaxAssumption DEF Distance
  <2>3. \A c \in Cells : rbuf[r][c] = mem[c]
    BY <2>2 DEF CopiedSoFar
  <2>4. rbuf[r] = committed
    BY <2>1, <2>3 DEF StoredSoFar
  <2>5. QED
    BY <2>4 DEF Register!Read
<1>3. ASSUME UNCHANGED <<committed, out>> PROVE [Register!Next]_(Register!vars)
  BY <1>3 DEF Register!vars
<1>4. ASSUME NEW r \in Readers, ReadEnd(r) PROVE UNCHANGED committed
  BY <1>4 DEF ReadEnd
<1>5. ASSUME NEW w \in Writers, Crash(w) PROVE FALSE
  BY <1>5 DEF Crash
<1>6. QED
  BY <1>1, <1>2, <1>3, <1>4, <1>5
     DEF Next, WriterStep, ReaderStep, Request, Lock, WriteBegin, StoreCell, Unlock,
         SeqSeen, Call, ReadBegin, CopyCell, Advance, vars, rvars, Register!Next

(* The guarded section implements the atomic register: updates are         *)
(* indivisible and snapshots whole (seqlock.h:9-14, 137-150).              *)
THEOREM Atomicity ==
  ASSUME ~MayCrash, ~EarlyStores
  PROVE  Spec /\ []NotOvertaken => SnapshotsAreAtomic
<1>1. Init => Register!Init
  BY DEF Init, Blank, Register!Init, Register!Blank
<1>2. AtomicInv /\ [Next]_vars => AtomicInv'
  BY NextAtomic
<1>3. AtomicInv /\ NotOvertaken /\ [Next]_vars => [Register!Next]_(Register!vars)
  BY StepIsAtomic
<1>4. QED
  BY <1>1, <1>2, <1>3, InitAtomic, PTL DEF Spec, SnapshotsAreAtomic, Register!Spec

(* A snapshot is returned only between updates, also when its copy lasted  *)
(* so long that the number came round: a reader begins with an even number *)
(* and returns with the same, and a writer works under an odd one          *)
(* (seqlock.h:43-66).                                                      *)
THEOREM ReadsAreQuiet ==
  ASSUME ~MayCrash, ~EarlyStores
  PROVE  Spec => NoReadDuringUpdate
<1> DEFINE Calm == \A r \in Readers : out'[r] # out[r] => \A w \in Writers : wpc[w] # "writing"
<1>1. AtomicInv /\ [Next]_vars => AtomicInv'
  BY NextAtomic
<1>2. ASSUME AtomicInv, Next PROVE Calm
  <2> USE <1>2 DEF AtomicInv, TypeOK
  <2>1. ASSUME NEW r \in Readers, ReadEnd(r) PROVE Calm
    <3> SUFFICES ASSUME NEW q \in Readers, out'[q] # out[q]
                 PROVE  Quiet
      BY DEF Quiet
    <3>1. VisibleSeq = rseq[r] /\ rpc[r] = "copying"
      BY <2>1 DEF ReadEnd
    <3>2. seq % 2 = 0
      BY <3>1 DEF VisibleSeq, Parity, CopiedSoFar
    <3> QED BY <3>2 DEF Parity
  <2>2. ASSUME UNCHANGED out PROVE Calm
    BY <2>2
  <2> QED
    BY <2>1, <2>2
       DEF Next, WriterStep, ReaderStep, Request, Lock, WriteBegin, StoreCell, WriteEnd, Unlock,
           Crash, SeqSeen, Call, ReadBegin, CopyCell, Advance, rvars
<1>3. AtomicInv /\ [Next]_vars => [Calm]_vars
  BY <1>2
<1>4. QED
  BY <1>1, <1>3, InitAtomic, PTL DEF Spec, NoReadDuringUpdate
=============================================================================
