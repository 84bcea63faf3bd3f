------------------------------ MODULE MCSeqlock ------------------------------
(* Small instances of Seqlock: two words are enough to see a torn snapshot. *)
EXTENDS Seqlock, TLC

CONSTANTS w1, w2, r1, lo, hi

MCWriters == {w1, w2}
MCReaders == {r1}
MCCells   == {lo, hi}
MCValues  == {0, 1}
=============================================================================
