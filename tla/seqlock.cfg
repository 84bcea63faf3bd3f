SPECIFICATION FairSpec
CONSTANTS
  w1 = w1  w2 = w2 r1 = r1  lo = lo  hi = hi
  Writers <- MCWriters
  Readers <- MCReaders
  Cells <- MCCells
  Values <- MCValues
  InitValue = 0
  Free = Free
  Dead = Dead
  SeqMax = 7
  InitSeq = 4
  MaxWrites = 3
  MayCrash = FALSE
  EarlyStores = FALSE
INVARIANTS TypeOK WriterExclusion
PROPERTIES SnapshotsAreAtomic NoReadDuringUpdate ReadsReturn WritersNotStuck
