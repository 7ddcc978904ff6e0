SPECIFICATION FairSpec
CONSTANTS
  a1 = a1  a2 = a2  a3 = a3  a4 = a4
  c1 = c1
  r1 = r1  r2 = r2  r3 = r3  r4 = r4
  Null = Null
  Zero = Zero
  Address <- MCAddress
  Counter <- MCCounter
  Record <- MCRecord
  Sizes <- MCSizes
  Home <- MCHome
  MaxProbes = 2
  InitSize = 4
  Unsigned = 64
\* the program ends when mmap fails
CHECK_DEADLOCK FALSE
INVARIANTS TypeOK
PROPERTIES GrowthEnds
