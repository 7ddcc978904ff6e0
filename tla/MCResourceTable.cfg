SPECIFICATION HSpec
CONSTANTS
  a1 = a1  a2 = a2  a3 = a3
  c1 = c1  c2 = c2
  r1 = r1  r2 = r2  r3 = r3
  Null = Null
  Zero = Zero
  Address <- MCAddress
  Counter <- MCCounter
  Record <- MCRecord
  Sizes <- MCSizes
  Home <- MCHome
  MaxProbes = 2
  InitSize = 2
  Unsigned = 32
\* the program ends when mmap fails
CHECK_DEADLOCK FALSE
SYMMETRY MCSymmetry
INVARIANTS TableInv ListsComplete Accounting
PROPERTIES ImplementsLiveMap
