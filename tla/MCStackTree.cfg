SPECIFICATION Spec
CONSTANTS
  master = master
  t1 = t1
  t2 = t2
  Address <- MCAddress
  Buffer <- MCBuffer
  Master = master
  Stacks <- MCStacks
  Profilers <- MCProfilers
  MaxDefs = {"MEM_MAX"}
  MaxDepth = 2
  MaxCounters = 3
  MaxSamples = 4
SYMMETRY MCSymmetry
\* the energy profiler ends at the fourth counter
CHECK_DEADLOCK FALSE
INVARIANTS TypeOK TreeInv SelfCosts CallersUnlessShrunk
