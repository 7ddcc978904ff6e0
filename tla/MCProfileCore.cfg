SPECIFICATION FairSpec
CONSTANTS
  main = main  t1 = t1
  async = async
  master = master
  Nobody = Nobody
  Thread <- MCThread
  Main = main
  Dumper <- MCDumper
  Master = master
  MaxSamples = 2
  MaxDumps = 1
\* the process ends
CHECK_DEADLOCK FALSE
INVARIANTS TypeOK SamplesKept NoDangling DumpExact NoSelfWait EnabledBalanced
PROPERTIES DumpEnds
