SPECIFICATION FairSpec
CONSTANTS
  main = main  t1 = t1
  Main = main
  Thread <- MCThread
  Dumper = Dumper
  Master = Master
  Nobody = Nobody
  Interval = 2
  Slow = 3
  MaxTime = 2
  MaxCalls = 2
INVARIANTS TimerResumes TicksBounded ChildProfile
PROPERTIES CallsReturn
\* the CPU time is used up
CHECK_DEADLOCK FALSE
