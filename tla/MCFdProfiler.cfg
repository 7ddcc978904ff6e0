SPECIFICATION FdSpec
CONSTANTS
  t1 = t1  t2 = t2
  s1 = s1  s2 = s2
  Null = Null
  Thread <- MCThread
  Site <- MCSite
  Fd <- MCFd
  Calls = {"open", "close", "dup", "dup2"}
SYMMETRY MCSymmetry
INVARIANTS FdTypeOK LiveIsOpen
