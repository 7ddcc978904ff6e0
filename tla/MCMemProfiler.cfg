SPECIFICATION Spec
CONSTANTS
  t1 = t1  t2 = t2
  a1 = a1  a2 = a2
  s1 = s1  s2 = s2
  Null = Null
  Thread <- MCThread
  Address <- MCAddress
  Site <- MCSite
  Sizes <- MCSizes
  Usable <- MCUsable
  Untouched = {0}
  Modulus = 3
  Modes <- MCModes
SYMMETRY MCSymmetry
INVARIANTS TypeOK LiveExact AddsUnknown AllocatedIsKnown FalseLeaksExcused
