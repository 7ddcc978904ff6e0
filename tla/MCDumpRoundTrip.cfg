SPECIFICATION Spec
CONSTANTS
  Addresses <- MCAddresses
  Slot <- MCSlot
  BinaryOf <- MCBinaryOf
  NameOf <- MCNameOf
  RealPath <- MCRealPath
  Programs <- MCPrograms
  CounterDefs = {"TOTAL", "LIVE"}
  DerivedLeaks = {"LIVE"}
  SIZE = 3
  MaxFailures = 1
INVARIANTS ReadsBack DamageOnlyLoses
CHECK_DEADLOCK FALSE
