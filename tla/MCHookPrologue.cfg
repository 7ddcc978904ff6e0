SPECIFICATION Spec
CONSTANTS
  Programs <- MCPrograms
  Section <- MCSection
  PageSize <- MCPageSize
  TRAMPOLINE_SAVED = 10
  Replacements <- MCReplacements
  Events = 5
  Steps = 30
INVARIANTS MovesWholeInstructions
CHECK_DEADLOCK FALSE
