SPECIFICATION LiveSpec
CONSTANTS
  Keys = {k1}
  Checks = {c1}
  NoStart = NoStart
  MaxCrashes = 1
  MaxFaults = 1
INVARIANTS
    SettledIsBound
    NoFalseAmbiguity
PROPERTIES
    DivergenceBlocksCommands
    StartsComplete
CHECK_DEADLOCK FALSE
