SPECIFICATION SupervisionSpec
CONSTANTS
  Starts = {1, 2}
  Slots = {2, 3, 4}
  Threshold = 2
  MaxTrouble = 3
INVARIANTS QuitStopsTheBackend
CHECK_DEADLOCK FALSE
