SPECIFICATION ConfigSpec
CONSTANTS
  Slots <- MCSlots
  OldFiles = {}
  LineEdits <- MCLines
  OrderEdits = {}
  MaxEdits = 1
  MaxWrites = 1
  MaxStarts = 1
CHECK_DEADLOCK FALSE
INVARIANTS
  FiltersReturn
