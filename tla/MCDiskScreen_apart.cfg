SPECIFICATION DsSpec
CONSTANTS
  FD_NUMPART = 3
  OM_NUMPART = 9
  Gb = 32
  SizeMb = 96
  MinMb = 16
  DsWidth = 1024
  MaxChanges = 4
  Machines <- MCMachines
INVARIANTS
  PartitionsAreApart
CHECK_DEADLOCK FALSE
