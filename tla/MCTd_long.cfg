SPECIFICATION Spec
CONSTANTS
  Machines <- MCMachines
  MdFaults = {"mount", "map", "fsck", "umount", "zones", "memory"}
  MaxMdFaults = 2
  Computers <- MCLong
  DdFaults = {"library", "memory"}
  MaxCalls = 4
  Asked <- MCAsked
  IsFaults = {"ima", "add", "remove", "enable"}
  MaxRetry = 2
  Products <- MCProducts
INVARIANT
  EverySliceHasADisk
