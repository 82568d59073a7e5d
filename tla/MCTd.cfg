SPECIFICATION Spec
CONSTANTS
  Machines <- MCMachines
  MdFaults = {"mount", "map", "fsck", "umount", "zones", "memory"}
  MaxMdFaults = 2
  Computers <- MCComputers
  DdFaults = {"library", "memory"}
  MaxCalls = 5
  Asked <- MCAsked
  IsFaults = {"ima", "add", "remove", "enable"}
  MaxRetry = 2
  Products <- MCProducts
INVARIANTS
  SystemsAreLeftAlone
  SystemsAreReported
  ObjectsAreRight
PROPERTIES
  
  ListsAreWhole
  LibtdEnds
