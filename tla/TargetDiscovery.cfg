SPECIFICATION TdFairSpec
CONSTANTS
  MaxDisks = 3
  MaxInstances = 3
  InstanceKinds = {"readable", "unreadable"}
  Faults = {"start", "memory", "discover"}
INVARIANTS
  CompleteMeansDiscovered
  ListedDisksAreDissected
PROPERTIES
  MilestonesStay
  ListsAreStable
  ScreensAreFilled
