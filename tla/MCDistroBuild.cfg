SPECIFICATION BuildSpec
CONSTANTS
  Names <- MCNames
  Manifests <- MCEdited
  MaxBuilds = 3
  Faults = {"crash", "script", "copy", "create", "access"}
INVARIANTS
  UnwarnedBuildIsComplete
  MixtureIsWarnedOf
  SuccessfulBuildIsAsAsked
  SnapshotsGrow
