SPECIFICATION Spec
CONSTANTS
  Requests <- MCRequests
  Lists = 2
  TmFaults = {"lists", "media", "df", "skip", "pkg"}
  MaxStrays = 1
  Profiles <- MCProfiles
  TxFaults = {"checks", "clock", "disk", "tasks", "cleanup"}
  Tasks = 2
  MaxStarts = 2
  Installs <- MCInstalls
  MaxFailures = 1
INVARIANTS
  SuccessIsSuccess
  FinishedSystemIsRight
PROPERTIES
  ForeignPoolsStay
  EverybodyGetsOut
