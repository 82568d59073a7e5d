SPECIFICATION Spec
CONSTANTS
  Choices <- AIChoices
  MaxRuns = 1
  Faults = {}
INVARIANT
  VfstabSwapExists
