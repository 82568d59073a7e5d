SPECIFICATION MCSpec
CONSTANTS
  Choices <- AllChoices
  MaxRuns = 2
  Faults = {"import", "list"}
INVARIANTS
  TransferHasTarget
  SuccessIsComplete
  SwapIsListed
