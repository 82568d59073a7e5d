SPECIFICATION GuiFairSpec
CONSTANTS
  Choices <- MCGuiChoices
  MaxRuns = 2
  Faults = {}
INVARIANTS
  FinishMeansInstalled
  FailureIsFinal
  NoWritesAfterVerdict
  ReadyIsPopulated
PROPERTIES
  ImplementsContract
  VerdictReached
  ForeignPoolSurvives
