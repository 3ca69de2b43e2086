SPECIFICATION Spec
CONSTANTS
  Steps = 2
  MaxCalls = 3
INVARIANTS TypeOK AllStopped OneReader Configured LeftReset Verdict
PROPERTIES CallsReturn LossTold Announced
CHECK_DEADLOCK FALSE
