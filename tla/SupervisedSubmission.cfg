SPECIFICATION Spec
CONSTANTS
  q1 = q1
  q2 = q2
  Request <- TwoRequests
  MaxEvidence = 2
  MaxClicks = 1
  MaxFaults = 1
SYMMETRY Interchangeable
INVARIANTS
  ConfirmedIsTrue
PROPERTY StoppedNeverClicks
CHECK_DEADLOCK FALSE
