SPECIFICATION Spec
CONSTANTS
  q1 = q1
  q2 = q2
  Request <- OneRequest
  MaxEvidence = 2
  MaxClicks = 1
  MaxFaults = 0
PROPERTY AmbiguityIsRecorded
CHECK_DEADLOCK FALSE
