SPECIFICATION PersistentOwner
CONSTANTS
  q1 = q1
  q2 = q2
  Request <- OneRequest
  MaxEvidence = 1
  MaxClicks = 1
  MaxFaults = 1
PROPERTY LostSessionIsRecovered
CHECK_DEADLOCK FALSE
