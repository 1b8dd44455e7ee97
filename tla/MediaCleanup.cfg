SPECIFICATION FairSpec
CONSTANTS
  r1 = r1
  r2 = r2
  i1 = i1
  i2 = i2
  w1 = w1
  a1 = a1
  Nobody = Nobody
  Record <- TwoRecords
  Invocation <- TwoInvocations
  Pass <- OnePass
  Account <- OneAccount
  AccountOf <- AllOnOneAccount
  Configured <- OneAccount
  Stuck <- FirstStuck
  BatchSize = 1
  MaxFailures = 1
  MaxCrashes = 1
INVARIANTS
  StoredMeansTracked
  OneUploaderPerCredential
  SuccessMeansDeleted
PROPERTIES
  AnswerUsesStoredMedia
  NamedMediaIsResolved
CHECK_DEADLOCK FALSE
