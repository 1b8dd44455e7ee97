SPECIFICATION Spec
CONSTANTS
  c1 = c1
  c2 = c2
  nobody = nobody
  Child <- TwoChildren
  Nobody <- nobody
INVARIANTS
  GuardKeepsRuntimeOut
  ReadyIsServed
PROPERTIES
  LaunchIsExclusive
  LeavingIsSafe
  CallsReturn
CHECK_DEADLOCK FALSE
