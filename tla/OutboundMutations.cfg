SPECIFICATION Spec
CONSTANTS
  p1 = p1
  f1 = f1
  f2 = f2
  c1 = c1
  d1 = d1
  d2 = d2
  k1 = k1
  k2 = k2
  q1 = q1
  q2 = q2
  Nothing = Nothing
  Provider <- OneProvider
  Login <- TwoLogins
  ProviderOf <- LoginsOfOne
  Callback <- OneCallback
  Revoker <- None
  Client <- TwoRequests
  Revocable <- OneProvider
  MaxRefusals = 1
  Draft <- TwoDrafts
  ProviderFor <- DraftsOfOne
  Calendar <- SecondIsCalendar
  Key <- TwoKeys
  Request <- TwoRequests
  MaxCrashes = 1
SYMMETRY Interchangeable
INVARIANTS
  OneCallPerDraft
  SentAsReviewed
PROPERTY ImplementsOneAttempt
CHECK_DEADLOCK FALSE
