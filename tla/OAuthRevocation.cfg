SPECIFICATION ConnectionSpec
CONSTANTS
  p1 = p1
  f1 = f1
  f2 = f2
  c1 = c1
  c2 = c2
  v1 = v1
  k1 = k1
  k2 = k2
  Nothing = Nothing
  Provider <- OneProvider
  Login <- TwoLogins
  ProviderOf <- LoginsOfOne
  Callback <- TwoCallbacks
  Revoker <- OneRevoker
  Client <- TwoClients
  Revocable <- OneProvider
  MaxRefusals = 1
INVARIANT RevocationDeletes
CHECK_DEADLOCK FALSE
