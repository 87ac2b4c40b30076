SPECIFICATION FairClientSpec
CONSTANTS
  ann = ann
  k1 = k1
  k2 = k2
  Nobody = Nobody
  Users = {ann}
  Recruiters = {ann}
  FirstAdmins = {ann}
  Pages = {k1, k2}
  Requests <- MCRequests
  RefreshOf <- MCRefreshOf
  FormOf <- MCFormOf
  MaxTokens = 2
  MaxLoads = 1
  MaxLosses = 1
CHECK_DEADLOCK FALSE
INVARIANTS
  ReuseNeedsReload
PROPERTIES
  NeverShownTwice
  PostedPairGoes
