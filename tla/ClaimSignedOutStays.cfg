SPECIFICATION ClientSpec
CONSTANTS
  ann = ann
  k1 = k1
  k2 = k2
  Nobody = Nobody
  Users = {ann}
  Recruiters = {ann}
  FirstAdmins = {ann}
  Pages = {k1}
  Requests <- MCRequests
  RefreshOf <- MCRefreshOf
  FormOf <- MCFormOf
  MaxTokens = 2
  MaxLoads = 0
  MaxLosses = 0
CHECK_DEADLOCK FALSE
PROPERTY SignedOutStays
