SPECIFICATION Spec
CONSTANTS
  ann = ann
  bob = bob
  r1 = r1
  r2 = r2
  Nobody = Nobody
  Users = {ann, bob}
  Recruiters = {ann, bob}
  FirstAdmins = {ann}
  Requests = {r1, r2}
  MaxTokens = 4
SYMMETRY AnyOrder
CHECK_DEADLOCK FALSE
INVARIANTS
  ForksAreOverlaps
  LiveIsCounted
PROPERTIES
  ReuseEndsSessions
  AccountsStay
  LastAdminFalls
