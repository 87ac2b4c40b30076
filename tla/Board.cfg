SPECIFICATION Spec
CONSTANTS
  ann = ann
  bob = bob
  cat = cat
  p1 = p1
  s1 = s1
  s2 = s2
  Practice = Practice
  Candidates = {cat}
  Recruiters = {ann, bob}
  Admins = {bob}
  Postings = {p1}
  Owner <- OnePosting
  Sessions = {s1, s2}
  Composites = {1, 2}
SYMMETRY AnyOrder
CHECK_DEADLOCK FALSE
INVARIANTS
  PatchTakesOrRaces
  RankingStaysTrue
  ReportsAreCurrent
