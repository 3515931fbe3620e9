SPECIFICATION Spec
CONSTANTS
  b1 = b1
  b2 = b2
  s1 = s1
  s2 = s2
  Bets = {b1, b2}
  Sessions = {s1, s2}
  Calls = {c1}
  Outsider = Outsider
  Rules <- MCRules
  Requests <- MCRequests
  MaxRuns = 3
SYMMETRY MCSymmetry
INVARIANTS
  EnvCallIsScoped
  LoneRunIsScoped
  ClearMeansOpen
  EndsClean
