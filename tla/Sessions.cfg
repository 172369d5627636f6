CONSTANTS
  Ids = {s1, s2}
  Names = {wanted, other}
  Cfgs = {c1}
  EnvCfg = c1
  EnvName = wanted
  EnvRec = TRUE
  Workers = {w1, w2}
  Main = main
  MaxPairings = 2
  MaxRequests = 3
  MaxCrashes = 1
  NoRow = NoRow
  Unpaired = Unpaired
  NoCfg = NoCfg
  NoId = NoId
SPECIFICATION Spec
SYMMETRY Symm
INVARIANT LinkedSurvives
PROPERTIES NoResurrection ConfigKept RestoredServed
CHECK_DEADLOCK FALSE
