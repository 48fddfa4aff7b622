SPECIFICATION Spec
CONSTANTS
  Calls = {c1, c2}
  Keys = {k1, k2, k3}
  WithDDL = {k3}
  Capacity = 2
  TTL = 2
  MaxTime = 3
  MaxVersion = 1
SYMMETRY CacheSymmetry
PROPERTIES
  AnswersHonest
  EvictsLeastRecent
