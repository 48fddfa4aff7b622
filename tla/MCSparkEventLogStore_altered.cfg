SPECIFICATION Spec
CONSTANTS
  Fetches = {f1, f2}
  Procs = {p1}
  Keys = {k1, k2}
  Nobody = Nobody
  Pieces = 2
  PatientWaits = TRUE
  TicksPerSecond = 2
  MaxClock = 0
  MaxEdits = 1
SYMMETRY FetchSymmetry
PROPERTIES
  HitIsWhole
