SPECIFICATION Spec
CONSTANTS
  Fetches = {f1, f2, f3}
  Procs = {p1}
  Keys = {k1}
  Nobody = Nobody
  Pieces = 1
  PatientWaits = TRUE
  TicksPerSecond = 2
  MaxClock = 3
  MaxEdits = 0
SYMMETRY FetchSymmetry
PROPERTIES
  NewestToTheSecond
