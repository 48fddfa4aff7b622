SPECIFICATION Spec
CONSTANTS
  Fetches = {f1, f2, f3}
  Procs = {p1}
  Keys = {k1}
  Nobody = Nobody
  Pieces = 1
  PatientWaits = FALSE
  TicksPerSecond = 2
  MaxClock = 2
  MaxEdits = 1
SYMMETRY FetchSymmetry
PROPERTIES
  NewestReused
