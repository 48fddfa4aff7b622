SPECIFICATION Spec
CONSTANTS
  Fetches = {f1, f2}
  Procs = {p1, p2}
  Keys = {k1, k2}
  Nobody = Nobody
  Pieces = 2
  PatientWaits = TRUE
  TicksPerSecond = 2
  MaxClock = 0
  MaxEdits = 1
SYMMETRY FetchSymmetry
INVARIANTS
  OneAcquisition
  NoRemnants
PROPERTIES
  WritesUnderFlock
  HitIsSound
  ImplementsPromise
