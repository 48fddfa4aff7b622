SPECIFICATION FairSpec
CONSTANTS
  Fetches = {f1, f2}
  Procs = {p1}
  Keys = {k1}
  Nobody = Nobody
  Pieces = 1
  PatientWaits = FALSE
  TicksPerSecond = 2
  MaxClock = 0
  MaxEdits = 1
INVARIANTS
  NoRemnants
PROPERTIES
  FetchEnds
  CloseEnds
