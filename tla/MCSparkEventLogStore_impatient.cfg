\* Both are violated; TLC stops at the first it meets, so keep one at a time
\* or run it with -continue.
SPECIFICATION Spec
CONSTANTS
  Fetches = {f1, f2}
  Procs = {p1}
  Keys = {k1}
  Nobody = Nobody
  Pieces = 1
  PatientWaits = FALSE
  TicksPerSecond = 2
  MaxClock = 0
  MaxEdits = 1
INVARIANTS
  Serialized
PROPERTIES
  WritesUnderFlock
