SPECIFICATION Spec
CONSTANTS
  Logs = {l1}
  Scans = {s1}
  Events = {e1}
  NoCall = NoCall
  PatientWaits = TRUE
INVARIANTS
  OwnedUntilRelease
