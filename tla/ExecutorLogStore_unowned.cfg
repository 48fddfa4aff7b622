SPECIFICATION Spec
CONSTANTS
  Logs = {l1}
  Scans = {}
  Events = {}
  NoCall = NoCall
  PatientWaits = FALSE
INVARIANTS
  OwnedUntilRelease
