SPECIFICATION Spec
CONSTANTS
  Logs = {}
  Scans = {}
  Events = {e1}
  NoCall = NoCall
  PatientWaits = TRUE
INVARIANTS
  ReadUntilRelease
