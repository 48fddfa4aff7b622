SPECIFICATION FairSpec
CONSTANTS
  Logs = {l1, l2}
  Scans = {}
  Events = {}
  NoCall = NoCall
  PatientWaits = FALSE
INVARIANTS
  PublishedWhole
PROPERTIES
  CallsEnd
  CloseEnds
