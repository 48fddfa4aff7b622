SPECIFICATION FairSpec
CONSTANTS
  Calls = {b1, r2}
  Restarts = {r2}
  Stubborn = {r2}
  NoCall = NoCall
INVARIANTS
  LockNotLeaked
  OwnedWorkEnded
  AnswerTruthful
  ShutdownQuiescent
PROPERTIES
  RestartGuarded
  ImplementsContract
  CallsEnd
  LeavesPromptly
