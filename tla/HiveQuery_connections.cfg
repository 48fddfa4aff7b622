SPECIFICATION Spec
CONSTANTS
  Calls = {c1}
  Workers = 1
INVARIANTS
  OneConnection
