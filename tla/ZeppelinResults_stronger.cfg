\* Both are violated; TLC stops at the first it meets, so keep one at a time
\* or run it with -continue.
SPECIFICATION Spec
CONSTANTS
  MaxResultBytes = 5
  MaxOutputBytes = 8
  MaxErrorBytes = 3
  Widths = {1, 3}
  MaxChars = 2
  MaxItems = 2
INVARIANTS
  FailureReported
  TotalBounded
