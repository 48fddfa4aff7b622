\* All three are violated; TLC stops at the first it meets, so keep one at a time
\* or run it with -continue.
SPECIFICATION Spec
CONSTANTS
  DefaultPageSize = 3
  MaxPageSize = 2
  MaxDetailItems = 2
  Asked = {0, 1, 4}
  MaxObjects = 4
  MaxPages = 5
INVARIANTS
  CutIsTold
  DefaultCapped
  PageBounded
