SPECIFICATION Spec
CONSTANTS
  DefaultPageSize = 1
  MaxPageSize = 2
  MaxDetailItems = 2
  MaxLogHalves = 3
  Applications = {a1, a2}
  Asked = {none, 0, 3}
  NoLimit = none
  NoApplication = none
  MaxLines = 3
INVARIANT IdsWhole
