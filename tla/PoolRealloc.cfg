SPECIFICATION Spec
CONSTANTS
  AreaSize = 4352
  Requests <- MCRequests
  IntRange = 8192
INVARIANT PayloadKept
