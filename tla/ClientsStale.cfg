SPECIFICATION ClientsSpec
CONSTANTS
  c1 = c1
  c2 = c2
  d1 = d1
  d2 = d2
  d3 = d3
  NumEntries = 2
  Names = {n1, n2}
  NoName = NoName
  IOShapes <- MCIOShapes
  MaxCompiles = 3
  LoadOutcomes = {"done", "compile_fails"}
  Clients = {c1, c2}
  Defs = {d1, d2, d3}
  Owner <- MCOwner
  NoDef = NoDef
  MaxCalls = 4
  MaxRefused = 1
SYMMETRY Symmetry
INVARIANT ListComplete
CHECK_DEADLOCK FALSE
