SPECIFICATION Spec
CONSTANTS
  NumEntries = 1
  Names = {n1}
  NoName = NoName
  IOShapes <- MCIOShapes
  MaxCompiles = 3
  UGens = {u1, u2}
  Failures = {"init", "destructor", "remove_ref", "constructor", "create_ref", "root_ref"}
SYMMETRY UGenSymmetry
INVARIANTS TypeOK ValidIsRooted OneRefPerUGen ActiveCountsUGens
