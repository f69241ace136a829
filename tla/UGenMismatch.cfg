SPECIFICATION Spec
CONSTANTS
  NumEntries = 1
  Names = {n1}
  NoName = NoName
  IOShapes <- MCIOShapes
  MaxCompiles = 3
  UGens = {u1, u2}
  Failures = {}
SYMMETRY UGenSymmetry
INVARIANT DestructorBeforeRemoval
