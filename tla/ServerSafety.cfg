SPECIFICATION Spec
CONSTANTS
  NumEntries = 1
  Names = {n1}
  NoName = NoName
  IOShapes <- MCIOShapes
  MaxCompiles = 2
  UGens = {u1, u2}
  Failures = {}
  GCArraySize = 2
SYMMETRY UGenSymmetry
INVARIANTS TypeOK BarriersOwned RuntimeExclusive RefsAccounted
PROPERTY LifecycleSpec
