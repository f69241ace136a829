SPECIFICATION FairSpec
CONSTANTS
  NumEntries = 1
  Names = {n1}
  NoName = NoName
  IOShapes <- MCOneIOShape
  MaxCompiles = 2
  UGens = {u1}
  Failures = {}
  GCArraySize = 1
PROPERTIES CommandEnds DeferredStarts OldCodeReleased
