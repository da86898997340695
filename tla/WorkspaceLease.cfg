SPECIFICATION Spec
CONSTANTS
  s1 = s1
  s2 = s2
  s3 = s3
  root = root
  child = child
  other = other
  NoOne = NoOne
  NoDir = NoDir
  Sessions = {s1, s2, s3}
  Dirs = {root, child, other}
  Overlap <- MCOverlap
  Clients = {s1, s2, s3}
SYMMETRY MCSymmetry
INVARIANTS
  OneWriterPerTree
  AwaitingIsExplained
PROPERTIES
  ServedInOrder
CHECK_DEADLOCK FALSE
