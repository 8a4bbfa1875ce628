CONSTANTS
  a = a
  b = b
  c = c
  v1 = v1
  v2 = v2
  Nil = Nil
  Elems = {a, b, c}
  Panicky = {a, b}
  Vecs = {v1, v2}
  Capacity = 3
SPECIFICATION Spec
INVARIANTS TypeOK OwnedOnce NothingLost
PROPERTIES SequenceSpec LoopsShrink
SYMMETRY Symmetry
CHECK_DEADLOCK FALSE
