SPECIFICATION Spec
CONSTANTS
  a1 = a1
  a2 = a2
  b = b
  c = c
  d = d
  Nil = Nil
  Values = {a1, a2, b, c, d}
  MemValues = {a1, a2}
  Panicky = {c}
  Base = 2
  Length = 4
  Layouts <- MCLayouts
  LayoutOf <- MCLayoutOf
INVARIANTS
  ListIsStack
  PinGuarantee
  RoomForOne
PROPERTIES
  DropsNewestFirst
  PopsEnd
CHECK_DEADLOCK FALSE
