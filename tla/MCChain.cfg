SPECIFICATION Spec
CONSTANTS
  c1 = c1
  c2 = c2
  c3 = c3
  l1 = l1
  l2 = l2
  l3 = l3
  Nil = Nil
  Chains = {c1, c2, c3}
  Links = {l1, l2, l3}
  Base = 2
  Length = 2
  Layouts <- MCLayouts
INVARIANTS
  EachLinkOnce
  BoxesSafe
PROPERTIES
  LoopsEnd
CHECK_DEADLOCK FALSE
