SPECIFICATION Spec
CONSTANTS
  h1 = h1
  h2 = h2
  v1 = v1
  v2 = v2
  Handles = {h1, h2}
  Values = {v1, v2}
  TypeOf <- MCTypeOf
  NoValue = NoValue
  Types <- MCTypes
  Layouts <- MCLayouts
  Ladder <- MCLadder
  MaxUsize = 7
  MaxCount = 2
  Base = 1
  Length = 4
SYMMETRY Symmetry
INVARIANT FindsRoom
