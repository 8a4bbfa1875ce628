SPECIFICATION Spec
CONSTANTS
  Nil = Nil
  HeaderSize = 2
  Memories <- MCMemories
  Layouts <- MCLayouts
INVARIANT ShrunkFits
