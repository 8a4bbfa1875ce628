SPECIFICATION ReuseSpec
CONSTANTS
  MaxHandles = 5
  Nil = Nil
  HeaderSize = 2
  Memories <- MCMemories
  Layouts <- MCLayouts
  i1 = i1
  i2 = i2
  i3 = i3
  Items <- MCItems
  Types <- MCTypes
  TypeOf <- MCTypeOf
  HeapBlocks = {b1, b2}
  NoBlock = NoBlock
  MaxCap = 2
SYMMETRY Symmetry
INVARIANTS
  RcTypeOK
  SoleOwner
  CountsAccurate
  StructInMemory
  BlocksSafe
  RoundTrip
  AnswersTrue
  BuffersSound
  FillSound
PROPERTIES
  OwnedSpec
  DropsLiveValue
CHECK_DEADLOCK FALSE
