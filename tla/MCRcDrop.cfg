SPECIFICATION CountedSpec
CONSTANT MaxHandles = 2
INVARIANT NotUnderDrop
CHECK_DEADLOCK FALSE
