SPECIFICATION Spec
CONSTANTS
  Frames = {f1, f2, f3}
  Buffers = {b1, b2, b3, b4, b5}
  MaxLen = 2
  None = None
SYMMETRY Symmetry
INVARIANTS
  PixelsAreItsOwn
  ContextOutlives
