SPECIFICATION Spec
CONSTANTS
  b1 = b1
  b2 = b2
  b3 = b3
  b4 = b4
  b5 = b5
  Ctxs = {c1, c2}
  Fbs = {f1}
  Bufs = {b1, b2, b3, b4, b5}
  Pics = {p1, p2}
  Devices = {d1, d2}
  None = None
  Desc <- MCDesc
  ImageSlots = 1
  UserSizes = {0, 2}
  MaxWrites = 2
SYMMETRY MCSymmetry
INVARIANTS
  OutputIsThisFrame
  RightSource
  NothingPinned
