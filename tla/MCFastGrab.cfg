CONSTANTS
  Fbs = {fb1, fb2, fb3}
  NoFb = NoFb
  Handles = {h1, h2, h3}
  NoHandle = NoHandle
  Fds = {f1, f2}
  NoFd = NoFd
  NumSlots = 2
  Planes = {p1}
  NoPlane = NoPlane
SPECIFICATION Spec
SYMMETRY Symmetry
INVARIANTS
  TypeOK
  NothingLeaks
  WindowsBalanced
  WindowOfLastFrame
  SlotsFaithful
  ConvertsOwnPlanes
  RefusalReleases
