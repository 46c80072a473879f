SPECIFICATION Spec
CONSTANTS
  b1 = b1
  b2 = b2
  b3 = b3
  Fbs = {b1, b2, b3}
  NoFb = NoFb
  Scan <- MCScan
  Handles = {h1, h2}
  NoHandle = NoHandle
  Fds = {d1, d2}
  NoFd = NoFd
  Privs = {p1, p2}
  NoPriv = NoPriv
  Frames = {f1, f2}
  Planes = {k1, k2}
  NoPlane = NoPlane
  Gpus <- MCGpus
SYMMETRY MCSymmetry
INVARIANTS
  TypeOK
  NothingLeaks
  WindowsBalanced
  FramesReleasable
  FrameFdIsItsBuffer
  NamesCapturedPlane
  PixelsDecoded
