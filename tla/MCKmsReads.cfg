SPECIFICATION Spec
CONSTANTS
  crtc1 = crtc1
  crtc2 = crtc2
  tiled = tiled
  linear = linear
  arrow = arrow
  banner = banner
  None = None
  Overlays = {1}
  Primaries = {2}
  Cursors = {3}
  Crtcs <- MCCrtcs
  Fbs <- MCFbs
  Shapes <- MCShapes
  Linear = {linear}
  TooBig = {banner}
  Machines <- MCMachines
SYMMETRY Symmetry
INVARIANTS
  HandlesBalanced
  PrimaryWins
  VisibleStaysVisible
