SPECIFICATION Spec
CONSTANTS
  Cards = {1, 2}
  Kms = {1, 2}
  Connectors = {1, 2, 3}
  CardOf <- MCCardOf
  Crtcs = {1, 2, 3}
  CrtcCard <- MCCrtcCard
  Possible <- MCPossible
  Nodes = {1, 2}
  Modes = {hd, uhd}
  None = None
  MaxCount = 1
SYMMETRY Symmetry
INVARIANTS
  HoldsOnlyItsCard
  
  ChangesReported
