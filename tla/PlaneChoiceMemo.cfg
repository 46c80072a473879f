SPECIFICATION Spec
CONSTANTS
  NumCrtcs = 2
  NumPlanes = 3
  Primary = {2, 3}
  Rotatable = {2}
  Configs <- MCConfigs
PROPERTY RemembersRightWidth
