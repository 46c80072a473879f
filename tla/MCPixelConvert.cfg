SPECIFICATION PixelSpec
CONSTANTS
  MaxW = 9
  MaxH = 5
  TileW = 4
  TileH = 2
  Oword = 2
  MaxDiff = 3
  MaxTile = 3
  MaxRects = 2
INVARIANTS
  PixelsFromTheirPlace
  ColoursKept
  ChangesCovered
