SPECIFICATION Spec
CONSTANTS
  Tasks = {t1, t2}
  Setters = {t1, t2}
  Upright = upright
  Side = side
  Directions = {upright, side}
  Configs <- TwoByThree
  None = none
  Word = 16
  MaxPixels = 2
  Asked <- Rectangles
  MaxCounted = 9
SYMMETRY TaskSymmetry
INVARIANTS
  TypeOK
  DrawsVisiblePart
  StreamsVisiblePart
  PanelFollowsConfig
