SPECIFICATION Spec
CONSTANTS
  Names = {1, 2}
  Products = {p1, p2}
  Ajax = {x1, x2}
  MaxTimers = 2
  None = None
SYMMETRY Symmetry
INVARIANTS TypeOK PageTrue
PROPERTIES PageFiled
