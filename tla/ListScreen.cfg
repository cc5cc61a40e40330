SPECIFICATION Spec
CONSTANTS
  Names = {a, b, c}
  Typed = {b, c}
  Plain = a
  Marked = c
  Stored <- MCStored
  Objects = {o1, o2, o3}
  Workers = {w1, w2}
  Loader = loader
  Ui = ui
  MaxCauses = 0
  MaxAtLoad = 1
  Vacant = vacant
  None = None
SYMMETRY Symmetry
INVARIANTS TypeOK ScreenTrue PositionsHold
