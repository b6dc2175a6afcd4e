CONSTANTS
  Runs = {r1, r2, r3}
  None = None
  Size = 2
  MaxDrops = 2
SPECIFICATION Spec
INVARIANTS
  SoloStartsWhole
