CONSTANTS
  Runs = {r1, r2}
  None = None
  Size = 2
  MaxDrops = 0
SPECIFICATION Spec
INVARIANT PathNeverPartial
