CONSTANTS
  r = r
  a = a
  b = b
  c = c
  d = d
  e = e
  f = f
  x = x
  y = y
  t1 = t1
  t2 = t2
  Nodes = {r, a, b, c, d, e, f}
  Root = r
  Names = {x, y}
  NoName = NoName
  Tags = {t1, t2}
  AnyTag = AnyTag
  Nobody = Nobody
  Modes = {"apply", "check", "status"}
  Plans <- MCPlans
SPECIFICATION FairSpec
INVARIANTS
  ResponseFits
  ErrorsHaltOrAreCovered
  BranchesAreIsolated
PROPERTIES
  NothingOnBrokenBase
  Ends
