CONSTANTS
  p = p
  q = q
  Paths = {p, q}
  Values = {"on", "off"}
  Falsy = {"off"}
  AnyValue = AnyValue
  Holds = Holds
  Tags = {"already", "unconfirmed", "action", "done", "runtime", "absent"}
  NoTag = NoTag
  Names <- MCNames
  NoName = NoName
  Defs <- MCDefs
  Modes = {"apply", "check", "status"}
  MaxCalls = 2
SPECIFICATION FairSpec
CHECK_DEADLOCK FALSE
INVARIANTS
  DryRunIsInert
  OkForetellsNoChange
  UnchangedMeansUntouched
  SecondRunIsNoOp
PROPERTIES
  Ends
