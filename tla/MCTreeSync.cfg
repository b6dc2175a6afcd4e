CONSTANTS
  a = a
  ab = ab
  c = c
  d1 = d1
  d2 = d2
  Root = Root
  Absent = Absent
  Dir = Dir
  Link = Link
  Nothing = Nothing
  Paths = {a, ab, c}
  Parent <- MCParent
  Data = {d1, d2}
  SizeOf <- MCSizeOf
  Times = {0, 1, 2}
  Epoch = 0
  Now = 2
  StartSources <- MCSources
  StartTargets <- MCTargets
  MaxCalls = 2
  MaxEdits = 1
  MaxFaults = 2
SPECIFICATION Spec
INVARIANTS
  StagedIsDelta
  Converges
  InterruptedLeavesDestination
  PreviewIsKept
