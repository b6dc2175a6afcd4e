CONSTANTS
  h1 = h1
  h2 = h2
  h3 = h3
  all = all
  empty = empty
  Hosts = {h1, h2, h3}
  Groups = {all, empty}
  MembersOf <- MCMembersOf
  Ghost = ghost
  Interps = {"sh", "bash"}
  Blocks <- MCBlocks
  MaxBlocks = 2
  Limits <- MCLimits
  Widths = {0, 1}
  DefaultConcurrent = 2
SPECIFICATION Spec
PROPERTY UnfinishedJobFailsRun
