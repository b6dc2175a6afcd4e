CONSTANTS
  r1 = r1
  r2 = r2
  r3 = r3
  a = a
  b = b
  pin = pin
  c1 = c1
  c2 = c2
  Runs = {r1, r2, r3}
  Self = r3
  Specs = {a, b, pin}
  Shas = {c1, c2}
  Version <- MCVersion
  Projects <- MCProjects
  Tagged <- MCTagged
  None = None
  Spoiled = Spoiled
  Torn = Torn
  MaxEvents = 2
  Plans <- MCPlans
  Inside <- MCInside
  DefNames <- MCDefNames
  Bodies <- MCBodies
  Std <- MCStd
  Packages <- MCPackages
  Params <- MCParams
  Required <- MCRequired
  Vars <- MCVars
  VarsFile <- MCVarsFile
  SetVars <- MCSetVars
  Hosts <- MCHosts
  Fields <- MCFields
  Inv <- MCInv
  BoolParams <- MCBoolParams
  Rejects <- MCRejects
  Outside <- MCOutside
  Undefined = Undefined
  Defs = {"site", "web", "service"}
  UserDefs = {"site", "web"}
  Graphs <- MCGraphs
  Inputs <- MCInputs
SPECIFICATION Spec
INVARIANTS
  ServedAsPinned
  MovedTagRejectedAlone
  OfflineAfterFirstLock
  ResolvedAsWritten
  CallsAreJudgedAlike
  AssetIsServed
  ExactlyCirclesAreRefused
CHECK_DEADLOCK FALSE
