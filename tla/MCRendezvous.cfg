CONSTANTS
  Runs = {r1, r2}
  None = None
  MaxCleans = 1
SPECIFICATION FairSpec
INVARIANTS
  TypeOK
  AtMostOnce
  NeverWrong
  MarkerAfterResult
PROPERTIES
  PublishedResultIsFinal
  Served
  ImplementsContract
