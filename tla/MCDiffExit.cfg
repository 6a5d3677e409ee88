SPECIFICATION Spec
CONSTANTS
  d1 = d1
  d2 = d2
  f1 = f1
  f2 = f2
  g1 = g1
  g2 = g2
  NoDigest = NoDigest
  NoName = NoName
  NoValue = NoValue
  NoInput = NoInput
  Inputs <- MCInputs
  Reports <- MCReports
  Forbidden <- MCForbidden
INVARIANTS
  ComparisonsExitZero
CHECK_DEADLOCK FALSE
