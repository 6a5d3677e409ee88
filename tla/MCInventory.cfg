SPECIFICATION Spec
CONSTANTS
  d1 = d1
  d2 = d2
  d3 = d3
  ev = ev
  mf = mf
  NoDigest = NoDigest
  NoModel = NoModel
  NoClaims = NoClaims
  NoPath = NoPath
  OldFile = OldFile
  NoTemp = NoTemp
  Header = Header
  Running = Running
  Exporters = {"p", "q"}
  Scans <- MCScans
INVARIANTS
  ExportIsAllOrNothing
  RowsSayTheVerdict
  RowNamesItsRoot
  SameResultsSameFile
CHECK_DEADLOCK FALSE
