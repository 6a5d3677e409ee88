SPECIFICATION Spec
CONSTANTS
  d1 = d1
  d2 = d2
  m1 = m1
  m2 = m2
  s1 = s1
  s2 = s2
  NoDigest = NoDigest
  NoModel = NoModel
  NoClaims = NoClaims
  NoFile = NoFile
  NoValue = NoValue
  Digests <- MCDigests
  Models <- MCModels
  Claims <- MCClaims
  Inventories <- MCInventories
  SnapshotFiles <- MCSnapshotFiles
  MaxInstalls = 1
INVARIANTS
  TypeOK
  VerdictsAreEarned
  EnrolledIsVerified
  ExitCodeIsHonest
  QuietExportNamesTheSnapshot
PROPERTIES
  ScanEnds
CHECK_DEADLOCK FALSE
