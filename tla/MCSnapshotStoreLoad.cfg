SPECIFICATION Spec
CONSTANTS
  p1 = p1
  p2 = p2
  r1 = r1
  s1 = s1
  s2 = s2
  NoFile = NoFile
  NoClaims = NoClaims
  NoDigest = NoDigest
  First = First
  NoInode = NoInode
  NoExit = NoExit
  Killed = Killed
  Refreshers <- MCRefreshers
  Readers <- MCReaders
  Served <- MCServed
  Installed <- MCInstalled
  Blends <- MCBlends
INVARIANTS
  LoadFailuresAreReported
CHECK_DEADLOCK FALSE
