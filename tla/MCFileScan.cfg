SPECIFICATION Spec
CONSTANTS
  b0 = b0
  b1 = b1
  NoDigest = NoDigest
  NoShard = NoShard
  Missing = Missing
  Garbled = Garbled
  NoFile = NoFile
  Blocks = {b0, b1}
  MaxBlocks = 2
  MaxChanges = 2
  Snapshots = {"r1", "r2"}
  Entry <- MCEntry
  Sorted <- MCSorted
  NamedDigest <- MCNamedDigest
  Versions <- MCVersions
  AtStart <- MCAtStart
  Walks <- MCWalks
INVARIANTS
  TypeOK
  GroupedExactlyOnce
  ShardsStayTogether
PROPERTIES
  DigestOfAVersion
  ImplementsHydration
CHECK_DEADLOCK FALSE
