SPECIFICATION Spec
CONSTANTS
  Bundles = {b1}
  Hashes = {h1, h2}
  Stray = stray
  None = None
  Poll = poll
  Platform = "android"
  Nobody = nobody
  MaxWrites = 1
SYMMETRY Symmetry
INVARIANTS
  LastWriteIsCurrent
  EveryWaiterIsQueued
PROPERTIES
  WrongFilesAreOwned
  KnownGoodIsKept
