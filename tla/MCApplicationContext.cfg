CONSTANTS
  MaxGeneration = 3
  Generations <- MCGenerations
SPECIFICATION Spec
\* A context whose last generation ended has nothing left to do.
CHECK_DEADLOCK FALSE
INVARIANTS
  OnlyLatestAlive
  UploadsInOrder
PROPERTIES
  NoUnsafeSupersession
