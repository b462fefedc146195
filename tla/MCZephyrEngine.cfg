CONSTANTS
  Builds = {1, 2}
  Overlap = {TRUE, FALSE}
SPECIFICATION EngineFairSpec
\* The hooks of all builds may have run.
CHECK_DEADLOCK FALSE
INVARIANTS
  OneIdentityPerBuild
  StatsOnlyForWholeVersion
  HashListIsCurrent
PROPERTIES
  EveryBuildEnds
