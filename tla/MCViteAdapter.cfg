SPECIFICATION MCSpec
CONSTANTS
  client = client
  server = server
  first = first
  second = second
  Finalizers = {first, second}
  EnvironmentSets <- MCEnvironmentSets
  Keys = {"producer"}
  Wanting = {first, second}
  MaxRuns <- MCMaxRuns
  MaxRevision = 2
INVARIANTS SnapshotIsOfItsRun ExternalPublishedOnce ClaimsEndWithBuild
\* The bound on runs stops the finalizers.
CHECK_DEADLOCK FALSE
