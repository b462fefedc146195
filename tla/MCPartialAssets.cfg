CONSTANTS
  environments = environments
  external = external
  client = client
  first = first
  second = second
  Scopes = {environments, external}
  Keys = {client}
  Finalizers = {first, second}
  Wanted <- MCWanted
  MaxRevision = 3
  MaxEpoch = 1
SPECIFICATION Spec
\* Finalizers end, and the bounds stop the savers.
CHECK_DEADLOCK FALSE
INVARIANTS
  NothingLost
  PublishedTwiceOnlyIfForfeited
