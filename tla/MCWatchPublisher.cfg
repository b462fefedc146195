SPECIFICATION Spec
CONSTANTS
  bundle = bundle
  descriptor = descriptor
  metadata = metadata
  Assets = {bundle, descriptor}
  Sidecar = metadata
  Directory = {bundle, descriptor, metadata}
  Modes = {"reliable", "flaky"}
  MaxWrites = 4
INVARIANT SettledIsCurrent
PROPERTY ChangesArePublished
\* The command ends when it is stopped.
CHECK_DEADLOCK FALSE
