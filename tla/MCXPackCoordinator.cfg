SPECIFICATION MCSpec
CONSTANTS
  client = client
  server = server
  extra = extra
  shared = shared
  own = own
  Participants = {client, server, extra}
  Files = {shared, own}
  Reads <- MCReads
  MaxEdits = 3
  Modes = {"busy", "quiet", "calm"}
INVARIANTS NoFailedOutput QuietPublicationIsFresh
PROPERTIES RecoveryIsOwn EditsArePublished
CHECK_DEADLOCK FALSE
