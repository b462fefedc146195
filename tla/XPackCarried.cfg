SPECIFICATION Spec
CONSTANTS
  client = client
  server = server
  extra = extra
  shared = shared
  own = own
  Participants = {client, server}
  Files = {shared, own}
  Reads <- MCReads
  MaxEdits = 2
  Modes = {"busy"}
INVARIANT CarriedIsFresh
CHECK_DEADLOCK FALSE
