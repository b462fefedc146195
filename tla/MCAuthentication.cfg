SPECIFICATION LoginSpec
CONSTANTS
  p1 = p1
  p2 = p2
  p3 = p3
  Processes = {p1, p2, p3}
  Settings <- MCSettings
INVARIANTS OneLogin WaitersGetTheToken
PROPERTIES NamedRejectionIsExact EveryLoginEnds
CHECK_DEADLOCK FALSE
