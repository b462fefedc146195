SPECIFICATION MCSpec
CONSTANTS
  c1 = c1
  c2 = c2
  shop = shop
  cart = cart
  None = None
  Requests = {c1, c2}
  RetrySafe = {c1, c2}
  MaxRetries = 2
  Deadline = 4
  RetryAfters = {0, 5}
  MaxClock = 6
  Tokens = {"old", "new"}
  Applications = {shop, cart}
  ApplicationOf <- MCApplicationOf
  TTL = 2
  Lives = {1, 9}
INVARIANTS FlightIsShared EndsInTime
PROPERTY AnswerIsOwn
\* Callers call once, and the clock is bounded.
CHECK_DEADLOCK FALSE
