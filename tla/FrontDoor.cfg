SPECIFICATION Spec
CONSTANTS
  Requests = {q1, q2, q3}
  Clients = {c1}
  Emails = {e1, e2}
  None = None
  Limit = 2
  Ticks = 3
  MaxClock = 4
  MaxFaults = 1
INVARIANT FirstOwns
INVARIANT LimitHolds
CHECK_DEADLOCK FALSE
