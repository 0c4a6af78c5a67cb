\* Requests of two clients to both classes of routes, during nearly two windows.
CONSTANTS
  NoRequest = NoRequest
  Requests = {q1, q2, q3, q4}
  Clients = {c1, c2}
  Window = 4
  Second = 2
  MaxTime = 7
  Limit <- MCLimit
SPECIFICATION Spec
\* All requests have arrived and the clock has reached its bound.
CHECK_DEADLOCK FALSE
SYMMETRY Symmetry
INVARIANTS
  AtMostLimit
  RefusedOnlyAtLimit
  RetryAfterSuffices
