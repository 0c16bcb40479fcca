\* Two calls of the client at a time, two sessions, three seconds.
CONSTANTS
  None = None
  Apps = {a1, a2}
  SessionIds = {s1, s2}
  MaxClock = 2
  Lifetime = 1
SPECIFICATION SessionsSpec
SYMMETRY Alike
INVARIANTS
  OneLiveToken
  StoredIsLive
PROPERTIES
  ImplementsFamily
