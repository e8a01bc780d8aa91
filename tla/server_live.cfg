SPECIFICATION FairSpec
CONSTANTS
  c1 = c1
  c2 = c2
  c3 = c3
  u1 = u1
  u2 = u2
  r1 = r1
  r2 = r2
  w1 = w1
  w2 = w2
  None = None
  Conns = {c1, c2}
  Users = {u1, u2}
  UserOf <- MCUserOf
  Rooms = {r1, r2}
  Winners = {w1}
  MaxCrashes = 1
INVARIANT
  OneLoop
PROPERTIES
  DecidedRoomLeaves
  RequestsAnswered
CHECK_DEADLOCK FALSE
