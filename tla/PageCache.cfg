SPECIFICATION FairSpec
CONSTANTS
  Users = {u1}
  Pages = {p1, p2}
  Writers = {w1, w2}
  Readers = {q1}
  Publishers = {d1}
  NoUser = NoUser
  NoEntry = NoEntry
  MaxWrites = 2
  MaxBumps = 1
  MaxAborts = 1
INVARIANTS TypeOK FenceHolds PublishedIsFresh
PROPERTY EverythingDelivered
CHECK_DEADLOCK FALSE
