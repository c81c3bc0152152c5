CONSTANTS
  Conns = {c1, c2}
  OldWavs = {}
  Utts = {u1}
  Idents = {i1, i2}
  RecordPrefs = {TRUE, FALSE}
  Sessions = {s1, s2}
  NoRecord = NoRecord
  Nobody = Nobody
  NoWav = NoWav
  NoSession = NoSession
  MaxFrames = 2
  Relays = {r1, r2, r3}
  NoRelay = NoRelay
  MaxStarts = 3
  MaxDrops = 1
  MaxBurst = 2
  Requests = {q1, q2, q3}
  Kinds = {"apply", "stop"}
  MaxApplies = 2
  Children = {p1, p2}
  NoChild = NoChild
SPECIFICATION PathSpec
INVARIANTS
  WavsStayWhole
  Bookkeeping
  RelayIsSound
  OneEngine
PROPERTIES
  OpenRecordIsOwners
  StopTellsTheTruth
  PathSettles
CHECK_DEADLOCK FALSE
