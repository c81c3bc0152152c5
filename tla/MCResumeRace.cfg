SPECIFICATION Spec
CONSTANTS
  Conns = {c1, c2}
  OldWavs = {}
  Utts = {u1}
  Idents = {i1}
  RecordPrefs = {TRUE}
  Sessions = {s1, s2}
  NoRecord = NoRecord
  Nobody = Nobody
  NoWav = NoWav
  NoSession = NoSession
  MaxFrames = 1
  Workers = {w1}
  Kinds = {"session"}
  FreeSlot = FreeSlot
INVARIANT OpenWavStaysOnDisk
CHECK_DEADLOCK FALSE
