SPECIFICATION Spec
CONSTANTS
  Conns = {c1, c2}
  OldWavs = {o1}
  Utts = {u1}
  Idents = {i1}
  RecordPrefs = {TRUE}
  Sessions = {s1, s2}
  NoRecord = NoRecord
  Nobody = Nobody
  NoWav = NoWav
  NoSession = NoSession
  MaxFrames = 0
  Workers = {w1, w2}
  Kinds = {"session", "reclaim", "batch", "audio", "wav"}
  FreeSlot = FreeSlot
SYMMETRY Symmetry
INVARIANTS
  GuardedTapKeepsItsWav
PROPERTIES
  BatchKeepsItsWavs
  ImplementsLock
CHECK_DEADLOCK FALSE
