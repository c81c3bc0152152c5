SPECIFICATION PartsSpec
CONSTANTS
  Uses = {u1, u2, u3, u4}
  Keys = {k1, k2}
  NoModel = NoModel
  MaxCalls = 3
  Channels = {c1, c2, c3, c4}
  Threads = {t1, t2}
  Nobody = Nobody
  LiveModels = {"nb", "pinned", "tiny"}
  Moonshines = {"tiny"}
  Fetched = {"nb"}
  Listed = {"nb", "tiny"}
  Languages = {"no", "en"}
  Thresholds = {567}
  Shown = {570, 500}
  Knobs = {400}
  MaxEdits = 2
  Sessions = {"s1", "s2"}
  Taps <- MCTaps
  Labels = {"A"}
  TypedNames = {"Kim"}
  MaxPersons = 2
  MaxRuns = 2
  Families = {"whisper", "moonshine"}
  Pickers = {p1, p2}
  Checkouts <- MCCheckouts
  Picks <- MCPicks
  MaxVersions = 2
  MaxLaunches = 2
  TokenTtl = 2
  Grace = 1
  SessionIdle = 2
  SessionMax = 4
  MaxNow = 7
  MaxLinks = 2
  Texts = {"", "30", "x"}
  Values = {"30"}
  MaxTime = 2
  Recordings <- MCRecordings
  Engines = {"m", "n"}
  Folders <- MCFolders
  MaxSize = 1
  MaxChanges = 3
  MaxFires = 2
  Joins <- MCJoins
  Covers <- MCCovers
INVARIANTS
  CacheIsSound
  SwapIsSound
  AppliedIsInForce
  DoneMeansInstalled
  SettingsHold
  ListingIsOfDisk
  AlgorithmsAreExact
PROPERTIES
  WhoIsWho
  ChoicesKept
  SignInHolds
CHECK_DEADLOCK FALSE
