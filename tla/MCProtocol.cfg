\* One session, the token protocol: two parallel calls, host ids that come
\* back in a later turn, a window of one step, failing scans, a key change.
CONSTANTS
  None = None
  Sessions = {s1}
  Facts = {tainted}
  HostIds = {h1}
  Actions = {a1}
  Plain = {}
  Risks = {0}
  ReviewAt = 1
  BlockAt = 2
  Mode = "enforce"
  OnScanError = "allow"
  Unattended = {}
  IdReuse = 1
  HistoryLimit = 1
  SeenKeep = 2
  ReviewsKeep = 1
  MaxTurns = 2
  MaxReqs = 3
  MaxBatch = 2
  MaxKeys = 2
SPECIFICATION Spec
INVARIANTS
  TypeOK
  RequestsWellFormed
  TokenStatusExplained
  BufferedIsNew
PROPERTIES
  NumbersNeverReused
  EpisodeKept
  ClearedOnlyByAnswer
CHECK_DEADLOCK FALSE
