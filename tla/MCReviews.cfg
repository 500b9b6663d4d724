\* Two sessions that share the reviews file, prompts open at the same time,
\* an action whose fingerprint carries no salt, a reviews file of two
\* entries, scan errors that ask.
CONSTANTS
  None = None
  Sessions = {s1, s2}
  Facts = {}
  HostIds = {h1}
  Actions = {a1}
  Plain = {a1}
  Risks = {0, 1, 2}
  ReviewAt = 1
  BlockAt = 2
  Mode = "enforce"
  OnScanError = "review"
  Unattended = {}
  IdReuse = 1
  HistoryLimit = 3
  SeenKeep = 6
  ReviewsKeep = 2
  MaxTurns = 1
  MaxReqs = 3
  MaxBatch = 1
  MaxKeys = 1
SPECIFICATION Spec
INVARIANTS
  DecisionMatchesOutcome
  RunsAreRecorded
PROPERTIES
  DecisionsSettle
SYMMETRY Symmetry
CHECK_DEADLOCK FALSE
