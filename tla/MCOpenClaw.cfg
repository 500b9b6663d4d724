\* One session of a person's run: a plain call, a wrapper and the call it
\* dispatches, prompts, results, a snooze, and everything that can raise.
CONSTANTS
  None = None
  Sessions = {s1}
  Facts = {1}
  HostIds = {h1}
  Risks = {0, 1}
  Contexts <- MessageRuns
  Durations = {1}
  ReviewAt = 1
  BlockAt = 2
  Mode = "enforce"
  OnScanError = "review"
  ScheduledIntents = {"cron", "subagent"}
  ScheduledBehavior = "deny"
  IdReuse = 2
  HistoryLimit = 1
  SeenKeep = 2
  FullKeep = 1
  SnoozeKeep = 2
  MaxRuns = 1
  MaxBatch = 2
  MaxCalls = 2
  MaxTime = 1
  MaxInputs = 4
SPECIFICATION FairSpec
INVARIANTS
  DecisionMatchesOutcome
PROPERTIES
  BufferedIffRan
  UnaskedOnlyUnderSnooze
  HooksComplete
