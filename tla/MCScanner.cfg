\* Three scans of one session, two failures, call views with reputations.
CONSTANTS
  None = None
  good = good
  bad = bad
  Entities = {good, bad}
  Sinks = {good}
  Verdict <- LibraryVerdict
  Calls <- SessionCalls
  Texts <- SessionTexts
  UntrustedCap = 1
  Window = 2
  Views = {"reputation"}
  MaxSteps = 3
  MaxFailures = 2
SPECIFICATION Spec
INVARIANTS
  UnexaminedShows
  OriginKept
  TaintReachesCalls
PROPERTIES
  MemoryKept
CHECK_DEADLOCK FALSE
