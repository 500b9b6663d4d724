\* One scan of every kind of call; each of its probes may fail, be late or
\* raise, and its answer be lost.
CONSTANTS
  None = None
  good = good
  bad = bad
  Entities = {good, bad}
  Sinks = {good, bad}
  Verdict <- LibraryVerdict
  Calls <- RelievedCalls
  Texts <- OneText
  UntrustedCap = 1
  Window = 2
  Views = {"reputation", "plain"}
  MaxSteps = 1
  MaxFailures = 6
SPECIFICATION FairSpec

  
PROPERTIES
  EveryScanEnds
CHECK_DEADLOCK FALSE
