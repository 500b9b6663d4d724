\* One scan; a probe that need not end.  MaxFailures lets all of them fail.
CONSTANTS
  None = None
  good = good
  bad = bad
  Entities = {good, bad}
  Sinks = {good}
  Verdict <- LibraryVerdict
  Calls <- OneCall
  Texts <- OneText
  UntrustedCap = 1
  Window = 2
  Views = {"reputation", "plain"}
  MaxSteps = 1
  MaxFailures = 6
SPECIFICATION MainFairSpec
PROPERTIES
  EveryScanEnds
CHECK_DEADLOCK FALSE
