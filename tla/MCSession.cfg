\* Three calls of a library of four, before any of ten, any decision and failure, results that name
\* things, a lost token; a window of two entries.
CONSTANTS
  None = None
  doc = doc
  script = script
  tree = tree
  inside = inside
  host = host
  twin = twin
  person = person
  table = table
  Paths = {doc, script, tree, inside}
  Hosts = {host, twin}
  People = {person}
  Tables = {table}
  Under <- UnderTree
  Scratch = {}
  Workspace = {script, tree, inside}
  FilterPlaces = {}
  DomainOf <- PersonsHost
  Similar <- Twins
  Library <- SessionCalls
  NextCalls <- AnyCall
  Texts <- SessionTexts
  Window = 2
  MaxSteps = 3
  MaxResets = 1
SPECIFICATION Spec
INVARIANTS
  RetriedCallScores
  EscalationRatchets
  WrittenContentSeen
  
CHECK_DEADLOCK FALSE
