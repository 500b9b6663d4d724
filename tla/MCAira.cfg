\* Turns of one or two of thirteen calls, three calls in all, a scan that fails, a
\* token that is lost.
CONSTANTS
  None = None
  Options <- WordOptions
  Durations = {"30"}
  Assignments = {"A=1", "LD_PRELOAD=x"}
  Scripts <- WordScripts
  Called <- Names
  RunsInput = {}
  Relative <- Places
  GroupsOf <- PathGroups
  Workspace = "/ws"
  Scratch = {"/ws", "/ws/script", "/ws/skill"}
  Inside <- InsidePairs
  ScriptLines <- ScriptCommands
  Installers = {}
  BulkRecipients = 2
  Calls <- SessionCalls
  Inner <- InnerCommands
  Plugins = {}
  Steps <- SkillSteps
  Wraps <- Wrappings
  PackSets <- BothPacks
  Window = 2
  MaxCalls = 3
  MaxLosses = 1
CHECK_DEADLOCK FALSE
SPECIFICATION Spec
INVARIANTS
  
  TamperingCoversBatch
  
  
