\* Two threads of the host and both files: three commands or edits, two ids, a
\* channel bound by command and one bound in the settings, and snoozes of the
\* longest time, so that a command that comes late to the lock meets one that
\* is too long by the clock it read.
CONSTANTS
  None = None
  Sessions = {s1, s2}
  Ids = {g1, g2}
  Spans = {1}
  Channels = {c1, c2}
  ConfigChannels = {c2}
  Durations = {2}
  SnoozeMax = 2
  MaxEntries = 2
  Verbs = {"grant", "revoke", "bind_add", "bind_remove", "set", "off"}
  Processes = {{t1, t2}}
  MaxCommands = 3
  MaxNow = 2
SYMMETRY Symmetry
SPECIFICATION Spec
INVARIANTS
  SentIsOnRecord
PROPERTIES
  Serialised
  ReliefOnlyBySet
  SnoozeLasts
CHECK_DEADLOCK FALSE
