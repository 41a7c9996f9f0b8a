SPECIFICATION Spec
CONSTANTS
  r1 = r1
  r2 = r2
  s = s
  t = t
  plain = plain
  ac = ac
  Source <- MCSource
  Header <- MCHeader
  Generated <- MCGenerated
  Includes <- MCIncludes
  Databases <- MCDatabases
  Absent = Absent
  Run <- MCOneRun
  QuietRuns = TRUE
  Removable <- MCRemovable
  MaxChanges = 2
  MaxRuns = 2
  MaxFailures = 0
  NoFlow = NoFlow
  NoEntry = NoEntry
  Unread = Unread
  Pending = Pending
CHECK_DEADLOCK FALSE
INVARIANT FlowCacheExact
