CONSTANTS
  Schemas <- MCSchemas
  Children <- MCChildren
  InitialSettings <- MCInitialSettings
  LaterSettings <- MCLaterSettings
  Elsewhere <- MCElsewhere
  TTL = 2
  RunTime = 1
  MaxChanges = 1
  MaxFailures = 1
  MaxTime = 7
SPECIFICATION DesktopSpec
INVARIANTS SettledIsRight
CHECK_DEADLOCK FALSE
