CONSTANTS
  ScriptCalls <- MCCalls
  LastSecond = 1
  LastMinute = 1
  LastHour = 2
  LastDay = 3
  LastMonth = 3
  FirstYear = 1995
  Years = 2
  Offset = 1
  Threads = {t1, t2}
  Addresses = {a1, a2}
  NoAddress = none
  DnsTimeout = 2
  MaxSeconds = 5
SPECIFICATION FunctionsSpec
INVARIANTS ResolvedRecently
PROPERTY TurnsAtItsEnds
CHECK_DEADLOCK FALSE
