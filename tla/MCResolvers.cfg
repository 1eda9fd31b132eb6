CONSTANTS
  MacReplies <- MCMacReplies
  PacReplies <- MCPacReplies
  Deadline = 2
  Threads = {1, 2, 3}
  Handles = {1, 2, 3, 4, 5}
  Kinds = {"libproxy", "winhttp", "pac", "httpx", "macos"}
  ClosesAnytime = {"libproxy"}
  MaxOps = 2
SPECIFICATION FairSpec
INVARIANTS UsesLiveHandles NothingLeaks WholeOrNoOpinion
PROPERTY EveryLookupReturns
CHECK_DEADLOCK FALSE
