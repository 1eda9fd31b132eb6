CONSTANTS
  MacReplies <- MCMacReplies
  PacReplies <- MCPacReplies
  Deadline = 2
  Threads = {1, 2}
  Handles = {1, 2, 3}
  Kinds = {"pac", "winhttp", "httpx"}
  ClosesAnytime = {"pac", "winhttp", "httpx"}
  MaxOps = 2
SPECIFICATION Spec
INVARIANT UsesLiveHandles
CHECK_DEADLOCK FALSE
