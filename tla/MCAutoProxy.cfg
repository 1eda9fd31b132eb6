CONSTANTS
  Chars <- MCChars
  Environs <- MCEnvirons
  LaterEnvirons <- MCLaterEnvirons
  Settings <- MCSettings
  LaterSettings <- MCLaterSettings
  Options <- MCOptions
  Urls <- MCUrls
  Proxy <- MCProxy
  PacResults <- MCPacResults
  WinHttpLists <- MCWinHttpLists
SPECIFICATION Spec
INVARIANTS EnvironmentAlone SettingsDecide BypassedGoDirect AnswersEveryUrl
CHECK_DEADLOCK FALSE
