SPECIFICATION Spec
CONSTANTS
    Thread = {t1}
    requests = requests
    httpx = httpx
    extra = extra
    failing = failing
    Target = {httpx, extra, failing}
    BuiltIn = {httpx, failing}
    Unnamed = {httpx}
    Deciders = {httpx}
    Broken = {}
    Unimportable = {failing}
    Settings <- NoSetting
    ImportsOverlap = FALSE
    MayUninstall = TRUE
    MaxPatches = 2
    MaxVersion = 2
    MaxClients = 1
INVARIANTS RegisteredIsInstalled
PROPERTIES UninstallRemovesAll
CHECK_DEADLOCK FALSE
