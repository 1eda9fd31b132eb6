SPECIFICATION Spec
CONSTANTS
    Thread = {t1, t2}
    requests = requests
    httpx = httpx
    extra = extra
    failing = failing
    Target = {httpx, extra, failing}
    BuiltIn = {httpx, failing}
    Unnamed = {httpx}
    Deciders = {}
    Broken = {}
    Unimportable = {failing}
    Settings <- OffOnly
    ImportsOverlap = TRUE
    MayUninstall = FALSE
    MaxPatches = 2
    MaxVersion = 1
    MaxClients = 1
INVARIANTS CoveredClientsFollow
CHECK_DEADLOCK FALSE
