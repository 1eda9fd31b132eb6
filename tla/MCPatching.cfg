SPECIFICATION Spec
CONSTANTS
    Thread = {t1, t2}
    requests = requests
    httpx = httpx
    extra = extra
    failing = failing
    Target = {httpx, extra, failing}
    BuiltIn = {httpx, failing}
    Unnamed = {httpx}
    Deciders = {httpx}
    Broken = {}
    Unimportable = {failing}
    Settings <- OffOrAuto
    ImportsOverlap = FALSE
    MayUninstall = TRUE
    MaxPatches = 2
    MaxVersion = 1
    MaxClients = 1
SYMMETRY Symmetry
INVARIANTS TypeOK InstalledOnce CoveredClientsFollow
PROPERTIES UndoRestores
CHECK_DEADLOCK FALSE
