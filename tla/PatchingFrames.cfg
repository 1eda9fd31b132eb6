SPECIFICATION Spec
CONSTANTS
    Thread = {t1, t2}
    requests = requests
    httpx = httpx
    extra = extra
    failing = failing
    Target = {httpx, extra, failing}
    BuiltIn = {httpx, failing}
    Unnamed = {httpx}
    Deciders = {httpx}
    Broken = {}
    Unimportable = {failing}
    Settings <- OffOrAuto
    ImportsOverlap = FALSE
    MayUninstall = FALSE
    MaxPatches = 2
    MaxVersion = 1
    MaxClients = 1
INVARIANTS InstalledWhenRegistered FailedPatchIsOver ClientsChooseThemselves
CHECK_DEADLOCK FALSE
