SPECIFICATION Spec
CONSTANTS
    patched = patched
    untrusting = untrusting
    mounted = mounted
    Session = {patched, untrusting, mounted}
    Trusting = {patched, mounted}
    Patched = {patched, untrusting}
    OwnProxies <- MCOwnProxies
    Given <- MCGiven
    NestsSends = TRUE
    MaxCalls = 2
    MaxDepth = 2
INVARIANTS UntrustingIgnoresMap
CHECK_DEADLOCK FALSE
