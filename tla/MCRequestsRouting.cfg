SPECIFICATION Spec
CONSTANTS
    patched = patched
    untrusting = untrusting
    mounted = mounted
    Session = {patched, untrusting, mounted}
    Trusting = {patched, mounted}
    Patched = {patched, untrusting}
    OwnProxies <- MCOwnProxies
    Given <- MCGiven
    NestsSends = FALSE
    MaxCalls = 3
    MaxDepth = 2
INVARIANTS TypeOK CallersProxyWins MapBeatsEnvironment UntrustingIgnoresMap
CHECK_DEADLOCK FALSE
