SPECIFICATION Spec
CONSTANTS
    patched = patched
    untrusting = untrusting
    mounted = mounted
    Session = {patched, untrusting, mounted}
    Trusting = {patched, mounted}
    Patched = {patched, untrusting}
    OwnProxies <- MCOwnProxies
    Given <- MCGiven
    NestsSends = FALSE
    MaxCalls = 2
    MaxDepth = 2
INVARIANTS EnvironmentNeverWins
CHECK_DEADLOCK FALSE
