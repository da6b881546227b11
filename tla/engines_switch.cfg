\* Two requests switch the engine while the proxy comes and goes.
SPECIFICATION FairSpec
CONSTANTS
    Callers = {c1, c2}
    Polls = {p1, p2}
    Watchers = {w1, w2}
    None = None
    EngineType = "websocket"
INVARIANTS TypeOK ForgottenPollsStop ServedAsWanted
PROPERTIES CallsReturn StopEndsThreads UpgradeHappens
