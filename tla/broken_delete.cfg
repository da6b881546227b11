\* A strategy is deleted while it runs.
SPECIFICATION FairSpec
CONSTANTS
    Strategies = {s1}
    Requests = {r1}
    Enforcer = enforcer
    Restorer = restorer
    Pids = {p1, p2}
    None = None
    Circumstances = {"deletesRunning"}
PROPERTIES LockGivenBack
