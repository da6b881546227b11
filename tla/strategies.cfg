\* One strategy, two requests or cron jobs, the enforcer and the restorer.
SPECIFICATION FairSpec
CONSTANTS
    Strategies = {s1}
    Requests = {r1}
    Enforcer = enforcer
    Restorer = restorer
    Pids = {p1, p2}
    None = None
    Circumstances = {}
INVARIANTS TypeOK  
PROPERTIES StoppedStays PausedResumes
