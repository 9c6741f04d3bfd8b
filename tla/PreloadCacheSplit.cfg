\* A run that may get stuck, with the lock or without, one that cannot create
\* the system lock and one without a cache; one may be killed and the host may
\* lose power, each once.
SPECIFICATION Spec
CONSTANTS
    MaxAge = 1
    StartTime = 1
    MaxTime = 1
    Procs = {p1, p2, u}
    Warmers = {}
    Uncached = {u}
    Private = {p2}
    Stuck = {p1}
    NoProc = NoProc
    MaxCrashes = 1
INVARIANT LockHeldInside
PROPERTY EveryCallReturns
