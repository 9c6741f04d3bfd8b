\* Safety: two runs and a warm-up share the lock; one may be killed and the
\* host may lose power, each once.
SPECIFICATION Spec
CONSTANTS
    MaxAge = 2
    StartTime = 2
    MaxTime = 3
    Procs = {p1, p2, w}
    Warmers = {w}
    Uncached = {}
    Private = {}
    Stuck = {}
    NoProc = NoProc
    MaxCrashes = 1
INVARIANTS
    AnsweredMeansCached
PROPERTY ImplementsStore
SYMMETRY RunSymmetry
