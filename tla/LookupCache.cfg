\* Two goroutines, one valid name and one that is not a DNS name, and one
\* slot contended by a foreign tool; every tool may hang.
SPECIFICATION Spec
CONSTANTS
    Tasks = {t1, t2}
    Keys = {k1, bad}
    BadKeys = {bad}
    NoKey = NoKey
    Cap = 1
    MaxGets = 1
    ForeignRuns = 1
INVARIANTS
    SlotsConserved
    InFlightUnderCurrentContext
    TrustWithheld
PROPERTIES
    AnswersKept
    RunEnds
