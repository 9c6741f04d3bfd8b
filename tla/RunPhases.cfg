\* Every configuration and every outcome of the checks.
SPECIFICATION RunSpec
INVARIANTS
    JoinedBeforeFinish
    DeadlineTold
    NoCancelledWeb
PROPERTY RunReturns
