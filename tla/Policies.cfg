\* Two DKIM selectors, three addresses of the MTA-STS host, up to two lookups
\* that did not complete.
SPECIFICATION Spec
CONSTANTS
    Zones <- MCZones
    Selectors = {"s1", "s2"}
    Addresses = {"a1", "a2", "a3"}
    MaxLost = 2
INVARIANTS
    AbsenceObserved
    DefectsTold
    
PROPERTY
    PolicyReturns
