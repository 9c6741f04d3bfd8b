\* Two addresses behind one slot or two, two issuer URLs, one exchange
\* lost and the deadline at any point.
SPECIFICATION Spec
CONSTANTS
    Targets <- MCTargets
    Host <- MCHost
    Deployments <- MCDeployments
    Caps = {1, 2}
    maxAIADepth = 3
    URLs = {"u1", "u2"}
    MaxLost = 1
INVARIANTS
    VerdictsSound
    SameChainSameVerdict
    FindingsSound
PROPERTY
    ProbesReturn
