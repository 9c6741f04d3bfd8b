\* Chains over four domains, with limits small enough to be exceeded in
\* number and in depth.
SPECIFICATION Spec
CONSTANTS
    Apex = apex
    x = x
    y = y
    z = z
    NoDomain = NoDomain
    Domains = {apex, x, y, z}
    Addrs = {1, 2}
    Zones <- MCZones
    spfLookupLimit = 2
    spfVoidLimit = 1
    PathLimit = 2
INVARIANTS
    QueriesBounded
    RedundantRemovable
    ChargesMatch
    PassAllFound
