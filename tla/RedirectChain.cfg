\* Two families, three requests a chain; up to two answers out of turn and up
\* to two lost or refused.
SPECIFICATION Spec
CONSTANTS
    URLs <- MCURLs
    Bads <- MCBads
    Long <- MCLong
    Clips <- MCClips
    Clip <- MCClip
    Key <- MCKey
    Short <- MCShort
    Scheme <- MCScheme
    Host <- MCHost
    Apex = "apex"
    WWW = "www"
    Entry = "h"
    Families = {v4, v6}
    maxRedirectHops = 2
    MaxOdd = 2
INVARIANTS
    ChainBounded
    ChainFindingsSound
    SteadyServerConsistent
SYMMETRY FamilySymmetry
