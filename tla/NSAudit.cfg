\* Two nameserver names, one of them in the zone, over an IPv4, an IPv6 and a
\* reserved address: up to three servers are asked, and names share an address.
SPECIFICATION Spec
CONSTANTS
    n1 = n1
    n2 = n2
    a4 = a4
    b6 = b6
    r4 = r4
    Names = {n1, n2}
    Addrs = {a4, b6, r4}
    V4 = {a4, r4}
    Reserved = {r4}
    Families = {"ipv4", "ipv6"}
    InBailiwick = {n2}
    Zones <- MCZones
INVARIANTS
    AnswersStand
    DeadZoneUnheard
    FindingsMatchAnswers
PROPERTY AuditReturns
