----------------------------- MODULE MCPolicies -----------------------------
(* Zones that vary one policy at a time from one that publishes them all.    *)
EXTENDS Policies

DMARC(p, sp, pct) == [p |-> p, sp |-> sp, pct |-> pct]
Issue(who) == [tag |-> "issue", who |-> who, critical |-> FALSE]
Wild(who)  == [tag |-> "issuewild", who |-> who, critical |-> FALSE]
Odd(critical) == [tag |-> "unknown", who |-> "nobody", critical |-> critical]

Leaf(wildcard) == [served |-> TRUE, known |-> TRUE, wildcard |-> wildcard]

Base == [dmarc |-> <<DMARC("reject", "unset", "unset")>>, mx |-> {"v4"},
         dkim |-> [s \in Selectors |-> "key"], dkimWildcard |-> FALSE,
         mtaSTS |-> FALSE, mode |-> "enforce", covers |-> TRUE, tlsRPT |-> TRUE,
         stsPublic |-> [f \in Families |-> {}], stsReserved |-> {}, registrable |-> TRUE,
         caa |-> [h \in {"above", "apex", "www"} |-> {}], cert |-> Leaf(FALSE),
         tlsa |-> [h \in {"apex", "www"} |-> {}],
         chain |-> [h \in {"apex", "www"} |-> [served |-> TRUE, issuer |-> TRUE, pkixValid |-> FALSE]],
         signed |-> TRUE, broken |-> FALSE]

MailZones ==
    {[Base EXCEPT !.dmarc = d, !.broken = b] :
        d \in {<<>>, <<DMARC("none", "valid", "part")>>, <<DMARC("missing", "unknown", "invalid")>>,
               <<DMARC("unknown", "unset", "full")>>,
               <<DMARC("reject", "unset", "unset"), DMARC("none", "unset", "unset")>>},
        b \in BOOLEAN}
    \union {[Base EXCEPT !.mx = {t, u}] : t \in Targets, u \in {"v4", "null"}}
    \union {[Base EXCEPT !.dkim = d, !.dkimWildcard = w] : d \in [Selectors -> DKIMStates], w \in BOOLEAN}

\* The MTA-STS host: two IPv4 addresses and one IPv6 address at most.
PolicyZones ==
    {[Base EXCEPT !.mtaSTS = TRUE, !.mode = m, !.covers = c, !.stsReserved = r,
                  !.stsPublic = [stsA |-> a \ {"a3"}, stsAAAA |-> a \intersect {"a3"}]] :
        m \in Modes, c \in BOOLEAN, a \in SUBSET Addresses, r \in SUBSET Families}

CertZones ==
    {[Base EXCEPT !.caa["above"] = b, !.caa["apex"] = a, !.caa["www"] = w, !.cert = c,
                  !.registrable = (b = {})] :
        b \in {{}, {Issue("other")}},
        a \in {{}, {Issue("issuer")}, {Issue("other")}, {Issue("issuer"), Wild("nobody")}},
        w \in {{}, {Issue("nobody")}, {Odd(FALSE)}, {Odd(TRUE), Issue("issuer")}},
        c \in {Leaf(FALSE), Leaf(TRUE), [Leaf(FALSE) EXCEPT !.known = FALSE], [Leaf(FALSE) EXCEPT !.served = FALSE]}}
    \union {[Base EXCEPT !.tlsa["apex"] = a, !.tlsa["www"] = w, !.signed = s] :
        a \in SUBSET {[pkix |-> FALSE, anchor |-> TRUE, data |-> "issuer"],
                      [pkix |-> TRUE, anchor |-> FALSE, data |-> "leaf"]},
        w \in {{}, {[pkix |-> FALSE, anchor |-> FALSE, data |-> "other"]}}, s \in BOOLEAN}

MCZones == MailZones \union PolicyZones \union CertZones

=============================================================================
