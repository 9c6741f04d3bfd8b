----------------------------- MODULE MCWebProbes -----------------------------
(* Two addresses of one host behind one slot or two, and the pairs of        *)
(* servers that tell the checks apart.                                      *)
EXTENDS WebProbes, TLC

t1 == "address 1"
t2 == "address 2"

MCTargets == {t1, t2}
MCHost == [t \in MCTargets |-> "apex"]

Full == [p80 |-> "open", plain |-> "https", p443 |-> "open", tls |-> TRUE, protos |-> {"h1", "h2"},
         strict |-> FALSE, page |-> "ok", old |-> FALSE, defect |-> "valid", issuers |-> <<>>,
         trustedAt |-> 0, h3 |-> "serves", altsvc |-> TRUE]

\* No HTTP/2, old TLS, UDP 443 dropped.
Plain == [Full EXCEPT !.protos = {"h1"}, !.old = TRUE, !.h3 = "silent", !.altsvc = FALSE]

\* An h2-only server refuses the main handshake, and would accept TLS 1.0.
H2Only == [Full EXCEPT !.protos = {"h2"}, !.strict = TRUE, !.old = TRUE, !.h3 = "refuses", !.altsvc = FALSE]

\* Chains that need two fetched issuers, or one, and one that has none.
Cross == [Full EXCEPT !.defect = "issuer", !.issuers = <<"u1", "u2">>, !.trustedAt = 2]
Short == [Full EXCEPT !.defect = "issuer", !.issuers = <<"u2">>, !.trustedAt = 1, !.altsvc = FALSE]
Alien == [Full EXCEPT !.defect = "issuer", !.issuers = <<"u1", "u2">>]

\* h3 is offered without Alt-Svc; nothing listens on 443, or on 80.
Closed == [Plain EXCEPT !.p443 = "refused", !.plain = "denied"]
Dark   == [Plain EXCEPT !.p80 = "filtered", !.page = "5xx", !.defect = "expired"]
Failing == [Full EXCEPT !.plain = "5xx", !.tls = FALSE]

\* TLS on 443, and no HTTP over it.
Mute == [Closed EXCEPT !.p443 = "open", !.protos = {}]

Pairs == {<<Full, Plain>>, <<Full, H2Only>>, <<Full, Dark>>, <<Closed, Plain>>, <<Closed, Failing>>, <<Closed, Mute>>,
          <<Cross, Cross>>, <<Cross, Short>>, <<Alien, Alien>>}

MCDeployments == {(t1 :> p[1]) @@ (t2 :> p[2]) : p \in Pairs}

=============================================================================
