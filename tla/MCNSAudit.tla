----------------------------- MODULE MCNSAudit -----------------------------
(* NSAudit for TLC: names and addresses are model values. *)
EXTENDS NSAudit

CONSTANTS n1, n2, a4, b6, r4

\* The first name has an IPv4 and an IPv6 address, the second shares the IPv4
\* one and has a reserved one, as far as they are published: up to three
\* servers are asked, two of them of one name.
MCZones == {z \in [Names -> SUBSET Addrs] : r4 \notin z[n1] /\ b6 \notin z[n2]}
=============================================================================
