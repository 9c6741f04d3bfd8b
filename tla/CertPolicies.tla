---------------------------- MODULE CertPolicies ----------------------------
(***************************************************************************)
(* The certificate policies a domain publishes, judged against what its    *)
(* hosts served (caa.go, tlsa.go, run.go assessCertPolicies).  A lookup is *)
(* a record: whether it was answered, the records it carries, whether the  *)
(* answer validated.  A certificate authority is what it is to the leaf    *)
(* that was served: the one that issued it or another.                     *)
(***************************************************************************)
EXTENDS Naturals

\* parseCAA, up to whom a value names.  "nobody" is the value ";".
CAARecords == [tag : {"issue", "issuewild", "iodef", "unknown"},
               who : {"issuer", "other", "nobody"}, critical : BOOLEAN]

\* servedCert: whether a leaf was observed, whether its issuer is in the table
\* of caaIDsFor and whether it is a wildcard.
Certs == [served : BOOLEAN, known : BOOLEAN, wildcard : BOOLEAN]

\* The tag that governs a leaf: issuewild only when a record carries it.
GoverningTag(records, wildcard) ==
    IF wildcard /\ \E r \in records : r.tag = "issuewild" THEN "issuewild" ELSE "issue"

caaPermits(records, wildcard) ==
    LET tagged == {r \in records : r.tag = GoverningTag(records, wildcard)}
    IN  tagged = {} \/ \E r \in tagged : r.who = "issuer"

criticalUnknownTag(records) == \E r \in records : r.critical /\ r.tag = "unknown"

\* caaVerdict's permitted: "yes", "no" or "nil".
caaVerdict(effective, known, cert) ==
    IF ~known \/ ~cert.served THEN "nil"
    ELSE IF effective = {} THEN "yes"
    ELSE IF criticalUnknownTag(effective) THEN "no"
    ELSE IF ~cert.known THEN "nil"
    ELSE IF caaPermits(effective, cert.wildcard) THEN "yes" ELSE "no"

\* Mutant: www climbs to the apex whenever it has no records in hand.
ClimbAlways(apex, www, cert) ==
    LET climb == www.records = {}
    IN  caaVerdict(IF climb THEN apex.records ELSE www.records, climb => apex.answered, cert)

\* wwwVerdict: the climb needs www's own answer that it publishes none, and the
\* apex's answer.
wwwVerdict(apex, www, cert) ==
    LET climb == www.records = {} /\ www.answered
    IN  caaVerdict(IF climb THEN apex.records ELSE www.records,
                   IF climb THEN apex.answered ELSE www.records # {}, cert)

apexVerdict(apex, cert) == caaVerdict(apex.records, apex.answered, cert)

-----------------------------------------------------------------------------
\* A TLSA record, up to what it asks of the served chain: usages 0 and 1 demand
\* PKIX validity, usages 0 and 2 may match any certificate of the chain.
TLSARecords == [pkix : BOOLEAN, anchor : BOOLEAN, data : {"leaf", "issuer", "other"}]

\* A chain: whether one was served, holds the issuer, and is PKIX valid.
Chains == [served : BOOLEAN, issuer : BOOLEAN, pkixValid : BOOLEAN]

tlsaMatches(rec, chain) ==
    /\ rec.pkix => chain.pkixValid
    /\ \/ rec.data = "leaf"
       \/ rec.anchor /\ rec.data = "issuer" /\ chain.issuer

\* matchTLSA for one address: the stamp of stampHost.
matchTLSA(records, chain) ==
    IF \E r \in records : tlsaMatches(r, chain) THEN "match" ELSE "mismatch"

\* stampHosts: the stamps of the hosts that have records and a chain.
stampHosts(recs, chains) ==
    {matchTLSA(recs[h].records, chains[h]) :
        h \in {g \in DOMAIN recs : recs[g].records # {} /\ chains[g].served}}

\* assessTLSA's result, over the hosts that were asked.
tlsaResult(recs, chains) ==
    LET stamps == stampHosts(recs, chains)
    IN  IF \A h \in DOMAIN recs : recs[h].records = {}
        THEN IF \A h \in DOMAIN recs : recs[h].answered THEN "none" ELSE "unknown"
        ELSE IF stamps = {} THEN "unverified"
        ELSE IF "match" \in stamps THEN "match" ELSE "mismatch"

\* TLSAReport.Signed.
tlsaSigned(recs) == \A h \in DOMAIN recs : recs[h].secure

tlsaFindings(recs, chains) ==
    LET result == tlsaResult(recs, chains)
    IN  IF result \in {"none", "unknown"} THEN {}
        ELSE {c \in {"tlsa_unsigned_zone", "tlsa_mismatch"} :
                IF c = "tlsa_mismatch" THEN result = "mismatch" ELSE ~tlsaSigned(recs)}

=============================================================================
