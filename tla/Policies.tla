------------------------------ MODULE Policies ------------------------------
(***************************************************************************)
(* The policies a zone publishes in records of their own: mail (mail.go,   *)
(* run.go assessMail) and certificates (CertPolicies).  The zone's records *)
(* are fixed; each lookup, memoised for the run, is answered or is not.    *)
(* The one policy that is not in DNS is the MTA-STS file: its host's       *)
(* addresses are dialled all at once (dialFirst), each in a goroutine of   *)
(* its own.  At the end the findings are those of report.go.               *)
(***************************************************************************)
EXTENDS CertPolicies, Sequences, FiniteSets

CONSTANTS
    Zones,       \* the zones to assess
    Selectors,   \* dkimSelectors
    Addresses,   \* what the MTA-STS host's public address records may hold
    MaxLost      \* bound: lookups that did not complete

\* The two lookups of the MTA-STS host's addresses.
Families == {"stsA", "stsAAAA"}

Questions == {"dmarc", "mx", "mxA", "mxAAAA", "control", "mtaSTS", "tlsRPT",
              "caaApex", "caaWWW", "tlsaApex", "tlsaWWW"}
               \union Families \union Selectors

DMARCRecords == [p : {"reject", "none", "missing", "unknown"}, sp : {"unset", "valid", "unknown"},
                 pct : {"unset", "full", "part", "invalid"}]

\* The kinds of MX target, by what their lookups hold: an address in one
\* family, an alias of one, no name, no address, an address in place of a name,
\* no hostname at all, and the null MX.
Targets == {"v4", "v6", "alias", "gone", "empty", "literal", "invalid", "null"}

DKIMStates == {"none", "key", "short", "revoked", "dangling"}

Modes == {"enforce", "testing", "none", "invalid"}

\* A zone: the records at the tested name ("apex"), at www below it and, of CAA,
\* the closest set above it; www is a name only beside a registrable domain.
ZoneKinds ==
    [dmarc : Seq(DMARCRecords), mx : SUBSET Targets,
     dkim : [Selectors -> DKIMStates], dkimWildcard : BOOLEAN,
     mtaSTS : BOOLEAN, mode : Modes, covers : BOOLEAN, tlsRPT : BOOLEAN,
     stsPublic : [Families -> SUBSET Addresses], stsReserved : SUBSET Families,
     registrable : BOOLEAN,
     caa : [{"above", "apex", "www"} -> SUBSET CAARecords], cert : Certs,
     tlsa : [{"apex", "www"} -> SUBSET TLSARecords], chain : [{"apex", "www"} -> Chains],
     signed : BOOLEAN, broken : BOOLEAN]

ASSUME PolicyAssumption ==
    /\ MaxLost \in Nat /\ IsFiniteSet(Addresses) /\ Selectors \subseteq STRING
    /\ \A z \in Zones : z \in ZoneKinds /\ z.stsPublic["stsA"] \intersect z.stsPublic["stsAAAA"] = {}

VARIABLES
    zone, lost,
    pc,        \* where checkMTASTS is
    dialling,  \* dialFirst: the goroutines still in DialContext
    results,   \* its channel, buffered for every address
    open,      \* the connections that are open
    got,       \* results received
    won,       \* the connection kept: a set of one or none
    mtaSTS     \* the MTASTS result

vars == <<zone, lost, pc, dialling, results, open, got, won, mtaSTS>>

NoPolicy == [record |-> FALSE, mode |-> "unread", ok |-> FALSE, covered |-> FALSE, error |-> "none"]

Init ==
    /\ zone \in Zones
    /\ lost \in SUBSET Questions /\ Cardinality(lost) <= MaxLost
    /\ pc = "record"
    /\ dialling = {} /\ results = <<>> /\ open = {} /\ got = 0 /\ won = {}
    /\ mtaSTS = NoPolicy

TypeOK ==
    /\ zone \in Zones /\ lost \subseteq Questions
    /\ pc \in {"record", "resolve", "dial", "policy", "done"}
    /\ dialling \subseteq Addresses /\ open \subseteq Addresses /\ won \subseteq Addresses
    /\ got \in 0..Cardinality(Addresses)
    /\ mtaSTS \in [record : BOOLEAN, mode : Modes \union {"unread"}, ok : BOOLEAN, covered : BOOLEAN,
                   error : {"none", "no_address", "reserved", "fetch", "policy"}]

Answered(q) == q \notin lost

\* The MTA-STS host's public addresses, of the families whose lookup answered.
Public == UNION {zone.stsPublic[f] : f \in {g \in Families : Answered(g)}}

-----------------------------------------------------------------------------
\* parseMTASTSRecord: without the record there is no policy to fetch.
ReadRecord ==
    /\ pc = "record"
    /\ LET found == Answered("mtaSTS") /\ zone.mtaSTS
       IN  /\ mtaSTS' = [mtaSTS EXCEPT !.record = found]
           /\ pc' = IF found THEN "resolve" ELSE "done"
    /\ UNCHANGED <<zone, lost, dialling, results, open, got, won>>

Fail(why) ==
    /\ mtaSTS' = [mtaSTS EXCEPT !.error = why]
    /\ pc' = "done"

\* fetchMTASTSPolicy: the host's addresses, reserved ones set aside.  It judges
\* the addresses in hand and never asks whether both lookups were answered.
ResolveHost ==
    /\ pc = "resolve"
    /\ IF Public = {}
         THEN /\ Fail(IF \E f \in zone.stsReserved : Answered(f) THEN "reserved" ELSE "no_address")
              /\ UNCHANGED dialling
         ELSE /\ dialling' = Public /\ pc' = "dial" /\ UNCHANGED mtaSTS
    /\ UNCHANGED <<zone, lost, results, open, got, won>>

\* One goroutine of dialFirst: its dial ends and its result is sent.  A dial
\* may fail at any time, after cancel above all, and may still complete then.
DialEnds(a) ==
    /\ pc = "dial" /\ a \in dialling
    /\ dialling' = dialling \ {a}
    /\ \E ok \in BOOLEAN :
          /\ results' = Append(results, [addr |-> a, ok |-> ok])
          /\ open' = IF ok THEN open \union {a} ELSE open
    /\ UNCHANGED <<zone, lost, pc, got, won, mtaSTS>>

\* Mutant: a connection made after the first is dropped without being closed.
KeepLate ==
    /\ pc = "dial" /\ results # <<>>
    /\ got' = got + 1 /\ results' = Tail(results)
    /\ won' = IF Head(results).ok /\ won = {} THEN {Head(results).addr} ELSE won
    /\ UNCHANGED <<zone, lost, pc, dialling, open, mtaSTS>>

\* Mutant: nobody receives once there is a winner.
StopAtWinner ==
    /\ pc = "dial" /\ results # <<>> /\ won = {}
    /\ got' = got + 1 /\ results' = Tail(results)
    /\ won' = IF Head(results).ok THEN {Head(results).addr} ELSE won
    /\ UNCHANGED <<zone, lost, pc, dialling, open, mtaSTS>>

\* The collector receives one result: the first connection is kept, which
\* cancels the other dials; a later one is closed.
Collect ==
    /\ pc = "dial" /\ results # <<>>
    /\ got' = got + 1 /\ results' = Tail(results)
    /\ LET r == Head(results)
       IN  /\ won' = IF r.ok /\ won = {} THEN {r.addr} ELSE won
           /\ open' = IF r.ok /\ won # {} THEN open \ {r.addr} ELSE open
    /\ UNCHANGED <<zone, lost, pc, dialling, mtaSTS>>

\* dialFirst has one result per address: it returns.
DialReturns ==
    /\ pc = "dial" /\ got = Cardinality(Public)
    /\ \/ won # {} /\ pc' = "policy" /\ UNCHANGED mtaSTS
       \/ won = {} /\ Fail("fetch")
    /\ UNCHANGED <<zone, lost, dialling, results, open, got, won>>

\* mtaSTSCovers over the hosts of the MX lookup.
mtaSTSCovers == IF Answered("mx") THEN zone.covers ELSE TRUE

\* checkMTASTS: the file is read over the connection, or is not; what was read
\* is parsed and compared with the MX set.  The connection is closed after it.
ReadPolicy ==
    /\ pc = "policy"
    /\ open' = open \ won
    /\ \/ Fail("fetch")
       \/ /\ zone.mode = "invalid"
          /\ mtaSTS' = [mtaSTS EXCEPT !.mode = "invalid", !.error = "policy"] /\ pc' = "done"
       \/ /\ zone.mode # "invalid"
          /\ mtaSTS' = [mtaSTS EXCEPT !.mode = zone.mode, !.ok = TRUE, !.covered = mtaSTSCovers]
          /\ pc' = "done"
    /\ UNCHANGED <<zone, lost, dialling, results, got, won>>

Finished == pc = "done" /\ UNCHANGED vars

Next ==
    \/ ReadRecord \/ ResolveHost
    \/ \E a \in Addresses : DialEnds(a)
    \/ Collect \/ DialReturns \/ ReadPolicy \/ Finished

\* Every dial and every read is under the probe budget, so each ends.
Fairness ==
    /\ WF_vars(ReadRecord) /\ WF_vars(ResolveHost) /\ WF_vars(Collect)
    /\ WF_vars(DialReturns) /\ WF_vars(ReadPolicy)
    /\ \A a \in Addresses : WF_vars(DialEnds(a))

Spec == Init /\ [][Next]_vars /\ Fairness

-----------------------------------------------------------------------------
\* Findings are <<severity, code>> pairs.
Coded(sev, codes) == {<<sev, c>> : c \in codes}

\* parseDMARC.
parseDMARC ==
    [unresolved |-> ~Answered("dmarc"),
     records |-> IF Answered("dmarc") THEN zone.dmarc ELSE <<>>]

\* applyDMARCTags on the first record, and dmarcFindings: what makes receivers
\* ignore the record fails, the rest warns or is a fact.
dmarcProblems(records) ==
    LET r == Head(records)
    IN  Coded("fail", {c \in {"dmarc_multiple", "dmarc_policy_missing", "dmarc_policy_unknown"} :
                         CASE c = "dmarc_multiple" -> Len(records) > 1
                           [] c = "dmarc_policy_missing" -> r.p = "missing"
                           [] OTHER -> r.p = "unknown"})
          \union Coded("warn", {c \in {"dmarc_pct_invalid", "dmarc_subdomain_policy_unknown"} :
                         IF c = "dmarc_pct_invalid" THEN r.pct = "invalid" ELSE r.sp = "unknown"})
          \union Coded("info", {c \in {"dmarc_policy_none", "dmarc_partial_pct"} :
                         IF c = "dmarc_policy_none" THEN r.p = "none" ELSE r.pct = "part"})

dmarcFindings ==
    IF parseDMARC.unresolved THEN IF zone.broken THEN {} ELSE {<<"warn", "dmarc_unknown">>}
    ELSE IF parseDMARC.records = <<>> THEN {<<"warn", "dmarc_absent">>}
    ELSE dmarcProblems(parseDMARC.records)

\* The families an MX target has an address in.
AddrsOf(t) == CASE t \in {"v4", "alias"} -> {"mxA"} [] t = "v6" -> {"mxAAAA"} [] OTHER -> {}

\* checkMXTarget's problems.
checkMXTarget(t) ==
    LET asked == Answered("mxA") /\ Answered("mxAAAA")
    IN  IF t \in {"literal", "invalid"} THEN {t}
        ELSE {p \in {"cname", "unresolved", "nxdomain", "no_address"} :
                  CASE p = "cname" -> t = "alias" /\ (Answered("mxA") \/ Answered("mxAAAA"))
                    [] p = "unresolved" -> ~asked
                    [] p = "nxdomain" -> asked /\ t = "gone"
                    [] OTHER -> asked /\ t # "gone" /\ AddrsOf(t) = {}}

\* checkMX and mxFindings, one problem of one target each.
checkMX ==
    IF ~Answered("mx") THEN {}
    ELSE (UNION {{<<t, p>> : p \in checkMXTarget(t)} : t \in zone.mx \ {"null"}})
           \union {<<t, "null_mixed">> : t \in {n \in zone.mx : n = "null" /\ zone.mx # {"null"}}}

mxFindings == {<<IF m[2] = "unresolved" THEN "warn" ELSE "fail", m[2]>> : m \in checkMX}

\* What a selector's lookup shows; a wildcard answers with a revoked key.
SelectorSeen(s) ==
    IF ~Answered(s) THEN "none"
    ELSE IF zone.dkim[s] # "none" THEN zone.dkim[s]
    ELSE IF zone.dkimWildcard THEN "revoked" ELSE "none"

\* probeDKIM's control: a random selector that is answered is a wildcard.
dkimControl == Answered("control") /\ zone.dkimWildcard

\* SelectorsFound, Revoked and Dangling of probeDKIM.
Selected(kinds) == IF dkimControl THEN {} ELSE {s \in Selectors : SelectorSeen(s) \in kinds}

dkimFindings ==
    Coded("warn", {c \in {"dkim_wildcard", "dkim_selector_revoked"} :
                     IF c = "dkim_wildcard" THEN dkimControl ELSE Selected({"revoked"}) # {}})
      \union Coded("fail", {c \in {"dkim_key_too_short"} : Selected({"short"}) # {}})
      \union Coded("info", {c \in {"dkim_selector_dangling"} : Selected({"dangling"}) # {}})

\* Mutant: a file that could not be read or parsed is no problem.
EnforceOnly == IF mtaSTS.mode = "enforce" /\ ~mtaSTS.covered THEN {<<"fail", "mx_uncovered">>} ELSE {}

\* mtaSTSFindings: enforce mode fails, the rest warns.
mtaSTSFindings ==
    LET sev == IF mtaSTS.mode = "enforce" THEN "fail" ELSE "warn"
    IN  IF ~mtaSTS.record THEN {}
        ELSE IF mtaSTS.error # "none" THEN {<<sev, "failed">>}
        ELSE IF ~mtaSTS.covered /\ mtaSTS.mode # "none" THEN {<<sev, "mx_uncovered">>} ELSE {}

\* mailAbsenceFindings.
mailAbsenceFindings ==
    Coded("info", {c \in {"mta_sts_absent", "tls_rpt_absent"} :
                     IF c = "mta_sts_absent" THEN Answered("mtaSTS") /\ ~mtaSTS.record
                     ELSE Answered("tlsRPT") /\ ~zone.tlsRPT})

Lookup(q, records) ==
    [answered |-> Answered(q), records |-> IF Answered(q) THEN records ELSE {},
     secure |-> Answered(q) /\ zone.signed]

\* run.go, firstWave: www is looked up only beside a registrable domain.
Hosts == IF zone.registrable THEN {"apex", "www"} ELSE {"apex"}

caaQuestion(h) == IF h = "apex" THEN "caaApex" ELSE "caaWWW"

caaLookup(h) == Lookup(caaQuestion(h), zone.caa[h])

\* assessCAA: the verdict on each host, from the records at the tested name and
\* at www.  Nothing above the tested name is looked up.
assessCAA(h) ==
    IF h = "apex" THEN apexVerdict(caaLookup("apex"), zone.cert)
    ELSE wwwVerdict(caaLookup("apex"), caaLookup("www"), zone.cert)

caaAbsent == caaLookup("apex").answered /\ caaLookup("apex").records = {}

\* caaFindings: the hosts whose issuer is denied.
caaDenied == {h \in Hosts : assessCAA(h) = "no"}

tlsaQuestion(h) == IF h = "apex" THEN "tlsaApex" ELSE "tlsaWWW"

tlsaLookups == [h \in Hosts |-> Lookup(tlsaQuestion(h), zone.tlsa[h])]

-----------------------------------------------------------------------------
\* The records that govern a host: its own, or those of its closest ancestor
\* with any (RFC 8659).
GoverningCAA(h) ==
    IF zone.caa[h] # {} THEN zone.caa[h]
    ELSE IF zone.caa["apex"] # {} THEN zone.caa["apex"] ELSE zone.caa["above"]

\* Whether they let the issuer of the certificate that was served issue it.
GoverningPermits(h) ==
    /\ ~criticalUnknownTag(GoverningCAA(h))
    /\ caaPermits(GoverningCAA(h), zone.cert.wildcard)

\* The climb goes past the tested name, which the program never does.
GovernedFromAbove(h) == zone.caa[h] = {} /\ zone.caa["apex"] = {} /\ zone.caa["above"] # {}

\* README, the checks "whose absence is only meaningful once observed": for
\* every combination of lookups that did not complete,
\*   - no DMARC, MTA-STS, TLS-RPT, apex CAA or TLSA record is called absent, and
\*     no MX target nonexistent or without address, that the zone has;
\*   - a selector is found only if configured, but for a wildcard whose control
\*     was lost;
\*   - a CAA verdict is that of the records that govern the host, but where those
\*     are published above the tested name (EffectiveIsGoverning);
\*   - a CAA or TLSA lookup that did not complete leaves no verdict and no "none";
\*   - the MTA-STS host is called without address, or with reserved ones only,
\*     when it is so, but for a family whose lookup was lost: fetchMTASTSPolicy
\*     takes a lost lookup for an empty one.
AbsenceObserved ==
    pc = "done" =>
        /\ <<"warn", "dmarc_absent">> \in dmarcFindings => zone.dmarc = <<>>
        /\ \A m \in checkMX :
              /\ m[2] = "nxdomain" => m[1] = "gone"
              /\ m[2] = "no_address" => m[1] = "empty"
        /\ <<"info", "mta_sts_absent">> \in mailAbsenceFindings => ~zone.mtaSTS
        /\ <<"info", "tls_rpt_absent">> \in mailAbsenceFindings => ~zone.tlsRPT
        /\ \A s \in Selected({"key", "short", "revoked"}) :
              zone.dkim[s] # "none" \/ (zone.dkimWildcard /\ ~Answered("control"))
        /\ caaAbsent => zone.caa["apex"] = {}
        /\ \A h \in Hosts :
              /\ assessCAA(h) # "nil" /\ ~GovernedFromAbove(h) =>
                    (assessCAA(h) = "yes" <=> GoverningPermits(h))
              /\ ~Answered(caaQuestion(h)) => assessCAA(h) = "nil"
        /\ tlsaResult(tlsaLookups, zone.chain) = "none" =>
              \A h \in Hosts : Answered(tlsaQuestion(h)) /\ zone.tlsa[h] = {}
        /\ mtaSTS.error \in {"no_address", "reserved"} =>
              \A f \in Families : zone.stsPublic[f] = {} \/ ~Answered(f)
        /\ mtaSTS.error = "no_address" =>
              \A f \in Families : f \notin zone.stsReserved \/ ~Answered(f)

\* report.go, mailFindings, caaFindings and tlsaFindings: folding and early
\* returns hide nothing.  Told as a failure, when the lookups that show it
\* completed: a DMARC record receivers ignore, an MX target mail cannot reach, a
\* DKIM key too short (unless a wildcard answers any), an issuer the records at the
\* host or at the apex forbid, TLSA records no served chain matches, an MTA-STS
\* file in force that the MX set is outside of.  An MTA-STS policy that could not
\* be had is told too.  Of the lookups that did not complete, DMARC's is told (by
\* the DNSSEC verdict in a broken zone) and so is an MX target's; a lost MX,
\* MTA-STS, TLS-RPT, DKIM, CAA or TLSA lookup gives no finding here.
DefectsTold ==
    pc = "done" =>
        /\ ~Answered("dmarc") => zone.broken \/ <<"warn", "dmarc_unknown">> \in dmarcFindings
        /\ Answered("dmarc") /\ zone.dmarc # <<>>
              /\ (Len(zone.dmarc) > 1 \/ Head(zone.dmarc).p \notin {"none", "reject"})
              => \E f \in dmarcFindings : f[1] = "fail"
        /\ Answered("mx") => \A t \in zone.mx \ {"null"} :
              IF (Answered("mxA") /\ Answered("mxAAAA")) \/ t \in {"literal", "invalid"}
              THEN t \in {"v4", "v6"} \/ \E p \in checkMXTarget(t) : <<"fail", p>> \in mxFindings
              ELSE <<"warn", "unresolved">> \in mxFindings
        /\ \A s \in Selectors :
              Answered(s) /\ zone.dkim[s] = "short" /\ ~(zone.dkimWildcard /\ Answered("control"))
              => <<"fail", "dkim_key_too_short">> \in dkimFindings
        /\ \A h \in Hosts :
              /\ Answered(caaQuestion(h)) /\ (zone.caa[h] = {} => Answered("caaApex"))
              /\ zone.cert.served /\ zone.cert.known
              /\ ~GoverningPermits(h) /\ ~GovernedFromAbove(h)
              => h \in caaDenied
        /\ /\ \A h \in Hosts : Answered(tlsaQuestion(h))
           /\ \E h \in Hosts : zone.tlsa[h] # {} /\ zone.chain[h].served
           /\ \A h \in Hosts : \A rec \in zone.tlsa[h] : ~tlsaMatches(rec, zone.chain[h])
           => "tlsa_mismatch" \in tlsaFindings(tlsaLookups, zone.chain)
        /\ mtaSTS.record =>
              /\ mtaSTS.error # "none" => \E f \in mtaSTSFindings : f[1] \in {"warn", "fail"}
              /\ mtaSTS.ok /\ zone.mode = "enforce" /\ Answered("mx") /\ ~zone.covers =>
                    \E f \in mtaSTSFindings : f[1] = "fail"

\* mail.go, dialFirst: "returns the first connection made, closing any that
\* complete after it.  It fails only when every address does."  No connection
\* is left open once the policy is read, and an address that connected is
\* never reported as a failed fetch of all.
OneConnection ==
    /\ pc = "policy" => open = won /\ dialling = {} /\ results = <<>>
    /\ pc = "done" => open = {} /\ dialling = {} /\ results = <<>>
    /\ got = Cardinality(Public) /\ won = {} => open = {}

\* checkMTASTS returns: the collector waits for every goroutine, winners and
\* cancelled ones alike.
PolicyReturns == <>(pc = "done")

\* README on CAA: `effective` is "the set that governs it after RFC 8659 climbs to
\* the closest ancestor with a CAA set", and `permitted` is true "when no records
\* govern the name, since any CA may then issue".  The climb stops at the tested
\* name, and a host inside a zone is permitted although the zone's set forbids.
EffectiveIsGoverning ==
    pc = "done" => \A h \in Hosts : assessCAA(h) = "yes" => GoverningPermits(h)

\* tlsaFindings: "TLSA records are published in an unsigned zone".
UnsignedMeansUnsigned ==
    pc = "done" /\ "tlsa_unsigned_zone" \in tlsaFindings(tlsaLookups, zone.chain) => ~zone.signed

=============================================================================
