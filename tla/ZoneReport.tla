----------------------------- MODULE ZoneReport -----------------------------
(***************************************************************************)
(* What a run concludes about the name itself: is it a zone, is it signed, *)
(* is it delegated, is it registered, and does the report pass (run.go:    *)
(* gatherDNS, classifyDNS, classifyZone; dnssec.go; rdap.go; the DNS part  *)
(* of report.go's buildFindings; the exit status of main.go).              *)
(*                                                                         *)
(* The name and the resolver are drawn in Init.  A lookup, the trace, the  *)
(* +cd probe, the audit and the registry either tell the truth about them  *)
(* or are lost; at most MaxLost are, or a whole wave of lookups at once.   *)
(* How the lookups are made is LookupCache, the audit NSAudit, the order   *)
(* of the phases RunPhases; what the web, mail and certificate sections    *)
(* add to the report is one flag here.                                     *)
(***************************************************************************)
EXTENDS Delegation, FiniteSets, FiniteSetsExt

CONSTANTS
    RecordSets,   \* the sets of address, MX and TXT records a name may have
    MaxLost       \* how many answers are lost at most

ASSUME RecordsAssumption == RecordSets \subseteq SUBSET {"A", "AAAA", "MX", "TXT"}
ASSUME LostAssumption == MaxLost \in Nat

VARIABLES
    zone,       \* the world: the name
    resolver,   \* the world: which of the resolver's addresses validate
    stage,      \* where run is
    look,       \* dns.apex, dns.www, dns.ds and dns.dnskey, by query
    reach,      \* dns.reach
    deleg,      \* rep.Delegation as the trace left it, then as classified
    notAZone,   \* rep.NotAZone
    dnssec,     \* rep.DNSSEC.State
    silent,     \* noServerAnswers(rep.Nameservers)
    rdap,       \* rep.RDAP, and what the registry has
    report,     \* rep.Findings, by code, and rep.OK
    lost        \* how many answers have been lost

world == <<zone, resolver>>
vars  == <<world, stage, look, reach, deleg, notAZone, dnssec, silent, rdap, report, lost>>

-----------------------------------------------------------------------------
(* The world.                                                              *)

Families  == {"ipv4", "ipv6"}
apexTypes == <<"A", "AAAA", "MX", "TXT", "NS">>
ApexTypes == {apexTypes[i] : i \in DOMAIN apexTypes}
wwwTypes  == {"wwwA", "wwwAAAA"}
Queries   == ApexTypes \union wwwTypes \union {"DS", "DNSKEY"}

\* How the zone of the name is signed.  A validator cannot follow the chain
\* of a "broken" zone or of a "keyless" one (a DS and no DNSKEY), and knows
\* no algorithm of an "unsupported" one.
Signings == {"unsigned", "secure", "broken", "unsupported", "island", "keyless"}
WithDS   == {"secure", "broken", "unsupported", "keyless"}
Bogus    == {"broken", "keyless"}

\* What the servers of a delegated zone do: answer, with the parent's NS set
\* or another; answer for the parent zone as well, under their own name or a
\* hidden one; answer without NS records; fail, or never answer.
Servers == {"answer", "differ", "same", "hidden", "nons", "dead", "hung"}
Dead(z) == z.kind = "zone" /\ z.servers \in {"dead", "hung"}

Name(kinds, signings, servers) ==
    [kind : kinds, signing : signings, servers : servers, records : RecordSets]

\* A delegated zone, a host inside a zone, an alias (of no name, if it has no
\* records), a name that does not exist, one an RFC reserves, and one that
\* dog cannot encode.
Worlds ==
    Name({"zone"}, Signings, Servers \ {"dead", "hung"})
    \union Name({"zone"}, {"unsigned", "secure"}, {"dead", "hung"})
    \union Name({"host", "alias"}, {"unsigned", "secure", "broken"}, {"answer"})
    \union {z \in Name({"absent", "reserved", "unqueryable"}, {"unsigned", "secure"}, {"answer"}) :
                z.records = {} /\ (z.kind # "absent" => z.signing = "unsigned")}

\* The lookups go through one address of the resolver; behind the other
\* family's, if it serves both, there may be another resolver.
Resolvers == [validates : [Families -> BOOLEAN], via : {"ipv4"}, serves : {{"ipv4"}, Families}]

Asked(z) == IF z.kind \in {"host", "alias"} THEN Queries \ wwwTypes ELSE Queries

Has(z, q) ==
    \/ q \in z.records
    \/ q = "wwwA" /\ "A" \in z.records
    \/ q = "wwwAAAA" /\ "AAAA" \in z.records
    \/ q = "NS" /\ z.kind = "zone" /\ z.servers # "nons"
    \/ q = "NS" /\ z.kind = "alias" /\ z.records # {}
    \/ q = "DS" /\ z.kind = "zone" /\ z.signing \in WithDS
    \/ q = "DNSKEY" /\ z.kind = "zone" /\ z.signing \in Signings \ {"unsigned", "keyless"}

\* A lookup as the report reads it.
Lookup(status, has, cname, soa, trust, unqueryable) ==
    [status |-> status, has |-> has, cname |-> cname, soa |-> soa, trust |-> trust,
     unqueryable |-> unqueryable]

Lost(status) == Lookup(status, FALSE, FALSE, "none", "", FALSE)
Unasked      == Lost("none")
Failed(l)    == l.status = "failure"
Answered(l)  == l.status \in {"ok", "nxrrset", "nxdomain"}

\* A name that is not there: every query is answered NXDOMAIN.
NoSuchName(z, q) ==
    \/ z.kind \in {"absent", "reserved"}
    \/ z.kind = "alias" /\ z.records = {}
    \/ q \in wwwTypes /\ "A" \notin z.records

\* The resolver's answer.  The parent answers for a zone's DS.
Truth(z, q, validates) ==
    CASE z.kind = "unqueryable" -> Lookup("failure", FALSE, FALSE, "none", "", TRUE)
      [] Dead(z) /\ q # "DS" -> Lost(IF z.servers = "dead" THEN "failure" ELSE "timeout")
      [] /\ ~Dead(z) /\ z.kind # "unqueryable" /\ validates /\ z.signing \in Bogus
         /\ (z.kind = "zone" => q # "DS") -> Lost("failure")
      [] OTHER ->
            Lookup(IF Has(z, q) THEN "ok" ELSE IF NoSuchName(z, q) THEN "nxdomain" ELSE "nxrrset",
                   Has(z, q),
                   z.kind = "alias",
                   IF Has(z, q) THEN "none" ELSE IF z.kind = "zone" THEN "own" ELSE "above",
                   IF validates /\ z.signing = "secure" THEN "secure" ELSE "insecure",
                   FALSE)

\* What `dig +trace' prints, from the root to the last server that answers.
TraceTruth(z) ==
    LET root     == Block({}, "none", "root")
        referral == Block({"n1", "n2"}, "none", "parent")
        denial   == Block({}, "other", "parent")
    IN  CASE z.kind = "zone" ->
                 (CASE z.servers = "answer" -> <<root, referral, Block({"n1", "n2"}, "none", "n1")>>
                    [] z.servers = "differ" -> <<root, referral, Block({"n1", "n3"}, "none", "n1")>>
                    [] z.servers = "same"   -> <<root, Block({"n1", "n2"}, "none", "n1")>>
                    [] z.servers = "nons"   -> <<root, referral, Block({}, "own", "n1")>>
                    [] OTHER                -> <<root, referral>>)
          [] z.kind \in {"host", "absent"} -> <<root, denial>>
          [] OTHER -> <<root>>

\* What the registry has: a domain on hold is taken out of the zone above.
Registry(z) ==
    CASE z.kind = "absent" -> {"none", "hold", "deleting"}
      [] Dead(z)           -> {"active", "hold"}
      [] OTHER             -> {"active"}

NoRDAP == [asked |-> FALSE, registered |-> "nil", status |-> {}, truth |-> {}]

Init ==
    /\ zone \in Worlds /\ resolver \in Resolvers
    /\ stage = "gather"
    /\ look = [q \in Queries |-> Unasked]
    /\ reach = [f \in Families |-> "skipped"]
    /\ deleg = Deleg("none", {}, "") /\ notAZone = FALSE /\ dnssec = "none"
    /\ silent = FALSE /\ rdap = NoRDAP
    /\ report = [codes |-> {}, ok |-> FALSE]
    /\ lost = 0

-----------------------------------------------------------------------------
(* The DNS phase.                                                          *)

\* Up to n members of S.
UpTo(n, S) == UNION {kSubset(k, S) : k \in 0..n}

\* checkReachability: a family the resolver has no address of is skipped.
Reached(gone) ==
    [f \in Families |-> IF f \notin resolver.serves THEN "skipped"
                       ELSE IF f \in gone THEN "no" ELSE "yes"]

\* gatherDNS: every lookup of the fixed set, and the root NS over each family.
\* One may time out or fail for once; or the wave's budget is spent.
GatherDNS ==
    /\ stage = "gather"
    /\ \E gone \in UpTo(MaxLost, Asked(zone) \union resolver.serves) :
         \E how \in [gone -> {"timeout", "failure"}] :
            /\ \A f \in gone \intersect Families : how[f] = "timeout"
            /\ look' = [q \in Queries |->
                          CASE q \in gone -> Lost(how[q])
                            [] q \in Asked(zone) \ gone ->
                                   Truth(zone, q, resolver.validates[resolver.via])
                            [] OTHER -> Unasked]
            /\ reach' = Reached(gone)
            /\ lost' = Cardinality(gone)
    /\ stage' = "trace"
    /\ UNCHANGED <<world, deleg, notAZone, dnssec, silent, rdap, report>>

WaveSpent ==
    /\ stage = "gather" /\ MaxLost > 0
    /\ look' = [q \in Queries |-> IF q \in Asked(zone) THEN Lost("timeout") ELSE Unasked]
    /\ reach' = Reached({})
    /\ lost' = 1
    /\ stage' = "trace"
    /\ UNCHANGED <<world, deleg, notAZone, dnssec, silent, rdap, report>>

\* runTrace, beside the lookups; a reserved name is not traced.
RunTrace ==
    /\ stage = "trace"
    /\ \/ zone.kind = "reserved" /\ UNCHANGED <<deleg, lost>>
       \/ /\ zone.kind # "reserved"
          /\ \E blocks \in CutShort(TraceTruth(zone)), aa \in BOOLEAN :
                LET cut == blocks # TraceTruth(zone) \/ aa # (zone.servers = "hidden")
                IN  /\ aa => zone.servers = "hidden"
                    /\ cut => lost < MaxLost
                    /\ deleg' = traceDelegation(blocks, aa)
                    /\ lost' = lost + (IF cut THEN 1 ELSE 0)
    /\ stage' = "classify"
    /\ UNCHANGED <<world, look, reach, notAZone, dnssec, silent, rdap, report>>

-----------------------------------------------------------------------------
(* The verdicts on the zone.                                               *)

\* The trust of the root NS answers: does the resolver validate at all?
resolverValidates ==
    LET heard == {f \in Families : reach[f] = "yes"}
    IN  CASE heard = {} -> "nil"
          [] \E f \in heard : resolver.validates[f] -> "yes"
          [] OTHER -> "no"

blind == resolverValidates = "no"

dropTrust(l) == [l EXCEPT !.trust = IF blind THEN "" ELSE l.trust]

anyPositive   == \E q \in ApexTypes \ {"NS"} : look[q].has
enclosingZone == \E q \in ApexTypes : look[q].soa = "above"

\* Mutant: the trace's referral is not consulted.
NSAnswerOnly ==
    look["NS"].cname \/ (look["NS"].status = "nxrrset" /\ (enclosingZone \/ anyPositive))

detectNotAZone ==
    /\ deleg.parentNS = {}
    /\ \/ look["NS"].cname
       \/ look["NS"].status = "nxrrset" /\ (enclosingZone \/ anyPositive)

nameDoesNotExist == look["NS"].status = "nxdomain" \/ look["A"].status = "nxdomain"
noRecordsAtAll   == \A q \in ApexTypes : Answered(look[q]) /\ ~look[q].has
apexAbsent       == nameDoesNotExist \/ noRecordsAtAll

\* From the answers of a name that is no zone.
classifyByTrust ==
    LET trusts == {dropTrust(look[q]).trust : q \in {t \in ApexTypes : Answered(look[t])}}
    IN  CASE "insecure" \in trusts -> "insecure"
          [] "insecure" \notin trusts /\ "secure" \in trusts -> "secure"
          [] OTHER -> "unknown"

\* The lookups that failed, by their place in firstFailed's order: the apex in
\* report order, DS, DNSKEY.
failOrder   == <<"A", "AAAA", "MX", "TXT", "NS", "DS", "DNSKEY">>
failures    == {i \in DOMAIN failOrder : Failed(look[failOrder[i]])}
firstFailed == failOrder[Min(failures)]

unsignedDelegation == look["DS"].status = "nxrrset"

signedState ==
    LET t == dropTrust(look["DNSKEY"]).trust IN IF t \in {"secure", "insecure"} THEN t ELSE "unknown"

\* Mutant: a failure that answers with checking disabled is bogus anywhere.
BogusAnywhere(hasData) == IF hasData THEN "bogus" ELSE "servfail"

\* Fails, but answers with checking disabled: bogus, unless known unsigned.
classifyFailure(hasData) ==
    IF hasData /\ ~unsignedDelegation THEN "bogus" ELSE "servfail"

classifyDNSSEC(hasData) ==
    IF failures # {} THEN IF look[firstFailed].unqueryable THEN "unknown" ELSE classifyFailure(hasData)
    ELSE IF ~Answered(look["DS"]) \/ ~Answered(look["DNSKEY"]) THEN "unknown"
    ELSE IF nameDoesNotExist THEN "nonexistent"
    ELSE IF look["DS"].has /\ look["DNSKEY"].has THEN signedState
    ELSE IF look["DNSKEY"].has THEN "island"
    ELSE IF look["DS"].has THEN "bogus" ELSE "insecure"

\* classifyDNS: drop the trust of a resolver that does not validate, judge the
\* zone, and withhold the verdict if the trust was dropped.  newBogusProbe
\* asks for the failed lookup again, with checking disabled.
ClassifyDNS ==
    /\ stage = "classify"
    /\ \/ /\ zone.kind = "reserved"
          /\ deleg' = Deleg("reserved_name", {}, "")
          /\ dnssec' = "unknown"
          /\ UNCHANGED <<notAZone, lost>>
       \/ /\ zone.kind # "reserved" /\ detectNotAZone
          /\ notAZone' = TRUE
          /\ deleg' = Deleg("not_a_zone", {}, "")
          /\ dnssec' = IF blind THEN "unknown" ELSE classifyByTrust
          /\ UNCHANGED lost
       \/ /\ zone.kind # "reserved" /\ ~detectNotAZone
          /\ \E hasData \in BOOLEAN :
                LET there == failures # {} /\ ~Dead(zone) /\ Has(zone, firstFailed)
                IN  /\ hasData => there
                    /\ there /\ ~hasData => lost < MaxLost
                    /\ lost' = lost + (IF there /\ ~hasData THEN 1 ELSE 0)
                    /\ dnssec' = IF blind THEN "unknown" ELSE classifyDNSSEC(hasData)
          /\ UNCHANGED <<deleg, notAZone>>
    /\ stage' = "audit"
    /\ UNCHANGED <<world, look, reach, silent, rdap, report>>

delegationSilent ==
    deleg.status = "no_child_answer" /\ deleg.parentServer # "" /\ look["NS"].status # "nxrrset"

\* auditFirst, if the trace heard nothing from the delegated servers.
AuditFirst ==
    /\ stage = "audit"
    /\ \/ ~delegationSilent /\ UNCHANGED <<silent, lost>>
       \/ /\ delegationSilent
          /\ \E s \in BOOLEAN :
                /\ s # Dead(zone) => lost < MaxLost
                /\ silent' = s
                /\ lost' = lost + (IF s # Dead(zone) THEN 1 ELSE 0)
    /\ stage' = "registry"
    /\ UNCHANGED <<world, look, reach, deleg, notAZone, dnssec, rdap, report>>

zoneUnreachable == zone.kind # "reserved" /\ ~notAZone /\ delegationSilent /\ silent

\* checkRDAP, joined before either return: the registry's answer, or that
\* there is none.  With -no-rdap, and for a reserved name, nothing is asked.
CheckRDAP ==
    /\ stage = "registry"
    /\ \E truth \in Registry(zone), heard \in BOOLEAN, asked \in BOOLEAN :
          /\ heard => asked
          /\ asked /\ ~heard => lost < MaxLost
          /\ asked => zone.kind # "reserved"
          /\ lost' = lost + (IF asked /\ ~heard THEN 1 ELSE 0)
          /\ rdap' = [asked |-> asked,
                      registered |-> CASE heard /\ truth = "none" -> "no"
                                       [] heard /\ truth # "none" -> "yes"
                                       [] OTHER -> "nil",
                      status |-> IF heard THEN {truth} \ {"none", "active"} ELSE {},
                      truth  |-> {truth}]
    /\ stage' = "finish"
    /\ UNCHANGED <<world, look, reach, deleg, notAZone, dnssec, silent, report>>

-----------------------------------------------------------------------------
(* The findings: the codes that fail, and of the others those that say     *)
(* something of the name.                                                  *)

If(cond, code) == IF cond THEN {code} ELSE {}

rdapFindings ==
    IF ~rdap.asked THEN {}
    ELSE If("hold" \in rdap.status, "domain_on_hold")
         \union If("deleting" \in rdap.status, "domain_pending_deletion")
         \union If(rdap.registered = "nil", "rdap_lookup_failed")

reachabilityFindings == If(\E f \in Families : reach[f] = "no", "resolver_unreachable")

apexMissing ==
    CASE nameDoesNotExist -> {"apex_nxdomain"}
      [] ~nameDoesNotExist /\ noRecordsAtAll -> {"apex_empty"}
      [] OTHER -> {}

\* Mutant: a verdict that could not be reached explains them too.
FoldUnknown == dnssec \in {"bogus", "servfail", "unknown"}

\* A bogus or SERVFAIL verdict explains every failed lookup, and no timeout.
folded == dnssec \in {"bogus", "servfail"}

lookupFindings(q) ==
    If(look[q].status = "timeout", "lookup_timeout")
    \union If(Failed(look[q]) /\ ~folded, "lookup_failed")

zoneKindFindings ==
    CASE notAZone -> {"not_a_zone"}
      [] ~notAZone /\ deleg.status \in {"child_no_ns", "no_child_answer"} -> {}
      [] OTHER -> If(Answered(look["NS"]) /\ ~look["NS"].has, "ns_absent")

addressWarnings(a, aaaa, missing, none) ==
    CASE ~Answered(a) \/ ~Answered(aaaa) -> {}
      [] Answered(a) /\ Answered(aaaa) ->
           CASE a.status = "nxdomain" -> {missing}
             [] a.status # "nxdomain" /\ ~a.has /\ ~aaaa.has -> {none}
             [] OTHER -> If(~aaaa.has, "aaaa_absent")

presenceWarnings ==
    addressWarnings(look["A"], look["AAAA"], "reserved_nxdomain", "apex_no_address")
    \union addressWarnings(look["wwwA"], look["wwwAAAA"], "www_nxdomain", "www_no_address")
    \union If(~notAZone /\ ~nameDoesNotExist /\ Answered(look["MX"]) /\ ~look["MX"].has, "mx_absent")

dnsFindings ==
    IF apexMissing # {} THEN apexMissing
    ELSE (UNION {lookupFindings(q) : q \in ApexTypes \union wwwTypes})
         \union zoneKindFindings \union presenceWarnings

dnssecFindings ==
    CASE dnssec = "bogus"    -> {"dnssec_bogus"}
      [] dnssec = "servfail" -> {"resolver_servfail"}
      [] dnssec = "island"   -> {"dnssec_dnskey_no_ds"}
      [] dnssec = "unknown"  -> {"dnssec_unknown"}
      [] dnssec = "insecure" -> If(~notAZone, "dnssec_unsigned")
      [] OTHER -> {}

\* An empty answer of the delegated servers is an answer.
delegationFindings ==
    CASE deleg.status = "mismatch"      -> {"delegation_mismatch"}
      [] deleg.status = "not_delegated" -> If(~apexAbsent, "not_delegated")
      [] deleg.status = "no_child_answer" ->
             {IF look["NS"].status = "nxrrset" THEN "delegation_nodata" ELSE "delegation_no_answer"}
      [] deleg.status = "child_no_ns"   -> {"delegation_lame"}
      [] deleg.status = "error"         -> {"delegation_trace_failed"}
      [] OTHER -> {}

\* Severity fail; what the other sections add is "other".
Fails ==
    {"zone_unreachable", "domain_on_hold", "resolver_unreachable", "apex_nxdomain", "apex_empty",
     "lookup_timeout", "lookup_failed", "ns_absent", "dnssec_bogus", "resolver_servfail",
     "delegation_mismatch", "not_delegated", "delegation_nodata", "delegation_no_answer",
     "delegation_lame", "delegation_trace_failed", "other"}

\* Mutant: the early return leaves the registration out.
DeadZoneAlone(other) ==
    CASE zoneUnreachable -> reachabilityFindings \union {"zone_unreachable"}
      [] ~zoneUnreachable /\ zone.kind = "reserved" -> reachabilityFindings \union {"reserved_name"}
      [] OTHER -> dnsFindings \union rdapFindings \union dnssecFindings \union delegationFindings
                  \union reachabilityFindings \union other

buildFindings(other) ==
    CASE zoneUnreachable -> reachabilityFindings \union {"zone_unreachable"} \union rdapFindings
      [] ~zoneUnreachable /\ zone.kind = "reserved" -> reachabilityFindings \union {"reserved_name"}
      [] OTHER -> dnsFindings \union rdapFindings \union dnssecFindings \union delegationFindings
                  \union reachabilityFindings \union other

\* finishReport, and realMain's exit status, 0 exactly for a report that is ok.
FinishReport ==
    /\ stage = "finish"
    /\ \E other \in SUBSET {"other"} :
          report' = [codes |-> buildFindings(other), ok |-> buildFindings(other) \intersect Fails = {}]
    /\ stage' = "done"
    /\ UNCHANGED <<world, look, reach, deleg, notAZone, dnssec, silent, rdap, lost>>

Done == stage = "done" /\ UNCHANGED vars

Next ==
    \/ GatherDNS \/ WaveSpent \/ RunTrace \/ ClassifyDNS \/ AuditFirst \/ CheckRDAP
    \/ FinishReport \/ Done

Spec == Init /\ [][Next]_vars

-----------------------------------------------------------------------------
(* Properties *)

\* Every variable has its type.
TypeOK ==
    /\ zone \in Worlds /\ resolver \in Resolvers
    /\ stage \in {"gather", "trace", "classify", "audit", "registry", "finish", "done"}
    /\ reach \in [Families -> {"yes", "no", "skipped"}]
    /\ notAZone \in BOOLEAN /\ silent \in BOOLEAN
    /\ dnssec \in {"none", "secure", "insecure", "island", "bogus", "servfail", "unknown",
                   "nonexistent"}
    /\ lost \in 0..MaxLost

Judged    == stage \in {"audit", "registry", "finish", "done"}
Validates == resolver.validates[resolver.via]

\* The resolver asked is blind, and the root NS answers did not show it: none
\* arrived, or another resolver gave them.
BlindUnseen == ~Validates /\ ~blind

\* The DNSSEC verdict, whatever was lost.  "secure" needs a signed zone and a
\* resolver that validates; a signed zone is not read as unsigned because
\* the resolver does not validate, unless nothing told that it does not (only
\* a host whose NS lookup was lost is judged by the DS it cannot have);
\* "bogus" needs a DS, or a DS lookup without an answer; an island and a name
\* that does not exist are what they are called (classifyDNS,
\* classifyDNSSEC, classifyFailure, classifyByTrust).
StateSound ==
    Judged =>
        /\ dnssec = "secure" => zone.signing = "secure" /\ Validates
        /\ dnssec = "insecure" =>
               \/ zone.signing \in {"unsigned", "unsupported", "island"}
               \/ BlindUnseen
               \/ zone.kind # "zone" /\ ~Answered(look["NS"])
        /\ dnssec = "bogus" => (zone.kind = "zone" /\ zone.signing \in WithDS) \/ ~Answered(look["DS"])
        /\ dnssec = "island" => zone.signing = "island"
        /\ dnssec = "nonexistent" => NoSuchName(zone, "A")

Expected ==
    CASE zone.signing \in {"unsigned", "unsupported"} -> "insecure"
      [] zone.signing \in Bogus -> IF "A" \in zone.records THEN "bogus" ELSE "servfail"
      [] OTHER -> zone.signing

\* With nothing lost and a resolver that validates, a live zone gets its own
\* verdict, its own delegation and no other failure; a broken zone without an
\* A record is only "servfail", since the first failed lookup is asked again
\* (firstFailed, newBogusProbe).
AnswersDecide ==
    (stage = "done" /\ lost = 0 /\ zone.kind = "zone" /\ ~Dead(zone) /\ Validates) =>
        /\ dnssec = Expected
        /\ ~notAZone
        /\ report.codes \intersect Fails \subseteq
               {"other"}
               \union If(zone.signing \in Bogus, IF Expected = "bogus" THEN "dnssec_bogus" ELSE "resolver_servfail")
               \union If(zone.servers = "differ", "delegation_mismatch")
               \union If(zone.servers = "nons", "delegation_lame")
               \union If(zone.servers = "nons" /\ zone.records = {}, "apex_empty")

\* What kind of name it is.  A delegated name is taken for a host inside a
\* zone only if it has no NS records and the trace lost the referral;
\* NXDOMAIN and an empty name are reported only of names that are not there
\* or have nothing; only a name the parent does not delegate is called so;
\* and a zone is unreachable only if its parent referred to it and the servers
\* were silent twice (detectNotAZone, apexMissing, noRecordsAtAll,
\* delegationFindings, zoneUnreachable).
KindSound ==
    /\ notAZone =>
           \/ zone.kind \in {"host", "alias"}
           \/ zone.kind = "zone" /\ zone.servers = "nons" /\ lost > 0
    /\ "apex_nxdomain" \in report.codes => NoSuchName(zone, "A")
    /\ "apex_empty" \in report.codes => zone.records = {} /\ ~Has(zone, "NS")
    /\ "not_delegated" \in report.codes => zone.kind \in {"host", "absent"} /\ ~Answered(look["NS"])
    /\ "zone_unreachable" \in report.codes =>
           zone.kind = "zone" /\ (Dead(zone) \/ lost >= 2)

\* A report is ok, and the exit status 0, only if every lookup of the name and
\* of www was answered, the delegation was followed to its end and agreed,
\* and no resolver was out of reach: whatever a verdict folds, an early
\* return leaves out or a withheld verdict hides, something else fails.
OkMeansHeard ==
    (stage = "done" /\ report.ok /\ zone.kind # "reserved") =>
        /\ \A q \in (ApexTypes \union wwwTypes) \intersect Asked(zone) : Answered(look[q])
        /\ deleg.status \in {"match", "same_servers", "not_a_zone"}
        /\ zone.servers # "differ" \/ deleg.status = "match"
        /\ \A f \in resolver.serves : reach[f] = "yes"

\* Silence is never read as a clean registration, and a hold the registry
\* reports fails the report on every way out of the run, the early return of
\* a zone no server answers for included (startRDAP, checkRDAP, rdapFindings).
RegistryTold ==
    (stage = "done" /\ rdap.asked) =>
        /\ rdap.registered = "nil" => "rdap_lookup_failed" \in report.codes
        /\ rdap.registered # "nil" /\ rdap.truth = {"hold"} =>
               "domain_on_hold" \in report.codes /\ ~report.ok
        /\ rdap.registered # "nil" /\ rdap.truth = {"deleting"} =>
               "domain_pending_deletion" \in report.codes
        /\ "domain_on_hold" \in report.codes => rdap.truth = {"hold"}

\* README.md:84, of bogus: "never for a zone whose parent publishes no DS".
NeverBogusWithoutDS == dnssec = "bogus" => zone.signing \in WithDS
=============================================================================
