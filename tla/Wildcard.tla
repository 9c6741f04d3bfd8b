------------------------------ MODULE Wildcard ------------------------------
(***************************************************************************)
(* Does the zone answer for names that do not exist?  (wildcard.go, and    *)
(* probeWildcard, runWildProbe and wildcardSection of run.go.)  One random *)
(* name is looked up first, A and AAAA racing; only if it answers are two  *)
(* more asked, in parallel.  The zone is drawn in Init and every lookup    *)
(* either tells the truth about it or fails, so that the verdict can be    *)
(* held against the zone.                                                  *)
(***************************************************************************)
EXTENDS Naturals, FiniteSets

CONSTANTS
    Rest,     \* the random names asked when the first one answers
    First     \* the random name asked first

ASSUME ProbesAssumption == First \notin Rest /\ IsFiniteSet(Rest)

\* wildcardProbeCount names in all.
Names == {First} \union Rest

QTypes == {"A", "AAAA"}

\* A failure and a timeout are read alike here: "failure" is both.
LookupStatuses == {"ok", "nxrrset", "nxdomain", "failure"}

\* A lookup as the check reads it: addresses, and whether a CNAME came along.
ProbeLookup == [status : LookupStatuses, addrs : SUBSET {"a1", "a2", "b1", "c1"}, cname : BOOLEAN]

Result(s, as, c) == [status |-> s, addrs |-> as, cname |-> c]

\* Not asked yet, and asked but not answered yet.
Unasked == [status |-> "unasked"]
Asked   == [status |-> "asked"]

VARIABLES
    zone,    \* the world: what the zone publishes
    apex,    \* dns.apex, the statuses of its A and NS
    www,     \* dns.www, of each address type
    look,    \* the lookups of each random name
    stage,   \* where probeWildcard is
    skip,    \* dns.wildSkip
    report   \* rep.Wildcard

wildVars == <<zone, apex, www, look, stage, skip, report>>

-----------------------------------------------------------------------------
(* The zone.  A wildcard may be of one address type or two, rotate its     *)
(* addresses, or be a CNAME, whose target may not exist; then the rcode is *)
(* NXDOMAIN, although the name was answered for.                           *)

Wildcards == {"none", "v4", "dual", "rotate", "cname", "dangling"}

Zones ==
    [wild    : Wildcards,
     denial  : {"nxdomain", "nxrrset"},   \* how the zone denies a name
     lucky   : SUBSET Names,              \* random names that exist after all
     apex    : {"there", "gone", "alias"},\* alias: a CNAME to no name
     wwwHost : {"none", "same", "own", "other", "alias"}]

\* A zone that is not there publishes nothing, not all of the names drawn at
\* random exist, and what a wildcard answers for is not denied.
Possible(z) ==
    /\ z.apex = "gone" => z.wild = "none" /\ z.wwwHost = "none" /\ z.lucky = {}
                          /\ z.denial = "nxdomain"
    /\ z.lucky # {} => z.wild = "none"
    /\ z.wild = "none" => z.wwwHost # "same"
    /\ z.wild # "none" => z.denial = "nxrrset"
    /\ z.lucky # Names

\* What the zone answers for a name it has no records of.
Synthesised(z, q) ==
    CASE z.wild = "none"     -> {Result(z.denial, {}, FALSE)}
      [] z.wild = "dangling" -> {Result("nxdomain", {}, TRUE)}
      [] z.wild = "cname" /\ q = "A"    -> {Result("ok", {"a1"}, TRUE)}
      [] z.wild = "cname" /\ q = "AAAA" -> {Result("nxrrset", {}, TRUE)}
      [] z.wild = "dual"  /\ q = "AAAA" -> {Result("ok", {"b1"}, FALSE)}
      [] z.wild = "rotate" /\ q = "A"   -> {Result("ok", {a}, FALSE) : a \in {"a1", "a2"}}
      [] z.wild \in {"v4", "dual"} /\ q = "A"      -> {Result("ok", {"a1"}, FALSE)}
      [] z.wild \in {"v4", "rotate"} /\ q = "AAAA" -> {Result("nxrrset", {}, FALSE)}

\* A host with one IPv4 address.
HostAnswer(q, a) == IF q = "A" THEN {Result("ok", {a}, FALSE)} ELSE {Result("nxrrset", {}, FALSE)}

Truth(z, n, q) == IF n \in z.lucky THEN HostAnswer(q, "c1") ELSE Synthesised(z, q)

\* www: no name of its own, a host, a name with other types only, or a CNAME
\* of its own to no name, which reads as NXDOMAIN.
WWWTruth(z, q) ==
    CASE z.wwwHost = "none"  -> Synthesised(z, q)
      [] z.wwwHost = "same"  -> HostAnswer(q, "a1")
      [] z.wwwHost = "own"   -> HostAnswer(q, "c1")
      [] z.wwwHost = "other" -> {Result("nxrrset", {}, FALSE)}
      [] z.wwwHost = "alias" -> {Result("nxdomain", {}, TRUE)}

\* No answer; the failure of a CNAME's target may still carry the CNAME.
NoAnswer(z) ==
    {Result("failure", {}, c) : c \in {b \in BOOLEAN : b => z.wild \in {"cname", "dangling"}}}

ApexStatuses(z) ==
    IF z.apex = "there" THEN {"ok"} ELSE {"nxdomain", "failure"}

-----------------------------------------------------------------------------
Answered(l) == l.status \in {"ok", "nxrrset", "nxdomain"}

wildcardSkipReason ==
    IF apex.A = "nxdomain" /\ apex.NS = "nxdomain" THEN "no domain"
    ELSE IF www["A"].status = "nxdomain" THEN "no www"
    ELSE ""

\* Mutant: a CNAME that leads to no address is not an answer.
AddressesOnly(n) ==
    LET a == look[n]["A"] aaaa == look[n]["AAAA"]
    IN  IF a.addrs \union aaaa.addrs # {} THEN "answered"
        ELSE IF a.status = "nxdomain" \/ aaaa.status = "nxdomain" THEN "denied"
        ELSE IF Answered(a) /\ Answered(aaaa) THEN "denied"
        ELSE "unresolved"

\* Both lookups of a name are judged together: NXDOMAIN denies the name, but
\* NODATA only its own type.
classifyProbe(n) ==
    LET a == look[n]["A"] aaaa == look[n]["AAAA"]
    IN  IF a.addrs \union aaaa.addrs # {} \/ a.cname \/ aaaa.cname THEN "answered"
        ELSE IF a.status = "nxdomain" \/ aaaa.status = "nxdomain" THEN "denied"
        ELSE IF Answered(a) /\ Answered(aaaa) THEN "denied"
        ELSE "unresolved"

probeAddrs(n) == look[n]["A"].addrs \union look[n]["AAAA"].addrs
probeCNAME(n) == look[n]["A"].cname \/ look[n]["AAAA"].cname

probesAgree(probes) ==
    \A m, n \in probes : probeAddrs(m) = probeAddrs(n) /\ (probeCNAME(m) <=> probeCNAME(n))

wwwAddrs == www["A"].addrs \union www["AAAA"].addrs

\* Mutant: www is a wildcard's as soon as it shares an address with a probe.
SharesAddress(probes) == wwwAddrs # {} /\ \E n \in probes : wwwAddrs \intersect probeAddrs(n) # {}

\* www resolves to exactly what one of the probes answered.
wwwIsWildcard(probes) == wwwAddrs # {} /\ \E n \in probes : probeAddrs(n) = wwwAddrs

\* Mutant: a denial is only looked for when a probe has not answered.
AnyAnswer(probes) ==
    LET outcomes == {classifyProbe(n) : n \in probes}
    IN  IF "answered" \in outcomes THEN "present"
        ELSE IF "denied" \in outcomes THEN "absent"
        ELSE "unknown"

\* One denial outweighs any number of answers, and then one silence does.
setWildcardVerdict(probes) ==
    LET outcomes == {classifyProbe(n) : n \in probes}
    IN  IF "denied" \in outcomes THEN "absent"
        ELSE IF "unresolved" \in outcomes THEN "unknown"
        ELSE "present"

-----------------------------------------------------------------------------
NoReport == [status |-> "none", via |-> FALSE, consistent |-> FALSE]

WildInit ==
    /\ zone \in {z \in Zones : Possible(z)}
    /\ apex \in [A : ApexStatuses(zone), NS : ApexStatuses(zone)]
    /\ \E a \in WWWTruth(zone, "A") \union NoAnswer(zone),
          aaaa \in WWWTruth(zone, "AAAA") \union NoAnswer(zone) :
              www = [q \in QTypes |-> IF q = "A" THEN a ELSE aaaa]
    /\ look = [n \in Names |-> [q \in QTypes |-> Unasked]]
    /\ stage = "start" /\ skip = "" /\ report = NoReport

Ask(ns) == look' = [n \in Names |-> IF n \in ns THEN [q \in QTypes |-> Asked] ELSE look[n]]

\* probeWildcard: two answers already in hand save the queries.
Start ==
    /\ stage = "start"
    /\ skip' = wildcardSkipReason
    /\ IF skip' # "" THEN stage' = "assess" /\ UNCHANGED look
                     ELSE stage' = "first" /\ Ask({First})
    /\ UNCHANGED <<zone, apex, www, report>>

\* One of the two racing lookups of a name returns.
LookupReturns(n, q) ==
    /\ look[n][q] = Asked
    /\ \E l \in Truth(zone, n, q) \union NoAnswer(zone) : look' = [look EXCEPT ![n][q] = l]
    /\ UNCHANGED <<zone, apex, www, stage, skip, report>>

Returned(n) == \A q \in QTypes : look[n][q] # Asked

FirstReturns ==
    /\ stage = "first"
    /\ Returned(First)
    /\ IF classifyProbe(First) = "answered"
       THEN stage' = "rest" /\ Ask(Rest)
       ELSE stage' = "assess" /\ UNCHANGED look
    /\ UNCHANGED <<zone, apex, www, skip, report>>

RestReturns ==
    /\ stage = "rest"
    /\ \A n \in Rest : Returned(n)
    /\ stage' = "assess"
    /\ UNCHANGED <<zone, apex, www, look, skip, report>>

Probes == {n \in Names : \A q \in QTypes : look[n][q] # Unasked}

\* assessWildcard and wildcardSection, once the probes of the run are over.
Assess ==
    /\ stage = "assess"
    /\ stage' = "done"
    /\ report' = IF skip # "" THEN [NoReport EXCEPT !.status = "absent"]
                 ELSE LET v == setWildcardVerdict(Probes)
                      IN  [status     |-> v,
                           via        |-> v = "present" /\ wwwIsWildcard(Probes),
                           consistent |-> v = "present" /\ probesAgree(Probes)]
    /\ UNCHANGED <<zone, apex, www, look, skip>>

Done == stage = "done" /\ UNCHANGED wildVars

WildNext ==
    \/ Start \/ FirstReturns \/ RestReturns \/ Assess \/ Done
    \/ \E n \in Names, q \in QTypes : LookupReturns(n, q)

WildSpec == WildInit /\ [][WildNext]_wildVars

-----------------------------------------------------------------------------
(* Properties *)

\* Every variable has its type.
WildTypeOK ==
    /\ zone \in Zones /\ Possible(zone)
    /\ apex \in [A : LookupStatuses, NS : LookupStatuses]
    /\ www \in [QTypes -> ProbeLookup]
    /\ look \in [Names -> [QTypes -> ProbeLookup \union {Unasked, Asked}]]
    /\ stage \in {"start", "first", "rest", "assess", "done"}
    /\ skip \in {"", "no domain", "no www"}
    /\ report \in [status : {"none", "absent", "unknown", "present"}, via : BOOLEAN, consistent : BOOLEAN]

\* A name that is an alias of no name reads as NXDOMAIN, by a CNAME of its own
\* or the wildcard's: the two answers wildcardSkipReason trusts say nothing of
\* a wildcard then.
AliasOfNothing ==
    \/ zone.apex = "alias" \/ zone.wwwHost = "alias"
    \/ zone.wild = "dangling" /\ zone.wwwHost = "none"

\* The verdict is the zone's: "present" only where the zone synthesises
\* answers, however many of the random names happened to exist, and "absent"
\* only where it does not, whatever was lost on the way (setWildcardVerdict,
\* classifyProbe).  The exception is a probe that was skipped because the apex
\* or www is an alias of no name: see SkipMeansNoWildcard.
VerdictSound ==
    /\ report.status = "present" => zone.wild # "none"
    /\ report.status = "absent" => zone.wild = "none" \/ (skip # "" /\ AliasOfNothing)

\* When every lookup of the random names was answered the check decides, and
\* rightly: three answers are not needed to deny, nor is NXDOMAIN, and a CNAME
\* without an address is an answer.  A wildcard that is the same for every name
\* is called consistent (classifyProbe, probesAgree, probeWildcard's early
\* return).
AnswersDecide ==
    (stage = "done" /\ skip = "" /\ \A n \in Probes, q \in QTypes : Answered(look[n][q])) =>
        /\ report.status = IF zone.wild = "none" THEN "absent" ELSE "present"
        /\ zone.wild \notin {"none", "rotate"} => report.consistent

AllAnswered == \A q \in QTypes : Answered(www[q]) /\ \A n \in Names : Answered(look[n][q])

\* www is put down to the wildcard only if it has no host of its own or one
\* with exactly the wildcard's addresses (one that shares some of them only
\* when a lost lookup hid the rest), and always if the wildcard is the same for
\* every name and every lookup was answered (wwwIsWildcard).
WWWViaWildcardSound ==
    /\ report.via =>
           /\ zone.wild # "none"
           /\ \/ zone.wwwHost = "none"
              \/ zone.wwwHost = "same" /\ (zone.wild = "dual" => ~AllAnswered)
    /\ (/\ stage = "done" /\ skip = "" /\ AllAnswered
        /\ zone.wild \in {"v4", "dual", "cname"} /\ zone.wwwHost = "none") => report.via

\* wildcard.go:95 and :100, "Both cases are definite answers already in hand"
\* and "Only a true NXDOMAIN for www settles it": where the probes were
\* skipped no wildcard answers.  The code does not do this: the NXDOMAIN may be
\* that of the target of a CNAME.
SkipMeansNoWildcard == skip # "" => zone.wild = "none"

=============================================================================
