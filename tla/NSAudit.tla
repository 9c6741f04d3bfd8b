------------------------------ MODULE NSAudit ------------------------------
(***************************************************************************)
(* The nameserver audit (nsaudit.go, auditNameservers of run.go) and what  *)
(* the report concludes from it (report.go: zoneUnreachable, the findings  *)
(* per nameserver name).                                                   *)
(*                                                                         *)
(* Every address of every name is asked by a goroutine of its own, at most *)
(* twice, under one context.  An attempt is one run of dig with three      *)
(* queries, over UDP, over TCP and with EDNS.  Any query or answer can be  *)
(* lost, a run can be killed at its deadline with answers already printed, *)
(* wait for a slot of the semaphore until then, or fail, and the context   *)
(* can end at any moment.  The lookups of the names' addresses go through  *)
(* the memo (LookupCache) and are one step here.                           *)
(***************************************************************************)
EXTENDS Integers, FiniteSets

CONSTANTS
    Names,        \* the NS names of the zone
    Addrs,        \* addresses
    V4,           \* the IPv4 ones
    Reserved,     \* the ones reservedReason names
    Families,     \* cfg.Families
    InBailiwick,  \* the names at or under the zone
    Zones         \* the addresses each name may have, as functions of the name

ASSUME AddrsAssumption == V4 \subseteq Addrs /\ Reserved \subseteq Addrs
ASSUME NamesAssumption == InBailiwick \subseteq Names /\ IsFiniteSet(Names \X Addrs)
ASSUME ZonesAssumption == Zones \subseteq [Names -> SUBSET Addrs]
ASSUME FamiliesAssumption == Families \subseteq {"ipv4", "ipv6"} /\ Families # {}

VARIABLES
    published,    \* the addresses the zone of each name publishes
    traceSilent,  \* delegationSilent
    main,         \* where auditNameservers is
    over,         \* the audit's context is over
    unresolved, unresolvable, addrs,    \* of NSReport
    pc,           \* auditServer, per name and address
    entry,        \* NSReport.Servers, per name and address
    asked,        \* the runs of dig that were really started
    heard,        \* every answer that arrived, to any query of any run
    kept,         \* of those, the ones to the UDP query of a run that ended in time
    glue          \* NSReport.Glue

resolved == <<unresolved, unresolvable, addrs>>
tasks    == <<pc, entry, asked, heard, kept>>
world    == <<published, traceSilent>>
vars     == <<world, main, over, resolved, tasks, glue>>

-----------------------------------------------------------------------------
Tasks == Names \X Addrs

Types == {"A", "AAAA"}

TypeOf(a)   == IF a \in V4 THEN "A" ELSE "AAAA"
FamilyOf(a) == IF a \in V4 THEN "ipv4" ELSE "ipv6"

\* What a query is answered with: with authority; without; or not at all.
Replies == {"authoritative", "lame", "silent"}

\* A run of dig: what the UDP query was answered with, what the TCP and EDNS
\* queries were (the better of the two), and how the run came to its end.
\* One that waited for its slot until the deadline, and one that failed
\* without a message, heard nothing.
Fates == {"ended", "cut", "unsent", "failed"}
Runs  == {r \in [udp: Replies, later: Replies, fate: Fates] :
            r.fate \in {"unsent", "failed"} => r.udp = "silent" /\ r.later = "silent"}

Arrived(run) == {run.udp, run.later} \ {"silent"}
InTime(run)  == IF run.fate = "ended" THEN {run.udp} \ {"silent"} ELSE {}

\* An NSServer; its Error is empty exactly for an authoritative one.
Verdicts == {"authoritative", "lame", "silent", "reserved"}
Servers  == [verdict: Verdicts, retries: 0..1]
NoServer == [verdict |-> "none", retries |-> 0]

Entry(reply, retries) == [verdict |-> reply, retries |-> retries]
ReservedEntry         == [verdict |-> "reserved", retries |-> 0]

\* The reported servers, with a verdict in vs, of the names in ns.
Reported(ns, vs) == {t \in Tasks : t[1] \in ns /\ entry[t].verdict \in vs}

NoGlue == [checked |-> FALSE, missing |-> {}, mismatch |-> {}]

Init ==
    /\ published \in Zones
    /\ traceSilent \in BOOLEAN
    /\ main = "resolve"
    /\ over = FALSE
    /\ unresolved = {} /\ unresolvable = {}
    /\ addrs = [n \in Names |-> {}]
    /\ pc = [t \in Tasks |-> "off"]
    /\ entry = [t \in Tasks |-> NoServer]
    /\ asked = [t \in Tasks |-> 0]
    /\ heard = [t \in Tasks |-> {}]
    /\ kept = [t \in Tasks |-> {}]
    /\ glue = NoGlue

\* resolveNS: a name with an unanswered lookup is unresolved whatever the
\* other lookup brought; a name both lookups deny is unresolvable.
ResolveNS ==
    /\ main = "resolve"
    /\ \E failed \in SUBSET (Names \X Types) :
        LET open(n) == \E f \in Types : <<n, f>> \in failed
        IN  /\ unresolved' = {n \in Names : open(n)}
            /\ unresolvable' = {n \in Names : ~open(n) /\ published[n] = {}}
            /\ addrs' = [n \in Names |-> IF open(n) THEN {} ELSE published[n]]
    /\ main' = "start"
    /\ UNCHANGED <<world, over, tasks, glue>>

\* auditAll: a goroutine for each address of an enabled family; a reserved
\* one gets its entry at once and is never asked.
AuditAll ==
    /\ main = "start"
    /\ LET wanted(t) == t[2] \in addrs[t[1]] /\ FamilyOf(t[2]) \in Families
       IN  /\ pc' = [t \in Tasks |->
                        IF wanted(t) /\ t[2] \notin Reserved THEN "first" ELSE "off"]
           /\ entry' = [t \in Tasks |->
                        IF wanted(t) /\ t[2] \in Reserved THEN ReservedEntry ELSE NoServer]
    /\ main' = "audit"
    /\ UNCHANGED <<world, over, resolved, asked, heard, kept, glue>>

\* runDig and auditOnce, as far as the verdict goes: whatever was printed is
\* dropped when the deadline has passed; a failure is an error that unanswered
\* does not know; otherwise the first message alone decides, so an answer over
\* TCP behind a UDP query without one counts for nothing.
Reading(run) ==
    IF run.fate \in {"cut", "unsent"} THEN "silent"
    ELSE IF run.fate = "failed" THEN "lame"
    ELSE run.udp

\* auditOnce: under a context that is over a run gets nothing, or is killed.
AuditOnce(t, run) ==
    /\ run \in Runs
    /\ over => run.fate \in {"cut", "unsent"}
    /\ asked' = [asked EXCEPT ![t] = IF run.fate = "unsent" THEN @ ELSE @ + 1]
    /\ heard' = [heard EXCEPT ![t] = @ \union Arrived(run)]
    /\ kept' = [kept EXCEPT ![t] = @ \union InTime(run)]

\* Mutant: any error is retried, an answer that disclaims authority too.
UnansweredAny(reply) == reply # "authoritative"

\* unanswered, of the text auditOnce leaves.
Unanswered(reply) == reply = "silent"

\* auditServer: the first attempt, under half of the time left; without an
\* answer it is retried while the context is alive.
FirstAttempt(t, run) ==
    /\ pc[t] = "first"
    /\ AuditOnce(t, run)
    /\ \/ /\ Unanswered(Reading(run)) /\ ~over
          /\ pc' = [pc EXCEPT ![t] = "second"]
          /\ UNCHANGED entry
       \/ /\ ~(Unanswered(Reading(run)) /\ ~over)
          /\ pc' = [pc EXCEPT ![t] = "done"]
          /\ entry' = [entry EXCEPT ![t] = Entry(Reading(run), 0)]
    /\ UNCHANGED <<world, main, over, resolved, glue>>

\* The second attempt has the rest of the time, and is the last.
SecondAttempt(t, run) ==
    /\ pc[t] = "second"
    /\ AuditOnce(t, run)
    /\ pc' = [pc EXCEPT ![t] = "done"]
    /\ entry' = [entry EXCEPT ![t] = Entry(Reading(run), 1)]
    /\ UNCHANGED <<world, main, over, resolved, glue>>

ContextEnds ==
    /\ ~over
    /\ main # "done"
    /\ over' = TRUE
    /\ UNCHANGED <<world, main, resolved, tasks, glue>>

\* parallel: wg.Wait.
AllBack == \A t \in Tasks : pc[t] \in {"off", "done"}

\* Mutant: the addresses that are not asked are waited for too.
CheckGlueCountsAll ==
    /\ main = "audit"
    /\ main' = IF \A t \in Tasks : pc[t] = "done" THEN "done" ELSE "audit"
    /\ UNCHANGED <<world, over, resolved, tasks, glue>>

\* The parent's glue, unless its server gave no referral: missing for a name
\* without any, differing where it lacks an address of the zone's own.
CheckGlue ==
    /\ main = "audit"
    /\ AllBack
    /\ \/ glue' = NoGlue
       \/ /\ ~over
          /\ \E parent \in [InBailiwick -> SUBSET Addrs] :
              glue' = [checked |-> TRUE,
                       missing |-> {n \in InBailiwick : parent[n] = {}},
                       mismatch |-> {t \in Tasks : /\ t[1] \in InBailiwick
                                                   /\ parent[t[1]] # {}
                                                   /\ t[2] \in addrs[t[1]] \ parent[t[1]]}]
    /\ main' = "done"
    /\ UNCHANGED <<world, over, resolved, tasks>>

Finished == main = "done" /\ UNCHANGED vars

Next ==
    \/ ResolveNS \/ AuditAll \/ CheckGlue \/ ContextEnds \/ Finished
    \/ \E t \in Tasks, run \in Runs : FirstAttempt(t, run) \/ SecondAttempt(t, run)

\* Lookups, attempts and the context all have deadlines; once the context is
\* over every attempt ends unanswered.
Fairness ==
    /\ WF_vars(ResolveNS) /\ WF_vars(AuditAll) /\ WF_vars(CheckGlue) /\ WF_vars(ContextEnds)
    /\ \A t \in Tasks : WF_vars(over /\ \E run \in Runs :
                                    FirstAttempt(t, run) \/ SecondAttempt(t, run))

Spec == Init /\ [][Next]_vars /\ Fairness

-----------------------------------------------------------------------------
(* The report's conclusions *)

\* Mutant: a name whose lookup did not complete counts as dead.
NoServerAnswersHasty ==
    /\ Reported(Names, Verdicts) # {} \/ unresolvable # {} \/ unresolved # {}
    /\ Reported(Names, {"authoritative"}) = {}

\* noServerAnswers.
NoServerAnswers ==
    /\ unresolved = {}
    /\ Reported(Names, Verdicts) # {} \/ unresolvable # {}
    /\ Reported(Names, {"authoritative"}) = {}

\* zoneUnreachable, for a name that is neither reserved nor inside a zone.
ZoneUnreachable == main = "done" /\ traceSilent /\ NoServerAnswers

\* Mutant: one silent address makes the name silent.
NSNoAnswerAny(n) == main = "done" /\ ~ZoneUnreachable /\ Reported({n}, {"silent"}) # {}

\* nameFindings, for a report that is not cut down to zone_unreachable.
Judged(n)        == main = "done" /\ ~ZoneUnreachable /\ Reported({n}, Verdicts) # {}
NSLame(n)        == Judged(n) /\ Reported({n}, {"lame"}) # {}
NSNoAnswer(n)    == Judged(n) /\ Reported({n}, {"silent"}) = Reported({n}, Verdicts)
NSPartial(n)     == Judged(n) /\ Reported({n}, {"silent"}) # {} /\ ~NSNoAnswer(n)

-----------------------------------------------------------------------------
(* Properties *)

\* Every variable has its type; no address is asked more than twice.
TypeOK ==
    /\ published \in [Names -> SUBSET Addrs] /\ traceSilent \in BOOLEAN
    /\ main \in {"resolve", "start", "audit", "done"} /\ over \in BOOLEAN
    /\ unresolved \subseteq Names /\ unresolvable \subseteq Names
    /\ addrs \in [Names -> SUBSET Addrs]
    /\ pc \in [Tasks -> {"off", "first", "second", "done"}]
    /\ entry \in [Tasks -> Servers \union {NoServer}]
    /\ asked \in [Tasks -> 0..2]
    /\ heard \in [Tasks -> SUBSET {"authoritative", "lame"}]
    /\ kept \in [Tasks -> SUBSET {"authoritative", "lame"}]
    /\ glue \in [checked: BOOLEAN, missing: SUBSET InBailiwick, mismatch: SUBSET Tasks]

\* A UDP answer of a dig that ended in time is never lost to a retry: in
\* whichever attempt it came, it is what the entry says, and authority is
\* recorded of no server that did not claim it so (auditServer).  What came
\* only over TCP or EDNS, or before the deadline killed the run, is dropped:
\* see AnsweredNotRetried.
AnswersStand ==
    \A t \in Tasks :
        /\ kept[t] # {} => kept[t] = {entry[t].verdict}
        /\ entry[t].verdict = "authoritative" => kept[t] = {"authoritative"}

\* A zone is called unreachable only if no UDP query of a run that ended in
\* time got an authoritative answer, and the addresses of every nameserver are
\* known: a lookup that did not complete, or one such answer among any number
\* of lost ones, leaves the question open (noServerAnswers).  That no answer
\* arrived at all does not follow: see DeadMeansNoneAnswered.
DeadZoneUnheard ==
    ZoneUnreachable =>
        /\ \A t \in Tasks : "authoritative" \notin kept[t]
        /\ \A n \in Names : addrs[n] = published[n]

\* While the context lives, nothing is called silent on one attempt.
SilentMeansRetried ==
    \A t \in Tasks : entry[t].verdict = "silent" /\ ~over => entry[t].retries = 1

\* What the findings say of a name is what its addresses said over UDP in
\* time: ns_no_answer only if none of them said anything so, and one refusal,
\* on whichever attempt and however many addresses are silent, is enough for
\* ns_lame ("proof of lameness at any count", nameFindings).  ns_no_answer
\* does not mean that nothing arrived from the name, nor ns_lame that
\* something did: a failure of dig reads as lame.
FindingsMatchAnswers ==
    \A n \in Names :
        /\ NSNoAnswer(n) => \A a \in Addrs : kept[<<n, a>>] = {}
        /\ Judged(n) /\ (\E a \in Addrs : "lame" \in kept[<<n, a>>]) => NSLame(n)

\* A name whose lookup did not complete is not judged: no entry of a server,
\* no differing glue, from the addresses that did arrive (resolveNS).
UnresolvedNotJudged ==
    \A n \in Names :
        (\E a \in published[n] : a \notin addrs[n]) =>
            /\ n \in unresolved \/ main = "resolve"
            /\ Reported({n}, Verdicts) = {}
            /\ \A t \in glue.mismatch : t[1] # n

\* A reserved address is never asked, by any attempt ("Such an address is
\* never queried"), and neither is one of a family that is switched off.
NeverAskedOutside ==
    \A t \in Tasks :
        asked[t] > 0 => t[2] \notin Reserved /\ FamilyOf(t[2]) \in Families

\* When the audit returns, every address it set out to ask has its entry.
AuditComplete ==
    main = "done" =>
        \A n \in Names : \A a \in addrs[n] :
            FamilyOf(a) \in Families => entry[<<n, a>>] # NoServer

\* The audit returns, even if no server ever answers.
AuditReturns == <>(main = "done")

(* What the documentation says, and the code does not do *)

\* "If one nameserver answers, [...] the zone is not called unreachable"
\* (README): it is when the answer came over TCP alone, or before the deadline
\* killed the run.
DeadMeansNoneAnswered ==
    ZoneUnreachable => \A t \in Tasks : "authoritative" \notin heard[t]

\* "retrying once when the first attempt got no answer at all [...] A server
\* that answered, even to refuse, is not retried" (auditServer).
AnsweredNotRetried == \A t \in Tasks : pc[t] = "second" => heard[t] = {}

\* "lame: answered, and not authoritative" (nsTally).
LameMeansAnswered == \A t \in Tasks : entry[t].verdict = "lame" => heard[t] # {}

\* "the nameserver audit must have found every address of every nameserver
\* refusing or silent, or the nameserver having no address".
DeadMeansAllFound ==
    ZoneUnreachable => \A n \in Names : \A a \in published[n] : entry[<<n, a>>] # NoServer

\* "no answer on %d of %d addresses, the others are authoritative".
PartialMeansAuthoritative ==
    \A n \in Names : NSPartial(n) =>
        Reported({n}, Verdicts) = Reported({n}, {"silent", "authoritative"})
=============================================================================
