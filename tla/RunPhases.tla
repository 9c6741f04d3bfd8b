----------------------------- MODULE RunPhases -----------------------------
(***************************************************************************)
(* One run (run.go, run): the goroutines it starts, in which order it      *)
(* waits for them, its early return for a zone no server answers for, and  *)
(* the report they share.  What a check finds is left open; that it ends   *)
(* is its own context's doing, and whether the run's deadline cut it is    *)
(* recorded.                                                               *)
(***************************************************************************)
EXTENDS Integers

\* The goroutines: the delegation trace, the two DNS waves, the early web
\* probes, the registration lookup, and the checks of the probe phase.
Checks == {"trace", "wave1", "wave2", "web", "rdap", "audit", "mail", "preload"}

\* The fields of the report whose writers and readers could collide.
Sections == {"empty", "full", "cancelled"}

VARIABLES
    reserved,    \* the domain is reserved by an RFC
    wantRDAP,    \* cfg.RDAP
    main,        \* where run() is
    state,       \* of each check: off, running or done
    runSpent,    \* the -max-time deadline has passed
    cancelled,   \* earlyWeb.cancel was called
    webResult,   \* earlyWeb.result
    delegSilent, \* delegationSilent
    dead,        \* zoneUnreachable
    audited,     \* the audit ran ahead of the probes
    cut,         \* the checks that were running when the deadline passed
    rep          \* the report

cfgVars  == <<reserved, wantRDAP>>
zoneVars == <<delegSilent, dead, audited>>
webVars  == <<cancelled, webResult>>
runVars  == <<cfgVars, main, state, runSpent, webVars, zoneVars, cut, rep>>

Running == {c \in Checks : state[c] = "running"}

RunInit ==
    /\ reserved \in BOOLEAN /\ wantRDAP \in BOOLEAN
    /\ main = "start"
    /\ state = [c \in Checks |-> "off"]
    /\ runSpent = FALSE
    /\ cancelled = FALSE /\ webResult = "empty"
    /\ delegSilent = FALSE /\ dead = FALSE /\ audited = FALSE
    /\ cut = {}
    /\ rep = [web |-> "empty", reservedAddresses |-> FALSE, rdap |-> FALSE,
              deadline |-> FALSE, finished |-> FALSE]

Run(cs) == state' = [c \in Checks |-> IF c \in cs THEN "running" ELSE state[c]]

\* startRDAP, then the trace and the DNS lookups in parallel; a reserved name
\* is not traced.
Start ==
    /\ main = "start"
    /\ main' = "dns"
    /\ Run({"wave1"} \union (IF wantRDAP THEN {"rdap"} ELSE {})
                     \union (IF reserved THEN {} ELSE {"trace"}))
    /\ UNCHANGED <<cfgVars, runSpent, webVars, zoneVars, cut, rep>>

\* gatherDNS between its waves: afterFirst starts the web probes of a name
\* that is not reserved.
AfterFirst ==
    /\ state["wave1"] = "done"
    /\ state["wave2"] = "off"
    /\ Run({"wave2"} \union (IF reserved THEN {} ELSE {"web"}))
    /\ UNCHANGED <<cfgVars, main, runSpent, webVars, zoneVars, cut, rep>>

\* probeWeb writes the reserved addresses among the first wave's answers to
\* the report before it probes the others.
RecordReserved ==
    /\ state["web"] = "running"
    /\ ~rep.reservedAddresses
    /\ rep' = [rep EXCEPT !.reservedAddresses = TRUE]
    /\ UNCHANGED <<cfgVars, main, state, runSpent, webVars, zoneVars, cut>>

\* A check returns: of itself, or because its own context, or the run's, or
\* the web probes' cancel, is over.
CheckEnds(c) ==
    /\ state[c] = "running"
    /\ state' = [state EXCEPT ![c] = "done"]
    /\ webResult' = IF c # "web" THEN webResult ELSE IF cancelled THEN "cancelled" ELSE "full"
    /\ cut' = IF runSpent THEN cut \union {c} ELSE cut
    /\ UNCHANGED <<cfgVars, main, runSpent, cancelled, zoneVars, rep>>

RunExpires ==
    /\ ~runSpent
    /\ main # "returned"
    /\ runSpent' = TRUE
    /\ UNCHANGED <<cfgVars, main, state, webVars, zoneVars, cut, rep>>

\* classifyDNS, when both goroutines are back, and delegationSilent: a
\* reserved name has no delegation.
Classify ==
    /\ main = "dns"
    /\ state["wave2"] = "done"
    /\ state["trace"] # "running"
    /\ delegSilent' \in IF reserved THEN {FALSE} ELSE BOOLEAN
    /\ main' = "classified"
    /\ UNCHANGED <<cfgVars, state, runSpent, webVars, dead, audited, cut, rep>>

\* Mutant: the web probes are cancelled as soon as the servers seem silent.
AuditFirstCancels ==
    /\ main = "classified"
    /\ delegSilent
    /\ main' = "auditing"
    /\ audited' = TRUE
    /\ cancelled' = TRUE
    /\ Run({"audit"})
    /\ UNCHANGED <<cfgVars, runSpent, webResult, delegSilent, dead, cut, rep>>

StartAuditFirst ==
    /\ main = "classified"
    /\ delegSilent
    /\ main' = "auditing"
    /\ audited' = TRUE
    /\ Run({"audit"})
    /\ UNCHANGED <<cfgVars, runSpent, webVars, delegSilent, dead, cut, rep>>

\* Mutant: a dead zone's web probes are left to the deferred stop.
ZoneUnreachableNoStop ==
    /\ main = "auditing"
    /\ state["audit"] = "done"
    /\ dead' = TRUE
    /\ main' = "joining"
    /\ UNCHANGED <<cfgVars, state, runSpent, webVars, delegSilent, audited, cut, rep>>

\* No server answers: web.stop cancels the probes and waits for them.
ZoneUnreachable ==
    /\ main = "auditing"
    /\ state["audit"] = "done"
    /\ dead' = TRUE
    /\ cancelled' = (cancelled \/ state["web"] # "off")
    /\ main' = "stopping"
    /\ UNCHANGED <<cfgVars, state, runSpent, webResult, delegSilent, audited, cut, rep>>

WebStopped ==
    /\ main = "stopping"
    /\ state["web"] # "running"
    /\ main' = "joining"
    /\ UNCHANGED <<cfgVars, state, runSpent, webVars, zoneVars, cut, rep>>

\* The probe phase, with the audit unless it has been made.
StartProbes ==
    /\ \/ main = "classified" /\ ~delegSilent
       \/ main = "auditing" /\ state["audit"] = "done"
    /\ main' = "probing"
    /\ Run({"mail", "preload"} \union (IF audited THEN {} ELSE {"audit"}))
    /\ UNCHANGED <<cfgVars, runSpent, webVars, zoneVars, cut, rep>>

\* All of them are back, web.wait included, whose result is the web section.
JoinProbes ==
    /\ main = "probing"
    /\ \A c \in {"web", "audit", "mail", "preload"} : state[c] # "running"
    /\ rep' = [rep EXCEPT !.web = webResult]
    /\ cancelled' = (cancelled \/ state["web"] # "off")
    /\ main' = "joining"
    /\ UNCHANGED <<cfgVars, state, runSpent, webResult, zoneVars, cut>>

\* Mutant: with -no-rdap the join waits for a result nobody sends.
JoinRDAPAlways ==
    /\ main = "joining"
    /\ state["rdap"] # "running"
    /\ rep' = [rep EXCEPT !.rdap = wantRDAP]
    /\ main' = IF state["rdap"] = "done" THEN "finishing" ELSE "joining"
    /\ UNCHANGED <<cfgVars, state, runSpent, webVars, zoneVars, cut>>

\* rdap() on either path: the result, or nil at once with -no-rdap.
JoinRDAP ==
    /\ main = "joining"
    /\ state["rdap"] # "running"
    /\ rep' = [rep EXCEPT !.rdap = wantRDAP]
    /\ main' = "finishing"
    /\ UNCHANGED <<cfgVars, state, runSpent, webVars, zoneVars, cut>>

\* Mutant: the early return leaves out the deadline.
FinishReportDeadSilent ==
    /\ main = "finishing"
    /\ rep' = [rep EXCEPT !.deadline = runSpent /\ ~dead, !.finished = TRUE]
    /\ main' = "deferred"
    /\ UNCHANGED <<cfgVars, state, runSpent, webVars, zoneVars, cut>>

\* finishReport reads all of the report.
FinishRun ==
    /\ main = "finishing"
    /\ rep' = [rep EXCEPT !.deadline = runSpent, !.finished = TRUE]
    /\ main' = "deferred"
    /\ UNCHANGED <<cfgVars, state, runSpent, webVars, zoneVars, cut>>

\* The deferred web.stop.
Return ==
    /\ main = "deferred"
    /\ state["web"] # "running"
    /\ cancelled' = (cancelled \/ state["web"] # "off")
    /\ main' = "returned"
    /\ UNCHANGED <<cfgVars, state, runSpent, webResult, zoneVars, cut, rep>>

Returned == main = "returned" /\ UNCHANGED runVars

MainStep ==
    \/ Start \/ AfterFirst \/ Classify \/ StartAuditFirst \/ ZoneUnreachable \/ WebStopped
    \/ StartProbes \/ JoinProbes \/ JoinRDAP \/ FinishRun \/ Return

RunNext == MainStep \/ RecordReserved \/ (\E c \in Checks : CheckEnds(c)) \/ RunExpires \/ Returned

\* The Go scheduler runs every goroutine, and each check works under a
\* context with a deadline of its own.
Fairness == WF_runVars(MainStep) /\ \A c \in Checks : WF_runVars(CheckEnds(c))

RunSpec == RunInit /\ [][RunNext]_runVars /\ Fairness

-----------------------------------------------------------------------------
(* Properties *)

\* Every variable has its type.
RunTypeOK ==
    /\ reserved \in BOOLEAN /\ wantRDAP \in BOOLEAN /\ runSpent \in BOOLEAN
    /\ main \in {"start", "dns", "classified", "auditing", "stopping", "probing", "joining",
                 "finishing", "deferred", "returned"}
    /\ state \in [Checks -> {"off", "running", "done"}]
    /\ cancelled \in BOOLEAN /\ webResult \in Sections
    /\ delegSilent \in BOOLEAN /\ dead \in BOOLEAN /\ audited \in BOOLEAN
    /\ cut \subseteq Checks
    /\ rep \in [web: Sections, reservedAddresses: BOOLEAN, rdap: BOOLEAN,
                deadline: BOOLEAN, finished: BOOLEAN]

\* When the report is read and from then on, no goroutine of the run is left
\* that could still write to it or outlive the run: on the early return as
\* on the normal one ("rep is only written at ReservedAddresses, which
\* nothing else touches before the report is finished").
JoinedBeforeFinish == main \in {"finishing", "deferred", "returned"} => Running = {}

\* A check cut off by the deadline is never in a report that does not say
\* that the deadline was reached (finishReport).
DeadlineTold == main \in {"deferred", "returned"} /\ cut # {} => rep.deadline

\* The web section is never what a cancelled probe left: a report has either
\* the probes' own result or, for a zone no server answers for, none.
NoCancelledWeb == rep.web # "cancelled" /\ (rep.finished /\ dead => rep.web = "empty")

\* The run returns its report.
RunReturns == <>(main = "returned")
=============================================================================
