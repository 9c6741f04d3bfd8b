------------------------------ MODULE WebProbes ------------------------------
(***************************************************************************)
(* The web probes of one run (run.go probeWeb, probeHost; tcp.go           *)
(* probeAddress): every address of the apex and of www is probed in a task *)
(* of its own that holds one of a few shared slots, QUIC beside it.  On    *)
(* 443 the main handshake comes first, with the repair of an incomplete    *)
(* chain through the shared cache of issuer fetches (aia.go), then fresh   *)
(* connections ask for HTTP/2 and for old TLS versions.  What the server   *)
(* does is fixed; any exchange may be lost, and the deadline may pass at   *)
(* any point.  The answers become verdicts per address (httpversions.go,   *)
(* tlsprobe.go) and findings per host (report.go).                         *)
(***************************************************************************)
EXTENDS Naturals, Sequences, FiniteSets

CONSTANTS
    Targets,       \* one per (hostname, address)
    Host,          \* the hostname a target belongs to
    Deployments,   \* what the servers are: a set of functions on Targets
    Caps,          \* values of maxAddressProbes
    maxAIADepth,
    URLs,          \* issuer URLs
    MaxLost        \* bound: exchanges lost

Ports == {"open", "refused", "filtered"}

\* What one server does.  protos: the protocols it speaks over TLS; strict:
\* it ends a handshake that offers none of them with alert 120; tls: its
\* handshakes complete; issuers: the issuer URLs from the leaf up; trustedAt:
\* how many of them complete the chain, 0 for none.
ServerKinds ==
    [p80 : Ports, plain : {"content", "https", "elsewhere", "denied", "5xx"},
     p443 : Ports, tls : BOOLEAN, protos : SUBSET {"h1", "h2"}, strict : BOOLEAN,
     page : {"ok", "denied", "5xx"}, old : BOOLEAN,
     defect : {"valid", "expired", "hostname_mismatch", "self_signed", "issuer"},
     issuers : Seq(URLs), trustedAt : Nat,
     h3 : {"serves", "refuses", "silent"}, altsvc : BOOLEAN]

ASSUME WebAssumption ==
    /\ IsFiniteSet(Targets) /\ Caps \subseteq Nat \ {0} /\ maxAIADepth \in Nat /\ MaxLost \in Nat
    /\ DOMAIN Host = Targets
    /\ \A d \in Deployments : DOMAIN d = Targets /\ \A t \in Targets : d[t] \in ServerKinds

VARIABLES
    server,    \* the deployment under test
    cap,       \* maxAddressProbes, the capacity of slots
    expired,   \* the run's deadline has passed
    lost,      \* exchanges lost so far
    slots,     \* the targets whose task holds a slot
    ended,     \* the targets whose task has returned
    pc80, pc443, pcq,
    res,       \* addrProbe and QUICResult of each target
    aia        \* aiaCache: what is known of each issuer URL

vars == <<server, cap, expired, lost, slots, ended, pc80, pc443, pcq, res, aia>>

\* nil pointers read "nil"; a verdict is "yes", "no" or "nil".  cut records that
\* the handshake with an old TLS version was reset; the code keeps no such field.
NewProbe == [http |-> "nil", plain |-> "nil", https |-> "nil", chain |-> "nil", noALPN |-> FALSE,
             cert |-> FALSE, depth |-> 0, h2 |-> "nil", page |-> "nil", old |-> "nil", cut |-> FALSE,
             quic |-> "nil"]

Init ==
    /\ server \in Deployments /\ cap \in Caps
    /\ expired = FALSE /\ lost = 0
    /\ slots = {} /\ ended = {}
    /\ pc80 = [t \in Targets |-> "dial"]
    /\ pc443 = [t \in Targets |-> "dial"]
    /\ pcq = [t \in Targets |-> "todo"]
    /\ res = [t \in Targets |-> NewProbe]
    /\ aia = [u \in URLs |-> "new"]

TypeOK ==
    /\ server \in Deployments /\ cap \in Caps /\ expired \in BOOLEAN /\ lost \in 0..MaxLost
    /\ slots \subseteq Targets /\ ended \subseteq Targets
    /\ pc80 \in [Targets -> {"dial", "done"}]
    /\ pc443 \in [Targets -> {"dial", "tls", "aia", "fetching", "fresh", "done"}]
    /\ pcq \in [Targets -> {"todo", "done"}]
    /\ aia \in [URLs -> {"new", "fetching", "cert", "error"}]

\* An exchange gets through, or is lost; past the deadline none gets through.
Through == ~expired /\ UNCHANGED lost
Lost    == \/ expired /\ UNCHANGED lost
           \/ ~expired /\ lost < MaxLost /\ lost' = lost + 1

\* classifyDialError of the connect attempt.
DialOutcome(port, through) ==
    IF ~through \/ port = "filtered" THEN "timeout" ELSE port

Deadline == ~expired /\ expired' = TRUE
            /\ UNCHANGED <<server, cap, lost, slots, ended, pc80, pc443, pcq, res, aia>>

-----------------------------------------------------------------------------
\* probeHost's task takes a slot; the context is not looked at here.
TakeSlot(t) ==
    /\ t \notin slots \union ended /\ Cardinality(slots) < cap
    /\ slots' = slots \union {t}
    /\ UNCHANGED <<server, cap, expired, lost, ended, pc80, pc443, pcq, res, aia>>

\* Mutant: a task that could not connect on 443 returns without its slot.
ReturnOnSuccess(t) ==
    /\ t \in slots /\ pc80[t] = "done" /\ pc443[t] = "done"
    /\ res[t].https = "open"
    /\ slots' = slots \ {t} /\ ended' = ended \union {t}
    /\ UNCHANGED <<server, cap, expired, lost, pc80, pc443, pcq, res, aia>>

\* probeAddress has joined both ports: the deferred release runs.
Return(t) ==
    /\ t \in slots /\ pc80[t] = "done" /\ pc443[t] = "done"
    /\ slots' = slots \ {t} /\ ended' = ended \union {t}
    /\ UNCHANGED <<server, cap, expired, lost, pc80, pc443, pcq, res, aia>>

\* probeHTTPPort: the connection, then one GET on it; each may be lost.
Probe80(t) ==
    /\ t \in slots /\ pc80[t] = "dial"
    /\ \/ /\ Through
          /\ res' = [res EXCEPT ![t].http = DialOutcome(server[t].p80, TRUE),
                                ![t].plain = IF server[t].p80 = "open" THEN server[t].plain ELSE "nil"]
       \/ /\ Lost
          /\ \/ res' = [res EXCEPT ![t].http = "timeout"]
             \/ ~expired /\ server[t].p80 = "open"
                /\ res' = [res EXCEPT ![t].http = "open", ![t].plain = "error"]
    /\ pc80' = [pc80 EXCEPT ![t] = "done"]
    /\ UNCHANGED <<server, cap, expired, slots, ended, pc443, pcq, aia>>

\* probeHTTPSPort, the dial: a refused port answers the HTTP/2 question.
Dial443(t) ==
    /\ t \in slots /\ pc443[t] = "dial"
    /\ \E through \in BOOLEAN :
          /\ IF through THEN Through ELSE Lost
          /\ LET st == DialOutcome(server[t].p443, through)
             IN  /\ res' = [res EXCEPT ![t].https = st,
                                       ![t].h2 = IF st = "refused" THEN "no" ELSE "nil"]
                 /\ pc443' = [pc443 EXCEPT ![t] = IF st = "open" THEN "tls" ELSE "done"]
    /\ UNCHANGED <<server, cap, expired, slots, ended, pc80, pcq, aia>>

\* A handshake that offers proto alone.
Completes(s, proto) == s.tls /\ (s.strict => proto \in s.protos)
Alert120(s, proto)  == s.tls /\ ~Completes(s, proto)

\* probeTLS: the main handshake offers http/1.1; a completed one has its chain
\* classified, and a chain of unknown authority is tried through its issuers.
ProbeTLS(t) ==
    LET s == server[t]
    IN  /\ pc443[t] = "tls"
        /\ \E through \in BOOLEAN :
              /\ IF through THEN Through ELSE Lost
              /\ IF through /\ Completes(s, "h1")
                   THEN /\ res' = [res EXCEPT ![t].cert = TRUE, ![t].chain = s.defect]
                        /\ pc443' = [pc443 EXCEPT ![t] = IF s.defect = "issuer" THEN "aia" ELSE "fresh"]
                   ELSE /\ res' = [res EXCEPT ![t].chain = "handshake_failed",
                                              ![t].noALPN = through /\ Alert120(s, "h1")]
                        /\ pc443' = [pc443 EXCEPT ![t] = "fresh"]
        /\ UNCHANGED <<server, cap, expired, slots, ended, pc80, pcq, aia>>

\* classifyVerifyError takes completeViaAIA's result.
Classify(t, chain) ==
    /\ res' = [res EXCEPT ![t].chain = chain]
    /\ pc443' = [pc443 EXCEPT ![t] = "fresh"]

NextIssuer(t) == server[t].issuers[res[t].depth + 1]

MayClimb(t) == res[t].depth < maxAIADepth /\ res[t].depth < Len(server[t].issuers)

\* fetchAIACached, the first caller of a URL: sync.Once runs its fetch.
StartFetch(t) ==
    /\ pc443[t] = "aia" /\ MayClimb(t) /\ aia[NextIssuer(t)] = "new"
    /\ aia' = [aia EXCEPT ![NextIssuer(t)] = "fetching"]
    /\ pc443' = [pc443 EXCEPT ![t] = "fetching"]
    /\ UNCHANGED <<server, cap, expired, lost, slots, ended, pc80, pcq, res>>

\* Mutant: a failed fetch is forgotten, and the next caller fetches again.
FetchAgain(t) ==
    /\ pc443[t] = "fetching"
    /\ \/ /\ Through /\ aia' = [aia EXCEPT ![NextIssuer(t)] = "cert"]
          /\ pc443' = [pc443 EXCEPT ![t] = "aia"] /\ UNCHANGED res
       \/ Lost /\ aia' = [aia EXCEPT ![NextIssuer(t)] = "new"] /\ Classify(t, "untrusted_root")
    /\ UNCHANGED <<server, cap, expired, slots, ended, pc80, pcq>>

\* fetchAIA ends, under this caller's context: its outcome is everyone's.
EndFetch(t) ==
    /\ pc443[t] = "fetching"
    /\ \/ Through /\ aia' = [aia EXCEPT ![NextIssuer(t)] = "cert"]
       \/ Lost /\ aia' = [aia EXCEPT ![NextIssuer(t)] = "error"]
    /\ pc443' = [pc443 EXCEPT ![t] = "aia"]
    /\ UNCHANGED <<server, cap, expired, slots, ended, pc80, pcq, res>>

\* completeViaAIA with a fetched issuer in hand, or nowhere left to climb.
UseIssuer(t) ==
    /\ pc443[t] = "aia"
    /\ \/ ~MayClimb(t) /\ Classify(t, "untrusted_root")
       \/ MayClimb(t) /\ aia[NextIssuer(t)] = "error" /\ Classify(t, "untrusted_root")
       \/ /\ MayClimb(t) /\ aia[NextIssuer(t)] = "cert"
          /\ IF server[t].trustedAt = res[t].depth + 1
               THEN Classify(t, "incomplete_chain")
               ELSE res' = [res EXCEPT ![t].depth = @ + 1] /\ UNCHANGED pc443
    /\ UNCHANGED <<server, cap, expired, lost, slots, ended, pc80, pcq, aia>>

\* Mutant: a handshake that was not answered reads as a refusal.
UnansweredIsNo(s, proto, through) ==
    IF through /\ Completes(s, proto) /\ proto \in s.protos THEN "yes" ELSE "no"

\* acceptsALPN.
acceptsALPN(s, proto, through) ==
    IF ~through \/ ~s.tls THEN "nil"
    ELSE IF Completes(s, proto) /\ proto \in s.protos THEN "yes" ELSE "no"

\* acceptsVersion: the handshake capped at an old version offers http/1.1.  One
\* that got no answer in time is nil, one that any other error ended is false.
acceptsVersion(s, how) ==
    CASE how = "silence" -> "nil"
      [] how = "reset" -> "no"
      [] OTHER -> IF Completes(s, "h1") /\ s.old THEN "yes" ELSE "no"

\* The GET on the main connection: its answer, something that is not HTTP/1.1,
\* or nothing.
httpRequest(s, through) ==
    IF ~through THEN "error" ELSE IF "h1" \in s.protos THEN s.page ELSE "malformed"

\* probeHTTPSPort's three parallel tasks.  Each asks on a connection of its own
\* and writes a field no other task reads, so they are joined in one step;
\* each may be lost, in silence or, for what tells the two apart, by a reset.
Fresh(t) ==
    LET s == server[t]
        ok == res[t].chain # "handshake_failed"
    IN  /\ pc443[t] = "fresh"
        /\ \E through \in [{"h2", "get", "old"} -> BOOLEAN], how \in {"answer", "silence", "reset"} :
              LET missed == Cardinality({q \in DOMAIN through : ~through[q]})
              IN  /\ through["old"] <=> how = "answer"
                  /\ IF expired THEN missed = 3 /\ how = "silence" /\ UNCHANGED lost
                     ELSE lost + missed <= MaxLost /\ lost' = lost + missed
                  /\ res' = [res EXCEPT
                        ![t].h2 = acceptsALPN(s, "h2", through["h2"]),
                        ![t].page = IF ok THEN httpRequest(s, through["get"]) ELSE "nil",
                        ![t].old = IF ok THEN acceptsVersion(s, how) ELSE "nil",
                        ![t].cut = ok /\ how = "reset"]
        /\ pc443' = [pc443 EXCEPT ![t] = "done"]
        /\ UNCHANGED <<server, cap, expired, slots, ended, pc80, pcq, aia>>

\* probeQUIC: quicprobe's verdict, its timeout, or a failure of its own.  It
\* waits for its own cap, not for a slot.
ProbeQUIC(t) ==
    /\ pcq[t] = "todo"
    /\ \/ /\ Through
          /\ res' = [res EXCEPT ![t].quic = CASE server[t].h3 = "serves" -> "supported"
                                              [] server[t].h3 = "refuses" -> "rejected"
                                              [] OTHER -> "timeout"]
       \/ /\ Lost
          /\ \E r \in IF expired THEN {"failed"} ELSE {"failed", "timeout"} :
                res' = [res EXCEPT ![t].quic = r]
    /\ pcq' = [pcq EXCEPT ![t] = "done"]
    /\ UNCHANGED <<server, cap, expired, slots, ended, pc80, pc443, aia>>

Terminated == ended = Targets /\ \A t \in Targets : pcq[t] = "done"

Finished == Terminated /\ UNCHANGED vars

Next ==
    \/ Deadline
    \/ \E t \in Targets :
          \/ TakeSlot(t) \/ Return(t) \/ Probe80(t) \/ Dial443(t) \/ ProbeTLS(t)
          \/ StartFetch(t) \/ EndFetch(t) \/ UseIssuer(t) \/ Fresh(t) \/ ProbeQUIC(t)
    \/ Finished

\* A goroutine that can run does; a send on slots that can proceed does, the
\* runtime queueing the waiters in order.
Fairness ==
    \A t \in Targets :
        /\ SF_vars(TakeSlot(t))
        /\ WF_vars(Return(t)) /\ WF_vars(Probe80(t)) /\ WF_vars(Dial443(t)) /\ WF_vars(ProbeTLS(t))
        /\ WF_vars(StartFetch(t)) /\ WF_vars(EndFetch(t)) /\ WF_vars(UseIssuer(t))
        /\ WF_vars(Fresh(t)) /\ WF_vars(ProbeQUIC(t))

Spec == Init /\ [][Next]_vars /\ Fairness

-----------------------------------------------------------------------------
\* httpVersionsFor: the verdicts of one address.
http11Verdict(r) ==
    IF r.https = "refused" THEN "no"
    ELSE IF r.chain = "nil" THEN "nil"
    ELSE IF r.noALPN THEN "no"
    ELSE IF r.chain = "handshake_failed" \/ r.page = "nil" THEN "nil"
    ELSE IF r.page \in {"ok", "denied", "5xx"} THEN "yes"
    ELSE IF r.page = "malformed" THEN "no" ELSE "nil"

h3Advertised(t) ==
    IF res[t].page \notin {"ok", "denied", "5xx"} THEN "nil"
    ELSE IF server[t].altsvc THEN "yes" ELSE "no"

http3Verdict(t) ==
    CASE res[t].quic = "supported" -> "yes"
      [] res[t].quic = "rejected" -> "no"
      [] res[t].quic = "timeout" /\ h3Advertised(t) = "no" -> "no"
      [] OTHER -> "nil"

HostDone(h) == \A t \in Targets : Host[t] = h => t \in ended /\ pcq[t] = "done"

TargetsOf(h) == {t \in Targets : Host[t] = h}

\* Mutant: every probed address is counted, whether or not its 443 answered.
CountAll(h) == TargetsOf(h)

\* tallyVersions counts HTTP/1.1 and HTTP/2 only where 443 answered.
tallied(h) == {t \in TargetsOf(h) : res[t].https = "open"}

\* httpVersionFindings, quicFindings.
versionCodes(h) ==
    LET h1(v) == \E t \in tallied(h) : http11Verdict(res[t]) = v
        h2(v) == \E t \in tallied(h) : res[t].h2 = v
        h3(v) == \E t \in TargetsOf(h) : http3Verdict(t) = v
        quic(ok) == \E t \in TargetsOf(h) : res[t].quic = "supported" <=> ok
    IN  {c \in {"http1_1_absent", "http2_absent", "http2_partial", "http3_absent",
                "h3_advertised_unreachable", "quic_partial"} :
           CASE c = "http1_1_absent" -> h1("no") /\ ~h1("yes")
             [] c = "http2_absent"   -> h2("no") /\ ~h2("yes")
             [] c = "http2_partial"  -> h2("no") /\ h2("yes")
             [] c = "http3_absent"   -> h3("no") /\ ~h3("yes")
             [] c = "quic_partial"   -> quic(TRUE) /\ quic(FALSE)
             [] OTHER -> \E t \in TargetsOf(h) : h3Advertised(t) = "yes" /\ http3Verdict(t) # "yes"}

\* listenerFindings, one per address, and port80PartialFindings.
listenerCode(r) ==
    IF r.https = "open" THEN "none"
    ELSE IF r.http # "open" THEN "web_no_listener"
    ELSE IF r.plain = "denied" THEN "https_not_verified" ELSE "https_unreachable"

Answered80(r) == r.plain \notin {"nil", "error"}

port80Partial(h) ==
    /\ \E t \in TargetsOf(h) : Answered80(res[t])
    /\ \E t \in TargetsOf(h) : ~Answered80(res[t]) /\ res[t].https = "open"

\* chainFindings: the chain problems a host fails for, over the addresses with
\* a TLS result.
chainProblems(h) == {res[t].chain : t \in TargetsOf(h)} \ {"nil", "valid"}

\* versionFindings' tls_legacy_versions.
legacyVersions(h) == \E t \in TargetsOf(h) : res[t].old = "yes"

\* certProfilesDiffer: cert_mismatch_between_addresses.
certMismatch(h) ==
    \E t, u \in TargetsOf(h) : res[t].cert /\ res[u].cert /\ res[t].chain # res[u].chain

\* statusFindings for one port, from the addresses that answered it.
statusCode(statuses) ==
    IF statuses = {"5xx"} THEN "http_server_error"
    ELSE IF "5xx" \in statuses THEN "http_server_error_partial"
    ELSE IF statuses = {"denied"} THEN "http_probe_refused" ELSE "none"

plainStatuses(h) == {res[t].plain : t \in {u \in TargetsOf(h) : Answered80(res[u])}}

pageStatuses(h) == {res[t].page : t \in {u \in TargetsOf(h) : res[u].page \in {"ok", "denied", "5xx"}}}

-----------------------------------------------------------------------------
\* What the servers really offer.
ServesH1(t) == server[t].p443 = "open" /\ server[t].tls /\ "h1" \in server[t].protos
ServesH2(t) == server[t].p443 = "open" /\ server[t].tls /\ "h2" \in server[t].protos
ServesOld(t) == server[t].p443 = "open" /\ server[t].tls /\ server[t].old

\* httpversions.go: an HTTP version is yes only where the server serves it and
\* no only where it does not, whatever was lost on the way and however early the
\* deadline came.  Two losses do count as a no: UDP 443's silence, where the page
\* that was served does not advertise h3, and a reset of the handshake that asks
\* for an old TLS version (acceptsVersion, which takes every error that is not a
\* timeout for the server's refusal).
VerdictsSound ==
    \A t \in Targets :
        /\ http11Verdict(res[t]) \in {"yes", "no"} => (http11Verdict(res[t]) = "yes" <=> ServesH1(t))
        /\ res[t].h2 \in {"yes", "no"} => (res[t].h2 = "yes" <=> ServesH2(t))
        /\ res[t].old = "yes" => ServesOld(t)
        /\ res[t].old = "no" => ~ServesOld(t) \/ res[t].cut
        /\ http3Verdict(t) = "yes" => server[t].h3 = "serves"
        /\ http3Verdict(t) = "no" => server[t].h3 # "serves" \/ (~server[t].altsvc /\ res[t].quic = "timeout")

\* acceptsVersion's comment: "false when the server turns it down, and nil when
\* the question was never put".
NoMeansTurnedDown == \A t \in Targets : res[t].old = "no" => ~ServesOld(t)

\* aia.go: "an issuer URL is fetched once per run however many addresses
\* served a leaf naming it": addresses that serve one chain get one verdict on
\* it, a lost fetch included, so cert_mismatch_between_addresses is never raised
\* by the weather on the path to the issuer.
SameChainSameVerdict ==
    \A t, u \in Targets :
        /\ server[t].issuers = server[u].issuers /\ server[t].trustedAt = server[u].trustedAt
        /\ server[t].defect = server[u].defect
        /\ res[t].cert /\ res[u].cert /\ pc443[t] \in {"fresh", "done"} /\ pc443[u] \in {"fresh", "done"}
        => res[t].chain = res[u].chain

\* UDP 443 gave no answer, or the probe of it none.
Unheard(t) == res[t].quic \notin {"supported", "rejected"}

\* report.go: what a host's findings say of its servers, once every address has
\* been probed.  HTTP/1.1 or HTTP/2 is absent where an address does not serve it
\* and none that does settled the question; HTTP/3 is absent where an address
\* does not serve it or was silent without advertising it, and none that does
\* was heard from.  HTTP/2 on some is HTTP/2 on some and not on others of those
\* whose 443 answered; QUIC on some, or advertised and unreachable, leaves an
\* address that does not serve it or was not heard from.  A server error on
\* every address is one on every address that answered, and certificates differ
\* only where servers do.  An address without HTTPS, or without port 80 beside
\* others that have it, is told; one that speaks TLS and no HTTP is told only if
\* the GET came back and no other address speaks HTTP/1.1.
FindingsSound ==
    \A h \in {Host[t] : t \in Targets} : HostDone(h) =>
        LET T == TargetsOf(h)
            codes == versionCodes(h)
        IN  /\ "http1_1_absent" \in codes =>
                  /\ \E t \in T : res[t].https = "open" /\ ~ServesH1(t)
                  /\ \A t \in T : ServesH1(t) => http11Verdict(res[t]) = "nil"
            /\ "http2_absent" \in codes =>
                  /\ \E t \in T : res[t].https = "open" /\ ~ServesH2(t)
                  /\ \A t \in T : ServesH2(t) => res[t].h2 = "nil"
            /\ "http2_partial" \in codes =>
                  \E t, u \in T : res[t].https = "open" /\ res[u].https = "open"
                                  /\ ServesH2(t) /\ ~ServesH2(u)
            /\ "http3_absent" \in codes =>
                  /\ \E t \in T : server[t].h3 # "serves" \/ (~server[t].altsvc /\ Unheard(t))
                  /\ \A t \in T : server[t].h3 = "serves" => Unheard(t)
            /\ "h3_advertised_unreachable" \in codes =>
                  \E t \in T : server[t].altsvc /\ (server[t].h3 # "serves" \/ Unheard(t))
            /\ "quic_partial" \in codes =>
                  /\ \E t \in T : server[t].h3 = "serves"
                  /\ \E t \in T : server[t].h3 # "serves" \/ Unheard(t)
            /\ legacyVersions(h) => \E t \in T : ServesOld(t)
            /\ "incomplete_chain" \in chainProblems(h) => \E t \in T : server[t].trustedAt > 0
            /\ certMismatch(h) => \E t, u \in T : server[t] # server[u]
            /\ statusCode(plainStatuses(h)) = "http_server_error" =>
                  \A t \in T : server[t].plain = "5xx" \/ ~Answered80(res[t])
            /\ statusCode(pageStatuses(h)) = "http_server_error" =>
                  \A t \in T : server[t].page = "5xx" \/ http11Verdict(res[t]) # "yes"
            /\ \A t \in T : ~ServesH1(t) /\ ~ServesH2(t) =>
                  \/ listenerCode(res[t]) # "none" \/ "handshake_failed" \in chainProblems(h)
                  \/ "http1_1_absent" \in codes \/ \E u \in T : http11Verdict(res[u]) = "yes"
                  \/ res[t].page = "error"
            /\ (\E t \in T : server[t].p80 # "open" /\ res[t].https = "open") =>
                  port80Partial(h) \/ plainStatuses(h) = {}

\* run.go: probeWeb returns.  A task that waits for a slot does not watch the
\* deadline, so this rests on every holder giving its slot back on every path
\* and on no holder waiting forever for another's issuer fetch.
ProbesReturn == <>Terminated

\* HTTPVersions' comment: "silence is never read as absence".
SilenceIsNotAbsence == \A t \in Targets : http3Verdict(t) = "no" => server[t].h3 # "serves"

\* httpversions.go: "A probe that failed locally says nothing."
LocalFailureSaysNothing ==
    \A h \in {Host[t] : t \in Targets} :
        HostDone(h) /\ "h3_advertised_unreachable" \in versionCodes(h) =>
            \E t \in TargetsOf(h) : h3Advertised(t) = "yes" /\ res[t].quic \in {"timeout", "rejected"}

=============================================================================
