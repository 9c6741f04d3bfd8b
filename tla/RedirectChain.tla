---------------------------- MODULE RedirectChain ----------------------------
(***************************************************************************)
(* What a host's entry point leads to (httpprobe.go, followRedirects):     *)
(* each address of the host is asked for the entry URL, then one chain per *)
(* address family follows Location headers, bounded and within the known   *)
(* hosts (run.go, probeHost, redirectChains).  At the end the run compares *)
(* everything it was told about each URL (webconsistency.go).  The server  *)
(* gives a URL one answer, drawn when it is first asked, except for the    *)
(* requests it answers out of turn, and those it refuses or loses.         *)
(***************************************************************************)
EXTENDS Naturals, Sequences, FiniteSets

CONSTANTS
    URLs,        \* the URLs a Location can hold, as spelled
    Bads,        \* Locations that do not parse
    Long,        \* the Locations of both kinds over maxLocationBytes
    Clips, Clip, \* their clipped texts, and the one that each is cut to
    Key,         \* urlKey: URLs that are one request have one key
    Short,       \* what describeAnswer names a Location by: its key without the query
    Scheme,      \* "http", "https" or another, of a clipped text too
    Host,        \* the host a URL names
    Apex, WWW,   \* the hosts a chain may connect to
    Entry,       \* http://apex/
    Families,
    maxRedirectHops,
    MaxOdd       \* bound: requests answered out of turn, refused or lost

NoLocation  == "none"
BadLocation == "(bad Location)"    \* what describeAnswer says of one that does not parse

\* What a redirect may point to, as the server sends it.
Locations == URLs \union Bads

ASSUME URLAssumption ==
    /\ Entry \in URLs /\ NoLocation \notin URLs
    /\ Key \in [URLs -> URLs] /\ \A u \in URLs : Key[Key[u]] = Key[u]
    /\ Key[Entry] = Entry
    /\ \A u \in URLs : Short[u] \in URLs /\ Short[Key[u]] = Short[u]
    /\ \A u \in URLs : Scheme[Key[u]] = Scheme[u] /\ Host[Key[u]] = Host[u]
    /\ Host \in [URLs -> STRING] /\ Host[Entry] = Apex /\ Scheme[Entry] = "http"
    /\ maxRedirectHops \in Nat \ {0} /\ MaxOdd \in Nat

ASSUME LocationAssumption ==
    /\ NoLocation \notin Locations \union Clips /\ BadLocation \notin URLs \union Clips
    /\ URLs \intersect Bads = {} /\ Locations \intersect Clips = {}
    /\ Long \subseteq Locations /\ Clip \in [Long -> Clips]
    /\ DOMAIN Short = Locations \union Clips /\ \A b \in Bads : Short[b] = BadLocation
    /\ Scheme \in [URLs \union Clips -> STRING]

Keys == {Key[u] : u \in URLs}

\* A response head as the checks read it; status "lost" is HTTPResult.Error,
\* "refused" a 403 or a 429 that answers this client, "failed" another 4xx/5xx.
Answers ==
    [status : {"ok", "refused", "failed", "lost"}, location : {NoLocation}]
        \union [status : {"redirect"}, location : Locations \union {NoLocation}]

Noise == {a \in Answers : a.status \in {"refused", "lost"}}

\* Two redirects that differ in the query only are one answer.
Same(a, b) ==
    /\ a.status = b.status
    /\ \/ a.location = b.location
       \/ /\ {a.location, b.location} \subseteq Locations \union Clips
          /\ Short[a.location] = Short[b.location]

VARIABLES
    hosts,    \* hostAddrs of each family: the hosts it has an address for
    server,   \* the answer each URL has been given, a set of one or none
    flips, noise,
    probe,    \* AddrWeb.HTTPRes of each family's address, a set of one or none
    chain,    \* RedirectChain of each family
    current,  \* followRedirects: the URL to visit
    seen,     \* its visited keys
    pc

vars == <<hosts, server, flips, noise, probe, chain, current, seen, pc>>

NewChain == [hops |-> <<>>, ended |-> "", error |-> FALSE]

Init ==
    /\ hosts \in [Families -> {{Apex}, {Apex, WWW}}]
    /\ server = [k \in Keys |-> {}] /\ flips = 0 /\ noise = 0
    /\ probe = [f \in Families |-> {}]
    /\ chain = [f \in Families |-> NewChain]
    /\ current = [f \in Families |-> Entry]
    /\ seen = [f \in Families |-> {}]
    /\ pc = [f \in Families |-> "probe"]

\* The server answers a request for k with a.
Serve(k, a) ==
    \/ /\ a.status # "lost"
       /\ \A b \in server[k] : Same(a, b)
       /\ server' = [server EXCEPT ![k] = IF @ = {} THEN {a} ELSE @]
       /\ UNCHANGED <<flips, noise>>
    \/ /\ a \in Noise /\ a \notin server[k] /\ flips + noise < MaxOdd
       /\ noise' = noise + 1
       /\ UNCHANGED <<server, flips>>
    \/ /\ a.status # "lost" /\ flips + noise < MaxOdd
       /\ \E b \in server[k] : ~Same(a, b)
       /\ flips' = flips + 1
       /\ UNCHANGED <<server, noise>>

-----------------------------------------------------------------------------
\* probeAddress: the entry URL is asked of the family's address.
Probe(f) ==
    /\ pc[f] = "probe"
    /\ \E a \in Answers : Serve(Entry, a) /\ probe' = [probe EXCEPT ![f] = {a}]
    /\ pc' = [pc EXCEPT ![f] = "probed"]
    /\ UNCHANGED <<hosts, chain, current, seen>>

\* probeHost joins the probes before redirectChains starts the followers.
StartChains ==
    /\ \A f \in Families : pc[f] = "probed"
    /\ pc' = [f \in Families |-> "admit"]
    /\ UNCHANGED <<hosts, server, flips, noise, probe, chain, current, seen>>

End(f, how, err) ==
    /\ chain' = [chain EXCEPT ![f].ended = how, ![f].error = err]
    /\ pc' = [pc EXCEPT ![f] = "done"]

\* Mutant: URLs are compared as spelled.
SpelledKey(u) == u

visitKey(u) == Key[u]

\* admit: a URL visited before closes a loop; another scheme breaks the chain,
\* a host without an address in this family ends it.
Admit(f) ==
    LET u == current[f]
        k == visitKey(u)
    IN  /\ pc[f] = "admit"
        /\ Len(chain[f].hops) <= maxRedirectHops
        /\ seen' = [seen EXCEPT ![f] = @ \union {k}]
        /\ IF k \in seen[f] THEN End(f, "loop", FALSE)
           ELSE IF Scheme[u] \notin {"http", "https"} THEN End(f, "error", TRUE)
           ELSE IF Host[u] \notin hosts[f] THEN End(f, "external", FALSE)
           ELSE pc' = [pc EXCEPT ![f] = "fetch"] /\ UNCHANGED chain
        /\ UNCHANGED <<hosts, server, flips, noise, probe, current>>

GiveUp(f) ==
    /\ pc[f] = "admit"
    /\ Len(chain[f].hops) > maxRedirectHops
    /\ End(f, "hop_limit", TRUE)
    /\ UNCHANGED <<hosts, server, flips, noise, probe, current, seen>>

\* A hop keeps a Location cut to maxLocationBytes; a probe keeps all of it.
clipLocation(l) == IF l \in Long THEN Clip[l] ELSE l

\* fetchHead and next: the hop is recorded unless the fetch failed, and the
\* chain goes on only to a Location that can be followed.
Fetch(f) ==
    /\ pc[f] = "fetch"
    /\ \E a \in Answers :
        LET hop == [url |-> current[f], status |-> a.status, location |-> clipLocation(a.location)]
            done(how, err) ==
                /\ chain' = [chain EXCEPT ![f] = [hops |-> Append(@.hops, hop), ended |-> how, error |-> err]]
                /\ pc' = [pc EXCEPT ![f] = "done"] /\ UNCHANGED current
        IN  /\ Serve(Key[current[f]], a)
            /\ \/ a.status = "lost" /\ End(f, "error", TRUE) /\ UNCHANGED current
               \/ a.status # "lost" /\ a.location = NoLocation /\ done("final", FALSE)
               \/ a.location \in Bads \union Long /\ done("error", TRUE)
               \/ /\ a.location \in URLs \ Long
                  /\ chain' = [chain EXCEPT ![f].hops = Append(@, hop)]
                  /\ current' = [current EXCEPT ![f] = a.location]
                  /\ pc' = [pc EXCEPT ![f] = "admit"]
    /\ UNCHANGED <<hosts, probe, seen>>

Done == (\A f \in Families : pc[f] = "done") /\ UNCHANGED vars

Next ==
    \/ \E f \in Families : Probe(f) \/ Admit(f) \/ GiveUp(f) \/ Fetch(f)
    \/ StartChains \/ Done

Spec == Init /\ [][Next]_vars

-----------------------------------------------------------------------------
(* The report: webconsistency.go, and redirectFindings of report.go.       *)

Hops(f) == chain[f].hops
Ended == \A f \in Families : pc[f] = "done"

\* Mutant: a refusal is compared like any answer.
NotLost(a) == a.status # "lost"

\* comparable: what says something about the URL rather than the probe.
comparable(a) == a.status \notin {"lost", "refused"} /\ ~(a.status = "redirect" /\ a.location = NoLocation)

\* collectWebObservations: every response of the run about the URL of key k.
Observations(k) ==
    {a \in UNION {probe[f] : f \in Families} : k = Entry /\ comparable(a)}
        \union {a \in {[status |-> h.status, location |-> h.location] :
                           h \in UNION {{Hops(f)[i] : i \in {j \in DOMAIN Hops(f) : Key[Hops(f)[j].url] = k}} :
                                        f \in Families}} : comparable(a)}

\* answerTally has more than one answer: http_response_inconsistent.
inconsistent(k) == \E a, b \in Observations(k) : ~Same(a, b)

\* selfRedirects: a probe was sent back to the URL it asked for.
redirectSelf ==
    \E f \in Families : \E a \in probe[f] : a.location \in URLs /\ Key[a.location] = Entry

\* Mutant: a chain that was not followed to its end is taken for a loop.
LimitIsLoop(f) ==
    LET c == chain[f]
    IN  IF c.hops = <<>> THEN "none"
        ELSE IF c.ended \in {"loop", "hop_limit"} THEN "redirect_loop"
        ELSE IF c.error THEN "redirect_broken"
        ELSE "none"

\* chainFinding: how the chain's end is reported.
chainFinding(f) ==
    LET c == chain[f] last == c.hops[Len(c.hops)]
    IN  IF c.hops = <<>> THEN "none"
        ELSE IF c.ended = "loop" THEN "redirect_loop"
        ELSE IF c.ended = "hop_limit" THEN "redirect_hop_limit"
        ELSE IF c.error THEN "redirect_broken"
        ELSE IF last.status = "refused" THEN "http_probe_refused"
        ELSE IF last.status = "failed" THEN "redirect_ends_error"
        ELSE "none"

downgradeHop(f) ==
    \E i \in DOMAIN Hops(f) :
        /\ Scheme[Hops(f)[i].url] = "https"
        /\ Hops(f)[i].location \in URLs \union Clips /\ Scheme[Hops(f)[i].location] = "http"

-----------------------------------------------------------------------------
Hop == [url : URLs, status : {"ok", "refused", "failed", "redirect"},
        location : Locations \union Clips \union {NoLocation}]

TypeOK ==
    /\ hosts \in [Families -> SUBSET {Apex, WWW}]
    /\ server \in [Keys -> SUBSET Answers]
    /\ flips \in 0..MaxOdd /\ noise \in 0..MaxOdd
    /\ probe \in [Families -> SUBSET Answers]
    /\ chain \in [Families -> [hops : Seq(Hop), error : BOOLEAN,
                               ended : {"", "loop", "error", "external", "hop_limit", "final"}]]
    /\ current \in [Families -> URLs]
    /\ seen \in [Families -> SUBSET URLs]
    /\ pc \in [Families -> {"probe", "probed", "admit", "fetch", "done"}]

\* A chain asks for no URL twice, however it is spelled, makes at most
\* maxRedirectHops + 1 requests, and connects only to a host the family has an
\* address for, whatever the server answers (admit, followRedirects' loop).
ChainBounded ==
    \A f \in Families :
        LET asked == {Key[Hops(f)[i].url] : i \in DOMAIN Hops(f)}
        IN  /\ Len(Hops(f)) <= maxRedirectHops + 1
            /\ Cardinality(asked) = Len(Hops(f))
            /\ \A i \in DOMAIN Hops(f) : Host[Hops(f)[i].url] \in hosts[f]
            /\ pc[f] = "fetch" => /\ Host[current[f]] \in hosts[f]
                                  /\ Key[current[f]] \notin asked
                                  /\ Len(Hops(f)) <= maxRedirectHops

\* What the server says of k is a redirect to one of ks, up to the query.
StaysIn(k, ks) == \E a \in server[k], j \in ks : a.location \in URLs /\ Short[a.location] = Short[j]

\* A loop is reported of a server that has one: unless it answered out of turn,
\* the URLs of the chain hold a set that its redirects never leave.  A server
\* that sends the entry URL back to itself is always told, as redirect_self and
\* as a loop of each chain, unless a query that it adds makes the target another
\* URL or a Location over the limit breaks the chain there; a chain that left
\* https for http is told also where it ended before the http target was visited
\* (chainFinding, selfRedirects, downgradeFindings).
ChainFindingsSound ==
    /\ Ended /\ flips = 0 =>
        /\ \A f \in Families : chainFinding(f) = "redirect_loop" =>
            \E ks \in SUBSET {Key[Hops(f)[i].url] : i \in DOMAIN Hops(f)} :
                ks # {} /\ \A k \in ks : StaysIn(k, ks)
        /\ (noise = 0 /\ \E a \in server[Entry] : a.location \in URLs /\ Key[a.location] = Entry) =>
            /\ redirectSelf
            /\ \A f \in Families :
                  LET first == Hops(f)[1]
                  IN  /\ Hops(f) # <<>>
                      /\ \/ first.location \in Clips
                         \/ /\ first.location \in URLs /\ Short[first.location] = Short[Entry]
                            /\ Key[first.location] = Entry => chainFinding(f) = "redirect_loop"
    /\ \A f \in Families :
        (/\ pc[f] = "done" /\ Hops(f) # <<>>
         /\ chain[f].ended \in {"loop", "external", "hop_limit"}
         /\ Scheme[Hops(f)[Len(Hops(f))].url] = "https" /\ Scheme[current[f]] = "http") => downgradeHop(f)

\* Clipped texts that no longer name what the whole Location does: the cut
\* fell before its query.
Misread == {Clip[l] : l \in {m \in Long : Short[Clip[m]] # Short[m]}}

\* A server that gives every URL one answer is not reported as inconsistent,
\* even if it spells its redirects differently, puts a new token in each, of any
\* length, or starts to refuse requests halfway through; except of a URL that it
\* redirects to a path over maxLocationBytes, which a hop has clipped and a probe
\* has not (comparable, describeAnswer, clipLocation).
SteadyServerConsistent ==
    Ended /\ flips = 0 =>
        \A k \in Keys : inconsistent(k) =>
            \E f \in Families : \E i \in DOMAIN Hops(f) :
                Key[Hops(f)[i].url] = k /\ Hops(f)[i].location \in Misread

\* clipLocation's comment says that "a clipped value is never mistaken for the
\* real one", so a server that gives every URL one answer is never told to give
\* several.
ClippedNeverMistaken == Ended /\ flips = 0 => \A k \in Keys : ~inconsistent(k)

=============================================================================
