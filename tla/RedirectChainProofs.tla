------------------------ MODULE RedirectChainProofs ------------------------
(***************************************************************************)
(* Proofs about the redirect chains, for any set of URLs, spellings and    *)
(* families and any server.  The invariant is about one chain at a time:   *)
(* what it has visited (Visits), how its hops follow from each other       *)
(* (Linked) and that it has seen nothing else (Known), and how its answers *)
(* relate to the server's own (Steady; Quiet where nothing was lost).  A   *)
(* loop then follows from the links: from the hop that is visited again to *)
(* the last one, each is redirected to the next.                           *)
(***************************************************************************)
EXTENDS RedirectChain, TLAPS, FiniteSetTheorems

USE URLAssumption

-----------------------------------------------------------------------------
(* Facts about the helpers *)

\* Same is an equivalence, of which the proofs need this much.
LEMMA SameFacts ==
    ASSUME NEW a \in Answers, NEW b \in Answers, NEW c \in Answers
    PROVE  /\ Same(a, a)
           /\ Same(a, c) /\ Same(b, c) => Same(a, b)
  BY DEF Same

\* An answer that is the same as a redirect to a URL is one too.
LEMMA SameURL ==
    ASSUME NEW a, NEW b, Same(a, b), a.location \in URLs, b.location \in Locations \union {NoLocation}
    PROVE  b.location \in URLs /\ Short[b.location] = Short[a.location]
  BY LocationAssumption DEF Same, Locations

\* What a hop keeps of a Location: a clipped text is none that can be followed.
LEMMA ClipFacts ==
    ASSUME NEW a \in Answers
    PROVE  /\ a.location \in URLs \ Long => clipLocation(a.location) = a.location
           /\ a.location \notin URLs \ Long => clipLocation(a.location) \notin URLs
           /\ clipLocation(a.location) # NoLocation <=> a.location # NoLocation
<1>1. a.location \in Locations \union {NoLocation}
  BY DEF Answers
<1> QED  BY <1>1, LocationAssumption DEF clipLocation, Locations

\* A hop whose clipped Location still names its target is the answer it keeps.
LEMMA ClipSame ==
    ASSUME NEW a \in Answers, NEW b \in Answers, Same(a, b), NEW hop,
           hop.status = a.status, hop.location = clipLocation(a.location), hop.location \notin Misread
    PROVE  Same(hop, b)
<1>1. CASE a.location \notin Long
  BY <1>1 DEF clipLocation, Same
<1>2. CASE a.location \in Long
  <2>1. hop.location = Clip[a.location] /\ hop.location \in Clips
    BY <1>2, LocationAssumption DEF clipLocation
  <2>2. Short[hop.location] = Short[a.location]
    BY <1>2, <2>1 DEF Misread
  <2>3. a.location \in Locations /\ NoLocation \notin Locations \union Clips
    BY <1>2, LocationAssumption
  <2>4. b.location \in Locations /\ Short[a.location] = Short[b.location]
    BY <2>3 DEF Same, Answers
  <2> QED  BY <2>1, <2>2, <2>4 DEF Same
<1> QED  BY <1>1, <1>2

\* The server has at most one answer of its own for a URL.
SingleAnswer == \A k \in Keys : \A a, b \in server[k] : a = b

\* What one request leaves behind: the server's own answer is kept once given,
\* a comparable answer is the server's own unless it was out of turn, and so is
\* any answer unless it was out of turn, refused or lost.
LEMMA ServeFacts ==
    ASSUME server \in [Keys -> SUBSET Answers], flips \in 0..MaxOdd, noise \in 0..MaxOdd,
           SingleAnswer, NEW k \in Keys, NEW a \in Answers, Serve(k, a)
    PROVE  /\ server' \in [Keys -> SUBSET Answers] /\ flips' \in 0..MaxOdd /\ noise' \in 0..MaxOdd
           /\ SingleAnswer'
           /\ \A j \in Keys : server[j] \subseteq server'[j]
           /\ \A j \in Keys \ {k} : server'[j] = server[j]
           /\ server'[k] = server[k] \/ (server[k] = {} /\ server'[k] = {a})
           /\ flips' = 0 => flips = 0
           /\ noise' = 0 => noise = 0
           /\ flips' = 0 /\ comparable(a) => \E b \in server'[k] : Same(a, b)
           /\ flips' = 0 /\ noise' = 0 => a.status # "lost" /\ \E b \in server'[k] : Same(a, b)
<1>1. CASE /\ a.status # "lost"
           /\ \A b \in server[k] : Same(a, b)
           /\ server' = [server EXCEPT ![k] = IF @ = {} THEN {a} ELSE @]
           /\ UNCHANGED <<flips, noise>>
  <2>1. CASE server[k] = {}
    <3>1. server' = [server EXCEPT ![k] = {a}]
      BY <1>1, <2>1
    <3>2. /\ server' \in [Keys -> SUBSET Answers]
          /\ server'[k] = {a} /\ \A j \in Keys \ {k} : server'[j] = server[j]
      BY <3>1
    <3>3. SingleAnswer'
      BY <3>2 DEF SingleAnswer
    <3> QED  BY <1>1, <2>1, <3>2, <3>3, SameFacts
  <2>2. CASE server[k] # {}
    <3>1. server' = server
      BY <1>1, <2>2
    <3> QED  BY <1>1, <2>2, <3>1 DEF SingleAnswer
  <2> QED  BY <2>1, <2>2
<1>2. CASE /\ a \in Noise /\ a \notin server[k] /\ flips + noise < MaxOdd
           /\ noise' = noise + 1
           /\ UNCHANGED <<server, flips>>
  <2>1. noise' # 0 /\ noise' \in 0..MaxOdd
    BY <1>2
  <2>2. ~comparable(a)
    BY <1>2 DEF Noise, comparable
  <2> QED  BY <1>2, <2>1, <2>2 DEF SingleAnswer
<1>3. CASE /\ a.status # "lost" /\ flips + noise < MaxOdd
           /\ \E b \in server[k] : ~Same(a, b)
           /\ flips' = flips + 1
           /\ UNCHANGED <<server, noise>>
  <2>1. flips' # 0 /\ flips' \in 0..MaxOdd
    BY <1>3
  <2> QED  BY <1>3, <2>1 DEF SingleAnswer
<1> QED  BY <1>1, <1>2, <1>3 DEF Serve

-----------------------------------------------------------------------------
(* What an action does to one chain. *)

\* A step of one family leaves the others alone.
Others(f) ==
    \A g \in Families \ {f} : /\ Hops(g)' = Hops(g) /\ chain'[g] = chain[g] /\ current'[g] = current[g]
                              /\ seen'[g] = seen[g] /\ pc'[g] = pc[g] /\ probe'[g] = probe[g]

ChainType == [hops : Seq(Hop), error : BOOLEAN,
              ended : {"", "loop", "error", "external", "hop_limit", "final"}]

\* A chain that ends keeps its hops.
LEMMA EndEffect ==
    ASSUME TypeOK, NEW f \in Families, NEW how \in {"loop", "error", "external", "hop_limit", "final"},
           NEW err \in BOOLEAN, End(f, how, err)
    PROVE  /\ chain' \in [Families -> ChainType]
           /\ pc' \in [Families -> {"probe", "probed", "admit", "fetch", "done"}]
           /\ Hops(f)' = Hops(f) /\ chain'[f].ended = how /\ pc'[f] = "done"
           /\ \A g \in Families \ {f} : chain'[g] = chain[g] /\ Hops(g)' = Hops(g) /\ pc'[g] = pc[g]
<1>1. chain \in [Families -> ChainType] /\ chain[f] \in ChainType
  BY DEF TypeOK, ChainType
<1>2. chain' = [chain EXCEPT ![f] = [chain[f] EXCEPT !.ended = how, !.error = err]]
  BY <1>1 DEF End
<1>3. [chain[f] EXCEPT !.ended = how, !.error = err] \in ChainType
  BY <1>1 DEF ChainType
<1>4. /\ chain' \in [Families -> ChainType]
      /\ chain'[f] = [chain[f] EXCEPT !.ended = how, !.error = err]
      /\ \A g \in Families \ {f} : chain'[g] = chain[g]
  BY <1>1, <1>2, <1>3
<1>5. chain'[f].hops = chain[f].hops /\ chain'[f].ended = how
  BY <1>1, <1>4 DEF ChainType
<1>6. /\ pc' \in [Families -> {"probe", "probed", "admit", "fetch", "done"}]
      /\ pc'[f] = "done" /\ \A g \in Families \ {f} : pc'[g] = pc[g]
  BY DEF End, TypeOK
<1> QED  BY <1>4, <1>5, <1>6 DEF Hops

\* What admit does to the chain it looks at, and to no other.
LEMMA AdmitEffect ==
    ASSUME TypeOK, NEW f \in Families, Admit(f)
    PROVE  /\ TypeOK' /\ Others(f)
           /\ UNCHANGED <<hosts, server, flips, noise, probe, current>>
           /\ Hops(f)' = Hops(f) /\ Len(Hops(f)) <= maxRedirectHops
           /\ pc[f] = "admit" /\ pc'[f] \in {"fetch", "done"}
           /\ seen'[f] = seen[f] \union {Key[current[f]]}
           /\ pc'[f] = "fetch" => /\ Key[current[f]] \notin seen[f] /\ Host[current[f]] \in hosts[f]
                                  /\ chain'[f].ended = chain[f].ended
           /\ pc'[f] = "done" => chain'[f].ended \in {"loop", "error", "external"}
           /\ pc'[f] = "done" => (chain'[f].ended = "loop" <=> Key[current[f]] \in seen[f])
           /\ pc'[f] = "done" /\ chain'[f].ended = "error" => Scheme[current[f]] \notin {"http", "https"}
           /\ pc'[f] = "done" /\ chain'[f].ended = "external" => Host[current[f]] \notin hosts[f]
<1> DEFINE u == current[f]
           k == Key[u]
<1>0. /\ pc[f] = "admit" /\ Len(Hops(f)) <= maxRedirectHops
      /\ UNCHANGED <<hosts, server, flips, noise, probe, current>>
      /\ seen' = [seen EXCEPT ![f] = @ \union {k}]
  BY DEF Admit, visitKey, Hops
<1>1. u \in URLs /\ k \in URLs
  BY DEF TypeOK
<1>2. /\ seen' \in [Families -> SUBSET URLs] /\ seen'[f] = seen[f] \union {k}
      /\ \A g \in Families \ {f} : seen'[g] = seen[g]
  BY <1>0, <1>1 DEF TypeOK
<1>3. CASE k \in seen[f]
  <2>1. End(f, "loop", FALSE)
    BY <1>3 DEF Admit, visitKey
  <2>2. TypeOK'
    BY <1>0, <1>2, <2>1, EndEffect DEF TypeOK, ChainType
  <2>3. /\ Hops(f)' = Hops(f) /\ chain'[f].ended = "loop" /\ pc'[f] = "done"
        /\ \A g \in Families \ {f} : chain'[g] = chain[g] /\ Hops(g)' = Hops(g) /\ pc'[g] = pc[g]
    BY <2>1, EndEffect
  <2> QED  BY <1>0, <1>2, <1>3, <2>2, <2>3 DEF Others
<1>4. CASE k \notin seen[f] /\ Scheme[u] \notin {"http", "https"}
  <2>1. End(f, "error", TRUE)
    BY <1>4 DEF Admit, visitKey
  <2>2. TypeOK'
    BY <1>0, <1>2, <2>1, EndEffect DEF TypeOK, ChainType
  <2>3. /\ Hops(f)' = Hops(f) /\ chain'[f].ended = "error" /\ pc'[f] = "done"
        /\ \A g \in Families \ {f} : chain'[g] = chain[g] /\ Hops(g)' = Hops(g) /\ pc'[g] = pc[g]
    BY <2>1, EndEffect
  <2> QED  BY <1>0, <1>2, <1>4, <2>2, <2>3 DEF Others
<1>5. CASE k \notin seen[f] /\ Scheme[u] \in {"http", "https"} /\ Host[u] \notin hosts[f]
  <2>1. End(f, "external", FALSE)
    BY <1>5 DEF Admit, visitKey
  <2>2. TypeOK'
    BY <1>0, <1>2, <2>1, EndEffect DEF TypeOK, ChainType
  <2>3. /\ Hops(f)' = Hops(f) /\ chain'[f].ended = "external" /\ pc'[f] = "done"
        /\ \A g \in Families \ {f} : chain'[g] = chain[g] /\ Hops(g)' = Hops(g) /\ pc'[g] = pc[g]
    BY <2>1, EndEffect
  <2> QED  BY <1>0, <1>2, <1>5, <2>2, <2>3 DEF Others
<1>6. CASE k \notin seen[f] /\ Scheme[u] \in {"http", "https"} /\ Host[u] \in hosts[f]
  <2>1. pc' = [pc EXCEPT ![f] = "fetch"] /\ chain' = chain
    BY <1>6 DEF Admit, visitKey
  <2>2. /\ pc' \in [Families -> {"probe", "probed", "admit", "fetch", "done"}] /\ pc'[f] = "fetch"
        /\ \A g \in Families \ {f} : pc'[g] = pc[g]
    BY <2>1 DEF TypeOK
  <2>3. TypeOK'
    BY <1>0, <1>2, <2>1, <2>2 DEF TypeOK
  <2> QED  BY <1>0, <1>2, <1>6, <2>1, <2>2, <2>3 DEF Others, Hops
<1> QED  BY <1>3, <1>4, <1>5, <1>6

\* The hop limit ends a chain and changes nothing else.
LEMMA GiveUpEffect ==
    ASSUME TypeOK, NEW f \in Families, GiveUp(f)
    PROVE  /\ TypeOK' /\ Others(f)
           /\ UNCHANGED <<hosts, server, flips, noise, probe, current, seen>>
           /\ Hops(f)' = Hops(f) /\ Len(Hops(f)) > maxRedirectHops
           /\ pc[f] = "admit" /\ pc'[f] = "done" /\ chain'[f].ended = "hop_limit"
<1>1. End(f, "hop_limit", TRUE) /\ UNCHANGED <<hosts, server, flips, noise, probe, current, seen>>
      /\ pc[f] = "admit" /\ Len(Hops(f)) > maxRedirectHops
  BY DEF GiveUp, Hops
<1>2. TypeOK'
  BY <1>1, EndEffect DEF TypeOK, ChainType
<1>3. /\ Hops(f)' = Hops(f) /\ chain'[f].ended = "hop_limit" /\ pc'[f] = "done"
      /\ \A g \in Families \ {f} : chain'[g] = chain[g] /\ Hops(g)' = Hops(g) /\ pc'[g] = pc[g]
  BY <1>1, EndEffect
<1> QED  BY <1>1, <1>2, <1>3 DEF Others

\* The head that a fetch appends to the chain.
NewHop(f, a) == [url |-> current[f], status |-> a.status, location |-> clipLocation(a.location)]

\* A fetch loses the answer, ends the chain with it, or goes on to its target.
LEMMA FetchEffect ==
    ASSUME TypeOK, SingleAnswer, NEW f \in Families, Fetch(f)
    PROVE  /\ TypeOK' /\ Others(f)
           /\ UNCHANGED <<hosts, probe, seen>>
           /\ pc[f] = "fetch"
           /\ \E a \in Answers :
                 /\ Serve(Key[current[f]], a)
                 /\ \/ /\ a.status = "lost" /\ Hops(f)' = Hops(f)
                       /\ pc'[f] = "done" /\ chain'[f].ended = "error" /\ current'[f] = current[f]
                    \/ /\ a.location \notin URLs \ Long /\ Hops(f)' = Append(Hops(f), NewHop(f, a))
                       /\ pc'[f] = "done" /\ chain'[f].ended \in {"final", "error"}
                       /\ current'[f] = current[f]
                    \/ /\ a.location \in URLs \ Long /\ Hops(f)' = Append(Hops(f), NewHop(f, a))
                       /\ pc'[f] = "admit" /\ chain'[f].ended = chain[f].ended
                       /\ current'[f] = a.location
<1>0. pc[f] = "fetch" /\ UNCHANGED <<hosts, probe, seen>>
  BY DEF Fetch
<1>1. PICK a \in Answers :
        /\ Serve(Key[current[f]], a)
        /\ \/ a.status = "lost" /\ End(f, "error", TRUE) /\ UNCHANGED current
           \/ /\ a.status # "lost" /\ a.location = NoLocation
              /\ chain' = [chain EXCEPT ![f] = [hops |-> Append(@.hops, NewHop(f, a)), ended |-> "final", error |-> FALSE]]
              /\ pc' = [pc EXCEPT ![f] = "done"] /\ UNCHANGED current
           \/ /\ a.location \in Bads \union Long
              /\ chain' = [chain EXCEPT ![f] = [hops |-> Append(@.hops, NewHop(f, a)), ended |-> "error", error |-> TRUE]]
              /\ pc' = [pc EXCEPT ![f] = "done"] /\ UNCHANGED current
           \/ /\ a.location \in URLs \ Long
              /\ chain' = [chain EXCEPT ![f].hops = Append(@, NewHop(f, a))]
              /\ current' = [current EXCEPT ![f] = a.location]
              /\ pc' = [pc EXCEPT ![f] = "admit"]
  BY DEF Fetch, NewHop
<1>2. Key[current[f]] \in Keys /\ current[f] \in URLs
  BY DEF TypeOK, Keys
<1>3. server' \in [Keys -> SUBSET Answers] /\ flips' \in 0..MaxOdd /\ noise' \in 0..MaxOdd
  BY <1>1, <1>2, ServeFacts DEF TypeOK
<1>4. chain \in [Families -> ChainType] /\ chain[f] \in ChainType /\ chain[f].hops \in Seq(Hop)
  BY DEF TypeOK, ChainType
<1>5. CASE a.status = "lost" /\ End(f, "error", TRUE) /\ UNCHANGED current
  <2>1. TypeOK'
    BY <1>0, <1>3, <1>5, EndEffect DEF TypeOK, ChainType
  <2>2. /\ Hops(f)' = Hops(f) /\ chain'[f].ended = "error" /\ pc'[f] = "done"
        /\ \A g \in Families \ {f} : chain'[g] = chain[g] /\ Hops(g)' = Hops(g) /\ pc'[g] = pc[g]
    BY <1>5, EndEffect
  <2> QED  BY <1>0, <1>1, <1>5, <2>1, <2>2 DEF Others
<1>6. ASSUME NEW how \in {"final", "error"}, NEW err \in BOOLEAN,
             a.status # "lost", a.location \in {NoLocation} \union Bads \union Long,
             chain' = [chain EXCEPT ![f] = [hops |-> Append(@.hops, NewHop(f, a)), ended |-> how, error |-> err]],
             pc' = [pc EXCEPT ![f] = "done"], UNCHANGED current
      PROVE  /\ TypeOK' /\ Others(f)
             /\ Hops(f)' = Append(Hops(f), NewHop(f, a))
             /\ pc'[f] = "done" /\ chain'[f].ended = how
  <2>1. NewHop(f, a) \in Hop
    <3>1. clipLocation(a.location) \in Locations \union Clips \union {NoLocation}
      BY <1>6, LocationAssumption DEF clipLocation, Locations
    <3> QED  BY <1>2, <1>6, <3>1 DEF NewHop, Hop, Answers
  <2>0. Append(chain[f].hops, NewHop(f, a)) \in Seq(Hop)
    BY <1>4, <2>1
  <2>2. [hops |-> Append(chain[f].hops, NewHop(f, a)), ended |-> how, error |-> err] \in ChainType
    <3> DEFINE hs == Append(chain[f].hops, NewHop(f, a))
    <3>1. hs \in Seq(Hop)
      BY <2>0
    <3> HIDE DEF hs
    <3>2. [hops |-> hs, ended |-> how, error |-> err] \in ChainType
      BY <3>1, <1>6 DEF ChainType
    <3> QED  BY <3>2 DEF hs
  <2>3. /\ chain' \in [Families -> ChainType]
        /\ chain'[f] = [hops |-> Append(chain[f].hops, NewHop(f, a)), ended |-> how, error |-> err]
        /\ \A g \in Families \ {f} : chain'[g] = chain[g]
    BY <1>4, <1>6, <2>2
  <2>4. /\ pc' \in [Families -> {"probe", "probed", "admit", "fetch", "done"}] /\ pc'[f] = "done"
        /\ \A g \in Families \ {f} : pc'[g] = pc[g]
    BY <1>6 DEF TypeOK
  <2>5. TypeOK'
    BY <1>0, <1>3, <1>6, <2>3, <2>4 DEF TypeOK, ChainType
  <2> QED  BY <1>0, <1>6, <2>3, <2>4, <2>5 DEF Others, Hops
<1>7. CASE /\ a.location \in URLs \ Long
           /\ chain' = [chain EXCEPT ![f].hops = Append(@, NewHop(f, a))]
           /\ current' = [current EXCEPT ![f] = a.location]
           /\ pc' = [pc EXCEPT ![f] = "admit"]
  <2>1. NewHop(f, a) \in Hop
    <3>1. clipLocation(a.location) = a.location /\ a.location \in Locations /\ a.status = "redirect"
      BY <1>7 DEF clipLocation, Locations, Answers, NoLocation
    <3> QED  BY <1>2, <3>1 DEF NewHop, Hop
  <2>2. chain' = [chain EXCEPT ![f] = [chain[f] EXCEPT !.hops = Append(chain[f].hops, NewHop(f, a))]]
    BY <1>4, <1>7
  <2>0. Append(chain[f].hops, NewHop(f, a)) \in Seq(Hop)
    BY <1>4, <2>1
  <2>3. [chain[f] EXCEPT !.hops = Append(chain[f].hops, NewHop(f, a))] \in ChainType
    <3> DEFINE hs == Append(chain[f].hops, NewHop(f, a))
    <3>1. hs \in Seq(Hop)
      BY <2>0
    <3> HIDE DEF hs
    <3>2. [chain[f] EXCEPT !.hops = hs] \in ChainType
      BY <3>1, <1>4 DEF ChainType
    <3> QED  BY <3>2 DEF hs
  <2>4. /\ chain' \in [Families -> ChainType]
        /\ chain'[f] = [chain[f] EXCEPT !.hops = Append(chain[f].hops, NewHop(f, a))]
        /\ \A g \in Families \ {f} : chain'[g] = chain[g]
    BY <1>4, <2>2, <2>3
  <2>5. chain'[f].hops = Append(chain[f].hops, NewHop(f, a)) /\ chain'[f].ended = chain[f].ended
    BY <1>4, <2>4 DEF ChainType
  <2>6. /\ pc' \in [Families -> {"probe", "probed", "admit", "fetch", "done"}] /\ pc'[f] = "admit"
        /\ \A g \in Families \ {f} : pc'[g] = pc[g]
    BY <1>7 DEF TypeOK
  <2>7. /\ current' \in [Families -> URLs] /\ current'[f] = a.location
        /\ \A g \in Families \ {f} : current'[g] = current[g]
    BY <1>7 DEF TypeOK
  <2>8. TypeOK'
    BY <1>0, <1>3, <2>4, <2>6, <2>7 DEF TypeOK, ChainType
  <2> QED  BY <1>0, <1>1, <1>7, <2>4, <2>5, <2>6, <2>7, <2>8 DEF Others, Hops
<1>8. NoLocation \notin URLs /\ Bads \intersect (URLs \ Long) = {}
  BY LocationAssumption
<1>9. a.location \in Bads \union Long => a.status # "lost"
  <2>1. NoLocation \notin Bads \union Long
    BY LocationAssumption DEF Locations
  <2> QED  BY <2>1 DEF Answers
<1> QED  BY <1>0, <1>1, <1>5, <1>6, <1>7, <1>8, <1>9

\* A probe changes what its own family was told.
LEMMA ProbeEffect ==
    ASSUME TypeOK, SingleAnswer, NEW f \in Families, Probe(f)
    PROVE  /\ TypeOK' /\ UNCHANGED <<hosts, chain, current, seen>>
           /\ pc[f] = "probe" /\ pc'[f] = "probed"
           /\ \A g \in Families \ {f} : probe'[g] = probe[g] /\ pc'[g] = pc[g]
           /\ \E a \in Answers : Serve(Entry, a) /\ probe'[f] = {a}
<1>1. PICK a \in Answers : Serve(Entry, a) /\ probe' = [probe EXCEPT ![f] = {a}]
  BY DEF Probe
<1>2. Entry \in Keys
  BY DEF Keys
<1>3. server' \in [Keys -> SUBSET Answers] /\ flips' \in 0..MaxOdd /\ noise' \in 0..MaxOdd
  BY <1>1, <1>2, ServeFacts DEF TypeOK
<1>4. /\ pc[f] = "probe" /\ pc' = [pc EXCEPT ![f] = "probed"]
      /\ UNCHANGED <<hosts, chain, current, seen>>
  BY DEF Probe
<1>5. TypeOK'
  BY <1>1, <1>3, <1>4 DEF TypeOK
<1>6. pc'[f] = "probed" /\ \A g \in Families \ {f} : pc'[g] = pc[g]
  BY <1>4 DEF TypeOK
<1>7. probe'[f] = {a} /\ \A g \in Families \ {f} : probe'[g] = probe[g]
  BY <1>1 DEF TypeOK
<1> QED  BY <1>1, <1>4, <1>5, <1>6, <1>7

-----------------------------------------------------------------------------
(* The inductive invariant, one chain at a time. *)

\* A chain has visited what it has seen, each key once and within its hosts.
Visits(f) ==
    /\ \A i \in DOMAIN Hops(f) : /\ Key[Hops(f)[i].url] \in seen[f]
                                 /\ Host[Hops(f)[i].url] \in hosts[f]
    /\ \A i, j \in DOMAIN Hops(f) : Key[Hops(f)[i].url] = Key[Hops(f)[j].url] => i = j
    /\ Len(Hops(f)) <= maxRedirectHops + 1
    /\ pc[f] = "fetch" => /\ Host[current[f]] \in hosts[f]
                          /\ Key[current[f]] \in seen[f]
                          /\ \A i \in DOMAIN Hops(f) : Key[Hops(f)[i].url] # Key[current[f]]
                          /\ Len(Hops(f)) <= maxRedirectHops

\* The last hop led to the URL that the chain is at.
AtTarget(f) == pc[f] \in {"admit", "fetch"} \/ chain[f].ended \in {"loop", "external", "hop_limit"}

\* Every hop is where the one before it pointed, from the entry URL on.
Linked(f) ==
    /\ Hops(f) = <<>> => current[f] = Entry
    /\ Hops(f) # <<>> => Hops(f)[1].url = Entry
    /\ \A i \in DOMAIN Hops(f) : Hops(f)[i].location \in URLs => Hops(f)[i].status = "redirect"
    /\ \A i \in DOMAIN Hops(f) :
          i < Len(Hops(f)) => Hops(f)[i].location \in URLs /\ Hops(f)[i + 1].url = Hops(f)[i].location
    /\ Hops(f) # <<>> /\ AtTarget(f) => Hops(f)[Len(Hops(f))].location = current[f]

\* Nothing but the hops' URLs and the one being fetched has been seen.
HopKeys(f) == {Key[Hops(f)[i].url] : i \in DOMAIN Hops(f)}

Known(f) ==
    /\ pc[f] # "done" => chain[f].ended = ""
    /\ pc[f] \in {"probe", "probed"} => Hops(f) = <<>> /\ seen[f] = {}
    /\ pc[f] = "admit" => seen[f] \subseteq HopKeys(f)
    /\ pc[f] = "fetch" => seen[f] \subseteq HopKeys(f) \union {Key[current[f]]}
    /\ chain[f].ended = "loop" => Key[current[f]] \in HopKeys(f)

\* An entry URL that the server sent back to itself ends the chain as a loop.
SelfLoop(f) ==
    Hops(f) # <<>> /\ Hops(f)[1].location \in URLs /\ Key[Hops(f)[1].location] = Entry =>
        /\ Len(Hops(f)) = 1 /\ pc[f] \in {"admit", "done"}
        /\ pc[f] = "done" => chain[f].ended = "loop"

\* A hop that says what the server said.
Plain(hop) == comparable(hop) /\ hop.location \notin Misread

\* What counts as an answer is the server's own, unless it answered out of turn.
Steady(f) ==
    flips = 0 =>
        /\ \A a \in probe[f] : comparable(a) => \E b \in server[Entry] : Same(a, b)
        /\ \A i \in DOMAIN Hops(f) :
              Plain(Hops(f)[i]) => \E b \in server[Key[Hops(f)[i].url]] : Same(Hops(f)[i], b)

\* With nothing refused or lost either, every chain gets past the entry URL.
Quiet(f) ==
    flips = 0 /\ noise = 0 =>
        /\ pc[f] # "probe" => server[Entry] # {}
        /\ pc[f] = "done" => Hops(f) # <<>>
        /\ Hops(f) # <<>> => Hops(f)[1].location \in Clips \/ \E b \in server[Entry] : Same(Hops(f)[1], b)

\* and what the server says of the entry URL, some probe was told first.
Told ==
    flips = 0 /\ noise = 0 => \A b \in server[Entry] : \E f \in Families : b \in probe[f]

Good(f) ==
    /\ Visits(f) /\ Linked(f) /\ Known(f) /\ SelfLoop(f) /\ Steady(f) /\ Quiet(f)
    /\ Apex \in hosts[f] /\ (pc[f] = "probe" => probe[f] = {})

RedInv == TypeOK /\ SingleAnswer /\ Told /\ \A f \in Families : Good(f)

\* A chain's hops are a sequence of response heads of URLs.
LEMMA HopsType ==
    ASSUME TypeOK, NEW f \in Families
    PROVE  /\ Hops(f) \in Seq(Hop) /\ Len(Hops(f)) \in Nat /\ DOMAIN Hops(f) = 1..Len(Hops(f))
           /\ Hops(f) = <<>> <=> Len(Hops(f)) = 0
           /\ \A i \in DOMAIN Hops(f) : /\ Hops(f)[i].url \in URLs /\ Key[Hops(f)[i].url] \in Keys
                                        /\ Key[Hops(f)[i].url] \in URLs
                                        /\ Hops(f)[i].status # "lost"
                                        /\ Hops(f)[i].location \in Locations \union Clips \union {NoLocation}
<1>1. Hops(f) \in Seq(Hop)
  BY DEF TypeOK, Hops
<1>2. /\ Len(Hops(f)) \in Nat /\ DOMAIN Hops(f) = 1..Len(Hops(f))
      /\ Hops(f) = <<>> <=> Len(Hops(f)) = 0
      /\ \A i \in DOMAIN Hops(f) : Hops(f)[i] \in Hop
  BY <1>1
<1>3. \A h \in Hop : /\ h.url \in URLs /\ Key[h.url] \in Keys /\ Key[h.url] \in URLs /\ h.status # "lost"
                     /\ h.location \in Locations \union Clips \union {NoLocation}
  BY DEF Hop, Keys
<1> QED  BY <1>1, <1>2, <1>3

\* The invariant holds before the probes.
LEMMA RedInitInv == Init => RedInv
<1> SUFFICES ASSUME Init PROVE RedInv
  OBVIOUS
<1>1. TypeOK
  <2>0. <<>> \in Seq(Hop)
    OBVIOUS
  <2>1. NewChain \in ChainType
    BY <2>0 DEF NewChain, ChainType
  <2>2. chain \in [Families -> ChainType]
    BY <2>1 DEF Init
  <2>3. hosts \in [Families -> SUBSET {Apex, WWW}]
    BY DEF Init
  <2>4. server \in [Keys -> SUBSET Answers] /\ probe \in [Families -> SUBSET Answers]
    BY DEF Init
  <2>5. /\ current \in [Families -> URLs] /\ seen \in [Families -> SUBSET URLs]
        /\ pc \in [Families -> {"probe", "probed", "admit", "fetch", "done"}]
        /\ flips \in 0..MaxOdd /\ noise \in 0..MaxOdd
    BY DEF Init
  <2> QED  BY <2>2, <2>3, <2>4, <2>5 DEF TypeOK, ChainType
<1>2. SingleAnswer /\ server[Entry] = {}
  BY DEF Init, SingleAnswer, Keys
<1>3. ASSUME NEW f \in Families PROVE Good(f)
  <2>1. /\ Hops(f) = <<>> /\ chain[f].ended = "" /\ pc[f] = "probe" /\ current[f] = Entry
        /\ seen[f] = {} /\ probe[f] = {} /\ Apex \in hosts[f]
    BY <1>3 DEF Init, Hops, NewChain
  <2>2. Len(Hops(f)) = 0 /\ \A i \in DOMAIN Hops(f) : FALSE
    <3>1. Len(Hops(f)) = 0 /\ DOMAIN Hops(f) = 1..0
      BY <1>1, <1>3, <2>1, HopsType
    <3> QED  BY <3>1
  <2>3. Visits(f)
    <3>1. maxRedirectHops + 1 >= 0
      OBVIOUS
    <3> QED  BY <2>1, <2>2, <3>1 DEF Visits
  <2>4. Linked(f) /\ Known(f)
    BY <2>1, <2>2 DEF Linked, Known, HopKeys, AtTarget
  <2>5. SelfLoop(f) /\ Steady(f) /\ Quiet(f)
    BY <2>1, <2>2 DEF SelfLoop, Steady, Quiet
  <2> QED  BY <2>1, <2>3, <2>4, <2>5 DEF Good
<1> QED  BY <1>1, <1>2, <1>3 DEF RedInv, Told

\* A request adds to what the server said, and tells nothing that was odd from
\* what was not.
Grown ==
    /\ \A j \in Keys : server[j] \subseteq server'[j]
    /\ flips' = 0 => flips = 0
    /\ noise' = 0 => noise = 0

\* A chain that a step leaves alone stays good whatever the server is asked.
LEMMA OthersGood ==
    ASSUME TypeOK, NEW g \in Families, Good(g), Grown, hosts' = hosts,
           Hops(g)' = Hops(g), chain'[g] = chain[g], current'[g] = current[g],
           seen'[g] = seen[g], pc'[g] = pc[g], probe'[g] = probe[g]
    PROVE  Good(g)'
<1>1. Visits(g)'
  BY DEF Good, Visits
<1>2. Linked(g)'
  <2>1. Linked(g)
    BY DEF Good
  <2>2. AtTarget(g)' <=> AtTarget(g)
    BY DEF AtTarget
  <2> QED  BY <2>1, <2>2 DEF Linked
<1>7. Known(g)' /\ SelfLoop(g)'
  <2>1. Known(g) /\ SelfLoop(g)
    BY DEF Good
  <2>2. Known(g)'
    <3>1. HopKeys(g)' = HopKeys(g)
      BY DEF HopKeys
    <3> QED  BY <2>1, <3>1 DEF Known
  <2>3. SelfLoop(g)'
    BY <2>1 DEF SelfLoop
  <2> QED  BY <2>2, <2>3
<1>3. \A i \in DOMAIN Hops(g) : Key[Hops(g)[i].url] \in Keys
  BY HopsType
<1>4. Entry \in Keys
  BY DEF Keys
<1>5. Steady(g)'
  <2>1. SUFFICES ASSUME flips' = 0
        PROVE  /\ \A a \in probe[g] : comparable(a) => \E b \in server'[Entry] : Same(a, b)
               /\ \A i \in DOMAIN Hops(g) :
                    Plain(Hops(g)[i]) => \E b \in server'[Key[Hops(g)[i].url]] : Same(Hops(g)[i], b)
    BY DEF Steady, Same, comparable, Plain
  <2> QED  BY <1>3, <1>4, <2>1 DEF Good, Steady, Grown
<1>6. Quiet(g)'
  <2>1. SUFFICES ASSUME flips' = 0, noise' = 0
        PROVE  /\ pc[g] # "probe" => server'[Entry] # {}
               /\ pc[g] = "done" => Hops(g) # <<>>
               /\ Hops(g) # <<>> => Hops(g)[1].location \in Clips \/ \E b \in server'[Entry] : Same(Hops(g)[1], b)
    BY DEF Quiet, Same
  <2> QED  BY <1>4, <2>1 DEF Good, Quiet, Grown
<1> QED  BY <1>1, <1>2, <1>5, <1>6, <1>7 DEF Good

\* What an answered request does for the chains: see ServeFacts.
LEMMA ServeGrows ==
    ASSUME TypeOK, SingleAnswer, NEW k \in Keys, NEW a \in Answers, Serve(k, a)
    PROVE  Grown /\ SingleAnswer'
  BY ServeFacts DEF TypeOK, Grown

\* Each action preserves the invariant.
LEMMA ProbeInv ==
    ASSUME RedInv, NEW f \in Families, Probe(f)
    PROVE  RedInv'
<1>1. TypeOK /\ SingleAnswer /\ Told /\ \A g \in Families : Good(g)
  BY DEF RedInv
<1>2. /\ TypeOK' /\ UNCHANGED <<hosts, chain, current, seen>>
      /\ pc[f] = "probe" /\ pc'[f] = "probed"
      /\ \A g \in Families \ {f} : probe'[g] = probe[g] /\ pc'[g] = pc[g]
  BY <1>1, ProbeEffect
<1>3. PICK a \in Answers : Serve(Entry, a) /\ probe'[f] = {a}
  BY <1>1, ProbeEffect
<1>4. Entry \in Keys
  BY DEF Keys
<1>5. Grown /\ SingleAnswer'
  BY <1>1, <1>3, <1>4, ServeGrows
<1>6. /\ server'[Entry] = server[Entry] \/ server'[Entry] = {a}
      /\ flips' = 0 /\ comparable(a) => \E b \in server'[Entry] : Same(a, b)
      /\ flips' = 0 /\ noise' = 0 => server'[Entry] # {}
  BY <1>1, <1>3, <1>4, ServeFacts DEF TypeOK
<1>7. ASSUME NEW g \in Families \ {f} PROVE Good(g)'
  <2>1. Hops(g)' = Hops(g)
    BY <1>2 DEF Hops
  <2> QED  BY <1>1, <1>2, <1>5, <1>7, <2>1, OthersGood
<1>8. Good(f)'
  <2>1. Hops(f)' = Hops(f) /\ Hops(f) = <<>> /\ seen[f] = {} /\ chain[f].ended = ""
    <3>1. Known(f)
      BY <1>1 DEF Good
    <3> QED  BY <1>2, <3>1 DEF Known, Hops
  <2>2. Len(Hops(f)) = 0 /\ \A i \in DOMAIN Hops(f) : FALSE
    <3>1. Len(Hops(f)) = 0 /\ DOMAIN Hops(f) = 1..0
      BY <1>1, <2>1, HopsType
    <3> QED  BY <3>1
  <2>3. Visits(f)' /\ SelfLoop(f)' /\ Known(f)'
    <3>1. maxRedirectHops + 1 >= 0
      OBVIOUS
    <3>2. Visits(f)'
      BY <1>2, <2>1, <2>2, <3>1 DEF Visits
    <3>3. SelfLoop(f)' /\ Known(f)'
      BY <1>2, <2>1, <2>2 DEF SelfLoop, Known, HopKeys
    <3> QED  BY <3>2, <3>3
  <2>4. Linked(f)'
    <3>1. current[f] = Entry
      BY <1>1, <2>1 DEF Good, Linked
    <3> QED  BY <1>2, <2>1, <2>2, <3>1 DEF Linked
  <2>5. Steady(f)'
    <3>1. flips' = 0 => \A x \in probe'[f] : comparable(x) => \E b \in server'[Entry] : Same(x, b)
      BY <1>3, <1>6
    <3> QED  BY <2>1, <2>2, <3>1 DEF Steady, Same, comparable, Plain
  <2>6. Quiet(f)'
    BY <1>2, <1>6, <2>1 DEF Quiet
  <2> QED  BY <1>1, <1>2, <2>3, <2>4, <2>5, <2>6 DEF Good
<1>9. Told'
  <2>1. SUFFICES ASSUME flips' = 0, noise' = 0, NEW b \in server'[Entry]
        PROVE  \E g \in Families : b \in probe'[g]
    BY DEF Told
  <2>2. CASE server'[Entry] = {a}
    BY <1>3, <2>2
  <2>3. CASE server'[Entry] = server[Entry]
    <3>1. PICK g \in Families : b \in probe[g]
      BY <1>1, <1>5, <2>1, <2>3 DEF Told, Grown
    <3>2. g # f
      BY <1>1, <1>2, <3>1 DEF Good
    <3> QED  BY <1>2, <3>1, <3>2
  <2> QED  BY <1>6, <2>2, <2>3
<1> QED  BY <1>2, <1>5, <1>7, <1>8, <1>9 DEF RedInv

\* Starting a chain keeps the invariant.
LEMMA StartInv ==
    ASSUME RedInv, StartChains
    PROVE  RedInv'
<1>1. TypeOK /\ SingleAnswer /\ Told /\ \A g \in Families : Good(g)
  BY DEF RedInv
<1>2. /\ UNCHANGED <<hosts, server, flips, noise, probe, chain, current, seen>>
      /\ \A f \in Families : pc[f] = "probed" /\ pc'[f] = "admit"
  BY DEF StartChains
<1>3. TypeOK'
  BY <1>1, <1>2 DEF TypeOK, StartChains
<1>4. SingleAnswer' /\ Told'
  BY <1>1, <1>2 DEF SingleAnswer, Told
<1>5. ASSUME NEW f \in Families PROVE Good(f)'
  <2>1. /\ Visits(f) /\ Linked(f) /\ Known(f) /\ SelfLoop(f) /\ Steady(f) /\ Quiet(f)
        /\ Apex \in hosts[f]
    BY <1>1, <1>5 DEF Good
  <2>2. Hops(f)' = Hops(f) /\ Hops(f) = <<>> /\ seen[f] = {} /\ pc[f] = "probed" /\ pc'[f] = "admit"
    BY <1>2, <1>5, <2>1 DEF Known, Hops
  <2>3. Visits(f)'
    BY <1>2, <2>1, <2>2 DEF Visits
  <2>4. Linked(f)'
    BY <1>2, <2>1, <2>2 DEF Linked
  <2>5. Known(f)' /\ SelfLoop(f)'
    BY <1>2, <2>1, <2>2 DEF Known, SelfLoop, HopKeys
  <2>6. Steady(f)'
    BY <1>2, <2>1, <2>2 DEF Steady, Same, comparable, Plain
  <2>7. Quiet(f)'
    BY <1>2, <2>1, <2>2 DEF Quiet, Same
  <2> QED  BY <1>2, <2>1, <2>2, <2>3, <2>4, <2>5, <2>6, <2>7 DEF Good
<1> QED  BY <1>3, <1>4, <1>5 DEF RedInv

\* So does taking the next hop on.
LEMMA AdmitInv ==
    ASSUME RedInv, NEW f \in Families, Admit(f)
    PROVE  RedInv'
<1>1. TypeOK /\ SingleAnswer /\ Told /\ \A g \in Families : Good(g)
  BY DEF RedInv
<1>2. /\ TypeOK' /\ Others(f)
      /\ UNCHANGED <<hosts, server, flips, noise, probe, current>>
      /\ Hops(f)' = Hops(f) /\ Len(Hops(f)) <= maxRedirectHops
      /\ pc[f] = "admit" /\ pc'[f] \in {"fetch", "done"}
      /\ seen'[f] = seen[f] \union {Key[current[f]]}
      /\ pc'[f] = "fetch" => /\ Key[current[f]] \notin seen[f] /\ Host[current[f]] \in hosts[f]
                             /\ chain'[f].ended = chain[f].ended
      /\ pc'[f] = "done" => chain'[f].ended \in {"loop", "error", "external"}
      /\ pc'[f] = "done" => (chain'[f].ended = "loop" <=> Key[current[f]] \in seen[f])
      /\ pc'[f] = "done" /\ chain'[f].ended = "error" => Scheme[current[f]] \notin {"http", "https"}
      /\ pc'[f] = "done" /\ chain'[f].ended = "external" => Host[current[f]] \notin hosts[f]
  BY <1>1, AdmitEffect
<1>3. SingleAnswer' /\ Told' /\ Grown
  BY <1>1, <1>2 DEF SingleAnswer, Told, Grown
<1>4. ASSUME NEW g \in Families \ {f} PROVE Good(g)'
  BY <1>1, <1>2, <1>3, <1>4, OthersGood DEF Others
<1>5. Good(f)'
  <2>1. /\ Visits(f) /\ Linked(f) /\ Known(f) /\ SelfLoop(f) /\ Steady(f) /\ Quiet(f)
        /\ Apex \in hosts[f]
    BY <1>1 DEF Good
  <2>2. /\ Len(Hops(f)) \in Nat /\ DOMAIN Hops(f) = 1..Len(Hops(f))
        /\ Hops(f) = <<>> <=> Len(Hops(f)) = 0
    BY <1>1, HopsType
  <2>3. HopKeys(f)' = HopKeys(f)
    BY <1>2 DEF HopKeys
  <2>4. chain[f].ended = "" /\ seen[f] \subseteq HopKeys(f)
    BY <1>2, <2>1 DEF Known
  <2>5. Visits(f)'
    BY <1>2, <2>1 DEF Visits
  <2>6. Linked(f)'
    <3>1. AtTarget(f)
      BY <1>2 DEF AtTarget
    <3> QED  BY <1>2, <2>1, <3>1 DEF Linked
  <2>7. Known(f)'
    BY <1>2, <2>3, <2>4 DEF Known
  <2>8. SelfLoop(f)'
    <3>1. SUFFICES ASSUME Hops(f) # <<>>, Hops(f)[1].location \in URLs, Key[Hops(f)[1].location] = Entry
          PROVE  /\ Len(Hops(f)) = 1 /\ pc'[f] \in {"admit", "done"}
                 /\ pc'[f] = "done" => chain'[f].ended = "loop"
      BY <1>2 DEF SelfLoop
    <3>2. Len(Hops(f)) = 1
      BY <2>1, <3>1 DEF SelfLoop
    <3>3. current[f] = Hops(f)[1].location /\ Hops(f)[1].url = Entry
      BY <1>2, <2>1, <3>1, <3>2 DEF Linked, AtTarget
    <3>4. 1 \in DOMAIN Hops(f)
      BY <2>2, <3>2
    <3>5. Entry \in seen[f]
      BY <2>1, <3>3, <3>4 DEF Visits
    <3> QED  BY <1>2, <3>1, <3>2, <3>3, <3>5
  <2>9. Steady(f)'
    BY <1>2, <2>1 DEF Steady, Same, comparable, Plain
  <2>10. Quiet(f)'
    <3>1. pc'[f] = "done" => Hops(f) # <<>>
      <4>1. SUFFICES ASSUME Hops(f) = <<>> PROVE pc'[f] # "done"
        OBVIOUS
      <4>2. current[f] = Entry
        BY <2>1, <4>1 DEF Linked
      <4>3. HopKeys(f) = {}
        BY <2>2, <4>1 DEF HopKeys
      <4>4. seen[f] = {}
        BY <2>4, <4>3
      <4> QED  BY <1>2, <2>1, <4>2, <4>4
    <3> QED  BY <1>2, <2>1, <3>1 DEF Quiet, Same
  <2> QED  BY <1>2, <2>1, <2>5, <2>6, <2>7, <2>8, <2>9, <2>10 DEF Good
<1> QED  BY <1>2, <1>3, <1>4, <1>5 DEF RedInv

\* So does giving a chain up.
LEMMA GiveUpInv ==
    ASSUME RedInv, NEW f \in Families, GiveUp(f)
    PROVE  RedInv'
<1>1. TypeOK /\ SingleAnswer /\ Told /\ \A g \in Families : Good(g)
  BY DEF RedInv
<1>2. /\ TypeOK' /\ Others(f)
      /\ UNCHANGED <<hosts, server, flips, noise, probe, current, seen>>
      /\ Hops(f)' = Hops(f) /\ Len(Hops(f)) > maxRedirectHops
      /\ pc[f] = "admit" /\ pc'[f] = "done" /\ chain'[f].ended = "hop_limit"
  BY <1>1, GiveUpEffect
<1>3. SingleAnswer' /\ Told' /\ Grown
  BY <1>1, <1>2 DEF SingleAnswer, Told, Grown
<1>4. ASSUME NEW g \in Families \ {f} PROVE Good(g)'
  BY <1>1, <1>2, <1>3, <1>4, OthersGood DEF Others
<1>5. Good(f)'
  <2>1. /\ Visits(f) /\ Linked(f) /\ Known(f) /\ SelfLoop(f) /\ Steady(f) /\ Quiet(f)
        /\ Apex \in hosts[f]
    BY <1>1 DEF Good
  <2>2. /\ Len(Hops(f)) \in Nat /\ Len(Hops(f)) > 1 /\ Hops(f) # <<>>
    BY <1>1, <1>2, HopsType
  <2>3. Visits(f)'
    BY <1>2, <2>1 DEF Visits
  <2>4. Linked(f)'
    <3>1. AtTarget(f)
      BY <1>2 DEF AtTarget
    <3> QED  BY <1>2, <2>1, <3>1 DEF Linked
  <2>5. Known(f)'
    BY <1>2 DEF Known
  <2>6. SelfLoop(f)'
    <3>0. Len(Hops(f)) # 1
      BY ONLY <2>2
    <3>1. ~(Hops(f) # <<>> /\ Hops(f)[1].location \in URLs /\ Key[Hops(f)[1].location] = Entry)
      BY <2>1, <3>0 DEF SelfLoop
    <3> QED  BY <1>2, <3>1 DEF SelfLoop
  <2>7. Steady(f)'
    BY <1>2, <2>1 DEF Steady, Same, comparable, Plain
  <2>8. Quiet(f)'
    BY <1>2, <2>1, <2>2 DEF Quiet, Same
  <2> QED  BY <1>2, <2>1, <2>3, <2>4, <2>5, <2>6, <2>7, <2>8 DEF Good
<1> QED  BY <1>2, <1>3, <1>4, <1>5 DEF RedInv

\* A fetch whose answer was lost ends the chain; nothing is appended.
LEMMA LostFetch ==
    ASSUME TypeOK, TypeOK', NEW f \in Families, Good(f), Grown, NEW a \in Answers,
           flips' = 0 => ~(noise' = 0), hosts' = hosts, probe' = probe, seen' = seen,
           Hops(f)' = Hops(f), pc[f] = "fetch",
           pc'[f] = "done", chain'[f].ended = "error", current'[f] = current[f]
    PROVE  Good(f)'
<1>1. /\ Visits(f) /\ Linked(f) /\ Known(f) /\ SelfLoop(f) /\ Steady(f) /\ Quiet(f)
      /\ Apex \in hosts[f]
  BY DEF Good
<1>2. Visits(f)'
  BY <1>1 DEF Visits
<1>3. Linked(f)'
  BY <1>1 DEF Linked, AtTarget
<1>4. Known(f)'
  BY DEF Known
<1>5. SelfLoop(f)'
  <2>1. ~(Hops(f) # <<>> /\ Hops(f)[1].location \in URLs /\ Key[Hops(f)[1].location] = Entry)
    BY <1>1 DEF SelfLoop
  <2> QED  BY <2>1 DEF SelfLoop
<1>6. Entry \in Keys /\ \A i \in DOMAIN Hops(f) : Key[Hops(f)[i].url] \in Keys
  BY HopsType DEF Keys
<1>7. Steady(f)'
  <2>1. SUFFICES ASSUME flips' = 0
        PROVE  /\ \A x \in probe[f] : comparable(x) => \E b \in server'[Entry] : Same(x, b)
               /\ \A i \in DOMAIN Hops(f) :
                    Plain(Hops(f)[i]) => \E b \in server'[Key[Hops(f)[i].url]] : Same(Hops(f)[i], b)
    BY DEF Steady, Same, comparable, Plain
  <2> QED  BY <1>1, <1>6, <2>1 DEF Steady, Grown
<1>8. Quiet(f)'
  BY DEF Quiet
<1> QED  BY <1>1, <1>2, <1>3, <1>4, <1>5, <1>7, <1>8 DEF Good

\* An answered fetch appends its hop, of a URL not visited before.
LEMMA HopFetch ==
    ASSUME TypeOK, TypeOK', NEW f \in Families, Good(f), Grown, NEW a \in Answers,
           flips' = 0 /\ comparable(a) => \E b \in server'[Key[current[f]]] : Same(a, b),
           flips' = 0 /\ noise' = 0 => \E b \in server'[Key[current[f]]] : Same(a, b),
           hosts' = hosts, probe' = probe, seen' = seen,
           Hops(f)' = Append(Hops(f), NewHop(f, a)), pc[f] = "fetch",
           \/ /\ a.location \notin URLs \ Long /\ pc'[f] = "done" /\ chain'[f].ended \in {"final", "error"}
              /\ current'[f] = current[f]
           \/ /\ a.location \in URLs \ Long /\ pc'[f] = "admit" /\ chain'[f].ended = chain[f].ended
              /\ current'[f] = a.location
    PROVE  Good(f)'
<1> DEFINE n == Len(Hops(f))
<1>1. /\ Visits(f) /\ Linked(f) /\ Known(f) /\ SelfLoop(f) /\ Steady(f) /\ Quiet(f)
      /\ Apex \in hosts[f]
  BY DEF Good
<1>2. /\ n \in Nat /\ DOMAIN Hops(f) = 1..n /\ (Hops(f) = <<>> <=> n = 0) /\ Hops(f) \in Seq(Hop)
      /\ \A i \in 1..n : Key[Hops(f)[i].url] \in Keys
  BY HopsType
<1>3. /\ Len(Hops(f)') = n + 1 /\ DOMAIN Hops(f)' = 1..(n + 1) /\ Hops(f)' # <<>>
      /\ \A i \in 1..n : Hops(f)'[i] = Hops(f)[i]
      /\ Hops(f)'[n + 1] = NewHop(f, a)
  <2>1. NewHop(f, a) \in {NewHop(f, a)} \union Hop /\ Hops(f) \in Seq({NewHop(f, a)} \union Hop)
    BY <1>2
  <2>2. \A T : \A s \in Seq(T), e \in T : /\ Len(Append(s, e)) = Len(s) + 1 /\ Append(s, e) # <<>>
                                       /\ DOMAIN Append(s, e) = 1..(Len(s) + 1)
                                       /\ \A i \in 1..Len(s) : Append(s, e)[i] = s[i]
                                       /\ Append(s, e)[Len(s) + 1] = e
    OBVIOUS
  <2> QED  BY <2>1, <2>2
<1>4. /\ NewHop(f, a).url = current[f] /\ NewHop(f, a).status = a.status
      /\ NewHop(f, a).location = clipLocation(a.location)
  BY DEF NewHop
<1>13. /\ a.location \in URLs \ Long => clipLocation(a.location) = a.location
       /\ a.location \notin URLs \ Long => clipLocation(a.location) \notin URLs
  BY ClipFacts
<1>5. current[f] \in URLs /\ Key[current[f]] \in Keys
  BY DEF TypeOK, Keys
<1>6. Visits(f)'
  <2>1. /\ Host[current[f]] \in hosts[f] /\ Key[current[f]] \in seen[f] /\ n <= maxRedirectHops
        /\ \A i \in 1..n : Key[Hops(f)[i].url] # Key[current[f]]
    BY <1>1, <1>2 DEF Visits
  <2>2. \A i \in 1..(n + 1) : Key[Hops(f)'[i].url] \in seen[f] /\ Host[Hops(f)'[i].url] \in hosts[f]
    BY <1>1, <1>2, <1>3, <1>4, <2>1 DEF Visits
  <2>3. \A i, j \in 1..(n + 1) : Key[Hops(f)'[i].url] = Key[Hops(f)'[j].url] => i = j
    BY <1>1, <1>2, <1>3, <1>4, <2>1 DEF Visits
  <2>4. n + 1 <= maxRedirectHops + 1
    BY <1>2, <2>1
  <2> QED  BY <1>3, <2>2, <2>3, <2>4 DEF Visits
<1>7. Linked(f)'
  <2>1. /\ n = 0 => current[f] = Entry
        /\ n # 0 => Hops(f)[1].url = Entry
        /\ \A i \in 1..n : Hops(f)[i].location \in URLs => Hops(f)[i].status = "redirect"
        /\ \A i \in 1..n : i < n => Hops(f)[i].location \in URLs /\ Hops(f)[i + 1].url = Hops(f)[i].location
        /\ n # 0 => Hops(f)[n].location = current[f]
    BY <1>1, <1>2 DEF Linked, AtTarget
  <2>2. Hops(f)'[1].url = Entry
    BY <1>2, <1>3, <1>4, <2>1
  <2>3. \A i \in 1..(n + 1) : Hops(f)'[i].location \in URLs => Hops(f)'[i].status = "redirect"
    <3>1. clipLocation(a.location) \in URLs => a.status = "redirect"
      BY <1>13 DEF Answers
    <3> QED  BY <1>2, <1>3, <1>4, <2>1, <3>1
  <2>4. \A i \in 1..(n + 1) : i < n + 1 => /\ Hops(f)'[i].location \in URLs
                                         /\ Hops(f)'[i + 1].url = Hops(f)'[i].location
    BY <1>2, <1>3, <1>4, <1>5, <2>1
  <2>5. AtTarget(f)' => Hops(f)'[n + 1].location = current'[f]
    <3>1. a.location \notin URLs \ Long => ~AtTarget(f)'
      BY DEF AtTarget
    <3> QED  BY <1>3, <1>4, <1>13, <3>1
  <2> QED  BY <1>3, <2>2, <2>3, <2>4, <2>5 DEF Linked
<1>8. Known(f)'
  <2>1. HopKeys(f)' = HopKeys(f) \union {Key[current[f]]}
    BY <1>2, <1>3, <1>4 DEF HopKeys
  <2>2. seen[f] \subseteq HopKeys(f) \union {Key[current[f]]} /\ chain[f].ended = ""
    BY <1>1 DEF Known
  <2> QED  BY <2>1, <2>2 DEF Known
<1>9. SelfLoop(f)'
  <2>1. SUFFICES ASSUME Hops(f)'[1].location \in URLs, Key[Hops(f)'[1].location] = Entry
        PROVE  n = 0 /\ pc'[f] = "admit"
    BY <1>2, <1>3 DEF SelfLoop
  <2>2. CASE n = 0
    BY <1>2, <1>3, <1>4, <1>13, <2>1, <2>2
  <2>3. CASE n # 0
    <3>1. Hops(f)'[1] = Hops(f)[1] /\ Hops(f) # <<>>
      BY <1>2, <1>3, <2>3
    <3> QED  BY <1>1, <2>1, <3>1 DEF SelfLoop
  <2> QED  BY <2>2, <2>3
<1>10. Entry \in Keys
  BY DEF Keys
<1>11. Steady(f)'
  <2>1. SUFFICES ASSUME flips' = 0
        PROVE  /\ \A x \in probe[f] : comparable(x) => \E b \in server'[Entry] : Same(x, b)
               /\ \A i \in 1..(n + 1) :
                    Plain(Hops(f)'[i]) => \E b \in server'[Key[Hops(f)'[i].url]] : Same(Hops(f)'[i], b)
    BY <1>3 DEF Steady, Same, comparable, Plain
  <2>2. \A x \in probe[f] : comparable(x) => \E b \in server'[Entry] : Same(x, b)
    BY <1>1, <1>10, <2>1 DEF Steady, Grown
  <2>3. \A i \in 1..n : Plain(Hops(f)[i]) => \E b \in server'[Key[Hops(f)[i].url]] : Same(Hops(f)[i], b)
    BY <1>1, <1>2, <2>1 DEF Steady, Grown
  <2>4. Plain(NewHop(f, a)) => \E b \in server'[Key[current[f]]] : Same(NewHop(f, a), b)
    <3>1. SUFFICES ASSUME Plain(NewHop(f, a)) PROVE \E b \in server'[Key[current[f]]] : Same(NewHop(f, a), b)
      OBVIOUS
    <3>2. comparable(a)
      BY <1>4, <3>1, ClipFacts DEF Plain, comparable
    <3>3. PICK b \in server'[Key[current[f]]] : Same(a, b)
      BY <2>1, <3>2
    <3>4. b \in Answers
      BY <1>5, <3>3 DEF TypeOK
    <3> QED  BY <1>4, <3>1, <3>3, <3>4, ClipSame DEF Plain
  <2> QED  BY <1>2, <1>3, <1>4, <2>2, <2>3, <2>4
<1>12. Quiet(f)'
  <2>1. SUFFICES ASSUME flips' = 0, noise' = 0
        PROVE  /\ server'[Entry] # {}
               /\ Hops(f)'[1].location \in Clips \/ \E b \in server'[Entry] : Same(Hops(f)'[1], b)
    BY <1>3 DEF Quiet, Same
  <2>2. CASE n = 0
    <3>1. current[f] = Entry /\ Key[current[f]] = Entry
      BY <1>1, <1>2, <2>2 DEF Linked
    <3>2. Hops(f)'[1] = NewHop(f, a)
      BY <1>3, <2>2
    <3>3. CASE a.location \in Long
      <4>1. clipLocation(a.location) \in Clips
        BY <3>3, LocationAssumption DEF clipLocation
      <4> QED  BY <1>4, <2>1, <3>1, <3>2, <4>1
    <3>4. CASE a.location \notin Long
      <4>1. clipLocation(a.location) = a.location
        BY <3>4 DEF clipLocation
      <4> QED  BY <1>4, <2>1, <3>1, <3>2, <4>1 DEF Same
    <3> QED  BY <3>3, <3>4
  <2>3. CASE n # 0
    <3>1. Hops(f)'[1] = Hops(f)[1] /\ Hops(f) # <<>>
      BY <1>2, <1>3, <2>3
    <3>2. Hops(f)[1].location \in Clips \/ \E b \in server[Entry] : Same(Hops(f)[1], b)
      BY <1>1, <2>1, <3>1 DEF Quiet, Grown
    <3>3. server[Entry] # {} /\ server[Entry] \subseteq server'[Entry]
      BY <1>1, <1>10, <2>1 DEF Quiet, Grown
    <3>4. CASE Hops(f)[1].location \in Clips
      BY <3>1, <3>3, <3>4
    <3>5. CASE \E b \in server[Entry] : Same(Hops(f)[1], b)
      <4>1. PICK b \in server[Entry] : Same(Hops(f)[1], b)
        BY <3>5
      <4>2. Same(Hops(f)'[1], b) /\ b \in server'[Entry]
        BY <3>1, <3>3, <4>1
      <4> QED  BY <4>2
    <3> QED  BY <3>2, <3>4, <3>5
  <2> QED  BY <2>2, <2>3
<1> QED  BY <1>1, <1>6, <1>7, <1>8, <1>9, <1>11, <1>12 DEF Good

\* So does a fetch and what follows from it.
LEMMA FetchInv ==
    ASSUME RedInv, NEW f \in Families, Fetch(f)
    PROVE  RedInv'
<1>1. TypeOK /\ SingleAnswer /\ Told /\ \A g \in Families : Good(g)
  BY DEF RedInv
<1>2. /\ TypeOK' /\ Others(f) /\ UNCHANGED <<hosts, probe, seen>> /\ pc[f] = "fetch"
  BY <1>1, FetchEffect
<1>3. PICK a \in Answers :
         /\ Serve(Key[current[f]], a)
         /\ \/ /\ a.status = "lost" /\ Hops(f)' = Hops(f)
               /\ pc'[f] = "done" /\ chain'[f].ended = "error" /\ current'[f] = current[f]
            \/ /\ a.location \notin URLs \ Long /\ Hops(f)' = Append(Hops(f), NewHop(f, a))
               /\ pc'[f] = "done" /\ chain'[f].ended \in {"final", "error"}
               /\ current'[f] = current[f]
            \/ /\ a.location \in URLs \ Long /\ Hops(f)' = Append(Hops(f), NewHop(f, a))
               /\ pc'[f] = "admit" /\ chain'[f].ended = chain[f].ended
               /\ current'[f] = a.location
  BY <1>1, FetchEffect
<1>4. Key[current[f]] \in Keys /\ current[f] \in URLs /\ Entry \in Keys
  BY <1>1 DEF TypeOK, Keys
<1>5. Grown /\ SingleAnswer'
  BY <1>1, <1>3, <1>4, ServeGrows
<1>6. /\ flips' = 0 /\ comparable(a) => \E b \in server'[Key[current[f]]] : Same(a, b)
      /\ flips' = 0 /\ noise' = 0 => a.status # "lost" /\ \E b \in server'[Key[current[f]]] : Same(a, b)
      /\ \A j \in Keys \ {Key[current[f]]} : server'[j] = server[j]
      /\ \/ server'[Key[current[f]]] = server[Key[current[f]]]
         \/ server[Key[current[f]]] = {}
  BY <1>1, <1>3, <1>4, ServeFacts DEF TypeOK
<1>7. ASSUME NEW g \in Families \ {f} PROVE Good(g)'
  BY <1>1, <1>2, <1>5, <1>7, OthersGood DEF Others
<1>8. Good(f)'
  <2>1. CASE /\ a.status = "lost" /\ Hops(f)' = Hops(f)
             /\ pc'[f] = "done" /\ chain'[f].ended = "error" /\ current'[f] = current[f]
    BY <1>1, <1>2, <1>5, <1>6, <2>1, LostFetch
  <2>2. CASE Hops(f)' = Append(Hops(f), NewHop(f, a))
    <3>1. \/ /\ a.location \notin URLs \ Long /\ pc'[f] = "done" /\ chain'[f].ended \in {"final", "error"}
             /\ current'[f] = current[f]
          \/ /\ a.location \in URLs \ Long /\ pc'[f] = "admit" /\ chain'[f].ended = chain[f].ended
             /\ current'[f] = a.location
          \/ /\ a.status = "lost" /\ Hops(f)' = Hops(f)
             /\ pc'[f] = "done" /\ chain'[f].ended = "error" /\ current'[f] = current[f]
      BY <1>3
    <3> QED  BY <1>1, <1>2, <1>5, <1>6, <2>1, <2>2, <3>1, HopFetch
  <2> QED  BY <1>3, <2>1, <2>2
<1>9. Told'
  <2>1. SUFFICES ASSUME flips' = 0, noise' = 0
        PROVE  server'[Entry] = server[Entry]
    BY <1>1, <1>2, <1>5 DEF Told, Grown
  <2>2. server[Entry] # {}
    BY <1>1, <1>2, <1>5, <2>1 DEF Good, Quiet, Grown
  <2> QED  BY <1>4, <1>6, <2>2
<1> QED  BY <1>2, <1>5, <1>7, <1>8, <1>9 DEF RedInv

\* Every step keeps it.
LEMMA RedStepInv == RedInv /\ [Next]_vars => RedInv'
<1> SUFFICES ASSUME RedInv, [Next]_vars PROVE RedInv'
  OBVIOUS
<1>1. ASSUME NEW f \in Families, Probe(f) \/ Admit(f) \/ GiveUp(f) \/ Fetch(f) PROVE RedInv'
  BY <1>1, ProbeInv, AdmitInv, GiveUpInv, FetchInv
<1>2. CASE UNCHANGED vars
  <2>1. TypeOK' /\ SingleAnswer' /\ Told' /\ hosts' = hosts /\ Grown
    BY <1>2 DEF RedInv, vars, TypeOK, SingleAnswer, Told, Grown
  <2>2. ASSUME NEW f \in Families PROVE Good(f)'
    BY <1>2, <2>1, <2>2, OthersGood DEF vars, Hops, RedInv
  <2> QED  BY <2>1, <2>2 DEF RedInv
<1> QED  BY <1>1, <1>2, StartInv DEF Next, Done

\* So it holds throughout.
LEMMA RedInvariant == Spec => []RedInv
  BY RedInitInv, RedStepInv, PTL DEF Spec

-----------------------------------------------------------------------------
(* What the report may rely on. *)

\* Every variable keeps its type, whatever the server answers.
THEOREM ChainsTypeCorrect == Spec => []TypeOK
<1>1. RedInv => TypeOK
  BY DEF RedInv
<1> QED  BY <1>1, RedInvariant, PTL

\* followRedirects asks for no URL twice and for at most maxRedirectHops + 1, and
\* connects to no host the family has no address for, for every server, every
\* set of URLs, spellings and families.
THEOREM ChainsAreBounded == Spec => []ChainBounded
<1>1. ASSUME RedInv PROVE ChainBounded
  <2>1. SUFFICES ASSUME NEW f \in Families
        PROVE  /\ Len(Hops(f)) <= maxRedirectHops + 1
               /\ Cardinality(HopKeys(f)) = Len(Hops(f))
               /\ \A i \in DOMAIN Hops(f) : Host[Hops(f)[i].url] \in hosts[f]
               /\ pc[f] = "fetch" => /\ Host[current[f]] \in hosts[f]
                                     /\ Key[current[f]] \notin HopKeys(f)
                                     /\ Len(Hops(f)) <= maxRedirectHops
    BY DEF ChainBounded, HopKeys
  <2>2. TypeOK /\ Visits(f)
    BY <1>1, <2>1 DEF RedInv, Good
  <2>3. Len(Hops(f)) \in Nat /\ DOMAIN Hops(f) = 1..Len(Hops(f))
    BY <2>2, HopsType
  <2>4. Cardinality(HopKeys(f)) = Len(Hops(f))
    <3> DEFINE n == Len(Hops(f))
               K == HopKeys(f)
               key == [i \in 1..n |-> Key[Hops(f)[i].url]]
    <3>0. n \in Nat
      BY <2>3
    <3>1. key \in Bijection(1..n, K)
      <4>1. key \in [1..n -> K]
        BY <2>3 DEF HopKeys
      <4>2. \A i, j \in 1..n : key[i] = key[j] => i = j
        BY <2>2, <2>3 DEF Visits
      <4>3. \A k \in K : \E i \in 1..n : key[i] = k
        BY <2>3 DEF HopKeys
      <4>4. key \in Injection(1..n, K)
        BY <4>1, <4>2 DEF Injection, IsInjective
      <4>5. key \in Surjection(1..n, K)
        BY <4>1, <4>3 DEF Surjection
      <4> QED  BY <4>4, <4>5 DEF Bijection
    <3> HIDE DEF key, n
    <3>2. ExistsBijection(1..n, K)
      BY <3>1 DEF ExistsBijection
    <3>3. Cardinality(K) = n
      BY <3>0, <3>2, FS_CountingElements
    <3> QED  BY <3>3 DEF n
  <2> QED  BY <2>2, <2>4 DEF Visits, HopKeys
<1> QED  BY <1>1, RedInvariant, PTL

\* A server that answers each URL alike is never told to be inconsistent, unless
\* a hop's Location was clipped within its path; for any server, and for any cut.
THEOREM SteadyServersAreConsistent == Spec => []SteadyServerConsistent
<1>1. ASSUME RedInv PROVE SteadyServerConsistent
  <2>1. SUFFICES ASSUME flips = 0, NEW k \in Keys, NEW a \in Observations(k), NEW b \in Observations(k),
                        \A f \in Families : \A i \in DOMAIN Hops(f) :
                            Key[Hops(f)[i].url] = k => Hops(f)[i].location \notin Misread
        PROVE  Same(a, b)
    BY DEF SteadyServerConsistent, inconsistent
  <2>2. ASSUME NEW x \in Observations(k) PROVE \E c \in server[k] : Same(x, c)
    <3>1. CASE k = Entry /\ comparable(x) /\ \E f \in Families : x \in probe[f]
      BY <1>1, <2>1, <3>1 DEF RedInv, Good, Steady
    <3>2. CASE comparable(x) /\ \E f \in Families : \E i \in DOMAIN Hops(f) :
                 Key[Hops(f)[i].url] = k /\ x = [status |-> Hops(f)[i].status, location |-> Hops(f)[i].location]
      <4>1. PICK f \in Families : \E i \in DOMAIN Hops(f) :
                 Key[Hops(f)[i].url] = k /\ x = [status |-> Hops(f)[i].status, location |-> Hops(f)[i].location]
        BY <3>2
      <4>2. PICK i \in DOMAIN Hops(f) :
                 Key[Hops(f)[i].url] = k /\ x = [status |-> Hops(f)[i].status, location |-> Hops(f)[i].location]
        BY <4>1
      <4>3. x.status = Hops(f)[i].status /\ x.location = Hops(f)[i].location
        BY <4>2
      <4>4. Plain(Hops(f)[i])
        BY <2>1, <3>2, <4>2, <4>3 DEF comparable, Plain
      <4>5. \E c \in server[k] : Same(Hops(f)[i], c)
        BY <1>1, <2>1, <4>2, <4>4 DEF RedInv, Good, Steady
      <4> QED  BY <4>3, <4>5 DEF Same
    <3> QED  BY <2>2, <3>1, <3>2 DEF Observations
  <2>3. PICK c \in server[k] : Same(a, c)
    BY <2>2
  <2>4. PICK d \in server[k] : Same(b, d)
    BY <2>2
  <2>5. c = d
    BY <1>1 DEF RedInv, SingleAnswer
  <2> QED  BY <2>3, <2>4, <2>5 DEF Same
<1> QED  BY <1>1, RedInvariant, PTL

\* What redirectFindings reports of a chain: a loop only of a server that has
\* one, redirect_self and the loop of every server that sends the entry URL back
\* to itself, and the downgrade of a chain that left https, for any server.
THEOREM ChainFindingsAreSound == Spec => []ChainFindingsSound
<1>1. ASSUME RedInv PROVE ChainFindingsSound
  <2>0. TypeOK /\ SingleAnswer /\ Told /\ \A f \in Families : Good(f)
    BY <1>1 DEF RedInv
  <2>1. ASSUME Ended, flips = 0, NEW f \in Families, chainFinding(f) = "redirect_loop"
        PROVE  \E ks \in SUBSET HopKeys(f) : ks # {} /\ \A k \in ks : StaysIn(k, ks)
    <3> DEFINE n == Len(Hops(f))
    <3>1. Hops(f) # <<>> /\ chain[f].ended = "loop"
      BY <2>1 DEF chainFinding, Hops
    <3>2. /\ n \in Nat /\ DOMAIN Hops(f) = 1..n /\ n # 0
          /\ \A i \in 1..n : Hops(f)[i].url \in URLs /\ Key[Hops(f)[i].url] \in Keys
      BY <2>0, <2>1, <3>1, HopsType
    <3>3. Linked(f) /\ Known(f) /\ Steady(f)
      BY <2>0, <2>1 DEF Good
    <3>4. Key[current[f]] \in HopKeys(f)
      BY <3>1, <3>3 DEF Known
    <3>5. PICK j \in 1..n : Key[Hops(f)[j].url] = Key[current[f]]
      BY <3>2, <3>4 DEF HopKeys
    <3>6. Hops(f)[n].location = current[f]
      BY <3>1, <3>3 DEF Linked, AtTarget
    <3>7. current[f] \in URLs
      BY <2>0, <2>1 DEF TypeOK
    <3> DEFINE ks == {Key[Hops(f)[i].url] : i \in j..n}
    <3>8. ks \subseteq HopKeys(f) /\ Key[Hops(f)[j].url] \in ks
      BY <3>2, <3>5 DEF HopKeys
    <3>9. ASSUME NEW i \in j..n PROVE StaysIn(Key[Hops(f)[i].url], ks)
      <4>1. i \in 1..n
        BY <3>2, <3>5
      <4>2. /\ Hops(f)[i].location \in URLs
            /\ \E k \in ks : Short[Hops(f)[i].location] = Short[k]
        <5>1. CASE i = n
          <6>1. Short[current[f]] = Short[Key[current[f]]]
            BY <3>7
          <6> QED  BY <3>5, <3>6, <3>7, <3>8, <5>1, <6>1
        <5>2. CASE i # n
          <6>0. n \in Nat /\ j \in 1..n /\ i \in j..n /\ i # n
            BY <3>2, <3>5, <5>2
          <6>1. i < n /\ i + 1 \in j..n /\ i + 1 \in 1..n
            <7> HIDE DEF n
            <7> QED  BY ONLY <6>0
          <6>2. Hops(f)[i].location \in URLs /\ Hops(f)[i + 1].url = Hops(f)[i].location
            BY <3>2, <3>3, <4>1, <6>1 DEF Linked
          <6>3. Short[Hops(f)[i].location] = Short[Key[Hops(f)[i + 1].url]]
            BY <6>2
          <6> QED  BY <6>1, <6>2, <6>3
        <5> QED  BY <5>1, <5>2
      <4>3. Hops(f)[i].status = "redirect"
        BY <3>2, <3>3, <4>1, <4>2 DEF Linked
      <4>4. Plain(Hops(f)[i])
        <5>1. Misread \subseteq Clips
          BY LocationAssumption DEF Misread
        <5>2. Hops(f)[i].location \notin Clips /\ Hops(f)[i].location # NoLocation
          BY <4>2, LocationAssumption DEF Locations
        <5> QED  BY <4>3, <5>1, <5>2 DEF Plain, comparable
      <4>5. PICK b \in server[Key[Hops(f)[i].url]] : Same(Hops(f)[i], b)
        BY <2>1, <3>2, <3>3, <4>1, <4>4 DEF Steady
      <4>6. b.location \in URLs /\ Short[b.location] = Short[Hops(f)[i].location]
        <5>1. b \in Answers
          BY <2>0, <3>2, <4>1, <4>5 DEF TypeOK
        <5>2. b.location \in Locations \union {NoLocation}
          BY <5>1 DEF Answers
        <5> QED  BY <4>2, <4>5, <5>2, SameURL
      <4> QED  BY <4>2, <4>5, <4>6 DEF StaysIn
    <3>10. ks # {} /\ \A k \in ks : StaysIn(k, ks)
      <4>1. \A k \in ks : \E i \in j..n : k = Key[Hops(f)[i].url]
        OBVIOUS
      <4> HIDE DEF ks
      <4> QED  BY <3>8, <3>9, <4>1
    <3>11. ks \in SUBSET HopKeys(f)
      BY <3>8
    <3> HIDE DEF ks
    <3> QED  BY <3>10, <3>11
  <2>2. ASSUME Ended, flips = 0, noise = 0, NEW a \in server[Entry], a.location \in URLs, Key[a.location] = Entry
        PROVE  /\ redirectSelf
               /\ \A f \in Families :
                     LET first == Hops(f)[1]
                     IN  /\ Hops(f) # <<>>
                         /\ \/ first.location \in Clips
                            \/ /\ first.location \in URLs /\ Short[first.location] = Short[Entry]
                               /\ Key[first.location] = Entry => chainFinding(f) = "redirect_loop"
    <3>1. redirectSelf
      BY <2>0, <2>2 DEF Told, redirectSelf
    <3>2. ASSUME NEW f \in Families
          PROVE  /\ Hops(f) # <<>>
                 /\ \/ Hops(f)[1].location \in Clips
                    \/ /\ Hops(f)[1].location \in URLs /\ Short[Hops(f)[1].location] = Short[Entry]
                       /\ Key[Hops(f)[1].location] = Entry => chainFinding(f) = "redirect_loop"
      <4>1. Quiet(f) /\ SelfLoop(f) /\ pc[f] = "done"
        BY <2>0, <2>2, <3>2 DEF Good, Ended
      <4>2. Hops(f) # <<>>
        BY <2>2, <4>1 DEF Quiet
      <4>10. SUFFICES ASSUME Hops(f)[1].location \notin Clips
             PROVE  /\ Hops(f)[1].location \in URLs /\ Short[Hops(f)[1].location] = Short[Entry]
                    /\ Key[Hops(f)[1].location] = Entry => chainFinding(f) = "redirect_loop"
        BY <4>2
      <4>3. PICK b \in server[Entry] : Same(Hops(f)[1], b)
        BY <2>2, <4>1, <4>2, <4>10 DEF Quiet
      <4>4. Entry \in Keys
        BY DEF Keys
      <4>5. a = b
        BY <2>0, <2>2, <4>3, <4>4 DEF SingleAnswer
      <4>6. Hops(f)[1].location \in URLs /\ Short[Hops(f)[1].location] = Short[a.location]
        <5>1. 1 \in DOMAIN Hops(f)
          BY <2>0, <3>2, <4>2, HopsType
        <5>2. Hops(f)[1].location \in Locations \union {NoLocation}
          BY <2>0, <3>2, <4>10, <5>1, HopsType
        <5>3. Same(a, Hops(f)[1])
          BY <4>3, <4>5 DEF Same
        <5> QED  BY <2>2, <5>2, <5>3, SameURL
      <4>7. Short[a.location] = Short[Entry]
        BY <2>2
      <4>8. Key[Hops(f)[1].location] = Entry => chain[f].ended = "loop"
        BY <4>1, <4>2, <4>6 DEF SelfLoop
      <4>9. chain[f].hops # <<>> /\ chain[f].ended = "loop" => chainFinding(f) = "redirect_loop"
        BY DEF chainFinding
      <4> QED  BY <4>2, <4>6, <4>7, <4>8, <4>9 DEF Hops
    <3> QED  BY <3>1, <3>2
  <2>3. ASSUME NEW f \in Families, Hops(f) # <<>>, chain[f].ended \in {"loop", "external", "hop_limit"},
               Scheme[Hops(f)[Len(Hops(f))].url] = "https", Scheme[current[f]] = "http"
        PROVE  downgradeHop(f)
    <3>1. Len(Hops(f)) \in DOMAIN Hops(f)
      BY <2>0, <2>3, HopsType
    <3>2. Hops(f)[Len(Hops(f))].location = current[f] /\ current[f] \in URLs
      BY <2>0, <2>3 DEF Good, Linked, AtTarget, TypeOK
    <3> QED  BY <2>3, <3>1, <3>2 DEF downgradeHop
  <2> QED  BY <2>1, <2>2, <2>3 DEF ChainFindingsSound, HopKeys
<1> QED  BY <1>1, RedInvariant, PTL
=============================================================================
