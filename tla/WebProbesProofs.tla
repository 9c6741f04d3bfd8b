-------------------------- MODULE WebProbesProofs --------------------------
(***************************************************************************)
(* Proofs about the web probes, for any number of addresses, any servers   *)
(* and any cache of issuers.  The invariant says of each address what its  *)
(* results so far are worth: a result is nil, an error, or what the server *)
(* does (Port80, Quic, Shaken, Asked); where its goroutine is tells which  *)
(* results exist (Dialled); and every certificate climbed so far is in the *)
(* shared cache (Climbed).  The cache only ever learns, so what one        *)
(* address concluded stays true while another fetches (OthersSound); that  *)
(* one URL has one fetcher (OneFetcher) is what keeps it so.               *)
(***************************************************************************)
EXTENDS WebProbes, TLAPS, FiniteSetTheorems

-----------------------------------------------------------------------------
(* The inductive invariant, one address at a time. *)

Verdict == {"nil", "yes", "no"}

Dials  == {"nil", "open", "refused", "timeout"}
Chains == {"nil", "handshake_failed", "valid", "expired", "hostname_mismatch", "self_signed", "issuer",
           "untrusted_root", "incomplete_chain"}

Probes ==
    [http : Dials, plain : {"nil", "error", "content", "https", "elsewhere", "denied", "5xx"},
     https : Dials, chain : Chains, noALPN : BOOLEAN, cert : BOOLEAN, depth : Nat, h2 : Verdict,
     page : {"nil", "error", "malformed", "ok", "denied", "5xx"}, old : Verdict, cut : BOOLEAN,
     quic : {"nil", "supported", "rejected", "timeout", "failed"}]

\* What port 80 and UDP 443 said.
Port80(t) ==
    /\ res[t].plain \in {"nil", "error", server[t].plain}
    /\ server[t].p80 # "open" => res[t].plain = "nil"

Quic(t) ==
    /\ res[t].quic = "supported" => server[t].h3 = "serves"
    /\ res[t].quic = "rejected" => server[t].h3 # "serves"

\* Where the connection to 443 is.
Dialled(t) ==
    /\ pc443[t] = "dial" <=> res[t].https = "nil"
    /\ res[t].https = "open" => server[t].p443 = "open"
    /\ res[t].https = "refused" => server[t].p443 = "refused"
    /\ res[t].https # "open" => pc443[t] \in {"dial", "done"} /\ res[t].chain = "nil"
    /\ pc443[t] = "tls" => res[t].chain = "nil"
    /\ pc443[t] \in {"aia", "fetching", "fresh", "done"} /\ res[t].https = "open" => res[t].chain # "nil"
    /\ pc443[t] # "done" => res[t].page = "nil" /\ res[t].old = "nil" /\ res[t].h2 = "nil"

\* What the main handshake said of the server.
Shaken(t) ==
    /\ res[t].cert <=> res[t].chain \notin {"nil", "handshake_failed"}
    /\ res[t].cert => Completes(server[t], "h1")
    /\ res[t].noALPN => Alert120(server[t], "h1") /\ res[t].chain = "handshake_failed"

\* What the fresh connections said of it.
Asked(t) ==
    /\ res[t].page # "nil" \/ res[t].old # "nil" => res[t].cert
    /\ pc443[t] = "done" /\ res[t].cert => res[t].page # "nil"
    /\ \/ res[t].page \in {"nil", "error"}
       \/ res[t].page = "malformed" /\ "h1" \notin server[t].protos
       \/ res[t].page = server[t].page /\ "h1" \in server[t].protos
    /\ res[t].old = "yes" => server[t].old
    /\ res[t].old = "no" => ~server[t].old \/ res[t].cut
    /\ res[t].h2 = "yes" => ServesH2(t) /\ res[t].https = "open"
    /\ res[t].h2 = "no" => ~ServesH2(t)

\* How far the chain has been climbed, and what that leaves of it.
Stopped(t)   == ~MayClimb(t) \/ aia[NextIssuer(t)] = "error"
Completed(t) == MayClimb(t) /\ aia[NextIssuer(t)] = "cert" /\ server[t].trustedAt = res[t].depth + 1

Climbed(t) ==
    /\ res[t].depth <= Len(server[t].issuers)
    /\ \A i \in 1..res[t].depth : aia[server[t].issuers[i]] = "cert" /\ server[t].trustedAt # i
    /\ pc443[t] = "fetching" => MayClimb(t) /\ aia[NextIssuer(t)] = "fetching"
    /\ pc443[t] \in {"aia", "fetching"} => res[t].cert /\ server[t].defect = "issuer"
    /\ res[t].cert /\ server[t].defect # "issuer" => res[t].chain = server[t].defect
    /\ res[t].cert /\ server[t].defect = "issuer" /\ pc443[t] \in {"fresh", "done"} =>
          \/ res[t].chain = "untrusted_root" /\ Stopped(t)
          \/ res[t].chain = "incomplete_chain" /\ Completed(t)

Sound(t) ==
    /\ Port80(t) /\ Quic(t) /\ Dialled(t) /\ Shaken(t) /\ Asked(t) /\ Climbed(t)
    /\ t \in ended => pc80[t] = "done" /\ pc443[t] = "done"

\* sync.Once: one caller fetches a URL.
OneFetcher ==
    \A t, u \in Targets :
        pc443[t] = "fetching" /\ pc443[u] = "fetching" /\ NextIssuer(t) = NextIssuer(u) => t = u

Types == TypeOK /\ res \in [Targets -> Probes]

WebInv == Types /\ OneFetcher /\ \A t \in Targets : Sound(t)

-----------------------------------------------------------------------------
\* The fields of a server.
LEMMA ServerType ==
    ASSUME Types, NEW t \in Targets
    PROVE  /\ server[t].p80 \in Ports /\ server[t].p443 \in Ports
           /\ server[t].plain \in {"content", "https", "elsewhere", "denied", "5xx"}
           /\ server[t].page \in {"ok", "denied", "5xx"}
           /\ server[t].tls \in BOOLEAN /\ server[t].strict \in BOOLEAN /\ server[t].old \in BOOLEAN
           /\ server[t].altsvc \in BOOLEAN
           /\ server[t].defect \in {"valid", "expired", "hostname_mismatch", "self_signed", "issuer"}
           /\ server[t].issuers \in Seq(URLs) /\ Len(server[t].issuers) \in Nat
           /\ server[t].trustedAt \in Nat
           /\ \A i \in 1..Len(server[t].issuers) : server[t].issuers[i] \in URLs
<1>1. server[t] \in ServerKinds
  BY WebAssumption DEF Types, TypeOK
<1>2. server[t].issuers \in Seq(URLs)
  BY <1>1 DEF ServerKinds
<1> QED  BY <1>1, <1>2 DEF ServerKinds

\* The fields of a result, and the issuer to be fetched next.
LEMMA ResType ==
    ASSUME Types, NEW t \in Targets
    PROVE  /\ res[t] \in Probes /\ res[t].depth \in Nat /\ res[t].cert \in BOOLEAN /\ res[t].noALPN \in BOOLEAN
           /\ res[t].https \in Dials
           /\ res[t].h2 \in Verdict /\ res[t].old \in Verdict
           /\ MayClimb(t) => NextIssuer(t) \in URLs
<1>1. /\ res[t] \in Probes /\ res[t].depth \in Nat /\ res[t].cert \in BOOLEAN /\ res[t].noALPN \in BOOLEAN
      /\ res[t].https \in Dials
      /\ res[t].h2 \in Verdict /\ res[t].old \in Verdict
  BY DEF Types, Probes
<1>2. MayClimb(t) => NextIssuer(t) \in URLs
  BY <1>1, ServerType DEF MayClimb, NextIssuer
<1> QED  BY <1>1, <1>2

\* Before any probe nothing is claimed.
LEMMA WebInit == Init => WebInv
<1> SUFFICES ASSUME Init PROVE WebInv
  OBVIOUS
<1>1. NewProbe \in Probes
  BY DEF NewProbe, Probes, Verdict, Dials, Chains
<1>2. Types
  <2>1. res \in [Targets -> Probes]
    BY <1>1 DEF Init
  <2>2. lost \in 0..MaxLost
    BY WebAssumption DEF Init
  <2> QED  BY <2>1, <2>2 DEF Init, Types, TypeOK
<1>3. OneFetcher
  BY DEF Init, OneFetcher
<1>4. ASSUME NEW t \in Targets PROVE Sound(t)
  <2>1. res[t] = NewProbe /\ pc443[t] = "dial" /\ t \notin ended
    BY <1>4 DEF Init
  <2>2. Port80(t) /\ Quic(t)
    BY <2>1 DEF Port80, Quic, NewProbe
  <2>3. Dialled(t) /\ Shaken(t)
    BY <2>1 DEF Dialled, Shaken, NewProbe
  <2>4. Asked(t)
    BY <2>1 DEF Asked, NewProbe
  <2>5. Climbed(t)
    <3>1. Len(server[t].issuers) \in Nat
      BY <1>2, <1>4, ServerType
    <3> QED  BY <2>1, <3>1 DEF Climbed, NewProbe
  <2> QED  BY <2>1, <2>2, <2>3, <2>4, <2>5 DEF Sound
<1> QED  BY <1>2, <1>3, <1>4 DEF WebInv

\* What is known of an issuer stays known, and a fetch in progress is its
\* caller's own.
AiaGrows(u) ==
    /\ \A v \in URLs : aia[v] \in {"cert", "error"} => aia'[v] = aia[v]
    /\ pc443[u] = "fetching" => aia'[NextIssuer(u)] = "fetching"

Left(u) == res'[u] = res[u] /\ pc443'[u] = pc443[u] /\ (pc80'[u] = pc80[u] \/ pc80'[u] = "done")

\* A task of another address changes nothing for this one.
LEMMA OthersSound ==
    ASSUME Types, NEW u \in Targets, Sound(u), server' = server, Left(u), AiaGrows(u),
           u \in ended' => u \in ended \/ (pc80[u] = "done" /\ pc443[u] = "done")
    PROVE  Sound(u)'
<1>1. Types /\ Sound(u)
  OBVIOUS
<1>2. Port80(u)' /\ Quic(u)'
  BY <1>1 DEF Sound, Port80, Quic, Left
<1>3. Dialled(u)'
  BY <1>1 DEF Sound, Dialled, Left
<1>4. Shaken(u)'
  BY <1>1 DEF Sound, Shaken, Left, Completes, Alert120
<1>5. Asked(u)'
  BY <1>1 DEF Sound, Asked, Left, ServesH2
<1>6. Climbed(u)'
  <2>1. Climbed(u)
    BY <1>1 DEF Sound
  <2>2. /\ MayClimb(u)' <=> MayClimb(u)
        /\ NextIssuer(u)' = NextIssuer(u)
    BY DEF MayClimb, NextIssuer, Left
  <2>3. /\ MayClimb(u) => NextIssuer(u) \in URLs
        /\ res[u].depth \in Nat /\ Len(server[u].issuers) \in Nat
        /\ \A i \in 1..Len(server[u].issuers) : server[u].issuers[i] \in URLs
    BY <1>1, ResType, ServerType
  <2>4. \A i \in 1..res[u].depth : aia'[server[u].issuers[i]] = "cert" /\ server[u].trustedAt # i
    BY <2>1, <2>3 DEF Climbed, AiaGrows
  <2>5. pc443[u] = "fetching" => MayClimb(u) /\ aia'[NextIssuer(u)] = "fetching"
    BY <2>1, <2>3 DEF Climbed, AiaGrows
  <2>6. /\ MayClimb(u) /\ aia[NextIssuer(u)] = "error" => aia'[NextIssuer(u)] = "error"
        /\ MayClimb(u) /\ aia[NextIssuer(u)] = "cert" => aia'[NextIssuer(u)] = "cert"
    BY <2>3 DEF AiaGrows
  <2>7. (Stopped(u) => Stopped(u)') /\ (Completed(u) => Completed(u)')
    BY <2>2, <2>6 DEF Stopped, Completed, Left
  <2>8. /\ res[u].depth <= Len(server[u].issuers)
        /\ pc443[u] \in {"aia", "fetching"} => res[u].cert /\ server[u].defect = "issuer"
        /\ res[u].cert /\ server[u].defect # "issuer" => res[u].chain = server[u].defect
        /\ res[u].cert /\ server[u].defect = "issuer" /\ pc443[u] \in {"fresh", "done"} =>
              \/ res[u].chain = "untrusted_root" /\ Stopped(u)'
              \/ res[u].chain = "incomplete_chain" /\ Completed(u)'
    BY <2>1, <2>7 DEF Climbed
  <2> QED  BY <2>2, <2>4, <2>5, <2>8 DEF Climbed, Left
<1>7. u \in ended' => pc80'[u] = "done" /\ pc443'[u] = "done"
  BY <1>1 DEF Sound, Left
<1> QED  BY <1>2, <1>3, <1>4, <1>5, <1>6, <1>7 DEF Sound

\* No new fetch begins, and none is one of another issuer.
LEMMA FetchersKept ==
    ASSUME OneFetcher, server' = server,
           \A u \in Targets : pc443'[u] = "fetching" => pc443[u] = "fetching" /\ res'[u].depth = res[u].depth
    PROVE  OneFetcher'
<1>1. \A u \in Targets : pc443'[u] = "fetching" => pc443[u] = "fetching" /\ NextIssuer(u)' = NextIssuer(u)
  BY DEF NextIssuer
<1> QED  BY <1>1 DEF OneFetcher

\* Where the cache of issuers is left alone, so is every caller's fetch.
LEMMA CacheKept ==
    ASSUME NEW u \in Targets, Sound(u), aia' = aia
    PROVE  AiaGrows(u)
  BY DEF Sound, Climbed, AiaGrows

\* A step that touches neither a result nor a connection to 443 preserves it.
LEMMA QuietInv ==
    ASSUME WebInv, server' = server, res' = res, aia' = aia, pc443' = pc443, pc80' = pc80, TypeOK',
           \A u \in Targets : u \in ended' => u \in ended \/ (pc80[u] = "done" /\ pc443[u] = "done")
    PROVE  WebInv'
<1>1. Types /\ OneFetcher /\ \A u \in Targets : Sound(u)
  BY DEF WebInv
<1>2. Types'
  BY <1>1 DEF Types
<1>3. OneFetcher'
  BY <1>1, FetchersKept
<1>4. ASSUME NEW u \in Targets PROVE Sound(u)'
  BY <1>1, <1>4, CacheKept, OthersSound DEF Left
<1> QED  BY <1>2, <1>3, <1>4 DEF WebInv

\* A step that gives one address a new result.
LEMMA Updated ==
    ASSUME Types, NEW t \in Targets, NEW new \in Probes, res' = [res EXCEPT ![t] = new]
    PROVE  res' \in [Targets -> Probes] /\ res'[t] = new /\ \A u \in Targets \ {t} : res'[u] = res[u]
  BY DEF Types

\* It is enough that the address that moved is still sound, and the others too.
LEMMA OneStep ==
    ASSUME WebInv, NEW t \in Targets, TypeOK', res' \in [Targets -> Probes], OneFetcher', Sound(t)',
           server' = server, ended' = ended,
           \A u \in Targets \ {t} : Left(u) /\ AiaGrows(u)
    PROVE  WebInv'
<1>1. Types /\ \A u \in Targets : Sound(u)
  BY DEF WebInv
<1>2. ASSUME NEW u \in Targets \ {t} PROVE Sound(u)'
  BY <1>1, <1>2, OthersSound
<1> QED  BY <1>2 DEF WebInv, Types

\* Losing one more stays within the bound.
LEMMA LostType ==
    ASSUME Types, Through \/ Lost
    PROVE  lost' \in 0..MaxLost
<1>1. lost \in 0..MaxLost /\ MaxLost \in Nat
  BY WebAssumption DEF Types, TypeOK
<1> QED  BY <1>1 DEF Through, Lost

\* probeHTTP.
LEMMA Probe80Inv ==
    ASSUME WebInv, NEW t \in Targets, Probe80(t)
    PROVE  WebInv'
<1>1. Types /\ OneFetcher /\ \A u \in Targets : Sound(u)
  BY DEF WebInv
<1>2. /\ UNCHANGED <<server, cap, expired, slots, ended, pc443, pcq, aia>>
      /\ pc80' = [pc80 EXCEPT ![t] = "done"]
  BY DEF Probe80
<1>3. lost' \in 0..MaxLost
  BY <1>1, LostType DEF Probe80
<1>4. TypeOK'
  BY <1>1, <1>2, <1>3 DEF Types, TypeOK
<1>5. PICK h \in Dials, p \in {"nil", "error", server[t].plain} :
         /\ res' = [res EXCEPT ![t] = [res[t] EXCEPT !.http = h, !.plain = p]]
         /\ server[t].p80 # "open" => p = "nil"
  <2>0. res[t] \in Probes /\ server[t].p80 \in Ports /\ Port80(t)
    BY <1>1, ResType, ServerType DEF Sound
  <2>1. CASE /\ Through
             /\ res' = [res EXCEPT ![t].http = DialOutcome(server[t].p80, TRUE),
                                   ![t].plain = IF server[t].p80 = "open" THEN server[t].plain ELSE "nil"]
    <3>1. DialOutcome(server[t].p80, TRUE) \in Dials
      BY <2>0 DEF DialOutcome, Ports, Dials
    <3> QED  BY <1>1, <2>0, <2>1, <3>1 DEF Types
  <2>2. CASE res' = [res EXCEPT ![t].http = "timeout"]
    <3>1. res' = [res EXCEPT ![t] = [res[t] EXCEPT !.http = "timeout", !.plain = res[t].plain]]
      BY <1>1, <2>0, <2>2 DEF Types, Probes
    <3> QED  BY <2>0, <3>1 DEF Port80, Dials
  <2>3. CASE server[t].p80 = "open" /\ res' = [res EXCEPT ![t].http = "open", ![t].plain = "error"]
    BY <1>1, <2>0, <2>3 DEF Types, Dials
  <2> QED  BY <2>1, <2>2, <2>3 DEF Probe80
<1> DEFINE new == [res[t] EXCEPT !.http = h, !.plain = p]
<1>6. /\ new \in Probes /\ new.plain = p
      /\ new.https = res[t].https /\ new.chain = res[t].chain /\ new.noALPN = res[t].noALPN
      /\ new.cert = res[t].cert /\ new.cut = res[t].cut /\ new.depth = res[t].depth /\ new.h2 = res[t].h2
      /\ new.page = res[t].page /\ new.old = res[t].old /\ new.quic = res[t].quic
  <2>1. server[t].plain \in {"content", "https", "elsewhere", "denied", "5xx"} /\ res[t] \in Probes
    BY <1>1, ServerType, ResType
  <2> QED  BY <2>1 DEF Probes
<1> HIDE DEF new
<1>7. /\ res' \in [Targets -> Probes] /\ res'[t] = new /\ \A u \in Targets \ {t} : res'[u] = res[u]
  BY <1>1, <1>5, <1>6, Updated DEF new
<1>8. \A u \in Targets \ {t} : Left(u) /\ AiaGrows(u)
  BY <1>1, <1>2, <1>7, CacheKept DEF Left, Types, TypeOK
<1>9. OneFetcher'
  BY <1>1, <1>2, <1>6, <1>7, FetchersKept
<1>10. Sound(t)'
  <2>1. Quic(t)' /\ Port80(t)'
    BY <1>1, <1>2, <1>5, <1>6, <1>7 DEF Sound, Quic, Port80
  <2>2. Dialled(t)'
    BY <1>1, <1>2, <1>6, <1>7 DEF Sound, Dialled
  <2>3. Shaken(t)'
    BY <1>1, <1>2, <1>6, <1>7 DEF Sound, Shaken, Completes, Alert120
  <2>4. Asked(t)'
    BY <1>1, <1>2, <1>6, <1>7 DEF Sound, Asked, ServesH2
  <2>5. Climbed(t)'
    BY <1>1, <1>2, <1>6, <1>7 DEF Sound, Climbed, MayClimb, NextIssuer, Stopped, Completed
  <2> QED  BY <1>1, <1>2, <2>1, <2>2, <2>3, <2>4, <2>5 DEF Sound, Types, TypeOK
<1> QED  BY <1>2, <1>4, <1>7, <1>8, <1>9, <1>10, OneStep

\* probeQUIC.
LEMMA ProbeQUICInv ==
    ASSUME WebInv, NEW t \in Targets, ProbeQUIC(t)
    PROVE  WebInv'
<1>1. Types /\ OneFetcher /\ \A u \in Targets : Sound(u)
  BY DEF WebInv
<1>2. /\ UNCHANGED <<server, cap, expired, slots, ended, pc80, pc443, aia>>
      /\ pcq' = [pcq EXCEPT ![t] = "done"]
  BY DEF ProbeQUIC
<1>3. lost' \in 0..MaxLost
  BY <1>1, LostType DEF ProbeQUIC
<1>4. TypeOK'
  BY <1>1, <1>2, <1>3 DEF Types, TypeOK
<1>5. PICK q \in {"supported", "rejected", "timeout", "failed"} :
         /\ res' = [res EXCEPT ![t] = [res[t] EXCEPT !.quic = q]]
         /\ q = "supported" => server[t].h3 = "serves"
         /\ q = "rejected" => server[t].h3 # "serves"
  <2>1. CASE res' = [res EXCEPT ![t].quic = CASE server[t].h3 = "serves" -> "supported"
                                              [] server[t].h3 = "refuses" -> "rejected"
                                              [] OTHER -> "timeout"]
    BY <1>1, <2>1 DEF Types
  <2>2. CASE \E r \in {"failed", "timeout"} : res' = [res EXCEPT ![t].quic = r]
    BY <1>1, <2>2 DEF Types
  <2> QED  BY <2>1, <2>2 DEF ProbeQUIC
<1> DEFINE new == [res[t] EXCEPT !.quic = q]
<1>6. /\ new \in Probes /\ new.plain = res[t].plain
      /\ new.https = res[t].https /\ new.chain = res[t].chain /\ new.noALPN = res[t].noALPN
      /\ new.cert = res[t].cert /\ new.cut = res[t].cut /\ new.depth = res[t].depth /\ new.h2 = res[t].h2
      /\ new.page = res[t].page /\ new.old = res[t].old /\ new.quic = q
  <2>1. res[t] \in Probes
    BY <1>1, ResType
  <2> QED  BY <2>1 DEF Probes
<1> HIDE DEF new
<1>7. /\ res' \in [Targets -> Probes] /\ res'[t] = new /\ \A u \in Targets \ {t} : res'[u] = res[u]
  BY <1>1, <1>5, <1>6, Updated DEF new
<1>8. \A u \in Targets \ {t} : Left(u) /\ AiaGrows(u)
  BY <1>1, <1>2, <1>7, CacheKept DEF Left
<1>9. OneFetcher'
  BY <1>1, <1>2, <1>6, <1>7, FetchersKept
<1>10. Sound(t)'
  <2>1. Quic(t)' /\ Port80(t)'
    BY <1>1, <1>2, <1>5, <1>6, <1>7 DEF Sound, Quic, Port80
  <2>2. Dialled(t)'
    BY <1>1, <1>2, <1>6, <1>7 DEF Sound, Dialled
  <2>3. Shaken(t)'
    BY <1>1, <1>2, <1>6, <1>7 DEF Sound, Shaken, Completes, Alert120
  <2>4. Asked(t)'
    BY <1>1, <1>2, <1>6, <1>7 DEF Sound, Asked, ServesH2
  <2>5. Climbed(t)'
    BY <1>1, <1>2, <1>6, <1>7 DEF Sound, Climbed, MayClimb, NextIssuer, Stopped, Completed
  <2> QED  BY <1>1, <1>2, <2>1, <2>2, <2>3, <2>4, <2>5 DEF Sound
<1> QED  BY <1>2, <1>4, <1>7, <1>8, <1>9, <1>10, OneStep

\* The dial of 443.
LEMMA Dial443Inv ==
    ASSUME WebInv, NEW t \in Targets, Dial443(t)
    PROVE  WebInv'
<1>1. Types /\ OneFetcher /\ \A u \in Targets : Sound(u)
  BY DEF WebInv
<1>2. /\ UNCHANGED <<server, cap, expired, slots, ended, pc80, pcq, aia>>
      /\ pc443[t] = "dial"
  BY DEF Dial443
<1>3. PICK st \in {"open", "refused", "timeout"} :
         /\ res' = [res EXCEPT ![t].https = st, ![t].h2 = IF st = "refused" THEN "no" ELSE "nil"]
         /\ pc443' = [pc443 EXCEPT ![t] = IF st = "open" THEN "tls" ELSE "done"]
         /\ Through \/ Lost
         /\ st = "open" => server[t].p443 = "open"
         /\ st = "refused" => server[t].p443 = "refused"
  <2>1. server[t].p443 \in Ports
    BY <1>1, ServerType
  <2>2. \A b \in BOOLEAN : /\ DialOutcome(server[t].p443, b) \in {"open", "refused", "timeout"}
                           /\ DialOutcome(server[t].p443, b) = "open" => server[t].p443 = "open"
                           /\ DialOutcome(server[t].p443, b) = "refused" => server[t].p443 = "refused"
    BY <2>1 DEF DialOutcome, Ports
  <2> QED  BY <2>2 DEF Dial443
<1>4. lost' \in 0..MaxLost
  BY <1>1, <1>3, LostType
<1>5. TypeOK' /\ pc443'[t] = (IF st = "open" THEN "tls" ELSE "done") /\ \A u \in Targets \ {t} : pc443'[u] = pc443[u]
  BY <1>1, <1>2, <1>3, <1>4 DEF Types, TypeOK
<1> DEFINE new == [res[t] EXCEPT !.https = st, !.h2 = IF st = "refused" THEN "no" ELSE "nil"]
<1>6. /\ new \in Probes /\ new.plain = res[t].plain /\ new.https = st
      /\ new.chain = res[t].chain /\ new.noALPN = res[t].noALPN
      /\ new.cert = res[t].cert /\ new.depth = res[t].depth
      /\ new.h2 = IF st = "refused" THEN "no" ELSE "nil"
      /\ new.page = res[t].page /\ new.old = res[t].old /\ new.quic = res[t].quic
  <2>1. res[t] \in Probes
    BY <1>1, ResType
  <2> QED  BY <2>1 DEF Probes, Dials, Verdict
<1> HIDE DEF new
<1>7. /\ res' \in [Targets -> Probes] /\ res'[t] = new /\ \A u \in Targets \ {t} : res'[u] = res[u]
  <2>1. res' = [res EXCEPT ![t] = new]
    BY <1>1, <1>3 DEF Types, new
  <2> QED  BY <1>1, <1>6, <2>1, Updated
<1>8. \A u \in Targets \ {t} : Left(u) /\ AiaGrows(u)
  BY <1>1, <1>2, <1>5, <1>7, CacheKept DEF Left
<1>9. OneFetcher'
  BY <1>1, <1>2, <1>5, <1>7, FetchersKept
<1>10. Sound(t)'
  <2>0. Dialled(t) /\ res[t].https = "nil" /\ res[t].chain = "nil" /\ ~res[t].cert /\ ~res[t].noALPN
    <3>1. Dialled(t) /\ res[t].https = "nil" /\ res[t].chain = "nil"
      BY <1>1, <1>2 DEF Sound, Dialled
    <3> QED  BY <1>1, <3>1 DEF Sound, Shaken
  <2>1. Quic(t)' /\ Port80(t)'
    BY <1>1, <1>2, <1>6, <1>7 DEF Sound, Quic, Port80
  <2>2. Dialled(t)'
    BY <1>2, <1>3, <1>5, <1>6, <1>7, <2>0 DEF Dialled
  <2>3. Shaken(t)'
    BY <1>1, <1>2, <1>6, <1>7, <2>0 DEF Sound, Shaken
  <2>4. Asked(t)'
    BY <1>1, <1>2, <1>3, <1>5, <1>6, <1>7, <2>0 DEF Sound, Asked, ServesH2
  <2>5. Climbed(t)'
    BY <1>1, <1>2, <1>5, <1>6, <1>7, <2>0 DEF Sound, Climbed
  <2> QED  BY <1>1, <1>2, <2>1, <2>2, <2>3, <2>4, <2>5 DEF Sound
<1> QED  BY <1>2, <1>5, <1>7, <1>8, <1>9, <1>10, OneStep

\* The main handshake.
LEMMA ProbeTLSInv ==
    ASSUME WebInv, NEW t \in Targets, ProbeTLS(t)
    PROVE  WebInv'
<1>1. Types /\ OneFetcher /\ \A u \in Targets : Sound(u)
  BY DEF WebInv
<1>2. /\ UNCHANGED <<server, cap, expired, slots, ended, pc80, pcq, aia>>
      /\ pc443[t] = "tls"
  BY DEF ProbeTLS
<1>3. PICK c \in Chains, ok \in BOOLEAN, alert \in BOOLEAN, next \in {"aia", "fresh"} :
         /\ res' = [res EXCEPT ![t] = [res[t] EXCEPT !.cert = ok, !.chain = c, !.noALPN = alert]]
         /\ pc443' = [pc443 EXCEPT ![t] = next]
         /\ Through \/ Lost
         /\ ok => Completes(server[t], "h1") /\ c = server[t].defect /\ ~alert
         /\ ok => (next = "aia" <=> server[t].defect = "issuer")
         /\ ~ok => c = "handshake_failed" /\ next = "fresh"
         /\ alert => Alert120(server[t], "h1")
  <2>0. /\ res[t] \in Probes /\ ~res[t].cert /\ ~res[t].noALPN
        /\ server[t].defect \in {"valid", "expired", "hostname_mismatch", "self_signed", "issuer"}
    <3>1. res[t].chain = "nil"
      BY <1>1, <1>2 DEF Sound, Dialled
    <3> QED  BY <1>1, <3>1, ResType, ServerType DEF Sound, Shaken
  <2>1. PICK through \in BOOLEAN :
          /\ Through \/ Lost
          /\ \/ /\ through /\ Completes(server[t], "h1")
                /\ res' = [res EXCEPT ![t].cert = TRUE, ![t].chain = server[t].defect]
                /\ pc443' = [pc443 EXCEPT ![t] = IF server[t].defect = "issuer" THEN "aia" ELSE "fresh"]
             \/ /\ ~(through /\ Completes(server[t], "h1"))
                /\ res' = [res EXCEPT ![t].chain = "handshake_failed",
                                      ![t].noALPN = through /\ Alert120(server[t], "h1")]
                /\ pc443' = [pc443 EXCEPT ![t] = "fresh"]
    BY DEF ProbeTLS
  <2>2. CASE /\ through /\ Completes(server[t], "h1")
             /\ res' = [res EXCEPT ![t].cert = TRUE, ![t].chain = server[t].defect]
             /\ pc443' = [pc443 EXCEPT ![t] = IF server[t].defect = "issuer" THEN "aia" ELSE "fresh"]
    <3>1. res' = [res EXCEPT ![t] = [res[t] EXCEPT !.cert = TRUE, !.chain = server[t].defect, !.noALPN = FALSE]]
      BY <1>1, <2>0, <2>2 DEF Types, Probes
    <3>2. server[t].defect \in Chains
      BY <2>0 DEF Chains
    <3> QED  BY <2>0, <2>1, <2>2, <3>1, <3>2
  <2>3. CASE /\ res' = [res EXCEPT ![t].chain = "handshake_failed",
                                   ![t].noALPN = through /\ Alert120(server[t], "h1")]
             /\ pc443' = [pc443 EXCEPT ![t] = "fresh"]
    <3>1. PICK alert \in BOOLEAN : alert <=> through /\ Alert120(server[t], "h1")
      OBVIOUS
    <3>2. res' = [res EXCEPT ![t] = [res[t] EXCEPT !.cert = FALSE, !.chain = "handshake_failed", !.noALPN = alert]]
      BY <1>1, <2>0, <2>3, <3>1 DEF Types, Probes
    <3> QED  BY <2>1, <2>3, <3>1, <3>2 DEF Chains
  <2> QED  BY <2>1, <2>2, <2>3
<1>4. lost' \in 0..MaxLost
  BY <1>1, <1>3, LostType
<1>5. TypeOK' /\ pc443'[t] = next /\ \A u \in Targets \ {t} : pc443'[u] = pc443[u]
  BY <1>1, <1>2, <1>3, <1>4 DEF Types, TypeOK
<1> DEFINE new == [res[t] EXCEPT !.cert = ok, !.chain = c, !.noALPN = alert]
<1>6. /\ new \in Probes /\ new.plain = res[t].plain /\ new.https = res[t].https
      /\ new.chain = c /\ new.noALPN = alert
      /\ new.cert = ok /\ new.depth = res[t].depth
      /\ new.h2 = res[t].h2
      /\ new.page = res[t].page /\ new.old = res[t].old /\ new.quic = res[t].quic
  <2>1. res[t] \in Probes
    BY <1>1, ResType
  <2> QED  BY <2>1 DEF Probes
<1> HIDE DEF new
<1>7. /\ res' \in [Targets -> Probes] /\ res'[t] = new /\ \A u \in Targets \ {t} : res'[u] = res[u]
  BY <1>1, <1>3, <1>6, Updated DEF new
<1>8. \A u \in Targets \ {t} : Left(u) /\ AiaGrows(u)
  BY <1>1, <1>2, <1>5, <1>7, CacheKept DEF Left
<1>9. OneFetcher'
  BY <1>1, <1>2, <1>5, <1>7, FetchersKept
<1>10. Sound(t)'
  <2>0. /\ Dialled(t) /\ res[t].https = "open"
        /\ server[t].defect \in {"valid", "expired", "hostname_mismatch", "self_signed", "issuer"}
    BY <1>1, <1>2, ServerType DEF Sound, Dialled
  <2>1. Quic(t)' /\ Port80(t)'
    BY <1>1, <1>2, <1>6, <1>7 DEF Sound, Quic, Port80
  <2>2. Dialled(t)'
    BY <1>2, <1>3, <1>5, <1>6, <1>7, <2>0 DEF Dialled
  <2>3. Shaken(t)'
    BY <1>1, <1>2, <1>3, <1>6, <1>7, <2>0 DEF Sound, Shaken, Completes, Alert120
  <2>4. Asked(t)'
    BY <1>1, <1>2, <1>3, <1>5, <1>6, <1>7, <2>0 DEF Sound, Asked, ServesH2, Dialled
  <2>5. Climbed(t)'
    <3>1. Climbed(t)
      BY <1>1 DEF Sound
    <3> QED  BY <1>2, <1>3, <1>5, <1>6, <1>7, <2>0, <3>1 DEF Climbed
  <2> QED  BY <1>1, <1>2, <2>1, <2>2, <2>3, <2>4, <2>5 DEF Sound, Dialled
<1> QED  BY <1>2, <1>5, <1>7, <1>8, <1>9, <1>10, OneStep

\* sync.Once is entered by one caller.
LEMMA StartFetchInv ==
    ASSUME WebInv, NEW t \in Targets, StartFetch(t)
    PROVE  WebInv'
<1>1. Types /\ OneFetcher /\ \A u \in Targets : Sound(u)
  BY DEF WebInv
<1>2. /\ UNCHANGED <<server, cap, expired, lost, slots, ended, pc80, pcq, res>>
      /\ pc443[t] = "aia" /\ MayClimb(t) /\ aia[NextIssuer(t)] = "new"
      /\ aia' = [aia EXCEPT ![NextIssuer(t)] = "fetching"]
      /\ pc443' = [pc443 EXCEPT ![t] = "fetching"]
  BY DEF StartFetch
<1>3. NextIssuer(t) \in URLs
  BY <1>1, <1>2, ResType
<1>4. TypeOK' /\ res' \in [Targets -> Probes]
  BY <1>1, <1>2, <1>3 DEF Types, TypeOK
<1>5. pc443'[t] = "fetching" /\ \A u \in Targets \ {t} : pc443'[u] = pc443[u]
  BY <1>1, <1>2 DEF Types, TypeOK
<1>6. aia'[NextIssuer(t)] = "fetching" /\ \A v \in URLs : v # NextIssuer(t) => aia'[v] = aia[v]
  BY <1>1, <1>2, <1>3 DEF Types, TypeOK
<1>7. ASSUME NEW u \in Targets \ {t} PROVE Left(u) /\ AiaGrows(u)
  <2>1. pc443[u] = "fetching" => NextIssuer(u) \in URLs /\ aia[NextIssuer(u)] = "fetching"
    BY <1>1, <1>7, ResType DEF Sound, Climbed
  <2> QED  BY <1>2, <1>5, <1>6, <1>7, <2>1 DEF Left, AiaGrows
<1>8. OneFetcher'
  <2>1. \A u \in Targets : NextIssuer(u)' = NextIssuer(u)
    BY <1>2 DEF NextIssuer
  <2>2. \A u \in Targets : pc443[u] = "fetching" => NextIssuer(u) # NextIssuer(t)
    BY <1>1, <1>2 DEF Sound, Climbed
  <2> QED  BY <1>1, <1>5, <2>1, <2>2 DEF OneFetcher
<1>9. Sound(t)'
  <2>0. Sound(t)
    BY <1>1
  <2>1. Quic(t)' /\ Port80(t)'
    BY <1>2, <2>0 DEF Sound, Quic, Port80
  <2>2. Dialled(t)'
    BY <1>2, <1>5, <2>0 DEF Sound, Dialled
  <2>3. Shaken(t)'
    BY <1>2, <2>0 DEF Sound, Shaken, Completes, Alert120
  <2>4. Asked(t)'
    BY <1>2, <1>5, <2>0 DEF Sound, Asked, ServesH2
  <2>5. Climbed(t)'
    <3>1. Climbed(t)
      BY <2>0 DEF Sound
    <3>2. (MayClimb(t)' <=> MayClimb(t)) /\ NextIssuer(t)' = NextIssuer(t)
      BY <1>2 DEF MayClimb, NextIssuer
    <3>3. /\ res[t].depth \in Nat /\ Len(server[t].issuers) \in Nat
          /\ \A i \in 1..Len(server[t].issuers) : server[t].issuers[i] \in URLs
      BY <1>1, ResType, ServerType
    <3>4. \A i \in 1..res[t].depth : aia'[server[t].issuers[i]] = "cert" /\ server[t].trustedAt # i
      BY <1>2, <1>6, <3>1, <3>3 DEF Climbed
    <3> QED  BY <1>2, <1>5, <1>6, <3>1, <3>2, <3>4 DEF Climbed
  <2> QED  BY <1>2, <2>0, <2>1, <2>2, <2>3, <2>4, <2>5 DEF Sound
<1> QED  BY <1>2, <1>4, <1>7, <1>8, <1>9, OneStep

\* The fetch ends, for all who wait.
LEMMA EndFetchInv ==
    ASSUME WebInv, NEW t \in Targets, EndFetch(t)
    PROVE  WebInv'
<1>1. Types /\ OneFetcher /\ \A u \in Targets : Sound(u)
  BY DEF WebInv
<1>2. PICK r \in {"cert", "error"} :
         /\ UNCHANGED <<server, cap, expired, slots, ended, pc80, pcq, res>>
         /\ pc443[t] = "fetching" /\ (Through \/ Lost)
         /\ aia' = [aia EXCEPT ![NextIssuer(t)] = r]
         /\ pc443' = [pc443 EXCEPT ![t] = "aia"]
  BY DEF EndFetch
<1>3. MayClimb(t) /\ aia[NextIssuer(t)] = "fetching" /\ NextIssuer(t) \in URLs
  BY <1>1, <1>2, ResType DEF Sound, Climbed
<1>4. lost' \in 0..MaxLost
  BY <1>1, <1>2, LostType
<1>5. TypeOK' /\ res' \in [Targets -> Probes]
  BY <1>1, <1>2, <1>3, <1>4 DEF Types, TypeOK
<1>6. pc443'[t] = "aia" /\ \A u \in Targets \ {t} : pc443'[u] = pc443[u]
  BY <1>1, <1>2 DEF Types, TypeOK
<1>7. aia'[NextIssuer(t)] = r /\ \A v \in URLs : v # NextIssuer(t) => aia'[v] = aia[v]
  BY <1>1, <1>2, <1>3 DEF Types, TypeOK
<1>8. ASSUME NEW u \in Targets \ {t} PROVE Left(u) /\ AiaGrows(u)
  <2>1. pc443[u] = "fetching" => /\ NextIssuer(u) \in URLs /\ aia[NextIssuer(u)] = "fetching"
                                 /\ NextIssuer(u) # NextIssuer(t)
    BY <1>1, <1>2, <1>8, ResType DEF Sound, Climbed, OneFetcher
  <2> QED  BY <1>2, <1>3, <1>6, <1>7, <1>8, <2>1 DEF Left, AiaGrows
<1>9. OneFetcher'
  BY <1>1, <1>2, <1>6, FetchersKept
<1>10. Sound(t)'
  <2>0. Sound(t)
    BY <1>1
  <2>1. Quic(t)' /\ Port80(t)'
    BY <1>2, <2>0 DEF Sound, Quic, Port80
  <2>2. Dialled(t)'
    BY <1>2, <1>6, <2>0 DEF Sound, Dialled
  <2>3. Shaken(t)'
    BY <1>2, <2>0 DEF Sound, Shaken, Completes, Alert120
  <2>4. Asked(t)'
    BY <1>2, <1>6, <2>0 DEF Sound, Asked, ServesH2
  <2>5. Climbed(t)'
    <3>1. Climbed(t)
      BY <2>0 DEF Sound
    <3>3. /\ res[t].depth \in Nat /\ Len(server[t].issuers) \in Nat
          /\ \A i \in 1..Len(server[t].issuers) : server[t].issuers[i] \in URLs
      BY <1>1, ResType, ServerType
    <3>4. \A i \in 1..res[t].depth : aia'[server[t].issuers[i]] = "cert" /\ server[t].trustedAt # i
      BY <1>3, <1>7, <3>1, <3>3 DEF Climbed
    <3> QED  BY <1>2, <1>6, <3>1, <3>4 DEF Climbed
  <2> QED  BY <1>2, <2>0, <2>1, <2>2, <2>3, <2>4, <2>5 DEF Sound
<1> QED  BY <1>2, <1>5, <1>8, <1>9, <1>10, OneStep

\* The chain is climbed by one, or its verdict falls.
LEMMA UseIssuerInv ==
    ASSUME WebInv, NEW t \in Targets, UseIssuer(t)
    PROVE  WebInv'
<1>1. Types /\ OneFetcher /\ \A u \in Targets : Sound(u)
  BY DEF WebInv
<1>2. /\ UNCHANGED <<server, cap, expired, lost, slots, ended, pc80, pcq, aia>>
      /\ pc443[t] = "aia"
  BY DEF UseIssuer
<1>3. PICK c \in Chains, d \in Nat, next \in {"aia", "fresh"} :
         /\ res' = [res EXCEPT ![t] = [res[t] EXCEPT !.chain = c, !.depth = d]]
         /\ pc443' = [pc443 EXCEPT ![t] = next]
         /\ c \notin {"nil", "handshake_failed"}
         /\ next = "fresh" => /\ d = res[t].depth
                              /\ \/ c = "untrusted_root" /\ Stopped(t)
                                 \/ c = "incomplete_chain" /\ Completed(t)
         /\ next = "aia" => /\ d = res[t].depth + 1 /\ MayClimb(t) /\ aia[NextIssuer(t)] = "cert"
                            /\ server[t].trustedAt # d
  <2>0. /\ res[t] \in Probes /\ res[t].depth \in Nat /\ res[t].chain \in Chains
        /\ res[t].chain \notin {"nil", "handshake_failed"}
    <3>1. res[t] \in Probes /\ Sound(t)
      BY <1>1, ResType
    <3> QED  BY <1>2, <3>1 DEF Probes, Sound, Climbed, Shaken
  <2>1. ASSUME NEW c \in {"untrusted_root", "incomplete_chain"}, Classify(t, c)
        PROVE  /\ res' = [res EXCEPT ![t] = [res[t] EXCEPT !.chain = c, !.depth = res[t].depth]]
               /\ pc443' = [pc443 EXCEPT ![t] = "fresh"]
    BY <1>1, <2>0, <2>1 DEF Classify, Types, Probes
  <2>2. CASE Stopped(t) /\ Classify(t, "untrusted_root")
    BY <2>0, <2>1, <2>2 DEF Chains
  <2>3. CASE Completed(t) /\ Classify(t, "incomplete_chain")
    BY <2>0, <2>1, <2>3 DEF Chains
  <2>4. CASE /\ MayClimb(t) /\ aia[NextIssuer(t)] = "cert"
             /\ server[t].trustedAt # res[t].depth + 1
             /\ res' = [res EXCEPT ![t].depth = @ + 1] /\ UNCHANGED pc443
    <3>1. res' = [res EXCEPT ![t] = [res[t] EXCEPT !.chain = res[t].chain, !.depth = res[t].depth + 1]]
      BY <1>1, <2>0, <2>4 DEF Types, Probes
    <3>2. pc443' = [pc443 EXCEPT ![t] = "aia"]
      BY <1>1, <1>2, <2>4 DEF Types, TypeOK
    <3>3. res[t].depth + 1 \in Nat
      BY <2>0
    <3> QED  BY <2>0, <2>4, <3>1, <3>2, <3>3
  <2> QED  BY <2>2, <2>3, <2>4 DEF UseIssuer, Stopped, Completed
<1>5. TypeOK' /\ pc443'[t] = next /\ \A u \in Targets \ {t} : pc443'[u] = pc443[u]
  BY <1>1, <1>2, <1>3 DEF Types, TypeOK
<1> DEFINE new == [res[t] EXCEPT !.chain = c, !.depth = d]
<1>6. /\ new \in Probes /\ new.plain = res[t].plain /\ new.https = res[t].https
      /\ new.chain = c /\ new.noALPN = res[t].noALPN
      /\ new.cert = res[t].cert /\ new.depth = d
      /\ new.h2 = res[t].h2
      /\ new.page = res[t].page /\ new.old = res[t].old /\ new.quic = res[t].quic
  <2>1. res[t] \in Probes
    BY <1>1, ResType
  <2> QED  BY <2>1 DEF Probes
<1> HIDE DEF new
<1>7. /\ res' \in [Targets -> Probes] /\ res'[t] = new /\ \A u \in Targets \ {t} : res'[u] = res[u]
  BY <1>1, <1>3, <1>6, Updated DEF new
<1>8. \A u \in Targets \ {t} : Left(u) /\ AiaGrows(u)
  BY <1>1, <1>2, <1>5, <1>7, CacheKept DEF Left
<1>9. OneFetcher'
  BY <1>1, <1>2, <1>5, <1>7, FetchersKept
<1>10. Sound(t)'
  <2>0. /\ Sound(t) /\ Climbed(t) /\ res[t].cert /\ server[t].defect = "issuer" /\ res[t].https = "open"
        /\ res[t].chain \notin {"nil", "handshake_failed"}
    <3>1. Climbed(t) /\ Shaken(t) /\ Dialled(t)
      BY <1>1 DEF Sound
    <3>2. res[t].cert /\ server[t].defect = "issuer"
      BY <1>2, <3>1 DEF Climbed
    <3>3. res[t].https = "open"
      BY <1>2, <3>1 DEF Dialled
    <3> QED  BY <1>1, <3>1, <3>2, <3>3 DEF Shaken
  <2>1. Quic(t)' /\ Port80(t)'
    BY <1>2, <1>6, <1>7, <2>0 DEF Sound, Quic, Port80
  <2>2. Dialled(t)'
    BY <1>2, <1>3, <1>5, <1>6, <1>7, <2>0 DEF Sound, Dialled
  <2>3. Shaken(t)'
    BY <1>2, <1>3, <1>6, <1>7, <2>0 DEF Sound, Shaken, Completes, Alert120
  <2>4. Asked(t)'
    BY <1>2, <1>3, <1>5, <1>6, <1>7, <2>0 DEF Sound, Asked, ServesH2
  <2>5. Climbed(t)'
    <3>3. /\ res[t].depth \in Nat /\ Len(server[t].issuers) \in Nat /\ maxAIADepth \in Nat
          /\ server[t].trustedAt \in Nat
      BY <1>1, ResType, ServerType, WebAssumption
    <3>4. d <= Len(server[t].issuers)
      BY <1>3, <2>0, <3>3 DEF MayClimb, Climbed
    <3>5. \A i \in 1..d : aia[server[t].issuers[i]] = "cert" /\ server[t].trustedAt # i
      BY <1>3, <2>0, <3>3 DEF NextIssuer, Climbed
    <3>6. next = "fresh" => (Stopped(t)' <=> Stopped(t)) /\ (Completed(t)' <=> Completed(t))
      BY <1>2, <1>3, <1>6, <1>7 DEF Stopped, Completed, MayClimb, NextIssuer
    <3> QED  BY <1>2, <1>3, <1>5, <1>6, <1>7, <2>0, <3>4, <3>5, <3>6 DEF Climbed
  <2> QED  BY <1>2, <2>0, <2>1, <2>2, <2>3, <2>4, <2>5 DEF Sound
<1> QED  BY <1>2, <1>5, <1>7, <1>8, <1>9, <1>10, OneStep

\* The fresh connections, at the end.
LEMMA FreshInv ==
    ASSUME WebInv, NEW t \in Targets, Fresh(t)
    PROVE  WebInv'
<1>1. Types /\ OneFetcher /\ \A u \in Targets : Sound(u)
  BY DEF WebInv
<1>2. /\ UNCHANGED <<server, cap, expired, slots, ended, pc80, pcq, aia>>
      /\ pc443[t] = "fresh" /\ pc443' = [pc443 EXCEPT ![t] = "done"]
  BY DEF Fresh
<1> DEFINE ok == res[t].chain # "handshake_failed"
<1>3. PICK through \in [{"h2", "get", "old"} -> BOOLEAN], how \in {"answer", "silence", "reset"} :
         LET missed == Cardinality({q \in DOMAIN through : ~through[q]})
         IN  /\ through["old"] <=> how = "answer"
             /\ IF expired THEN missed = 3 /\ how = "silence" /\ UNCHANGED lost
                ELSE lost + missed <= MaxLost /\ lost' = lost + missed
             /\ res' = [res EXCEPT
                   ![t].h2 = acceptsALPN(server[t], "h2", through["h2"]),
                   ![t].page = IF ok THEN httpRequest(server[t], through["get"]) ELSE "nil",
                   ![t].old = IF ok THEN acceptsVersion(server[t], how) ELSE "nil",
                   ![t].cut = ok /\ how = "reset"]
  BY DEF Fresh
<1> DEFINE missed == Cardinality({q \in DOMAIN through : ~through[q]})
<1>4. lost' \in 0..MaxLost
  <2>1. missed \in Nat
    <3>1. IsFiniteSet({"h2", "get", "old"})
      <4>1. IsFiniteSet({"h2"} \union {"get"})
        BY FS_Singleton, FS_AddElement
      <4>2. IsFiniteSet(({"h2"} \union {"get"}) \union {"old"})
        BY <4>1, FS_AddElement
      <4>3. ({"h2"} \union {"get"}) \union {"old"} = {"h2", "get", "old"}
        OBVIOUS
      <4> QED  BY <4>2, <4>3
    <3>2. IsFiniteSet({q \in DOMAIN through : ~through[q]})
      BY <3>1, FS_Subset
    <3> QED  BY <3>2, FS_CardinalityType
  <2>2. lost \in 0..MaxLost /\ MaxLost \in Nat
    BY <1>1, WebAssumption DEF Types, TypeOK
  <2>3. lost' = lost \/ (lost + missed <= MaxLost /\ lost' = lost + missed)
    BY <1>3
  <2> HIDE DEF missed
  <2> QED  BY <2>1, <2>2, <2>3
<1>5. TypeOK' /\ pc443'[t] = "done" /\ \A u \in Targets \ {t} : pc443'[u] = pc443[u]
  BY <1>1, <1>2, <1>4 DEF Types, TypeOK
<1> DEFINE two == acceptsALPN(server[t], "h2", through["h2"])
           get == IF ok THEN httpRequest(server[t], through["get"]) ELSE "nil"
           old == IF ok THEN acceptsVersion(server[t], how) ELSE "nil"
           cut == ok /\ how = "reset"
           new == [res[t] EXCEPT !.h2 = two, !.page = get, !.old = old, !.cut = cut]
<1>6. /\ Sound(t) /\ res[t] \in Probes /\ res[t].https = "open" /\ server[t].p443 = "open"
      /\ res[t].chain # "nil"
      /\ ok <=> res[t].cert
      /\ ok => Completes(server[t], "h1")
  <2>1. Sound(t) /\ res[t] \in Probes /\ Dialled(t) /\ Shaken(t)
    BY <1>1, ResType DEF Sound
  <2>2. res[t].https = "open" /\ server[t].p443 = "open"
    BY <1>2, <2>1 DEF Dialled
  <2>3. res[t].chain # "nil"
    BY <1>2, <2>1, <2>2 DEF Dialled
  <2> QED  BY <2>1, <2>2, <2>3 DEF Shaken
<1>7. through["h2"] \in BOOLEAN /\ through["get"] \in BOOLEAN /\ through["old"] \in BOOLEAN
  OBVIOUS
<1>8. /\ server[t].tls \in BOOLEAN /\ server[t].strict \in BOOLEAN /\ server[t].old \in BOOLEAN
      /\ server[t].page \in {"ok", "denied", "5xx"}
  BY <1>1, ServerType
<1>9. /\ two \in Verdict
      /\ two = "yes" => ServesH2(t)
      /\ two = "no" => ~ServesH2(t)
  BY <1>6, <1>7, <1>8 DEF acceptsALPN, Completes, ServesH2, Verdict
<1>10. /\ get \in {"nil", "error", "malformed", "ok", "denied", "5xx"}
       /\ get = "nil" <=> ~ok
       /\ \/ get \in {"nil", "error"}
          \/ get = "malformed" /\ "h1" \notin server[t].protos
          \/ get = server[t].page /\ "h1" \in server[t].protos
  BY <1>8 DEF httpRequest
<1>11. /\ old \in Verdict
       /\ old # "nil" => ok
       /\ old = "yes" => server[t].old
       /\ old = "no" => ~server[t].old \/ cut
       /\ cut \in BOOLEAN
  BY <1>6, <1>7, <1>8 DEF acceptsVersion, Verdict
<1>12. res' = [res EXCEPT ![t] = new]
  BY <1>1, <1>3, <1>6 DEF Types
<1> HIDE DEF two, get, old, cut
<1>13. /\ new \in Probes /\ new.plain = res[t].plain /\ new.https = res[t].https
       /\ new.chain = res[t].chain /\ new.noALPN = res[t].noALPN
       /\ new.cert = res[t].cert /\ new.depth = res[t].depth
       /\ new.h2 = two /\ new.page = get /\ new.old = old /\ new.cut = cut /\ new.quic = res[t].quic
  BY <1>6, <1>9, <1>10, <1>11 DEF Probes
<1> HIDE DEF new
<1>14. /\ res' \in [Targets -> Probes] /\ res'[t] = new /\ \A u \in Targets \ {t} : res'[u] = res[u]
  BY <1>1, <1>12, <1>13, Updated
<1>15. \A u \in Targets \ {t} : Left(u) /\ AiaGrows(u)
  BY <1>1, <1>2, <1>5, <1>14, CacheKept DEF Left
<1>16. OneFetcher'
  BY <1>1, <1>2, <1>5, <1>14, FetchersKept
<1>17. Sound(t)'
  <2>1. Quic(t)' /\ Port80(t)'
    BY <1>2, <1>6, <1>13, <1>14 DEF Sound, Quic, Port80
  <2>2. Dialled(t)'
    BY <1>2, <1>5, <1>6, <1>13, <1>14 DEF Sound, Dialled
  <2>3. Shaken(t)'
    BY <1>2, <1>6, <1>13, <1>14 DEF Sound, Shaken, Completes, Alert120
  <2>4. Asked(t)'
    <3>1. ServesH2(t)' <=> ServesH2(t)
      BY <1>2 DEF ServesH2
    <3> QED  BY <1>2, <1>5, <1>6, <1>9, <1>10, <1>11, <1>13, <1>14, <3>1 DEF Asked
  <2>5. Climbed(t)'
    <3>1. Climbed(t)
      BY <1>6 DEF Sound
    <3>2. (Stopped(t)' <=> Stopped(t)) /\ (Completed(t)' <=> Completed(t))
      BY <1>2, <1>13, <1>14 DEF Stopped, Completed, MayClimb, NextIssuer
    <3> QED  BY <1>2, <1>5, <1>13, <1>14, <3>1, <3>2 DEF Climbed
  <2> QED  BY <1>2, <1>5, <1>6, <2>1, <2>2, <2>3, <2>4, <2>5 DEF Sound
<1> QED  BY <1>2, <1>5, <1>14, <1>15, <1>16, <1>17, OneStep

\* Every step preserves the invariant.
LEMMA WebStep == WebInv /\ [Next]_vars => WebInv'
<1> SUFFICES ASSUME WebInv, [Next]_vars PROVE WebInv'
  OBVIOUS
<1>0. TypeOK
  BY DEF WebInv, Types
<1>1. CASE Deadline
  <2>1. TypeOK'
    BY <1>0, <1>1 DEF Deadline, TypeOK
  <2> QED  BY <1>1, <2>1, QuietInv DEF Deadline
<1>2. ASSUME NEW t \in Targets, TakeSlot(t) PROVE WebInv'
  <2>1. TypeOK'
    BY <1>0, <1>2 DEF TakeSlot, TypeOK
  <2> QED  BY <1>2, <2>1, QuietInv DEF TakeSlot
<1>3. ASSUME NEW t \in Targets, Return(t) PROVE WebInv'
  <2>1. TypeOK'
    BY <1>0, <1>3 DEF Return, TypeOK
  <2> QED  BY <1>3, <2>1, QuietInv DEF Return
<1>4. CASE UNCHANGED vars
  <2>1. TypeOK'
    BY <1>0, <1>4 DEF vars, TypeOK
  <2> QED  BY <1>4, <2>1, QuietInv DEF vars
<1> QED
  BY <1>1, <1>2, <1>3, <1>4, Probe80Inv, Dial443Inv, ProbeTLSInv, StartFetchInv, EndFetchInv,
     UseIssuerInv, FreshInv, ProbeQUICInv
     DEF Next, Finished

\* And so it holds throughout.
LEMMA WebInvariant == Spec => []WebInv
  BY WebInit, WebStep, PTL DEF Spec

-----------------------------------------------------------------------------
(* What the report may rely on. *)

\* Every variable keeps its type.
THEOREM WebTypeCorrect == Spec => []TypeOK
<1>1. WebInv => TypeOK
  BY DEF WebInv, Types
<1> QED  BY <1>1, WebInvariant, PTL

\* What http11Verdict says of an address.
LEMMA HTTP11Says ==
    ASSUME WebInv, NEW t \in Targets
    PROVE  /\ http11Verdict(res[t]) = "yes" => /\ ServesH1(t) /\ res[t].https = "open"
                                              /\ res[t].page = server[t].page
           /\ http11Verdict(res[t]) = "no" => ~ServesH1(t)
<1>1. Types /\ Sound(t)
  BY DEF WebInv
<1>2. Dialled(t) /\ Shaken(t) /\ Asked(t)
  BY <1>1 DEF Sound
<1>3. /\ server[t].tls \in BOOLEAN /\ server[t].strict \in BOOLEAN
      /\ server[t].page \in {"ok", "denied", "5xx"}
      /\ res[t].noALPN \in BOOLEAN /\ res[t].cert \in BOOLEAN
  BY <1>1, ServerType, ResType
<1>4. res[t].https = "refused" => ~ServesH1(t)
  BY <1>2 DEF Dialled, ServesH1
<1>5. res[t].noALPN => ~ServesH1(t)
  BY <1>2, <1>3 DEF Shaken, ServesH1, Alert120, Completes
<1>6. res[t].page = "malformed" => ~ServesH1(t)
  BY <1>2, <1>3 DEF Asked, ServesH1
<1>7. res[t].page \in {"ok", "denied", "5xx"} => /\ ServesH1(t) /\ res[t].https = "open"
                                               /\ res[t].page = server[t].page
  <2>1. SUFFICES ASSUME res[t].page \in {"ok", "denied", "5xx"}
        PROVE  ServesH1(t) /\ res[t].https = "open" /\ res[t].page = server[t].page
    OBVIOUS
  <2>2. res[t].cert /\ res[t].page = server[t].page /\ "h1" \in server[t].protos
    BY <1>2, <2>1 DEF Asked
  <2>3. res[t].chain # "nil" /\ server[t].tls
    BY <1>2, <1>3, <2>2 DEF Shaken, Completes
  <2>4. res[t].https = "open" /\ server[t].p443 = "open"
    BY <1>2, <2>3 DEF Dialled
  <2> QED  BY <2>2, <2>3, <2>4 DEF ServesH1
<1> QED  BY <1>4, <1>5, <1>6, <1>7 DEF http11Verdict

\* httpversions.go: whatever was lost and whenever the deadline came, a verdict
\* on a version is what the server does, but for the two losses that count as a
\* no: a reset handshake with an old TLS version, and silence on UDP 443 where
\* the page does not advertise h3.
THEOREM WebVerdictsAreSound == Spec => []VerdictsSound
<1>1. ASSUME WebInv PROVE VerdictsSound
  <2>1. ASSUME NEW t \in Targets
        PROVE  /\ http11Verdict(res[t]) \in {"yes", "no"} => (http11Verdict(res[t]) = "yes" <=> ServesH1(t))
               /\ res[t].h2 \in {"yes", "no"} => (res[t].h2 = "yes" <=> ServesH2(t))
               /\ res[t].old = "yes" => ServesOld(t)
               /\ res[t].old = "no" => ~ServesOld(t) \/ res[t].cut
               /\ http3Verdict(t) = "yes" => server[t].h3 = "serves"
               /\ http3Verdict(t) = "no" => server[t].h3 # "serves" \/ (~server[t].altsvc /\ res[t].quic = "timeout")
    <3>1. Types /\ Dialled(t) /\ Shaken(t) /\ Asked(t) /\ Quic(t)
      BY <1>1, <2>1 DEF WebInv, Sound
    <3>2. http11Verdict(res[t]) \in {"yes", "no"} => (http11Verdict(res[t]) = "yes" <=> ServesH1(t))
      BY <1>1, <2>1, HTTP11Says
    <3>3. res[t].h2 \in {"yes", "no"} => (res[t].h2 = "yes" <=> ServesH2(t))
      BY <3>1 DEF Asked
    <3>4. /\ res[t].old = "yes" => ServesOld(t)
          /\ res[t].old = "no" => ~ServesOld(t) \/ res[t].cut
      <4>1. SUFFICES ASSUME res[t].old = "yes" PROVE server[t].p443 = "open" /\ server[t].tls
        BY <2>1, <3>1, ServerType DEF ServesOld, Asked
      <4>2. res[t].cert /\ res[t].chain # "nil" /\ server[t].tls
        BY <3>1, <4>1 DEF Asked, Shaken, Completes
      <4> QED  BY <3>1, <4>2 DEF Dialled
    <3>5. http3Verdict(t) = "yes" => server[t].h3 = "serves"
      BY <3>1 DEF http3Verdict, Quic
    <3>6. http3Verdict(t) = "no" => server[t].h3 # "serves" \/ (~server[t].altsvc /\ res[t].quic = "timeout")
      BY <3>1 DEF http3Verdict, Quic, h3Advertised
    <3> QED  BY <3>2, <3>3, <3>4, <3>5, <3>6
  <2> QED  BY <2>1 DEF VerdictsSound
<1> QED  BY <1>1, WebInvariant, PTL

\* Two addresses with one chain of issuers end where the shared cache ends them.
LEMMA SameChain ==
    ASSUME WebInv, NEW t \in Targets, NEW u \in Targets,
           server[t].issuers = server[u].issuers, server[t].trustedAt = server[u].trustedAt,
           server[t].defect = server[u].defect, res[t].cert, res[u].cert,
           pc443[t] \in {"fresh", "done"}, pc443[u] \in {"fresh", "done"}
    PROVE  res[t].chain = res[u].chain
<1>1. Types /\ Climbed(t) /\ Climbed(u)
  BY DEF WebInv, Sound
<1>2. CASE server[t].defect # "issuer"
  BY <1>1, <1>2 DEF Climbed
<1>3. CASE server[t].defect = "issuer"
  <2>1. ASSUME NEW x \in Targets, NEW y \in Targets, Climbed(x), Climbed(y), Completed(x), Stopped(y),
               server[x].issuers = server[y].issuers, server[x].trustedAt = server[y].trustedAt
        PROVE  FALSE
    <3>1. /\ res[x].depth \in Nat /\ res[y].depth \in Nat /\ maxAIADepth \in Nat
          /\ Len(server[x].issuers) \in Nat /\ server[x].trustedAt \in Nat
      BY <1>1, ResType, ServerType, WebAssumption
    <3>2. server[x].trustedAt = res[x].depth + 1 /\ aia[server[x].issuers[res[x].depth + 1]] = "cert"
          /\ res[x].depth < maxAIADepth /\ res[x].depth < Len(server[x].issuers)
      BY <2>1 DEF Completed, MayClimb, NextIssuer
    <3>3. res[y].depth <= res[x].depth
      <4>1. \A i \in 1..res[y].depth : server[y].trustedAt # i
        BY <2>1 DEF Climbed
      <4> QED  BY <2>1, <3>1, <3>2, <4>1
    <3>4. aia[server[y].issuers[res[y].depth + 1]] = "cert"
      <4>1. CASE res[y].depth = res[x].depth
        BY <2>1, <3>2, <4>1
      <4>2. CASE res[y].depth < res[x].depth
        <5>1. res[y].depth + 1 \in 1..res[x].depth
          BY <3>1, <4>2
        <5> QED  BY <2>1, <5>1 DEF Climbed
      <4> QED  BY <3>1, <3>3, <4>1, <4>2
    <3>5. MayClimb(y)
      BY <2>1, <3>1, <3>2, <3>3 DEF MayClimb
    <3> QED  BY <2>1, <3>4, <3>5 DEF Stopped, NextIssuer
  <2>2. /\ \/ res[t].chain = "untrusted_root" /\ Stopped(t)
           \/ res[t].chain = "incomplete_chain" /\ Completed(t)
        /\ \/ res[u].chain = "untrusted_root" /\ Stopped(u)
           \/ res[u].chain = "incomplete_chain" /\ Completed(u)
    BY <1>1, <1>3 DEF Climbed
  <2> QED  BY <1>1, <2>1, <2>2
<1> QED  BY <1>2, <1>3

\* aia.go: addresses that serve one chain get one verdict on it, however their
\* fetches interleave and whichever of them were lost.
THEOREM OneChainOneVerdict == Spec => []SameChainSameVerdict
<1>1. WebInv => SameChainSameVerdict
  BY SameChain DEF SameChainSameVerdict
<1> QED  BY <1>1, WebInvariant, PTL

\* report.go: the findings of a host whose probes are back are true of its
\* servers, for any number of addresses and any deployment.
THEOREM WebFindingsAreSound == Spec => []FindingsSound
<1>1. ASSUME WebInv PROVE FindingsSound
  <2>1. SUFFICES ASSUME NEW h, HostDone(h)
        PROVE  LET T == TargetsOf(h)
                   codes == versionCodes(h)
               IN  /\ "http1_1_absent" \in codes =>
                         /\ \E t \in T : res[t].https = "open" /\ ~ServesH1(t)
                         /\ \A t \in T : ServesH1(t) => http11Verdict(res[t]) = "nil"
                   /\ "http2_absent" \in codes =>
                         /\ \E t \in T : res[t].https = "open" /\ ~ServesH2(t)
                         /\ \A t \in T : ServesH2(t) => res[t].h2 = "nil"
                   /\ "http2_partial" \in codes =>
                         \E t, u \in T : res[t].https = "open" /\ res[u].https = "open"
                                         /\ ServesH2(t) /\ ~ServesH2(u)
                   /\ "http3_absent" \in codes =>
                         /\ \E t \in T : server[t].h3 # "serves" \/ (~server[t].altsvc /\ Unheard(t))
                         /\ \A t \in T : server[t].h3 = "serves" => Unheard(t)
                   /\ "h3_advertised_unreachable" \in codes =>
                         \E t \in T : server[t].altsvc /\ (server[t].h3 # "serves" \/ Unheard(t))
                   /\ "quic_partial" \in codes =>
                         /\ \E t \in T : server[t].h3 = "serves"
                         /\ \E t \in T : server[t].h3 # "serves" \/ Unheard(t)
                   /\ legacyVersions(h) => \E t \in T : ServesOld(t)
                   /\ "incomplete_chain" \in chainProblems(h) => \E t \in T : server[t].trustedAt > 0
                   /\ certMismatch(h) => \E t, u \in T : server[t] # server[u]
                   /\ statusCode(plainStatuses(h)) = "http_server_error" =>
                         \A t \in T : server[t].plain = "5xx" \/ ~Answered80(res[t])
                   /\ statusCode(pageStatuses(h)) = "http_server_error" =>
                         \A t \in T : server[t].page = "5xx" \/ http11Verdict(res[t]) # "yes"
                   /\ \A t \in T : ~ServesH1(t) /\ ~ServesH2(t) =>
                         \/ listenerCode(res[t]) # "none" \/ "handshake_failed" \in chainProblems(h)
                         \/ "http1_1_absent" \in codes \/ \E u \in T : http11Verdict(res[u]) = "yes"
                         \/ res[t].page = "error"
                   /\ (\E t \in T : server[t].p80 # "open" /\ res[t].https = "open") =>
                         port80Partial(h) \/ plainStatuses(h) = {}
    BY DEF FindingsSound
  <2> DEFINE T == TargetsOf(h)
             codes == versionCodes(h)
  <2>2. \A t \in T : /\ t \in Targets /\ t \in ended
                     /\ Port80(t) /\ Quic(t) /\ Dialled(t) /\ Shaken(t) /\ Asked(t) /\ Climbed(t)
                     /\ pc443[t] = "done"
    BY <1>1, <2>1 DEF TargetsOf, HostDone, WebInv, Sound
  <2>3. Types
    BY <1>1 DEF WebInv
  <2>4. "http1_1_absent" \in codes <=> /\ \E t \in tallied(h) : http11Verdict(res[t]) = "no"
                                       /\ ~\E t \in tallied(h) : http11Verdict(res[t]) = "yes"
    BY DEF versionCodes
  <2>5. "http1_1_absent" \in codes =>
            /\ \E t \in T : res[t].https = "open" /\ ~ServesH1(t)
            /\ \A t \in T : ServesH1(t) => http11Verdict(res[t]) = "nil"
    <3>1. \A t \in T : /\ http11Verdict(res[t]) \in Verdict
                       /\ http11Verdict(res[t]) = "yes" => res[t].https = "open"
                       /\ http11Verdict(res[t]) = "no" => ~ServesH1(t)
      <4>1. \A t \in T : http11Verdict(res[t]) \in Verdict
        BY DEF http11Verdict, Verdict
      <4> QED  BY <1>1, <2>2, <4>1, HTTP11Says
    <3> QED  BY <2>4, <3>1 DEF tallied, Verdict
  <2>6. "http2_absent" \in codes =>
            /\ \E t \in T : res[t].https = "open" /\ ~ServesH2(t)
            /\ \A t \in T : ServesH2(t) => res[t].h2 = "nil"
    <3>1. "http2_absent" \in codes <=> /\ \E t \in tallied(h) : res[t].h2 = "no"
                                       /\ ~\E t \in tallied(h) : res[t].h2 = "yes"
      BY DEF versionCodes
    <3>2. \A t \in T : /\ res[t].h2 \in Verdict
                       /\ res[t].h2 = "yes" => res[t].https = "open"
                       /\ res[t].h2 = "no" => ~ServesH2(t)
      BY <2>2, <2>3, ResType DEF Asked
    <3> QED  BY <3>1, <3>2 DEF tallied, Verdict
  <2>7. "http2_partial" \in codes =>
            \E t, u \in T : res[t].https = "open" /\ res[u].https = "open" /\ ServesH2(t) /\ ~ServesH2(u)
    <3>1. "http2_partial" \in codes <=> /\ \E t \in tallied(h) : res[t].h2 = "no"
                                        /\ \E t \in tallied(h) : res[t].h2 = "yes"
      BY DEF versionCodes
    <3> QED  BY <2>2, <3>1 DEF tallied, Asked
  <2>8. "h3_advertised_unreachable" \in codes =>
            \E t \in T : server[t].altsvc /\ (server[t].h3 # "serves" \/ Unheard(t))
    <3>1. "h3_advertised_unreachable" \in codes =>
              \E t \in TargetsOf(h) : h3Advertised(t) = "yes" /\ http3Verdict(t) # "yes"
      BY DEF versionCodes
    <3>2. \A t \in T : http3Verdict(t) # "yes" => server[t].h3 # "serves" \/ Unheard(t)
      BY <2>2 DEF http3Verdict, Quic, Unheard
    <3>3. \A t \in T : h3Advertised(t) = "yes" => server[t].altsvc
      BY DEF h3Advertised
    <3> QED  BY <3>1, <3>2, <3>3
  <2>9. "quic_partial" \in codes =>
            /\ \E t \in T : server[t].h3 = "serves"
            /\ \E t \in T : server[t].h3 # "serves" \/ Unheard(t)
    <3>1. "quic_partial" \in codes => /\ \E t \in TargetsOf(h) : res[t].quic = "supported"
                                      /\ \E t \in TargetsOf(h) : res[t].quic # "supported"
      BY DEF versionCodes
    <3>2. \A t \in T : res[t].quic # "supported" => server[t].h3 # "serves" \/ Unheard(t)
      BY <2>2 DEF Quic, Unheard
    <3> QED  BY <2>2, <3>1, <3>2 DEF Quic
  <2>17. "http3_absent" \in codes =>
             /\ \E t \in T : server[t].h3 # "serves" \/ (~server[t].altsvc /\ Unheard(t))
             /\ \A t \in T : server[t].h3 = "serves" => Unheard(t)
    <3>1. "http3_absent" \in codes <=> /\ \E t \in TargetsOf(h) : http3Verdict(t) = "no"
                                       /\ ~\E t \in TargetsOf(h) : http3Verdict(t) = "yes"
      BY DEF versionCodes
    <3>2. \A t \in T : http3Verdict(t) = "no" => server[t].h3 # "serves" \/ (~server[t].altsvc /\ Unheard(t))
      BY <2>2 DEF http3Verdict, Quic, Unheard, h3Advertised
    <3>3. \A t \in T : server[t].h3 = "serves" => http3Verdict(t) = "yes" \/ Unheard(t)
      BY <2>2 DEF http3Verdict, Quic, Unheard
    <3> QED  BY <3>1, <3>2, <3>3
  <2>10. legacyVersions(h) => \E t \in T : ServesOld(t)
    <3>1. SUFFICES ASSUME NEW t \in T, res[t].old = "yes" PROVE ServesOld(t)
      BY DEF legacyVersions
    <3>2. res[t].cert /\ server[t].old
      BY <2>2, <3>1 DEF Asked
    <3>3. res[t].chain # "nil" /\ server[t].tls
      BY <2>2, <3>1, <3>2 DEF Shaken, Completes
    <3>4. server[t].p443 = "open"
      BY <2>2, <3>1, <3>3 DEF Dialled
    <3> QED  BY <3>2, <3>3, <3>4 DEF ServesOld
  <2>11. "incomplete_chain" \in chainProblems(h) => \E t \in T : server[t].trustedAt > 0
    <3>1. SUFFICES ASSUME NEW t \in T, res[t].chain = "incomplete_chain" PROVE server[t].trustedAt > 0
      BY DEF chainProblems
    <3>2. /\ t \in Targets /\ res[t].depth \in Nat
          /\ server[t].defect \in {"valid", "expired", "hostname_mismatch", "self_signed", "issuer"}
      BY <2>2, <2>3, <3>1, ResType, ServerType
    <3>3. res[t].cert
      BY <2>2, <3>1 DEF Shaken
    <3>4. Completed(t)
      BY <2>2, <3>1, <3>2, <3>3 DEF Climbed
    <3> QED  BY <3>2, <3>4 DEF Completed
  <2>12. certMismatch(h) => \E t, u \in T : server[t] # server[u]
    <3>1. SUFFICES ASSUME NEW t \in T, NEW u \in T, res[t].cert, res[u].cert, res[t].chain # res[u].chain
          PROVE  server[t] # server[u]
      BY DEF certMismatch
    <3> QED  BY <1>1, <2>2, <3>1, SameChain
  <2>13. statusCode(plainStatuses(h)) = "http_server_error" =>
             \A t \in T : server[t].plain = "5xx" \/ ~Answered80(res[t])
    <3>1. SUFFICES ASSUME plainStatuses(h) = {"5xx"}, NEW t \in T, Answered80(res[t])
          PROVE  server[t].plain = "5xx"
      BY DEF statusCode
    <3>2. res[t].plain \in plainStatuses(h)
      BY <3>1 DEF plainStatuses
    <3> QED  BY <2>2, <3>1, <3>2 DEF Port80
  <2>14. statusCode(pageStatuses(h)) = "http_server_error" =>
             \A t \in T : server[t].page = "5xx" \/ http11Verdict(res[t]) # "yes"
    <3>1. SUFFICES ASSUME pageStatuses(h) = {"5xx"}, NEW t \in T, http11Verdict(res[t]) = "yes"
          PROVE  server[t].page = "5xx"
      BY DEF statusCode
    <3>2. res[t].page = server[t].page /\ server[t].page \in {"ok", "denied", "5xx"}
      BY <1>1, <2>2, <2>3, <3>1, HTTP11Says, ServerType
    <3>3. res[t].page \in pageStatuses(h)
      BY <3>1, <3>2 DEF pageStatuses
    <3> QED  BY <3>1, <3>2, <3>3
  <2>15. ASSUME NEW t \in T, ~ServesH1(t), ~ServesH2(t)
         PROVE  \/ listenerCode(res[t]) # "none" \/ "handshake_failed" \in chainProblems(h)
                \/ "http1_1_absent" \in codes \/ \E u \in T : http11Verdict(res[u]) = "yes"
                \/ res[t].page = "error"
    <3>1. CASE res[t].https # "open"
      BY <3>1 DEF listenerCode
    <3>2. CASE res[t].https = "open" /\ res[t].chain = "handshake_failed"
      BY <2>15, <3>2 DEF chainProblems
    <3>3. CASE res[t].https = "open" /\ res[t].chain # "handshake_failed" /\ res[t].page # "error"
      <4>1. res[t].chain # "nil"
        BY <2>2, <2>15, <3>3 DEF Dialled
      <4>2. res[t].cert /\ server[t].tls /\ server[t].p443 = "open" /\ ~res[t].noALPN
        BY <2>2, <2>15, <3>3, <4>1 DEF Shaken, Completes, Dialled
      <4>3. res[t].page = "malformed"
        BY <2>2, <2>15, <3>3, <4>2 DEF Asked, ServesH1
      <4>4. http11Verdict(res[t]) = "no"
        BY <3>3, <4>1, <4>2, <4>3 DEF http11Verdict
      <4>5. t \in tallied(h)
        BY <2>15, <3>3 DEF tallied
      <4> QED  BY <2>4, <4>4, <4>5 DEF tallied
    <3> QED  BY <3>1, <3>2, <3>3
  <2>16. (\E t \in T : server[t].p80 # "open" /\ res[t].https = "open") =>
             port80Partial(h) \/ plainStatuses(h) = {}
    <3>1. SUFFICES ASSUME NEW t \in T, server[t].p80 # "open", res[t].https = "open", plainStatuses(h) # {}
          PROVE  port80Partial(h)
      OBVIOUS
    <3>2. ~Answered80(res[t])
      BY <2>2, <3>1 DEF Port80, Answered80
    <3>3. \E u \in T : Answered80(res[u])
      BY <3>1 DEF plainStatuses
    <3> QED  BY <3>1, <3>2, <3>3 DEF port80Partial
  <2> HIDE DEF T, codes
  <2> QED  BY <2>5, <2>6, <2>7, <2>8, <2>9, <2>10, <2>11, <2>12, <2>13, <2>14, <2>15, <2>16, <2>17 DEF T, codes
<1> QED  BY <1>1, WebInvariant, PTL
=============================================================================
