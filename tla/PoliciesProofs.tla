-------------------------- MODULE PoliciesProofs --------------------------
(***************************************************************************)
(* Proofs about the policies of a zone, for any zone, any selectors and    *)
(* any number of MTA-STS addresses, whatever lookups were lost.  What the  *)
(* assessment reads off the lookups needs no induction; two things do: how *)
(* far checkMTASTS is and what its result says by then (Progress), and the *)
(* books of dialFirst (Books): every address is still being dialled, has a *)
(* result in the channel or has been received, and the open connections    *)
(* are the one that is kept and those whose result has not been received.  *)
(***************************************************************************)
EXTENDS Policies, TLAPS, FiniteSetTheorems

-----------------------------------------------------------------------------
(* The inductive invariant *)

Results == [addr : Addresses, ok : BOOLEAN]

\* What the MTASTS result says, by where checkMTASTS is.
Progress ==
    /\ pc = "record" => mtaSTS = NoPolicy
    /\ pc # "record" => (mtaSTS.record <=> Answered("mtaSTS") /\ zone.mtaSTS)
    /\ pc \notin {"record", "done"} => mtaSTS.error = "none" /\ ~mtaSTS.ok
    /\ mtaSTS.ok => /\ mtaSTS.error = "none" /\ mtaSTS.mode = zone.mode
                    /\ mtaSTS.covered <=> mtaSTSCovers
    /\ mtaSTS.error \in {"no_address", "reserved"} => Public = {}
    /\ mtaSTS.error = "no_address" => \A f \in zone.stsReserved : ~Answered(f)

\* The connections whose result is still in the channel.
Sent == {results[i].addr : i \in {j \in 1..Len(results) : results[j].ok}}

Books ==
    /\ got + Len(results) + Cardinality(dialling) = Cardinality(Public)
    /\ dialling \subseteq Public /\ won \intersect dialling = {}
    /\ \A i \in 1..Len(results) : results[i].addr \notin dialling \union won
    /\ \A i, j \in 1..Len(results) : results[i].addr = results[j].addr => i = j
    /\ open = won \union Sent

Quiet == dialling = {} /\ results = <<>>

PolicyInv ==
    /\ TypeOK /\ results \in Seq(Results) /\ Progress
    /\ pc \in {"record", "resolve"} => Quiet /\ open = {} /\ got = 0 /\ won = {}
    /\ pc = "dial" => Books
    /\ pc = "policy" => Quiet /\ open = won
    /\ pc = "done" => Quiet /\ open = {}

\* What the assumptions say of the zone.
LEMMA ZoneFacts ==
    ASSUME zone \in Zones
    PROVE  /\ zone \in ZoneKinds /\ IsFiniteSet(Addresses) /\ Cardinality(Addresses) \in Nat
           /\ zone.stsPublic \in [Families -> SUBSET Addresses]
           /\ zone.mtaSTS \in BOOLEAN /\ zone.covers \in BOOLEAN /\ zone.mode \in Modes
<1>1. zone \in ZoneKinds /\ IsFiniteSet(Addresses)
  BY PolicyAssumption
<1>2. /\ zone.stsPublic \in [Families -> SUBSET Addresses]
      /\ zone.mtaSTS \in BOOLEAN /\ zone.covers \in BOOLEAN /\ zone.mode \in Modes
  BY <1>1 DEF ZoneKinds
<1> QED  BY <1>1, <1>2, FS_CardinalityType

\* The addresses to dial are finitely many.
LEMMA PublicFacts ==
    ASSUME zone \in Zones
    PROVE  /\ Public \subseteq Addresses /\ IsFiniteSet(Public)
           /\ Cardinality(Public) \in Nat
           /\ Cardinality(Public) \in 0..Cardinality(Addresses)
<1>1. Public \subseteq Addresses
  BY ZoneFacts DEF Public
<1>2. IsFiniteSet(Public) /\ Cardinality(Public) <= Cardinality(Addresses)
  BY <1>1, ZoneFacts, FS_Subset
<1>3. Cardinality(Public) \in Nat
  BY <1>2, FS_CardinalityType
<1> QED  BY <1>1, <1>2, <1>3, ZoneFacts

\* They depend on the zone and its answers only.
LEMMA PublicSame == ASSUME zone' = zone, lost' = lost PROVE Public' = Public
  BY DEF Public, Answered

\* It holds before the record is read.
LEMMA PolicyInit == Init => PolicyInv
<1> SUFFICES ASSUME Init PROVE PolicyInv
  OBVIOUS
<1>1. Cardinality(Addresses) \in Nat
  BY ZoneFacts DEF Init
<1>2. TypeOK
  BY <1>1 DEF Init, TypeOK, NoPolicy, Modes
<1>3. results \in Seq(Results)
  BY DEF Init
<1>4. Progress
  BY DEF Init, Progress, NoPolicy
<1> QED  BY <1>2, <1>3, <1>4 DEF Init, PolicyInv, Quiet

\* Reading the record keeps the invariant.
LEMMA ReadRecordInv == PolicyInv /\ ReadRecord => PolicyInv'
<1> SUFFICES ASSUME PolicyInv, ReadRecord PROVE PolicyInv'
  OBVIOUS
<1>0. zone.mtaSTS \in BOOLEAN
  BY ZoneFacts DEF PolicyInv, TypeOK
<1>1. TypeOK'
  BY <1>0 DEF PolicyInv, TypeOK, ReadRecord, Answered
<1>2. Progress'
  BY <1>0 DEF PolicyInv, Progress, ReadRecord, Answered, NoPolicy, TypeOK, mtaSTSCovers
<1> QED  BY <1>1, <1>2 DEF PolicyInv, ReadRecord, Quiet

\* So does resolving the host.
LEMMA ResolveHostInv == PolicyInv /\ ResolveHost => PolicyInv'
<1> SUFFICES ASSUME PolicyInv, ResolveHost PROVE PolicyInv'
  OBVIOUS
<1>0. /\ zone \in Zones /\ Public \subseteq Addresses /\ Cardinality(Public) \in Nat
      /\ Public' = Public
  BY PublicFacts, PublicSame DEF PolicyInv, TypeOK, ResolveHost
<1>1. TypeOK'
  BY <1>0 DEF PolicyInv, TypeOK, ResolveHost, Answered, Fail
<1>2. Progress'
  BY <1>0 DEF PolicyInv, Progress, ResolveHost, Answered, TypeOK, mtaSTSCovers, Fail
<1>3. ASSUME pc' = "dial" PROVE Books'
  <2>1. /\ dialling' = Public
        /\ UNCHANGED <<results, open, got, won>>
        /\ results = <<>> /\ open = {} /\ got = 0 /\ won = {}
    BY <1>3 DEF PolicyInv, ResolveHost, Fail, Quiet
  <2>2. Len(results) = 0
    BY <2>1
  <2>3. Sent' = {}
    BY <2>1, <2>2 DEF Sent
  <2> QED  BY <1>0, <2>1, <2>2, <2>3 DEF Books
<1> QED  BY <1>1, <1>2, <1>3 DEF PolicyInv, ResolveHost, Fail, Quiet

\* dialFirst: a dial's end keeps the invariant.
LEMMA DialEndsInv == ASSUME PolicyInv, NEW a \in Addresses, DialEnds(a) PROVE PolicyInv'
<1>0. /\ zone \in Zones /\ IsFiniteSet(Public) /\ Cardinality(Public) \in Nat
      /\ results \in Seq(Results) /\ Books /\ pc = "dial" /\ a \in dialling /\ got \in Nat
      /\ Public' = Public
  BY PublicFacts, PublicSame DEF PolicyInv, TypeOK, DialEnds
<1>1. PICK ok \in BOOLEAN : /\ results' = Append(results, [addr |-> a, ok |-> ok])
                            /\ open' = IF ok THEN open \union {a} ELSE open
  BY DEF DialEnds
<1>2. /\ dialling' = dialling \ {a} /\ UNCHANGED <<zone, lost, pc, got, won, mtaSTS>>
  BY DEF DialEnds
<1>3. [addr |-> a, ok |-> ok] \in Results
  BY DEF Results
<1>4. /\ results' \in Seq(Results) /\ Len(results') = Len(results) + 1 /\ Len(results) \in Nat
      /\ results'[Len(results) + 1] = [addr |-> a, ok |-> ok]
      /\ \A i \in 1..Len(results) : results'[i] = results[i]
  BY <1>0, <1>1, <1>3
<1>5. TypeOK'
  BY <1>1, <1>2 DEF PolicyInv, TypeOK
<1>6. Progress'
  BY <1>0, <1>2 DEF PolicyInv, Progress, mtaSTSCovers, Answered
<1>7. Books'
  <2>1. IsFiniteSet(dialling) /\ Cardinality(dialling) \in Nat
    BY <1>0, FS_Subset, FS_CardinalityType DEF Books
  <2>2. Cardinality(dialling') = Cardinality(dialling) - 1
    BY <1>0, <1>2, <2>1, FS_RemoveElement
  <2>3. got' + Len(results') + Cardinality(dialling') = Cardinality(Public')
    BY <1>0, <1>2, <1>4, <2>1, <2>2 DEF Books
  <2>4. dialling' \subseteq Public' /\ won' \intersect dialling' = {}
    BY <1>0, <1>2 DEF Books
  <2>5. \A i \in 1..Len(results') : i \in 1..Len(results) \/ i = Len(results) + 1
    BY <1>4
  <2>6. \A i \in 1..Len(results') : results'[i].addr \notin dialling' \union won'
    BY <1>0, <1>2, <1>4, <2>5 DEF Books
  <2>7. \A i, j \in 1..Len(results') : results'[i].addr = results'[j].addr => i = j
    BY <1>0, <1>4, <2>5 DEF Books
  <2>8. Sent' = IF ok THEN Sent \union {a} ELSE Sent
    BY <1>4, <2>5 DEF Sent
  <2>9. open' = won' \union Sent'
    BY <1>0, <1>1, <1>2, <2>8 DEF Books
  <2> QED  BY <2>3, <2>4, <2>6, <2>7, <2>9 DEF Books
<1> QED  BY <1>0, <1>2, <1>4, <1>5, <1>6, <1>7 DEF PolicyInv

\* dialFirst: taking one result keeps the invariant, the books of the open
\* connections included.
LEMMA CollectInv == PolicyInv /\ Collect => PolicyInv'
<1> SUFFICES ASSUME PolicyInv, Collect PROVE PolicyInv'
  OBVIOUS
<1> DEFINE r == Head(results)
<1>0. /\ zone \in Zones /\ IsFiniteSet(Public) /\ Cardinality(Public) \in Nat
      /\ Cardinality(Public) \in 0..Cardinality(Addresses) /\ Cardinality(Addresses) \in Nat
      /\ results \in Seq(Results) /\ results # <<>> /\ Books /\ pc = "dial" /\ got \in Nat
      /\ Public' = Public
  BY ZoneFacts, PublicFacts, PublicSame DEF PolicyInv, TypeOK, Collect
<1>1. /\ got' = got + 1 /\ results' = Tail(results) /\ UNCHANGED <<zone, lost, pc, dialling, mtaSTS>>
      /\ won' = IF r.ok /\ won = {} THEN {r.addr} ELSE won
      /\ open' = IF r.ok /\ won # {} THEN open \ {r.addr} ELSE open
  BY DEF Collect
<1>2. /\ Len(results) \in Nat \ {0} /\ results[1] = r /\ r \in Results
      /\ results' \in Seq(Results) /\ Len(results') = Len(results) - 1
      /\ \A i \in 1..Len(results') : results'[i] = results[i + 1]
  BY <1>0, <1>1
<1>3. r.addr \in Addresses /\ r.ok \in BOOLEAN
  BY <1>2 DEF Results
<1> HIDE DEF r
<1>4. IsFiniteSet(dialling) /\ Cardinality(dialling) \in Nat
  BY <1>0, FS_Subset, FS_CardinalityType DEF Books
<1>5. TypeOK'
  <2>1. got' \in 0..Cardinality(Addresses)
    BY <1>0, <1>1, <1>2, <1>4 DEF Books
  <2>2. won' \subseteq Addresses /\ open' \subseteq Addresses
    BY <1>1, <1>3 DEF PolicyInv, TypeOK
  <2> QED  BY <1>1, <2>1, <2>2 DEF PolicyInv, TypeOK
<1>6. Progress'
  BY <1>0, <1>1 DEF PolicyInv, Progress, mtaSTSCovers, Answered
<1>7. Books'
  <2>1. got' + Len(results') + Cardinality(dialling') = Cardinality(Public')
    BY <1>0, <1>1, <1>2, <1>4 DEF Books
  <2>2. /\ r.addr \notin dialling \union won
        /\ \A i \in 1..Len(results') : i + 1 \in 1..Len(results) /\ results'[i].addr # r.addr
    BY <1>0, <1>2 DEF Books
  <2>3. dialling' \subseteq Public' /\ won' \intersect dialling' = {}
    BY <1>0, <1>1, <2>2 DEF Books
  <2>4. \A i \in 1..Len(results') : results'[i].addr \notin dialling' \union won'
    BY <1>0, <1>1, <1>2, <2>2 DEF Books
  <2>5. ASSUME NEW i \in 1..Len(results'), NEW j \in 1..Len(results'),
               results'[i].addr = results'[j].addr
        PROVE  i = j
    <3>1. i + 1 = j + 1
      BY <1>0, <1>2, <2>2, <2>5 DEF Books
    <3> QED  BY <3>1
  <2>6. Sent' = Sent \ {r.addr} /\ (r.addr \in Sent <=> r.ok)
    <3>1. \A i \in 1..Len(results) : i = 1 \/ (i - 1 \in 1..Len(results') /\ (i - 1) + 1 = i)
      BY <1>2
    <3>2. ASSUME NEW x \in Sent' PROVE x \in Sent /\ x # r.addr
      <4>1. PICK i \in 1..Len(results') : results'[i].ok /\ x = results'[i].addr
        BY <3>2 DEF Sent
      <4> QED  BY <1>2, <2>2, <4>1 DEF Sent
    <3>3. ASSUME NEW x \in Sent, x # r.addr PROVE x \in Sent'
      <4>1. PICK i \in 1..Len(results) : results[i].ok /\ x = results[i].addr
        BY <3>3 DEF Sent
      <4>2. i - 1 \in 1..Len(results') /\ results'[i - 1] = results[i]
        BY <1>2, <3>1, <3>3, <4>1
      <4> QED  BY <4>1, <4>2 DEF Sent
    <3>4. r.addr \in Sent <=> r.ok
      BY <1>0, <1>2 DEF Sent, Books
    <3> QED  BY <3>2, <3>3, <3>4
  <2>7. open' = won' \union Sent'
    BY <1>0, <1>1, <2>2, <2>6 DEF Books
  <2> QED  BY <2>1, <2>3, <2>4, <2>5, <2>7 DEF Books
<1> QED  BY <1>0, <1>1, <1>2, <1>5, <1>6, <1>7 DEF PolicyInv

\* Once every result is in, no goroutine and no result is left.
LEMMA AllReceived ==
    ASSUME TypeOK, results \in Seq(Results), Books, got = Cardinality(Public)
    PROVE  Quiet /\ open = won
<1>1. IsFiniteSet(Public) /\ Cardinality(Public) \in Nat
  BY PublicFacts DEF TypeOK
<1>2. IsFiniteSet(dialling) /\ Cardinality(dialling) \in Nat
  BY <1>1, FS_Subset, FS_CardinalityType DEF Books
<1>3. Len(results) = 0 /\ Cardinality(dialling) = 0
  BY <1>1, <1>2 DEF Books
<1>4. results = <<>> /\ dialling = {}
  BY <1>2, <1>3, FS_EmptySet
<1>5. Sent = {}
  BY <1>3 DEF Sent
<1> QED  BY <1>4, <1>5 DEF Quiet, Books

\* So does returning the connection.
LEMMA DialReturnsInv == PolicyInv /\ DialReturns => PolicyInv'
<1> SUFFICES ASSUME PolicyInv, DialReturns PROVE PolicyInv'
  OBVIOUS
<1>1. Quiet /\ open = won
  BY AllReceived DEF PolicyInv, DialReturns
<1>2. TypeOK'
  BY DEF PolicyInv, TypeOK, DialReturns, Fail
<1>3. Progress'
  BY DEF PolicyInv, Progress, DialReturns, Fail, TypeOK, mtaSTSCovers, Answered
<1> QED  BY <1>1, <1>2, <1>3 DEF PolicyInv, DialReturns, Fail, Quiet

\* So does reading the policy.
LEMMA ReadPolicyInv == PolicyInv /\ ReadPolicy => PolicyInv'
<1> SUFFICES ASSUME PolicyInv, ReadPolicy PROVE PolicyInv'
  OBVIOUS
<1>0. zone.covers \in BOOLEAN /\ zone.mode \in Modes
  BY ZoneFacts DEF PolicyInv, TypeOK
<1>1. TypeOK'
  BY <1>0 DEF PolicyInv, TypeOK, ReadPolicy, Fail, mtaSTSCovers
<1>2. Progress'
  BY <1>0 DEF PolicyInv, Progress, ReadPolicy, Fail, TypeOK, mtaSTSCovers, Answered
<1> QED  BY <1>1, <1>2 DEF PolicyInv, ReadPolicy, Fail, Quiet

\* Every step keeps it.
LEMMA PolicyStep == PolicyInv /\ [Next]_vars => PolicyInv'
<1> SUFFICES ASSUME PolicyInv, [Next]_vars PROVE PolicyInv'
  OBVIOUS
<1>1. CASE UNCHANGED vars
  BY <1>1 DEF PolicyInv, TypeOK, Progress, Books, Sent, Quiet, vars, mtaSTSCovers, Answered, Public
<1> QED
  BY <1>1, ReadRecordInv, ResolveHostInv, DialEndsInv, CollectInv, DialReturnsInv, ReadPolicyInv
     DEF Next, Finished

\* So it holds throughout.
LEMMA PolicyInvariant == Spec => []PolicyInv
  BY PolicyInit, PolicyStep, PTL DEF Spec

-----------------------------------------------------------------------------
(* What the report may rely on *)

\* Every variable keeps its type.
THEOREM PolicyTypeCorrect == Spec => []TypeOK
<1>1. PolicyInv => TypeOK
  BY DEF PolicyInv
<1> QED  BY <1>1, PolicyInvariant, PTL

\* mail.go, dialFirst: however the dials and their results interleave, every
\* connection but the one that is kept is closed when it returns, that one once
\* the file is read, and a dial that succeeded is never reported as a failure.
THEOREM DialFirstKeepsOneConnection == Spec => []OneConnection
<1>1. PolicyInv => OneConnection
  <2> SUFFICES ASSUME PolicyInv PROVE OneConnection
    OBVIOUS
  <2>1. pc \in {"record", "resolve", "dial", "policy", "done"}
    BY DEF PolicyInv, TypeOK
  <2>2. CASE pc = "dial"
    BY <2>2, AllReceived DEF PolicyInv, OneConnection
  <2>3. CASE pc # "dial"
    BY <2>1, <2>3 DEF PolicyInv, OneConnection, Quiet
  <2> QED  BY <2>2, <2>3
<1> QED  BY <1>1, PolicyInvariant, PTL

\* A zone's own records, as its lookups show them.
LEMMA ZoneTypes ==
    ASSUME zone \in Zones
    PROVE  /\ zone.dmarc \in Seq(DMARCRecords) /\ zone.mx \subseteq Targets
           /\ zone.dkim \in [Selectors -> DKIMStates] /\ zone.dkimWildcard \in BOOLEAN
           /\ zone.stsReserved \subseteq Families /\ zone.cert \in Certs
<1>1. zone \in ZoneKinds
  BY ZoneFacts
<1> QED  BY <1>1 DEF ZoneKinds

\* Only the tested name and www below it are judged.
LEMMA HostsFact == Hosts \subseteq {"apex", "www"}
  BY DEF Hosts

\* caaVerdict decides only from records it knows and a leaf it saw, and then as
\* RFC 8659 does.
LEMMA CAAVerdictRight ==
    ASSUME NEW effective, NEW known \in BOOLEAN, NEW cert \in Certs,
           caaVerdict(effective, known, cert) # "nil"
    PROVE  /\ known /\ cert.served
           /\ caaVerdict(effective, known, cert) = "yes" <=>
                 ~criticalUnknownTag(effective) /\ caaPermits(effective, cert.wildcard)
<1>1. known /\ cert.served /\ cert.served \in BOOLEAN /\ cert.known \in BOOLEAN
  BY DEF caaVerdict, Certs
<1>2. CASE effective = {}
  BY <1>1, <1>2 DEF caaVerdict, criticalUnknownTag, caaPermits
<1>3. CASE effective # {}
  BY <1>1, <1>3 DEF caaVerdict
<1> QED  BY <1>1, <1>2, <1>3

\* What the verdict on a host is drawn from: once it is drawn, the records that
\* govern the host, as far up as the tested name.
LEMMA CAASource ==
    ASSUME zone \in Zones, NEW h \in Hosts, NEW effective, NEW known \in BOOLEAN,
           known <=> Answered(caaQuestion(h)) /\ (zone.caa[h] = {} => Answered("caaApex")),
           effective = IF zone.caa[h] # {} THEN zone.caa[h] ELSE zone.caa["apex"]
    PROVE  /\ assessCAA(h) = "nil" \/ known
           /\ known => assessCAA(h) = caaVerdict(effective, TRUE, zone.cert)
<1> DEFINE apex == caaLookup("apex")
           www  == caaLookup("www")
<1>1. /\ apex.answered <=> Answered("caaApex")
      /\ apex.records = IF Answered("caaApex") THEN zone.caa["apex"] ELSE {}
      /\ www.answered <=> Answered("caaWWW")
      /\ www.records = IF Answered("caaWWW") THEN zone.caa["www"] ELSE {}
      /\ apex.answered \in BOOLEAN /\ www.answered \in BOOLEAN
  BY DEF caaLookup, caaQuestion, Lookup, Answered
<1> HIDE DEF apex, www
<1>2. CASE h = "apex"
  <2>1. assessCAA(h) = caaVerdict(apex.records, apex.answered, zone.cert)
    BY <1>2 DEF assessCAA, apexVerdict, apex
  <2>2. caaQuestion(h) = "caaApex"
    BY <1>2 DEF caaQuestion
  <2>3. known <=> apex.answered
    BY <1>1, <2>2
  <2>4. CASE ~known
    BY <2>1, <2>3, <2>4 DEF caaVerdict
  <2>5. CASE known
    <3>1. apex.records = effective /\ apex.answered = TRUE
      BY <1>1, <1>2, <2>3, <2>5
    <3> QED  BY <2>1, <2>5, <3>1
  <2> QED  BY <2>4, <2>5
<1>3. CASE h = "www"
  <2> DEFINE climb == www.records = {} /\ www.answered
             eff   == IF climb THEN apex.records ELSE www.records
             kno   == IF climb THEN apex.answered ELSE www.records # {}
  <2>1. assessCAA(h) = caaVerdict(eff, kno, zone.cert)
    BY <1>3 DEF assessCAA, wwwVerdict, apex, www
  <2>2. caaQuestion(h) = "caaWWW"
    BY <1>3 DEF caaQuestion
  <2>3. kno \in BOOLEAN /\ (kno <=> known)
    BY <1>1, <1>3, <2>2
  <2>4. known => eff = effective
    BY <1>1, <1>3, <2>2
  <2> HIDE DEF eff, kno
  <2>5. CASE ~known
    BY <2>1, <2>3, <2>5 DEF caaVerdict
  <2>6. CASE known
    <3>1. kno = TRUE /\ eff = effective
      BY <2>3, <2>4, <2>6
    <3> QED  BY <2>1, <2>6, <3>1
  <2> QED  BY <2>5, <2>6
<1> QED  BY <1>2, <1>3, HostsFact

\* The CAA verdict on a host is that of the records that govern it, when those
\* are not above the tested name.
LEMMA CAARight ==
    ASSUME zone \in Zones, NEW h \in Hosts
    PROVE  /\ assessCAA(h) # "nil" /\ ~GovernedFromAbove(h) =>
                 (assessCAA(h) = "yes" <=> GoverningPermits(h))
           /\ ~Answered(caaQuestion(h)) => assessCAA(h) = "nil"
           /\ /\ Answered(caaQuestion(h)) /\ (zone.caa[h] = {} => Answered("caaApex"))
              /\ zone.cert.served /\ zone.cert.known
              /\ ~GoverningPermits(h) /\ ~GovernedFromAbove(h)
              => h \in caaDenied
<1> DEFINE known     == Answered(caaQuestion(h)) /\ (zone.caa[h] = {} => Answered("caaApex"))
           effective == IF zone.caa[h] # {} THEN zone.caa[h] ELSE zone.caa["apex"]
<1>0. zone.cert \in Certs
  BY ZoneTypes
<1>1. known \in BOOLEAN /\ (Answered(caaQuestion(h)) \/ ~known)
  BY DEF Answered
<1>2. ~GovernedFromAbove(h) => effective = GoverningCAA(h)
  BY DEF GovernedFromAbove, GoverningCAA
<1>3. /\ assessCAA(h) = "nil" \/ known
      /\ known => assessCAA(h) = caaVerdict(effective, TRUE, zone.cert)
  BY <1>1, CAASource
<1> HIDE DEF effective
<1>4. ASSUME assessCAA(h) # "nil", ~GovernedFromAbove(h)
      PROVE  assessCAA(h) = "yes" <=> GoverningPermits(h)
  <2>1. assessCAA(h) = caaVerdict(effective, TRUE, zone.cert)
    BY <1>3, <1>4
  <2> QED  BY <1>0, <1>2, <1>4, <2>1, CAAVerdictRight DEF GoverningPermits
<1>5. ASSUME known, zone.cert.served, zone.cert.known, ~GoverningPermits(h), ~GovernedFromAbove(h)
      PROVE  h \in caaDenied
  <2>1. effective # {}
    BY <1>2, <1>5 DEF GoverningPermits, criticalUnknownTag, caaPermits
  <2>2. criticalUnknownTag(effective) \/ ~caaPermits(effective, zone.cert.wildcard)
    BY <1>2, <1>5 DEF GoverningPermits
  <2>3. assessCAA(h) = "no"
    BY <1>3, <1>5, <2>1, <2>2 DEF caaVerdict
  <2> QED  BY <2>3 DEF caaDenied
<1> QED  BY <1>1, <1>3, <1>4, <1>5

\* No TLSA records, only if no host that was asked publishes any.
LEMMA TLSANoneRight ==
    ASSUME tlsaResult(tlsaLookups, zone.chain) = "none"
    PROVE  \A h \in Hosts : Answered(tlsaQuestion(h)) /\ zone.tlsa[h] = {}
<1>1. DOMAIN tlsaLookups = Hosts
  BY DEF tlsaLookups
<1>2. \A h \in Hosts : tlsaLookups[h].records = {} /\ tlsaLookups[h].answered
  BY <1>1 DEF tlsaResult
<1> QED  BY <1>2 DEF tlsaLookups, Lookup

\* TLSA records that no served chain matches are a mismatch.
LEMMA TLSAMismatchTold ==
    ASSUME \A h \in Hosts : Answered(tlsaQuestion(h)),
           \E h \in Hosts : zone.tlsa[h] # {} /\ zone.chain[h].served,
           \A h \in Hosts : \A rec \in zone.tlsa[h] : ~tlsaMatches(rec, zone.chain[h])
    PROVE  "tlsa_mismatch" \in tlsaFindings(tlsaLookups, zone.chain)
<1>1. DOMAIN tlsaLookups = Hosts /\ \A h \in Hosts : tlsaLookups[h].records = zone.tlsa[h]
  BY DEF tlsaLookups, Lookup
<1>2. PICK g \in Hosts : zone.tlsa[g] # {} /\ zone.chain[g].served
  OBVIOUS
<1>3. \A h \in Hosts : matchTLSA(tlsaLookups[h].records, zone.chain[h]) = "mismatch"
  BY <1>1 DEF matchTLSA
<1>4. "mismatch" \in stampHosts(tlsaLookups, zone.chain)
  BY <1>1, <1>2, <1>3 DEF stampHosts
<1>5. "match" \notin stampHosts(tlsaLookups, zone.chain)
  BY <1>1, <1>3 DEF stampHosts
<1>6. tlsaResult(tlsaLookups, zone.chain) = "mismatch"
  BY <1>1, <1>2, <1>4, <1>5 DEF tlsaResult
<1> QED  BY <1>6 DEF tlsaFindings

\* What checkMX says of a target's absence is so.
LEMMA MXRight ==
    ASSUME zone \in Zones, NEW m \in checkMX
    PROVE  /\ m[2] = "nxdomain" => m[1] = "gone"
           /\ m[2] = "no_address" => m[1] = "empty"
<1>1. zone.mx \subseteq Targets
  BY ZoneTypes
<1>2. CASE m[2] = "null_mixed"
  BY <1>2
<1>3. CASE m[2] # "null_mixed"
  <2>1. PICK t \in zone.mx \ {"null"} : \E p \in checkMXTarget(t) : m = <<t, p>>
    <3>1. m \notin {<<t, "null_mixed">> : t \in {n \in zone.mx : n = "null" /\ zone.mx # {"null"}}}
      BY <1>3
    <3>2. m \in UNION {{<<t, p>> : p \in checkMXTarget(t)} : t \in zone.mx \ {"null"}}
      BY <3>1 DEF checkMX
    <3> QED  BY <3>2
  <2>2. PICK p \in checkMXTarget(t) : m = <<t, p>>
    BY <2>1
  <2>3. t \in Targets \ {"null"}
    BY <1>1
  <2>4. p = "nxdomain" => t = "gone"
    BY <2>2 DEF checkMXTarget
  <2>5. p = "no_address" => t \notin {"literal", "invalid", "gone"} /\ AddrsOf(t) = {}
    BY <2>2 DEF checkMXTarget
  <2>6. p = "no_address" => t = "empty"
    BY <2>3, <2>5 DEF AddrsOf, Targets
  <2> QED  BY <2>2, <2>4, <2>6
<1> QED  BY <1>2, <1>3

\* run.go assessMail, mail.go, caa.go, tlsa.go: absence is only reported once
\* observed, and a CAA verdict is RFC 8659's up to the tested name, for any zone
\* and any lookups that did not complete; an MTA-STS host called without address
\* has none in any family that was answered.
THEOREM AbsenceIsObserved == Spec => []AbsenceObserved
<1>1. PolicyInv => AbsenceObserved
  <2> SUFFICES ASSUME PolicyInv, pc = "done" PROVE AbsenceObserved
    BY DEF AbsenceObserved
  <2>0. zone \in Zones /\ (mtaSTS.record <=> Answered("mtaSTS") /\ zone.mtaSTS)
    BY DEF PolicyInv, TypeOK, Progress
  <2>1. <<"warn", "dmarc_absent">> \in dmarcFindings => zone.dmarc = <<>>
    BY DEF dmarcFindings, parseDMARC, dmarcProblems, Coded
  <2>2. /\ <<"info", "mta_sts_absent">> \in mailAbsenceFindings => ~zone.mtaSTS
        /\ <<"info", "tls_rpt_absent">> \in mailAbsenceFindings => ~zone.tlsRPT
    BY <2>0 DEF mailAbsenceFindings, Coded
  <2>3. \A s \in Selected({"key", "short", "revoked"}) :
           zone.dkim[s] # "none" \/ (zone.dkimWildcard /\ ~Answered("control"))
    BY DEF Selected, SelectorSeen, dkimControl
  <2>4. caaAbsent => zone.caa["apex"] = {}
    BY DEF caaAbsent, caaLookup, Lookup
  <2>5. \A h \in Hosts :
           /\ assessCAA(h) # "nil" /\ ~GovernedFromAbove(h) =>
                 (assessCAA(h) = "yes" <=> GoverningPermits(h))
           /\ ~Answered(caaQuestion(h)) => assessCAA(h) = "nil"
    BY <2>0, CAARight
  <2>6. mtaSTS.error \in {"no_address", "reserved"} =>
           \A f \in Families : zone.stsPublic[f] = {} \/ ~Answered(f)
    BY DEF PolicyInv, Progress, Public
  <2>7. mtaSTS.error = "no_address" => \A f \in Families : f \notin zone.stsReserved \/ ~Answered(f)
    BY DEF PolicyInv, Progress
  <2> QED
    BY <2>0, <2>1, <2>2, <2>3, <2>4, <2>5, <2>6, <2>7, MXRight, TLSANoneRight DEF AbsenceObserved
<1> QED  BY <1>1, PolicyInvariant, PTL

\* What checkMX says of a target is a finding.
LEMMA MXTold ==
    ASSUME Answered("mx"), NEW t \in zone.mx \ {"null"}, NEW p \in checkMXTarget(t)
    PROVE  <<IF p = "unresolved" THEN "warn" ELSE "fail", p>> \in mxFindings
<1>1. <<t, p>> \in checkMX
  BY DEF checkMX
<1> QED  BY <1>1 DEF mxFindings

\* report.go, mailFindings, caaFindings, tlsaFindings: a defect is told whenever
\* the lookups that show it completed; a lost DMARC lookup and a lost lookup of an
\* MX target are told as such.
THEOREM DefectsAreTold == Spec => []DefectsTold
<1>1. PolicyInv => DefectsTold
  <2> SUFFICES ASSUME PolicyInv, pc = "done" PROVE DefectsTold
    BY DEF DefectsTold
  <2>0. zone \in Zones /\ Progress
    BY DEF PolicyInv, TypeOK
  <2>1. ~Answered("dmarc") => zone.broken \/ <<"warn", "dmarc_unknown">> \in dmarcFindings
    BY DEF dmarcFindings, parseDMARC
  <2>2. ASSUME Answered("dmarc"), zone.dmarc # <<>>,
               Len(zone.dmarc) > 1 \/ Head(zone.dmarc).p \notin {"none", "reject"}
        PROVE  \E f \in dmarcFindings : f[1] = "fail"
    <3>1. dmarcFindings = dmarcProblems(zone.dmarc)
      BY <2>2 DEF dmarcFindings, parseDMARC
    <3>2. Head(zone.dmarc) \in DMARCRecords
      BY <2>0, <2>2, ZoneTypes
    <3>3. Head(zone.dmarc).p \in {"reject", "none", "missing", "unknown"}
      BY <3>2 DEF DMARCRecords
    <3>4. \/ <<"fail", "dmarc_multiple">> \in dmarcProblems(zone.dmarc)
          \/ <<"fail", "dmarc_policy_missing">> \in dmarcProblems(zone.dmarc)
          \/ <<"fail", "dmarc_policy_unknown">> \in dmarcProblems(zone.dmarc)
      BY <2>2, <3>3 DEF dmarcProblems, Coded
    <3> QED  BY <3>1, <3>4
  <2>3. ASSUME Answered("mx"), NEW t \in zone.mx \ {"null"}
        PROVE  IF (Answered("mxA") /\ Answered("mxAAAA")) \/ t \in {"literal", "invalid"}
               THEN t \in {"v4", "v6"} \/ \E p \in checkMXTarget(t) : <<"fail", p>> \in mxFindings
               ELSE <<"warn", "unresolved">> \in mxFindings
    <3>1. t \in Targets \ {"null"}
      BY <2>0, <2>3, ZoneTypes
    <3>2. CASE t \in {"literal", "invalid"}
      <4>1. t \in checkMXTarget(t)
        BY <3>2 DEF checkMXTarget
      <4>2. <<"fail", t>> \in mxFindings
        BY <2>3, <3>2, <4>1, MXTold
      <4> QED  BY <3>2, <4>1, <4>2
    <3>3. CASE ~(Answered("mxA") /\ Answered("mxAAAA")) /\ t \notin {"literal", "invalid"}
      <4>1. "unresolved" \in checkMXTarget(t)
        BY <3>3 DEF checkMXTarget
      <4>2. <<"warn", "unresolved">> \in mxFindings
        BY <2>3, <4>1, MXTold
      <4> QED  BY <3>3, <4>2
    <3>4. CASE (Answered("mxA") /\ Answered("mxAAAA")) /\ t \notin {"literal", "invalid", "v4", "v6"}
      <4>1. t \in {"alias", "gone", "empty"}
        BY <3>1, <3>4 DEF Targets
      <4>2. t = "alias" => "cname" \in checkMXTarget(t)
        BY <3>4 DEF checkMXTarget
      <4>3. t = "gone" => "nxdomain" \in checkMXTarget(t)
        BY <3>4 DEF checkMXTarget
      <4>4. t = "empty" => "no_address" \in checkMXTarget(t)
        BY <3>4 DEF checkMXTarget, AddrsOf
      <4>5. PICK p \in checkMXTarget(t) : p # "unresolved"
        BY <4>1, <4>2, <4>3, <4>4
      <4>6. <<"fail", p>> \in mxFindings
        BY <2>3, <4>5, MXTold
      <4> QED  BY <3>4, <4>6
    <3> QED  BY <3>2, <3>3, <3>4
  <2>4. \A h \in Hosts :
           /\ Answered(caaQuestion(h)) /\ (zone.caa[h] = {} => Answered("caaApex"))
           /\ zone.cert.served /\ zone.cert.known
           /\ ~GoverningPermits(h) /\ ~GovernedFromAbove(h)
           => h \in caaDenied
    BY <2>0, CAARight
  <2>7. ASSUME NEW s \in Selectors, Answered(s), zone.dkim[s] = "short",
               ~(zone.dkimWildcard /\ Answered("control"))
        PROVE  <<"fail", "dkim_key_too_short">> \in dkimFindings
    <3>1. s \in Selected({"short"})
      BY <2>7 DEF Selected, SelectorSeen, dkimControl
    <3> QED  BY <3>1 DEF dkimFindings, Coded
  <2>5. mtaSTS.record /\ mtaSTS.error # "none" => \E f \in mtaSTSFindings : f[1] \in {"warn", "fail"}
    BY DEF mtaSTSFindings
  <2>6. ASSUME mtaSTS.record, mtaSTS.ok, zone.mode = "enforce", Answered("mx"), ~zone.covers
        PROVE  \E f \in mtaSTSFindings : f[1] = "fail"
    <3>1. ~mtaSTS.covered /\ mtaSTS.error = "none" /\ mtaSTS.mode = "enforce"
      BY <2>0, <2>6 DEF Progress, mtaSTSCovers
    <3>2. mtaSTSFindings = {<<"fail", "mx_uncovered">>}
      BY <2>6, <3>1 DEF mtaSTSFindings
    <3> QED  BY <3>2
  <2> QED  BY <2>1, <2>2, <2>3, <2>4, <2>5, <2>6, <2>7, TLSAMismatchTold DEF DefectsTold
<1> QED  BY <1>1, PolicyInvariant, PTL
=============================================================================
