----------------------------- MODULE RunProofs -----------------------------
(***************************************************************************)
(* Proofs about a run as a whole: the phases of run() with its goroutines  *)
(* (RunPhases), and what it concludes about the name (ZoneReport, for any  *)
(* record sets and any number of lost answers).  The two share no variable *)
(* and no definition.                                                      *)
(*                                                                         *)
(* RunPhases: the invariant says which goroutines can be running where     *)
(* run() is, and when the web probes can have been cancelled.              *)
(* ZoneReport: the invariant says, stage by stage, what the lookups, the   *)
(* trace, the verdicts and the registry's answer in hand say of the name,  *)
(* and what it means that none of them was lost.                           *)
(***************************************************************************)
EXTENDS RunPhases, ZoneReport, TLAPS, FiniteSetTheorems, SequenceTheorems

-----------------------------------------------------------------------------
(* The phases of run() *)

\* run() is past the probes.
Late == {"joining", "finishing", "deferred", "returned"}

\* Which goroutines can be running where run() is.
RunPhased ==
    /\ main \in {"start", "dns"} => \A c \in {"audit", "mail", "preload"} : state[c] = "off"
    /\ main = "start" => \A c \in Checks : state[c] = "off"
    /\ main \notin {"start", "dns"} =>
           state["wave1"] = "done" /\ state["wave2"] = "done" /\ state["trace"] # "running"
    /\ state["wave2"] # "off" => state["wave1"] = "done"
    /\ main = "classified" => \A c \in {"audit", "mail", "preload"} : state[c] = "off"
    /\ main \in {"auditing", "stopping"} => \A c \in {"mail", "preload"} : state[c] = "off"
    /\ main = "stopping" => state["audit"] = "done"
    /\ main \in Late => \A c \in {"web", "audit", "mail", "preload"} : state[c] # "running"
    /\ main \in Late \ {"joining"} => state["rdap"] # "running"

\* The web probes are cancelled only once their result is no longer wanted.
RunWeb ==
    /\ cancelled => main \in Late \union {"stopping"}
    /\ webResult = "cancelled" => cancelled
    /\ dead => main \in Late \union {"stopping"}
    /\ dead \/ main \notin Late => rep.web = "empty"

\* A check counts as cut only after the deadline, which the report then names.
RunCut ==
    /\ cut # {} => runSpent
    /\ main \in {"deferred", "returned"} /\ cut # {} => rep.deadline

RunInv == RunTypeOK /\ RunPhased /\ RunWeb /\ RunCut /\ rep.web # "cancelled"

\* It holds when run() starts.
LEMMA RunInitInv == RunInit => RunInv
<1> SUFFICES ASSUME RunInit PROVE RunInv
  OBVIOUS
<1> USE DEF RunInit
<1>1. RunTypeOK
  BY DEF RunTypeOK, Checks, Sections
<1>2. RunPhased
  BY DEF RunPhased, Checks, Late
<1>3. RunWeb /\ RunCut /\ rep.web # "cancelled"
  BY DEF RunWeb, RunCut, Late
<1> QED  BY <1>1, <1>2, <1>3 DEF RunInv

\* Every step of run() and of its goroutines keeps it.
LEMMA RunStepInv == RunInv /\ [RunNext]_runVars => RunInv'
<1> SUFFICES ASSUME RunInv, [RunNext]_runVars PROVE RunInv'
  OBVIOUS
<1> USE DEF RunInv, RunTypeOK, RunPhased, RunWeb, RunCut, Checks, Sections, Late,
            cfgVars, zoneVars, webVars
<1>1. CASE Start
  BY <1>1 DEF Start, Run
<1>2. CASE AfterFirst
  BY <1>2 DEF AfterFirst, Run
<1>3. CASE Classify
  BY <1>3 DEF Classify
<1>4. CASE StartAuditFirst
  BY <1>4 DEF StartAuditFirst, Run
<1>5. CASE ZoneUnreachable
  BY <1>5 DEF ZoneUnreachable
<1>6. CASE WebStopped
  BY <1>6 DEF WebStopped
<1>7. CASE StartProbes
  BY <1>7 DEF StartProbes, Run
<1>8. CASE JoinProbes
  BY <1>8 DEF JoinProbes
<1>9. CASE JoinRDAP
  BY <1>9 DEF JoinRDAP
<1>10. CASE FinishRun
  BY <1>10 DEF FinishRun
<1>11. CASE Return
  BY <1>11 DEF Return
<1>12. CASE RecordReserved
  <2>1. /\ rep' \in [web: Sections, reservedAddresses: BOOLEAN, rdap: BOOLEAN,
                     deadline: BOOLEAN, finished: BOOLEAN]
        /\ rep'.web = rep.web /\ rep'.deadline = rep.deadline
    BY <1>12 DEF RecordReserved
  <2> QED  BY <1>12, <2>1 DEF RecordReserved
<1>13. CASE \E c \in Checks : CheckEnds(c)
  BY <1>13 DEF CheckEnds
<1>14. CASE RunExpires
  BY <1>14 DEF RunExpires
<1>15. CASE UNCHANGED runVars
  BY <1>15 DEF runVars
<1> QED
  BY <1>1, <1>2, <1>3, <1>4, <1>5, <1>6, <1>7, <1>8, <1>9, <1>10, <1>11, <1>12, <1>13, <1>14, <1>15
     DEF RunNext, MainStep, Returned

\* So it holds throughout a run.
LEMMA RunInvariant == RunSpec => []RunInv
  BY RunInitInv, RunStepInv, PTL DEF RunSpec

\* RunPhases: every variable keeps its type.
THEOREM RunTypeCorrect == RunSpec => []RunTypeOK
<1>1. RunInv => RunTypeOK
  BY DEF RunInv
<1> QED  BY <1>1, RunInvariant, PTL

\* RunPhases: when finishReport reads the report, on the early return as on the
\* normal one, no goroutine of the run is left that could write to it.
THEOREM RunJoinsItsGoroutines == RunSpec => []JoinedBeforeFinish
<1>1. RunInv => JoinedBeforeFinish
  BY DEF RunInv, JoinedBeforeFinish, Running, RunPhased, Checks, Late, RunTypeOK
<1> QED  BY <1>1, RunInvariant, PTL

\* RunPhases: a report with a check that the deadline cut off says so.
THEOREM RunTellsItsDeadline == RunSpec => []DeadlineTold
<1>1. RunInv => DeadlineTold
  BY DEF RunInv, RunCut, DeadlineTold
<1> QED  BY <1>1, RunInvariant, PTL

\* RunPhases: what a cancelled web probe left is never the web section, and a
\* zone that no server answers for has none.
THEOREM RunKeepsNoCancelledWeb == RunSpec => []NoCancelledWeb
<1>1. RunInv => NoCancelledWeb
  BY DEF RunInv, RunWeb, NoCancelledWeb
<1> QED  BY <1>1, RunInvariant, PTL

-----------------------------------------------------------------------------
(* The trace *)

Blocks == [ns : SUBSET {"n1", "n2", "n3"}, soa : {"none", "own", "other"},
           server : {"root", "parent", "n1", ""}]

\* Where NS answers are, in the second block or in the two last of three,
\* says what compareDelegation makes of them.
LEMMA Compared ==
    ASSUME NEW b
    PROVE  /\ NSBlocks(b) = {} => compareDelegation(b) = classifyNoNS(b)
           /\ NSBlocks(b) = {2} =>
                 compareDelegation(b) = IF \E i \in 3..Len(b) : b[i].soa = "own"
                                        THEN Deleg("child_no_ns", b[2].ns, b[2].server)
                                        ELSE classifySingleBlock(b[2])
           /\ NSBlocks(b) = {2, 3} =>
                 compareDelegation(b) =
                     Deleg(IF b[2].ns = b[3].ns THEN "match" ELSE "mismatch", b[2].ns, b[2].server)
<1>1. NSBlocks(b) = {2} => FirstNS(b) = 2 /\ LastNS(b) = 2
  BY DEF FirstNS, LastNS
<1>2. NSBlocks(b) = {2, 3} => FirstNS(b) = 2 /\ LastNS(b) = 3
  <2> SUFFICES ASSUME NSBlocks(b) = {2, 3} PROVE FirstNS(b) = 2 /\ LastNS(b) = 3
    OBVIOUS
  <2>1. \E i \in {2, 3} : \A j \in {2, 3} : j <= i
    OBVIOUS
  <2>2. \E i \in {2, 3} : \A j \in {2, 3} : i <= j
    OBVIOUS
  <2>3. LastNS(b) \in {2, 3} /\ \A j \in {2, 3} : j <= LastNS(b)
    BY <2>1 DEF LastNS
  <2>4. FirstNS(b) \in {2, 3} /\ \A j \in {2, 3} : FirstNS(b) <= j
    BY <2>2 DEF FirstNS
  <2> QED  BY <2>3, <2>4
<1>3. NSBlocks(b) = {} => compareDelegation(b) = classifyNoNS(b)
  BY DEF compareDelegation
<1>4. ASSUME NSBlocks(b) = {2}
      PROVE  compareDelegation(b) = IF \E i \in 3..Len(b) : b[i].soa = "own"
                                    THEN Deleg("child_no_ns", b[2].ns, b[2].server)
                                    ELSE classifySingleBlock(b[2])
  <2>1. soaOnlyChild(b) <=> \E i \in 3..Len(b) : b[i].soa = "own"
    BY <1>1, <1>4 DEF soaOnlyChild
  <2> QED  BY <1>1, <1>4, <2>1 DEF compareDelegation
<1>5. ASSUME NSBlocks(b) = {2, 3}
      PROVE  compareDelegation(b) =
                 Deleg(IF b[2].ns = b[3].ns THEN "match" ELSE "mismatch", b[2].ns, b[2].server)
  BY <1>2, <1>5 DEF compareDelegation
<1> QED  BY <1>3, <1>4, <1>5

\* A block as it was sent, but perhaps for its sender.
Like(x, y) == x.ns = y.ns /\ x.soa = y.soa /\ (x.server = y.server \/ x.server = "")

\* A trace that is cut short agrees with the whole of it as far as it goes,
\* but for the sender of its last block.
LEMMA CutFacts ==
    ASSUME NEW t \in Seq(Blocks), NEW b \in CutShort(t)
    PROVE  /\ Len(b) \in 0..Len(t)
           /\ b # <<>> <=> Len(b) # 0
           /\ \A i \in 1..Len(b) : Like(b[i], t[i])
<1> DEFINE prefixes == {SubSeq(t, 1, n) : n \in 0..Len(t)}
<1>0. Len(t) \in Nat
  OBVIOUS
<1>1. ASSUME NEW p \in prefixes
      PROVE  /\ p \in Seq(Blocks) /\ Len(p) \in 0..Len(t)
             /\ \A i \in 1..Len(p) : p[i] = t[i]
             /\ p # <<>> <=> Len(p) # 0
  <2>1. PICK n \in 0..Len(t) : p = SubSeq(t, 1, n)
    BY <1>1
  <2>2. p \in Seq(Blocks) /\ Len(p) \in 0..Len(t) /\ \A i \in 1..Len(p) : p[i] = t[i]
    BY <1>0, <2>1
  <2> HIDE DEF prefixes
  <2>3. p # <<>> <=> Len(p) # 0
    BY <2>2, EmptySeq
  <2> QED  BY <2>2, <2>3
<1>2. CASE b \in prefixes
  BY <1>1, <1>2 DEF Like
<1>3. CASE b \notin prefixes
  <2>1. PICK p \in prefixes \ {<<>>} : b = [p EXCEPT ![Len(p)].server = ""]
    BY <1>3 DEF CutShort
  <2>2. p \in Seq(Blocks) /\ Len(p) \in 1..Len(t) /\ \A i \in 1..Len(p) : p[i] = t[i]
    <3>1. p # <<>> /\ p \in prefixes
      BY <2>1
    <3>2. /\ p \in Seq(Blocks) /\ Len(p) \in 0..Len(t)
          /\ \A i \in 1..Len(p) : p[i] = t[i]
          /\ p # <<>> <=> Len(p) # 0
      BY <1>1, <3>1
    <3> HIDE DEF prefixes
    <3> QED  BY <1>0, <3>1, <3>2
  <2> HIDE DEF prefixes
  <2> DEFINE last == [p[Len(p)] EXCEPT !.server = ""]
  <2>3. b = [p EXCEPT ![Len(p)] = last]
    BY <2>1
  <2>4. p[Len(p)] \in Blocks
    BY <2>2
  <2>5. last \in Blocks /\ last.ns = p[Len(p)].ns /\ last.soa = p[Len(p)].soa /\ last.server = ""
    BY <2>4 DEF Blocks
  <2> HIDE DEF last
  <2>6. p \in [1..Len(p) -> Blocks] /\ Len(p) \in Nat
    BY <2>2
  <2>7. b \in [1..Len(p) -> Blocks]
    BY <2>3, <2>5, <2>6
  <2>8. b \in Seq(Blocks) /\ Len(b) = Len(p)
    BY <2>6, <2>7
  <2>9. b[Len(p)] = last /\ \A i \in 1..Len(p) : i # Len(p) => b[i] = t[i]
    <3>1. b[Len(p)] = last /\ \A i \in 1..Len(p) : i # Len(p) => b[i] = p[i]
      <4>1. Len(p) \in 1..Len(p)
        BY <1>0, <2>2
      <4>2. ASSUME NEW n, n \in 1..n, p \in [1..n -> Blocks], b = [p EXCEPT ![n] = last]
            PROVE  b[n] = last /\ \A i \in 1..n : i # n => b[i] = p[i]
        BY ONLY <4>2
      <4> QED  BY <2>3, <2>6, <4>1, <4>2
    <3> QED  BY <2>2, <3>1
  <2>10. b # <<>> <=> Len(b) # 0
    BY <2>8, EmptySeq
  <2>11. \A i \in 1..Len(p) : Like(b[i], t[i])
    BY <2>2, <2>5, <2>9 DEF Like
  <2>12. Len(b) \in 0..Len(t)
    BY <1>0, <2>2, <2>8
  <2> QED  BY <2>8, <2>10, <2>11, <2>12
<1> QED  BY <1>2, <1>3


\* What a name can be.
LEMMA WorldFacts ==
    ASSUME NEW z \in Worlds
    PROVE  /\ z.kind \in {"zone", "host", "alias", "absent", "reserved", "unqueryable"}
           /\ z.signing \in Signings /\ z.servers \in Servers
           /\ z.records \subseteq {"A", "AAAA", "MX", "TXT"}
           /\ z.kind # "zone" => z.servers = "answer"
           /\ z.kind \in {"host", "alias"} => z.signing \in {"unsigned", "secure", "broken"}
           /\ z.kind \in {"absent", "reserved", "unqueryable"} =>
                  z.records = {} /\ z.signing \in {"unsigned", "secure"}
           /\ z.kind \in {"reserved", "unqueryable"} => z.signing = "unsigned"
           /\ Dead(z) => z.signing \in {"unsigned", "secure"}
  BY RecordsAssumption DEF Worlds, Name, Signings, Servers, Dead

\* The delegation of a live zone, as a trace that nothing is lost from tells it.
Straight(servers) ==
    IF servers = "answer" THEN "match"
    ELSE IF servers = "differ" THEN "mismatch"
    ELSE IF servers = "nons" THEN "child_no_ns"
    ELSE "same_servers"

TraceStatuses ==
    {"match", "mismatch", "same_servers", "no_child_answer", "child_no_ns", "not_delegated", "error"}

\* Where it is lost may a trace say less, but never something else.
TraceOf(d, z) ==
    /\ d.status \in TraceStatuses
    /\ z.kind # "zone" => d.parentNS = {} /\ d.status \in {"not_delegated", "error"}
    /\ d.status = "not_delegated" => z.kind \in {"host", "absent"}
    /\ z.servers = "differ" => d.status \in {"mismatch", "no_child_answer", "error"}

\* CutFacts for the traces of one, two and three blocks there are.
LEMMA Cut1 ==
    ASSUME NEW x \in Blocks, NEW b \in CutShort(<<x>>)
    PROVE  /\ Len(b) \in {0, 1} /\ (b # <<>> <=> Len(b) # 0)
           /\ Len(b) \in {1} => Like(b[1], x)
<1> DEFINE t == <<x>>
<1>1. t \in Seq(Blocks) /\ Len(t) = 1 /\ t[1] = x
  OBVIOUS
<1>2. b \in CutShort(t)
  OBVIOUS
<1> HIDE DEF t
<1>3. /\ Len(b) \in 0..1 /\ (b # <<>> <=> Len(b) # 0)
      /\ \A i \in 1..Len(b) : Like(b[i], t[i])
  BY <1>1, <1>2, CutFacts
<1>4. Len(b) \in {1} => Like(b[1], x)
  BY <1>1, <1>3
<1> QED  BY <1>3, <1>4

\* CutFacts, for a trace of two blocks.
LEMMA Cut2 ==
    ASSUME NEW x \in Blocks, NEW y \in Blocks, NEW b \in CutShort(<<x, y>>)
    PROVE  /\ Len(b) \in {0, 1, 2} /\ (b # <<>> <=> Len(b) # 0)
           /\ Len(b) \in {1, 2} => Like(b[1], x)
           /\ Len(b) \in {2} => Like(b[2], y)
<1> DEFINE t == <<x, y>>
<1>1. t \in Seq(Blocks) /\ Len(t) = 2 /\ t[1] = x /\ t[2] = y
  OBVIOUS
<1>2. b \in CutShort(t)
  OBVIOUS
<1> HIDE DEF t
<1>3. /\ Len(b) \in 0..2 /\ (b # <<>> <=> Len(b) # 0)
      /\ \A i \in 1..Len(b) : Like(b[i], t[i])
  BY <1>1, <1>2, CutFacts
<1>4. Len(b) \in {1, 2} => Like(b[1], x)
  BY <1>1, <1>3
<1>5. Len(b) \in {2} => Like(b[2], y)
  BY <1>1, <1>3
<1> QED  BY <1>3, <1>4, <1>5

\* CutFacts, for a trace of three blocks.
LEMMA Cut3 ==
    ASSUME NEW x \in Blocks, NEW y \in Blocks, NEW w \in Blocks, NEW b \in CutShort(<<x, y, w>>)
    PROVE  /\ Len(b) \in {0, 1, 2, 3} /\ (b # <<>> <=> Len(b) # 0)
           /\ Len(b) \in {1, 2, 3} => Like(b[1], x)
           /\ Len(b) \in {2, 3} => Like(b[2], y)
           /\ Len(b) \in {3} => Like(b[3], w)
<1> DEFINE t == <<x, y, w>>
<1>1. t \in Seq(Blocks) /\ Len(t) = 3 /\ t[1] = x /\ t[2] = y /\ t[3] = w
  OBVIOUS
<1>2. b \in CutShort(t)
  OBVIOUS
<1> HIDE DEF t
<1>3. /\ Len(b) \in 0..3 /\ (b # <<>> <=> Len(b) # 0)
      /\ \A i \in 1..Len(b) : Like(b[i], t[i])
  BY <1>1, <1>2, CutFacts
<1>4. Len(b) \in {1, 2, 3} => Like(b[1], x)
  BY <1>1, <1>3
<1>5. Len(b) \in {2, 3} => Like(b[2], y)
  BY <1>1, <1>3
<1>6. Len(b) = 3 => Like(b[3], w)
  <2>1. Len(b) = 3 => 3 \in 1..Len(b)
    OBVIOUS
  <2> QED  BY <1>1, <1>3, <2>1
<1> QED  BY <1>3, <1>4, <1>5, <1>6

\* compareDelegation of a trace whose first block is the root's: nothing after
\* it, a denial, one NS answer, two, or one and a SOA of the child's own.
NoTrace == Deleg("error", {}, "")

Rooted(b) == (b # <<>> <=> Len(b) # 0) /\ (Len(b) # 0 => b[1].ns = {} /\ b[1].soa = "none")

\* A trace that did not leave the root says nothing.
LEMMA OnlyRoot ==
    ASSUME NEW b, Len(b) \in {0, 1}, Rooted(b)
    PROVE  compareDelegation(b) = NoTrace
<1>1. NSBlocks(b) = {}
  BY DEF NSBlocks, Rooted
<1>2. ~(b # <<>> /\ b[Len(b)].soa # "none")
  BY DEF Rooted
<1> QED  BY <1>1, <1>2, Compared DEF classifyNoNS, NoTrace

\* A denial by the parent is "not_delegated", or nothing without its sender.
LEMMA Denial ==
    ASSUME NEW b, Len(b) = 2, b # <<>>, b[1].ns = {}, b[2].ns = {}
    PROVE  compareDelegation(b) = IF b[2].soa # "none" THEN Deleg("not_delegated", {}, b[2].server)
                                  ELSE NoTrace
<1>1. NSBlocks(b) = {}
  BY DEF NSBlocks
<1>2. classifyNoNS(b) = IF b[2].soa # "none" THEN Deleg("not_delegated", {}, b[2].server)
                        ELSE NoTrace
  BY DEF classifyNoNS, NoTrace
<1>3. compareDelegation(b) = classifyNoNS(b)
  BY <1>1, Compared
<1> QED  BY <1>2, <1>3

\* One NS answer, and no SOA of the domain after it.
LEMMA OneAnswer ==
    ASSUME NEW b, Len(b) = 2, b[1].ns = {}, b[2].ns # {}
    PROVE  compareDelegation(b) = classifySingleBlock(b[2])
<1>1. NSBlocks(b) = {2}
  BY DEF NSBlocks
<1>2. ~\E i \in 3..Len(b) : b[i].soa = "own"
  OBVIOUS
<1> QED  BY <1>1, <1>2, Compared

\* Two NS answers are compared.
LEMMA TwoAnswers ==
    ASSUME NEW b, Len(b) = 3, b[1].ns = {}, b[2].ns # {}, b[3].ns # {}
    PROVE  compareDelegation(b) =
               Deleg(IF b[2].ns = b[3].ns THEN "match" ELSE "mismatch", b[2].ns, b[2].server)
<1>1. NSBlocks(b) = {2, 3}
  BY DEF NSBlocks
<1> QED  BY <1>1, Compared

\* An NS answer, and after it the domain's SOA without NS records.
LEMMA OwnSOA ==
    ASSUME NEW b, Len(b) = 3, b[1].ns = {}, b[2].ns # {}, b[3].ns = {}, b[3].soa = "own"
    PROVE  compareDelegation(b) = Deleg("child_no_ns", b[2].ns, b[2].server)
<1>1. NSBlocks(b) = {2}
  BY DEF NSBlocks
<1>2. \E i \in 3..Len(b) : b[i].soa = "own"
  OBVIOUS
<1> QED  BY <1>1, <1>2, Compared

\* runTrace: what is made of any part of the trace of a name is true of the
\* name, and of the whole of it is its delegation.
LEMMA TraceSound ==
    ASSUME NEW z \in Worlds, NEW b \in CutShort(TraceTruth(z)), NEW aa \in BOOLEAN,
           aa => z.servers = "hidden"
    PROVE  /\ TraceOf(traceDelegation(b, aa), z)
           /\ b = TraceTruth(z) /\ (aa <=> z.servers = "hidden") /\ z.kind = "zone" /\ ~Dead(z) =>
                 /\ traceDelegation(b, aa).status = Straight(z.servers)
                 /\ traceDelegation(b, aa).parentNS # {}
<1> DEFINE root == Block({}, "none", "root")
           ref  == Block({"n1", "n2"}, "none", "parent")
           den  == Block({}, "other", "parent")
           own  == Block({}, "own", "n1")
           kid  == Block({"n1", "n2"}, "none", "n1")
           odd  == Block({"n1", "n3"}, "none", "n1")
           c    == compareDelegation(b)
           d    == traceDelegation(b, aa)
<1>1. /\ z.kind \in {"zone", "host", "alias", "absent", "reserved", "unqueryable"}
      /\ z.servers \in Servers /\ (z.kind # "zone" => z.servers = "answer")
  BY WorldFacts
<1>2. /\ root \in Blocks /\ root.ns = {} /\ root.soa = "none"
      /\ ref \in Blocks /\ ref.ns = {"n1", "n2"} /\ ref.server = "parent"
      /\ den \in Blocks /\ den.ns = {} /\ den.soa = "other"
      /\ own \in Blocks /\ own.ns = {} /\ own.soa = "own"
      /\ kid \in Blocks /\ kid.ns = {"n1", "n2"} /\ kid.server = "n1"
      /\ odd \in Blocks /\ odd.ns = {"n1", "n3"} /\ odd.server = "n1"
  BY DEF Block, Blocks
<1>3. \A n, o, v : /\ Deleg(n, o, v).status = n /\ Deleg(n, o, v).parentNS = o
                   /\ Deleg(n, o, v).parentServer = v
  BY DEF Deleg
<1>4. \E x, y, v : c = Deleg(x, y, v)
  BY DEF compareDelegation, classifyNoNS, classifySingleBlock
<1>5. /\ ~aa \/ c.status # "no_child_answer" => d = c
      /\ d.parentNS = c.parentNS
      /\ d.status \in {c.status, "same_servers"}
      /\ aa /\ c.status = "no_child_answer" /\ c.parentServer # "" => d.status = "same_servers"
  BY <1>4 DEF traceDelegation, Deleg
<1>6. /\ z.kind \in {"host", "absent"} => TraceTruth(z) = <<root, den>>
      /\ z.kind \in {"alias", "reserved", "unqueryable"} => TraceTruth(z) = <<root>>
      /\ z.kind = "zone" =>
            /\ z.servers = "answer" => TraceTruth(z) = <<root, ref, kid>>
            /\ z.servers = "differ" => TraceTruth(z) = <<root, ref, odd>>
            /\ z.servers = "same" => TraceTruth(z) = <<root, kid>>
            /\ z.servers = "nons" => TraceTruth(z) = <<root, ref, own>>
            /\ z.servers \in {"hidden", "dead", "hung"} => TraceTruth(z) = <<root, ref>>
  BY DEF TraceTruth
<1>7. \A n \in {"parent", "n1", ""} : n \in {"n1", "n2"} <=> n = "n1"
  OBVIOUS
<1>70. ASSUME NEW x, NEW y, Like(x, y) PROVE x.ns = y.ns /\ x.soa = y.soa
  BY <1>70 DEF Like
<1>74. NoTrace.status = "error" /\ NoTrace.parentNS = {}
  BY DEF NoTrace, Deleg
<1>71. TraceOf(NoTrace, z)
  BY <1>1, <1>74 DEF TraceOf, TraceStatuses
<1>72. ASSUME c = NoTrace PROVE d = c
  <2>1. c.status = "error"
    BY <1>72, <1>74
  <2> QED  BY <1>5, <2>1
<1>73. root.ns = {} /\ root.soa = "none" /\ ref.ns = {"n1", "n2"} /\ den.ns = {}
  BY <1>2
<1> HIDE DEF root, ref, den, own, kid, odd, c, d
<1>8. SUFFICES /\ TraceOf(d, z)
               /\ b = TraceTruth(z) /\ (aa <=> z.servers = "hidden") /\ z.kind = "zone" /\ ~Dead(z) =>
                     d.status = Straight(z.servers) /\ d.parentNS # {}
  BY DEF d
<1>9. CASE z.kind \in {"alias", "reserved", "unqueryable"}
  <2>1. b \in CutShort(<<root>>)
    BY <1>6, <1>9
  <2>2. Len(b) \in {0, 1} /\ (b # <<>> <=> Len(b) # 0) /\ (Len(b) # 0 => Like(b[1], root))
    BY <1>2, <2>1, Cut1
  <2>3. Rooted(b)
    BY <1>70, <1>73, <2>2 DEF Rooted
  <2>4. c = NoTrace
    BY <2>2, <2>3, OnlyRoot DEF c
  <2> QED  BY <1>9, <1>71, <1>72, <2>4
<1>10. CASE z.kind \in {"host", "absent"}
  <2>1. b \in CutShort(<<root, den>>)
    BY <1>6, <1>10
  <2>2. /\ Len(b) \in {0, 1, 2} /\ (b # <<>> <=> Len(b) # 0)
        /\ Len(b) # 0 => Like(b[1], root)
        /\ Len(b) = 2 => Like(b[2], den)
    BY <1>2, <2>1, Cut2
  <2>3. CASE Len(b) \in {0, 1}
    <3>1. Rooted(b)
      BY <1>70, <1>73, <2>2 DEF Rooted
    <3>2. c = NoTrace
      BY <2>2, <2>3, <3>1, OnlyRoot DEF c
    <3> QED  BY <1>10, <1>71, <1>72, <3>2
  <2>4. CASE Len(b) = 2
    <3>1. b[1].ns = {} /\ b[2].ns = {}
      BY <1>70, <1>73, <2>2, <2>4
    <3>2. c = NoTrace \/ c = Deleg("not_delegated", {}, b[2].server)
      <4>1. b # <<>>
        BY <2>2, <2>4
      <4> QED  BY <2>4, <3>1, <4>1, Denial DEF c
    <3>4. c.parentNS = {} /\ c.status \in {"not_delegated", "error"}
      BY <1>3, <1>74, <3>2
    <3>3. d = c
      BY <1>5, <3>4
    <3> QED  BY <1>1, <1>10, <3>3, <3>4 DEF TraceOf, TraceStatuses
  <2> QED  BY <2>2, <2>3, <2>4
<1>11. CASE z.kind = "zone" /\ z.servers \in {"answer", "differ", "nons"}
  <2> DEFINE end == IF z.servers = "answer" THEN kid ELSE IF z.servers = "differ" THEN odd ELSE own
  <2>1. TraceTruth(z) = <<root, ref, end>> /\ end \in Blocks
    BY <1>2, <1>6, <1>11
  <2>2. /\ Len(b) \in {0, 1, 2, 3} /\ (b # <<>> <=> Len(b) # 0)
        /\ Len(b) # 0 => Like(b[1], root)
        /\ Len(b) \in {2, 3} => Like(b[2], ref)
        /\ Len(b) = 3 => Like(b[3], end)
    <3> HIDE DEF end
    <3> QED  BY <1>2, <2>1, Cut3
  <2>3. Len(b) # 3 => b # TraceTruth(z)
    <3> HIDE DEF end
    <3>1. Len(<<root, ref, end>>) = 3
      OBVIOUS
    <3> QED  BY <2>1, <3>1
  <2>4. CASE Len(b) \in {0, 1}
    <3>1. Rooted(b)
      BY <1>70, <1>73, <2>2 DEF Rooted
    <3>2. c = NoTrace
      BY <2>2, <2>4, <3>1, OnlyRoot DEF c
    <3>3. b # TraceTruth(z)
      BY <2>3, <2>4
    <3> QED  BY <1>71, <1>72, <3>2, <3>3
  <2>5. Len(b) \in {2, 3} => b[1].ns = {} /\ b[2].ns = {"n1", "n2"}
    BY <1>70, <1>73, <2>2
  <2>6. CASE Len(b) = 2
    <3>1. c = classifySingleBlock(b[2])
      BY <2>5, <2>6, OneAnswer DEF c
    <3>2. b[2].server = "parent" \/ b[2].server = ""
      BY <1>2, <2>2, <2>6 DEF Like
    <3>3. b[2].server \notin {"n1", "n2"}
      BY <3>2
    <3>4. c.status = "no_child_answer"
      BY <1>3, <2>5, <2>6, <3>1, <3>3 DEF classifySingleBlock
    <3>5. d = c
      BY <1>5, <1>11
    <3> QED  BY <1>11, <2>3, <2>6, <3>4, <3>5 DEF TraceOf, TraceStatuses
  <2>7. CASE Len(b) = 3
    <3>1. ASSUME z.servers = "answer" PROVE c = Deleg("match", {"n1", "n2"}, b[2].server)
      <4>1. b[3].ns = {"n1", "n2"}
        BY <1>2, <2>2, <2>7, <3>1 DEF Like
      <4> QED  BY <2>5, <2>7, <4>1, TwoAnswers DEF c
    <3>2. ASSUME z.servers = "differ" PROVE c = Deleg("mismatch", {"n1", "n2"}, b[2].server)
      <4>1. b[3].ns = {"n1", "n3"}
        BY <1>2, <2>2, <2>7, <3>2 DEF Like
      <4>2. b[2].ns # b[3].ns
        <5>1. "n3" \notin {"n1", "n2"}
          OBVIOUS
        <5> QED  BY <2>5, <2>7, <4>1, <5>1
      <4> QED  BY <2>5, <2>7, <4>1, <4>2, TwoAnswers DEF c
    <3>3. ASSUME z.servers = "nons" PROVE c = Deleg("child_no_ns", {"n1", "n2"}, b[2].server)
      <4>1. b[3].ns = {} /\ b[3].soa = "own"
        BY <1>2, <2>2, <2>7, <3>3 DEF Like
      <4> QED  BY <2>5, <2>7, <4>1, OwnSOA DEF c
    <3>4. c.parentNS = {"n1", "n2"} /\ c.status = Straight(z.servers)
      BY <1>3, <1>11, <3>1, <3>2, <3>3 DEF Straight
    <3>5. d = c
      BY <1>5, <1>11
    <3> QED  BY <1>11, <3>4, <3>5 DEF TraceOf, TraceStatuses, Straight
  <2> QED  BY <2>2, <2>4, <2>6, <2>7
<1>12. CASE z.kind = "zone" /\ z.servers \in {"same", "hidden", "dead", "hung"}
  <2> DEFINE end == IF z.servers = "same" THEN kid ELSE ref
  <2>1. TraceTruth(z) = <<root, end>> /\ end \in Blocks /\ end.ns = {"n1", "n2"}
    BY <1>2, <1>6, <1>12
  <2>2. /\ Len(b) \in {0, 1, 2} /\ (b # <<>> <=> Len(b) # 0)
        /\ Len(b) # 0 => Like(b[1], root)
        /\ Len(b) = 2 => Like(b[2], end)
    <3> HIDE DEF end
    <3> QED  BY <1>2, <2>1, Cut2
  <2>3. CASE Len(b) \in {0, 1}
    <3>1. Rooted(b)
      BY <1>70, <1>73, <2>2 DEF Rooted
    <3>2. c = NoTrace
      BY <2>2, <2>3, <3>1, OnlyRoot DEF c
    <3> HIDE DEF end
    <3>3. Len(<<root, end>>) = 2
      OBVIOUS
    <3>4. b # TraceTruth(z)
      BY <2>1, <2>3, <3>3
    <3> QED  BY <1>71, <1>72, <3>2, <3>4
  <2>4. CASE Len(b) = 2
    <3>0. b[1].ns = {} /\ b[2].ns = {"n1", "n2"}
      <4> HIDE DEF end
      <4> QED  BY <1>70, <1>73, <2>1, <2>2, <2>4
    <3>1. c = classifySingleBlock(b[2])
      BY <2>4, <3>0, OneAnswer DEF c
    <3>2. c.status \in {"same_servers", "no_child_answer"} /\ c.parentNS = {"n1", "n2"}
      BY <1>3, <3>0, <3>1 DEF classifySingleBlock
    <3>3. TraceOf(d, z)
      BY <1>5, <1>12, <3>2 DEF TraceOf, TraceStatuses
    <3>4. ASSUME b = TraceTruth(z), aa <=> z.servers = "hidden", ~Dead(z)
          PROVE  d.status = "same_servers"
      <4>1. z.servers \in {"same", "hidden"}
        BY <1>12, <3>4 DEF Dead
      <4>2. b[2] = end
        BY <2>1, <3>4
      <4>3. CASE z.servers = "same"
        <5>1. b[2].server = "n1"
          BY <1>2, <4>2, <4>3
        <5>2. c.status = "same_servers"
          BY <1>3, <3>0, <3>1, <5>1 DEF classifySingleBlock
        <5> QED  BY <1>5, <5>2
      <4>4. CASE z.servers = "hidden"
        <5>1. b[2].server = "parent"
          BY <1>2, <4>2, <4>4
        <5>2. c.status = "no_child_answer" /\ c.parentServer = "parent"
          BY <1>3, <3>0, <3>1, <5>1 DEF classifySingleBlock
        <5> QED  BY <1>5, <3>4, <4>4, <5>2
      <4> QED  BY <4>1, <4>3, <4>4
    <3>5. z.servers \in {"same", "hidden"} => Straight(z.servers) = "same_servers"
      BY DEF Straight
    <3> QED  BY <1>5, <1>12, <3>2, <3>3, <3>4, <3>5 DEF Dead
  <2> QED  BY <2>2, <2>3, <2>4
<1> QED  BY <1>1, <1>9, <1>10, <1>11, <1>12 DEF Servers

-----------------------------------------------------------------------------
(* The lookups *)

LookupTypes ==
    [status : {"none", "ok", "nxrrset", "nxdomain", "failure", "timeout"}, has : BOOLEAN,
     cname : BOOLEAN, soa : {"none", "own", "above"}, trust : {"", "secure", "insecure"},
     unqueryable : BOOLEAN]

\* No answer can be had: dog cannot ask, no server answers, or the resolver
\* rejects what they answer.
Hidden(z, q, validates) ==
    \/ z.kind = "unqueryable"
    \/ Dead(z) /\ q # "DS"
    \/ validates /\ z.signing \in Bogus /\ (z.kind = "zone" => q # "DS")

\* What an answer says.
Says(l, z, q, validates) ==
    /\ ~Hidden(z, q, validates)
    /\ l.has <=> Has(z, q)
    /\ l.status = IF Has(z, q) THEN "ok" ELSE IF NoSuchName(z, q) THEN "nxdomain" ELSE "nxrrset"
    /\ l.cname <=> z.kind = "alias"
    /\ l.soa = IF Has(z, q) THEN "none" ELSE IF z.kind = "zone" THEN "own" ELSE "above"
    /\ l.trust = IF validates /\ z.signing = "secure" THEN "secure" ELSE "insecure"

\* What no answer says.
Mum(l) == ~l.has /\ ~l.cname /\ l.soa = "none" /\ l.trust = ""

LookSound(l, z, q, validates) ==
    /\ l \in LookupTypes
    /\ Answered(l) => Says(l, z, q, validates)
    /\ ~Answered(l) => Mum(l)
    /\ l.unqueryable => z.kind = "unqueryable"

\* A lost lookup says nothing.
LEMMA LostFacts ==
    ASSUME NEW z, NEW q, NEW v, NEW s \in {"none", "failure", "timeout"}
    PROVE  LookSound(Lost(s), z, q, v) /\ Lost(s).status = s /\ ~Answered(Lost(s))
<1> DEFINE l == Lost(s)
<1>1. /\ l.status = s /\ ~l.has /\ ~l.cname /\ l.soa = "none" /\ l.trust = ""
      /\ ~l.unqueryable /\ l \in LookupTypes
  BY DEF Lost, Lookup, LookupTypes
<1> HIDE DEF l
<1>2. ~Answered(l)
  BY <1>1 DEF Answered
<1> QED  BY <1>1, <1>2 DEF LookSound, Mum, l

\* The resolver's answer is one, unless none can be had.
LEMMA TruthFacts ==
    ASSUME NEW z \in Worlds, NEW q \in Queries, NEW v \in BOOLEAN
    PROVE  /\ LookSound(Truth(z, q, v), z, q, v)
           /\ Truth(z, q, v).status # "none"
           /\ Answered(Truth(z, q, v)) <=> ~Hidden(z, q, v)
           /\ ~Dead(z) => Truth(z, q, v).status # "timeout"
<1> DEFINE l == Truth(z, q, v)
<1>1. z.kind \in {"zone", "host", "alias", "absent", "reserved", "unqueryable"} /\ z.servers \in Servers
  BY WorldFacts
<1>2. Has(z, q) \in BOOLEAN
  BY DEF Has
<1>3. CASE z.kind = "unqueryable"
  <2>1. l = Lookup("failure", FALSE, FALSE, "none", "", TRUE)
    BY <1>3 DEF Truth, Dead
  <2> HIDE DEF l
  <2>2. /\ l.status = "failure" /\ ~l.has /\ ~l.cname /\ l.soa = "none" /\ l.trust = ""
        /\ l \in LookupTypes
    BY <2>1 DEF Lookup, LookupTypes
  <2> HIDE DEF l
  <2> QED  BY <1>3, <2>2 DEF l, LookSound, Answered, Mum, Hidden
<1>4. CASE z.kind # "unqueryable" /\ Hidden(z, q, v)
  <2>1. l = Lost("failure") \/ (l = Lost("timeout") /\ Dead(z))
    BY <1>4 DEF Truth, Dead, Hidden
  <2> HIDE DEF l
  <2>2. LookSound(l, z, q, v) /\ ~Answered(l) /\ (l.status = "failure" \/ (l.status = "timeout" /\ Dead(z)))
    BY <2>1, LostFacts
  <2> QED  BY <1>4, <2>2 DEF l
<1>5. CASE ~Hidden(z, q, v)
  <2> DEFINE status == IF Has(z, q) THEN "ok" ELSE IF NoSuchName(z, q) THEN "nxdomain" ELSE "nxrrset"
             soa    == IF Has(z, q) THEN "none" ELSE IF z.kind = "zone" THEN "own" ELSE "above"
             trust  == IF v /\ z.signing = "secure" THEN "secure" ELSE "insecure"
  <2>1. l = Lookup(status, Has(z, q), z.kind = "alias", soa, trust, FALSE)
    BY <1>5 DEF Truth, Dead, Hidden
  <2>2. status \in {"ok", "nxdomain", "nxrrset"} /\ soa \in {"none", "own", "above"}
        /\ trust \in {"secure", "insecure"}
    OBVIOUS
  <2> HIDE DEF l, status, soa, trust
  <2>3. /\ l.status = status /\ (l.has <=> Has(z, q)) /\ (l.cname <=> z.kind = "alias")
        /\ l.soa = soa /\ l.trust = trust /\ ~l.unqueryable /\ l \in LookupTypes
    BY <1>2, <2>1, <2>2 DEF Lookup, LookupTypes
  <2>4. Answered(l) /\ Says(l, z, q, v)
    BY <1>5, <2>2, <2>3 DEF Answered, Says, status, soa, trust
  <2> QED  BY <1>5, <2>2, <2>3, <2>4 DEF l, LookSound
<1> QED  BY <1>3, <1>4, <1>5

\* There are finitely many lookups to lose.
LEMMA FiniteQuestions ==
    ASSUME NEW S \in SUBSET (Queries \union Families) PROVE IsFiniteSet(S)
<1>1. ApexTypes = {"A", "AAAA", "MX", "TXT", "NS"}
  BY DEF ApexTypes, apexTypes
<1>2. Queries \union Families
        = {"A", "AAAA", "MX", "TXT", "NS", "wwwA", "wwwAAAA", "DS", "DNSKEY", "ipv4", "ipv6"}
  BY <1>1 DEF Queries, Families, wwwTypes
<1>3. \A a, b, c, d : IsFiniteSet({a, b, c, d})
  <2> TAKE a, b, c, d
  <2>1. IsFiniteSet({a} \union {b})
    BY FS_Singleton, FS_Union
  <2>2. IsFiniteSet(({a} \union {b}) \union {c})
    BY <2>1, FS_Singleton, FS_Union
  <2>3. IsFiniteSet((({a} \union {b}) \union {c}) \union {d})
    BY <2>2, FS_Singleton, FS_Union
  <2>4. ((({a} \union {b}) \union {c}) \union {d}) = {a, b, c, d}
    OBVIOUS
  <2> QED  BY <2>3, <2>4
<1>4. IsFiniteSet({"A", "AAAA", "MX", "TXT"} \union {"NS", "wwwA", "wwwAAAA", "DS"})
  BY <1>3, FS_Union
<1>5. IsFiniteSet(({"A", "AAAA", "MX", "TXT"} \union {"NS", "wwwA", "wwwAAAA", "DS"})
                  \union {"DNSKEY", "ipv4", "ipv6", "ipv6"})
  BY <1>3, <1>4, FS_Union
<1>6. IsFiniteSet(Queries \union Families)
  <2>1. Queries \union Families =
            ({"A", "AAAA", "MX", "TXT"} \union {"NS", "wwwA", "wwwAAAA", "DS"})
            \union {"DNSKEY", "ipv4", "ipv6", "ipv6"}
    BY <1>2
  <2> QED  BY <1>5, <2>1
<1> QED  BY <1>6, FS_Subset

-----------------------------------------------------------------------------
(* The inductive invariant, stage by stage *)

Live == zone.kind = "zone" /\ ~Dead(zone)

\* The lookups in hand, and what it means that none was lost.
Heard ==
    /\ reach \in [Families -> {"yes", "no", "skipped"}]
    /\ \A f \in resolver.serves : f \in Families /\ reach[f] # "skipped"
    /\ \A q \in Queries : LookSound(look[q], zone, q, Validates)
    /\ \A q \in Asked(zone) : look[q].status # "none"
    /\ lost = 0 =>
          /\ \A f \in resolver.serves : reach[f] = "yes"
          /\ \A f \in Families : reach[f] # "no"
          /\ \A q \in Asked(zone) : Answered(look[q]) <=> ~Hidden(zone, q, Validates)
          /\ Live => \A q \in Asked(zone) : look[q].status # "timeout"

\* The trace in hand.
Traced ==
    /\ TraceOf(deleg, zone)
    /\ lost = 0 /\ Live => deleg.status = Straight(zone.servers) /\ deleg.parentNS # {}

\* StateSound, of a verdict yet to be kept.
VerdictOK(verdict) ==
    /\ verdict = "secure" => zone.signing = "secure" /\ Validates
    /\ verdict = "insecure" =>
           \/ zone.signing \in {"unsigned", "unsupported", "island"}
           \/ BlindUnseen
           \/ zone.kind # "zone" /\ ~Answered(look["NS"])
    /\ verdict = "bogus" => (zone.kind = "zone" /\ zone.signing \in WithDS) \/ ~Answered(look["DS"])
    /\ verdict = "island" => zone.signing = "island"
    /\ verdict = "nonexistent" => NoSuchName(zone, "A")

Classified ==
    /\ zone.kind = "reserved" => deleg.status = "reserved_name" /\ ~notAZone
    /\ notAZone => /\ deleg.status = "not_a_zone"
                   /\ \/ zone.kind \in {"host", "alias"}
                      \/ zone.kind = "zone" /\ zone.servers = "nons" /\ lost > 0
    /\ zone.kind # "reserved" /\ ~notAZone =>
           Traced /\ (zone.kind \in {"host", "alias"} => ~Answered(look["NS"]))
    /\ VerdictOK(dnssec)
    /\ lost = 0 /\ Live /\ Validates => dnssec = Expected

\* The registry's answer, if it was asked and answered.
Registered(truth, heard) ==
    /\ rdap.truth = {truth}
    /\ heard => rdap.asked
    /\ rdap.asked => zone.kind # "reserved"
    /\ rdap.registered = IF heard THEN IF truth = "none" THEN "no" ELSE "yes" ELSE "nil"
    /\ rdap.status = IF heard THEN {truth} \ {"none", "active"} ELSE {}

RegistryHeard == \E truth \in Registry(zone), heard \in BOOLEAN : Registered(truth, heard)

Reported ==
    \E other \in SUBSET {"other"} :
        report = [codes |-> buildFindings(other), ok |-> buildFindings(other) \intersect Fails = {}]

ZoneInv ==
    /\ TypeOK
    /\ stage # "gather" => Heard
    /\ stage = "classify" /\ zone.kind # "reserved" => Traced
    /\ ~Judged => ~notAZone
    /\ Judged => Classified
    /\ silent => Judged /\ (Dead(zone) \/ lost >= 2)
    /\ stage \in {"finish", "done"} => RegistryHeard
    /\ stage = "done" => Reported
    /\ stage # "done" => report.codes = {}

\* It holds before the first lookup.
LEMMA ZoneInit == Init => ZoneInv
<1> SUFFICES ASSUME Init PROVE ZoneInv
  OBVIOUS
<1>1. TypeOK
  <2>0. lost = 0
    BY DEF Init
  <2>1. lost \in 0..MaxLost
    BY <2>0, LostAssumption
  <2>2. reach \in [Families -> {"yes", "no", "skipped"}]
    BY DEF Init
  <2> QED  BY <2>1, <2>2 DEF Init, TypeOK
<1>2. report.codes = {}
  BY DEF Init
<1> QED  BY <1>1, <1>2 DEF Init, ZoneInv, Judged

\* The world, the lookups and the verdict on the resolver do not change once
\* the lookups are in; the bounds on what was lost are kept.
LEMMA HeardKept ==
    ASSUME Heard, UNCHANGED <<zone, resolver, look, reach>>, lost' >= lost, lost \in Nat, lost' \in Nat
    PROVE  Heard'
<1>1. lost' = 0 => lost = 0
  OBVIOUS
<1>2. UNCHANGED <<Validates, Live>>
  BY DEF Validates, Live
<1> QED  BY <1>1, <1>2 DEF Heard

\* The trace is kept.
LEMMA TracedKept ==
    ASSUME Traced, UNCHANGED <<zone, deleg>>, lost' >= lost, lost \in Nat, lost' \in Nat
    PROVE  Traced'
  BY DEF Traced, Live

\* The verdicts are kept.
LEMMA ClassifiedKept ==
    ASSUME Classified, UNCHANGED <<zone, resolver, look, reach, deleg, notAZone, dnssec>>,
           lost' >= lost, lost \in Nat, lost' \in Nat
    PROVE  Classified'
<1>1. (lost' = 0 => lost = 0) /\ (lost > 0 => lost' > 0)
  OBVIOUS
<1>2. UNCHANGED <<Validates, Live, Expected>>
  BY DEF Validates, Live, Expected
<1>3. VerdictOK(dnssec)'
  <2>1. UNCHANGED BlindUnseen
    BY DEF BlindUnseen, Validates, blind, resolverValidates
  <2> QED  BY <1>2, <2>1 DEF Classified, VerdictOK
<1>4. Traced => Traced'
  BY TracedKept
<1> QED  BY <1>1, <1>2, <1>3, <1>4 DEF Classified

\* gatherDNS: what is not lost is the truth, and losing nothing is told by lost.
LEMMA GatherInv == ZoneInv /\ GatherDNS => ZoneInv'
<1> SUFFICES ASSUME ZoneInv, GatherDNS PROVE ZoneInv'
  OBVIOUS
<1> DEFINE S == Asked(zone) \union resolver.serves
<1>0. PICK gone \in UpTo(MaxLost, S) : \E how \in [gone -> {"timeout", "failure"}] :
         /\ look' = [q \in Queries |->
                       CASE q \in gone -> Lost(how[q])
                         [] q \in Asked(zone) \ gone ->
                                Truth(zone, q, resolver.validates[resolver.via])
                         [] OTHER -> Unasked]
         /\ reach' = Reached(gone)
         /\ lost' = Cardinality(gone)
  BY DEF GatherDNS
<1>1. PICK how \in [gone -> {"timeout", "failure"}] :
         /\ look' = [q \in Queries |->
                       CASE q \in gone -> Lost(how[q])
                         [] q \in Asked(zone) \ gone ->
                                Truth(zone, q, resolver.validates[resolver.via])
                         [] OTHER -> Unasked]
         /\ reach' = Reached(gone)
         /\ lost' = Cardinality(gone)
  BY <1>0
<1>2. /\ stage = "gather" /\ stage' = "trace"
      /\ UNCHANGED <<zone, resolver, deleg, notAZone, dnssec, silent, rdap, report>>
  BY DEF GatherDNS, world
<1>3. zone \in Worlds /\ resolver \in Resolvers /\ Validates \in BOOLEAN /\ MaxLost \in Nat
  <2>1. zone \in Worlds /\ resolver \in Resolvers
    BY DEF ZoneInv, TypeOK
  <2>2. Validates \in BOOLEAN
    BY <2>1 DEF Validates, Resolvers, Families
  <2> QED  BY <2>1, <2>2, LostAssumption
<1>4. Asked(zone) \subseteq Queries /\ resolver.serves \subseteq Families
  BY <1>3 DEF Asked, Resolvers, Families
<1>5. gone \subseteq S /\ Cardinality(gone) \in 0..MaxLost
  BY <1>3 DEF UpTo, kSubset
<1>6. IsFiniteSet(gone)
  BY <1>4, <1>5, FiniteQuestions
<1>7. lost' \in 0..MaxLost /\ (lost' = 0 => gone = {})
  BY <1>1, <1>5, <1>6, FS_EmptySet
<1>8. /\ reach' \in [Families -> {"yes", "no", "skipped"}]
      /\ \A f \in resolver.serves : f \in Families /\ reach'[f] # "skipped"
      /\ gone = {} => /\ \A f \in resolver.serves : reach'[f] = "yes"
                      /\ \A f \in Families : reach'[f] # "no"
  BY <1>1, <1>4 DEF Reached
<1>9. UNCHANGED <<Validates, Live>>
  BY <1>2 DEF Validates, Live
<1>10. ASSUME NEW q \in Queries
       PROVE  /\ LookSound(look'[q], zone, q, Validates)
              /\ q \in Asked(zone) => look'[q].status # "none"
              /\ q \in Asked(zone) /\ gone = {} => look'[q] = Truth(zone, q, Validates)
  <2>1. CASE q \in gone
    <3>1. look'[q] = Lost(how[q]) /\ how[q] \in {"timeout", "failure"}
      BY <1>1, <1>10, <2>1
    <3> QED  BY <2>1, <3>1, LostFacts
  <2>2. CASE q \in Asked(zone) \ gone
    <3>1. look'[q] = Truth(zone, q, Validates)
      BY <1>1, <1>10, <2>2 DEF Validates
    <3> QED  BY <1>3, <1>10, <3>1, TruthFacts
  <2>3. CASE q \notin Asked(zone) /\ q \notin gone
    <3>1. look'[q] = Lost("none")
      BY <1>1, <1>10, <2>3 DEF Unasked
    <3> QED  BY <2>3, <3>1, LostFacts
  <2> QED  BY <2>1, <2>2, <2>3
<1>11. ASSUME gone = {}, NEW q \in Asked(zone)
       PROVE  /\ Answered(look'[q]) <=> ~Hidden(zone, q, Validates)
              /\ Live => look'[q].status # "timeout"
  BY <1>3, <1>4, <1>10, <1>11, TruthFacts DEF Live
<1>12. Heard'
  BY <1>2, <1>4, <1>7, <1>8, <1>9, <1>10, <1>11 DEF Heard
<1>13. TypeOK'
  BY <1>2, <1>7, <1>8 DEF ZoneInv, TypeOK
<1> QED  BY <1>2, <1>12, <1>13 DEF ZoneInv, Judged

\* A wave whose budget is spent: every lookup is lost, and counted as one.
LEMMA WaveInv == ZoneInv /\ WaveSpent => ZoneInv'
<1> SUFFICES ASSUME ZoneInv, WaveSpent PROVE ZoneInv'
  OBVIOUS
<1>1. /\ stage = "gather" /\ stage' = "trace" /\ MaxLost > 0 /\ lost' = 1
      /\ UNCHANGED <<zone, resolver, deleg, notAZone, dnssec, silent, rdap, report>>
      /\ look' = [q \in Queries |-> IF q \in Asked(zone) THEN Lost("timeout") ELSE Unasked]
      /\ reach' = Reached({})
  BY DEF WaveSpent, world
<1>7. resolver.serves \subseteq Families
  BY DEF ZoneInv, TypeOK, Resolvers, Families
<1>8. /\ reach' \in [Families -> {"yes", "no", "skipped"}]
      /\ \A f \in resolver.serves : f \in Families /\ reach'[f] # "skipped"
  BY <1>1, <1>7 DEF Reached
<1>2. lost' \in 0..MaxLost
  BY <1>1, LostAssumption
<1>3. UNCHANGED <<Validates, Live>>
  BY <1>1 DEF Validates, Live
<1>4. ASSUME NEW q \in Queries
      PROVE  LookSound(look'[q], zone, q, Validates) /\ (q \in Asked(zone) => look'[q].status # "none")
  <2>1. look'[q] = IF q \in Asked(zone) THEN Lost("timeout") ELSE Lost("none")
    BY <1>1, <1>4 DEF Unasked
  <2> QED  BY <2>1, LostFacts
<1>5. Heard'
  BY <1>1, <1>3, <1>4, <1>8 DEF Heard, Asked
<1>6. TypeOK'
  BY <1>1, <1>2, <1>8 DEF ZoneInv, TypeOK
<1> QED  BY <1>1, <1>5, <1>6 DEF ZoneInv, Judged

\* runTrace keeps the invariant.
LEMMA TraceInv == ZoneInv /\ RunTrace => ZoneInv'
<1> SUFFICES ASSUME ZoneInv, RunTrace PROVE ZoneInv'
  OBVIOUS
<1>1. /\ stage = "trace" /\ stage' = "classify"
      /\ UNCHANGED <<zone, resolver, look, reach, notAZone, dnssec, silent, rdap, report>>
  BY DEF RunTrace, world
<1>2. zone \in Worlds /\ lost \in 0..MaxLost /\ MaxLost \in Nat /\ Heard
  BY <1>1, LostAssumption DEF ZoneInv, TypeOK
<1>3. /\ lost' \in 0..MaxLost /\ lost' >= lost
      /\ zone.kind # "reserved" => Traced'
  <2>1. CASE zone.kind = "reserved"
    BY <1>2, <2>1 DEF RunTrace
  <2>2. CASE zone.kind # "reserved"
    <3>1. PICK blocks \in CutShort(TraceTruth(zone)), aa \in BOOLEAN :
             LET short == blocks # TraceTruth(zone) \/ aa # (zone.servers = "hidden")
             IN  /\ aa => zone.servers = "hidden"
                 /\ short => lost < MaxLost
                 /\ deleg' = traceDelegation(blocks, aa)
                 /\ lost' = lost + (IF short THEN 1 ELSE 0)
      BY <2>2 DEF RunTrace
    <3> DEFINE short == blocks # TraceTruth(zone) \/ aa # (zone.servers = "hidden")
    <3>2. /\ aa => zone.servers = "hidden"
          /\ short => lost < MaxLost
          /\ deleg' = traceDelegation(blocks, aa)
          /\ lost' = lost + (IF short THEN 1 ELSE 0)
      BY <3>1
    <3>3. ~short => blocks = TraceTruth(zone) /\ (aa <=> zone.servers = "hidden")
      OBVIOUS
    <3>4. short \in BOOLEAN
      OBVIOUS
    <3> HIDE DEF short
    <3>5. lost' \in 0..MaxLost /\ lost' >= lost /\ (lost' = 0 => ~short)
      BY <1>2, <3>2, <3>4
    <3>6. TraceOf(deleg', zone)
      BY <1>2, <3>2, TraceSound
    <3>7. ~short /\ Live => deleg'.status = Straight(zone.servers) /\ deleg'.parentNS # {}
      BY <1>2, <3>2, <3>3, TraceSound DEF Live
    <3> QED  BY <1>1, <3>5, <3>6, <3>7 DEF Traced, Live
  <2> QED  BY <2>1, <2>2
<1>4. Heard'
  BY <1>1, <1>2, <1>3, HeardKept
<1>5. TypeOK'
  BY <1>1, <1>3 DEF ZoneInv, TypeOK
<1> QED  BY <1>1, <1>3, <1>4, <1>5 DEF ZoneInv, Judged

\* What the lookups in hand say of the name.
LEMMA HeardFacts ==
    ASSUME zone \in Worlds, Heard
    PROVE  /\ \A q \in Queries : Answered(look[q]) => Says(look[q], zone, q, Validates)
           /\ \A q \in Queries : ~Answered(look[q]) => Mum(look[q])
           /\ \A q \in ApexTypes \union {"DS", "DNSKEY"} : q \in Queries /\ q \in Asked(zone)
           /\ ApexTypes = {"A", "AAAA", "MX", "TXT", "NS"}
           /\ wwwTypes \subseteq Queries
  BY DEF Heard, LookSound, Asked, ApexTypes, apexTypes, Queries, wwwTypes

\* An answer of the validated kind needs a signed zone and a resolver that
\* validates; one of the other kind, for a zone that is signed, one that does not.
LEMMA TrustFacts ==
    ASSUME zone \in Worlds, Heard, ~blind, NEW q \in ApexTypes \union {"DNSKEY"}, Answered(look[q])
    PROVE  /\ dropTrust(look[q]).trust \in {"secure", "insecure"}
           /\ dropTrust(look[q]).trust = "secure" => zone.signing = "secure" /\ Validates
           /\ dropTrust(look[q]).trust = "insecure" =>
                  zone.signing \in {"unsigned", "unsupported", "island"} \/ BlindUnseen
<1>1. q \in Queries /\ q # "DS"
  BY DEF ApexTypes, apexTypes, Queries
<1>2. look[q] \in LookupTypes /\ Says(look[q], zone, q, Validates)
  BY <1>1 DEF Heard, LookSound
<1>3. dropTrust(look[q]).trust = look[q].trust
  BY <1>2 DEF dropTrust, LookupTypes
<1>4. zone.signing \in Signings
  BY WorldFacts
<1>5. look[q].trust = IF Validates /\ zone.signing = "secure" THEN "secure" ELSE "insecure"
  BY <1>2 DEF Says
<1>6. ~(Validates /\ zone.signing \in Bogus)
  BY <1>1, <1>2 DEF Says, Hidden
<1> QED  BY <1>3, <1>4, <1>5, <1>6 DEF BlindUnseen, Signings, Bogus

\* The verdict on a name that is no zone.
LEMMA ByTrustSound ==
    ASSUME zone \in Worlds, Heard, ~blind
    PROVE  /\ classifyByTrust \in {"secure", "insecure", "unknown"}
           /\ VerdictOK(classifyByTrust)
<1> DEFINE trusts == {dropTrust(look[q]).trust : q \in {t \in ApexTypes : Answered(look[t])}}
<1>1. /\ "secure" \in trusts => zone.signing = "secure" /\ Validates
      /\ "insecure" \in trusts => zone.signing \in {"unsigned", "unsupported", "island"} \/ BlindUnseen
  BY TrustFacts
<1>2. classifyByTrust = IF "insecure" \in trusts THEN "insecure"
                        ELSE IF "secure" \in trusts THEN "secure" ELSE "unknown"
  BY DEF classifyByTrust
<1> HIDE DEF trusts
<1> QED  BY <1>1, <1>2 DEF VerdictOK

\* A delegated name that answers with NS records is a zone; a host and an alias
\* whose NS lookup was answered are not.
LEMMA KindDetected ==
    ASSUME zone \in Worlds, zone.kind # "reserved", Heard, Traced, lost \in Nat
    PROVE  /\ detectNotAZone => \/ zone.kind \in {"host", "alias"}
                                \/ zone.kind = "zone" /\ zone.servers = "nons" /\ lost > 0
           /\ ~detectNotAZone /\ zone.kind \in {"host", "alias"} => ~Answered(look["NS"])
<1> DEFINE l == look["NS"]
<1>1. /\ zone.kind \in {"zone", "host", "alias", "absent", "reserved", "unqueryable"}
      /\ zone.records \subseteq {"A", "AAAA", "MX", "TXT"}
  BY WorldFacts
<1>2. "NS" \in Queries /\ "NS" \in ApexTypes
  BY HeardFacts
<1>3. ~Answered(l) => ~l.cname /\ l.status # "nxrrset"
  BY <1>2, HeardFacts DEF Mum, Answered
<1>4. Answered(l) => Says(l, zone, "NS", Validates)
  BY <1>2, HeardFacts
<1>5. Has(zone, "NS") <=> (zone.kind = "zone" /\ zone.servers # "nons") \/ (zone.kind = "alias" /\ zone.records # {})
  BY <1>1 DEF Has
<1>6. NoSuchName(zone, "NS") <=> zone.kind \in {"absent", "reserved"} \/ (zone.kind = "alias" /\ zone.records = {})
  BY DEF NoSuchName, wwwTypes
<1>7. zone.kind # "zone" => deleg.parentNS = {}
  BY DEF Traced, TraceOf
<1> HIDE DEF l
<1>8. ASSUME detectNotAZone
      PROVE  zone.kind \in {"host", "alias"} \/ (zone.kind = "zone" /\ zone.servers = "nons" /\ lost > 0)
  <2>1. l.cname \/ l.status = "nxrrset"
    BY <1>8 DEF detectNotAZone, l
  <2>2. Answered(l)
    BY <1>3, <2>1
  <2>3. l.cname => zone.kind = "alias"
    BY <1>4, <2>2 DEF Says
  <2>4. l.status = "nxrrset" => ~Has(zone, "NS") /\ ~NoSuchName(zone, "NS") /\ zone.kind # "unqueryable"
    BY <1>4, <2>2 DEF Says, Hidden
  <2>5. zone.kind = "zone" => lost > 0
    <3>1. zone.kind = "zone" => ~Dead(zone)
      BY <1>4, <2>2 DEF Says, Hidden
    <3>2. deleg.parentNS = {}
      BY <1>8 DEF detectNotAZone
    <3> QED  BY <3>1, <3>2 DEF Traced, Live
  <2> QED  BY <1>1, <1>5, <1>6, <2>1, <2>3, <2>4, <2>5
<1>9. ASSUME zone.kind \in {"host", "alias"}, Answered(l) PROVE detectNotAZone
  <2>1. Says(l, zone, "NS", Validates)
    BY <1>4, <1>9
  <2>2. CASE zone.kind = "alias"
    <3>1. l.cname
      BY <2>1, <2>2 DEF Says
    <3> QED  BY <1>7, <2>2, <3>1 DEF detectNotAZone, l
  <2>3. CASE zone.kind = "host"
    <3>1. l.status = "nxrrset" /\ l.soa = "above"
      BY <1>5, <1>6, <2>1, <2>3 DEF Says
    <3>2. enclosingZone
      BY <1>2, <3>1 DEF enclosingZone, l
    <3> QED  BY <1>7, <2>3, <3>1, <3>2 DEF detectNotAZone, l
  <2> QED  BY <1>9, <2>2, <2>3
<1> QED  BY <1>8, <1>9 DEF l

\* firstFailed: the first in the order, if any failed.
LEMMA FailedFacts ==
    /\ failures = {} => \A q \in {"A", "AAAA", "MX", "TXT", "NS", "DS", "DNSKEY"} : ~Failed(look[q])
    /\ failures # {} => /\ firstFailed \in {"A", "AAAA", "MX", "TXT", "NS", "DS", "DNSKEY"}
                        /\ Failed(look[firstFailed])
    /\ Failed(look["A"]) => failures # {} /\ firstFailed = "A"
<1> DEFINE o == <<"A", "AAAA", "MX", "TXT", "NS", "DS", "DNSKEY">>
<1>1. failOrder = o
  BY DEF failOrder
<1>2. DOMAIN o = 1..7 /\ o[1] = "A" /\ o[2] = "AAAA" /\ o[3] = "MX" /\ o[4] = "TXT" /\ o[5] = "NS"
      /\ o[6] = "DS" /\ o[7] = "DNSKEY"
  OBVIOUS
<1> HIDE DEF o
<1>3. failures = {i \in 1..7 : Failed(look[o[i]])}
  BY <1>1, <1>2 DEF failures
<1>4. ASSUME failures # {} PROVE Min(failures) \in failures /\ \A i \in failures : Min(failures) <= i
  <2>1. \E i \in failures : \A j \in failures : i <= j
    <3>0. failures \subseteq 1..7
      BY <1>3
    <3> HIDE DEF failures
    <3>1. CASE 1 \in failures
      BY <3>0, <3>1
    <3>2. CASE 1 \notin failures /\ 2 \in failures
      BY <3>0, <3>2
    <3>3. CASE 1 \notin failures /\ 2 \notin failures /\ 3 \in failures
      BY <3>0, <3>3
    <3>4. CASE 1 \notin failures /\ 2 \notin failures /\ 3 \notin failures /\ 4 \in failures
      BY <3>0, <3>4
    <3>5. CASE 1 \notin failures /\ 2 \notin failures /\ 3 \notin failures /\ 4 \notin failures
               /\ 5 \in failures
      BY <3>0, <3>5
    <3>6. CASE failures \subseteq {6, 7} /\ 6 \in failures
      BY <3>6
    <3>7. CASE failures \subseteq {6, 7} /\ 6 \notin failures
      <4>1. failures = {7}
        BY <1>4, <3>7
      <4> QED  BY <4>1
    <3>8. CASE 1 \notin failures /\ 2 \notin failures /\ 3 \notin failures /\ 4 \notin failures
               /\ 5 \notin failures
      <4>1. failures \subseteq {6, 7}
        BY <3>0, <3>8
      <4> QED  BY <3>6, <3>7, <4>1
    <3> QED  BY <3>1, <3>2, <3>3, <3>4, <3>5, <3>8
  <2> QED  BY <2>1 DEF Min
<1>5. ASSUME failures = {}, NEW q \in {"A", "AAAA", "MX", "TXT", "NS", "DS", "DNSKEY"} PROVE ~Failed(look[q])
  <2>1. PICK i \in 1..7 : q = o[i]
    BY <1>2, <1>5
  <2> QED  BY <1>3, <1>5, <2>1
<1>6. ASSUME failures # {}
      PROVE  firstFailed \in {"A", "AAAA", "MX", "TXT", "NS", "DS", "DNSKEY"} /\ Failed(look[firstFailed])
  <2>1. Min(failures) \in 1..7 /\ Failed(look[o[Min(failures)]])
    BY <1>3, <1>4, <1>6
  <2>2. firstFailed = o[Min(failures)]
    BY <1>1 DEF firstFailed
  <2>3. \A i \in 1..7 : o[i] \in {"A", "AAAA", "MX", "TXT", "NS", "DS", "DNSKEY"}
    BY <1>2
  <2> QED  BY <2>1, <2>2, <2>3
<1>7. ASSUME Failed(look["A"]) PROVE failures # {} /\ firstFailed = "A"
  <2>1. 1 \in failures
    BY <1>2, <1>3, <1>7
  <2>2. Min(failures) \in 1..7 /\ Min(failures) <= 1
    BY <1>3, <1>4, <2>1
  <2>3. Min(failures) = 1
    BY <2>2
  <2>4. firstFailed = "A"
    BY <1>1, <1>2, <2>3 DEF firstFailed
  <2> QED  BY <2>1, <2>4
<1> QED  BY <1>5, <1>6, <1>7

\* What the answers to DS and DNSKEY, and NXDOMAIN, say of the name.
LEMMA AnswerFacts ==
    ASSUME zone \in Worlds, Heard
    PROVE  /\ Answered(look["DS"]) =>
                 /\ look["DS"].has <=> zone.kind = "zone" /\ zone.signing \in WithDS
                 /\ look["DS"].status = "nxrrset" => ~(zone.kind = "zone" /\ zone.signing \in WithDS)
                 /\ look["DS"].status # "nxrrset" =>
                        (zone.kind = "zone" /\ zone.signing \in WithDS) \/ NoSuchName(zone, "A")
           /\ look["DS"].has \/ look["DS"].status = "nxrrset" => Answered(look["DS"])
           /\ Answered(look["DNSKEY"]) =>
                 (look["DNSKEY"].has <=> zone.kind = "zone" /\ zone.signing \notin {"unsigned", "keyless"})
           /\ nameDoesNotExist => NoSuchName(zone, "A")
           /\ Answered(look["NS"]) /\ NoSuchName(zone, "A") => nameDoesNotExist \/ zone.kind = "alias"
           /\ NoSuchName(zone, "A") => zone.records = {} /\ ~Has(zone, "NS") /\ zone.kind # "zone"
<1>1. /\ zone.kind \in {"zone", "host", "alias", "absent", "reserved", "unqueryable"}
      /\ zone.records \subseteq {"A", "AAAA", "MX", "TXT"} /\ zone.signing \in Signings
      /\ zone.kind \in {"absent", "reserved", "unqueryable"} => zone.records = {}
  BY WorldFacts
<1>2. /\ "DS" \in Queries /\ "DNSKEY" \in Queries /\ "NS" \in Queries /\ "A" \in Queries
  BY HeardFacts
<1>3. /\ Has(zone, "DS") <=> zone.kind = "zone" /\ zone.signing \in WithDS
      /\ Has(zone, "DNSKEY") <=> zone.kind = "zone" /\ zone.signing \notin {"unsigned", "keyless"}
      /\ Has(zone, "NS") <=> (zone.kind = "zone" /\ zone.servers # "nons") \/ (zone.kind = "alias" /\ zone.records # {})
      /\ Has(zone, "A") <=> "A" \in zone.records
  BY <1>1 DEF Has
<1>4. \A q \in {"DS", "DNSKEY", "NS"} : NoSuchName(zone, q) <=> NoSuchName(zone, "A")
  BY DEF NoSuchName, wwwTypes
<1>5. NoSuchName(zone, "A") <=> zone.kind \in {"absent", "reserved"} \/ (zone.kind = "alias" /\ zone.records = {})
  BY DEF NoSuchName, wwwTypes
<1>6. \A q \in Queries :
         /\ Answered(look[q]) => /\ look[q].has <=> Has(zone, q)
                                 /\ look[q].status = IF Has(zone, q) THEN "ok"
                                                     ELSE IF NoSuchName(zone, q) THEN "nxdomain" ELSE "nxrrset"
         /\ ~Answered(look[q]) => ~look[q].has /\ look[q].status \notin {"nxrrset", "nxdomain"}
  BY HeardFacts DEF Says, Mum, Answered
<1>7. nameDoesNotExist => NoSuchName(zone, "A")
  BY <1>2, <1>4, <1>6 DEF nameDoesNotExist
<1>8. NoSuchName(zone, "A") => zone.records = {} /\ ~Has(zone, "NS") /\ zone.kind # "zone"
  BY <1>1, <1>3, <1>5
<1>9. Answered(look["NS"]) /\ NoSuchName(zone, "A") => nameDoesNotExist
  BY <1>2, <1>4, <1>6, <1>8 DEF nameDoesNotExist
<1>10. Answered(look["DNSKEY"]) =>
          (look["DNSKEY"].has <=> zone.kind = "zone" /\ zone.signing \notin {"unsigned", "keyless"})
  BY <1>2, <1>3, <1>6
<1>11. /\ look["DS"].has \/ look["DS"].status = "nxrrset" => Answered(look["DS"])
       /\ Answered(look["DS"]) =>
             /\ look["DS"].has <=> zone.kind = "zone" /\ zone.signing \in WithDS
             /\ look["DS"].status = "nxrrset" => ~(zone.kind = "zone" /\ zone.signing \in WithDS)
             /\ look["DS"].status # "nxrrset" =>
                    (zone.kind = "zone" /\ zone.signing \in WithDS) \/ NoSuchName(zone, "A")
  BY <1>2, <1>3, <1>4, <1>6
<1> QED  BY <1>7, <1>8, <1>9, <1>10, <1>11

\* The verdict on a name that was not found to be a host.
LEMMA DNSSECSound ==
    ASSUME zone \in Worlds, Heard, ~blind, zone.kind \in {"host", "alias"} => ~Answered(look["NS"]),
           NEW hasData \in BOOLEAN, hasData => failures # {} /\ Has(zone, firstFailed)
    PROVE  /\ classifyDNSSEC(hasData) \in {"secure", "insecure", "island", "bogus", "servfail", "unknown",
                                          "nonexistent"}
           /\ VerdictOK(classifyDNSSEC(hasData))
<1> DEFINE v == classifyDNSSEC(hasData)
<1>1. /\ zone.kind \in {"zone", "host", "alias", "absent", "reserved", "unqueryable"}
      /\ zone.signing \in Signings
      /\ zone.kind \in {"reserved", "unqueryable"} => zone.signing = "unsigned"
      /\ zone.records \subseteq {"A", "AAAA", "MX", "TXT"}
  BY WorldFacts
<1>2. CASE failures # {}
  <2>1. v \in {"unknown", "bogus", "servfail"} /\ (v = "bogus" => hasData /\ ~unsignedDelegation)
    BY <1>2 DEF classifyDNSSEC, classifyFailure
  <2>2. v = "bogus" => (zone.kind = "zone" /\ zone.signing \in WithDS) \/ ~Answered(look["DS"])
    <3> SUFFICES ASSUME v = "bogus", Answered(look["DS"]), NoSuchName(zone, "A") PROVE FALSE
      BY <2>1, AnswerFacts DEF unsignedDelegation
    <3>1. zone.records = {} /\ ~Has(zone, "NS") /\ zone.kind # "zone"
      BY AnswerFacts
    <3>2. firstFailed \in {"A", "AAAA", "MX", "TXT", "NS", "DS", "DNSKEY"}
      BY <1>2, FailedFacts
    <3>3. ~Has(zone, firstFailed)
      BY <3>1, <3>2 DEF Has
    <3> QED  BY <2>1, <3>3
  <2> HIDE DEF v
  <2> QED  BY <2>1, <2>2 DEF VerdictOK, v
<1>3. CASE failures = {} /\ ~(Answered(look["DS"]) /\ Answered(look["DNSKEY"]))
  <2>1. v = "unknown"
    BY <1>3 DEF classifyDNSSEC
  <2> QED  BY <2>1 DEF VerdictOK
<1>4. CASE failures = {} /\ Answered(look["DS"]) /\ Answered(look["DNSKEY"]) /\ nameDoesNotExist
  <2>1. v = "nonexistent"
    BY <1>4 DEF classifyDNSSEC
  <2> QED  BY <1>4, <2>1, AnswerFacts DEF VerdictOK
<1>5. CASE failures = {} /\ Answered(look["DS"]) /\ Answered(look["DNSKEY"]) /\ ~nameDoesNotExist
  <2>1. v = IF look["DS"].has /\ look["DNSKEY"].has THEN signedState
            ELSE IF look["DNSKEY"].has THEN "island" ELSE IF look["DS"].has THEN "bogus" ELSE "insecure"
    BY <1>5 DEF classifyDNSSEC
  <2>2. CASE look["DS"].has /\ look["DNSKEY"].has
    <3>1. v = dropTrust(look["DNSKEY"]).trust
      BY <1>5, <2>1, <2>2, TrustFacts DEF signedState
    <3> HIDE DEF v
    <3> QED  BY <1>5, <3>1, TrustFacts DEF VerdictOK, v
  <2>3. CASE ~look["DS"].has /\ look["DNSKEY"].has
    <3>1. zone.signing = "island"
      BY <1>1, <1>5, <2>3, AnswerFacts DEF WithDS, Signings
    <3> QED  BY <2>1, <2>3, <3>1 DEF VerdictOK
  <2>4. CASE look["DS"].has /\ ~look["DNSKEY"].has
    <3>1. zone.kind = "zone" /\ zone.signing \in WithDS
      BY <1>5, <2>4, AnswerFacts
    <3> QED  BY <2>1, <2>4, <3>1 DEF VerdictOK
  <2>5. CASE ~look["DS"].has /\ ~look["DNSKEY"].has
    <3>1. zone.kind = "zone" => zone.signing = "unsigned"
      BY <1>1, <1>5, <2>5, AnswerFacts DEF WithDS, Signings
    <3>2. zone.kind = "absent" => ~Answered(look["NS"])
      BY <1>5, AnswerFacts DEF NoSuchName
    <3>3. v = "insecure"
      BY <2>1, <2>5
    <3> HIDE DEF v
    <3> QED  BY <1>1, <3>1, <3>2, <3>3 DEF VerdictOK, v
  <2> QED  BY <2>2, <2>3, <2>4, <2>5
<1> QED  BY <1>2, <1>3, <1>4, <1>5

\* With nothing lost, a resolver that validates is seen to.
LEMMA SeenToValidate ==
    ASSUME resolver \in Resolvers, Heard, lost = 0, Validates
    PROVE  ~blind
<1>1. resolver.via \in Families /\ reach[resolver.via] = "yes"
  BY DEF Resolvers, Heard, Families
<1>2. resolverValidates = "yes"
  BY <1>1 DEF resolverValidates, Validates
<1> QED  BY <1>2 DEF blind

\* With nothing lost, a live zone gets the verdict its signing calls for.
LEMMA DNSSECDecides ==
    ASSUME zone \in Worlds, Heard, ~blind, lost = 0, Live, Validates,
           NEW hasData \in BOOLEAN, hasData <=> failures # {} /\ ~Dead(zone) /\ Has(zone, firstFailed)
    PROVE  classifyDNSSEC(hasData) = Expected
<1>1. zone.signing \in Signings /\ zone.records \subseteq {"A", "AAAA", "MX", "TXT"}
  BY WorldFacts
<1>2. /\ \A q \in {"A", "AAAA", "MX", "TXT", "NS", "DS", "DNSKEY"} : q \in Queries /\ q \in Asked(zone)
  BY HeardFacts
<1>3. ASSUME NEW q \in {"A", "AAAA", "MX", "TXT", "NS", "DS", "DNSKEY"}
      PROVE  /\ Answered(look[q]) <=> ~(zone.signing \in Bogus /\ q # "DS")
             /\ ~Answered(look[q]) => Failed(look[q])
             /\ ~look[q].unqueryable
  <2>1. Hidden(zone, q, Validates) <=> zone.signing \in Bogus /\ q # "DS"
    BY DEF Hidden, Live
  <2>2. /\ Answered(look[q]) <=> ~Hidden(zone, q, Validates)
        /\ look[q].status \notin {"none", "timeout"}
        /\ look[q] \in LookupTypes /\ (look[q].unqueryable => zone.kind = "unqueryable")
    BY <1>2 DEF Heard, LookSound
  <2>3. look[q].status \in {"none", "ok", "nxrrset", "nxdomain", "failure", "timeout"}
    BY <2>2 DEF LookupTypes
  <2> QED  BY <2>1, <2>2, <2>3 DEF Answered, Failed, Live
<1>4. \A q \in Queries : Answered(look[q]) => ~Failed(look[q])
  BY DEF Answered, Failed
<1>5. CASE zone.signing \in Bogus
  <2>1. failures # {} /\ firstFailed = "A"
    BY <1>3, <1>5, FailedFacts
  <2>2. Has(zone, "A") <=> "A" \in zone.records
    BY DEF Has
  <2>3. ~unsignedDelegation
    <3>1. Answered(look["DS"]) /\ zone.signing \in WithDS
      BY <1>3, <1>5 DEF Bogus, WithDS
    <3> QED  BY <3>1, AnswerFacts DEF unsignedDelegation, Live
  <2>4. ~look["A"].unqueryable
    BY <1>3
  <2>5. classifyDNSSEC(hasData) = IF hasData THEN "bogus" ELSE "servfail"
    BY <2>1, <2>3, <2>4 DEF classifyDNSSEC, classifyFailure
  <2>6. hasData <=> "A" \in zone.records
    BY <2>1, <2>2 DEF Live
  <2>7. Expected = IF "A" \in zone.records THEN "bogus" ELSE "servfail"
    BY <1>5 DEF Expected, Bogus
  <2> QED  BY <2>5, <2>6, <2>7
<1>6. CASE zone.signing \notin Bogus
  <2>1. \A q \in {"A", "AAAA", "MX", "TXT", "NS", "DS", "DNSKEY"} : Answered(look[q])
    BY <1>3, <1>6
  <2>2. failures = {}
    BY <1>2, <1>4, <2>1, FailedFacts
  <2>3. ~nameDoesNotExist
    BY AnswerFacts DEF Live
  <2>4. /\ look["DS"].has <=> zone.signing \in WithDS
        /\ look["DNSKEY"].has <=> zone.signing \notin {"unsigned", "keyless"}
    BY <2>1, AnswerFacts DEF Live
  <2>5. classifyDNSSEC(hasData) =
           IF look["DS"].has /\ look["DNSKEY"].has THEN signedState
           ELSE IF look["DNSKEY"].has THEN "island" ELSE IF look["DS"].has THEN "bogus" ELSE "insecure"
    BY <2>1, <2>2, <2>3 DEF classifyDNSSEC
  <2>6. signedState = IF zone.signing = "secure" THEN "secure" ELSE "insecure"
    <3>1. Says(look["DNSKEY"], zone, "DNSKEY", Validates)
      BY <1>2, <2>1, HeardFacts
    <3>2. look["DNSKEY"].trust = IF zone.signing = "secure" THEN "secure" ELSE "insecure"
      BY <3>1 DEF Says
    <3>3. look["DNSKEY"] \in LookupTypes
      BY <1>2 DEF Heard, LookSound
    <3>4. dropTrust(look["DNSKEY"]).trust = look["DNSKEY"].trust
      BY <3>3 DEF dropTrust, LookupTypes
    <3> QED  BY <3>2, <3>4 DEF signedState
  <2>7. zone.signing \in {"unsigned", "secure", "unsupported", "island"}
    BY <1>1, <1>6 DEF Signings, Bogus
  <2>8. Expected = IF zone.signing \in {"unsigned", "unsupported"} THEN "insecure" ELSE zone.signing
    BY <1>6, <2>7 DEF Expected, Bogus
  <2> QED  BY <2>4, <2>5, <2>6, <2>7, <2>8 DEF WithDS
<1> QED  BY <1>5, <1>6

\* classifyDNS keeps the invariant: it establishes the verdicts.
LEMMA ClassifyInv == ZoneInv /\ ClassifyDNS => ZoneInv'
<1> SUFFICES ASSUME ZoneInv, ClassifyDNS PROVE ZoneInv'
  OBVIOUS
<1>1. /\ stage = "classify" /\ stage' = "audit"
      /\ UNCHANGED <<zone, resolver, look, reach, silent, rdap, report>>
  BY DEF ClassifyDNS, world
<1>2. /\ zone \in Worlds /\ resolver \in Resolvers /\ lost \in 0..MaxLost /\ MaxLost \in Nat /\ Heard
      /\ zone.kind # "reserved" => Traced
      /\ ~notAZone /\ ~silent /\ notAZone \in BOOLEAN
  BY <1>1, LostAssumption DEF ZoneInv, TypeOK, Judged
<1>3. UNCHANGED <<Validates, Live, Expected, BlindUnseen>>
  BY <1>1 DEF Validates, Live, Expected, BlindUnseen, blind, resolverValidates
<1>4. ASSUME NEW v, dnssec' = v, VerdictOK(v) PROVE VerdictOK(dnssec)'
  BY <1>1, <1>3, <1>4 DEF VerdictOK
<1>5. VerdictOK("unknown")
  BY DEF VerdictOK
<1> DEFINE Types == {"none", "secure", "insecure", "island", "bogus", "servfail", "unknown", "nonexistent"}
<1>6. /\ lost' \in 0..MaxLost /\ lost' >= lost
      /\ notAZone' \in BOOLEAN /\ dnssec' \in Types
      /\ Classified'
  <2>1. CASE zone.kind = "reserved"
    <3>1. deleg' = Deleg("reserved_name", {}, "") /\ dnssec' = "unknown" /\ UNCHANGED <<notAZone, lost>>
      BY <2>1 DEF ClassifyDNS
    <3>2. deleg'.status = "reserved_name"
      BY <3>1 DEF Deleg
    <3>3. VerdictOK(dnssec)'
      BY <1>4, <1>5, <3>1
    <3>4. Classified'
      BY <1>1, <1>2, <2>1, <3>1, <3>2, <3>3 DEF Classified, Live
    <3>5. lost' = lost /\ notAZone' \in BOOLEAN
      BY <1>2, <3>1
    <3>6. lost' \in 0..MaxLost /\ lost' >= lost
      BY <1>2, <3>5
    <3> QED  BY <3>1, <3>4, <3>5, <3>6
  <2>2. CASE zone.kind # "reserved" /\ detectNotAZone
    <3>1. /\ notAZone' = TRUE /\ deleg' = Deleg("not_a_zone", {}, "") /\ UNCHANGED lost
          /\ dnssec' = IF blind THEN "unknown" ELSE classifyByTrust
      BY <2>2 DEF ClassifyDNS
    <3>2. deleg'.status = "not_a_zone"
      BY <3>1 DEF Deleg
    <3>3. dnssec' \in Types /\ VerdictOK(dnssec)'
      <4>1. CASE blind
        BY <1>4, <1>5, <3>1, <4>1
      <4>2. CASE ~blind
        BY <1>2, <1>4, <3>1, <4>2, ByTrustSound
      <4> QED  BY <4>1, <4>2
    <3>4. \/ zone.kind \in {"host", "alias"}
          \/ zone.kind = "zone" /\ zone.servers = "nons" /\ lost > 0
      BY <1>2, <2>2, KindDetected
    <3>5. ~(lost = 0 /\ Live)
      BY <3>4 DEF Live
    <3>6. Classified'
      BY <1>1, <1>3, <2>2, <3>1, <3>2, <3>3, <3>4, <3>5 DEF Classified
    <3>7. lost' = lost
      BY <3>1
    <3>8. lost' \in 0..MaxLost /\ lost' >= lost
      BY <1>2, <3>7
    <3> QED  BY <3>1, <3>3, <3>6, <3>8
  <2>3. CASE zone.kind # "reserved" /\ ~detectNotAZone
    <3> DEFINE there == failures # {} /\ ~Dead(zone) /\ Has(zone, firstFailed)
    <3>1. PICK hasData \in BOOLEAN :
             /\ hasData => there
             /\ there /\ ~hasData => lost < MaxLost
             /\ lost' = lost + (IF there /\ ~hasData THEN 1 ELSE 0)
             /\ dnssec' = IF blind THEN "unknown" ELSE classifyDNSSEC(hasData)
      BY <2>3 DEF ClassifyDNS
    <3>2. UNCHANGED <<deleg, notAZone>>
      BY <2>3 DEF ClassifyDNS
    <3>3. hasData => failures # {} /\ Has(zone, firstFailed)
      BY <3>1
    <3>4. there \in BOOLEAN
      OBVIOUS
    <3>5. ASSUME hasData <=> there, ~blind, lost = 0, Live, Validates
          PROVE  classifyDNSSEC(hasData) = Expected
      BY <1>2, <3>5, DNSSECDecides
    <3> HIDE DEF there
    <3>6. lost' \in 0..MaxLost /\ lost' >= lost /\ (lost' = 0 => lost = 0 /\ (hasData <=> there))
      BY <1>2, <3>1, <3>4
    <3>7. zone.kind \in {"host", "alias"} => ~Answered(look["NS"])
      BY <1>2, <2>3, KindDetected
    <3>8. dnssec' \in Types /\ VerdictOK(dnssec)'
      <4>1. CASE blind
        BY <1>4, <1>5, <3>1, <4>1
      <4>2. CASE ~blind
        BY <1>2, <1>4, <3>1, <3>3, <3>7, <4>2, DNSSECSound
      <4> QED  BY <4>1, <4>2
    <3>9. lost' = 0 /\ Live /\ Validates => dnssec' = Expected
      BY <1>2, <3>1, <3>5, <3>6, SeenToValidate
    <3>10. Traced'
      BY <1>1, <1>2, <2>3, <3>2, <3>6, TracedKept
    <3>11. Classified'
      BY <1>1, <1>2, <1>3, <2>3, <3>2, <3>7, <3>8, <3>9, <3>10 DEF Classified
    <3>12. notAZone' \in BOOLEAN
      BY <1>2, <3>2 DEF ZoneInv, TypeOK
    <3> QED  BY <3>6, <3>8, <3>11, <3>12
  <2> QED  BY <2>1, <2>2, <2>3
<1>7. Heard'
  BY <1>1, <1>2, <1>6, HeardKept
<1>8. TypeOK'
  BY <1>1, <1>6 DEF ZoneInv, TypeOK
<1> QED  BY <1>1, <1>2, <1>6, <1>7, <1>8 DEF ZoneInv, Judged

\* Servers that the trace heard nothing from are a delegated zone's, and if
\* they do answer then something was lost.
LEMMA SilentDelegation ==
    ASSUME zone \in Worlds, Classified, delegationSilent
    PROVE  zone.kind = "zone" /\ (lost = 0 => Dead(zone))
<1>1. deleg.status = "no_child_answer"
  BY DEF delegationSilent
<1>2. zone.kind # "reserved" /\ ~notAZone
  BY <1>1 DEF Classified
<1>3. TraceOf(deleg, zone) /\ (lost = 0 /\ Live => deleg.status = Straight(zone.servers))
  BY <1>2 DEF Classified, Traced
<1>4. zone.kind = "zone"
  BY <1>1, <1>3 DEF TraceOf
<1>5. Straight(zone.servers) # "no_child_answer"
  BY DEF Straight
<1> QED  BY <1>1, <1>3, <1>4, <1>5 DEF Live

\* auditFirst keeps the invariant: servers that answer are silent only if a
\* second answer is lost.
LEMMA AuditInv == ZoneInv /\ AuditFirst => ZoneInv'
<1> SUFFICES ASSUME ZoneInv, AuditFirst PROVE ZoneInv'
  OBVIOUS
<1>1. /\ stage = "audit" /\ stage' = "registry"
      /\ UNCHANGED <<zone, resolver, look, reach, deleg, notAZone, dnssec, rdap, report>>
  BY DEF AuditFirst, world
<1>2. /\ zone \in Worlds /\ lost \in 0..MaxLost /\ MaxLost \in Nat /\ Heard /\ Classified
      /\ silent \in BOOLEAN /\ (silent => Dead(zone) \/ lost >= 2)
  BY <1>1, LostAssumption DEF ZoneInv, TypeOK, Judged
<1>3. /\ lost' \in 0..MaxLost /\ lost' >= lost /\ silent' \in BOOLEAN
      /\ silent' => Dead(zone) \/ lost' >= 2
  <2>1. CASE ~delegationSilent
    <3>1. silent' = silent /\ lost' = lost
      BY <2>1 DEF AuditFirst
    <3> QED  BY <1>2, <3>1
  <2>2. CASE delegationSilent
    <3>1. PICK s \in BOOLEAN :
             /\ s # Dead(zone) => lost < MaxLost
             /\ silent' = s
             /\ lost' = lost + (IF s # Dead(zone) THEN 1 ELSE 0)
      BY <2>2 DEF AuditFirst
    <3>2. lost = 0 => Dead(zone)
      BY <1>2, <2>2, SilentDelegation
    <3>3. Dead(zone) \in BOOLEAN
      BY DEF Dead
    <3>4. CASE s = Dead(zone)
      <4>1. lost' = lost /\ silent' = Dead(zone)
        BY <1>2, <3>1, <3>4
      <4> QED  BY <1>2, <3>3, <4>1
    <3>5. CASE s # Dead(zone)
      <4>1. lost' = lost + 1 /\ lost < MaxLost
        BY <3>1, <3>5
      <4>2. lost' \in 0..MaxLost /\ lost' >= lost /\ (lost # 0 => lost' >= 2)
        BY <1>2, <4>1
      <4> QED  BY <3>1, <3>2, <4>2
    <3> QED  BY <3>4, <3>5
  <2> QED  BY <2>1, <2>2
<1>4. Heard' /\ Classified'
  BY <1>1, <1>2, <1>3, HeardKept, ClassifiedKept
<1>5. TypeOK'
  BY <1>1, <1>3 DEF ZoneInv, TypeOK
<1>6. silent' => Dead(zone)' \/ lost' >= 2
  BY <1>1, <1>3
<1> QED  BY <1>1, <1>4, <1>5, <1>6 DEF ZoneInv, Judged

\* checkRDAP keeps the invariant.
LEMMA RDAPInv == ZoneInv /\ CheckRDAP => ZoneInv'
<1> SUFFICES ASSUME ZoneInv, CheckRDAP PROVE ZoneInv'
  OBVIOUS
<1>1. /\ stage = "registry" /\ stage' = "finish"
      /\ UNCHANGED <<zone, resolver, look, reach, deleg, notAZone, dnssec, silent, report>>
  BY DEF CheckRDAP, world
<1>2. /\ lost \in 0..MaxLost /\ MaxLost \in Nat /\ Heard /\ Classified
      /\ silent => Dead(zone) \/ lost >= 2
  BY <1>1, LostAssumption DEF ZoneInv, TypeOK, Judged
<1>3. PICK truth \in Registry(zone), heard \in BOOLEAN, asked \in BOOLEAN :
         /\ heard => asked
         /\ asked /\ ~heard => lost < MaxLost
         /\ asked => zone.kind # "reserved"
         /\ lost' = lost + (IF asked /\ ~heard THEN 1 ELSE 0)
         /\ rdap' = [asked |-> asked,
                     registered |-> CASE heard /\ truth = "none" -> "no"
                                      [] heard /\ truth # "none" -> "yes"
                                      [] OTHER -> "nil",
                     status |-> IF heard THEN {truth} \ {"none", "active"} ELSE {},
                     truth  |-> {truth}]
  BY DEF CheckRDAP
<1>4. lost' \in 0..MaxLost /\ lost' >= lost
  BY <1>2, <1>3
<1>5. Registered(truth, heard)'
  <2>1. (CASE heard /\ truth = "none" -> "no" [] heard /\ truth # "none" -> "yes" [] OTHER -> "nil")
           = IF heard THEN IF truth = "none" THEN "no" ELSE "yes" ELSE "nil"
    OBVIOUS
  <2> QED  BY <1>1, <1>3, <2>1 DEF Registered
<1>6. RegistryHeard'
  BY <1>1, <1>5 DEF RegistryHeard
<1>7. Heard' /\ Classified'
  BY <1>1, <1>2, <1>4, HeardKept, ClassifiedKept
<1>8. TypeOK'
  BY <1>1, <1>4 DEF ZoneInv, TypeOK
<1>9. silent' => Dead(zone)' \/ lost' >= 2
  BY <1>1, <1>2, <1>4
<1> QED  BY <1>1, <1>6, <1>7, <1>8, <1>9 DEF ZoneInv, Judged

\* The findings are a function of what the phases left.
LEMMA FindingsKept ==
    ASSUME UNCHANGED <<zone, resolver, look, reach, deleg, notAZone, dnssec, silent, rdap>>,
           NEW other
    PROVE  buildFindings(other)' = buildFindings(other)
<1>1. UNCHANGED <<delegationSilent, zoneUnreachable>>
  BY DEF delegationSilent, zoneUnreachable
<1>2. UNCHANGED <<reachabilityFindings, rdapFindings, dnssecFindings>>
  BY DEF reachabilityFindings, rdapFindings, dnssecFindings, If
<1>3. UNCHANGED <<nameDoesNotExist, noRecordsAtAll, apexAbsent, apexMissing>>
  BY DEF nameDoesNotExist, noRecordsAtAll, apexAbsent, apexMissing
<1>4. UNCHANGED delegationFindings
  BY <1>3 DEF delegationFindings, If
<1>5. UNCHANGED presenceWarnings
  BY <1>3 DEF presenceWarnings, If
<1>6. UNCHANGED zoneKindFindings
  BY DEF zoneKindFindings, If
<1>7. ASSUME NEW q PROVE lookupFindings(q)' = lookupFindings(q)
  BY DEF lookupFindings, folded, If
<1>8. UNCHANGED dnsFindings
  BY <1>3, <1>5, <1>6, <1>7 DEF dnsFindings
<1> QED  BY <1>1, <1>2, <1>4, <1>8 DEF buildFindings

\* finishReport keeps the invariant.
LEMMA FinishInv == ZoneInv /\ FinishReport => ZoneInv'
<1> SUFFICES ASSUME ZoneInv, FinishReport PROVE ZoneInv'
  OBVIOUS
<1>1. /\ stage = "finish" /\ stage' = "done"
      /\ UNCHANGED <<zone, resolver, look, reach, deleg, notAZone, dnssec, silent, rdap, lost>>
  BY DEF FinishReport, world
<1>2. /\ lost \in 0..MaxLost /\ MaxLost \in Nat /\ Heard /\ Classified /\ RegistryHeard
      /\ silent => Dead(zone) \/ lost >= 2
  BY <1>1, LostAssumption DEF ZoneInv, TypeOK, Judged
<1>3. Reported'
  <2>1. PICK other \in SUBSET {"other"} :
           report' = [codes |-> buildFindings(other), ok |-> buildFindings(other) \intersect Fails = {}]
    BY DEF FinishReport
  <2>2. buildFindings(other)' = buildFindings(other)
    BY <1>1, FindingsKept
  <2> QED  BY <2>1, <2>2 DEF Reported
<1>4. RegistryHeard'
  BY <1>1, <1>2 DEF RegistryHeard, Registered
<1>5. Heard' /\ Classified'
  BY <1>1, <1>2, HeardKept, ClassifiedKept
<1>6. TypeOK'
  BY <1>1 DEF ZoneInv, TypeOK
<1>7. silent' => Dead(zone)' \/ lost' >= 2
  BY <1>1, <1>2
<1> QED  BY <1>1, <1>3, <1>4, <1>5, <1>6, <1>7 DEF ZoneInv, Judged

\* So does a step that changes nothing.
LEMMA StutterInv == ZoneInv /\ UNCHANGED vars => ZoneInv'
<1> SUFFICES ASSUME ZoneInv, UNCHANGED vars PROVE ZoneInv'
  OBVIOUS
<1>1. UNCHANGED <<zone, resolver, stage, look, reach, deleg, notAZone, dnssec, silent, rdap, report, lost>>
  BY DEF vars, world
<1>2. lost \in 0..MaxLost /\ MaxLost \in Nat
  BY LostAssumption DEF ZoneInv, TypeOK
<1>3. (Heard => Heard') /\ (Classified => Classified') /\ (Traced => Traced')
  BY <1>1, <1>2, HeardKept, ClassifiedKept, TracedKept
<1>4. RegistryHeard => RegistryHeard'
  BY <1>1 DEF RegistryHeard, Registered
<1>5. Reported => Reported'
  <2> SUFFICES ASSUME Reported PROVE Reported'
    OBVIOUS
  <2>1. PICK other \in SUBSET {"other"} :
           report = [codes |-> buildFindings(other), ok |-> buildFindings(other) \intersect Fails = {}]
    BY DEF Reported
  <2>2. buildFindings(other)' = buildFindings(other)
    BY <1>1, FindingsKept
  <2> QED  BY <1>1, <2>1, <2>2 DEF Reported
<1>6. TypeOK'
  BY <1>1 DEF ZoneInv, TypeOK
<1>7. UNCHANGED Judged
  BY <1>1 DEF Judged
<1> QED  BY <1>1, <1>3, <1>4, <1>5, <1>6, <1>7 DEF ZoneInv

\* So it holds throughout a run.
LEMMA ZoneInvariant == Spec => []ZoneInv
<1>1. ZoneInv /\ [Next]_vars => ZoneInv'
  BY GatherInv, WaveInv, TraceInv, ClassifyInv, AuditInv, RDAPInv, FinishInv, StutterInv DEF Next, Done
<1> QED  BY <1>1, ZoneInit, PTL DEF Spec

-----------------------------------------------------------------------------
(* The findings *)

\* Which part of the report each code can come from.
LEMMA FindingParts ==
    /\ rdapFindings \subseteq {"domain_on_hold", "domain_pending_deletion", "rdap_lookup_failed"}
    /\ reachabilityFindings \subseteq {"resolver_unreachable"}
    /\ apexMissing \subseteq {"apex_nxdomain", "apex_empty"}
    /\ "apex_nxdomain" \in apexMissing => nameDoesNotExist
    /\ "apex_empty" \in apexMissing => noRecordsAtAll
    /\ apexAbsent => apexMissing # {}
    /\ \A q : lookupFindings(q) \subseteq {"lookup_timeout", "lookup_failed"}
    /\ zoneKindFindings \subseteq {"not_a_zone", "ns_absent"}
    /\ presenceWarnings \subseteq {"reserved_nxdomain", "apex_no_address", "aaaa_absent", "www_nxdomain",
                                   "www_no_address", "mx_absent"}
    /\ dnssecFindings \subseteq {"dnssec_bogus", "resolver_servfail", "dnssec_dnskey_no_ds",
                                 "dnssec_unknown", "dnssec_unsigned"}
    /\ delegationFindings \subseteq {"delegation_mismatch", "not_delegated", "delegation_nodata",
                                     "delegation_no_answer", "delegation_lame", "delegation_trace_failed"}
    /\ dnsFindings \subseteq apexMissing \union {"lookup_timeout", "lookup_failed"} \union zoneKindFindings
                             \union presenceWarnings
<1>1. rdapFindings \subseteq {"domain_on_hold", "domain_pending_deletion", "rdap_lookup_failed"}
  BY DEF rdapFindings, If
<1>2. reachabilityFindings \subseteq {"resolver_unreachable"}
  BY DEF reachabilityFindings, If
<1>3. /\ apexMissing \subseteq {"apex_nxdomain", "apex_empty"}
      /\ "apex_nxdomain" \in apexMissing => nameDoesNotExist
      /\ "apex_empty" \in apexMissing => noRecordsAtAll
      /\ apexAbsent => apexMissing # {}
  <2>1. /\ nameDoesNotExist => apexMissing = {"apex_nxdomain"}
        /\ ~nameDoesNotExist /\ noRecordsAtAll => apexMissing = {"apex_empty"}
        /\ ~nameDoesNotExist /\ ~noRecordsAtAll => apexMissing = {}
    BY DEF apexMissing
  <2> QED  BY <2>1 DEF apexAbsent
<1>4. ASSUME NEW q PROVE lookupFindings(q) \subseteq {"lookup_timeout", "lookup_failed"}
  BY DEF lookupFindings, If
<1>5. zoneKindFindings \subseteq {"not_a_zone", "ns_absent"}
  BY DEF zoneKindFindings, If
<1>6. ASSUME NEW a, NEW aaaa, NEW missing, NEW none
      PROVE  addressWarnings(a, aaaa, missing, none) \subseteq {missing, none, "aaaa_absent"}
  BY DEF addressWarnings, If
<1>7. presenceWarnings \subseteq {"reserved_nxdomain", "apex_no_address", "aaaa_absent", "www_nxdomain",
                                  "www_no_address", "mx_absent"}
  <2>1. If(~notAZone /\ ~nameDoesNotExist /\ Answered(look["MX"]) /\ ~look["MX"].has, "mx_absent")
           \subseteq {"mx_absent"}
    BY DEF If
  <2>2. /\ addressWarnings(look["A"], look["AAAA"], "reserved_nxdomain", "apex_no_address")
              \subseteq {"reserved_nxdomain", "apex_no_address", "aaaa_absent"}
        /\ addressWarnings(look["wwwA"], look["wwwAAAA"], "www_nxdomain", "www_no_address")
              \subseteq {"www_nxdomain", "www_no_address", "aaaa_absent"}
    BY <1>6
  <2> QED  BY <2>1, <2>2 DEF presenceWarnings
<1>8. dnssecFindings \subseteq {"dnssec_bogus", "resolver_servfail", "dnssec_dnskey_no_ds",
                                "dnssec_unknown", "dnssec_unsigned"}
  BY DEF dnssecFindings, If
<1>9. delegationFindings \subseteq {"delegation_mismatch", "not_delegated", "delegation_nodata",
                                    "delegation_no_answer", "delegation_lame", "delegation_trace_failed"}
  BY DEF delegationFindings, If
<1>10. dnsFindings \subseteq apexMissing \union {"lookup_timeout", "lookup_failed"} \union zoneKindFindings
                             \union presenceWarnings
  BY <1>4 DEF dnsFindings
<1> QED  BY <1>1, <1>2, <1>3, <1>4, <1>5, <1>7, <1>8, <1>9, <1>10

\* The three ways out of buildFindings.
LEMMA WaysOut ==
    ASSUME NEW other \in SUBSET {"other"}
    PROVE  /\ zoneUnreachable =>
                 buildFindings(other) = reachabilityFindings \union {"zone_unreachable"} \union rdapFindings
           /\ ~zoneUnreachable /\ zone.kind = "reserved" =>
                 buildFindings(other) = reachabilityFindings \union {"reserved_name"}
           /\ ~zoneUnreachable /\ zone.kind # "reserved" =>
                 buildFindings(other) =
                     dnsFindings \union rdapFindings \union dnssecFindings \union delegationFindings
                     \union reachabilityFindings \union other
  BY DEF buildFindings

\* Where a code of the report that the theorems are about comes from.
LEMMA Origins ==
    ASSUME NEW other \in SUBSET {"other"}
    PROVE  /\ "domain_on_hold" \in buildFindings(other) => "domain_on_hold" \in rdapFindings
           /\ "apex_nxdomain" \in buildFindings(other) => "apex_nxdomain" \in apexMissing
           /\ "apex_empty" \in buildFindings(other) => "apex_empty" \in apexMissing
           /\ "not_delegated" \in buildFindings(other) => "not_delegated" \in delegationFindings
           /\ "zone_unreachable" \in buildFindings(other) => zoneUnreachable
<1> DEFINE early == {"resolver_unreachable", "zone_unreachable", "reserved_name"}
           late  == {"other", "resolver_unreachable", "lookup_timeout", "lookup_failed", "not_a_zone",
                     "ns_absent", "reserved_nxdomain", "apex_no_address", "aaaa_absent",
                     "www_nxdomain", "www_no_address", "mx_absent", "dnssec_bogus",
                     "resolver_servfail", "dnssec_dnskey_no_ds", "dnssec_unknown",
                     "dnssec_unsigned"}
<1>1. zoneUnreachable \/ zone.kind = "reserved" => buildFindings(other) \subseteq early \union rdapFindings
  BY WaysOut, FindingParts
<1>2. ~zoneUnreachable /\ zone.kind = "reserved" => "zone_unreachable" \notin buildFindings(other)
  BY WaysOut, FindingParts
<1>3. dnsFindings \subseteq apexMissing \union late
  BY FindingParts
<1>4. dnssecFindings \union reachabilityFindings \union other \subseteq late
  BY FindingParts
<1>5. ~zoneUnreachable /\ zone.kind # "reserved" =>
         buildFindings(other) \subseteq apexMissing \union rdapFindings \union delegationFindings \union late
  BY <1>3, <1>4, WaysOut
<1>6. /\ "domain_on_hold" \notin late \union early \union apexMissing \union delegationFindings
      /\ "apex_nxdomain" \notin late \union early \union rdapFindings \union delegationFindings
      /\ "apex_empty" \notin late \union early \union rdapFindings \union delegationFindings
      /\ "not_delegated" \notin late \union early \union rdapFindings \union apexMissing
      /\ "zone_unreachable" \notin late \union rdapFindings \union apexMissing \union delegationFindings
  BY FindingParts
<1> HIDE DEF early, late
<1>7. CASE zoneUnreachable \/ zone.kind = "reserved"
  BY <1>1, <1>2, <1>6, <1>7
<1>8. CASE ~zoneUnreachable /\ zone.kind # "reserved"
  BY <1>5, <1>6, <1>8
<1> QED  BY <1>7, <1>8

\* What the answers of the apex say of a name with nothing.
LEMMA EmptyName ==
    ASSUME zone \in Worlds, Heard, noRecordsAtAll
    PROVE  zone.records = {} /\ ~Has(zone, "NS")
<1>1. ASSUME NEW q \in ApexTypes PROVE ~Has(zone, q)
  <2>1. q \in Queries /\ Answered(look[q]) /\ ~look[q].has
    BY <1>1, HeardFacts DEF noRecordsAtAll
  <2> QED  BY <2>1, HeardFacts DEF Says
<1>2. zone.records \subseteq {"A", "AAAA", "MX", "TXT"} /\ ApexTypes = {"A", "AAAA", "MX", "TXT", "NS"}
  BY WorldFacts, HeardFacts
<1>3. \A q \in zone.records : Has(zone, q)
  BY DEF Has
<1> QED  BY <1>1, <1>2, <1>3

\* Every variable of ZoneReport keeps its type, whatever the name, the
\* resolver and the answers lost.
THEOREM ZoneTypeCorrect == Spec => []TypeOK
  BY ZoneInvariant, PTL DEF ZoneInv

\* The DNSSEC verdict claims nothing that the name is not, whatever was lost
\* (classifyDNS, classifyDNSSEC, classifyFailure, classifyByTrust).
THEOREM DNSSECVerdictsAreSound == Spec => []StateSound
<1>1. ZoneInv => StateSound
  BY DEF ZoneInv, Classified, VerdictOK, StateSound
<1> QED  BY <1>1, ZoneInvariant, PTL

\* A name is taken for a host, for one that does not exist, for an empty one,
\* for one not delegated or for one whose servers are silent only if it is
\* (detectNotAZone, apexMissing, delegationFindings, zoneUnreachable).
THEOREM KindVerdictsAreSound == Spec => []KindSound
<1>1. ASSUME ZoneInv PROVE KindSound
  <2>1. notAZone => \/ zone.kind \in {"host", "alias"}
                    \/ zone.kind = "zone" /\ zone.servers = "nons" /\ lost > 0
    BY <1>1 DEF ZoneInv, Classified
  <2>2. CASE stage # "done"
    BY <1>1, <2>1, <2>2 DEF ZoneInv, KindSound
  <2>3. CASE stage = "done"
    <3>1. zone \in Worlds /\ Heard /\ Classified /\ (silent => Dead(zone) \/ lost >= 2)
      BY <1>1, <2>3 DEF ZoneInv, TypeOK, Judged
    <3>2. PICK other \in SUBSET {"other"} : report.codes = buildFindings(other)
      BY <1>1, <2>3 DEF ZoneInv, Reported
    <3>3. "apex_nxdomain" \in report.codes => NoSuchName(zone, "A")
      <4>1. "apex_nxdomain" \in report.codes => "apex_nxdomain" \in apexMissing
        BY <3>2, Origins
      <4> QED  BY <3>1, <4>1, FindingParts, AnswerFacts
    <3>4. "apex_empty" \in report.codes => zone.records = {} /\ ~Has(zone, "NS")
      <4>1. "apex_empty" \in report.codes => "apex_empty" \in apexMissing
        BY <3>2, Origins
      <4> QED  BY <3>1, <4>1, FindingParts, EmptyName
    <3>5. ASSUME "not_delegated" \in report.codes
          PROVE  zone.kind \in {"host", "absent"} /\ ~Answered(look["NS"])
      <4>1. "not_delegated" \in delegationFindings
        BY <3>2, <3>5, Origins
      <4>2. deleg.status = "not_delegated" /\ ~apexAbsent
        BY <4>1 DEF delegationFindings, If
      <4>3. zone.kind # "reserved" /\ ~notAZone
        BY <3>1, <4>2 DEF Classified
      <4>4. /\ zone.kind \in {"host", "absent"}
            /\ zone.kind = "host" => ~Answered(look["NS"])
        BY <3>1, <4>2, <4>3 DEF Classified, Traced, TraceOf
      <4>5. zone.kind = "absent" => ~Answered(look["NS"])
        BY <3>1, <4>2, AnswerFacts DEF NoSuchName, apexAbsent
      <4> QED  BY <4>4, <4>5
    <3>6. ASSUME "zone_unreachable" \in report.codes
          PROVE  zone.kind = "zone" /\ (Dead(zone) \/ lost >= 2)
      <4>1. zoneUnreachable
        BY <3>2, <3>6, Origins
      <4> QED  BY <3>1, <4>1, SilentDelegation DEF zoneUnreachable
    <3> QED  BY <2>1, <3>3, <3>4, <3>5, <3>6 DEF KindSound
  <2> QED  BY <2>2, <2>3
<1> QED  BY <1>1, ZoneInvariant, PTL

\* A report that is ok hides no lookup without an answer, no trace that was
\* cut short and no resolver out of reach (lookupFindings, folded,
\* delegationFindings, buildFindings, finishReport).
THEOREM OkReportsAreComplete == Spec => []OkMeansHeard
<1>1. ASSUME ZoneInv, stage = "done", report.ok, zone.kind # "reserved"
      PROVE  /\ \A q \in (ApexTypes \union wwwTypes) \intersect Asked(zone) : Answered(look[q])
             /\ deleg.status \in {"match", "same_servers", "not_a_zone"}
             /\ zone.servers # "differ" \/ deleg.status = "match"
             /\ \A f \in resolver.serves : reach[f] = "yes"
  <2>0. PICK other \in SUBSET {"other"} :
           report = [codes |-> buildFindings(other), ok |-> buildFindings(other) \intersect Fails = {}]
    BY <1>1 DEF ZoneInv, Reported
  <2>1. zone \in Worlds /\ Heard /\ Classified
    BY <1>1 DEF ZoneInv, TypeOK, Judged
  <2>2. buildFindings(other) \intersect Fails = {}
    BY <1>1, <2>0
  <2>3. ~zoneUnreachable
    BY <2>2, WaysOut DEF Fails
  <2>4. \A c \in Fails : c \notin dnsFindings /\ c \notin dnssecFindings /\ c \notin delegationFindings
                         /\ c \notin reachabilityFindings
    BY <1>1, <2>2, <2>3, WaysOut
  <2>5. apexMissing = {} /\ ~apexAbsent
    <3>1. apexMissing # {} => dnsFindings = apexMissing
      BY DEF dnsFindings
    <3>2. apexMissing \subseteq Fails
      BY FindingParts DEF Fails
    <3>3. apexMissing = {}
      BY <2>4, <3>1, <3>2
    <3> QED  BY <3>3, FindingParts
  <2>6. \A f \in resolver.serves : reach[f] = "yes"
    <3>1. "resolver_unreachable" \notin reachabilityFindings
      BY <2>4 DEF Fails
    <3> QED  BY <2>1, <3>1 DEF reachabilityFindings, If, Heard
  <2>7. ~folded
    BY <2>4 DEF folded, dnssecFindings, Fails
  <2>8. ASSUME NEW q \in (ApexTypes \union wwwTypes) \intersect Asked(zone)
        PROVE  Answered(look[q])
    <3>1. lookupFindings(q) \subseteq dnsFindings
      BY <2>5, <2>8 DEF dnsFindings
    <3>2. "lookup_timeout" \notin lookupFindings(q) /\ "lookup_failed" \notin lookupFindings(q)
      BY <2>4, <3>1 DEF Fails
    <3>3. look[q].status # "timeout" /\ ~Failed(look[q])
      BY <2>7, <3>2 DEF lookupFindings, If
    <3>4. q \in Queries /\ look[q] \in LookupTypes /\ look[q].status # "none"
      BY <2>1, <2>8 DEF Heard, LookSound, Asked
    <3>5. look[q].status \in {"none", "ok", "nxrrset", "nxdomain", "failure", "timeout"}
      BY <3>4 DEF LookupTypes
    <3> QED  BY <3>3, <3>4, <3>5 DEF Answered, Failed
  <2>9. deleg.status \notin {"mismatch", "no_child_answer", "child_no_ns", "error", "not_delegated"}
    <3>1. deleg.status = "mismatch" => "delegation_mismatch" \in delegationFindings
      BY DEF delegationFindings
    <3>2. deleg.status = "no_child_answer" =>
             "delegation_nodata" \in delegationFindings \/ "delegation_no_answer" \in delegationFindings
      BY DEF delegationFindings
    <3>3. deleg.status = "child_no_ns" => "delegation_lame" \in delegationFindings
      BY DEF delegationFindings
    <3>4. deleg.status = "error" => "delegation_trace_failed" \in delegationFindings
      BY DEF delegationFindings
    <3>5. deleg.status = "not_delegated" => "not_delegated" \in delegationFindings
      BY <2>5 DEF delegationFindings, If
    <3> QED  BY <2>4, <3>1, <3>2, <3>3, <3>4, <3>5 DEF Fails
  <2>10. CASE notAZone
    <3>1. deleg.status = "not_a_zone" /\ (zone.kind \in {"host", "alias"} \/ zone.servers = "nons")
      BY <2>1, <2>10 DEF Classified
    <3>2. zone.servers # "differ"
      BY <2>1, <3>1, WorldFacts
    <3> QED  BY <2>6, <2>8, <3>1, <3>2
  <2>11. CASE ~notAZone
    <3>1. TraceOf(deleg, zone)
      BY <1>1, <2>1, <2>11 DEF Classified, Traced
    <3>2. deleg.status \in {"match", "same_servers"}
      BY <2>9, <3>1 DEF TraceOf, TraceStatuses
    <3>3. zone.servers # "differ"
      BY <3>1, <3>2 DEF TraceOf
    <3> QED  BY <2>6, <2>8, <3>2, <3>3
  <2> QED  BY <2>10, <2>11
<1>2. ZoneInv => OkMeansHeard
  BY <1>1 DEF OkMeansHeard
<1> QED  BY <1>2, ZoneInvariant, PTL

\* A hold or a pending deletion that the registry reports is in the report on
\* every way out, and silence is not read as a clean registration (startRDAP,
\* checkRDAP, rdapFindings, buildFindings).
THEOREM RegistrationIsTold == Spec => []RegistryTold
<1>1. ASSUME ZoneInv, stage = "done", rdap.asked
      PROVE  /\ rdap.registered = "nil" => "rdap_lookup_failed" \in report.codes
             /\ rdap.registered # "nil" /\ rdap.truth = {"hold"} =>
                    "domain_on_hold" \in report.codes /\ ~report.ok
             /\ rdap.registered # "nil" /\ rdap.truth = {"deleting"} =>
                    "domain_pending_deletion" \in report.codes
             /\ "domain_on_hold" \in report.codes => rdap.truth = {"hold"}
  <2>1. PICK other \in SUBSET {"other"} :
           report = [codes |-> buildFindings(other), ok |-> buildFindings(other) \intersect Fails = {}]
    BY <1>1 DEF ZoneInv, Reported
  <2>2. report.codes = buildFindings(other) /\ (report.ok => report.codes \intersect Fails = {})
    BY <2>1
  <2>3. PICK truth \in Registry(zone), heard \in BOOLEAN : Registered(truth, heard)
    BY <1>1 DEF ZoneInv, RegistryHeard
  <2>4. /\ rdap.truth = {truth} /\ zone.kind # "reserved"
        /\ rdap.registered = IF heard THEN IF truth = "none" THEN "no" ELSE "yes" ELSE "nil"
        /\ rdap.status = IF heard THEN {truth} \ {"none", "active"} ELSE {}
    BY <1>1, <2>3 DEF Registered
  <2>5. rdapFindings \subseteq report.codes
    BY <2>2, <2>4, WaysOut
  <2>6. "domain_on_hold" \in report.codes => "domain_on_hold" \in rdapFindings
    BY <2>2, Origins
  <2>7. rdapFindings = If("hold" \in rdap.status, "domain_on_hold")
                       \union If("deleting" \in rdap.status, "domain_pending_deletion")
                       \union If(rdap.registered = "nil", "rdap_lookup_failed")
    BY <1>1 DEF rdapFindings
  <2>8. /\ "domain_on_hold" \in rdapFindings <=> "hold" \in rdap.status
        /\ "domain_pending_deletion" \in rdapFindings <=> "deleting" \in rdap.status
        /\ "rdap_lookup_failed" \in rdapFindings <=> rdap.registered = "nil"
    BY <2>7 DEF If
  <2>9. rdap.truth = {"hold"} => truth = "hold"
    BY <2>4
  <2>10. rdap.truth = {"deleting"} => truth = "deleting"
    BY <2>4
  <2>11. "domain_on_hold" \in report.codes => ~report.ok
    BY <2>2 DEF Fails
  <2>12. rdap.registered # "nil" => heard
    BY <2>4
  <2> QED  BY <2>4, <2>5, <2>6, <2>8, <2>9, <2>10, <2>11, <2>12
<1>2. ZoneInv => RegistryTold
  BY <1>1 DEF RegistryTold
<1> QED  BY <1>2, ZoneInvariant, PTL

\* With nothing lost and a resolver that validates, a live zone gets its own
\* verdict, and fails only for what is wrong with it (classifyDNSSEC,
\* firstFailed, traceDelegation, buildFindings).
THEOREM CompleteAnswersDecide == Spec => []AnswersDecide
<1> DEFINE Own ==
        {"other"}
        \union If(zone.signing \in Bogus, IF Expected = "bogus" THEN "dnssec_bogus" ELSE "resolver_servfail")
        \union If(zone.servers = "differ", "delegation_mismatch")
        \union If(zone.servers = "nons", "delegation_lame")
        \union If(zone.servers = "nons" /\ zone.records = {}, "apex_empty")
<1>1. ASSUME ZoneInv, stage = "done", lost = 0, zone.kind = "zone", ~Dead(zone), Validates
      PROVE  dnssec = Expected /\ ~notAZone /\ report.codes \intersect Fails \subseteq Own
  <2>1. /\ zone \in Worlds /\ Heard /\ Classified /\ ~silent /\ Live
        /\ RegistryHeard
    BY <1>1 DEF ZoneInv, TypeOK, Judged, Live
  <2>2. zone.signing \in Signings /\ zone.servers \in Servers
    BY <2>1, WorldFacts
  <2>3. dnssec = Expected /\ ~notAZone
    BY <1>1, <2>1 DEF Classified
  <2>4. deleg.status = Straight(zone.servers)
    BY <1>1, <2>1, <2>3 DEF Classified, Traced
  <2>5. PICK other \in SUBSET {"other"} : report.codes = buildFindings(other)
    BY <1>1 DEF ZoneInv, Reported
  <2>6. report.codes = dnsFindings \union rdapFindings \union dnssecFindings \union delegationFindings
                       \union reachabilityFindings \union other
    <3>1. ~zoneUnreachable
      BY <2>1 DEF zoneUnreachable
    <3> QED  BY <1>1, <2>5, <3>1, WaysOut
  <2>7. /\ zone.signing \in Bogus => Expected \in {"bogus", "servfail"}
        /\ zone.signing \notin Bogus => Expected \notin {"bogus", "servfail"}
    BY <2>2 DEF Expected, Signings, Bogus
  <2>8. reachabilityFindings = {}
    BY <1>1, <2>1 DEF Heard, reachabilityFindings, If
  <2>9. rdapFindings \intersect Fails = {}
    <3>1. PICK truth \in Registry(zone), heard \in BOOLEAN : Registered(truth, heard)
      BY <2>1 DEF RegistryHeard
    <3>2. Registry(zone) = {"active"}
      BY <1>1 DEF Registry
    <3>3. rdap.status = {}
      BY <3>1, <3>2 DEF Registered
    <3>4. "domain_on_hold" \notin rdapFindings
      BY <3>3 DEF rdapFindings, If
    <3> QED  BY <3>4, FindingParts DEF Fails
  <2>10. dnssecFindings \intersect Fails \subseteq Own
    <3>1. "dnssec_bogus" \in dnssecFindings => dnssec = "bogus"
      BY DEF dnssecFindings, If
    <3>2. "resolver_servfail" \in dnssecFindings => dnssec = "servfail"
      BY DEF dnssecFindings, If
    <3>3. dnssec = "bogus" => "dnssec_bogus" \in Own
      BY <2>3, <2>7 DEF If
    <3>4. dnssec = "servfail" => "resolver_servfail" \in Own
      BY <2>3, <2>7 DEF If
    <3>5. dnssecFindings \intersect Fails \subseteq {"dnssec_bogus", "resolver_servfail"}
      BY FindingParts DEF Fails
    <3> HIDE DEF Own
    <3> QED  BY <3>1, <3>2, <3>3, <3>4, <3>5
  <2>11. delegationFindings \subseteq Own
    <3>1. CASE zone.servers = "differ"
      BY <2>4, <3>1 DEF Straight, delegationFindings, If
    <3>2. CASE zone.servers = "nons"
      BY <2>4, <3>2 DEF Straight, delegationFindings, If
    <3>3. CASE zone.servers \notin {"differ", "nons"}
      <4>1. deleg.status \in {"match", "same_servers"}
        BY <2>4, <3>3 DEF Straight
      <4>2. delegationFindings = {}
        BY <4>1 DEF delegationFindings
      <4> QED  BY <4>2
    <3> QED  BY <3>1, <3>2, <3>3
  <2>12. apexMissing \subseteq Own
    <3>1. "apex_nxdomain" \notin apexMissing
      BY <1>1, <2>1, FindingParts, AnswerFacts
    <3>2. "apex_empty" \in apexMissing => zone.records = {} /\ zone.servers = "nons"
      <4>1. "apex_empty" \in apexMissing => zone.records = {} /\ ~Has(zone, "NS")
        BY <2>1, FindingParts, EmptyName
      <4>2. zone.servers # "nons" => Has(zone, "NS")
        BY <1>1 DEF Has
      <4> QED  BY <4>1, <4>2
    <3>3. "apex_empty" \in apexMissing => "apex_empty" \in Own
      BY <3>2 DEF If
    <3> HIDE DEF Own
    <3> QED  BY <3>1, <3>3, FindingParts
  <2>13. ASSUME NEW q \in ApexTypes \union wwwTypes PROVE lookupFindings(q) = {}
    <3>1. q \in Asked(zone) /\ q \in Queries /\ q # "DS"
      BY <1>1, <2>13 DEF Asked, Queries, ApexTypes, apexTypes, wwwTypes
    <3>2. look[q].status # "timeout" /\ (Answered(look[q]) <=> ~Hidden(zone, q, Validates))
      BY <1>1, <2>1, <3>1 DEF Heard
    <3>3. Failed(look[q]) => ~Answered(look[q])
      BY DEF Failed, Answered
    <3>4. Hidden(zone, q, Validates) => zone.signing \in Bogus
      BY <1>1 DEF Hidden
    <3>5. Failed(look[q]) => folded
      BY <2>3, <2>7, <3>2, <3>3, <3>4 DEF folded
    <3> QED  BY <3>2, <3>5 DEF lookupFindings, If
  <2>14. "ns_absent" \notin zoneKindFindings
    <3>1. CASE zone.servers = "nons"
      <4>1. deleg.status = "child_no_ns"
        BY <2>4, <3>1 DEF Straight
      <4> QED  BY <2>3, <4>1 DEF zoneKindFindings
    <3>2. CASE zone.servers # "nons"
      <4>1. Has(zone, "NS") /\ "NS" \in Queries
        BY <1>1, <2>1, <3>2, HeardFacts DEF Has
      <4>2. Answered(look["NS"]) => look["NS"].has
        BY <2>1, <4>1, HeardFacts DEF Says
      <4> QED  BY <4>2 DEF zoneKindFindings, If
    <3> QED  BY <3>1, <3>2
  <2>15. dnsFindings \intersect Fails \subseteq Own
    <3>1. zoneKindFindings \intersect Fails = {} /\ presenceWarnings \intersect Fails = {}
      BY <2>14, FindingParts DEF Fails
    <3>2. dnsFindings \subseteq apexMissing \union zoneKindFindings \union presenceWarnings
      BY <2>13 DEF dnsFindings
    <3> HIDE DEF Own
    <3> QED  BY <2>12, <3>1, <3>2
  <2>16. other \subseteq Own
    OBVIOUS
  <2> HIDE DEF Own
  <2> QED  BY <2>3, <2>6, <2>8, <2>9, <2>10, <2>11, <2>15, <2>16
<1>2. ZoneInv => AnswersDecide
  BY <1>1 DEF AnswersDecide
<1> QED  BY <1>2, ZoneInvariant, PTL
=============================================================================
