--------------------------- MODULE NSAuditProofs ---------------------------
(***************************************************************************)
(* Proofs about the nameserver audit, for any set of names and addresses.  *)
(* The inductive invariant says, per name and address, what a goroutine in *)
(* each place has asked, heard and recorded, and ties the entries to the   *)
(* addresses that resolveNS admitted.                                      *)
(***************************************************************************)
EXTENDS NSAudit, TLAPS

\* A task that auditAll started, or answered itself because of its address.
Wanted(t) == t[2] \in addrs[t[1]] /\ FamilyOf(t[2]) \in Families

\* What a goroutine has asked, heard and recorded, by where it is: an answer
\* that counts ends it.
TaskInv ==
    \A t \in Tasks :
        /\ pc[t] = "off" => kept[t] = {} /\ asked[t] = 0 /\ entry[t] \in {NoServer, ReservedEntry}
        /\ pc[t] = "first" => kept[t] = {} /\ asked[t] = 0 /\ entry[t] = NoServer
        /\ pc[t] = "second" => kept[t] = {} /\ asked[t] \in 0..1 /\ entry[t] = NoServer
        /\ pc[t] = "done" =>
            /\ entry[t].verdict \in {"authoritative", "lame", "silent"}
            /\ kept[t] \subseteq {entry[t].verdict} \ {"silent"}
            /\ entry[t].verdict = "authoritative" => kept[t] = {"authoritative"}
            /\ entry[t].verdict = "silent" /\ ~over => entry[t].retries = 1

\* Who is asked: the addresses of the report that are wanted and public.
ScopeInv ==
    /\ main \in {"resolve", "start"} => \A t \in Tasks : pc[t] = "off" /\ entry[t] = NoServer
    /\ main \in {"audit", "done"} =>
        \A t \in Tasks :
            /\ pc[t] # "off" <=> Wanted(t) /\ t[2] \notin Reserved
            /\ pc[t] = "off" => (entry[t] = ReservedEntry <=> Wanted(t))
    /\ main = "done" => AllBack

\* The addresses of the report: all of a name's, or none.
ResolveInv ==
    /\ main = "resolve" => \A n \in Names : addrs[n] = {}
    /\ main # "resolve" => \A n \in Names :
        addrs[n] = IF n \in unresolved THEN {} ELSE published[n]
    /\ \A t \in glue.mismatch : t \in Tasks /\ t[2] \in addrs[t[1]]

IInv == TypeOK /\ TaskInv /\ ScopeInv /\ ResolveInv

-----------------------------------------------------------------------------
USE AddrsAssumption, NamesAssumption, ZonesAssumption

\* A task is a name and an address.
LEMMA TaskParts == \A t \in Tasks : t[1] \in Names /\ t[2] \in Addrs /\ t = <<t[1], t[2]>>
  BY DEF Tasks

\* What an attempt records has its type.
LEMMA EntryTypes ==
    /\ NoServer.verdict = "none" /\ ReservedEntry.verdict = "reserved" /\ ReservedEntry \in Servers
    /\ \A r \in Replies, k \in 0..1 :
        /\ Entry(r, k) \in Servers /\ Entry(r, k).verdict = r /\ Entry(r, k).retries = k
        /\ r \in {"authoritative", "lame", "silent"}
<1>1. NoServer.verdict = "none" /\ ReservedEntry.verdict = "reserved" /\ ReservedEntry \in Servers
  BY DEF NoServer, ReservedEntry, Servers, Verdicts
<1>2. ASSUME NEW r \in Replies, NEW k \in 0..1
      PROVE  /\ Entry(r, k) \in Servers /\ Entry(r, k).verdict = r /\ Entry(r, k).retries = k
             /\ r \in {"authoritative", "lame", "silent"}
  <2>1. r \in {"authoritative", "lame", "silent"}
    BY DEF Replies
  <2>2. Entry(r, k).verdict = r /\ Entry(r, k).retries = k
    BY DEF Entry
  <2>3. Entry(r, k) \in Servers
    BY <2>1 DEF Entry, Servers, Verdicts
  <2> QED  BY <2>1, <2>2, <2>3
<1> QED  BY <1>1, <1>2

\* The invariant holds in the initial states.
LEMMA InitIInv == Init => IInv
<1> SUFFICES ASSUME Init PROVE IInv  OBVIOUS
<1>0. NoGlue \in [checked: BOOLEAN, missing: SUBSET InBailiwick, mismatch: SUBSET Tasks]
  BY DEF NoGlue
<1>1. TypeOK
  <2>1. published \in [Names -> SUBSET Addrs] /\ traceSilent \in BOOLEAN
        /\ main \in {"resolve", "start", "audit", "done"} /\ over \in BOOLEAN
        /\ unresolved \subseteq Names /\ unresolvable \subseteq Names
    BY DEF Init
  <2>2. addrs \in [Names -> SUBSET Addrs]
    BY DEF Init
  <2>3. pc \in [Tasks -> {"off", "first", "second", "done"}]
    BY DEF Init
  <2>4. entry \in [Tasks -> Servers \union {NoServer}]
    BY DEF Init
  <2>5. asked \in [Tasks -> 0..2] /\ heard \in [Tasks -> SUBSET {"authoritative", "lame"}]
    BY DEF Init
  <2>7. kept \in [Tasks -> SUBSET {"authoritative", "lame"}]
    BY DEF Init
  <2>6. glue \in [checked: BOOLEAN, missing: SUBSET InBailiwick, mismatch: SUBSET Tasks]
    BY <1>0 DEF Init
  <2> QED  BY <2>1, <2>2, <2>3, <2>4, <2>5, <2>6, <2>7 DEF TypeOK
<1>2. TaskInv
  BY DEF Init, TaskInv
<1>3. ScopeInv
  BY DEF Init, ScopeInv
<1>4. ResolveInv
  BY DEF Init, ResolveInv, NoGlue
<1> QED  BY <1>1, <1>2, <1>3, <1>4 DEF IInv

\* resolveNS leaves a name its addresses only if both lookups answered.
LEMMA ResolveStep == IInv /\ ResolveNS => IInv'
<1> SUFFICES ASSUME IInv, ResolveNS PROVE IInv'  OBVIOUS
<1> USE DEF IInv
<1>1. TypeOK'
  BY DEF TypeOK, ResolveNS, world, tasks
<1>2. TaskInv'
  BY DEF TaskInv, ResolveNS, tasks
<1>3. ScopeInv'
  BY DEF ScopeInv, ResolveNS, tasks
<1>4. ResolveInv'
  <2>1. PICK failed \in SUBSET (Names \X Types) :
            /\ unresolved' = {n \in Names : \E f \in Types : <<n, f>> \in failed}
            /\ addrs' = [n \in Names |-> IF \E f \in Types : <<n, f>> \in failed
                                         THEN {} ELSE published[n]]
    BY DEF ResolveNS
  <2>2. glue' = glue /\ published' = published /\ main' = "start" /\ main = "resolve"
    BY DEF ResolveNS, world
  <2>3. \A t \in glue'.mismatch : t \in Tasks /\ t[2] \in addrs'[t[1]]
    BY <2>2, TaskParts DEF ResolveInv
  <2> QED  BY <2>1, <2>2, <2>3 DEF ResolveInv
<1> QED  BY <1>1, <1>2, <1>3, <1>4

\* auditAll starts a goroutine for exactly the public addresses it wants.
LEMMA AuditAllStep == IInv /\ AuditAll => IInv'
<1> SUFFICES ASSUME IInv, AuditAll PROVE IInv'  OBVIOUS
<1> USE DEF IInv
<1>0. /\ main = "start" /\ main' = "audit"
      /\ pc' = [t \in Tasks |-> IF Wanted(t) /\ t[2] \notin Reserved THEN "first" ELSE "off"]
      /\ entry' = [t \in Tasks |-> IF Wanted(t) /\ t[2] \in Reserved THEN ReservedEntry ELSE NoServer]
      /\ UNCHANGED <<published, traceSilent, over, unresolved, unresolvable, addrs, asked, heard, kept, glue>>
  BY DEF AuditAll, Wanted, world, resolved
<1>1. TypeOK'
  BY <1>0, EntryTypes DEF TypeOK
<1>2. TaskInv'
  BY <1>0 DEF TaskInv, ScopeInv
<1>3. ScopeInv'
  <2>1. \A t \in Tasks : Wanted(t)' = Wanted(t)
    BY <1>0 DEF Wanted
  <2>2. NoServer # ReservedEntry
    BY EntryTypes
  <2> QED  BY <1>0, <2>1, <2>2 DEF ScopeInv
<1>4. ResolveInv'
  BY <1>0 DEF ResolveInv
<1> QED  BY <1>1, <1>2, <1>3, <1>4

\* What is read of a run is a reply, and the answer to its UDP query if it
\* ended in time and there is one.
LEMMA RunReading ==
    ASSUME NEW run \in Runs
    PROVE  /\ Reading(run) \in Replies
           /\ Arrived(run) \subseteq {"authoritative", "lame"}
           /\ InTime(run) \subseteq {Reading(run)} \ {"silent"}
           /\ Reading(run) = "authoritative" => InTime(run) = {"authoritative"}
  BY DEF Runs, Replies, Fates, Reading, Arrived, InTime

\* An attempt that ends changes what is known of its own address only.
LEMMA AttemptStep ==
    ASSUME IInv, NEW t \in Tasks, NEW run \in Runs,
           FirstAttempt(t, run) \/ SecondAttempt(t, run)
    PROVE  IInv'
<1> USE DEF IInv
<1> DEFINE reply == Reading(run)
<1>a. /\ reply \in Replies /\ Arrived(run) \subseteq {"authoritative", "lame"}
      /\ InTime(run) \subseteq {reply} \ {"silent"}
      /\ reply = "authoritative" => InTime(run) = {"authoritative"}
  BY RunReading
<1> HIDE DEF reply
<1>b. FirstAttempt(t, run) => AuditOnce(t, run) /\ pc[t] = "first"
        /\ \/ /\ Unanswered(reply) /\ ~over /\ pc' = [pc EXCEPT ![t] = "second"] /\ entry' = entry
           \/ /\ ~(Unanswered(reply) /\ ~over) /\ pc' = [pc EXCEPT ![t] = "done"]
              /\ entry' = [entry EXCEPT ![t] = Entry(reply, 0)]
  BY DEF FirstAttempt, reply
<1>c. SecondAttempt(t, run) => AuditOnce(t, run) /\ pc[t] = "second"
        /\ pc' = [pc EXCEPT ![t] = "done"] /\ entry' = [entry EXCEPT ![t] = Entry(reply, 1)]
  BY DEF SecondAttempt, reply
<1>0. UNCHANGED <<published, traceSilent, main, over, unresolved, unresolvable, addrs, glue>>
  BY DEF FirstAttempt, SecondAttempt, world, resolved
<1>1. /\ pc[t] \in {"first", "second"} /\ pc'[t] \in {"second", "done"}
      /\ pc' = [pc EXCEPT ![t] = pc'[t]]
      /\ entry' = [entry EXCEPT ![t] = entry'[t]]
      /\ asked' = [asked EXCEPT ![t] = asked'[t]]
      /\ heard' = [heard EXCEPT ![t] = heard'[t]]
      /\ kept' = [kept EXCEPT ![t] = kept'[t]]
  BY <1>b, <1>c DEF AuditOnce, TypeOK
<1>d. /\ asked[t] \in Nat => asked'[t] \in {asked[t], asked[t] + 1}
      /\ heard'[t] = heard[t] \union Arrived(run) /\ kept'[t] = kept[t] \union InTime(run)
  BY <1>b, <1>c DEF AuditOnce, TypeOK
<1>e. heard'[t] \in SUBSET {"authoritative", "lame"}
  BY <1>a, <1>d DEF TypeOK
<1>2. \/ /\ pc[t] = "first" /\ pc'[t] = "second"
         /\ entry'[t] = NoServer /\ kept'[t] = {} /\ asked'[t] \in 0..1
      \/ /\ pc'[t] = "done"
         /\ entry'[t] \in Servers /\ entry'[t].verdict = reply
         /\ kept'[t] = InTime(run)
         /\ asked'[t] \in 0..2
         /\ reply = "silent" /\ ~over => entry'[t].retries = 1
  <2>1. CASE FirstAttempt(t, run)
    <3>1. kept[t] = {} /\ asked[t] = 0 /\ entry[t] = NoServer
      BY <2>1, <1>b DEF TaskInv
    <3>2. asked'[t] \in 0..1 /\ kept'[t] = InTime(run)
      BY <3>1, <1>d
    <3>3. reply = "silent" => InTime(run) = {}
      BY <1>a
    <3> QED  BY <2>1, <3>1, <3>2, <3>3, <1>a, <1>b, EntryTypes DEF Unanswered, TypeOK
  <2>2. CASE SecondAttempt(t, run)
    <3>1. kept[t] = {} /\ asked[t] \in 0..1
      BY <2>2, <1>c DEF TaskInv
    <3>2. asked'[t] \in 0..2 /\ kept'[t] = InTime(run)
      BY <3>1, <1>d
    <3> QED  BY <2>2, <3>2, <1>a, <1>c, EntryTypes DEF TypeOK
  <2> QED  BY <2>1, <2>2
<1>3. reply \in {"authoritative", "lame", "silent"}
  BY <1>a, EntryTypes
<1>4. TypeOK'
  <2>1. pc'[t] \in {"off", "first", "second", "done"} /\ entry'[t] \in Servers \union {NoServer}
        /\ asked'[t] \in 0..2 /\ kept'[t] \in SUBSET {"authoritative", "lame"}
    BY <1>1, <1>2, <1>3, <1>a
  <2> QED  BY <1>0, <1>1, <1>e, <2>1 DEF TypeOK
<1>5. TaskInv'
  BY <1>0, <1>1, <1>2, <1>3, <1>a DEF TaskInv, TypeOK
<1>6. ScopeInv'
  <2>1. main = "audit"
    BY <1>1 DEF ScopeInv, AllBack, TypeOK
  <2>2. \A u \in Tasks : Wanted(u)' = Wanted(u)
    BY <1>0 DEF Wanted
  <2>3. \A u \in Tasks : (pc'[u] # "off" <=> pc[u] # "off") /\ (pc'[u] = "off" => entry'[u] = entry[u])
    BY <1>1 DEF TypeOK
  <2> QED  BY <1>0, <2>1, <2>2, <2>3 DEF ScopeInv
<1>7. ResolveInv'
  BY <1>0 DEF ResolveInv
<1> QED  BY <1>4, <1>5, <1>6, <1>7

\* The glue is compared for admitted addresses only.
LEMMA GlueStep == IInv /\ CheckGlue => IInv'
<1> SUFFICES ASSUME IInv, CheckGlue PROVE IInv'  OBVIOUS
<1> USE DEF IInv
<1>0. /\ main = "audit" /\ main' = "done" /\ AllBack
      /\ UNCHANGED <<published, traceSilent, over, unresolved, unresolvable, addrs,
                     pc, entry, asked, heard, kept>>
  BY DEF CheckGlue, world, resolved, tasks
<1>1. /\ glue' \in [checked: BOOLEAN, missing: SUBSET InBailiwick, mismatch: SUBSET Tasks]
      /\ \A t \in glue'.mismatch : t \in Tasks /\ t[2] \in addrs[t[1]]
  <2>1. CASE glue' = NoGlue
    BY <2>1 DEF NoGlue
  <2>2. ASSUME NEW parent \in [InBailiwick -> SUBSET Addrs],
               glue' = [checked |-> TRUE,
                        missing |-> {n \in InBailiwick : parent[n] = {}},
                        mismatch |-> {t \in Tasks : /\ t[1] \in InBailiwick
                                                    /\ parent[t[1]] # {}
                                                    /\ t[2] \in addrs[t[1]] \ parent[t[1]]}]
        PROVE  <1>1!1 /\ <1>1!2
    BY <2>2
  <2> QED  BY <2>1, <2>2 DEF CheckGlue
<1>2. TypeOK'
  BY <1>0, <1>1 DEF TypeOK
<1>3. TaskInv'
  BY <1>0 DEF TaskInv
<1>4. ScopeInv'
  BY <1>0 DEF ScopeInv, Wanted, AllBack
<1>5. ResolveInv'
  BY <1>0, <1>1 DEF ResolveInv
<1> QED  BY <1>2, <1>3, <1>4, <1>5

\* Every step preserves the invariant.
LEMMA NextIInv == IInv /\ [Next]_vars => IInv'
<1> SUFFICES ASSUME IInv, [Next]_vars PROVE IInv'  OBVIOUS
<1>1. CASE ContextEnds
  BY <1>1 DEF ContextEnds, IInv, TypeOK, TaskInv, ScopeInv, ResolveInv, Wanted, AllBack,
              world, resolved, tasks
<1>2. CASE UNCHANGED vars
  BY <1>2 DEF IInv, TypeOK, TaskInv, ScopeInv, ResolveInv, Wanted, AllBack,
              vars, world, resolved, tasks
<1> QED
  BY <1>1, <1>2, ResolveStep, AuditAllStep, AttemptStep, GlueStep DEF Next, Finished

\* The inductive invariant is an invariant of the specification.
THEOREM Invariance == Spec => []IInv
  BY InitIInv, NextIInv, PTL DEF Spec

\* Types are respected, for any number of names and addresses: in particular
\* no address is asked a third time (nsaudit.go, auditServer).
THEOREM TypeCorrect == Spec => []TypeOK
<1>1. IInv => TypeOK  BY DEF IInv
<1> QED  BY <1>1, Invariance, PTL

\* What a server answered over UDP, in a run that ended in time, is what its
\* entry says, and its entry claims no authority it did not (nsaudit.go,
\* auditServer, auditOnce and runDig).
THEOREM AnswersAreKept == Spec => []AnswersStand
<1>1. IInv => AnswersStand
  BY EntryTypes DEF IInv, TaskInv, TypeOK, AnswersStand
<1> QED  BY <1>1, Invariance, PTL

\* A zone is called unreachable only if no UDP query got an authoritative
\* answer in time and every address of its nameservers was known (report.go,
\* zoneUnreachable and noServerAnswers).
THEOREM DeadZonesAreUnheard == Spec => []DeadZoneUnheard
<1>1. ASSUME IInv, ZoneUnreachable PROVE DeadZoneUnheard
  <2>1. \A t \in Tasks : "authoritative" \notin kept[t]
    <3>1. \A t \in Tasks : entry[t].verdict # "authoritative"
      BY <1>1, TaskParts DEF ZoneUnreachable, NoServerAnswers, Reported
    <3> QED  BY <1>1, <3>1 DEF IInv, TaskInv, TypeOK
  <2>2. \A n \in Names : addrs[n] = published[n]
    BY <1>1 DEF ZoneUnreachable, NoServerAnswers, IInv, ResolveInv
  <2> QED  BY <2>1, <2>2 DEF DeadZoneUnheard
<1>2. IInv => DeadZoneUnheard
  BY <1>1 DEF DeadZoneUnheard
<1> QED  BY <1>2, Invariance, PTL

\* Nothing is called silent on one attempt while the audit's context lives
\* (nsaudit.go, auditServer).
THEOREM SilenceIsRetried == Spec => []SilentMeansRetried
<1>1. IInv => SilentMeansRetried
  BY EntryTypes DEF IInv, TaskInv, TypeOK, SilentMeansRetried
<1> QED  BY <1>1, Invariance, PTL

\* A name whose lookup did not complete is not judged on the addresses that
\* did arrive (nsaudit.go, resolveNS).
THEOREM UnresolvedIsNotJudged == Spec => []UnresolvedNotJudged
<1>1. ASSUME IInv, NEW n \in Names, NEW a \in published[n], a \notin addrs[n]
      PROVE  /\ n \in unresolved \/ main = "resolve"
             /\ Reported({n}, Verdicts) = {}
             /\ \A t \in glue.mismatch : t[1] # n
  <2>1. n \in unresolved \/ main = "resolve"
    BY <1>1 DEF IInv, ResolveInv
  <2>2. addrs[n] = {}
    BY <1>1, <2>1 DEF IInv, ResolveInv
  <2>3. \A t \in Tasks : t[1] = n => entry[t] = NoServer
    BY <1>1, <2>2, EntryTypes DEF IInv, ScopeInv, TaskInv, TypeOK, Wanted
  <2>4. Reported({n}, Verdicts) = {}
    BY <2>3, EntryTypes DEF Reported, Verdicts
  <2>5. \A t \in glue.mismatch : t[1] # n
    BY <1>1, <2>2 DEF IInv, ResolveInv
  <2> QED  BY <2>1, <2>4, <2>5
<1>2. IInv => UnresolvedNotJudged
  BY <1>1 DEF UnresolvedNotJudged
<1> QED  BY <1>2, Invariance, PTL

\* The findings about a name agree with what its addresses said over UDP in
\* time (report.go, nameFindings).
THEOREM FindingsAreFounded == Spec => []FindingsMatchAnswers
<1>1. ASSUME IInv, NEW n \in Names, NSNoAnswer(n), NEW a \in Addrs
      PROVE  kept[<<n, a>>] = {}
  <2> DEFINE t == <<n, a>>
  <2>1. t \in Tasks /\ t[1] = n
    BY DEF Tasks
  <2>2. entry[t].verdict \in Verdicts => entry[t].verdict = "silent"
    BY <1>1, <2>1 DEF NSNoAnswer, Reported
  <2>3. pc[t] = "done" => entry[t].verdict = "silent"
    BY <1>1, <2>1, <2>2 DEF IInv, TaskInv, Verdicts
  <2> QED  BY <1>1, <2>1, <2>3 DEF IInv, TaskInv, TypeOK
<1>2. ASSUME IInv, NEW n \in Names, Judged(n), NEW a \in Addrs, "lame" \in kept[<<n, a>>]
      PROVE  NSLame(n)
  <2> DEFINE t == <<n, a>>
  <2>1. t \in Tasks /\ t[1] = n
    BY DEF Tasks
  <2>2. entry[t].verdict = "lame"
    BY <1>2, <2>1 DEF IInv, TaskInv, TypeOK
  <2>3. t \in Reported({n}, {"lame"})
    BY <2>1, <2>2 DEF Reported
  <2> QED  BY <1>2, <2>3 DEF NSLame
<1>3. IInv => FindingsMatchAnswers
  BY <1>1, <1>2 DEF FindingsMatchAnswers
<1> QED  BY <1>3, Invariance, PTL

\* No reserved address, and none of a family switched off, is ever asked
\* (nsaudit.go, auditAll).
THEOREM OutsideIsNeverAsked == Spec => []NeverAskedOutside
<1>1. IInv => NeverAskedOutside
  BY DEF IInv, TaskInv, ScopeInv, TypeOK, NeverAskedOutside, Wanted
<1> QED  BY <1>1, Invariance, PTL

\* The audit returns with an entry for every address it set out to ask
\* (nsaudit.go, auditAll).
THEOREM AuditIsComplete == Spec => []AuditComplete
<1>1. ASSUME IInv, main = "done", NEW n \in Names, NEW a \in addrs[n], FamilyOf(a) \in Families
      PROVE  entry[<<n, a>>] # NoServer
  <2> DEFINE t == <<n, a>>
  <2>1. t \in Tasks /\ t[1] = n /\ t[2] = a
    BY <1>1 DEF Tasks, IInv, TypeOK
  <2>2. Wanted(t)
    BY <1>1, <2>1 DEF Wanted
  <2>3. pc[t] = "off" => entry[t] = ReservedEntry
    BY <1>1, <2>1, <2>2 DEF IInv, ScopeInv
  <2>4. pc[t] # "off" => entry[t].verdict \in {"authoritative", "lame", "silent"}
    BY <1>1, <2>1 DEF IInv, ScopeInv, AllBack, TaskInv
  <2> QED  BY <2>3, <2>4, EntryTypes
<1>2. IInv => AuditComplete
  BY <1>1 DEF AuditComplete
<1> QED  BY <1>2, Invariance, PTL
=============================================================================
