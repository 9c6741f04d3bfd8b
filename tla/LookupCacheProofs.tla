------------------------- MODULE LookupCacheProofs -------------------------
(***************************************************************************)
(* Proofs about the DNS lookups of a run: the memo they go through         *)
(* (LookupCache, for any number of goroutines, names and slots) and the    *)
(* wildcard probes, which are made of them (Wildcard, for any set of       *)
(* random names).  The two share no variable and no definition.            *)
(*                                                                         *)
(* LookupCache: none of the invariants is inductive alone.  The locals of  *)
(* a get have to be known while it is in flight (Locals): the phase it is  *)
(* bound to, that its name is a valid one, and, when it is about to        *)
(* memoise, that it has a complete lookup of its own phase in hand.        *)
(* Wildcard: the invariant says which lookups have been made, and that     *)
(* each came back with what the zone gives or with nothing; the verdicts   *)
(* then follow from what a zone with and without a wildcard can give.      *)
(***************************************************************************)
EXTENDS LookupCache, Wildcard, TLAPS, FiniteSetTheorems

\* What get's locals hold between a miss and the return.
Locals ==
    \A t \in Tasks :
        /\ InFlight(t) => /\ base[t] = ctx /\ phase = ctx
                          /\ key[t] \in Keys
                          /\ gets[t] < MaxGets
        /\ pc[t] = "store" => result[t] \in Lookup /\ result[t].under = base[t]

\* The goroutines that hold a slot.
Running == {t \in Tasks : pc[t] = "tool"}

\* The inductive invariant.
IInv == TypeOK /\ Locals /\ SlotsConserved /\ WarmEntriesNotRefetched /\ TrustWithheld

USE KeysAssumption, TasksAssumption, CapAssumption, BoundsAssumption

-----------------------------------------------------------------------------
(* Facts about the helpers *)

\* A get that ends an attempt has either queued again, within its two
\* attempts, or has a lookup of its phase ready to memoise.
LEMMA EndAttemptType ==
    ASSUME TypeOK, NEW t \in Tasks, pc[t] \in {"slot", "tool"}, base[t] \in Ctxs,
           NEW o, o.status \in Statuses, o.trust \in Trusts, EndAttempt(t, o)
    PROVE  /\ pc' \in [Tasks -> {"idle", "budget", "slot", "tool", "store"}]
           /\ attempt' \in [Tasks -> 0..2]
           /\ result' \in [Tasks -> Draft]
           /\ \A u \in Tasks : u # t => pc'[u] = pc[u] /\ result'[u] = result[u]
           /\ pc'[t] \in {"slot", "store"}
           /\ pc'[t] = "store" => result'[t] \in Lookup /\ result'[t].under = base[t]
<1>1. CASE o.status = "timeout" /\ attempt[t] = 1 /\ ~LookupOver(t)
  BY <1>1 DEF EndAttempt, TypeOK
<1>2. CASE ~(o.status = "timeout" /\ attempt[t] = 1 /\ ~LookupOver(t))
  <2> DEFINE l == [status |-> o.status, trust |-> o.trust,
                   under |-> base[t], ran |-> result[t].ran]
  <2>1. result[t].ran \in BOOLEAN
    BY DEF TypeOK, Draft
  <2>2. l \in Lookup /\ l \in Draft /\ l.under = base[t]
    BY <2>1 DEF Lookup, Draft
  <2>3. /\ pc' = [pc EXCEPT ![t] = "store"]
        /\ result' = [result EXCEPT ![t] = l]
        /\ attempt' = attempt
    BY <1>2 DEF EndAttempt
  <2> HIDE DEF l
  <2> QED  BY <2>2, <2>3 DEF TypeOK
<1> QED  BY <1>1, <1>2

\* A get that returns leaves no locals behind.
LEMMA ReturnType ==
    ASSUME TypeOK, NEW t \in Tasks, gets[t] < MaxGets, Return(t)
    PROVE  /\ pc' \in [Tasks -> {"idle", "budget", "slot", "tool", "store"}]
           /\ base' \in [Tasks -> Ctxs \union {"none"}]
           /\ attempt' \in [Tasks -> 0..2]
           /\ cut' \in [Tasks -> {"none", "first", "lookup"}]
           /\ result' \in [Tasks -> Draft]
           /\ gets' \in [Tasks -> 0..MaxGets]
           /\ pc'[t] = "idle"
           /\ \A u \in Tasks : u # t => /\ pc'[u] = pc[u] /\ base'[u] = base[u]
                                        /\ result'[u] = result[u] /\ gets'[u] = gets[u]
  BY DEF Return, TypeOK, NoEntry, Draft, Trusts

\* What dog prints, and a timeout, are both statuses with a trust.
LEMMA OutcomeType ==
    /\ TimedOut.status \in Statuses /\ TimedOut.trust \in Trusts
    /\ \A o \in Outcomes : o.status \in Statuses /\ o.trust \in Trusts
  BY DEF TimedOut, Outcomes, Statuses, Trusts

\* A process started or ended changes the number of running tools by one.
LEMMA RunningCount ==
    ASSUME TypeOK, NEW t \in Tasks, NEW f,
           \A u \in Tasks : u # t => f[u] = pc[u]
    PROVE  LET n == Cardinality(Running)
               m == Cardinality({u \in Tasks : f[u] = "tool"})
           IN  /\ n \in Nat /\ m \in Nat
               /\ pc[t] = "tool" => n > 0
               /\ (pc[t] = "tool") = (f[t] = "tool") => m = n
               /\ pc[t] # "tool" /\ f[t] = "tool" => m = n + 1
               /\ pc[t] = "tool" /\ f[t] # "tool" => m = n - 1
<1> DEFINE Next_ == {u \in Tasks : f[u] = "tool"}
<1>1. IsFiniteSet(Running) /\ IsFiniteSet(Next_)
  BY FS_Subset DEF Running
<1>2. Cardinality(Running) \in Nat /\ Cardinality(Next_) \in Nat
  BY <1>1, FS_CardinalityType
<1>3. ASSUME pc[t] = "tool" PROVE Cardinality(Running) > 0
  <2>1. Running # {}
    BY <1>3 DEF Running
  <2> QED  BY <1>1, <1>2, <2>1, FS_EmptySet
<1>4. ASSUME (pc[t] = "tool") = (f[t] = "tool") PROVE Cardinality(Next_) = Cardinality(Running)
  <2>1. Next_ = Running
    BY <1>4 DEF Running
  <2> QED  BY <2>1
<1>5. ASSUME pc[t] # "tool", f[t] = "tool" PROVE Cardinality(Next_) = Cardinality(Running) + 1
  <2>1. Next_ = Running \union {t} /\ t \notin Running
    BY <1>5 DEF Running
  <2> QED  BY <1>1, <2>1, FS_AddElement
<1>6. ASSUME pc[t] = "tool", f[t] # "tool" PROVE Cardinality(Next_) = Cardinality(Running) - 1
  <2>1. Next_ = Running \ {t} /\ t \in Running
    BY <1>6 DEF Running
  <2> QED  BY <1>1, <2>1, FS_RemoveElement
<1> QED  BY <1>2, <1>3, <1>4, <1>5, <1>6

-----------------------------------------------------------------------------
(* Type correctness and the locals of get *)

\* Every action preserves the types and the facts about get's locals.
LEMMA TypeAndLocals ==
    ASSUME TypeOK, Locals, SlotsConserved, [Next]_vars
    PROVE  TypeOK' /\ Locals'
<1> USE DEF vars, runVars, getVars, foreignVars
<1>1. ASSUME NEW t \in Tasks, NEW k \in Keys, GetRefused(t, k) \/ GetHit(t, k)
      PROVE  TypeOK' /\ Locals'
  <2>1. gets[t] < MaxGets /\ Return(t)
    BY <1>1 DEF GetRefused, GetHit, MayAsk
  <2>2. key' = [key EXCEPT ![t] = k] /\ UNCHANGED <<runVars, done, sem, foreignVars>>
    BY <1>1 DEF GetRefused, GetHit
  <2>3. TypeOK'
    BY <2>1, <2>2, ReturnType DEF TypeOK
  <2>4. Locals'
    BY <2>1, <2>2, ReturnType DEF TypeOK, Locals, InFlight
  <2> QED  BY <2>3, <2>4
<1>2. ASSUME NEW t \in Tasks, NEW k \in Keys, GetMiss(t, k)
      PROVE  TypeOK' /\ Locals'
  <2>1. TypeOK'
    BY <1>2 DEF TypeOK, GetMiss
  <2>2. Locals'
    BY <1>2 DEF TypeOK, Locals, InFlight, GetMiss, MayAsk
  <2> QED  BY <2>1, <2>2
<1>3. ASSUME NEW t \in Tasks, BudgetSpent(t)
      PROVE  TypeOK' /\ Locals'
  <2>1. gets[t] < MaxGets /\ Return(t)
    BY <1>3 DEF BudgetSpent, Locals, InFlight
  <2>2. TypeOK'
    BY <1>3, <2>1, ReturnType DEF TypeOK, BudgetSpent
  <2>3. Locals'
    BY <1>3, <2>1, ReturnType DEF TypeOK, Locals, InFlight, BudgetSpent
  <2> QED  BY <2>2, <2>3
<1>4. ASSUME NEW t \in Tasks, BeginLookup(t)
      PROVE  TypeOK' /\ Locals'
  BY <1>4 DEF TypeOK, Locals, InFlight, BeginLookup
<1>5. ASSUME NEW t \in Tasks, AcquireSlot(t)
      PROVE  TypeOK' /\ Locals'
  <2>1. result' \in [Tasks -> Draft] /\ \A u \in Tasks : u # t => result'[u] = result[u]
    BY <1>5 DEF AcquireSlot, TypeOK, Draft
  <2>2. sem' \in Nat
    BY <1>5 DEF AcquireSlot, TypeOK
  <2>3. TypeOK'
    BY <1>5, <2>1, <2>2 DEF AcquireSlot, TypeOK
  <2>4. Locals'
    BY <1>5, <2>1 DEF AcquireSlot, TypeOK, Locals, InFlight
  <2> QED  BY <2>3, <2>4
<1>6. ASSUME NEW t \in Tasks, SlotTimeout(t) \/ ToolExits(t) \/ ToolKilled(t)
      PROVE  TypeOK' /\ Locals'
  <2>1. PICK o : /\ o.status \in Statuses /\ o.trust \in Trusts
                 /\ EndAttempt(t, o)
    BY <1>6, OutcomeType DEF SlotTimeout, ToolExits, ToolKilled
  <2>2. /\ pc[t] \in {"slot", "tool"}
        /\ UNCHANGED <<runVars, done, key, base, cut, gets, foreignVars>>
    BY <1>6 DEF SlotTimeout, ToolExits, ToolKilled
  <2>3. base[t] \in Ctxs /\ base[t] = ctx /\ phase = ctx /\ key[t] \in Keys /\ gets[t] < MaxGets
    BY <2>2 DEF Locals, InFlight, TypeOK
  <2>4. sem' \in Nat
    <3>1. Cardinality(Running) \in Nat /\ (pc[t] = "tool" => Cardinality(Running) > 0)
      <4>1. \A u \in Tasks : u # t => pc[u] = pc[u]
        OBVIOUS
      <4> QED  BY <4>1, RunningCount
    <3>2. CASE SlotTimeout(t)
      BY <3>2 DEF SlotTimeout, TypeOK
    <3>3. CASE ToolExits(t) \/ ToolKilled(t)
      BY <3>1, <3>3 DEF ToolExits, ToolKilled, ReleaseSlot, TypeOK, SlotsConserved, Running
    <3> QED  BY <1>6, <3>2, <3>3
  <2>5. TypeOK'
    BY <2>1, <2>2, <2>3, <2>4, EndAttemptType DEF TypeOK
  <2>6. Locals'
    BY <2>1, <2>2, <2>3, EndAttemptType DEF TypeOK, Locals, InFlight
  <2> QED  BY <2>5, <2>6
<1>7. ASSUME NEW t \in Tasks, Store(t)
      PROVE  TypeOK' /\ Locals'
  <2>1. gets[t] < MaxGets /\ Return(t) /\ key[t] \in Keys /\ result[t] \in Lookup
    BY <1>7 DEF Store, Locals, InFlight
  <2>2. TypeOK'
    BY <1>7, <2>1, ReturnType DEF TypeOK, Store
  <2>3. Locals'
    BY <1>7, <2>1, ReturnType DEF TypeOK, Locals, InFlight, Store
  <2> QED  BY <2>2, <2>3
<1>8. ASSUME NEW t \in Tasks, FirstAttemptExpires(t) \/ LookupExpires(t)
      PROVE  TypeOK' /\ Locals'
  BY <1>8 DEF TypeOK, Locals, InFlight, FirstAttemptExpires, LookupExpires
<1>9. ASSUME PhaseExpires \/ RunExpires
      PROVE  TypeOK' /\ Locals'
  BY <1>9 DEF TypeOK, Locals, InFlight, PhaseExpires, RunExpires
<1>10. ASSUME ForeignTake \/ ForeignRelease
       PROVE  TypeOK' /\ Locals'
  <2>1. Cardinality(Running) \in Nat
    BY FS_Subset, FS_CardinalityType DEF Running
  <2>2. sem' \in Nat /\ foreign' \in Nat /\ foreignLeft' \in Nat
    BY <1>10, <2>1 DEF ForeignTake, ForeignRelease, ReleaseSlot, TypeOK, SlotsConserved, Running
  <2> QED  BY <1>10, <2>2 DEF TypeOK, Locals, InFlight, ForeignTake, ForeignRelease
<1>11. ASSUME NEW p \in Ctxs, Enter(p), AllReturned
       PROVE  TypeOK' /\ Locals'
  BY <1>11 DEF TypeOK, Locals, InFlight, Enter, AllReturned
<1>12. ASSUME NEW p \in {"classify", "done"}, Leave(p), AllReturned,
              done' \in [Keys -> Lookup \union {NoEntry}]
       PROVE  TypeOK' /\ Locals'
  BY <1>12 DEF TypeOK, Locals, InFlight, Leave, AllReturned
<1>13. ASSUME AuditFirst
       PROVE  AllReturned
  BY <1>13 DEF AuditFirst, AllReturned, Locals, InFlight, TypeOK, Ctxs
<1>14. ASSUME ClassifyDNS
       PROVE  done' \in [Keys -> Lookup \union {NoEntry}]
  <2>1. \A l \in Lookup : [l EXCEPT !.trust = "none"] \in Lookup
    BY DEF Lookup, Trusts
  <2>2. [NoEntry EXCEPT !.trust = "none"] = NoEntry
    BY DEF NoEntry
  <2> QED  BY <1>14, <2>1, <2>2 DEF ClassifyDNS, TypeOK
<1>15. ASSUME PhaseStep
       PROVE  TypeOK' /\ Locals'
  BY <1>11, <1>12, <1>13, <1>14, <1>15
     DEF PhaseStep, StartWave2, ClassifyDNS, AuditFirst, StartProbes, FinishReport, TypeOK, Ctxs
<1>16. ASSUME UNCHANGED vars
       PROVE  TypeOK' /\ Locals'
  BY <1>16 DEF TypeOK, Locals, InFlight
<1> QED  BY <1>1, <1>2, <1>3, <1>4, <1>5, <1>6, <1>7, <1>8, <1>9, <1>10, <1>15, <1>16
            DEF Next, GetStep, ClockStep, Finished

-----------------------------------------------------------------------------
(* The semaphore *)

\* Every action keeps the semaphore's count equal to the running tools.
LEMMA SlotsStep ==
    ASSUME TypeOK, TypeOK', Locals, SlotsConserved, [Next]_vars
    PROVE  SlotsConserved'
<1> USE DEF vars, runVars, getVars, foreignVars
<1> SUFFICES ASSUME Cap # 0
             PROVE  sem' = Cardinality(Running') + foreign' /\ sem' <= Cap
  BY DEF SlotsConserved, Running
<1>0. /\ sem = Cardinality(Running) + foreign /\ sem <= Cap
      /\ Cardinality(Running) \in Nat
      /\ sem \in Nat /\ foreign \in Nat
  BY FS_Subset, FS_CardinalityType DEF SlotsConserved, Running, TypeOK
<1>1. ASSUME NEW t \in Tasks, \A u \in Tasks : u # t => pc'[u] = pc[u]
      PROVE  LET n == Cardinality(Running)
                 m == Cardinality(Running')
             IN  /\ m \in Nat
                 /\ (pc[t] = "tool") = (pc'[t] = "tool") => m = n
                 /\ pc[t] # "tool" /\ pc'[t] = "tool" => m = n + 1
                 /\ pc[t] = "tool" /\ pc'[t] # "tool" => m = n - 1
  <2> DEFINE f == pc'
  <2>1. \A u \in Tasks : u # t => f[u] = pc[u]
    BY <1>1
  <2>2. Running' = {u \in Tasks : f[u] = "tool"}
    BY DEF Running
  <2> HIDE DEF f
  <2>3. LET n == Cardinality(Running)
            m == Cardinality({u \in Tasks : f[u] = "tool"})
        IN  /\ m \in Nat
            /\ (pc[t] = "tool") = (f[t] = "tool") => m = n
            /\ pc[t] # "tool" /\ f[t] = "tool" => m = n + 1
            /\ pc[t] = "tool" /\ f[t] # "tool" => m = n - 1
    BY <2>1, RunningCount
  <2> QED  BY <2>2, <2>3 DEF f
<1>2. ASSUME NEW t \in Tasks,
             \/ \E k \in Keys : GetRefused(t, k) \/ GetHit(t, k) \/ GetMiss(t, k)
             \/ BudgetSpent(t) \/ BeginLookup(t) \/ SlotTimeout(t) \/ Store(t)
      PROVE  sem' = Cardinality(Running') + foreign' /\ sem' <= Cap
  <2>1. /\ sem' = sem /\ foreign' = foreign
        /\ \A u \in Tasks : u # t => pc'[u] = pc[u]
        /\ pc[t] # "tool" /\ pc'[t] # "tool"
    BY <1>2 DEF TypeOK, GetRefused, GetHit, GetMiss, MayAsk, InFlight, BudgetSpent, BeginLookup,
                SlotTimeout, Store, Return, EndAttempt
  <2> QED  BY <1>0, <1>1, <2>1
<1>3. ASSUME NEW t \in Tasks, AcquireSlot(t)
      PROVE  sem' = Cardinality(Running') + foreign' /\ sem' <= Cap
  <2>1. /\ sem' = sem + 1 /\ foreign' = foreign /\ sem < Cap
        /\ \A u \in Tasks : u # t => pc'[u] = pc[u]
        /\ pc[t] # "tool" /\ pc'[t] = "tool"
    BY <1>3 DEF TypeOK, AcquireSlot
  <2> QED  BY <1>0, <1>1, <2>1
<1>4. ASSUME NEW t \in Tasks, ToolExits(t) \/ ToolKilled(t)
      PROVE  sem' = Cardinality(Running') + foreign' /\ sem' <= Cap
  <2>1. /\ sem' = sem - 1 /\ foreign' = foreign
        /\ \A u \in Tasks : u # t => pc'[u] = pc[u]
        /\ pc[t] = "tool" /\ pc'[t] # "tool"
    BY <1>4 DEF TypeOK, ToolExits, ToolKilled, ReleaseSlot, EndAttempt
  <2> QED  BY <1>0, <1>1, <2>1
<1>5. ASSUME pc' = pc, sem' = sem, foreign' = foreign
      PROVE  sem' = Cardinality(Running') + foreign' /\ sem' <= Cap
  BY <1>0, <1>5 DEF Running
<1>6. ASSUME ForeignTake \/ ForeignRelease
      PROVE  sem' = Cardinality(Running') + foreign' /\ sem' <= Cap
  <2>1. Running' = Running
    BY <1>6 DEF ForeignTake, ForeignRelease, Running
  <2> QED  BY <1>0, <1>6, <2>1 DEF ForeignTake, ForeignRelease, ReleaseSlot
<1>7. ASSUME \/ \E t \in Tasks : FirstAttemptExpires(t) \/ LookupExpires(t)
             \/ PhaseExpires \/ RunExpires \/ PhaseStep \/ UNCHANGED vars
      PROVE  sem' = Cardinality(Running') + foreign' /\ sem' <= Cap
  <2>1. pc' = pc /\ sem' = sem /\ foreign' = foreign
    BY <1>7 DEF FirstAttemptExpires, LookupExpires, PhaseExpires, RunExpires, PhaseStep,
                StartWave2, ClassifyDNS, AuditFirst, StartProbes, FinishReport, Enter, Leave
  <2> QED  BY <1>5, <2>1
<1> QED  BY <1>2, <1>3, <1>4, <1>6, <1>7 DEF Next, GetStep, ClockStep, Finished

-----------------------------------------------------------------------------
(* The memo *)

\* The memo changes when a get memoises its lookup and when the trust is
\* dropped, and at no other step.
LEMMA MemoChanges ==
    ASSUME TypeOK, Locals, [Next]_vars
    PROVE  \/ \E t \in Tasks : Store(t)
           \/ ClassifyDNS
           \/ done' = done
  BY DEF Next, GetStep, ClockStep, PhaseStep, Finished, GetRefused, GetHit, GetMiss, BudgetSpent,
         BeginLookup, AcquireSlot, SlotTimeout, ToolExits, ToolKilled, FirstAttemptExpires,
         LookupExpires, PhaseExpires, RunExpires, ForeignTake, ForeignRelease, StartWave2,
         AuditFirst, StartProbes, FinishReport, Enter, vars

\* A get in flight was in flight before the step with the same name, under
\* the same context, or has just missed.
LEMMA FlightChanges ==
    ASSUME TypeOK, Locals, [Next]_vars, NEW u \in Tasks, InFlight(u)'
    PROVE  /\ ctx' = ctx
           /\ \/ InFlight(u) /\ key'[u] = key[u]
              \/ done' = done /\ done[key'[u]] = NoEntry
<1> USE DEF vars, runVars, getVars, foreignVars, InFlight
<1>1. ASSUME NEW t \in Tasks, GetStep(t)
      PROVE  /\ ctx' = ctx
             /\ \/ InFlight(u) /\ key'[u] = key[u]
                \/ done' = done /\ done[key'[u]] = NoEntry
  <2>1. ctx' = ctx
    BY <1>1 DEF GetStep, GetRefused, GetHit, GetMiss, BudgetSpent, BeginLookup, AcquireSlot,
                SlotTimeout, ToolExits, ToolKilled, Store
  <2>2. CASE \E k \in Keys : GetMiss(t, k)
    BY <2>1, <2>2 DEF GetMiss, TypeOK
  <2>3. CASE \E k \in Keys : GetRefused(t, k) \/ GetHit(t, k)
    BY <2>1, <2>3 DEF GetRefused, GetHit, Return, TypeOK
  <2>4. CASE BudgetSpent(t) \/ Store(t)
    BY <2>1, <2>4 DEF BudgetSpent, Store, Return, TypeOK
  <2>5. CASE BeginLookup(t) \/ AcquireSlot(t)
    BY <2>1, <2>5 DEF BeginLookup, AcquireSlot, TypeOK
  <2>6. CASE SlotTimeout(t) \/ ToolExits(t) \/ ToolKilled(t)
    BY <2>1, <2>6 DEF SlotTimeout, ToolExits, ToolKilled, EndAttempt, TypeOK
  <2> QED  BY <1>1, <2>2, <2>3, <2>4, <2>5, <2>6 DEF GetStep
<1>2. ASSUME PhaseStep
      PROVE  FALSE
  <2>1. AllReturned
    BY <1>2 DEF PhaseStep, StartWave2, ClassifyDNS, AuditFirst, StartProbes, FinishReport,
                AllReturned, Locals, TypeOK, Ctxs
  <2>2. pc' = pc
    BY <1>2 DEF PhaseStep, StartWave2, ClassifyDNS, AuditFirst, StartProbes, FinishReport,
                Enter, Leave
  <2> QED  BY <2>1, <2>2 DEF AllReturned
<1>3. ASSUME ClockStep \/ ForeignTake \/ ForeignRelease \/ UNCHANGED vars
      PROVE  ctx' = ctx /\ InFlight(u) /\ key'[u] = key[u]
  BY <1>3 DEF ClockStep, FirstAttemptExpires, LookupExpires, PhaseExpires, RunExpires,
              ForeignTake, ForeignRelease
<1> QED  BY <1>1, <1>2, <1>3 DEF Next, Finished

\* Every action keeps the lookups under way off the names memoised earlier.
LEMMA WarmStep ==
    ASSUME TypeOK, TypeOK', Locals, WarmEntriesNotRefetched, [Next]_vars
    PROVE  WarmEntriesNotRefetched'
<1> SUFFICES ASSUME NEW u \in Tasks, InFlight(u)', done'[key'[u]] # NoEntry
             PROVE  done'[key'[u]].under = ctx'
  BY DEF WarmEntriesNotRefetched, NoEntry
<1>1. /\ ctx' = ctx /\ InFlight(u) /\ key'[u] = key[u] /\ key[u] \in Keys
  BY FlightChanges DEF Locals
<1>2. CASE done' = done
  BY <1>1, <1>2 DEF WarmEntriesNotRefetched
<1>3. ASSUME NEW t \in Tasks, Store(t)
      PROVE  done'[key'[u]].under = ctx'
  <2>1. key[t] \in Keys /\ result[t].under = ctx /\ done' = [done EXCEPT ![key[t]] = result[t]]
    BY <1>3 DEF Store, Locals, InFlight
  <2>2. CASE key[u] = key[t]
    BY <1>1, <2>1, <2>2 DEF TypeOK
  <2>3. CASE key[u] # key[t]
    BY <1>1, <2>1, <2>3 DEF TypeOK, WarmEntriesNotRefetched
  <2> QED  BY <2>2, <2>3
<1>4. CASE ClassifyDNS
  BY <1>1, <1>4 DEF ClassifyDNS, AllReturned
<1> QED  BY <1>2, <1>3, <1>4, MemoChanges

\* Every action keeps the trust of the DNS phase withheld.
LEMMA TrustStep ==
    ASSUME TypeOK, TypeOK', Locals, TrustWithheld, [Next]_vars
    PROVE  TrustWithheld'
<1> SUFFICES ASSUME blind', phase' \notin {"wave1", "wave2"}, NEW k \in Keys,
                    done'[k].under \in {"wave1", "wave2"}
             PROVE  done'[k].trust = "none"
  BY DEF TrustWithheld
<1> USE DEF vars, runVars, getVars, foreignVars
<1>1. blind' = blind
  BY DEF Next, GetStep, ClockStep, PhaseStep, Finished, GetRefused, GetHit, GetMiss, BudgetSpent,
         BeginLookup, AcquireSlot, SlotTimeout, ToolExits, ToolKilled, Store, FirstAttemptExpires,
         LookupExpires, PhaseExpires, RunExpires, ForeignTake, ForeignRelease, StartWave2,
         ClassifyDNS, AuditFirst, StartProbes, FinishReport, Enter, Leave
<1>2. CASE ClassifyDNS
  <2>1. done' = [j \in Keys |-> [done[j] EXCEPT !.trust = "none"]]
    BY <1>1, <1>2 DEF ClassifyDNS
  <2>2. done[k] \in Lookup \union {NoEntry}
    BY DEF TypeOK
  <2> QED  BY <2>1, <2>2 DEF Lookup, NoEntry
<1>3. ASSUME NEW t \in Tasks, Store(t)
      PROVE  done'[k].trust = "none"
  <2>1. /\ phase' = phase /\ done' = [done EXCEPT ![key[t]] = result[t]]
        /\ key[t] \in Keys /\ result[t].under = phase
    BY <1>3 DEF Store, Locals, InFlight
  <2>2. k # key[t]
    BY <2>1 DEF TypeOK
  <2> QED  BY <1>1, <2>1, <2>2 DEF TypeOK, TrustWithheld
<1>4. CASE done' = done /\ ~ClassifyDNS
  <2>1. phase \notin {"wave1", "wave2"}
    BY <1>4 DEF Next, GetStep, ClockStep, PhaseStep, Finished, GetRefused, GetHit, GetMiss,
         BudgetSpent, BeginLookup, AcquireSlot, SlotTimeout, ToolExits, ToolKilled, Store,
         FirstAttemptExpires, LookupExpires, PhaseExpires, RunExpires, ForeignTake,
         ForeignRelease, StartWave2, AuditFirst, StartProbes, FinishReport, Enter, Leave
  <2> QED  BY <1>1, <1>4, <2>1 DEF TrustWithheld
<1> QED  BY <1>2, <1>3, <1>4, MemoChanges

-----------------------------------------------------------------------------
(* The theorems *)

\* The inductive invariant holds in the initial states...
LEMMA InitIInv == Init => IInv
<1> SUFFICES ASSUME Init PROVE IInv
  OBVIOUS
<1>0. NoEntry \in Draft
  BY DEF NoEntry, Draft, Trusts
<1>1. TypeOK
  <2>1. /\ phase \in Ctxs \union {"classify", "done"} /\ ctx \in Ctxs /\ spent \subseteq Ctxs
        /\ runSpent \in BOOLEAN /\ blind \in BOOLEAN
    BY DEF Init, Ctxs
  <2>2. /\ done \in [Keys -> Lookup \union {NoEntry}]
        /\ pc \in [Tasks -> {"idle", "budget", "slot", "tool", "store"}]
        /\ key \in [Tasks -> Keys \union {NoKey}]
        /\ base \in [Tasks -> Ctxs \union {"none"}]
        /\ cut \in [Tasks -> {"none", "first", "lookup"}]
        /\ result \in [Tasks -> Draft]
    BY <1>0 DEF Init
  <2>3. /\ attempt \in [Tasks -> 0..2] /\ gets \in [Tasks -> 0..MaxGets]
        /\ sem \in Nat /\ foreign \in Nat /\ foreignLeft \in Nat
    BY DEF Init
  <2> QED  BY <2>1, <2>2, <2>3 DEF TypeOK
<1>2. Locals
  BY DEF Init, Locals, InFlight
<1>3. SlotsConserved
  <2>1. {t \in Tasks : pc[t] = "tool"} = {}
    BY DEF Init
  <2> QED  BY <2>1, FS_EmptySet DEF Init, SlotsConserved
<1>4. WarmEntriesNotRefetched
  BY DEF Init, WarmEntriesNotRefetched, InFlight
<1>5. TrustWithheld
  BY DEF Init, TrustWithheld
<1> QED  BY <1>1, <1>2, <1>3, <1>4, <1>5 DEF IInv

\* ... and every step preserves it.
LEMMA NextIInv == IInv /\ [Next]_vars => IInv'
  BY TypeAndLocals, SlotsStep, WarmStep, TrustStep DEF IInv

\* The inductive invariant is an invariant of the specification.
THEOREM Invariance == Spec => []IInv
  BY InitIInv, NextIInv, PTL DEF Spec

\* Types are respected for any number of goroutines, names and slots: a
\* lookup never makes a third attempt and the semaphore never goes below 0.
THEOREM TypeCorrect == Spec => []TypeOK
<1>1. IInv => TypeOK
  BY DEF IInv
<1> QED  BY <1>1, Invariance, PTL

\* The slots in use are the running tools, never more than the cap
\* (runner.go, limitedRunner.Run).
THEOREM SlotsAreConserved == Spec => []SlotsConserved
<1>1. IInv => SlotsConserved
  BY DEF IInv
<1> QED  BY <1>1, Invariance, PTL

\* No lookup outlives the phase whose context it read (run.go, get and
\* setContext).
THEOREM NoLookupOutlivesItsPhase == Spec => []InFlightUnderCurrentContext
<1>1. IInv => InFlightUnderCurrentContext
  BY DEF IInv, Locals, InFlightUnderCurrentContext
<1> QED  BY <1>1, Invariance, PTL

\* A name memoised in an earlier phase is not asked again (run.go, get).
THEOREM WarmCacheHolds == Spec => []WarmEntriesNotRefetched
<1>1. IInv => WarmEntriesNotRefetched
  BY DEF IInv
<1> QED  BY <1>1, Invariance, PTL

\* The lookups of the DNS phase keep no trust once a resolver that does not
\* validate has been recognised (run.go, dropTrust).
THEOREM TrustIsWithheld == Spec => []TrustWithheld
<1>1. IInv => TrustWithheld
  BY DEF IInv
<1> QED  BY <1>1, Invariance, PTL

\* An answer memoised in an earlier phase is never replaced (run.go, get):
\* a step that stores under its name would have to be a lookup under way for
\* a name memoised earlier.
THEOREM AnswersAreKept == Spec => AnswersKept
<1> DEFINE Kept == \A k \in Keys :
                     done[k].status = "answered" /\ done[k].under # ctx
                        => done'[k] = [done[k] EXCEPT !.trust = done'[k].trust]
<1>1. ASSUME IInv, [Next]_vars PROVE [Kept]_vars
  <2> SUFFICES ASSUME NEW k \in Keys, done[k].status = "answered", done[k].under # ctx
               PROVE  done'[k] = [done[k] EXCEPT !.trust = done'[k].trust]
    OBVIOUS
  <2>1. done[k] \in Lookup /\ done[k] # NoEntry
    BY <1>1 DEF IInv, TypeOK, NoEntry, Lookup
  <2>2. CASE done' = done
    BY <2>1, <2>2 DEF Lookup
  <2>3. CASE ClassifyDNS
    BY <1>1, <2>1, <2>3 DEF ClassifyDNS, Lookup
  <2>4. ASSUME NEW t \in Tasks, Store(t)
        PROVE  done'[k] = done[k]
    <3>1. key[t] # k
      BY <1>1, <2>1, <2>4 DEF IInv, Store, WarmEntriesNotRefetched, InFlight
    <3>2. key[t] \in Keys
      BY <1>1, <2>4 DEF IInv, Store, Locals, InFlight
    <3> QED  BY <1>1, <2>4, <3>1, <3>2 DEF Store, IInv, TypeOK
  <2>5. done'[k] = done[k] => done'[k] = [done[k] EXCEPT !.trust = done'[k].trust]
    BY <2>1 DEF Lookup
  <2> QED  BY <1>1, <2>2, <2>3, <2>4, <2>5, MemoChanges DEF IInv
<1> QED  BY <1>1, Invariance, PTL DEF Spec, AnswersKept

-----------------------------------------------------------------------------
(* The wildcard probes *)

\* What a lookup of a random name, and one of www, may have come back with.
Back(n, q)  == Truth(zone, n, q) \union NoAnswer(zone)
BackWWW(q)  == WWWTruth(zone, q) \union NoAnswer(zone)

\* assessWildcard's result, from the lookups in hand.
Assessed ==
    LET v == IF skip # "" THEN "absent" ELSE setWildcardVerdict(Probes)
    IN  /\ report.status = v
        /\ report.via <=> v = "present" /\ wwwIsWildcard(Probes)
        /\ report.consistent <=> v = "present" /\ probesAgree(Probes)

\* The lookups are kept by name and type.
WildShape == look = [n \in Names |-> [q \in QTypes |-> look[n][q]]]

WildType ==
    /\ zone \in Zones /\ Possible(zone)
    /\ apex \in [A : ApexStatuses(zone), NS : ApexStatuses(zone)]
    /\ \A q \in QTypes : www[q] \in BackWWW(q)
    /\ WildShape
    /\ \A n \in Names, q \in QTypes :
           look[n][q] \in Back(n, q) \union {Unasked, Asked}
    /\ stage \in {"start", "first", "rest", "assess", "done"}

\* How far the probes are, and what is known by then.
WildStages ==
    /\ stage \in {"start", "first", "rest"} => skip = ""
    /\ skip # "" => skip = wildcardSkipReason
    /\ stage = "start" => \A n \in Names, q \in QTypes : look[n][q] = Unasked
    /\ stage = "first" => \A n \in Names \ {First}, q \in QTypes : look[n][q] = Unasked
    /\ stage # "start" /\ skip = "" => \A q \in QTypes : look[First][q] # Unasked
    /\ stage = "rest" => /\ \A n \in Names, q \in QTypes : look[n][q] # Unasked
                         /\ First \in Rest \/ Returned(First)
    /\ stage \in {"assess", "done"} => \A n \in Names : Returned(n)
    /\ stage \in {"assess", "done"} /\ skip = "" /\ classifyProbe(First) = "answered" =>
           \A n \in Names, q \in QTypes : look[n][q] # Unasked
    /\ stage = "done" => Assessed
    /\ stage # "done" => report = NoReport

WildInv == WildType /\ WildStages

-----------------------------------------------------------------------------
\* Every name the zone has no records of is answered for if there is a
\* wildcard: A with an address or an alias, AAAA perhaps with neither, and
\* NXDOMAIN only behind an alias.
LEMMA WildAnswers ==
    ASSUME zone \in Zones, Possible(zone), zone.wild # "none", NEW n \in Names
    PROVE  /\ \A l \in Back(n, "A") :
                 /\ Answered(l) => l.addrs # {} \/ l.cname
                 /\ l.status = "nxdomain" => l.cname
                 /\ l.addrs \subseteq {"a1", "a2"}
           /\ \A l \in Back(n, "AAAA") :
                 /\ l.status = "nxdomain" => l.cname
                 /\ l.addrs \subseteq {"b1"}
<1>1. zone.lucky = {} /\ zone.wild \in {"v4", "dual", "rotate", "cname", "dangling"}
  BY DEF Possible, Zones, Wildcards
<1>2. \A q : Back(n, q) = Synthesised(zone, q) \union NoAnswer(zone)
  BY <1>1 DEF Back, Truth
<1>3. \A l \in NoAnswer(zone) : l.status = "failure" /\ l.addrs = {}
  BY DEF NoAnswer, Result
<1>4. \A l \in Synthesised(zone, "A") :
         /\ l.addrs # {} \/ l.cname
         /\ l.status = "nxdomain" => l.cname
         /\ l.addrs \subseteq {"a1", "a2"}
  BY <1>1 DEF Synthesised, Result
<1>5. \A l \in Synthesised(zone, "AAAA") :
         /\ l.status = "nxdomain" => l.cname
         /\ l.addrs \subseteq {"b1"}
  BY <1>1 DEF Synthesised, Result
<1> QED  BY <1>2, <1>3, <1>4, <1>5 DEF Answered

\* A wildcard that does not rotate gives each type one answer.
LEMMA WildUniform ==
    ASSUME WildType, zone.wild \notin {"none", "rotate"}, NEW m \in Names, NEW n \in Names,
           NEW q \in QTypes, Answered(look[m][q]), Answered(look[n][q])
    PROVE  look[m][q] = look[n][q] /\ look[n][q] \in Synthesised(zone, q)
<1>1. zone.lucky = {} /\ zone.wild \in {"v4", "dual", "cname", "dangling"}
  BY DEF WildType, Possible, Zones, Wildcards
<1>2. look[m][q] \in Back(m, q) /\ look[n][q] \in Back(n, q)
  BY DEF WildType, Answered, Asked, Unasked
<1>3. look[m][q] \in Synthesised(zone, q) /\ look[n][q] \in Synthesised(zone, q)
  BY <1>1, <1>2 DEF Back, Truth, NoAnswer, Result, Answered
<1>4. q = "A" \/ q = "AAAA"
  BY DEF QTypes
<1>5. \A k, l \in Synthesised(zone, q) : k = l
  BY <1>1, <1>4 DEF Synthesised
<1> QED  BY <1>3, <1>5

\* Without one only a name that happens to exist has an address.
LEMMA NoWildAnswers ==
    ASSUME zone \in Zones, Possible(zone), zone.wild = "none", NEW n \in Names,
           n \notin zone.lucky, NEW q \in QTypes, NEW l \in Back(n, q)
    PROVE  l.addrs = {} /\ ~l.cname
<1>1. Truth(zone, n, q) = {Result(zone.denial, {}, FALSE)}
  BY DEF Truth, Synthesised
<1>2. l = Result(zone.denial, {}, FALSE) \/ l = Result("failure", {}, FALSE)
  BY <1>1 DEF Back, NoAnswer
<1> QED  BY <1>2 DEF Result

\* A probe of a zone with a wildcard is never denied; one of a name that does
\* not exist in a zone without is never answered.
LEMMA ProbeOutcome ==
    ASSUME WildType, NEW n \in Names,
           \A q \in QTypes : look[n][q] \notin {Asked, Unasked}
    PROVE  /\ classifyProbe(n) \in {"answered", "denied", "unresolved"}
           /\ zone.wild # "none" => classifyProbe(n) # "denied"
           /\ zone.wild = "none" /\ n \notin zone.lucky => classifyProbe(n) # "answered"
           /\ /\ \A q \in QTypes : Answered(look[n][q])
              => /\ zone.wild # "none" => classifyProbe(n) = "answered"
                 /\ classifyProbe(n) # "unresolved"
<1>1. look[n]["A"] \in Back(n, "A") /\ look[n]["AAAA"] \in Back(n, "AAAA")
  BY DEF WildType, QTypes
<1>2. zone \in Zones /\ Possible(zone)
  BY DEF WildType
<1>3. CASE zone.wild # "none"
  BY <1>1, <1>2, <1>3, WildAnswers DEF classifyProbe, Answered, QTypes
<1>4. CASE zone.wild = "none"
  <2>1. n \notin zone.lucky => \A q \in QTypes : look[n][q].addrs = {} /\ ~look[n][q].cname
    BY <1>1, <1>2, <1>4, NoWildAnswers DEF QTypes
  <2> QED  BY <2>1, <1>4 DEF classifyProbe, QTypes, Answered
<1> QED  BY <1>3, <1>4

\* It holds before the first probe.
LEMMA WildInitInv == WildInit => WildInv
<1> SUFFICES ASSUME WildInit PROVE WildInv
  OBVIOUS
<1>1. WildShape
  BY DEF WildInit, WildShape
<1>2. \A q \in QTypes : www[q] \in BackWWW(q)
  BY DEF WildInit, BackWWW, QTypes
<1>3. \A n \in Names, q \in QTypes : look[n][q] = Unasked
  BY DEF WildInit
<1>4. WildType
  BY <1>1, <1>2, <1>3 DEF WildInit, WildType
<1>5. WildStages
  BY DEF WildInit, WildStages
<1> QED  BY <1>4, <1>5 DEF WildInv

\* Whatever comes back is neither "asked" nor "unasked".
LEMMA BackStatus ==
    ASSUME zone \in Zones, NEW n \in Names, NEW q \in QTypes, NEW l \in Back(n, q)
    PROVE  l # Asked /\ l # Unasked
<1>1. l.status \in {"ok", "nxrrset", "nxdomain", "failure"}
  <2>1. CASE l \in NoAnswer(zone)
    BY <2>1 DEF NoAnswer, Result
  <2>2. CASE l \in HostAnswer(q, "c1")
    BY <2>2 DEF HostAnswer, Result
  <2>3. CASE l \in Synthesised(zone, q)
    <3>1. zone.wild \in Wildcards /\ zone.denial \in {"nxdomain", "nxrrset"} /\ q \in {"A", "AAAA"}
      BY DEF Zones, QTypes
    <3> QED  BY <2>3, <3>1 DEF Synthesised, Result, Wildcards
  <2> QED  BY <2>1, <2>2, <2>3 DEF Back, Truth
<1> QED  BY <1>1 DEF Asked, Unasked

\* A step changes neither the zone nor what was learnt before the probes.
LEMMA WildWorld ==
    ASSUME UNCHANGED <<zone, apex, www>>
    PROVE  /\ \A n \in Names, q \in QTypes : Back(n, q)' = Back(n, q)
           /\ \A q \in QTypes : BackWWW(q)' = BackWWW(q)
           /\ WildShape /\ look' = look => WildShape'
           /\ wildcardSkipReason' = wildcardSkipReason
           /\ ApexStatuses(zone)' = ApexStatuses(zone)
           /\ zone \in Zones => (zone \in Zones)'
           /\ Possible(zone) => Possible(zone)'
  BY DEF Back, BackWWW, wildcardSkipReason, WildShape

\* Asking for names changes their lookups and no other.
LEMMA WildAsk ==
    ASSUME WildType, NEW ns \in SUBSET Names, Ask(ns)
    PROVE  /\ WildShape'
           /\ \A n \in Names, q \in QTypes :
                  look'[n][q] = IF n \in ns THEN Asked ELSE look[n][q]
<1>1. WildShape
  BY DEF WildType
<1> QED  BY <1>1 DEF Ask, WildShape

\* The verdict is a function of the lookups.
LEMMA WildVerdict ==
    ASSUME UNCHANGED <<www, look>>
    PROVE  /\ setWildcardVerdict(Probes)' = setWildcardVerdict(Probes)
           /\ wwwIsWildcard(Probes)' <=> wwwIsWildcard(Probes)
           /\ probesAgree(Probes)' <=> probesAgree(Probes)
<1> USE DEF Probes, classifyProbe, probeAddrs, probeCNAME, Answered
<1>1. setWildcardVerdict(Probes)' = setWildcardVerdict(Probes)
  BY DEF setWildcardVerdict
<1>2. wwwIsWildcard(Probes)' <=> wwwIsWildcard(Probes)
  BY DEF wwwIsWildcard, wwwAddrs
<1>3. probesAgree(Probes)' <=> probesAgree(Probes)
  BY DEF probesAgree
<1> QED  BY <1>1, <1>2, <1>3

\* Every step of the probes and of the assessment keeps it.
LEMMA WildStep == WildInv /\ [WildNext]_wildVars => WildInv'
<1> SUFFICES ASSUME WildInv, [WildNext]_wildVars PROVE WildInv'
  OBVIOUS
<1>0. /\ Asked # Unasked
      /\ First \in Names /\ Rest \subseteq Names /\ Names = {First} \union Rest
      /\ WildType /\ WildStages
  BY DEF Asked, Unasked, Names, WildInv
<1>1. CASE Start
  <2>1. UNCHANGED <<zone, apex, www, report>> /\ stage = "start" /\ skip' = wildcardSkipReason
    BY <1>1 DEF Start
  <2>2. CASE skip' # ""
    <3>1. look' = look /\ stage' = "assess"
      BY <1>1, <2>2 DEF Start
    <3>2. WildType'
      BY <1>0, <2>1, <3>1, WildWorld DEF WildType
    <3>3. WildStages'
      <4>1. wildcardSkipReason' = wildcardSkipReason
        BY <2>1, WildWorld
      <4>2. \A n \in Names : Returned(n)'
        BY <1>0, <2>1, <3>1 DEF WildStages, Returned
      <4>3. report' = NoReport
        BY <1>0, <2>1 DEF WildStages
      <4> QED  BY <2>1, <2>2, <3>1, <4>1, <4>2, <4>3 DEF WildStages
    <3> QED  BY <3>2, <3>3 DEF WildInv
  <2>3. CASE skip' = ""
    <3>1. Ask({First}) /\ stage' = "first"
      BY <1>1, <2>3 DEF Start
    <3>2. /\ WildShape'
          /\ \A n \in Names, q \in QTypes :
                 look'[n][q] = IF n \in {First} THEN Asked ELSE look[n][q]
      BY <1>0, <3>1, WildAsk
    <3>3. WildType'
      <4>1. \A n \in Names, q \in QTypes :
                look'[n][q] \in Back(n, q)' \union {Unasked, Asked}
        BY <1>0, <2>1, <3>2, WildWorld DEF WildType
      <4> QED  BY <1>0, <2>1, <3>1, <3>2, <4>1, WildWorld DEF WildType
    <3>4. WildStages'
      <4>0. \A n \in Names, q \in QTypes : look[n][q] = Unasked
        BY <1>0, <2>1 DEF WildStages
      <4>1. \A n \in Names \ {First}, q \in QTypes : look'[n][q] = Unasked
        BY <3>2, <4>0
      <4>2. \A q \in QTypes : look'[First][q] # Unasked
        BY <1>0, <3>2
      <4>3. report' = NoReport
        BY <1>0, <2>1 DEF WildStages
      <4> QED  BY <2>3, <3>1, <4>1, <4>2, <4>3 DEF WildStages
    <3> QED  BY <3>3, <3>4 DEF WildInv
  <2> QED  BY <2>2, <2>3
<1>2. CASE FirstReturns
  <2>1. UNCHANGED <<zone, apex, www, skip, report>> /\ stage = "first" /\ Returned(First)
    BY <1>2 DEF FirstReturns
  <2>2. CASE classifyProbe(First) = "answered"
    <3>1. Ask(Rest) /\ stage' = "rest"
      BY <1>2, <2>2 DEF FirstReturns
    <3>2. /\ WildShape'
          /\ \A n \in Names, q \in QTypes :
                 look'[n][q] = IF n \in Rest THEN Asked ELSE look[n][q]
      BY <1>0, <3>1, WildAsk
    <3>3. WildType'
      BY <1>0, <2>1, <3>1, <3>2, WildWorld DEF WildType
    <3>4. WildStages'
      <4>0. \A q \in QTypes : look[First][q] # Unasked
        BY <1>0, <2>1 DEF WildStages
      <4>1. \A n \in Names, q \in QTypes : look'[n][q] # Unasked
        BY <1>0, <3>2, <4>0
      <4>2. First \in Rest \/ Returned(First)'
        BY <1>0, <2>1, <3>2 DEF Returned
      <4>3. report' = NoReport /\ skip' = ""
        BY <1>0, <2>1 DEF WildStages
      <4> QED  BY <1>0, <3>1, <4>1, <4>2, <4>3 DEF WildStages
    <3> QED  BY <3>3, <3>4 DEF WildInv
  <2>3. CASE classifyProbe(First) # "answered"
    <3>1. look' = look /\ stage' = "assess"
      BY <1>2, <2>3 DEF FirstReturns
    <3>2. WildType'
      BY <1>0, <2>1, <3>1, WildWorld DEF WildType
    <3>3. classifyProbe(First)' # "answered"
      BY <2>3, <3>1 DEF classifyProbe
    <3>4. WildStages'
      BY <1>0, <2>1, <3>1, <3>3, WildWorld DEF WildStages, Returned
    <3> QED  BY <3>2, <3>4 DEF WildInv
  <2> QED  BY <2>2, <2>3
<1>3. CASE RestReturns
  <2>1. UNCHANGED <<zone, apex, www, look, skip, report>> /\ stage = "rest" /\ stage' = "assess"
        /\ \A n \in Rest : Returned(n)
    BY <1>3 DEF RestReturns
  <2>2. WildType'
    BY <1>0, <2>1, WildWorld DEF WildType
  <2>3. WildStages'
    BY <1>0, <2>1, WildWorld DEF WildStages, Returned
  <2> QED  BY <2>2, <2>3 DEF WildInv
<1>4. CASE Assess
  <2>1. UNCHANGED <<zone, apex, www, look, skip>> /\ stage = "assess" /\ stage' = "done"
    BY <1>4 DEF Assess
  <2>2. WildType'
    BY <1>0, <2>1, WildWorld DEF WildType
  <2>3. Assessed'
    <3> DEFINE v == IF skip # "" THEN "absent" ELSE setWildcardVerdict(Probes)
    <3>1. /\ report'.status = v
          /\ report'.via <=> v = "present" /\ wwwIsWildcard(Probes)
          /\ report'.consistent <=> v = "present" /\ probesAgree(Probes)
      BY <1>4 DEF Assess, NoReport
    <3> QED  BY <2>1, <3>1, WildVerdict DEF Assessed
  <2>4. WildStages'
    BY <1>0, <2>1, <2>3, WildWorld DEF WildStages, Returned, classifyProbe
  <2> QED  BY <2>2, <2>4 DEF WildInv
<1>5. CASE \E n \in Names, q \in QTypes : LookupReturns(n, q)
  <2>1. PICK n \in Names, q \in QTypes : LookupReturns(n, q)
    BY <1>5
  <2>2. PICK l \in Back(n, q) : look' = [look EXCEPT ![n][q] = l]
    BY <2>1 DEF LookupReturns, Back
  <2>3. l # Asked /\ l # Unasked
    BY <1>0, <2>2, BackStatus DEF WildType
  <2>4. look[n][q] = Asked /\ UNCHANGED <<zone, apex, www, stage, skip, report>>
    BY <2>1 DEF LookupReturns
  <2>5. /\ WildShape'
        /\ \A m \in Names, p \in QTypes :
               look'[m][p] = IF m = n /\ p = q THEN l ELSE look[m][p]
    BY <1>0, <2>2 DEF WildShape, WildType
  <2>6. WildType'
    <3>1. \A m \in Names, p \in QTypes :
              look'[m][p] \in Back(m, p)' \union {Unasked, Asked}
      BY <1>0, <2>2, <2>4, <2>5, WildWorld DEF WildType
    <3> QED  BY <1>0, <2>4, <2>5, <3>1, WildWorld DEF WildType
  <2>7. stage \in {"first", "rest"}
    BY <1>0, <2>4 DEF Returned, WildStages, WildType
  <2>8. WildStages'
    <3>1. \A m \in Names, p \in QTypes :
              look'[m][p] = Unasked <=> look[m][p] = Unasked
      BY <1>0, <2>3, <2>4, <2>5
    <3>2. Returned(First) => Returned(First)'
      BY <1>0, <2>3, <2>5 DEF Returned
    <3>3. stage' = stage /\ skip' = "" /\ report' = NoReport
      BY <1>0, <2>4, <2>7 DEF WildStages
    <3>4. CASE stage = "first"
      BY <1>0, <3>1, <3>3, <3>4 DEF WildStages
    <3>5. CASE stage = "rest"
      BY <1>0, <3>1, <3>2, <3>3, <3>5 DEF WildStages
    <3> QED  BY <2>7, <3>4, <3>5
  <2> QED  BY <2>6, <2>8 DEF WildInv
<1>6. CASE UNCHANGED wildVars
  <2>1. UNCHANGED <<zone, apex, www, look, stage, skip, report>>
    BY <1>6 DEF wildVars
  <2>2. WildType'
    BY <1>0, <2>1, WildWorld DEF WildType
  <2>3. Assessed => Assessed'
    BY <2>1, WildVerdict DEF Assessed
  <2>4. WildStages'
    BY <1>0, <2>1, <2>3, WildWorld DEF WildStages, Returned, classifyProbe
  <2> QED  BY <2>2, <2>4 DEF WildInv
<1> QED
  BY <1>1, <1>2, <1>3, <1>4, <1>5, <1>6 DEF WildNext, Done

\* So it holds throughout the detection.
LEMMA WildInvariant == WildSpec => []WildInv
  BY WildInitInv, WildStep, PTL DEF WildSpec

\* What the report of a finished check rests on: every probe was returned, and
\* either all of the names were probed or the first one was not answered.
LEMMA WildDone ==
    ASSUME WildInv, stage = "done", skip = ""
    PROVE  /\ First \in Probes
           /\ \A n \in Probes : n \in Names
                  /\ \A q \in QTypes : look[n][q] \notin {Asked, Unasked}
           /\ classifyProbe(First) = "answered" => Probes = Names
           /\ \A n \in Probes :
                  classifyProbe(n) \in {"answered", "denied", "unresolved"}
<1>1. First \in Names
  BY DEF Names
<1>2. First \in Probes
  BY <1>1 DEF WildInv, WildStages, Probes
<1>3. \A n \in Probes : n \in Names
          /\ \A q \in QTypes : look[n][q] \notin {Asked, Unasked}
  BY DEF WildInv, WildStages, Probes, Returned
<1>4. classifyProbe(First) = "answered" => Probes = Names
  BY DEF WildInv, WildStages, Probes
<1>5. \A n \in Probes : classifyProbe(n) \in {"answered", "denied", "unresolved"}
  BY <1>3, ProbeOutcome DEF WildInv
<1> QED  BY <1>2, <1>3, <1>4, <1>5

\* Wildcard: the verdict is the zone's, whatever was lost and however many of
\* the random names exist (setWildcardVerdict, classifyProbe).
THEOREM WildcardVerdictsAreSound == WildSpec => []VerdictSound
<1>1. WildInv => VerdictSound
  <2> SUFFICES ASSUME WildInv PROVE VerdictSound
    OBVIOUS
  <2>0. WildType /\ WildStages /\ zone \in Zones /\ Possible(zone)
    BY DEF WildInv, WildType
  <2>1. CASE stage # "done"
    <3>1. report = NoReport
      BY <2>0, <2>1 DEF WildStages
    <3>2. report.status = "none"
      BY <3>1 DEF NoReport
    <3> QED  BY <3>2 DEF VerdictSound
  <2>2. CASE stage = "done" /\ skip # ""
    <3>1. report.status = "absent" /\ skip = wildcardSkipReason
      BY <2>0, <2>2 DEF WildStages, Assessed
    <3>2. CASE skip = "no domain"
      <4>1. zone.apex # "there"
        BY <2>0, <3>1, <3>2 DEF wildcardSkipReason, WildType, ApexStatuses
      <4>2. zone.apex = "gone" \/ zone.apex = "alias"
        BY <2>0, <4>1 DEF Zones
      <4>3. zone.apex = "gone" => zone.wild = "none"
        BY <2>0 DEF Possible
      <4> QED  BY <2>2, <3>1, <4>2, <4>3 DEF VerdictSound, AliasOfNothing
    <3>3. CASE skip = "no www"
      <4>1. www["A"].status = "nxdomain" /\ www["A"] \in BackWWW("A")
        BY <2>0, <3>1, <3>3 DEF wildcardSkipReason, WildType, QTypes
      <4>2. www["A"] \in WWWTruth(zone, "A")
        BY <4>1 DEF BackWWW, NoAnswer, Result
      <4>3. zone.wwwHost \in {"none", "same", "own", "other", "alias"}
        BY <2>0 DEF Zones
      <4>4. zone.wwwHost = "alias" \/ (zone.wwwHost = "none" /\ www["A"] \in Synthesised(zone, "A"))
        BY <4>1, <4>2, <4>3 DEF WWWTruth, HostAnswer, Result
      <4>5. zone.wwwHost = "none" => zone.wild \in {"none", "dangling"}
        BY <2>0, <4>1, <4>4 DEF Synthesised, Result, Zones, Wildcards
      <4> QED  BY <2>2, <3>1, <4>4, <4>5 DEF VerdictSound, AliasOfNothing
    <3> QED  BY <2>2, <3>1, <3>2, <3>3 DEF wildcardSkipReason
  <2>3. CASE stage = "done" /\ skip = ""
    <3>1. report.status = setWildcardVerdict(Probes)
      BY <2>0, <2>3 DEF WildStages, Assessed
    <3>2. CASE zone.wild # "none"
      <4>1. \A n \in Probes : classifyProbe(n) # "denied"
        BY <2>0, <2>3, <3>2, WildDone, ProbeOutcome
      <4> QED  BY <3>1, <3>2, <4>1 DEF setWildcardVerdict, VerdictSound
    <3>3. CASE zone.wild = "none"
      <4>1. \E n \in Probes : classifyProbe(n) # "answered"
        <5>1. CASE classifyProbe(First) # "answered"
          BY <2>3, <5>1, WildDone
        <5>2. CASE classifyProbe(First) = "answered"
          <6>1. PICK n \in Names : n \notin zone.lucky
            BY <2>0 DEF Possible, Zones
          <6> QED  BY <2>0, <2>3, <3>3, <5>2, <6>1, WildDone, ProbeOutcome
        <5> QED  BY <5>1, <5>2
      <4>2. report.status # "present"
        BY <2>3, <3>1, <4>1, WildDone DEF setWildcardVerdict
      <4> QED  BY <3>3, <4>2 DEF VerdictSound
    <3> QED  BY <3>2, <3>3
  <2> QED  BY <2>1, <2>2, <2>3
<1> QED  BY <1>1, WildInvariant, PTL

\* Wildcard: if every lookup was answered, the check decides, and rightly, and a
\* wildcard that is the same for every name is consistent (classifyProbe,
\* probesAgree, probeWildcard's early return).
THEOREM WildcardAnswersDecide == WildSpec => []AnswersDecide
<1>1. WildInv => AnswersDecide
  <2> SUFFICES ASSUME WildInv, stage = "done", skip = "",
                      \A n \in Probes, q \in QTypes : Answered(look[n][q])
               PROVE  /\ report.status = IF zone.wild = "none" THEN "absent" ELSE "present"
                      /\ zone.wild \notin {"none", "rotate"} => report.consistent
    BY DEF AnswersDecide
  <2>0. WildType /\ WildStages /\ zone \in Zones /\ Possible(zone)
    BY DEF WildInv, WildType
  <2>1. /\ report.status = setWildcardVerdict(Probes)
        /\ report.consistent <=> report.status = "present" /\ probesAgree(Probes)
    BY <2>0 DEF WildStages, Assessed
  <2>2. \A n \in Probes : classifyProbe(n) # "unresolved"
    BY <2>0, WildDone, ProbeOutcome
  <2>3. CASE zone.wild = "none"
    <3>1. \E n \in Probes : classifyProbe(n) # "answered"
      <4>1. CASE classifyProbe(First) # "answered"
        BY <4>1, WildDone
      <4>2. CASE classifyProbe(First) = "answered"
        <5>1. PICK n \in Names : n \notin zone.lucky
          BY <2>0 DEF Possible, Zones
        <5> QED  BY <2>0, <2>3, <4>2, <5>1, WildDone, ProbeOutcome
      <4> QED  BY <4>1, <4>2
    <3>2. \E n \in Probes : classifyProbe(n) = "denied"
      BY <2>2, <3>1, WildDone
    <3> QED  BY <2>1, <2>3, <3>2 DEF setWildcardVerdict
  <2>4. CASE zone.wild # "none"
    <3>1. \A n \in Probes : classifyProbe(n) = "answered"
      BY <2>0, <2>4, WildDone, ProbeOutcome
    <3>2. report.status = "present"
      BY <2>1, <3>1 DEF setWildcardVerdict
    <3>3. zone.wild # "rotate" => probesAgree(Probes)
      <4> SUFFICES ASSUME zone.wild # "rotate", NEW m \in Probes, NEW n \in Probes
                   PROVE  /\ probeAddrs(m) = probeAddrs(n)
                          /\ probeCNAME(m) <=> probeCNAME(n)
        BY DEF probesAgree
      <4>0. m \in Names /\ n \in Names
        BY WildDone
      <4>1. \A q \in QTypes : look[m][q] = look[n][q]
        BY <2>0, <2>4, <4>0, WildUniform
      <4> QED  BY <4>1 DEF probeAddrs, probeCNAME, QTypes
    <3> QED  BY <2>1, <2>4, <3>2, <3>3
  <2> QED  BY <2>3, <2>4
<1> QED  BY <1>1, WildInvariant, PTL

\* What www's addresses can be.
LEMMA WWWAnswers ==
    ASSUME WildType
    PROVE  /\ zone.wwwHost = "own" => wwwAddrs \subseteq {"c1"}
           /\ zone.wwwHost \in {"other", "alias"} => wwwAddrs = {}
           /\ zone.wwwHost = "same" => wwwAddrs \subseteq {"a1"}
           /\ (zone.wwwHost = "none" /\ \A q \in QTypes : Answered(www[q])) =>
                  \A q \in QTypes : www[q] \in Synthesised(zone, q)
<1>1. www["A"] \in BackWWW("A") /\ www["AAAA"] \in BackWWW("AAAA")
  BY DEF WildType, QTypes
<1>2. \A l \in NoAnswer(zone) : l.addrs = {} /\ ~Answered(l)
  BY DEF NoAnswer, Result, Answered
<1>3. zone.wwwHost = "own" => wwwAddrs \subseteq {"c1"}
  BY <1>1, <1>2 DEF wwwAddrs, BackWWW, WWWTruth, HostAnswer, Result
<1>4. zone.wwwHost = "same" => wwwAddrs \subseteq {"a1"}
  BY <1>1, <1>2 DEF wwwAddrs, BackWWW, WWWTruth, HostAnswer, Result
<1>5. zone.wwwHost \in {"other", "alias"} => wwwAddrs = {}
  BY <1>1, <1>2 DEF wwwAddrs, BackWWW, WWWTruth, Result
<1>6. zone.wwwHost = "none" => \A q \in QTypes : WWWTruth(zone, q) = Synthesised(zone, q)
  BY DEF WWWTruth
<1>7. (zone.wwwHost = "none" /\ \A q \in QTypes : Answered(www[q])) =>
          \A q \in QTypes : www[q] \in Synthesised(zone, q)
  BY <1>1, <1>2, <1>6 DEF BackWWW, QTypes
<1> QED  BY <1>3, <1>4, <1>5, <1>7

\* Wildcard: www is put down to the wildcard only if it has no host of its own
\* or one with the wildcard's addresses, and always if the wildcard is the same
\* for every name and every lookup was answered (wwwIsWildcard).
THEOREM WildcardAttributionIsSound == WildSpec => []WWWViaWildcardSound
<1>1. WildInv /\ VerdictSound => WWWViaWildcardSound
  <2> SUFFICES ASSUME WildInv, VerdictSound PROVE WWWViaWildcardSound
    OBVIOUS
  <2>0. WildType /\ WildStages /\ zone \in Zones /\ Possible(zone)
    BY DEF WildInv, WildType
  <2>1. ASSUME report.via
        PROVE  /\ zone.wild # "none"
               /\ \/ zone.wwwHost = "none"
                  \/ zone.wwwHost = "same" /\ (zone.wild = "dual" => ~AllAnswered)
    <3>1. stage = "done" /\ report.status = "present" /\ wwwIsWildcard(Probes) /\ skip = ""
      <4>1. stage = "done"
        <5> SUFFICES ASSUME stage # "done" PROVE FALSE
          OBVIOUS
        <5>1. report = NoReport
          BY <2>0 DEF WildStages
        <5> QED  BY <2>1, <5>1 DEF NoReport
      <4>2. Assessed
        BY <2>0, <4>1 DEF WildStages
      <4> QED  BY <2>1, <4>1, <4>2 DEF Assessed
    <3>2. zone.wild # "none"
      BY <3>1 DEF VerdictSound
    <3>3. PICK n \in Probes : probeAddrs(n) = wwwAddrs /\ wwwAddrs # {}
      BY <3>1 DEF wwwIsWildcard
    <3>4. n \in Names /\ look[n]["A"] \in Back(n, "A") /\ look[n]["AAAA"] \in Back(n, "AAAA")
      BY <2>0, <3>1, WildDone DEF WildType, QTypes
    <3>5. probeAddrs(n) \subseteq {"a1", "a2", "b1"}
      BY <2>0, <3>2, <3>4, WildAnswers DEF probeAddrs
    <3>6. zone.wwwHost \in {"none", "same"}
      <4>1. zone.wwwHost \in {"none", "same", "own", "other", "alias"}
        BY <2>0 DEF Zones
      <4>2. zone.wwwHost # "own"
        BY <2>0, <3>3, <3>5, WWWAnswers
      <4>3. zone.wwwHost \notin {"other", "alias"}
        BY <2>0, <3>3, WWWAnswers
      <4> QED  BY <4>1, <4>2, <4>3
    <3>7. ASSUME zone.wwwHost = "same", zone.wild = "dual", AllAnswered PROVE FALSE
      <4>1. Answered(look[n]["AAAA"])
        BY <3>4, <3>7 DEF AllAnswered, QTypes
      <4>2. look[n]["AAAA"] \in Synthesised(zone, "AAAA")
        BY <2>0, <3>4, <3>7, <4>1, WildUniform DEF QTypes
      <4>3. "b1" \in look[n]["AAAA"].addrs
        BY <3>7, <4>2 DEF Synthesised, Result
      <4>4. "b1" \notin wwwAddrs
        BY <2>0, <3>7, WWWAnswers
      <4> QED  BY <3>3, <4>3, <4>4 DEF probeAddrs
    <3> QED  BY <3>2, <3>6, <3>7
  <2>2. ASSUME stage = "done", skip = "", AllAnswered,
               zone.wild \in {"v4", "dual", "cname"}, zone.wwwHost = "none"
        PROVE  report.via
    <3>1. /\ \A q \in QTypes : Answered(www[q])
          /\ \A n \in Names, q \in QTypes : Answered(look[n][q])
      BY <2>2 DEF AllAnswered
    <3>2. First \in Probes /\ First \in Names
          /\ \A n \in Probes : classifyProbe(n) = "answered"
      BY <2>0, <2>2, <3>1, WildDone, ProbeOutcome
    <3>3. setWildcardVerdict(Probes) = "present"
      BY <3>2 DEF setWildcardVerdict
    <3>4. /\ look[First]["A"] \in Synthesised(zone, "A")
          /\ look[First]["AAAA"] \in Synthesised(zone, "AAAA")
      BY <2>0, <2>2, <3>1, <3>2, WildUniform DEF QTypes
    <3>5. www["A"] \in Synthesised(zone, "A") /\ www["AAAA"] \in Synthesised(zone, "AAAA")
      BY <2>0, <2>2, <3>1, WWWAnswers DEF QTypes
    <3>6. probeAddrs(First) = wwwAddrs /\ wwwAddrs # {}
      <4>1. look[First]["A"] = www["A"] /\ look[First]["AAAA"] = www["AAAA"]
        BY <2>2, <3>4, <3>5 DEF Synthesised
      <4>2. www["A"].addrs = {"a1"}
        <5>1. CASE zone.wild = "cname"
          BY <3>5, <5>1 DEF Synthesised, Result
        <5>2. CASE zone.wild \in {"v4", "dual"}
          BY <3>5, <5>2 DEF Synthesised, Result
        <5> QED  BY <2>2, <5>1, <5>2
      <4> QED  BY <4>1, <4>2 DEF probeAddrs, wwwAddrs
    <3>7. wwwIsWildcard(Probes)
      BY <3>2, <3>6 DEF wwwIsWildcard
    <3> QED  BY <2>0, <2>2, <3>3, <3>7 DEF WildStages, Assessed
  <2> QED  BY <2>1, <2>2 DEF WWWViaWildcardSound
<1> QED  BY <1>1, WildInvariant, WildcardVerdictsAreSound, PTL

\* What a zone can answer is a lookup.
LEMMA AnswerTypes ==
    ASSUME NEW z \in Zones, NEW n \in Names, NEW q \in QTypes
    PROVE  /\ Truth(z, n, q) \union NoAnswer(z) \subseteq ProbeLookup
           /\ WWWTruth(z, q) \union NoAnswer(z) \subseteq ProbeLookup
<1>1. ASSUME NEW s \in LookupStatuses, NEW as \in SUBSET {"a1", "a2", "b1", "c1"}, NEW c \in BOOLEAN
      PROVE  Result(s, as, c) \in ProbeLookup
  BY DEF Result, ProbeLookup
<1>2. /\ z.wild \in {"none", "v4", "dual", "rotate", "cname", "dangling"}
      /\ z.denial \in LookupStatuses /\ z.wwwHost \in {"none", "same", "own", "other", "alias"}
  BY DEF Zones, Wildcards, LookupStatuses
<1>3. NoAnswer(z) \subseteq ProbeLookup
  BY <1>1 DEF NoAnswer, LookupStatuses
<1>4. \A a \in {"a1", "c1"} : HostAnswer(q, a) \subseteq ProbeLookup
  BY <1>1 DEF HostAnswer, LookupStatuses
<1>5. Synthesised(z, q) \subseteq ProbeLookup
  <2>1. CASE z.wild \in {"none", "dangling"}
    BY <1>1, <1>2, <2>1 DEF Synthesised, LookupStatuses
  <2>2. CASE z.wild \in {"cname", "dual"}
    BY <1>1, <1>2, <2>2 DEF Synthesised, LookupStatuses, QTypes
  <2>3. CASE z.wild = "v4"
    BY <1>1, <2>3 DEF Synthesised, LookupStatuses, QTypes
  <2>4. CASE z.wild = "rotate"
    BY <1>1, <2>4 DEF Synthesised, LookupStatuses, QTypes
  <2> QED  BY <1>2, <2>1, <2>2, <2>3, <2>4
<1>6. Truth(z, n, q) \subseteq ProbeLookup
  BY <1>4, <1>5 DEF Truth
<1>7. WWWTruth(z, q) \subseteq ProbeLookup
  <2>1. CASE z.wwwHost \in {"other", "alias"}
    BY <1>1, <2>1 DEF WWWTruth, LookupStatuses
  <2>2. CASE z.wwwHost \notin {"other", "alias"}
    BY <1>2, <1>4, <1>5, <2>2 DEF WWWTruth
  <2> QED  BY <2>1, <2>2
<1> QED  BY <1>3, <1>6, <1>7

\* Every variable of the wildcard probes keeps its type, for any set of random
\* names (probeWildcard, assessWildcard).
THEOREM WildcardTypeCorrect == WildSpec => []WildTypeOK
<1> DEFINE Look == ProbeLookup \union {Unasked, Asked}
           Reports == [status : {"none", "absent", "unknown", "present"}, via : BOOLEAN, consistent : BOOLEAN]
<1>1. ASSUME WildInit PROVE WildTypeOK
  <2>1. zone \in Zones /\ Possible(zone)
    BY <1>1 DEF WildInit
  <2>2. apex \in [A : LookupStatuses, NS : LookupStatuses]
    BY <1>1 DEF WildInit, ApexStatuses, LookupStatuses
  <2>3. www \in [QTypes -> ProbeLookup]
    <3>1. PICK a \in WWWTruth(zone, "A") \union NoAnswer(zone),
               aaaa \in WWWTruth(zone, "AAAA") \union NoAnswer(zone) :
                  www = [q \in QTypes |-> IF q = "A" THEN a ELSE aaaa]
      BY <1>1 DEF WildInit
    <3>2. First \in Names
      BY DEF Names
    <3>3. a \in ProbeLookup /\ aaaa \in ProbeLookup
      BY <2>1, <3>2, AnswerTypes DEF QTypes
    <3> QED  BY <3>1, <3>3
  <2>4. look \in [Names -> [QTypes -> Look]]
    BY <1>1 DEF WildInit
  <2>5. report \in Reports
    BY <1>1 DEF WildInit, NoReport
  <2> QED  BY <1>1, <2>1, <2>2, <2>3, <2>4, <2>5 DEF WildInit, WildTypeOK
<1>2. ASSUME WildTypeOK, [WildNext]_wildVars PROVE WildTypeOK'
  <2>0. /\ zone \in Zones /\ Possible(zone) /\ apex \in [A : LookupStatuses, NS : LookupStatuses]
        /\ www \in [QTypes -> ProbeLookup] /\ look \in [Names -> [QTypes -> Look]]
        /\ stage \in {"start", "first", "rest", "assess", "done"}
        /\ skip \in {"", "no domain", "no www"} /\ report \in Reports
    BY <1>2 DEF WildTypeOK
  <2>1. ASSUME NEW ns, Ask(ns) PROVE look' \in [Names -> [QTypes -> Look]]
    BY <2>0, <2>1 DEF Ask
  <2>2. CASE Start
    <3>1. look' \in [Names -> [QTypes -> Look]]
      BY <2>0, <2>1, <2>2 DEF Start
    <3>2. skip' \in {"", "no domain", "no www"} /\ stage' \in {"first", "assess"}
      BY <2>2 DEF Start, wildcardSkipReason
    <3> QED  BY <2>0, <2>2, <3>1, <3>2 DEF Start, WildTypeOK
  <2>3. CASE FirstReturns
    <3>1. look' \in [Names -> [QTypes -> Look]]
      BY <2>0, <2>1, <2>3 DEF FirstReturns
    <3> QED  BY <2>0, <2>3, <3>1 DEF FirstReturns, WildTypeOK
  <2>4. CASE RestReturns
    BY <2>0, <2>4 DEF RestReturns, WildTypeOK
  <2>5. CASE Assess
    <3>1. setWildcardVerdict(Probes) \in {"absent", "unknown", "present"}
      BY DEF setWildcardVerdict
    <3>2. report' \in Reports
      BY <2>5, <3>1 DEF Assess, NoReport
    <3> QED  BY <2>0, <2>5, <3>2 DEF Assess, WildTypeOK
  <2>6. ASSUME NEW n \in Names, NEW q \in QTypes, LookupReturns(n, q) PROVE WildTypeOK'
    <3>1. PICK l \in Truth(zone, n, q) \union NoAnswer(zone) : look' = [look EXCEPT ![n][q] = l]
      BY <2>6 DEF LookupReturns
    <3>2. l \in Look
      BY <2>0, <2>6, AnswerTypes
    <3>3. look' \in [Names -> [QTypes -> Look]]
      BY <2>0, <2>6, <3>1, <3>2
    <3> QED  BY <2>0, <2>6, <3>3 DEF LookupReturns, WildTypeOK
  <2>7. CASE UNCHANGED wildVars
    BY <2>0, <2>7 DEF wildVars, WildTypeOK
  <2> QED  BY <1>2, <2>2, <2>3, <2>4, <2>5, <2>6, <2>7 DEF WildNext, Done
<1> QED  BY <1>1, <1>2, PTL DEF WildSpec
=============================================================================
