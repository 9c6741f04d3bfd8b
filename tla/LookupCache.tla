---------------------------- MODULE LookupCache ----------------------------
(***************************************************************************)
(* The memoised DNS lookups of one run (run.go, lookupCache), the retried  *)
(* lookup under it (dog.go, dnsLookup) and the semaphore all the DNS tools *)
(* share (runner.go, limitedRunner).                                       *)
(*                                                                         *)
(* A run goes through phases, each with a context (a deadline) of its own; *)
(* the goroutines of a phase call get, and the next phase starts when all  *)
(* of them have returned (parallel).  Time is abstract: a context expires  *)
(* at any moment after it was made.                                        *)
(***************************************************************************)
EXTENDS Integers, FiniteSets

CONSTANTS
    Tasks,        \* the goroutines of a phase
    Keys,         \* name/qtype pairs
    BadKeys,      \* the keys whose name dnsName refuses
    NoKey,        \* no key asked for yet
    Cap,          \* cfg.DNSConcurrency: tool processes at once, 0 = unlimited
    MaxGets,      \* bound: gets one goroutine makes in a phase
    ForeignRuns   \* bound: tool runs of the trace, the audit and the CD probe

ASSUME KeysAssumption == BadKeys \subseteq Keys /\ NoKey \notin Keys
ASSUME TasksAssumption == IsFiniteSet(Tasks)
ASSUME CapAssumption == Cap \in Nat
ASSUME BoundsAssumption == MaxGets \in Nat \ {0} /\ ForeignRuns \in Nat

VARIABLES
    phase,        \* where run() is
    ctx,          \* lookupCache.ctx: the phase whose context get reads
    spent,        \* the phase contexts that have expired
    runSpent,     \* the run's own deadline (-max-time) has expired
    blind,        \* the resolver answered the root NS query without AD
    done,         \* lookupCache.done
    pc, key, base, attempt, cut, result,  \* the locals of get, per goroutine
    gets,         \* gets the goroutine has made in this phase
    sem,          \* len(limitedRunner.sem)
    foreign,      \* slots held by tools other than get's
    foreignLeft   \* how many such tool runs are still to come

runVars     == <<phase, ctx, spent, runSpent, blind>>
getVars     == <<pc, key, base, attempt, cut, result, gets>>
foreignVars == <<foreign, foreignLeft>>
vars        == <<runVars, done, getVars, sem, foreignVars>>

-----------------------------------------------------------------------------
(* Lookups and contexts *)

Ctxs     == {"wave1", "wave2", "audit", "probe"}
Statuses == {"answered", "failure", "timeout"}
Trusts   == {"secure", "insecure", "none"}

\* A Lookup, reduced to what the cache and its callers tell apart, with two
\* facts about its making: under which phase, and whether a tool ever ran.
\* A Draft is the lookup get is still working on.
Lookup  == [status: Statuses, trust: Trusts, under: Ctxs, ran: BOOLEAN]
Draft   == [status: Statuses \union {"none"}, trust: Trusts,
            under: Ctxs \union {"none"}, ran: BOOLEAN]
NoEntry == [status |-> "none", trust |-> "none", under |-> "none", ran |-> FALSE]

\* What one dog process prints: the AD bit gives an answer its trust, and a
\* resolver that does not validate never sets it.
Outcomes == {o \in [status: Statuses, trust: Trusts] :
                /\ o.status = "answered" => o.trust # "none"
                /\ o.status # "answered" => o.trust = "none"
                /\ blind => o.trust # "secure"}

Spent(c) == runSpent \/ c \in spent

\* A get under way: it missed and has not returned.
InFlight(t) == pc[t] # "idle"

\* Mutant: the lookup's context is not derived from the phase's.
LookupOverDetached(t) == cut[t] = "lookup"

\* The lookup's own context: a child of the phase's.
LookupOver(t) == Spent(base[t]) \/ cut[t] = "lookup"

\* The context of the attempt: half the budget for the first.
AttemptOver(t) == LookupOver(t) \/ (attempt[t] = 1 /\ cut[t] = "first")

-----------------------------------------------------------------------------
Init ==
    /\ phase = "wave1" /\ ctx = "wave1"
    /\ spent = {} /\ runSpent = FALSE
    /\ blind \in BOOLEAN
    /\ done = [k \in Keys |-> NoEntry]
    /\ pc = [t \in Tasks |-> "idle"]
    /\ key = [t \in Tasks |-> NoKey]
    /\ base = [t \in Tasks |-> "none"]
    /\ attempt = [t \in Tasks |-> 0]
    /\ cut = [t \in Tasks |-> "none"]
    /\ result = [t \in Tasks |-> NoEntry]
    /\ gets = [t \in Tasks |-> 0]
    /\ sem = 0 /\ foreign = 0 /\ foreignLeft = ForeignRuns

(***************************************************************************)
(* lookupCache.get                                                         *)
(***************************************************************************)

\* The first wave asks each of its names once, one goroutine per name, and
\* all of them are valid; the later phases ask for whatever they learned.
MayAsk(t, k) ==
    /\ phase = ctx
    /\ ~InFlight(t)
    /\ gets[t] < MaxGets
    /\ phase = "wave1" => /\ gets[t] = 0
                          /\ k \notin BadKeys
                          /\ \A u \in Tasks : key[u] # k

\* get forgets its locals when it returns; the key stays for MayAsk.
Return(t) ==
    /\ pc' = [pc EXCEPT ![t] = "idle"]
    /\ base' = [base EXCEPT ![t] = "none"]
    /\ attempt' = [attempt EXCEPT ![t] = 0]
    /\ cut' = [cut EXCEPT ![t] = "none"]
    /\ result' = [result EXCEPT ![t] = NoEntry]
    /\ gets' = [gets EXCEPT ![t] = @ + 1]

\* A name dnsName refuses is a failure, never a query and never memoised.
GetRefused(t, k) ==
    /\ MayAsk(t, k)
    /\ k \in BadKeys
    /\ key' = [key EXCEPT ![t] = k]
    /\ Return(t)
    /\ UNCHANGED <<runVars, done, sem, foreignVars>>

GetHit(t, k) ==
    /\ MayAsk(t, k)
    /\ k \notin BadKeys
    /\ done[k] # NoEntry
    /\ key' = [key EXCEPT ![t] = k]
    /\ Return(t)
    /\ UNCHANGED <<runVars, done, sem, foreignVars>>

\* Mutant: the memo is not consulted.
GetMissUnmemoised(t, k) ==
    /\ MayAsk(t, k)
    /\ k \notin BadKeys
    /\ key' = [key EXCEPT ![t] = k]
    /\ base' = [base EXCEPT ![t] = ctx]
    /\ pc' = [pc EXCEPT ![t] = "budget"]
    /\ UNCHANGED <<runVars, done, attempt, cut, result, gets, sem, foreignVars>>

\* A miss reads the phase context in the same critical section.
GetMiss(t, k) ==
    /\ MayAsk(t, k)
    /\ k \notin BadKeys
    /\ done[k] = NoEntry
    /\ key' = [key EXCEPT ![t] = k]
    /\ base' = [base EXCEPT ![t] = ctx]
    /\ pc' = [pc EXCEPT ![t] = "budget"]
    /\ UNCHANGED <<runVars, done, attempt, cut, result, gets, sem, foreignVars>>

\* base.Err() # nil: a timeout is returned and nothing is memoised.
BudgetSpent(t) ==
    /\ pc[t] = "budget"
    /\ Spent(base[t])
    /\ Return(t)
    /\ UNCHANGED <<runVars, done, key, sem, foreignVars>>

\* The lookup gets a context of its own and queues for a slot.
BeginLookup(t) ==
    /\ pc[t] = "budget"
    /\ ~Spent(base[t])
    /\ pc' = [pc EXCEPT ![t] = "slot"]
    /\ attempt' = [attempt EXCEPT ![t] = 1]
    /\ UNCHANGED <<runVars, done, key, base, cut, result, gets, sem, foreignVars>>

(***************************************************************************)
(* dnsLookup, dogOnce and limitedRunner.Run                                *)
(***************************************************************************)

\* dnsLookup after dogOnce: a first attempt that timed out is retried once
\* while the lookup's context is alive; any other result is final.
EndAttempt(t, o) ==
    IF o.status = "timeout" /\ attempt[t] = 1 /\ ~LookupOver(t)
    THEN /\ attempt' = [attempt EXCEPT ![t] = 2]
         /\ pc' = [pc EXCEPT ![t] = "slot"]
         /\ UNCHANGED result
    ELSE /\ pc' = [pc EXCEPT ![t] = "store"]
         /\ result' = [result EXCEPT ![t] =
                [status |-> o.status, trust |-> o.trust,
                 under |-> base[t], ran |-> result[t].ran]]
         /\ UNCHANGED attempt

TimedOut == [status |-> "timeout", trust |-> "none"]

\* The select took the slot.  A process whose context is over is not started.
AcquireSlot(t) ==
    /\ pc[t] = "slot"
    /\ Cap = 0 \/ sem < Cap
    /\ sem' = IF Cap = 0 THEN sem ELSE sem + 1
    /\ pc' = [pc EXCEPT ![t] = "tool"]
    /\ result' = [result EXCEPT ![t].ran = @ \/ ~AttemptOver(t)]
    /\ UNCHANGED <<runVars, done, key, base, attempt, cut, gets, foreignVars>>

\* Mutant: the deferred release also runs when no slot was taken.
SlotTimeoutReleases(t) ==
    /\ pc[t] = "slot"
    /\ Cap # 0
    /\ AttemptOver(t)
    /\ EndAttempt(t, TimedOut)
    /\ sem' = IF sem > 0 THEN sem - 1 ELSE sem
    /\ UNCHANGED <<runVars, done, key, base, cut, gets, foreignVars>>

\* The select took ctx.Done(): the attempt times out without a tool.
SlotTimeout(t) ==
    /\ pc[t] = "slot"
    /\ Cap # 0
    /\ AttemptOver(t)
    /\ EndAttempt(t, TimedOut)
    /\ UNCHANGED <<runVars, done, key, base, cut, gets, sem, foreignVars>>

ReleaseSlot == sem' = IF Cap = 0 THEN sem ELSE sem - 1

\* dog exits before its deadline; it may itself report a timeout.
ToolExits(t) ==
    /\ pc[t] = "tool"
    /\ ~AttemptOver(t)
    /\ \E o \in Outcomes : EndAttempt(t, o)
    /\ ReleaseSlot
    /\ UNCHANGED <<runVars, done, key, base, cut, gets, foreignVars>>

\* The context kills the process (or it was never started), and whatever it
\* printed is a timeout.
ToolKilled(t) ==
    /\ pc[t] = "tool"
    /\ AttemptOver(t)
    /\ EndAttempt(t, TimedOut)
    /\ ReleaseSlot
    /\ UNCHANGED <<runVars, done, key, base, cut, gets, foreignVars>>

\* get memoises whatever the lookup returned.
Store(t) ==
    /\ pc[t] = "store"
    /\ done' = [done EXCEPT ![key[t]] = result[t]]
    /\ Return(t)
    /\ UNCHANGED <<runVars, key, sem, foreignVars>>

(***************************************************************************)
(* Time                                                                    *)
(***************************************************************************)

\* Half of the lookup's budget has passed.
FirstAttemptExpires(t) ==
    /\ pc[t] \in {"slot", "tool"}
    /\ attempt[t] = 1
    /\ cut[t] = "none"
    /\ cut' = [cut EXCEPT ![t] = "first"]
    /\ UNCHANGED <<runVars, done, pc, key, base, attempt, result, gets, sem, foreignVars>>

\* The lookup's cfg.timeout() has passed.  In the two DNS waves the phase has
\* the same budget and started earlier, so there the phase expires first.
LookupExpires(t) ==
    /\ pc[t] \in {"slot", "tool"}
    /\ base[t] \in {"audit", "probe"}
    /\ cut[t] # "lookup"
    /\ cut' = [cut EXCEPT ![t] = "lookup"]
    /\ UNCHANGED <<runVars, done, pc, key, base, attempt, result, gets, sem, foreignVars>>

PhaseExpires ==
    /\ phase = ctx
    /\ ctx \notin spent
    /\ spent' = spent \union {ctx}
    /\ UNCHANGED <<phase, ctx, runSpent, blind, done, getVars, sem, foreignVars>>

RunExpires ==
    /\ phase # "done"
    /\ ~runSpent
    /\ runSpent' = TRUE
    /\ UNCHANGED <<phase, ctx, spent, blind, done, getVars, sem, foreignVars>>

(***************************************************************************)
(* The other users of the semaphore: dig +trace, the audit, the CD probe   *)
(***************************************************************************)

ForeignTake ==
    /\ phase # "done"
    /\ foreignLeft > 0
    /\ Cap = 0 \/ sem < Cap
    /\ sem' = IF Cap = 0 THEN sem ELSE sem + 1
    /\ foreign' = foreign + 1
    /\ foreignLeft' = foreignLeft - 1
    /\ UNCHANGED <<runVars, done, getVars>>

ForeignRelease ==
    /\ foreign > 0
    /\ ReleaseSlot
    /\ foreign' = foreign - 1
    /\ UNCHANGED <<runVars, done, getVars, foreignLeft>>

(***************************************************************************)
(* run: the phases                                                         *)
(***************************************************************************)

\* Mutant: the goroutines are not waited for.
AllReturnedNoWait == TRUE

\* parallel: wg.Wait for the goroutines of the phase.
AllReturned == \A t \in Tasks : ~InFlight(t)

\* A new phase context is bound with setContext and new goroutines start.
Enter(p) ==
    /\ phase' = p
    /\ ctx' = p
    /\ key' = [t \in Tasks |-> NoKey]
    /\ gets' = [t \in Tasks |-> 0]
    /\ UNCHANGED <<spent, runSpent, blind, done, pc, base, attempt, cut,
                   result, sem, foreignVars>>

Leave(p) ==
    /\ phase' = p
    /\ UNCHANGED <<ctx, spent, runSpent, blind, getVars, sem, foreignVars>>

\* The trace runs alongside both waves.
StartWave2 == phase = "wave1" /\ AllReturned /\ Enter("wave2")

\* Mutant: dropTrust clears the report's lookups but not the memo's.
ClassifyDNSKeepsMemo ==
    /\ phase = "wave2"
    /\ AllReturned
    /\ foreign = 0
    /\ UNCHANGED done
    /\ Leave("classify")

\* dropTrust, when the resolver does not validate.
ClassifyDNS ==
    /\ phase = "wave2"
    /\ AllReturned
    /\ foreign = 0
    /\ done' = IF blind THEN [k \in Keys |-> [done[k] EXCEPT !.trust = "none"]]
                        ELSE done
    /\ Leave("classify")

\* The delegated servers were silent to the trace.
AuditFirst == phase = "classify" /\ foreign = 0 /\ Enter("audit")

StartProbes ==
    /\ phase \in {"classify", "audit"}
    /\ AllReturned
    /\ foreign = 0
    /\ Enter("probe")

\* zoneUnreachable after auditFirst, or the end of the probes.
FinishReport ==
    /\ phase \in {"audit", "probe"}
    /\ AllReturned
    /\ foreign = 0
    /\ UNCHANGED done
    /\ Leave("done")

Finished == phase = "done" /\ UNCHANGED vars

-----------------------------------------------------------------------------
GetStep(t) ==
    \/ \E k \in Keys : GetRefused(t, k) \/ GetHit(t, k) \/ GetMiss(t, k)
    \/ BudgetSpent(t) \/ BeginLookup(t)
    \/ AcquireSlot(t) \/ SlotTimeout(t)
    \/ ToolExits(t) \/ ToolKilled(t)
    \/ Store(t)

ClockStep ==
    \/ \E t \in Tasks : FirstAttemptExpires(t) \/ LookupExpires(t)
    \/ PhaseExpires \/ RunExpires

PhaseStep == StartWave2 \/ ClassifyDNS \/ AuditFirst \/ StartProbes \/ FinishReport

Next ==
    \/ \E t \in Tasks : GetStep(t)
    \/ ClockStep
    \/ ForeignTake \/ ForeignRelease
    \/ PhaseStep
    \/ Finished

\* The Go scheduler runs every goroutine, time passes, and a tool whose
\* context is over is killed; nothing makes a tool exit by itself.
Fairness ==
    /\ \A t \in Tasks :
        WF_vars(BudgetSpent(t) \/ BeginLookup(t) \/ AcquireSlot(t)
                \/ SlotTimeout(t) \/ ToolKilled(t) \/ Store(t))
    /\ WF_vars(PhaseExpires)
    /\ WF_vars(ForeignRelease)
    /\ WF_vars(PhaseStep)

Spec == Init /\ [][Next]_vars /\ Fairness

-----------------------------------------------------------------------------
(* Properties *)

\* Every variable has its type: in particular a lookup makes at most two
\* attempts (dog.go, dnsLookup) and the semaphore count is a natural number.
TypeOK ==
    /\ phase \in Ctxs \union {"classify", "done"}
    /\ ctx \in Ctxs
    /\ spent \subseteq Ctxs
    /\ runSpent \in BOOLEAN
    /\ blind \in BOOLEAN
    /\ done \in [Keys -> Lookup \union {NoEntry}]
    /\ pc \in [Tasks -> {"idle", "budget", "slot", "tool", "store"}]
    /\ key \in [Tasks -> Keys \union {NoKey}]
    /\ base \in [Tasks -> Ctxs \union {"none"}]
    /\ attempt \in [Tasks -> 0..2]
    /\ cut \in [Tasks -> {"none", "first", "lookup"}]
    /\ result \in [Tasks -> Draft]
    /\ gets \in [Tasks -> 0..MaxGets]
    /\ sem \in Nat
    /\ foreign \in Nat
    /\ foreignLeft \in Nat

\* The slots in use are exactly the running tools, never more than the cap
\* (limitedRunner.Run): no path of a lookup, timed out in the queue, killed
\* or retried, leaks a slot or gives back one it did not take.
SlotsConserved ==
    Cap # 0 => /\ sem = Cardinality({t \in Tasks : pc[t] = "tool"}) + foreign
               /\ sem <= Cap

\* A lookup under way is bound to the context of the phase the run is in: no
\* get that read the context of one phase is still running in the next
\* (lookupCache.setContext against get's read of c.ctx).
InFlightUnderCurrentContext ==
    \A t \in Tasks : InFlight(t) => base[t] = ctx /\ phase = ctx

\* The first two waves warm the cache for the evaluators (dependentLookups):
\* a name memoised in an earlier phase is never asked again, so a second
\* lookup of a memoised name is always a race within one phase.
WarmEntriesNotRefetched ==
    \A t \in Tasks :
        InFlight(t) /\ done[key[t]] # NoEntry => done[key[t]].under = ctx

\* An answer memoised in an earlier phase survives every later step, trust
\* apart: a hung or starved lookup of a later phase never replaces it.
AnswersKept ==
    [][\A k \in Keys :
        done[k].status = "answered" /\ done[k].under # ctx
            => done'[k] = [done[k] EXCEPT !.trust = done'[k].trust]]_vars

\* Once the zone is classified against a resolver that does not validate, no
\* lookup of the DNS phase keeps a trust level (classifyDNS, dropTrust), not
\* even one stored by a goroutine that was late.
TrustWithheld ==
    blind /\ phase \notin {"wave1", "wave2"} =>
        \A k \in Keys : done[k].under \in {"wave1", "wave2"} => done[k].trust = "none"

\* The run gets through all of its phases to the report.
RunEnds == <>(phase = "done")

(* What the comments of the code say, and the code does not do *)

\* "Do not run, and do not cache: a later phase retries with its own budget
\* instead of inheriting a poisoned timeout": no lookup is memoised for which
\* no tool ever ran.
UnrunNotCached == \A k \in Keys : done[k] # NoEntry => done[k].ran
=============================================================================
