# A TLA+ verification of domaintest

domaintest checks one domain: DNS, delegation, nameservers, DNSSEC, mail policy,
web servers and certificates, registration. A run starts dozens of goroutines
that share a memo of DNS lookups, a semaphore of tool processes and one report,
all under deadlines; several runs on a host share one cache file. The modules
here model those parts from the Go source, TLC checks them on small instances,
and TLAPS proves the central invariants for all instances.

## 1. Inventory

| part (source) | state | operations | interacts with |
|---|---|---|---|
| run orchestration (`run.go`: `run`, `gatherDNS`, `earlyWeb`, `startRDAP`, `auditFirst`, `finishReport`) | phase, phase contexts, the report, goroutines | start and join the checks, return early for a dead zone | everything |
| memoised lookups (`run.go`: `lookupCache`; `dog.go`: `dnsLookup`) | `done`, `ctx` | `get`, `setContext`, `dropTrust` | tool runner; used by DNS, audit, mail, web |
| tool runner (`runner.go`) | semaphore, child processes | `limitedRunner.Run`, `execRunner.Run` | trace, audit, lookups |
| HSTS preload cache (`preloadlist.go`) | cache file, lock files, temporary files | `loadPreloadList`, `refreshPreloadList`, `warmPreloadCache`, `acquireLock`, `writePreloadCache` | other processes of the host, the file system, a download |
| HSTS preload answer (`preloadlist.go`: `status`) | none | walk over the ancestors of a name | report |
| nameserver audit (`nsaudit.go`, `dig.go`) | `NSReport`, one entry per address | `resolveNS`, `auditAll`, `auditServer`, `checkGlue` | lookups, tool runner, report |
| delegation trace (`trace.go`) | none | `compareDelegation`, `traceDelegation` | audit, zone verdicts, report |
| DNSSEC classification (`dnssec.go`) | none | `classifyDNSSEC` and its helpers | lookups, report |
| wildcard detection (`wildcard.go`) | probes of one run | staged probes, verdict | lookups, report |
| SPF evaluation (`mail.go`: `spfEvaluator`) | counts, problems, path | `evaluateSPF`, `walk`, `descend` | lookups, report |
| mail policy (`mail.go`) | connections of one fetch | MX, DMARC, DKIM, MTA-STS with `dialFirst` | lookups, HTTPS, report |
| web probes (`tcp.go`, `httpprobe.go`, `httpversions.go`, `tlsprobe.go`, `quic.go`, `webconsistency.go`) | slots, redirect chains | one probe per address and port | lookups, report |
| AIA fetches (`aia.go`) | one fetch per URL | `fetch` | TLS probes |
| certificate policies (`caa.go`, `tlsa.go`) | none | issuer and key matching | lookups, web probes, report |
| registration (`rdap.go`) | none | one lookup by a tool | run, report |
| report and findings (`report.go`) | the findings | conclusions from all of the above | exit code |
| command line, record parsing, names (`main.go`, `records.go`, `names.go`, ...) | none | text to records | run |

What is hard to get right, and hardly reached by a test:

* a deadline that passes anywhere: in the queue for a slot, between two attempts,
  while a lock is awaited, before the last goroutine is joined;
* goroutines that read a context or the memo, unlock, work for seconds and store;
* processes killed, and hosts losing power, between write, fsync and rename;
* silence, which can mean a dead server, a lost packet, a starved probe or a
  spent budget, and the conclusions drawn from it;
* records and redirects of other people that refer to each other in any way;
* verdicts drawn from several answers of which any may be missing.

`PROJECT.json` lists each hazard at its line with the properties that cover it.

## 2. Modules

| module | models | checked by | proved in |
|---|---|---|---|
| `LookupCache` | `lookupCache`, `dnsLookup`, `limitedRunner`, `execRunner`, the phases of `run` | `lookup_cache` | `LookupCacheProofs` |
| `PreloadCache` | the cache file, its locks and the processes of a host | `preload_cache`, `preload_split` | `PreloadCacheProofs` |
| `PreloadStore` | what the cache promises (abstract) | as `ImplementsStore` | `PreloadCacheProofs` |
| `RunPhases` | the goroutines of `run` and the report | `run_phases` | `RunProofs` |
| `NSAudit` | the audit of the nameservers and its conclusions | `ns_audit` | `NSAuditProofs` |
| `SPFEvaluator` | the walk over SPF records | `spf` | `SPFEvaluatorProofs` |
| `SPFReference` | what RFC 7208 makes of the include tree, by recursion; the properties against it | `spf` | `SPFEvaluatorProofs` |
| `Wildcard` | the staged wildcard probes and their verdict | `wildcard` | `LookupCacheProofs` |
| `RedirectChain` | redirect chains, and the comparison of everything a URL answered | `redirects` | `RedirectChainProofs` |
| `WebProbes` | the probes of every address, their slots, the shared issuer fetches, the HTTP version verdicts and the web findings | `web_probes` | `WebProbesProofs` |
| `CertPolicies` | CAA and TLSA as pure functions | through `Policies` | with `Policies` |
| `Policies` | DMARC, MX, DKIM, MTA-STS and its dials, and the findings on them | `policies` | `PoliciesProofs` |
| `Delegation` | the delegation trace as pure functions | through `ZoneReport` | with `ZoneReport` |
| `ZoneReport` | what a run concludes about the name: zone kind, DNSSEC, delegation, registration, findings and pass or fail | `zone_report`, `bogus_unsigned` | `RunProofs` |

The `MC...` modules add what TLC needs: symmetry sets, deployments, URLs and
zones. Operators marked
"Mutant" are the broken variants that show each property can fail; no
specification uses them.

The newer modules share one form: the world (a zone, a resolver, a server) is
drawn in `Init`, every exchange either tells the truth about it or is lost, and
the verdicts of the code are held against the world it does not see.

### LookupCache

`phase` is where `run` is, `ctx` the context `get` reads under the mutex, `done`
the memo. Every goroutine of a phase is a member of `Tasks` with the locals of
`get` (`pc`, `key`, `base`, `attempt`, `cut`, `result`). `GetRefused`, `GetHit`
and `GetMiss` are the locked part of `get`; `BudgetSpent` its return for a spent
budget, which memoises nothing; `BeginLookup` to `Store` the lookup itself, in
two attempts, each of which waits for a slot (`AcquireSlot`, `SlotTimeout`), runs
a tool (`ToolExits`, `ToolKilled`) and gives the slot back. A context expires at
any moment (`FirstAttemptExpires`, `LookupExpires`, `PhaseExpires`,
`RunExpires`). The trace, the audit and the CD probe are `ForeignTake` and
`ForeignRelease`: tools that hold a slot. `StartWave2` to `FinishReport` are the
phases; each waits for the goroutines of the one before, as `parallel` does.
What a tool prints is reduced to a status and a trust level.

### PreloadCache and PreloadStore

Every process runs `loadPreloadList` or `warmPreloadCache` once. `ReadCache`,
`LockPath`, `TryLock`, `ReReadCache`, `FetchOK`/`FetchRetry`/`FetchFails`,
`WriteTemp`, `SyncTemp`, `Rename` and `Release` are the steps between which
other processes, a kill (`Crash`), a power loss or the end of the context can
come. A file is absent, foreign, torn or a list with the time in its header;
`disk` is what a power loss may bring back. `PreloadStore` says what the readers
may rely on: a list is replaced only when it is not fresh, by one at least as
new, and never damaged; after a power loss the previous one may be back.

### RunPhases

`state` says of each goroutine whether it is off, running or done; `rep` has the
fields that have more than one writer or reader. The actions follow `run`: both
DNS waves beside the trace, the early web probes between them, the audit ahead
of the probes when the delegated servers were silent, the early return through
`web.stop` for a zone nobody answers for, the probes, the join with the
registration lookup, the report. What a check finds is left open.

### NSAudit

`ResolveNS` looks up the addresses of the names, any of the lookups failing;
`AuditAll` starts a goroutine per name and address; `FirstAttempt` and
`SecondAttempt` are `auditServer`. An attempt is one run of dig with three queries
(`Runs`): what the UDP query was answered with, what the better of the TCP and the
EDNS query was, and how the run came to its end. `ended` is a run whose output is
read; `cut` one that the deadline killed with answers already printed; `unsent` one
that waited for its slot until then; `failed` one that ended without a message.
`Reading` is what `runDig` and `auditOnce` make of it: nothing of a run past its
deadline, otherwise the first message alone.

Three variables record what the code does not know. `asked` counts the runs that
were started, `heard` has every answer that arrived, and `kept` those to the UDP
query of a run that ended in time, which is what the code goes by. The entries and
the findings are held against `kept`; that they can differ from `heard` is shown by
`DeadMeansNoneAnswered`, which TLC refutes.

### SPFEvaluator

The recursion of `walk` and `descend` is a stack of frames. One action per way a
term can be handled: `PlainTerm`, `IgnoreRedirect`, and for includes and
redirects each early return of `descend` (`MacroTarget`, `InvalidTarget`,
`IncludeLoop`, `GiveUp`, `Unchecked`, `Missing`) or `Enter`; `Leave` returns to
the caller. Records are sequences of terms, prefixes are sets of addresses,
answer sizes one of three classes.

`SPFReference` says what comes of it without a walk. `Outcome(zn)` is the function,
recursive over the paths through the zone `zn`, that gives every record along every
path its cost in lookups and void lookups, the `all` that ends it and the verdict on
a sender whom no address mechanism matches. `Combine` makes a record's outcome from
those below it: `Prices` are the costs of the terms, `Matching` the terms that match
every sender, `Redirect` the redirect in effect. A path that comes back to itself is
cut (`Walked`), which is why the recursion ends.

### Wildcard

`Start` is `probeWildcard` with `wildcardSkipReason`; the A and AAAA lookups of
each random name return in any order (`LookupReturns`); the second stage starts
only if the first name was answered (`FirstReturns`, `RestReturns`); `Assess` is
`assessWildcard`. The zone may have a wildcard of six kinds, deny with NXDOMAIN
or NODATA, hold some of the random names by coincidence, and have a `www` of its
own: a host, or an alias of a name that does not exist, which dog reports as
NXDOMAIN (`AliasOfNothing`).

### RedirectChain

A URL is a value with its key (`urlKey`: case, default port, fragment removed),
its key without the query, its scheme and its host. A Location may also be one that
does not parse (`Bads`), and one over `maxLocationBytes` (`Long`) has a clipped text
(`Clip`), which is no URL: its cut may have left the path whole or not. `clipLocation`
is applied to the hop of a chain and not to the probe of an address. `Probe` is the
request each address gets first, `StartChains` the join before `redirectChains`; `Admit`,
`GiveUp` and `Fetch` are one turn of the loop of `followRedirects`: `admit` with
its three early returns, the hop limit, `fetchHead` with `next`. `server` is what
a URL was answered with first; `flips` counts answers that differ from it,
`noise` refusals and losses. `comparable`, `Observations` and `inconsistent` are
`webconsistency.go`.

### WebProbes

Each target (a host's address) has three threads: port 80, port 443, QUIC. The
first two start when the task has a slot (`TakeSlot`) and give it back when both
are done (`Return`). On 443 the dial and the main handshake come first; a chain
without a known root climbs through issuer URLs whose fetches are shared between
all targets (`StartFetch`, `EndFetch`, `UseIssuer`): the first caller of a URL
fetches, the others wait. `Fresh` joins the three questions on new connections; the
one for an old TLS version can be answered, met with silence, or reset, which
`acceptsVersion` tells from silence and not from a refusal.
The verdicts (`http11Verdict`, `http3Verdict`, ...) and the findings of a host
are functions of the result.

### CertPolicies and Policies

Lookups are memoised, so which of them are lost is drawn once (`lost`). The one
part with interleavings is the MTA-STS fetch: `ResolveHost`, a `DialEnds` per
address, `Collect` for the collector of `dialFirst`, `DialReturns`, `ReadPolicy`.
DMARC, MX, DKIM, CAA and TLSA are functions of the zone and of `lost`. A CAA
value names the issuer of the served leaf, another CA or nobody; a TLSA record
has the leaf's data, the issuer's or other data. The MTA-STS host has public and
reserved addresses of both families, each behind a lookup of its own, and the code
judges those in hand. The tested name may be registrable or a host inside a zone; then
it has no www, and the CAA set that governs it may be above it (`GoverningCAA` climbs
there, the code does not).

### Delegation and ZoneReport

`GatherDNS` (or `WaveSpent`, when the budget of a wave is gone) answers the fixed
lookups and reaches the resolver over each family, skipping one the resolver has no
address of; `RunTrace` is the trace, cut short anywhere; `ClassifyDNS` is `classifyDNS`
with `dropTrust`, `detectNotAZone`, `classifyDNSSEC` and the probe with checking
disabled; `AuditFirst` the audit of a silent delegation; `CheckRDAP` the
registry; `FinishReport` builds the findings, with the early return for a dead
zone. What web, mail and certificates add is one flag. The lookups themselves are
`LookupCache`, the audit `NSAudit`, the order of the phases `RunPhases`.

## 3. Runs

| run | shows | bounds |
|---|---|---|
| `lookup_cache` | slots are neither leaked nor given back twice; no lookup outlives its phase; an answer of an earlier phase is not replaced; a blind resolver leaves no trust in the DNS phase's lookups; the run ends | 2 goroutines, 1 valid and 1 refused name, 1 slot, 1 foreign tool, 1 `get` per goroutine and phase: enough for two lookups of one name to race, for the queue to starve one, and for later phases to meet the memo of earlier ones |
| `preload_cache` | answers stay cached, and the refinement of `PreloadStore` (no torn file, no fresh list replaced) | 3 processes (2 runs, 1 warm-up), 1 tick with a maximal age of 2, so that a list can be fresh, aged and stale, 1 kill, 1 power loss |
| `preload_split` | locks stay exclusive when processes take different locks; every call returns although a lock's holder may stop for good | 1 stuck process, 1 without access to the lock directory, 1 without a cache, 1 kill, 1 power loss, no tick |
| `run_phases` | all goroutines are joined on both return paths; a check cut by the deadline is told of; no cancelled probe is reported; the run returns | none needed: the module is finite |
| `ns_audit` | entries and conclusions agree with the UDP answers of the runs that ended in time; the audit returns | 2 names, 1 of them in the zone, over 1 IPv4, 1 IPv6 and 1 reserved address, so a name can be partly silent and two names can share an address; every answer to any of the three queries and every end of a run |
| `spf` | the walk agrees with the reference, its queries are bounded, every `+all` is found, what is called redundant can go where no other qualifier stands between | about 40000 zones over 4 domains with up to 3 terms a record; limits 2 (lookups), 1 (void), 2 (depth), so that six lookups or a path of three end the walk |
| `wildcard` | present and absent are true of the zone, skipped probes of an alias apart; the verdict is unknown only if a lookup was lost; `www` is called the wildcard's only if its addresses are | 3 random names as in the code, every combination of lost lookups |
| `redirects` | no URL is asked twice, the hop limit holds, only known hosts are contacted; loops and downgrades are reported of servers that have them; a steady server is called inconsistent only of a redirect to a clipped path | 2 families, 9 URLs (the entry, another spelling of it, one with a token and one with a long token in its query, a long path, an https page, www, a foreign host, a foreign scheme), 2 Locations that do not parse, 1 of them long, hop limit 2, 2 odd answers |
| `web_probes` | a verdict on a version is true of the server, two kinds of loss apart; equal chains get equal verdicts although their fetches are shared; findings are true of the host; the probes return | 2 addresses in 9 deployments, 1 or 2 slots, 2 issuer URLs, 1 lost or reset exchange, the deadline anywhere |
| `policies` | absence, permission and denial are true of the zone, a CAA set above the name and a lost family of the MTA-STS host apart; every defect whose lookups completed is told; `dialFirst` leaks no connection; the fetch returns | some 400 zones, 2 selectors, 3 addresses in 2 families, 2 lost lookups: the findings depend on at most two lookups each |
| `zone_report` | bogus, secure and island are true of the zone; with all answers in hand every verdict is the expected one; a host is not called a zone nor a zone a host; a report passes only if the zone was heard; a hold at the registry is told even of a dead zone | 4 record sets, 7 server behaviours, 6 signings, resolvers that validate or not over one family or both, 2 lost answers or a lost wave |

One run is expected to fail. `bogus_unsigned`: the README of domaintest says of
`bogus` "never for a zone whose parent publishes no DS". The code knows that the
parent publishes none only from an answered DS lookup; if that lookup is lost and
another one fails once and answers with checking disabled, the unsigned zone is
reported bogus.

Other places where a comment, a message or the documentation says more than the
code does. Each is a definition of its module that TLC refutes when it is added to
the configuration. Where a property of a passing run meets one of them, it states
exactly this exception.

| definition | what differs | added to |
|---|---|---|
| `LookupCache!UnrunNotCached` | a lookup that waited for a slot until its budget was gone is memoised as a timeout, though no tool ran; the comment in `get` wants such timeouts not to be inherited | `LookupCache.cfg` |
| `PreloadCache!StaleStillAnswers` | a run that does not get the lock in time fails although it has read a stale list; the comment on `loadPreloadList` promises that list as the answer | `PreloadCacheSplit.cfg` |
| `NSAudit!DeadMeansAllFound` | with `-4` or `-6` a zone can be called unreachable although a nameserver has an address of the other family that was never asked | `NSAudit.cfg`, with `Families = {"ipv4"}` |
| `NSAudit!PartialMeansAuthoritative` | `ns_partial_answer` says that the other addresses are authoritative, also when one of them refused | `NSAudit.cfg` |
| `NSAudit!AnsweredNotRetried` | "A server that answered, even to refuse, is not retried": it is when its answer came over TCP only or before the deadline | `NSAudit.cfg` |
| `NSAudit!LameMeansAnswered` | a dig that fails without a message makes its server lame, which is "answered, and not authoritative" | `NSAudit.cfg` |
| `NSAudit!DeadMeansNoneAnswered` | "If one nameserver answers, [...] the zone is not called unreachable" (`README.md:827`). One dig asks over UDP, over TCP and with EDNS, and its first message decides: an authoritative answer over TCP behind a lost UDP query counts for nothing (`nsaudit.go:208`), nor does any answer that was printed before the deadline killed the run (`dig.go:117`) | `NSAudit.cfg` |
| `SPFReference!PassAllAuthorises` | an include with a qualifier other than `+`, or behind an `all`, is reported as authorising every sender | `SPFEvaluator.cfg` |
| `Wildcard!SkipMeansNoWildcard` | "Only a true NXDOMAIN for www settles it" (`wildcard.go:100`). A `www` that is an alias of a name that does not exist, by its own CNAME or the wildcard's, is NXDOMAIN to dog (`dog.go:225`), the probes are skipped (`wildcard.go:103`), and a zone with a wildcard is reported without | `Wildcard.cfg` |
| `RedirectChain!ClippedNeverMistaken` | "so a clipped value is never mistaken for the real one" (`httpprobe.go:246`). A hop has the clipped Location (`httpprobe.go:185`) and a probe the whole one (`httpprobe.go:55`), and the comparison of a host's answers takes them for two: a server that always redirects to one long path reads as inconsistent | `RedirectChain.cfg` |
| `WebProbes!NoMeansTurnedDown` | an old TLS version is false "when the server turns it down, and nil when the question was never put" (`tlsprobe.go:347`), and also false when the connection is reset or closed during the handshake (`tlsprobe.go:361`) | `WebProbes.cfg` |
| `WebProbes!SilenceIsNotAbsence` | "silence is never read as absence", but UDP 443's is where the page does not advertise h3 | `WebProbes.cfg` |
| `WebProbes!LocalFailureSaysNothing` | "A probe that failed locally says nothing", yet such a QUIC probe counts as unreachable for `h3_advertised_unreachable` | `WebProbes.cfg` |
| `Policies!EffectiveIsGoverning` | "the set that governs it after RFC 8659 climbs to the closest ancestor with a CAA set" (`README.md:392`). Nothing above the tested name is looked up (`run.go:477`), so a host inside a zone without records of its own is open to any CA (`caa.go:173`), whatever the zone's set says | `Policies.cfg` |
| `Policies!UnsignedMeansUnsigned` | `tlsa_unsigned_zone` says the zone is unsigned when one of the two TLSA lookups was lost | `Policies.cfg` |

Smaller ones, seen while modelling `ZoneReport`: a host in a signed zone whose NS
lookup is lost gets `dnssec_unsigned` and `not_delegated`, which the README says
such a name never gets; a broken zone without an A record can read `servfail`
instead of `bogus`, since only the first failed type is asked again; behind a
resolver that validates over one family only, a signed zone reads `insecure`
(`BlindUnseen` excludes these from `StateSound`). In `Policies`: the MTA-STS host "has
no address", or only reserved ones, also when the lookup of a family was lost; and in
`SPFEvaluator` a prefix is called redundant that decides before a term of another
qualifier (`+ip4:1.2.3.4 -ip4:1.2.3.0/24 +ip4:1.2.0.0/16`). `AbsenceObserved` and
`RedundantRemovable` state these exceptions.

Fairness. Safety runs need none. `LookupCache`: goroutines are scheduled, time
passes, a tool whose context is over is killed (`execRunner` sets a cancel and a
wait delay); no tool is assumed to exit by itself, no slot to become free in
time. `PreloadCache`: a process that is not stuck proceeds and its budget runs
out; no download is assumed to end before. `RunPhases`: every check works under
a deadline of its own. `NSAudit`: the context ends, and an attempt ends with it.
`Policies`: every dial and read is under the probe budget. All of it is weak
fairness. `WebProbes`: weak fairness for every step that has its own deadline,
and strong fairness for `TakeSlot`, because a Go channel queues its senders in
order and a slot that is freed again and again reaches every waiter.

Deadlock is checked in every run: each module has a stuttering step for its
regular end only.

## 4. Proofs

For each specification there is one inductive invariant, and the theorems are
derived from it. In the older modules it is called `IInv`, in the newer ones
after the component (`RunInv`, `WildInv`, `ZoneInv`, `RedInv`, `WebInv`,
`PolicyInv`). None of the properties is inductive as it stands: most of them
relate a verdict to a world the code does not see, so the invariant has to say
what every piece of state in between tells of that world.

* `LookupCacheProofs`: the semaphore's count is the number of tools at `"tool"`
  plus the foreign ones, which is inductive only with the locals of `get` tied to
  its `pc`: a goroutine under way has the context of the current phase as its
  base, and only after a miss on a name not memoised earlier. Assumed: finitely
  many goroutines, a natural cap (0 for none), any names.
* `PreloadCacheProofs`: a lock's holder is the process between `acquireLock` and
  the release that chose this lock; a temporary file is synced before the rename.
  Under `Private = {}` (all processes can use the system lock) a stronger
  invariant adds that the process about to rename found the cache not fresh and
  that its list is no older: this gives `NoNeedlessFetch`, `AnsweredMeansCached`
  and the step-by-step refinement of `PreloadStore`. The three need the premise:
  with two locks two processes can refresh at once. The system lock file is never
  removed except by a power loss, which kills everybody.
* `NSAuditProofs`: the entry of an address, its attempts and what was kept of its
  answers move together (`TaskInv`), entries exist only for addresses in scope (`ScopeInv`) and
  addresses are known only for names whose lookups completed (`ResolveInv`).
* `SPFEvaluatorProofs`: each frame above the apex was paid for with a lookup
  (`CountInv`), so a stack deeper than `PathLimit` has used more than
  `spfLookupLimit`: the comment "the limit finding already fires" is right as
  long as the depth limit is not below the lookup limit (20 and 10 in the code),
  which is the assumption `LimitsAssumption`.
  A redundant prefix lies in one that is not: of those it lies in, take one that
  the fewest others cover; what covered it would be covered by fewer still. So every
  address keeps a term of the qualifier it was matched with; the first term left
  (`FirstExists`) has that qualifier unless one of another is in front of it.

  That the walk agrees with the reference (`ChargesMatch`, `PassAllFound`) needs a
  second invariant over the first, `TreeInv`. Every frame has its place in the tree:
  it waits at the term that led to the next (`Linked`). The counters are kept like
  a ledger (`Balanced`): there is a `due` for each frame, that of the apex being the
  cost of the whole tree, such that each differs from the next by what the frame's
  remaining terms cost, and the counter plus the rest of the last frame is its `due`.
  So entering a record moves its cost from the caller's rest into a `due` of its own,
  and leaving it gives nothing away. Once descend has given up the counter only falls
  behind, so `=` becomes `<=`; it is then past the limit by `CountInv`, and so is the
  tree. Of the verdicts, a frame knows the `all` of the last redirect it passed
  (`AllKnown`), and that of the records it passed those that let every sender
  through are reported, or are a redirect whose `all` is still on its way up
  (`PassKnown`).

  The recursive functions of the reference have to be shown to exist before anything
  can be said of them. The library's theorems for this take an operator as parameter
  and cannot be used; `FixedPoint` replaces them: a function `F` on functions, in
  which every value depends only on values of smaller measure, has a fixed point,
  for the least measure at which there were none has a predecessor at which there is
  one. `SumFromDef` (the sum of a sequence, measured by what is left of it) and
  `OutcomeDef` (measured by the domains not on the path) are its instances. This
  needs finitely many domains (`DomainsAssumption`), which holds of names of at most
  255 octets.
* `RunProofs`, for `RunPhases` (`RunInv`): which goroutines can be running where
  `run` is, that the web probes are cancelled only when their result is no longer
  wanted, and that a check counts as cut only after the deadline. The joins then
  follow place by place. There are no parameters to generalise over; the theorem
  is there so that the argument, and not only the search, survives a change.
* `LookupCacheProofs`, for `Wildcard` (`WildInv`): each lookup in hand is one the zone
  gives for that name or none at all, and the verdict is a function of them; what
  a zone with and without a wildcard can give decides the rest. For any finite
  set of random names, where TLC has three.
* `RunProofs`, for `ZoneReport` (`ZoneInv`): stage by stage, what the lookups
  (`Heard`), the trace (`Traced`), the verdicts (`Classified`) and the registry's
  answer say of the name, and what follows if nothing has been lost so far. A
  trace cut short anywhere says less than the whole one and nothing else
  (`TraceSound`); a silent zone is dead or cost two lost answers. For any record
  sets and any number of lost answers, where TLC has four sets and two losses. A family
  is skipped exactly if the resolver does not serve it.
* `RedirectChainProofs` (`RedInv`): a chain's hops have pairwise different keys,
  each ends where the next begins, and every answer on record is the server's own,
  a refusal or one of the `flips`. The keys of a loop are those between the two
  visits. Assumed of URLs (`URLAssumption`): a key is its own key, and has the
  scheme, host and short form of its URL; the entry is its own key. Of Locations
  (`LocationAssumption`): clipped texts are none of the Locations a server sends. Where
  a cut leaves the short form alone nothing else is assumed of it.
* `WebProbesProofs` (`WebInv`): which answers each thread of an address can have
  where it is, that a climb holds exactly the issuers fetched so far, and that one
  URL has one result for everybody, which makes the verdict on a chain a function
  of the chain. For any set of addresses, deployments and slots.
* `PoliciesProofs` (`PolicyInv`): the books of `dialFirst`, in which every address
  is being dialled, has a result in the channel or has been taken, and the open
  connections are the won one and those still in the channel. `AbsenceObserved` and
  `DefectsTold` are then about the functions of the zone and of what was lost: the
  invariant adds what an error of the MTA-STS fetch says of the host's addresses, and
  `CAASource` which set each CAA verdict was read from.

Two proof modules extend two specifications each: `RunProofs` has `RunPhases` and
`ZoneReport`, which are both about `run`, and `LookupCacheProofs` has `LookupCache`
and `Wildcard`, which is made of its lookups. The two share no variable, so every
theorem is about one of them alone; `RunPhases` and `Wildcard` prefix the names that
every specification has (`RunInit`, `RunSpec`, `WildInit`, `WildSpec`).

Two properties were wrong and came right through their proofs. `ChainFindingsSound`
said that a server which redirects the entry URL to itself always makes a loop; it
does not if the target carries a query, for then it is another URL, which is only
reported as `redirect_self`. The instance had no such URL, and has one now ("hq").
`FindingsSound` said that an address without HTTP is always told of; one that speaks
TLS and no HTTP is not if its GET was lost or another address speaks HTTP/1.1. The
instance has such a server now (`Mute`). In both cases the code is as its comments
say, and the property claimed too much.

The proof modules also hold invariants that no run lists any more, since the
theorem covers every instance: the type invariants, `WarmEntriesNotRefetched`,
`NoNeedlessFetch`, `NeverTorn`, `SilentMeansRetried`, `UnresolvedNotJudged`,
`NeverAskedOutside`, `AuditComplete`, `LoopFree` and `LimitTold`.

Not proved, only model-checked: the liveness properties (`RunEnds`, `RunReturns`,
`EveryCallReturns`, `AuditReturns`, `ProbesReturn`, `PolicyReturns`: fairness is out
of the prover's reach). Every other property of a passing run is a theorem.

## 5. What is not modelled

Text: the output of dog, dig, rdap and quicprobe, SPF, DMARC and policy-file
syntax, cache lines, JSON, flags. Libraries: TLS and QUIC handshakes, x509
verification, HTTP, IDNA, the public suffix list; they appear by their outcomes.
In `NSAudit`: serials, prefix diversity, CNAMEs of nameservers, the TCP and EDNS
warnings. In `ZoneReport` a name's records are A, AAAA, MX, TXT and NS: CAA and SRV
records, which also make a name exist, are left out, and so `KindSound` says nothing of
a name that has only those. In `Policies` apex and www serve one leaf. In the report: HSTS and preload findings, certificate expiry and name
coverage, cleartext upgrades, the registrar. The walk of the preload answer over
the ancestors of a name. The command line. Time is the order of expiries, not
durations, except for the age of the preload list.

## 6. Plan

1. serials and the remaining nameserver warnings in `NSAudit`, with their theorems;
2. the preload answer and the HSTS findings.
