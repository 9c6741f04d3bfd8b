---------------------------- MODULE PreloadCache ----------------------------
(***************************************************************************)
(* The HSTS preload list's cache file and the processes of one host that   *)
(* read and refresh it (preloadlist.go): the two reads, the flock taken by *)
(* polling, the retried download, the temporary file and its rename, and   *)
(* crashes of a process or of the host at any point.                       *)
(***************************************************************************)
EXTENDS Integers

CONSTANTS
    MaxAge,      \* preloadCacheMaxAge
    StartTime,   \* when the host starts
    MaxTime,     \* bound: the last moment of the model
    Procs,       \* domaintest processes, each of which runs once
    Warmers,     \* the ones run with -warm-hsts-cache
    Uncached,    \* the ones run with -hsts-cache -
    Private,     \* the ones that cannot create a file in /run/lock
    Stuck,       \* the ones that may stop being scheduled
    NoProc,      \* nobody holds the lock
    MaxCrashes   \* bound: processes killed, and power losses

ASSUME TimeAssumption ==
    MaxAge \in Nat \ {0} /\ StartTime \in Nat /\ MaxTime \in Nat /\ StartTime <= MaxTime
ASSUME ProcsAssumption ==
    /\ NoProc \notin Procs
    /\ Warmers \subseteq Procs /\ Uncached \subseteq Procs /\ Warmers \intersect Uncached = {}
ASSUME CrashesAssumption == MaxCrashes \in Nat

VARIABLES
    now,         \* the clock
    file,        \* the cache file
    disk,        \* the file a power loss may bring back
    sysLock,     \* /run/lock/domaintest-hsts.lock exists
    holder,      \* who holds each lock
    pc,          \* where each process is
    lockOf,      \* the lock lockPath chose
    spent,       \* the process's context is over
    attempt,     \* the download attempt
    stale,       \* refreshPreloadList's copy of an old cache
    tmp,         \* the process's list: downloaded, or in its temporary file
    out,         \* what loadPreloadList or warmPreloadCache returned
    crashes, losses

storeVars == <<now, file, disk>>
procVars == <<pc, lockOf, spent, attempt, stale, tmp, out>>
lockVars == <<sysLock, holder>>
vars     == <<storeVars, lockVars, procVars, crashes, losses>>

fetchAttempts == 3
Locks == {"system", "beside"}
Times == 0..MaxTime

\* A cache file: absent, not a cache of this version, cut short, or a list
\* with the time in its header.
Files == [kind: {"none", "foreign", "torn", "list"}, stamp: Times,
          synced: BOOLEAN]

Empty(kind) == [kind |-> kind, stamp |-> 0, synced |-> TRUE]
NoFile      == Empty("none")

List(stamp, synced) ==
    [kind |-> "list", stamp |-> stamp, synced |-> synced]

Fresh(f) == f.kind = "list" /\ now - f.stamp < MaxAge

\* What a call returned: a list and what its note says, or an error.
Answers == [answer: {"none", "list", "error"}, note: {"none", "stale", "unwritten"}, list: Files]

NoAnswer      == [answer |-> "none", note |-> "none", list |-> NoFile]
Failed        == [answer |-> "error", note |-> "none", list |-> NoFile]
Listed(f, n)  == [answer |-> "list", note |-> n, list |-> f]

Active(p) == pc[p] \notin {"new", "done", "dead"}

\* The processes between acquireLock and the release.
InLock(p) == pc[p] \in {"reread", "fetch", "write", "sync", "rename", "release"} /\ p \notin Uncached

-----------------------------------------------------------------------------
Init ==
    /\ now = StartTime
    /\ file \in {NoFile, Empty("foreign")} \union {List(s, TRUE) : s \in 0..StartTime}
    /\ disk = file
    /\ sysLock \in BOOLEAN
    /\ holder = [l \in Locks |-> NoProc]
    /\ pc = [p \in Procs |-> "new"]
    /\ lockOf = [p \in Procs |-> "none"]
    /\ spent = [p \in Procs |-> FALSE]
    /\ attempt = [p \in Procs |-> 0]
    /\ stale = [p \in Procs |-> NoFile]
    /\ tmp = [p \in Procs |-> NoFile]
    /\ out = [p \in Procs |-> NoAnswer]
    /\ crashes = 0 /\ losses = 0

Goto(p, l) == pc' = [pc EXCEPT ![p] = l]

\* The call returns a and forgets its locals, the temporary file included;
\* under the lock, release still has to run.
Answer(p, a, l) ==
    /\ out' = [out EXCEPT ![p] = a]
    /\ attempt' = [attempt EXCEPT ![p] = 0]
    /\ stale' = [stale EXCEPT ![p] = NoFile]
    /\ tmp' = [tmp EXCEPT ![p] = NoFile]
    /\ Goto(p, l)

Start(p) ==
    /\ pc[p] = "new"
    /\ \/ p \in Uncached /\ Goto(p, "fetch") /\ attempt' = [attempt EXCEPT ![p] = 1]
       \/ p \in Warmers /\ Goto(p, "lock") /\ UNCHANGED attempt
       \/ p \notin Warmers \union Uncached /\ Goto(p, "read") /\ UNCHANGED attempt
    /\ UNCHANGED <<storeVars, lockVars, lockOf, spent, stale, tmp, out, crashes, losses>>

\* loadPreloadList's first read, without the lock.
ReadCache(p) ==
    /\ pc[p] = "read"
    /\ IF Fresh(file) THEN Answer(p, Listed(file, "none"), "done")
                           ELSE Goto(p, "lock") /\ UNCHANGED <<attempt, stale, tmp, out>>
    /\ UNCHANGED <<storeVars, lockVars, lockOf, spent, crashes, losses>>

\* The system lock file is shared once it exists, and created by a process
\* that can; the others lock beside the cache.
LockPath(p) ==
    /\ pc[p] = "lock"
    /\ sysLock' = (sysLock \/ p \notin Private)
    /\ lockOf' = [lockOf EXCEPT ![p] = IF sysLock' THEN "system" ELSE "beside"]
    /\ Goto(p, "wait")
    /\ UNCHANGED <<storeVars, holder, spent, attempt, stale, tmp, out, crashes, losses>>

\* Mutant: the lock is not exclusive.
TryLockShared(p) ==
    /\ pc[p] = "wait"
    /\ holder' = [holder EXCEPT ![lockOf[p]] = p]
    /\ Goto(p, "reread")
    /\ UNCHANGED <<storeVars, sysLock, lockOf, spent, attempt, stale, tmp, out, crashes, losses>>

TryLock(p) ==
    /\ pc[p] = "wait"
    /\ holder[lockOf[p]] = NoProc
    /\ holder' = [holder EXCEPT ![lockOf[p]] = p]
    /\ Goto(p, "reread")
    /\ UNCHANGED <<storeVars, sysLock, lockOf, spent, attempt, stale, tmp, out, crashes, losses>>

\* Mutant: the wait does not look at the context.
LockTimesOutNever(p) == pc[p] = "wait" /\ spent[p] /\ UNCHANGED vars

\* The lock is contended until the context ends.
LockTimesOut(p) ==
    /\ pc[p] = "wait"
    /\ holder[lockOf[p]] # NoProc
    /\ spent[p]
    /\ Answer(p, Failed, "done")
    /\ UNCHANGED <<storeVars, lockVars, lockOf, spent, crashes, losses>>

\* The lock's directory or file cannot be made, or flock fails.
LockFails(p) ==
    /\ pc[p] = "wait"
    /\ Answer(p, Failed, "done")
    /\ UNCHANGED <<storeVars, lockVars, lockOf, spent, crashes, losses>>

\* Mutant: the cache is not read again once the lock is held.
NoSecondRead(p) ==
    /\ pc[p] = "reread"
    /\ attempt' = [attempt EXCEPT ![p] = 1]
    /\ stale' = IF file.kind = "list" /\ p \notin Warmers
                THEN [stale EXCEPT ![p] = file] ELSE stale
    /\ Goto(p, "fetch")
    /\ UNCHANGED <<storeVars, lockVars, lockOf, spent, tmp, out, crashes, losses>>

\* The second read: another process may have refreshed the cache while this
\* one waited.  warmPreloadCache keeps no stale copy.
ReReadCache(p) ==
    /\ pc[p] = "reread"
    /\ \/ /\ Fresh(file)
          /\ Answer(p, Listed(file, "none"), "release")
       \/ /\ ~Fresh(file)
          /\ attempt' = [attempt EXCEPT ![p] = 1]
          /\ stale' = IF file.kind = "list" /\ p \notin Warmers
                      THEN [stale EXCEPT ![p] = file] ELSE stale
          /\ Goto(p, "fetch") /\ UNCHANGED <<tmp, out>>
    /\ UNCHANGED <<storeVars, lockVars, lockOf, spent, crashes, losses>>

-----------------------------------------------------------------------------
(* fetchPreloadList *)

FetchOK(p) ==
    /\ pc[p] = "fetch"
    /\ ~spent[p]
    /\ \/ /\ p \in Uncached
          /\ Answer(p, Listed(List(now, FALSE), "none"), "done")
       \/ /\ p \notin Uncached
          /\ tmp' = [tmp EXCEPT ![p] = List(now, FALSE)]
          /\ Goto(p, "write") /\ UNCHANGED <<attempt, stale, out>>
    /\ UNCHANGED <<storeVars, lockVars, lockOf, spent, crashes, losses>>

\* A 5xx or a reset connection, retried after a pause the context may cut.
FetchRetry(p) ==
    /\ pc[p] = "fetch"
    /\ ~spent[p]
    /\ attempt[p] < fetchAttempts
    /\ attempt' = [attempt EXCEPT ![p] = @ + 1]
    /\ UNCHANGED <<storeVars, lockVars, pc, lockOf, spent, stale, tmp, out, crashes, losses>>

\* The last attempt, an error not worth a retry, or the context: the stale
\* copy answers, with a note, if there is one.
FetchFails(p) ==
    /\ pc[p] = "fetch"
    /\ Answer(p, IF stale[p].kind = "list" THEN Listed(stale[p], "stale") ELSE Failed,
              IF p \in Uncached THEN "done" ELSE "release")
    /\ UNCHANGED <<storeVars, lockVars, lockOf, spent, crashes, losses>>

-----------------------------------------------------------------------------
(* writePreloadCache *)

\* The temporary file, stamped with the time of the write.
WriteTemp(p) ==
    /\ pc[p] = "write"
    /\ tmp' = [tmp EXCEPT ![p].stamp = now]
    /\ Goto(p, "sync")
    /\ UNCHANGED <<storeVars, lockVars, lockOf, spent, attempt, stale, out, crashes, losses>>

SyncTemp(p) ==
    /\ pc[p] = "sync"
    /\ tmp' = [tmp EXCEPT ![p].synced = TRUE]
    /\ Goto(p, "rename")
    /\ UNCHANGED <<storeVars, lockVars, lockOf, spent, attempt, stale, out, crashes, losses>>

\* Any step of the write fails: the temporary file is removed.  A run still
\* answers from its list and notes it; a warm-up fails.
WriteFails(p) ==
    /\ pc[p] \in {"write", "sync", "rename"}
    /\ Answer(p, IF p \in Warmers THEN Failed ELSE Listed(tmp[p], "unwritten"), "release")
    /\ UNCHANGED <<storeVars, lockVars, lockOf, spent, crashes, losses>>

\* The replaced file may or may not have reached the disk by now.
Rename(p) ==
    /\ pc[p] = "rename"
    /\ file' = tmp[p]
    /\ disk' \in {disk, file}
    /\ Answer(p, Listed(tmp[p], "none"), "release")
    /\ UNCHANGED <<now, lockVars, lockOf, spent, crashes, losses>>

Release(p) ==
    /\ pc[p] = "release"
    /\ holder' = [holder EXCEPT ![lockOf[p]] = NoProc]
    /\ Goto(p, "done")
    /\ UNCHANGED <<storeVars, sysLock, lockOf, spent, attempt, stale, tmp, out, crashes, losses>>

-----------------------------------------------------------------------------
(* Time and failures *)

BudgetExpires(p) ==
    /\ Active(p)
    /\ ~spent[p]
    /\ spent' = [spent EXCEPT ![p] = TRUE]
    /\ UNCHANGED <<storeVars, lockVars, pc, lockOf, attempt, stale, tmp, out, crashes, losses>>

Tick ==
    /\ now < MaxTime
    /\ now' = now + 1
    /\ UNCHANGED <<file, disk, lockVars, procVars, crashes, losses>>

\* The process is killed: the kernel drops its flock, its temporary file
\* stays behind under a name nobody reads, so the model drops it.
Crash(p) ==
    /\ Active(p)
    /\ crashes < MaxCrashes
    /\ crashes' = crashes + 1
    /\ holder' = [l \in Locks |-> IF holder[l] = p THEN NoProc ELSE holder[l]]
    /\ Answer(p, NoAnswer, "dead")
    /\ UNCHANGED <<storeVars, sysLock, lockOf, spent, losses>>

\* The host goes down: /run is a tmpfs, a file that was not synced is torn,
\* and the last rename may not have reached the disk.
PowerLoss ==
    /\ losses < MaxCrashes
    /\ losses' = losses + 1
    /\ \E f \in {file, disk} : file' = IF f.synced THEN f ELSE Empty("torn")
    /\ disk' = file'
    /\ sysLock' = FALSE
    /\ holder' = [l \in Locks |-> NoProc]
    /\ pc' = [p \in Procs |-> IF Active(p) THEN "dead" ELSE pc[p]]
    /\ UNCHANGED <<now, lockOf, spent, attempt, stale, tmp, out, crashes>>

-----------------------------------------------------------------------------
\* The steps a process takes by itself once its context is over.
Proceed(p) ==
    \/ ReadCache(p) \/ LockPath(p) \/ TryLock(p) \/ LockTimesOut(p) \/ ReReadCache(p)
    \/ WriteTemp(p) \/ SyncTemp(p) \/ Rename(p) \/ WriteFails(p) \/ Release(p)

Step(p) ==
    \/ Start(p) \/ Proceed(p)
    \/ LockFails(p)
    \/ FetchOK(p) \/ FetchRetry(p) \/ FetchFails(p)
    \/ BudgetExpires(p) \/ Crash(p)

Finished == (\A p \in Procs : ~Active(p) /\ pc[p] # "new") /\ UNCHANGED vars

Next == (\E p \in Procs : Step(p)) \/ Tick \/ PowerLoss \/ Finished

\* Time passes, a process that is scheduled proceeds, and a download ends
\* with its context; nothing makes a download end before that, nothing makes
\* a stuck process move.
Fairness ==
    \A p \in Procs \ Stuck :
        /\ WF_vars(Proceed(p) \/ (spent[p] /\ FetchFails(p)))
        /\ WF_vars(BudgetExpires(p))

Spec == Init /\ [][Next]_vars /\ Fairness

-----------------------------------------------------------------------------
(* Properties *)

\* Every variable has its type; a download makes at most three attempts.
TypeOK ==
    /\ now \in Times /\ file \in Files /\ disk \in Files
    /\ sysLock \in BOOLEAN
    /\ holder \in [Locks -> Procs \union {NoProc}]
    /\ pc \in [Procs -> {"new", "read", "lock", "wait", "reread", "fetch", "write", "sync",
                         "rename", "release", "done", "dead"}]
    /\ lockOf \in [Procs -> Locks \union {"none"}]
    /\ spent \in [Procs -> BOOLEAN]
    /\ attempt \in [Procs -> 0..fetchAttempts]
    /\ stale \in [Procs -> Files]
    /\ tmp \in [Procs -> Files]
    /\ out \in [Procs -> Answers]
    /\ crashes \in Nat /\ losses \in Nat

\* A lock is held by the processes between acquireLock and release, one at
\* a time, and by nobody who has returned, failed or been killed.
LockHeldInside ==
    \A l \in Locks, p \in Procs : holder[l] = p <=> InLock(p) /\ lockOf[p] = l

\* Nobody downloads the list, or is about to replace the cache, while the
\* cache holds a fresh one: the reason for the second read in
\* refreshPreloadList.  All processes lock the same file.
NoNeedlessFetch ==
    \A p \in Procs \ Uncached :
        pc[p] \in {"fetch", "write", "sync", "rename"} => ~Fresh(file)

\* Whatever is killed, and whenever, no reader finds a partial cache, and no
\* run answers from one (writePreloadCache: temporary file, fsync, rename).
NeverTorn ==
    /\ file.kind # "torn" /\ disk.kind # "torn"
    /\ \A p \in Procs : out[p].answer = "list" => out[p].list.kind = "list"

\* A call that returned a list without a note left the cache at least as new
\* as its answer for every later run, unless the host lost power.
AnsweredMeansCached ==
    \A p \in Procs \ Uncached :
        losses = 0 /\ out[p].answer = "list" /\ out[p].note = "none"
            => file.kind = "list" /\ file.stamp >= out[p].list.stamp

\* The cache implements the abstract store: it is replaced only when it is
\* not fresh, never by an older list, and only whole.  All processes lock the
\* same file.
Stamp(f) == IF f.kind = "list" THEN f.stamp ELSE -1
Store == INSTANCE PreloadStore WITH store <- Stamp(file), durable <- Stamp(disk)
ImplementsStore == Store!StoreSpec

\* Every call returns within its budget, even when the lock's holder or the
\* server of the list hangs (acquireLock polls; "a stuck holder can never
\* outlast the caller's budget").
EveryCallReturns == \A p \in Procs \ Stuck : Active(p) ~> ~Active(p)

(* What the documentation says, and the code does not do *)

\* "When a refresh fails, a stale cache still answers": a run that can read
\* a list fails only if it had no list to read.
StaleStillAnswers ==
    [][\A p \in Procs \ (Warmers \union Uncached) :
        out[p] = NoAnswer /\ file.kind = "list" => out'[p] # Failed]_vars
=============================================================================
