------------------------- MODULE PreloadCacheProofs -------------------------
(***************************************************************************)
(* Proofs about PreloadCache, for any number of processes, kills and power *)
(* losses, and any length of time.                                         *)
(*                                                                         *)
(* That no reader finds a partial file needs no lock at all: only that a   *)
(* file is synced before it is renamed (Shape).  That nobody refetches a   *)
(* fresh list, and that the cache never goes back in time, rests on the    *)
(* lock being one and the same for all (SameLock): while a process is in   *)
(* its critical section nobody else changes the file.                      *)
(***************************************************************************)
EXTENDS PreloadCache, TLAPS

\* What each process's locals hold at each of its steps.
Shape ==
    /\ file.synced = TRUE /\ disk.synced = TRUE
    /\ \A p \in Procs :
        /\ p \in Uncached => pc[p] \in {"new", "fetch", "done", "dead"}
        /\ pc[p] = "wait" \/ InLock(p) => lockOf[p] \in Locks
        /\ pc[p] \in {"write", "sync", "rename"} => tmp[p].kind = "list"
        /\ pc[p] = "rename" => tmp[p].synced = TRUE
        /\ stale[p].kind \in {"none", "list"}

IInv == TypeOK /\ Shape /\ LockHeldInside /\ NeverTorn

USE TimeAssumption, ProcsAssumption, CrashesAssumption

\* The files and answers the actions build have their types.
LEMMA FileTypes ==
    /\ NoFile \in Files /\ NoFile.kind = "none" /\ NoFile.synced = TRUE
    /\ Empty("torn") \in Files
    /\ \A b \in Times, s \in BOOLEAN :
        /\ List(b, s) \in Files
        /\ List(b, s).kind = "list" /\ List(b, s).stamp = b /\ List(b, s).synced = s
  BY DEF NoFile, Empty, List, Files, Times

\* What a call returns has its type, and a list comes with a whole file.
LEMMA AnswerTypes ==
    /\ NoAnswer \in Answers /\ NoAnswer.answer = "none"
    /\ Failed \in Answers /\ Failed.answer = "error"
    /\ \A f \in Files, n \in {"none", "stale", "unwritten"} :
        /\ Listed(f, n) \in Answers
        /\ Listed(f, n).answer = "list" /\ Listed(f, n).note = n /\ Listed(f, n).list = f
  BY FileTypes DEF NoAnswer, Failed, Listed, Answers

\* A call that answers leaves the other processes alone.
LEMMA AnswerStep ==
    ASSUME TypeOK, NEW p \in Procs, NEW a \in Answers, NEW l \in {"release", "done", "dead"},
           Answer(p, a, l)
    PROVE  /\ pc' = [pc EXCEPT ![p] = l]
           /\ pc' \in [Procs -> {"new", "read", "lock", "wait", "reread", "fetch", "write",
                                 "sync", "rename", "release", "done", "dead"}]
           /\ attempt' \in [Procs -> 0..fetchAttempts]
           /\ stale' \in [Procs -> Files] /\ tmp' \in [Procs -> Files]
           /\ out' \in [Procs -> Answers]
           /\ out'[p] = a /\ pc'[p] = l /\ stale'[p].kind = "none"
           /\ \A q \in Procs : q # p => /\ pc'[q] = pc[q] /\ out'[q] = out[q]
                                        /\ stale'[q] = stale[q] /\ tmp'[q] = tmp[q]
<1>1. fetchAttempts \in Nat
  BY DEF fetchAttempts
<1> QED  BY <1>1, FileTypes DEF Answer, Goto, TypeOK

\* An answer with a whole list, under the lock or where none is taken, keeps
\* the invariant.
LEMMA AnswerKeeps ==
    ASSUME IInv, NEW p \in Procs, NEW a \in Answers, NEW l \in {"release", "done"},
           Answer(p, a, l),
           a.answer = "list" => a.list.kind = "list",
           l = "release" => InLock(p),
           l = "done" => ~InLock(p),
           UNCHANGED <<storeVars, lockVars, lockOf, spent, crashes, losses>>
    PROVE  IInv'
<1> USE DEF storeVars, lockVars, IInv
<1>1. TypeOK'
  BY AnswerStep DEF TypeOK
<1>2. Shape'
  BY AnswerStep DEF TypeOK, Shape, InLock
<1>3. LockHeldInside'
  BY AnswerStep DEF TypeOK, LockHeldInside, InLock
<1>4. NeverTorn'
  BY AnswerStep DEF TypeOK, NeverTorn
<1> QED  BY <1>1, <1>2, <1>3, <1>4

-----------------------------------------------------------------------------
(* Types, locks and whole files *)

\* The invariant holds in the initial states.
LEMMA InitIInv == Init => IInv
<1> SUFFICES ASSUME Init PROVE IInv
  OBVIOUS
<1>1. file \in Files /\ file.kind # "torn" /\ file.synced = TRUE /\ disk = file
  <2>1. /\ NoFile \in Files /\ NoFile.kind # "torn" /\ NoFile.synced = TRUE
        /\ Empty("foreign") \in Files /\ Empty("foreign").kind # "torn"
        /\ Empty("foreign").synced = TRUE
    BY DEF NoFile, Empty, Files, Times
  <2>2. \A t \in 0..StartTime : /\ List(t, TRUE) \in Files /\ List(t, TRUE).kind = "list"
                                 /\ List(t, TRUE).synced = TRUE
    <3>1. \A t \in 0..StartTime : t \in Times
      BY DEF Times
    <3> QED  BY <3>1, FileTypes
  <2> QED  BY <2>1, <2>2 DEF Init
<1>2. TypeOK
  <2>1. now \in Times /\ sysLock \in BOOLEAN /\ crashes \in Nat /\ losses \in Nat
    BY DEF Init, Times
  <2>2. attempt \in [Procs -> 0..fetchAttempts]
    BY DEF Init, fetchAttempts
  <2> QED  BY <1>1, <2>1, <2>2, FileTypes, AnswerTypes DEF Init, TypeOK
<1>3. Shape
  BY <1>1, FileTypes DEF Init, Shape, InLock
<1>4. LockHeldInside
  BY DEF Init, LockHeldInside, InLock
<1>5. NeverTorn
  BY <1>1, AnswerTypes DEF Init, NeverTorn
<1> QED  BY <1>2, <1>3, <1>4, <1>5 DEF IInv

\* Every step of a process, of the clock or of a failure preserves IInv.
LEMMA NextIInv == IInv /\ [Next]_vars => IInv'
<1> SUFFICES ASSUME IInv, [Next]_vars PROVE IInv'
  OBVIOUS
<1> USE DEF storeVars, lockVars, procVars, vars
<1>0. TypeOK /\ Shape /\ LockHeldInside /\ NeverTorn /\ fetchAttempts \in Nat /\ 1 \in 0..fetchAttempts
  BY DEF IInv, fetchAttempts
<1>1. ASSUME NEW p \in Procs, Start(p) PROVE IInv'
  <2>1. TypeOK'
    BY <1>0, <1>1 DEF Start, Goto, TypeOK
  <2>2. Shape'
    BY <1>0, <1>1 DEF Start, Goto, TypeOK, Shape, InLock
  <2>3. LockHeldInside'
    BY <1>0, <1>1 DEF Start, Goto, TypeOK, LockHeldInside, InLock
  <2>4. NeverTorn'
    BY <1>0, <1>1 DEF Start, NeverTorn
  <2> QED  BY <2>1, <2>2, <2>3, <2>4 DEF IInv
<1>2. ASSUME NEW p \in Procs, ReadCache(p) PROVE IInv'
  <2>1. CASE Fresh(file)
    <3>1. file.kind = "list" /\ ~InLock(p)
      BY <1>2, <2>1 DEF ReadCache, Fresh, InLock
    <3>2. file \in Files
      BY <1>0 DEF TypeOK
    <3> QED  BY <1>2, <2>1, <3>1, <3>2, AnswerTypes, AnswerKeeps DEF ReadCache
  <2>2. CASE ~Fresh(file)
    <3>1. TypeOK'
      BY <1>0, <1>2, <2>2 DEF ReadCache, Goto, TypeOK
    <3>2. Shape'
      BY <1>0, <1>2, <2>2 DEF ReadCache, Goto, TypeOK, Shape, InLock
    <3>3. LockHeldInside'
      BY <1>0, <1>2, <2>2 DEF ReadCache, Goto, TypeOK, LockHeldInside, InLock
    <3>4. NeverTorn'
      BY <1>0, <1>2, <2>2 DEF ReadCache, NeverTorn
    <3> QED  BY <3>1, <3>2, <3>3, <3>4 DEF IInv
  <2> QED  BY <2>1, <2>2
<1>3. ASSUME NEW p \in Procs, LockPath(p) PROVE IInv'
  <2>0. sysLock' \in BOOLEAN /\ lockOf' \in [Procs -> Locks \union {"none"}] /\ lockOf'[p] \in Locks
    BY <1>0, <1>3 DEF LockPath, TypeOK, Locks
  <2>1. TypeOK'
    BY <1>0, <1>3, <2>0 DEF LockPath, Goto, TypeOK
  <2>2. Shape'
    BY <1>0, <1>3, <2>0 DEF LockPath, Goto, TypeOK, Shape, InLock
  <2>3. LockHeldInside'
    BY <1>0, <1>3 DEF LockPath, Goto, TypeOK, LockHeldInside, InLock
  <2>4. NeverTorn'
    BY <1>0, <1>3 DEF LockPath, NeverTorn
  <2> QED  BY <2>1, <2>2, <2>3, <2>4 DEF IInv
<1>4. ASSUME NEW p \in Procs, TryLock(p) PROVE IInv'
  <2>0. lockOf[p] \in Locks /\ p \notin Uncached
    BY <1>0, <1>4 DEF TryLock, Shape
  <2>1. TypeOK'
    BY <1>0, <1>4, <2>0 DEF TryLock, Goto, TypeOK
  <2>2. Shape'
    BY <1>0, <1>4, <2>0 DEF TryLock, Goto, TypeOK, Shape, InLock
  <2>3. LockHeldInside'
    BY <1>0, <1>4, <2>0 DEF TryLock, Goto, TypeOK, LockHeldInside, InLock
  <2>4. NeverTorn'
    BY <1>0, <1>4 DEF TryLock, NeverTorn
  <2> QED  BY <2>1, <2>2, <2>3, <2>4 DEF IInv
<1>5. ASSUME NEW p \in Procs, LockTimesOut(p) \/ LockFails(p) PROVE IInv'
  <2>1. ~InLock(p) /\ Answer(p, Failed, "done")
    BY <1>5 DEF LockTimesOut, LockFails, InLock
  <2> QED  BY <1>5, <2>1, AnswerTypes, AnswerKeeps DEF LockTimesOut, LockFails
<1>6. ASSUME NEW p \in Procs, ReReadCache(p) PROVE IInv'
  <2>0. InLock(p) /\ file \in Files
    BY <1>0, <1>6 DEF ReReadCache, InLock, Shape, TypeOK
  <2>1. CASE Fresh(file)
    <3>1. file.kind = "list" /\ Answer(p, Listed(file, "none"), "release")
      BY <1>6, <2>1 DEF ReReadCache, Fresh
    <3> QED  BY <1>6, <2>0, <3>1, AnswerTypes, AnswerKeeps DEF ReReadCache
  <2>2. CASE ~Fresh(file)
    <3>1. TypeOK'
      BY <1>0, <1>6, <2>2 DEF ReReadCache, Goto, TypeOK
    <3>2. Shape'
      BY <1>0, <1>6, <2>0, <2>2 DEF ReReadCache, Goto, TypeOK, Shape, InLock
    <3>3. LockHeldInside'
      BY <1>0, <1>6, <2>2 DEF ReReadCache, Goto, TypeOK, LockHeldInside, InLock
    <3>4. NeverTorn'
      BY <1>0, <1>6, <2>2 DEF ReReadCache, NeverTorn
    <3> QED  BY <3>1, <3>2, <3>3, <3>4 DEF IInv
  <2> QED  BY <2>1, <2>2
<1>7. ASSUME NEW p \in Procs, FetchOK(p) PROVE IInv'
  <2> DEFINE l == List(now, FALSE)
  <2>0. l \in Files /\ l.kind = "list"
    BY <1>0, FileTypes DEF TypeOK
  <2>1. CASE p \in Uncached
    <3>1. ~InLock(p) /\ Answer(p, Listed(l, "none"), "done")
      BY <1>7, <2>1 DEF FetchOK, InLock
    <3>2. UNCHANGED <<storeVars, lockVars, lockOf, spent, crashes, losses>>
      BY <1>7 DEF FetchOK
    <3>3. Listed(l, "none") \in Answers /\ Listed(l, "none").list.kind = "list"
      BY <2>0, AnswerTypes
    <3> HIDE DEF l
    <3> QED  BY <3>1, <3>2, <3>3, AnswerKeeps
  <2>2. CASE p \notin Uncached
    <3>0. tmp' = [tmp EXCEPT ![p] = l] /\ pc' = [pc EXCEPT ![p] = "write"] /\ InLock(p)
      BY <1>7, <2>2 DEF FetchOK, Goto, InLock
    <3> HIDE DEF l
    <3>1. TypeOK'
      BY <1>0, <1>7, <2>0, <2>2, <3>0 DEF FetchOK, TypeOK
    <3>2. Shape'
      BY <1>0, <1>7, <2>0, <2>2, <3>0 DEF FetchOK, TypeOK, Shape, InLock
    <3>3. LockHeldInside'
      BY <1>0, <1>7, <2>2, <3>0 DEF FetchOK, TypeOK, LockHeldInside, InLock
    <3>4. NeverTorn'
      BY <1>0, <1>7, <2>2 DEF FetchOK, NeverTorn
    <3> QED  BY <3>1, <3>2, <3>3, <3>4 DEF IInv
  <2> QED  BY <2>1, <2>2
<1>8. ASSUME NEW p \in Procs, FetchRetry(p) PROVE IInv'
  <2>1. attempt' \in [Procs -> 0..fetchAttempts]
    BY <1>0, <1>8 DEF FetchRetry, TypeOK
  <2>2. TypeOK'
    BY <1>0, <1>8, <2>1 DEF FetchRetry, TypeOK
  <2> QED  BY <1>0, <1>8, <2>2 DEF FetchRetry, IInv, Shape, LockHeldInside, InLock, NeverTorn
<1>9. ASSUME NEW p \in Procs, FetchFails(p) PROVE IInv'
  <2> DEFINE a == IF stale[p].kind = "list" THEN Listed(stale[p], "stale") ELSE Failed
             l == IF p \in Uncached THEN "done" ELSE "release"
  <2>1. a \in Answers /\ (a.answer = "list" => a.list.kind = "list")
    BY <1>0, AnswerTypes DEF TypeOK
  <2>2. l \in {"release", "done"} /\ (l = "release" => InLock(p)) /\ (l = "done" => ~InLock(p))
    BY <1>9 DEF FetchFails, InLock
  <2>3. Answer(p, a, l) /\ UNCHANGED <<storeVars, lockVars, lockOf, spent, crashes, losses>>
    BY <1>9 DEF FetchFails
  <2> HIDE DEF a, l
  <2> QED  BY <2>1, <2>2, <2>3, AnswerKeeps
<1>10. ASSUME NEW p \in Procs, WriteTemp(p) \/ SyncTemp(p) PROVE IInv'
  <2>0. /\ tmp' \in [Procs -> Files] /\ tmp'[p].kind = "list"
        /\ pc' = [pc EXCEPT ![p] = IF pc[p] = "write" THEN "sync" ELSE "rename"]
        /\ pc[p] \in {"write", "sync"}
        /\ pc[p] = "sync" => tmp'[p].synced = TRUE
        /\ \A q \in Procs : q # p => tmp'[q] = tmp[q]
        /\ UNCHANGED <<storeVars, lockVars, lockOf, spent, attempt, stale, out, crashes, losses>>
    <3>1. tmp[p] \in Files /\ tmp[p].kind = "list" /\ now \in Times
      BY <1>0, <1>10 DEF WriteTemp, SyncTemp, TypeOK, Shape
    <3>2. /\ [tmp[p] EXCEPT !.stamp = now] \in Files
          /\ [tmp[p] EXCEPT !.stamp = now].kind = "list"
          /\ [tmp[p] EXCEPT !.synced = TRUE] \in Files
          /\ [tmp[p] EXCEPT !.synced = TRUE].kind = "list"
          /\ [tmp[p] EXCEPT !.synced = TRUE].synced = TRUE
      BY <3>1 DEF Files
    <3>3. CASE WriteTemp(p)
      <4>1. tmp' = [tmp EXCEPT ![p] = [tmp[p] EXCEPT !.stamp = now]] /\ pc[p] = "write"
        BY <3>3 DEF WriteTemp
      <4>2. tmp' \in [Procs -> Files] /\ tmp'[p].kind = "list" /\ \A q \in Procs : q # p => tmp'[q] = tmp[q]
        BY <1>0, <3>2, <4>1 DEF TypeOK
      <4> QED  BY <3>3, <4>1, <4>2 DEF WriteTemp, Goto
    <3>4. CASE SyncTemp(p)
      <4>1. tmp' = [tmp EXCEPT ![p] = [tmp[p] EXCEPT !.synced = TRUE]] /\ pc[p] = "sync"
        BY <3>4 DEF SyncTemp
      <4>2. /\ tmp' \in [Procs -> Files] /\ tmp'[p].kind = "list" /\ tmp'[p].synced = TRUE
            /\ \A q \in Procs : q # p => tmp'[q] = tmp[q]
        BY <1>0, <3>2, <4>1 DEF TypeOK
      <4> QED  BY <3>4, <4>1, <4>2 DEF SyncTemp, Goto
    <3> QED  BY <1>10, <3>3, <3>4
  <2>1. TypeOK'
    BY <1>0, <2>0 DEF TypeOK
  <2>2. Shape'
    BY <1>0, <2>0 DEF TypeOK, Shape, InLock
  <2>3. LockHeldInside'
    BY <1>0, <2>0 DEF TypeOK, LockHeldInside, InLock
  <2>4. NeverTorn'
    BY <1>0, <2>0 DEF NeverTorn
  <2> QED  BY <2>1, <2>2, <2>3, <2>4 DEF IInv
<1>11. ASSUME NEW p \in Procs, WriteFails(p) PROVE IInv'
  <2> DEFINE a == IF p \in Warmers THEN Failed ELSE Listed(tmp[p], "unwritten")
  <2>1. a \in Answers /\ (a.answer = "list" => a.list.kind = "list")
    BY <1>0, <1>11, AnswerTypes DEF WriteFails, TypeOK, Shape
  <2>2. InLock(p)
    BY <1>0, <1>11 DEF WriteFails, InLock, Shape
  <2>3. Answer(p, a, "release") /\ UNCHANGED <<storeVars, lockVars, lockOf, spent, crashes, losses>>
    BY <1>11 DEF WriteFails
  <2> HIDE DEF a
  <2> QED  BY <2>1, <2>2, <2>3, AnswerKeeps
<1>12. ASSUME NEW p \in Procs, Rename(p) PROVE IInv'
  <2> DEFINE a == Listed(tmp[p], "none")
  <2>1. /\ a \in Answers /\ a.list.kind = "list" /\ a.answer = "list"
        /\ tmp[p] \in Files /\ tmp[p].kind = "list" /\ tmp[p].synced = TRUE
    BY <1>0, <1>12, AnswerTypes DEF Rename, TypeOK, Shape
  <2>2. InLock(p)
    BY <1>0, <1>12 DEF Rename, InLock, Shape
  <2>3. /\ Answer(p, a, "release") /\ UNCHANGED <<now, lockVars, lockOf, spent, crashes, losses>>
        /\ file' = tmp[p] /\ disk' \in {disk, file}
    BY <1>12 DEF Rename
  <2> HIDE DEF a
  <2>4. TypeOK'
    BY <1>0, <2>1, <2>3, AnswerStep DEF TypeOK
  <2>5. Shape'
    BY <1>0, <2>1, <2>2, <2>3, AnswerStep DEF TypeOK, Shape, InLock
  <2>6. LockHeldInside'
    BY <1>0, <2>1, <2>2, <2>3, AnswerStep DEF TypeOK, LockHeldInside, InLock
  <2>7. NeverTorn'
    BY <1>0, <2>1, <2>3, AnswerStep DEF TypeOK, NeverTorn
  <2> QED  BY <2>4, <2>5, <2>6, <2>7 DEF IInv
<1>13. ASSUME NEW p \in Procs, Release(p) PROVE IInv'
  <2>0. InLock(p) /\ lockOf[p] \in Locks
    BY <1>0, <1>13 DEF Release, InLock, Shape
  <2>1. TypeOK'
    BY <1>0, <1>13, <2>0 DEF Release, Goto, TypeOK
  <2>2. Shape'
    BY <1>0, <1>13 DEF Release, Goto, TypeOK, Shape, InLock
  <2>3. LockHeldInside'
    BY <1>0, <1>13, <2>0 DEF Release, Goto, TypeOK, LockHeldInside, InLock
  <2>4. NeverTorn'
    BY <1>0, <1>13 DEF Release, NeverTorn
  <2> QED  BY <2>1, <2>2, <2>3, <2>4 DEF IInv
<1>14. ASSUME NEW p \in Procs, BudgetExpires(p) PROVE IInv'
  BY <1>0, <1>14 DEF BudgetExpires, IInv, TypeOK, Shape, LockHeldInside, InLock, NeverTorn
<1>15. ASSUME NEW p \in Procs, Crash(p) PROVE IInv'
  <2>0. /\ Answer(p, NoAnswer, "dead") /\ NoAnswer \in Answers /\ NoAnswer.answer = "none"
        /\ holder' = [l \in Locks |-> IF holder[l] = p THEN NoProc ELSE holder[l]]
        /\ UNCHANGED <<storeVars, sysLock, lockOf, spent, losses>>
        /\ crashes' = crashes + 1
    BY <1>15, AnswerTypes DEF Crash
  <2>1. TypeOK'
    BY <1>0, <2>0, AnswerStep DEF TypeOK
  <2>2. Shape'
    BY <1>0, <2>0, AnswerStep DEF TypeOK, Shape, InLock
  <2>3. LockHeldInside'
    BY <1>0, <2>0, AnswerStep DEF TypeOK, LockHeldInside, InLock
  <2>4. NeverTorn'
    BY <1>0, <2>0, AnswerStep DEF TypeOK, NeverTorn
  <2> QED  BY <2>1, <2>2, <2>3, <2>4 DEF IInv
<1>16. ASSUME Tick PROVE IInv'
  <2>1. now' \in Times
    BY <1>0, <1>16 DEF Tick, TypeOK, Times
  <2> QED  BY <1>0, <1>16, <2>1 DEF Tick, IInv, TypeOK, Shape, LockHeldInside, InLock, NeverTorn
<1>17. ASSUME PowerLoss PROVE IInv'
  <2>1. file' \in {file, disk} /\ disk' = file'
    BY <1>0, <1>17 DEF PowerLoss, Shape
  <2>2. \A p \in Procs : pc'[p] \in {"new", "done", "dead"}
    BY <1>0, <1>17 DEF PowerLoss, Active, TypeOK
  <2>3. TypeOK'
    <3>1. pc' \in [Procs -> {"new", "read", "lock", "wait", "reread", "fetch", "write", "sync",
                              "rename", "release", "done", "dead"}]
      BY <1>0, <1>17 DEF PowerLoss, TypeOK
    <3>2. losses' \in Nat
      BY <1>0, <1>17 DEF PowerLoss, TypeOK
    <3> QED  BY <1>0, <1>17, <2>1, <3>1, <3>2 DEF PowerLoss, TypeOK
  <2>4. Shape'
    BY <1>0, <1>17, <2>1, <2>2 DEF PowerLoss, Shape, InLock
  <2>5. LockHeldInside'
    BY <1>0, <1>17, <2>2 DEF PowerLoss, LockHeldInside, InLock
  <2>6. NeverTorn'
    BY <1>0, <1>17, <2>1 DEF PowerLoss, NeverTorn
  <2> QED  BY <2>3, <2>4, <2>5, <2>6 DEF IInv
<1>18. ASSUME UNCHANGED vars PROVE IInv'
  BY <1>0, <1>18 DEF IInv, TypeOK, Shape, LockHeldInside, InLock, NeverTorn
<1> QED  BY <1>1, <1>2, <1>3, <1>4, <1>5, <1>6, <1>7, <1>8, <1>9, <1>10, <1>11, <1>12, <1>13,
            <1>14, <1>15, <1>16, <1>17, <1>18 DEF Next, Step, Proceed, Finished

-----------------------------------------------------------------------------
(* One lock for all *)

\* Processes that can create the system lock all use it.
SameLock == \A p \in Procs : pc[p] = "wait" \/ InLock(p) => lockOf[p] = "system"

\* No list comes from the future, and the one about to be renamed is no older
\* than the one it replaces.
StampOrder ==
    /\ file.stamp <= now /\ disk.stamp <= now
    /\ \A p \in Procs :
        /\ tmp[p].stamp <= now
        /\ pc[p] \in {"sync", "rename"} => tmp[p].stamp >= file.stamp

SharedInv == IInv /\ SameLock /\ NoNeedlessFetch /\ StampOrder /\ AnsweredMeansCached

\* At most one process is in the critical section.
LEMMA OneInside ==
    ASSUME IInv, SameLock, NEW p \in Procs, NEW q \in Procs, InLock(p), InLock(q)
    PROVE  p = q
  BY DEF IInv, SameLock, LockHeldInside, Locks

\* The stronger invariant holds in the initial states.
LEMMA InitSharedInv == Init => SharedInv
<1> SUFFICES ASSUME Init PROVE SharedInv
  OBVIOUS
<1>1. file.stamp \in 0..StartTime
  BY DEF Init, NoFile, Empty, List
<1>2. StampOrder
  BY <1>1 DEF Init, StampOrder, NoFile, Empty
<1> QED  BY <1>2, InitIInv, AnswerTypes
         DEF Init, SharedInv, SameLock, NoNeedlessFetch, AnsweredMeansCached, InLock

\* The cache file and the clock change by a rename, by time and by a power
\* loss only.
LEMMA FileChanges ==
    ASSUME [Next]_vars
    PROVE  UNCHANGED storeVars \/ (\E p \in Procs : Rename(p)) \/ Tick \/ PowerLoss
  BY DEF Next, Step, Proceed, Finished, Start, ReadCache, LockPath, TryLock, LockTimesOut,
         LockFails, ReReadCache, FetchOK, FetchRetry, FetchFails, WriteTemp, SyncTemp,
         WriteFails, Release, BudgetExpires, Crash, vars

\* A process's step leaves the locals of the others alone.
LEMMA OwnStep ==
    ASSUME TypeOK, NEW p \in Procs, Step(p), NEW q \in Procs, q # p
    PROVE  pc'[q] = pc[q] /\ out'[q] = out[q] /\ tmp'[q] = tmp[q]
  BY DEF Step, Proceed, Start, ReadCache, LockPath, TryLock, LockTimesOut, LockFails,
         ReReadCache, FetchOK, FetchRetry, FetchFails, WriteTemp, SyncTemp, WriteFails, Rename,
         Release, BudgetExpires, Crash, Answer, Goto, TypeOK

\* The lock stays the same for all.
LEMMA SameLockStep ==
    ASSUME Private = {}, IInv, SameLock, [Next]_vars
    PROVE  SameLock'
<1> USE DEF storeVars, lockVars, procVars, vars
<1>0. TypeOK /\ Shape
  BY DEF IInv
<1>1. ASSUME NEW p \in Procs, LockPath(p) PROVE SameLock'
  <2>1. lockOf' = [lockOf EXCEPT ![p] = "system"] /\ pc' = [pc EXCEPT ![p] = "wait"]
    BY <1>1 DEF LockPath, Goto
  <2> QED  BY <1>0, <2>1 DEF SameLock, TypeOK, InLock
<1>2. ASSUME NEW p \in Procs, Step(p), ~LockPath(p) PROVE SameLock'
  <2>1. lockOf' = lockOf
    BY <1>2 DEF Step, Proceed, Start, ReadCache, TryLock, LockTimesOut, LockFails,
         ReReadCache, FetchOK, FetchRetry, FetchFails, WriteTemp, SyncTemp, WriteFails, Rename,
         Release, BudgetExpires, Crash
  <2>2. pc'[p] = "wait" \/ InLock(p)' => pc[p] = "wait" \/ InLock(p)
    BY <1>0, <1>2 DEF Step, Proceed, Start, ReadCache, TryLock, LockTimesOut, LockFails,
         ReReadCache, FetchOK, FetchRetry, FetchFails, WriteTemp, SyncTemp, WriteFails, Rename,
         Release, BudgetExpires, Crash, Answer, Goto, TypeOK, InLock
  <2> QED  BY <1>0, <1>2, <2>1, <2>2, OwnStep DEF SameLock, InLock
<1>3. ASSUME Tick \/ UNCHANGED vars PROVE SameLock'
  BY <1>3 DEF Tick, SameLock, InLock
<1>4. ASSUME PowerLoss PROVE SameLock'
  <2>1. \A p \in Procs : pc'[p] \in {"new", "done", "dead"}
    BY <1>0, <1>4 DEF PowerLoss, Active, TypeOK
  <2> QED  BY <2>1 DEF SameLock, InLock
<1> QED  BY <1>1, <1>2, <1>3, <1>4 DEF Next, Finished

\* Nobody starts to refresh a fresh cache, and nobody makes it fresh while
\* another process refreshes it.
LEMMA NoNeedlessStep ==
    ASSUME SharedInv, IInv', [Next]_vars
    PROVE  NoNeedlessFetch'
<1> USE DEF storeVars, lockVars, procVars, vars
<1> DEFINE Refreshing == {"fetch", "write", "sync", "rename"}
<1>0. TypeOK /\ Shape /\ IInv /\ SameLock /\ NoNeedlessFetch
  BY DEF SharedInv, IInv
<1> SUFFICES ASSUME NEW q \in Procs \ Uncached, pc'[q] \in Refreshing
             PROVE  ~Fresh(file)'
  BY DEF NoNeedlessFetch
<1>1. ASSUME UNCHANGED storeVars PROVE ~Fresh(file)'
  <2>1. Fresh(file)' = Fresh(file)
    BY <1>1 DEF Fresh
  <2>2. pc[q] \in Refreshing \/ ~Fresh(file)
    <3>1. ASSUME NEW p \in Procs, Step(p) PROVE pc[q] \in Refreshing \/ ~Fresh(file)
      <4>1. CASE q # p
        BY <1>0, <3>1, <4>1, OwnStep
      <4>2. CASE q = p /\ ReReadCache(p)
        BY <1>0, <4>2 DEF ReReadCache, Answer, Goto, TypeOK
      <4>3. CASE q = p /\ ~ReReadCache(p)
        BY <1>0, <3>1, <4>3 DEF Step, Proceed, Start, ReadCache, LockPath, TryLock,
           LockTimesOut, LockFails, FetchOK, FetchRetry, FetchFails, WriteTemp, SyncTemp,
           WriteFails, Rename, Release, BudgetExpires, Crash, Answer, Goto, TypeOK
      <4> QED  BY <4>1, <4>2, <4>3
    <3>2. CASE Tick \/ PowerLoss \/ UNCHANGED vars
      BY <1>0, <3>2 DEF Tick, PowerLoss, Active, TypeOK
    <3> QED  BY <3>1, <3>2 DEF Next, Finished
  <2> QED  BY <1>0, <2>1, <2>2 DEF NoNeedlessFetch
<1>2. ASSUME NEW p \in Procs, Rename(p) PROVE FALSE
  <2>1. /\ pc' = [pc EXCEPT ![p] = "release"] /\ pc[p] = "rename"
    BY <1>2 DEF Rename, Answer, Goto
  <2>2. q # p /\ pc[q] \in Refreshing
    BY <1>0, <2>1 DEF TypeOK
  <2>3. InLock(p) /\ InLock(q)
    BY <1>0, <2>1, <2>2 DEF InLock, Shape
  <2> QED  BY <1>0, <2>2, <2>3, OneInside
<1>3. ASSUME Tick PROVE ~Fresh(file)'
  <2>1. /\ now \in Int /\ now' = now + 1 /\ file' = file /\ pc' = pc
    BY <1>0, <1>3 DEF Tick, TypeOK, Times
  <2>2. file.stamp \in Int
    BY <1>0 DEF TypeOK, Files, Times
  <2> QED  BY <1>0, <2>1, <2>2 DEF NoNeedlessFetch, Fresh
<1>4. ASSUME PowerLoss PROVE FALSE
  BY <1>0, <1>4 DEF PowerLoss, Active, TypeOK
<1> QED  BY <1>1, <1>2, <1>3, <1>4, FileChanges

\* A list in a temporary file is stamped under the lock, so it is no older
\* than the file it will replace.
LEMMA StampStep ==
    ASSUME SharedInv, IInv', [Next]_vars
    PROVE  StampOrder'
<1> USE DEF storeVars, lockVars, procVars, vars
<1>0. TypeOK /\ TypeOK' /\ Shape /\ IInv /\ SameLock /\ StampOrder
  BY DEF SharedInv, IInv
<1>00. /\ now \in Nat /\ now' \in Nat /\ file.stamp \in Nat /\ disk.stamp \in Nat
       /\ \A p \in Procs : tmp[p].stamp \in Nat
  BY <1>0 DEF TypeOK, Files, Times
<1>1. ASSUME NEW p \in Procs, Step(p), ~Rename(p), UNCHANGED storeVars PROVE StampOrder'
  <2>1. tmp'[p].stamp <= now' /\ (pc'[p] \in {"sync", "rename"} => tmp'[p].stamp >= file'.stamp)
    <3>1. CASE WriteTemp(p)
      <4>1. tmp' = [tmp EXCEPT ![p] = [tmp[p] EXCEPT !.stamp = now]] /\ tmp[p] \in Files
        BY <1>0, <3>1 DEF WriteTemp, TypeOK
      <4>2. tmp'[p].stamp = now
        BY <1>0, <4>1 DEF TypeOK, Files
      <4>3. now' = now /\ file' = file
        BY <1>1
      <4> QED  BY <1>0, <1>00, <4>2, <4>3 DEF StampOrder
    <3>2. CASE SyncTemp(p)
      <4>1. tmp' = [tmp EXCEPT ![p] = [tmp[p] EXCEPT !.synced = TRUE]] /\ pc[p] = "sync"
        BY <3>2 DEF SyncTemp
      <4>2. tmp[p] \in Files
        BY <1>0 DEF TypeOK
      <4>3. tmp'[p].stamp = tmp[p].stamp
        BY <1>0, <4>1, <4>2 DEF TypeOK, Files
      <4> QED  BY <1>0, <1>00, <1>1, <4>1, <4>3 DEF StampOrder
    <3>3. CASE tmp' = [tmp EXCEPT ![p] = NoFile] /\ pc'[p] \notin {"sync", "rename"}
      <4>1. NoFile.stamp = 0
        BY DEF NoFile, Empty
      <4>2. tmp'[p].stamp = 0
        BY <1>0, <3>3, <4>1 DEF TypeOK
      <4> QED  BY <1>00, <3>3, <4>2
    <3>4. CASE tmp' = [tmp EXCEPT ![p] = List(now, FALSE)] /\ pc'[p] \notin {"sync", "rename"}
      <4>1. List(now, FALSE).stamp = now
        BY DEF List
      <4>2. tmp'[p].stamp = now
        BY <1>0, <3>4, <4>1 DEF TypeOK
      <4>3. now' = now
        BY <1>1
      <4>4. pc'[p] \notin {"sync", "rename"}
        BY <3>4
      <4> HIDE DEF storeVars
      <4> QED  BY <1>00, <4>2, <4>3, <4>4
    <3>5. CASE tmp' = tmp /\ (pc'[p] = pc[p] \/ pc'[p] \notin {"sync", "rename"})
      BY <1>0, <1>1, <3>5 DEF StampOrder
    <3>6. \/ WriteTemp(p) \/ SyncTemp(p)
          \/ tmp' = [tmp EXCEPT ![p] = NoFile] /\ pc'[p] \notin {"sync", "rename"}
          \/ tmp' = [tmp EXCEPT ![p] = List(now, FALSE)] /\ pc'[p] \notin {"sync", "rename"}
          \/ tmp' = tmp /\ (pc'[p] = pc[p] \/ pc'[p] \notin {"sync", "rename"})
      BY <1>0, <1>1 DEF Step, Proceed, Start, ReadCache, LockPath, TryLock, LockTimesOut,
           LockFails, ReReadCache, FetchOK, FetchRetry, FetchFails, WriteFails, Release,
           BudgetExpires, Crash, Answer, Goto, TypeOK
    <3> QED  BY <3>1, <3>2, <3>3, <3>4, <3>5, <3>6
  <2> QED  BY <1>0, <1>1, <2>1, OwnStep DEF StampOrder
<1>2. ASSUME NEW p \in Procs, Rename(p) PROVE StampOrder'
  <2>1. /\ file' = tmp[p] /\ disk' \in {disk, file} /\ now' = now
        /\ tmp' = [tmp EXCEPT ![p] = NoFile] /\ pc' = [pc EXCEPT ![p] = "release"]
        /\ pc[p] = "rename"
    BY <1>2 DEF Rename, Answer, Goto
  <2>2. NoFile.stamp = 0
    BY DEF NoFile, Empty
  <2>3. \A q \in Procs : pc'[q] \notin {"sync", "rename"}
    <3> SUFFICES ASSUME NEW q \in Procs, pc'[q] \in {"sync", "rename"} PROVE FALSE
      OBVIOUS
    <3>1. q # p /\ pc[q] \in {"sync", "rename"}
      BY <1>0, <2>1 DEF TypeOK
    <3>2. InLock(p) /\ InLock(q)
      BY <1>0, <2>1, <3>1 DEF InLock, Shape
    <3> QED  BY <1>0, <3>1, <3>2, OneInside
  <2> QED  BY <1>0, <1>00, <2>1, <2>2, <2>3 DEF StampOrder, TypeOK
<1>3. ASSUME Tick PROVE StampOrder'
  BY <1>0, <1>00, <1>3 DEF Tick, StampOrder
<1>4. ASSUME PowerLoss PROVE StampOrder'
  <2>1. file' \in {file, disk} /\ disk' = file' /\ now' = now /\ tmp' = tmp
    BY <1>0, <1>4 DEF PowerLoss, Shape
  <2>2. \A p \in Procs : pc'[p] \in {"new", "done", "dead"}
    BY <1>0, <1>4 DEF PowerLoss, Active, TypeOK
  <2> QED  BY <1>0, <2>1, <2>2 DEF StampOrder
<1>5. ASSUME UNCHANGED vars PROVE StampOrder'
  BY <1>0, <1>5 DEF StampOrder
<1>6. \A p \in Procs : Step(p) => Rename(p) \/ UNCHANGED storeVars
  BY DEF Step, Proceed, Start, ReadCache, LockPath, TryLock, LockTimesOut, LockFails,
         ReReadCache, FetchOK, FetchRetry, FetchFails, WriteTemp, SyncTemp, WriteFails, Release,
         BudgetExpires, Crash
<1> QED  BY <1>1, <1>2, <1>3, <1>4, <1>5, <1>6 DEF Next, Finished

\* A list answered without a note is in the cache, and stays or is replaced
\* by one at least as new.
LEMMA AnsweredStep ==
    ASSUME SharedInv, IInv', [Next]_vars
    PROVE  AnsweredMeansCached'
<1> USE DEF storeVars, lockVars, procVars, vars
<1>0. TypeOK /\ Shape /\ IInv /\ StampOrder /\ AnsweredMeansCached
  BY DEF SharedInv, IInv
<1>00. /\ file.stamp \in Nat /\ \A p \in Procs : tmp[p].stamp \in Nat /\ out[p].list.stamp \in Nat
  BY <1>0 DEF TypeOK, Files, Answers, Times
<1> SUFFICES ASSUME NEW q \in Procs \ Uncached, losses' = 0,
                    out'[q].answer = "list", out'[q].note = "none"
             PROVE  file'.kind = "list" /\ file'.stamp >= out'[q].list.stamp
  BY DEF AnsweredMeansCached
<1>1. ASSUME NEW p \in Procs, Rename(p)
      PROVE  file'.kind = "list" /\ file'.stamp >= out'[q].list.stamp
  <2>1. /\ file' = tmp[p] /\ pc[p] = "rename" /\ losses' = losses
        /\ out' = [out EXCEPT ![p] = Listed(tmp[p], "none")]
    BY <1>1 DEF Rename, Answer
  <2>2. tmp[p].kind = "list" /\ tmp[p].stamp >= file.stamp
    BY <1>0, <2>1 DEF Shape, StampOrder
  <2>3. CASE q = p
    <3>1. out'[q].list = tmp[p]
      BY <1>0, <2>1, <2>3 DEF Listed, TypeOK
    <3> QED  BY <1>00, <2>1, <2>2, <3>1
  <2>4. CASE q # p
    <3>1. out'[q] = out[q]
      BY <1>0, <2>1, <2>4 DEF TypeOK
    <3>2. file.stamp >= out[q].list.stamp
      BY <1>0, <2>1, <3>1 DEF AnsweredMeansCached
    <3> QED  BY <1>00, <2>1, <2>2, <3>1, <3>2
  <2> QED  BY <2>3, <2>4
<1>2. ASSUME NEW p \in Procs, Step(p), ~Rename(p)
      PROVE  file'.kind = "list" /\ file'.stamp >= out'[q].list.stamp
  <2>1. file' = file /\ losses' = losses
    BY <1>2 DEF Step, Proceed, Start, ReadCache, LockPath, TryLock, LockTimesOut, LockFails,
         ReReadCache, FetchOK, FetchRetry, FetchFails, WriteTemp, SyncTemp, WriteFails, Release,
         BudgetExpires, Crash
  <2>2. CASE out'[q] = out[q]
    BY <1>0, <2>1, <2>2 DEF AnsweredMeansCached
  <2>3. CASE q = p /\ out'[p] # out[p]
    <3>1. \/ out'[p] = NoAnswer \/ out'[p] = Failed
          \/ out'[p] = Listed(stale[p], "stale") \/ out'[p] = Listed(tmp[p], "unwritten")
          \/ out'[p] = Listed(file, "none") /\ Fresh(file)
      BY <1>0, <1>2, <2>3 DEF Step, Proceed, Start, ReadCache, LockPath, TryLock, LockTimesOut,
           LockFails, ReReadCache, FetchOK, FetchRetry, FetchFails, WriteTemp, SyncTemp,
           WriteFails, Release, BudgetExpires, Crash, Answer, TypeOK
    <3>2. out'[p] = Listed(file, "none") /\ Fresh(file)
      BY <2>3, <3>1 DEF NoAnswer, Failed, Listed
    <3> QED  BY <1>00, <2>1, <2>3, <3>2 DEF Listed, Fresh
  <2> QED  BY <1>0, <1>2, <2>2, <2>3, OwnStep
<1>3. ASSUME Tick \/ UNCHANGED vars
      PROVE  file'.kind = "list" /\ file'.stamp >= out'[q].list.stamp
  BY <1>0, <1>3 DEF Tick, AnsweredMeansCached
<1>4. ASSUME PowerLoss PROVE FALSE
  BY <1>0, <1>4 DEF PowerLoss, TypeOK
<1> QED  BY <1>1, <1>2, <1>3, <1>4 DEF Next, Finished

-----------------------------------------------------------------------------
(* The theorems *)

\* The invariant that needs no lock...
THEOREM Invariance == Spec => []IInv
  BY InitIInv, NextIInv, PTL DEF Spec

\* ... and the one that needs all processes to take the same lock.
THEOREM SharedInvariance == ASSUME Private = {} PROVE Spec => []SharedInv
<1>1. SharedInv /\ [Next]_vars => SharedInv'
  <2> SUFFICES ASSUME SharedInv, [Next]_vars PROVE SharedInv'
    OBVIOUS
  <2>1. IInv'
    BY NextIInv DEF SharedInv
  <2>2. SameLock'
    BY SameLockStep DEF SharedInv
  <2>3. NoNeedlessFetch' /\ StampOrder' /\ AnsweredMeansCached'
    BY <2>1, NoNeedlessStep, StampStep, AnsweredStep
  <2> QED  BY <2>1, <2>2, <2>3 DEF SharedInv
<1> QED  BY <1>1, InitSharedInv, PTL DEF Spec

\* Types are respected, for any processes and crashes: a download never makes
\* a fourth attempt (preloadlist.go, fetchPreloadList).
THEOREM TypeCorrect == Spec => []TypeOK
<1>1. IInv => TypeOK
  BY DEF IInv
<1> QED  BY <1>1, Invariance, PTL

\* Locks are exclusive and released on every path, a kill included
\* (preloadlist.go, acquireLock).
THEOREM LocksAreExclusive == Spec => []LockHeldInside
<1>1. IInv => LockHeldInside
  BY DEF IInv
<1> QED  BY <1>1, Invariance, PTL

\* No reader finds a partial cache, even among processes with different
\* locks, kills and power losses (preloadlist.go, writePreloadCache).
THEOREM CacheIsWhole == Spec => []NeverTorn
<1>1. IInv => NeverTorn
  BY DEF IInv
<1> QED  BY <1>1, Invariance, PTL

\* Nobody refreshes a fresh cache (preloadlist.go, refreshPreloadList).
THEOREM FreshCacheIsKept == ASSUME Private = {} PROVE Spec => []NoNeedlessFetch
<1>1. SharedInv => NoNeedlessFetch
  BY DEF SharedInv
<1> QED  BY <1>1, SharedInvariance, PTL

\* What one run answered with, the next one finds in the cache
\* (preloadlist.go, loadPreloadList).
THEOREM AnswersStayCached == ASSUME Private = {} PROVE Spec => []AnsweredMeansCached
<1>1. SharedInv => AnsweredMeansCached
  BY DEF SharedInv
<1> QED  BY <1>1, SharedInvariance, PTL

\* The processes implement the abstract store: a rename is a Replace, a power
\* loss a Revert, and every other step leaves the store alone.
THEOREM Refinement == ASSUME Private = {} PROVE Spec => ImplementsStore
<1> USE DEF storeVars, lockVars, procVars, vars
<1>1. Init => Store!StoreInit
  <2> SUFFICES ASSUME Init PROVE Store!StoreInit
    OBVIOUS
  <2>1. Stamp(file) \in 0..StartTime \union {-1}
    BY DEF Init, NoFile, Empty, List, Stamp
  <2> QED  BY <2>1 DEF Init, Store!StoreInit, Store!NoList, Stamp
<1>2. SharedInv /\ [Next]_vars => [Store!StoreNext]_(Store!storeVars)
  <2> SUFFICES ASSUME SharedInv, [Next]_vars PROVE [Store!StoreNext]_(Store!storeVars)
    OBVIOUS
  <2>0. /\ TypeOK /\ Shape /\ NoNeedlessFetch /\ StampOrder
        /\ now \in Nat /\ file.stamp \in Nat /\ \A p \in Procs : tmp[p].stamp \in Nat
    BY DEF SharedInv, IInv, TypeOK, Files, Times
  <2>1. CASE UNCHANGED storeVars
    BY <2>1 DEF Store!storeVars, Stamp
  <2>2. ASSUME NEW p \in Procs, Rename(p) PROVE Store!Replace
    <3>1. file' = tmp[p] /\ pc[p] = "rename" /\ now' = now /\ disk' \in {disk, file}
      BY <2>2 DEF Rename
    <3>2. ~Fresh(file) /\ tmp[p].kind = "list" /\ tmp[p].stamp >= file.stamp /\ tmp[p].stamp <= now
      BY <2>0, <3>1 DEF NoNeedlessFetch, Shape, StampOrder
    <3>3. Stamp(file)' = tmp[p].stamp /\ Stamp(file) <= tmp[p].stamp
      BY <2>0, <3>1, <3>2 DEF Stamp
    <3>4. Stamp(disk)' \in {Stamp(disk), Stamp(file)}
      BY <3>1 DEF Stamp
    <3>5. ~Store!FreshStore
      BY <2>0, <3>2 DEF Store!FreshStore, Store!NoList, Stamp, Fresh
    <3> QED  BY <2>0, <3>1, <3>2, <3>3, <3>4, <3>5 DEF Store!Replace
  <2>3. CASE Tick
    BY <2>3 DEF Tick, Store!StoreNext, Store!Pass, Stamp
  <2>4. CASE PowerLoss
    <3>1. file' \in {file, disk} /\ disk' = file' /\ now' = now
      BY <2>0, <2>4 DEF PowerLoss, Shape
    <3> QED  BY <3>1 DEF Store!StoreNext, Store!Revert, Stamp
  <2> QED  BY <2>1, <2>2, <2>3, <2>4, FileChanges DEF Store!StoreNext
<1> QED  BY <1>1, <1>2, SharedInvariance, PTL DEF Spec, ImplementsStore, Store!StoreSpec
=============================================================================
