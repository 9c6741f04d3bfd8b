---------------------------- MODULE PreloadStore ----------------------------
(***************************************************************************)
(* What the preload cache promises the runs of a host, whatever becomes of *)
(* the processes that fill it: a list is replaced only when it is not      *)
(* fresh, and only by one at least as new.  No list is ever damaged; a     *)
(* power loss may bring back the list before the last replacement.         *)
(***************************************************************************)
EXTENDS Integers

CONSTANTS
    MaxAge,     \* preloadCacheMaxAge
    StartTime,  \* when the host starts
    MaxTime     \* bound: the last moment of the model

VARIABLES
    now,
    store,      \* the time in the header of the list, or NoList
    durable     \* what a power loss may bring back

storeVars == <<now, store, durable>>

NoList == -1

FreshStore == store # NoList /\ now - store < MaxAge

StoreInit ==
    /\ now = StartTime
    /\ store \in 0..StartTime \union {NoList}
    /\ durable = store

Pass ==
    /\ now < MaxTime
    /\ now' = now + 1
    /\ UNCHANGED <<store, durable>>

Replace ==
    /\ ~FreshStore
    /\ store' \in 0..now
    /\ store' >= store
    /\ durable' \in {durable, store}
    /\ UNCHANGED now

Revert ==
    /\ store' \in {store, durable}
    /\ durable' = store'
    /\ UNCHANGED now

StoreNext == Pass \/ Replace \/ Revert

StoreSpec == StoreInit /\ [][StoreNext]_storeVars
=============================================================================
