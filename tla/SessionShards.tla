--------------------------- MODULE SessionShards ---------------------------
(***************************************************************************)
(* How an ingest process gets live sessions onto disk: liveTrackDB, the    *)
(* account cache, the dirty set, the debounce timers and the asynchronous  *)
(* flush of site/src/fishitSessionStoreSharded.js, with the callers in     *)
(* site/src/fishitTrackerRoutes.js (persistSessionHeartbeat,               *)
(* persistSessionState, flushAllLiveSessionsToDisk) and the crashes and    *)
(* graceful stops of site/tracker-ingest-server.js.                        *)
(*                                                                         *)
(* The JavaScript thread runs each callback to completion; the renames of  *)
(* an asynchronous flush land in between, on the thread pool.              *)
(*                                                                         *)
(* Abstractions: a session is its version, the number of uploads it has    *)
(* absorbed; one process, which owns index.json; the presence sidecar and  *)
(* the contents of index.json are left out.                                *)
(***************************************************************************)
EXTENDS Integers, FiniteSets

CONSTANTS Accounts, NoAccount,
          MaxUploads   \* bound: uploads an account's session can absorb

ASSUME ShardAssumption ==
    /\ IsFiniteSet(Accounts)
    /\ NoAccount \notin Accounts
    /\ MaxUploads \in [Accounts -> Nat]

VARIABLES
    live,          \* liveTrackDB
    cache,         \* _accountCache
    disk,          \* accounts/<key>.json
    dirty,         \* _dirtyAccounts
    timers,        \* keys of _accountFlushTimers
    flush,         \* the flush in flight (_flushInFlight), see Flushes
    pendingFlush,  \* _pendingFlush
    soon,          \* a setImmediate flush is queued
    indexDirty,    \* _indexDirty
    persisting,    \* the version persistSessionState holds across its await
    lag,           \* getLagMs(): at most 400 ms, at most 800 ms, more
    process,       \* "up", "crashed" or "stopped"
    exposed        \* ghost: accounts hit by a known way to lose a version
                   \* since they were last saved

queueVars == <<dirty, timers, flush, pendingFlush>>
shardVars == <<live, cache, disk, queueVars, soon, indexDirty, persisting,
               lag, process, exposed>>

Versions == Nat
NoVersion == -1
Lags == {"calm", "busy", "lagging"}

\* A flush writes one account after another (write, then landed once the
\* rename is done and the promise is about to resolve) and then index.json.
Idle == [phase |-> "idle", key |-> NoAccount, row |-> 0, todo |-> {}]
WritingIndex == [Idle EXCEPT !.phase = "index"]
Flushes ==
    {Idle, WritingIndex} \cup
    [phase : {"write", "landed"}, key : Accounts, row : Versions, todo : SUBSET Accounts]

ShardTypeOK ==
    /\ live \in [Accounts -> Versions]
    /\ cache \in [Accounts -> Versions]
    /\ disk \in [Accounts -> Versions]
    /\ dirty \subseteq Accounts
    /\ timers \subseteq Accounts
    /\ flush \in Flushes
    /\ pendingFlush \in BOOLEAN
    /\ soon \in BOOLEAN
    /\ indexDirty \in BOOLEAN
    /\ persisting \in [Accounts -> Versions \cup {NoVersion}]
    /\ lag \in Lags
    /\ process \in {"up", "crashed", "stopped"}
    /\ exposed \subseteq Accounts

ShardInit ==
    /\ live = [k \in Accounts |-> 0]
    /\ cache = live
    /\ disk = live
    /\ dirty = {}
    /\ timers = {}
    /\ flush = Idle
    /\ pendingFlush = FALSE
    /\ soon = FALSE
    /\ indexDirty = FALSE
    /\ persisting = [k \in Accounts |-> NoVersion]
    /\ lag = "calm"
    /\ process = "up"
    /\ exposed = {}

-----------------------------------------------------------------------------
(* flushDirtyAccountsAsync *)

\* The loop turns to an account of t, whose row is read from cache c now, or
\* is done with the accounts.
Turn(t, c) ==
    IF t = {} THEN {WritingIndex}
    ELSE {[phase |-> "write", key |-> k, row |-> c[k], todo |-> t \ {k}] : k \in t}

\* Mutant: the dirty set is cleared before _flushInFlight is looked at.
BeginFlushClearsFirst(priority, d, t, c) ==
    /\ dirty' = {}
    /\ timers' = t
    /\ IF d = {} /\ ~indexDirty THEN UNCHANGED <<flush, pendingFlush>>
       ELSE IF flush # Idle THEN pendingFlush' = TRUE /\ UNCHANGED flush
       ELSE flush' \in Turn(d, c) /\ UNCHANGED pendingFlush

\* Mutant: a flush put off because of lag arms no timer.
BeginFlushPutsOff(priority, d, t, c) ==
    /\ timers' = t
    /\ IF d = {} /\ ~indexDirty
       THEN dirty' = d /\ UNCHANGED <<flush, pendingFlush>>
       ELSE IF flush # Idle
       THEN pendingFlush' = TRUE /\ dirty' = d /\ UNCHANGED flush
       ELSE IF ~priority /\ lag # "calm"
       THEN dirty' = d /\ UNCHANGED <<flush, pendingFlush>>
       ELSE flush' \in Turn(d, c) /\ dirty' = {} /\ UNCHANGED pendingFlush

\* The call, up to its first await, where the dirty set, the timers and the
\* cache already have the values d, t and c.
BeginFlush(priority, d, t, c) ==
    \/ /\ d = {} /\ ~indexDirty
       /\ dirty' = d
       /\ timers' = t
       /\ UNCHANGED <<flush, pendingFlush>>
    \/ /\ d # {} \/ indexDirty
       /\ flush # Idle
       /\ pendingFlush' = TRUE
       /\ dirty' = d
       /\ timers' = t
       /\ UNCHANGED flush
    \/ /\ d # {} \/ indexDirty
       /\ flush = Idle
       /\ ~priority /\ lag # "calm"
       /\ IF d = {} THEN timers' = t ELSE \E k \in d : timers' = t \cup {k}
       /\ dirty' = d
       /\ UNCHANGED <<flush, pendingFlush>>
    \/ /\ d # {} \/ indexDirty
       /\ flush = Idle
       /\ priority \/ lag = "calm"
       /\ flush' \in Turn(d, c)
       /\ dirty' = {}
       /\ timers' = t
       /\ UNCHANGED pendingFlush

\* Its finally block.
EndFlush ==
    /\ flush' = Idle
    /\ IF pendingFlush \/ dirty # {}
       THEN pendingFlush' = FALSE /\ soon' = TRUE
       ELSE UNCHANGED <<pendingFlush, soon>>

\* renameAsyncWithRetry succeeds: the shard holds the row read at the turn.
RenameLands ==
    /\ process = "up"
    /\ flush.phase = "write"
    /\ disk' = [disk EXCEPT ![flush.key] = flush.row]
    /\ flush' = [flush EXCEPT !.phase = "landed"]
    /\ UNCHANGED <<live, cache, dirty, timers, pendingFlush, soon, indexDirty,
                   persisting, lag, process, exposed>>

\* flushAccountToDisk resolves and the loop goes on.
AccountFlushed ==
    /\ process = "up"
    /\ flush.phase = "landed"
    /\ indexDirty' = TRUE
    /\ flush' \in Turn(flush.todo, cache)
    /\ UNCHANGED <<live, cache, disk, dirty, timers, pendingFlush, soon,
                   persisting, lag, process, exposed>>

\* A file operation fails for good: the accounts this flush had taken out of
\* the dirty set and not yet written are not put back.
FlushFails ==
    /\ process = "up"
    /\ flush.phase \in {"write", "index"}
    /\ EndFlush
    /\ exposed' = exposed \cup (({flush.key} \cup flush.todo) \ (dirty \cup {NoAccount}))
    /\ UNCHANGED <<live, cache, disk, dirty, timers, indexDirty, persisting,
                   lag, process>>

\* flushIndexToDisk resolves.
IndexFlushed ==
    /\ process = "up"
    /\ flush.phase = "index"
    /\ indexDirty' = FALSE
    /\ EndFlush
    /\ UNCHANGED <<live, cache, disk, dirty, timers, persisting, lag, process, exposed>>

\* An account's debounce timer fires.
TimerFires(k) ==
    /\ process = "up"
    /\ k \in timers
    /\ BeginFlush(FALSE, dirty, timers \ {k}, cache)
    /\ UNCHANGED <<live, cache, disk, soon, indexDirty, persisting, lag, process, exposed>>

SoonFires ==
    /\ process = "up"
    /\ soon
    /\ soon' = FALSE
    /\ BeginFlush(FALSE, dirty, timers, cache)
    /\ UNCHANGED <<live, cache, disk, indexDirty, persisting, lag, process, exposed>>

\* The response to some upload is finished: scheduleIngestPostResponseFlush.
ResponseFinishes ==
    /\ process = "up"
    /\ BeginFlush(TRUE, dirty, timers, cache)
    /\ UNCHANGED <<live, cache, disk, soon, indexDirty, persisting, lag, process, exposed>>

-----------------------------------------------------------------------------
(* persistSessionHeartbeat at the end of an upload *)

\* Mutant: the row of an account already in the cache is kept.
SavedUncached(k) ==
    /\ process = "up"
    /\ live[k] < MaxUploads[k]
    /\ live' = [live EXCEPT ![k] = @ + 1]
    /\ cache' = IF cache[k] = 0 THEN [cache EXCEPT ![k] = live'[k]] ELSE cache

\* The handler has replaced the session; saveAccount(key, row), and what
\* follows sees the cache, the dirty set and the timers so updated.
Saved(k) ==
    /\ process = "up"
    /\ live[k] < MaxUploads[k]
    /\ live' = [live EXCEPT ![k] = @ + 1]
    /\ cache' = [cache EXCEPT ![k] = live'[k]]

\* flushAccountSync, under little lag and for an upload that changes more than
\* presence.  Its row goes under that of an asynchronous write of the account
\* which is still to land.
UploadFlushedSync(k) ==
    /\ Saved(k)
    /\ lag # "lagging"
    /\ disk' = [disk EXCEPT ![k] = live'[k]]
    /\ dirty' = dirty \ {k}
    /\ timers' = timers \cup {k}
    /\ indexDirty' = TRUE
    /\ exposed' = IF flush.phase = "write" /\ flush.key = k
                  THEN exposed \cup {k} ELSE exposed \ {k}
    /\ UNCHANGED <<flush, pendingFlush, soon, persisting, lag, process>>

\* A presence-only upload, or flushAccountSync throws: the account stays dirty.
UploadLeftDirty(k) ==
    /\ Saved(k)
    /\ lag # "lagging"
    /\ dirty' = dirty \cup {k}
    /\ timers' = timers \cup {k}
    /\ exposed' = exposed \ {k}
    /\ UNCHANGED <<disk, flush, pendingFlush, soon, indexDirty, persisting, lag, process>>

\* Above 800 ms of lag the write is left to a priority flush.
UploadDeferred(k) ==
    /\ Saved(k)
    /\ lag = "lagging"
    /\ BeginFlush(TRUE, dirty \cup {k}, timers \cup {k}, cache')
    /\ exposed' = exposed \ {k}
    /\ UNCHANGED <<disk, soon, indexDirty, persisting, lag, process>>

-----------------------------------------------------------------------------
(* persistSessionState at the end of an enrichment or audit job *)

\* It reads liveTrackDB[key] and awaits buildPublicFishFields; the gate runs
\* at most one job per account.
PersistReads(k) ==
    /\ process = "up"
    /\ persisting[k] = NoVersion
    /\ live[k] > 0
    /\ persisting' = [persisting EXCEPT ![k] = live[k]]
    /\ UNCHANGED <<live, cache, disk, queueVars, soon, indexDirty, lag, process, exposed>>

\* Mutant: the account is saved although no session was read.
PersistSavesNothing(k) ==
    /\ process = "up"
    /\ cache' = [cache EXCEPT ![k] = persisting[k]]
    /\ dirty' = dirty \cup {k}
    /\ timers' = timers \cup {k}
    /\ persisting' = [persisting EXCEPT ![k] = NoVersion]
    /\ exposed' = IF persisting[k] # live[k] THEN exposed \cup {k} ELSE exposed \ {k}
    /\ UNCHANGED <<live, disk, flush, pendingFlush, soon, indexDirty, lag, process>>

\* After the await it saves the session object it read, not the current one.
PersistSaves(k) ==
    /\ process = "up"
    /\ persisting[k] # NoVersion
    /\ cache' = [cache EXCEPT ![k] = persisting[k]]
    /\ dirty' = dirty \cup {k}
    /\ timers' = timers \cup {k}
    /\ persisting' = [persisting EXCEPT ![k] = NoVersion]
    /\ exposed' = IF persisting[k] # live[k] THEN exposed \cup {k} ELSE exposed \ {k}
    /\ UNCHANGED <<live, disk, flush, pendingFlush, soon, indexDirty, lag, process>>

-----------------------------------------------------------------------------
(* The process and its load *)

LagChange ==
    /\ process = "up"
    /\ lag' \in Lags
    /\ UNCHANGED <<live, cache, disk, queueVars, soon, indexDirty, persisting,
                   process, exposed>>

\* What exists only in memory is gone; live is kept to compare with the disk.
Exit(how) ==
    /\ process = "up"
    /\ process' = how
    /\ dirty' = {}
    /\ timers' = {}
    /\ flush' = Idle
    /\ pendingFlush' = FALSE
    /\ soon' = FALSE
    /\ indexDirty' = FALSE
    /\ persisting' = [k \in Accounts |-> NoVersion]
    /\ lag' = "calm"
    /\ exposed' = {}
    /\ UNCHANGED <<live, cache, disk>>

Crash == Exit("crashed")

\* flushDirtyAccountsAsync returns without having written anything.
ReturnsAtOnce(d, f) == (d = {} /\ ~indexDirty) \/ f # Idle

\* SIGTERM.  flushAllLiveSessionsToDisk saves every session and makes two
\* priority calls.  Unless a flush is in flight the first one begins one; the
\* second is the one awaited, it returns at once, and process.exit follows
\* before an asynchronous file operation has completed.
Shutdown ==
    /\ IF flush = Idle
       THEN \E f \in Turn(Accounts, live) : ReturnsAtOnce({}, f)
       ELSE ReturnsAtOnce(Accounts, flush)
    /\ Exit("stopped")

\* pm2 starts the process again: sessions are loaded from their shards.
Restart ==
    /\ process # "up"
    /\ process' = "up"
    /\ live' = disk
    /\ cache' = disk
    /\ UNCHANGED <<disk, queueVars, soon, indexDirty, persisting, lag, exposed>>

FlushStep == RenameLands \/ AccountFlushed \/ FlushFails \/ IndexFlushed

ShardNext ==
    \/ FlushStep
    \/ SoonFires
    \/ ResponseFinishes
    \/ \E k \in Accounts :
          \/ TimerFires(k)
          \/ UploadFlushedSync(k) \/ UploadLeftDirty(k) \/ UploadDeferred(k)
          \/ PersistReads(k) \/ PersistSaves(k)
    \/ LagChange
    \/ Crash
    \/ Shutdown
    \/ Restart

ShardSpec == ShardInit /\ [][ShardNext]_shardVars

(***************************************************************************)
(* File operations complete or fail, timers and immediates fire.  Nothing  *)
(* is assumed of responses (a client may be gone) or of the lag.           *)
(***************************************************************************)
FairShardSpec ==
    /\ ShardSpec
    /\ WF_shardVars(FlushStep)
    /\ WF_shardVars(SoonFires)
    /\ \A k \in Accounts : WF_shardVars(TimerFires(k))

-----------------------------------------------------------------------------
(* Properties *)

\* A dirty account is never forgotten: a timer, an immediate or the end of the
\* flush in flight will look at the dirty set again, without a new upload.
DirtyIsScheduled == dirty # {} => timers # {} \/ soon \/ flush # Idle

InFlush == ({flush.key} \cup flush.todo) \ {NoAccount}

\* A session that differs from its shard is dirty or in the flush in flight,
\* unless one of the three known hazards has hit it since it was last saved:
\* a synchronous write under an asynchronous one, a flush that failed, or a
\* save of a session object read before an await.
OnlyKnownLosses ==
    process = "up" =>
        \A k \in Accounts \ exposed :
            disk[k] = live[k] \/ k \in dirty \cup InFlush

\* A shard goes back to an older version only for an account that one of these
\* hazards has hit, or that is dirty and so is to be written again.
OnlyKnownRegressions ==
    [][\A k \in Accounts : disk'[k] < disk[k] => k \in exposed \cup dirty]_shardVars

\* "so the heartbeat is durable regardless of the branch below": a version that
\* has reached its shard is not overwritten by an older one.
ShardNeverRegresses == [][\A k \in Accounts : disk'[k] >= disk[k]]_shardVars

\* "then flush live sessions before exiting": a graceful stop leaves every
\* session on disk.
ShutdownFlushes == process = "stopped" => disk = live

\* Once the lag stays at or below 400 ms, a dirty account is taken by a flush
\* (or the process goes down) even if no upload ever arrives again.
DirtyDrains ==
    <>[](lag = "calm") => \A k \in Accounts : (k \in dirty) ~> (k \notin dirty)
=============================================================================
