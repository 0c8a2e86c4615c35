------------------------ MODULE SessionShards_proofs ------------------------
(***************************************************************************)
(* Proofs about SessionShards: its type invariant, that a dirty account is *)
(* always scheduled, and that a session is missing from its shard, or its  *)
(* shard goes back to an older version, only in the known ways.            *)
(***************************************************************************)
EXTENDS SessionShards, TLAPS

\* Account k has a place in the flush machinery, or its session is on disk and
\* no older row is about to be written over it.
Tracked(k) ==
    \/ k \in dirty \cup flush.todo
    \/ IF flush.phase = "write" /\ flush.key = k
       THEN flush.row = live[k]
       ELSE disk[k] = live[k]

\* What an account no hazard has hit can rely on.
Safe(k) == cache[k] = live[k] /\ Tracked(k)

\* Between an exit and the restart nothing is being written.
DownIsIdle == process # "up" => flush = Idle

ShardInv ==
    /\ ShardTypeOK
    /\ DirtyIsScheduled
    /\ DownIsIdle
    /\ process = "up" => \A k \in Accounts \ exposed : Safe(k)

-----------------------------------------------------------------------------
(* The shapes of a flush *)

LEMMA FlushTypes ==
    ASSUME ShardAssumption, NEW f \in Flushes
    PROVE  /\ f.phase \in {"idle", "index", "write", "landed"}
           /\ f.phase = "idle" => f = Idle
           /\ f.phase \in {"idle", "index"} => f.key = NoAccount /\ f.todo = {}
           /\ f.phase \in {"write", "landed"} => f.key \in Accounts /\ f.row \in Versions
           /\ f.todo \subseteq Accounts
  BY DEF Flushes, Idle, WritingIndex

LEMMA TurnOfNone ==
    ASSUME NEW t, t = {}, NEW c \in [Accounts -> Versions], NEW f \in Turn(t, c)
    PROVE  f = WritingIndex /\ f \in Flushes /\ f # Idle
  BY DEF Turn, Flushes, WritingIndex, Idle

LEMMA TurnOfSome ==
    ASSUME NEW t \in SUBSET Accounts, t # {}, NEW c \in [Accounts -> Versions],
           NEW f \in Turn(t, c)
    PROVE  /\ f \in Flushes
           /\ f # Idle
           /\ f.phase = "write"
           /\ f.key \in t
           /\ f.row = c[f.key]
           /\ f.todo = t \ {f.key}
<1>1. PICK k \in t : f = [phase |-> "write", key |-> k, row |-> c[k], todo |-> t \ {k}]
  BY DEF Turn
<1>2. c[k] \in Versions /\ t \ {k} \in SUBSET Accounts /\ k \in Accounts
  OBVIOUS
<1>3. f \in [phase : {"write", "landed"}, key : Accounts, row : Versions, todo : SUBSET Accounts]
  BY <1>1, <1>2
<1>4. f \in Flushes
  BY <1>3 DEF Flushes
<1>5. f.phase = "write" /\ f.key = k /\ f.row = c[k] /\ f.todo = t \ {k}
  BY <1>1
<1>6. f # Idle
  BY <1>5 DEF Idle
<1> QED
  BY <1>4, <1>5, <1>6

LEMMA TurnWritesItsOwn ==
    ASSUME NEW t \in SUBSET Accounts, NEW c \in [Accounts -> Versions],
           NEW f \in Turn(t, c), f.phase = "write"
    PROVE  f.key \in t
<1>1. CASE t = {}
  BY <1>1, TurnOfNone DEF WritingIndex, Idle
<1>2. CASE t # {}
  BY <1>2, TurnOfSome
<1> QED
  BY <1>1, <1>2

-----------------------------------------------------------------------------
(* flushDirtyAccountsAsync, up to its first await *)

LEMMA BeginFlushTypes ==
    ASSUME NEW priority \in BOOLEAN, NEW d \in SUBSET Accounts, NEW t \in SUBSET Accounts,
           NEW c \in [Accounts -> Versions],
           flush \in Flushes, pendingFlush \in BOOLEAN,
           BeginFlush(priority, d, t, c)
    PROVE  /\ dirty' \subseteq Accounts /\ timers' \subseteq Accounts
           /\ flush' \in Flushes /\ pendingFlush' \in BOOLEAN
           /\ dirty' # {} => timers' # {} \/ flush' # Idle
<1>1. CASE d = {} /\ ~indexDirty
  BY <1>1 DEF BeginFlush
<1>2. CASE (d # {} \/ indexDirty) /\ flush # Idle
  BY <1>2 DEF BeginFlush
<1>3. CASE (d # {} \/ indexDirty) /\ flush = Idle /\ ~priority /\ lag # "calm"
  BY <1>3 DEF BeginFlush
<1>4. CASE (d # {} \/ indexDirty) /\ flush = Idle /\ (priority \/ lag = "calm")
  <2>1. flush' \in Turn(d, c) /\ dirty' = {} /\ timers' = t /\ pendingFlush' = pendingFlush
    BY <1>4 DEF BeginFlush
  <2>2. flush' \in Flushes
    BY <2>1, TurnOfNone, TurnOfSome
  <2> QED
    BY <2>1, <2>2
<1> QED
  BY <1>1, <1>2, <1>3, <1>4

\* An account that has a place in the machinery keeps one.
LEMMA BeginFlushTracks ==
    ASSUME ShardAssumption,
           NEW priority \in BOOLEAN, NEW d \in SUBSET Accounts, NEW t \in SUBSET Accounts,
           NEW c \in [Accounts -> Versions],
           BeginFlush(priority, d, t, c),
           NEW k \in Accounts, c[k] = live'[k],
           \/ k \in d \cup flush.todo
           \/ IF flush.phase = "write" /\ flush.key = k
              THEN flush.row = live'[k]
              ELSE disk'[k] = live'[k]
    PROVE  Tracked(k)'
<1>1. CASE flush' = flush /\ dirty' = d
  BY <1>1 DEF Tracked
<1>2. CASE flush = Idle /\ flush' \in Turn(d, c) /\ dirty' = {}
  <2>1. flush.todo = {} /\ flush.phase # "write"
    BY <1>2 DEF Idle
  <2>2. CASE k \in d
    <3>1. d # {}
      BY <2>2
    <3>2. flush'.phase = "write" /\ flush'.row = c[flush'.key] /\ flush'.todo = d \ {flush'.key}
      BY <1>2, <3>1, TurnOfSome
    <3> QED
      BY <2>2, <3>2 DEF Tracked
  <2>3. CASE k \notin d
    <3>1. disk'[k] = live'[k]
      BY <2>1, <2>3
    <3>2. flush'.phase = "write" => flush'.key \in d
      BY <1>2, TurnWritesItsOwn
    <3> QED
      BY <2>3, <3>1, <3>2 DEF Tracked
  <2> QED
    BY <2>2, <2>3
<1> QED
  BY <1>1, <1>2 DEF BeginFlush

-----------------------------------------------------------------------------
(* The invariant holds initially and is kept by every action *)

LEMMA InitInv ==
    ASSUME ShardAssumption, ShardInit
    PROVE  ShardInv
<1>1. 0 \in Versions
  BY DEF Versions, ShardAssumption
<1>2. ShardTypeOK
  BY <1>1 DEF ShardInit, ShardTypeOK, Flushes, Lags
<1>3. DirtyIsScheduled /\ DownIsIdle
  BY DEF ShardInit, DirtyIsScheduled, DownIsIdle
<1>4. \A k \in Accounts : Safe(k)
  BY DEF ShardInit, Safe, Tracked, Idle
<1> QED
  BY <1>2, <1>3, <1>4 DEF ShardInv

\* An action that ends with flushDirtyAccountsAsync keeps the invariant when it
\* leaves the cache in line with the sessions.
LEMMA BeginFlushInv ==
    ASSUME ShardAssumption, ShardInv, process = "up",
           NEW priority \in BOOLEAN, NEW t \in SUBSET Accounts,
           BeginFlush(priority, dirty, t, cache),
           UNCHANGED <<live, cache, disk, indexDirty, persisting, lag, process, exposed>>,
           soon' \in BOOLEAN
    PROVE  ShardInv'
<1>1. /\ dirty' \subseteq Accounts /\ timers' \subseteq Accounts
      /\ flush' \in Flushes /\ pendingFlush' \in BOOLEAN
      /\ dirty' # {} => timers' # {} \/ flush' # Idle
  <2>1. dirty \in SUBSET Accounts /\ cache \in [Accounts -> Versions]
        /\ flush \in Flushes /\ pendingFlush \in BOOLEAN
    BY DEF ShardInv, ShardTypeOK
  <2> QED
    BY <2>1, BeginFlushTypes
<1>2. ShardTypeOK'
  BY <1>1 DEF ShardInv, ShardTypeOK
<1>3. DirtyIsScheduled' /\ DownIsIdle'
  BY <1>1 DEF DirtyIsScheduled, DownIsIdle
<1>4. ASSUME NEW k \in Accounts \ exposed'
      PROVE  Safe(k)'
  <2>1. Safe(k)
    BY <1>4 DEF ShardInv
  <2>2. cache[k] = live'[k]
    BY <2>1 DEF Safe
  <2>3. \/ k \in dirty \cup flush.todo
        \/ IF flush.phase = "write" /\ flush.key = k
           THEN flush.row = live'[k]
           ELSE disk'[k] = live'[k]
    BY <2>1 DEF Safe, Tracked
  <2>4. dirty \in SUBSET Accounts /\ cache \in [Accounts -> Versions]
    BY DEF ShardInv, ShardTypeOK
  <2>5. Tracked(k)'
    BY <2>2, <2>3, <2>4, BeginFlushTracks
  <2> QED
    BY <2>2, <2>5 DEF Safe
<1> QED
  BY <1>2, <1>3, <1>4 DEF ShardInv

LEMMA RenameInv ==
    ASSUME ShardAssumption, ShardInv, RenameLands
    PROVE  ShardInv'
<1> USE DEF RenameLands
<1>1. flush \in Flushes /\ flush.phase = "write"
  BY DEF ShardInv, ShardTypeOK
<1>2. flush.key \in Accounts /\ flush.row \in Versions /\ flush.todo \in SUBSET Accounts
  BY <1>1, FlushTypes
<1>3. flush = [phase |-> "write", key |-> flush.key, row |-> flush.row, todo |-> flush.todo]
  BY <1>1 DEF Flushes, Idle, WritingIndex
<1>4. flush' = [phase |-> "landed", key |-> flush.key, row |-> flush.row, todo |-> flush.todo]
  BY <1>3
<1>5. flush' \in Flushes
  BY <1>2, <1>4 DEF Flushes
<1>6. flush' # Idle /\ flush'.phase = "landed"
  BY <1>4 DEF Idle
<1>7. ShardTypeOK'
  BY <1>2, <1>5 DEF ShardInv, ShardTypeOK
<1>8. DirtyIsScheduled' /\ DownIsIdle'
  BY <1>6 DEF DirtyIsScheduled, DownIsIdle
<1>9. ASSUME NEW k \in Accounts \ exposed'
      PROVE  Safe(k)'
  <2>1. cache[k] = live[k] /\ Tracked(k)
    BY <1>9 DEF ShardInv, Safe
  <2>2. CASE k = flush.key
    <3>1. disk'[k] = flush.row
      BY <1>2, <2>2 DEF ShardInv, ShardTypeOK
    <3> QED
      BY <1>1, <1>4, <2>1, <2>2, <3>1 DEF Safe, Tracked
  <2>3. CASE k # flush.key
    <3>1. disk'[k] = disk[k]
      BY <2>3 DEF ShardInv, ShardTypeOK
    <3> QED
      BY <1>4, <2>1, <2>3, <3>1 DEF Safe, Tracked
  <2> QED
    BY <2>2, <2>3
<1> QED
  BY <1>7, <1>8, <1>9 DEF ShardInv

LEMMA AccountFlushedInv ==
    ASSUME ShardAssumption, ShardInv, AccountFlushed
    PROVE  ShardInv'
<1> USE DEF AccountFlushed
<1>1. flush \in Flushes /\ flush.phase = "landed" /\ cache \in [Accounts -> Versions]
  BY DEF ShardInv, ShardTypeOK
<1>2. flush.todo \in SUBSET Accounts
  BY <1>1, FlushTypes
<1>3. flush' \in Flushes /\ flush' # Idle
  BY <1>1, <1>2, TurnOfNone, TurnOfSome
<1>4. ShardTypeOK'
  BY <1>3 DEF ShardInv, ShardTypeOK
<1>5. DirtyIsScheduled' /\ DownIsIdle'
  BY <1>3 DEF DirtyIsScheduled, DownIsIdle
<1>6. ASSUME NEW k \in Accounts \ exposed'
      PROVE  Safe(k)'
  <2>1. cache[k] = live[k] /\ Tracked(k)
    BY <1>6 DEF ShardInv, Safe
  <2>2. CASE k \in flush.todo
    <3>1. flush.todo # {}
      BY <2>2
    <3>2. flush'.phase = "write" /\ flush'.row = cache[flush'.key]
          /\ flush'.todo = flush.todo \ {flush'.key}
      BY <1>1, <1>2, <3>1, TurnOfSome
    <3> QED
      BY <2>1, <2>2, <3>2 DEF Safe, Tracked
  <2>3. CASE k \notin flush.todo
    <3>1. k \in dirty \/ disk[k] = live[k]
      BY <1>1, <2>1, <2>3 DEF Tracked
    <3>2. flush'.phase = "write" => flush'.key \in flush.todo
      BY <1>1, <1>2, TurnWritesItsOwn
    <3> QED
      BY <2>1, <2>3, <3>1, <3>2 DEF Safe, Tracked
  <2> QED
    BY <2>2, <2>3
<1> QED
  BY <1>4, <1>5, <1>6 DEF ShardInv

\* The end of a flush: what it still held is on disk, dirty again, or exposed.
LEMMA EndFlushInv ==
    ASSUME ShardAssumption, ShardInv, process = "up", EndFlush,
           UNCHANGED <<live, cache, disk, dirty, timers, persisting, lag, process>>,
           indexDirty' \in BOOLEAN,
           exposed \subseteq exposed', exposed' \subseteq Accounts,
           \A k \in Accounts :
               k = flush.key \/ k \in flush.todo => k \in dirty \cup exposed'
    PROVE  ShardInv'
<1>1. flush' = Idle /\ pendingFlush' \in BOOLEAN /\ soon' \in BOOLEAN
      /\ (dirty # {} => soon')
  BY DEF EndFlush, ShardInv, ShardTypeOK
<1>2. ShardTypeOK'
  BY <1>1 DEF ShardInv, ShardTypeOK, Flushes
<1>3. DirtyIsScheduled' /\ DownIsIdle'
  BY <1>1 DEF DirtyIsScheduled, DownIsIdle
<1>4. ASSUME NEW k \in Accounts \ exposed'
      PROVE  Safe(k)'
  <2>1. cache[k] = live[k] /\ Tracked(k)
    BY <1>4 DEF ShardInv, Safe
  <2>2. k \in dirty \/ disk[k] = live[k]
    BY <1>4, <2>1 DEF Tracked
  <2> QED
    BY <1>1, <2>1, <2>2 DEF Safe, Tracked, Idle
<1> QED
  BY <1>2, <1>3, <1>4 DEF ShardInv

LEMMA FlushFailsInv ==
    ASSUME ShardAssumption, ShardInv, FlushFails
    PROVE  ShardInv'
<1> USE DEF FlushFails
<1>1. flush \in Flushes /\ exposed \subseteq Accounts
  BY DEF ShardInv, ShardTypeOK
<1>2. flush.key \in Accounts \cup {NoAccount} /\ flush.todo \subseteq Accounts
  BY <1>1, FlushTypes
<1>3. exposed \subseteq exposed' /\ exposed' \subseteq Accounts
  BY <1>1, <1>2
<1>4. \A k \in Accounts : k = flush.key \/ k \in flush.todo => k \in dirty \cup exposed'
  BY DEF ShardAssumption
<1>5. indexDirty' \in BOOLEAN
  BY DEF ShardInv, ShardTypeOK
<1> QED
  BY <1>3, <1>4, <1>5, EndFlushInv

LEMMA IndexFlushedInv ==
    ASSUME ShardAssumption, ShardInv, IndexFlushed
    PROVE  ShardInv'
<1> USE DEF IndexFlushed
<1>1. flush \in Flushes /\ flush.phase = "index" /\ exposed \subseteq Accounts
  BY DEF ShardInv, ShardTypeOK
<1>2. flush.key = NoAccount /\ flush.todo = {}
  BY <1>1, FlushTypes
<1>3. \A k \in Accounts : k = flush.key \/ k \in flush.todo => k \in dirty \cup exposed'
  BY <1>2 DEF ShardAssumption
<1> QED
  BY <1>1, <1>3, EndFlushInv

LEMMA FlushStarterInv ==
    ASSUME ShardAssumption, ShardInv,
           SoonFires \/ ResponseFinishes \/ \E k \in Accounts : TimerFires(k)
    PROVE  ShardInv'
<1>1. timers \in SUBSET Accounts /\ soon \in BOOLEAN
  BY DEF ShardInv, ShardTypeOK
<1>2. CASE SoonFires
  <2>1. BeginFlush(FALSE, dirty, timers, cache) /\ process = "up" /\ soon' \in BOOLEAN
        /\ UNCHANGED <<live, cache, disk, indexDirty, persisting, lag, process, exposed>>
    BY <1>2 DEF SoonFires
  <2> QED
    BY <1>1, <2>1, BeginFlushInv
<1>3. CASE ResponseFinishes
  <2>1. BeginFlush(TRUE, dirty, timers, cache) /\ process = "up" /\ soon' \in BOOLEAN
        /\ UNCHANGED <<live, cache, disk, indexDirty, persisting, lag, process, exposed>>
    BY <1>1, <1>3 DEF ResponseFinishes
  <2> QED
    BY <1>1, <2>1, BeginFlushInv
<1>4. CASE \E k \in Accounts : TimerFires(k)
  <2>1. PICK k \in Accounts : TimerFires(k)
    BY <1>4
  <2>2. BeginFlush(FALSE, dirty, timers \ {k}, cache) /\ process = "up" /\ soon' \in BOOLEAN
        /\ UNCHANGED <<live, cache, disk, indexDirty, persisting, lag, process, exposed>>
    BY <1>1, <2>1 DEF TimerFires
  <2>3. timers \ {k} \in SUBSET Accounts
    BY <1>1
  <2> QED
    BY <2>2, <2>3, BeginFlushInv
<1> QED
  BY <1>2, <1>3, <1>4

\* What the three outcomes of persistSessionHeartbeat have in common.
LEMMA SavedTypes ==
    ASSUME ShardAssumption, ShardInv, NEW k \in Accounts, Saved(k)
    PROVE  /\ live' \in [Accounts -> Versions]
           /\ cache' \in [Accounts -> Versions]
           /\ live'[k] \in Versions
           /\ cache'[k] = live'[k]
           /\ \A a \in Accounts \ {k} : live'[a] = live[a] /\ cache'[a] = cache[a]
<1>1. live \in [Accounts -> Versions] /\ cache \in [Accounts -> Versions]
  BY DEF ShardInv, ShardTypeOK
<1>2. live[k] + 1 \in Versions
  BY <1>1 DEF Versions
<1>3. live' = [live EXCEPT ![k] = live[k] + 1] /\ cache' = [cache EXCEPT ![k] = live'[k]]
  BY DEF Saved
<1>4. live' \in [Accounts -> Versions] /\ live'[k] = live[k] + 1
  BY <1>1, <1>2, <1>3
<1>5. cache' \in [Accounts -> Versions] /\ cache'[k] = live'[k]
  BY <1>1, <1>2, <1>3, <1>4
<1> QED
  BY <1>1, <1>2, <1>3, <1>4, <1>5

LEMMA UploadFlushedSyncInv ==
    ASSUME ShardAssumption, ShardInv, NEW k \in Accounts, UploadFlushedSync(k)
    PROVE  ShardInv'
<1> USE DEF UploadFlushedSync
<1>1. Saved(k) /\ process = "up"
  BY DEF Saved
<1>2. /\ live' \in [Accounts -> Versions] /\ cache' \in [Accounts -> Versions]
      /\ live'[k] \in Versions /\ cache'[k] = live'[k]
      /\ \A a \in Accounts \ {k} : live'[a] = live[a] /\ cache'[a] = cache[a]
  BY <1>1, SavedTypes
<1>3. disk' \in [Accounts -> Versions] /\ disk'[k] = live'[k]
      /\ \A a \in Accounts \ {k} : disk'[a] = disk[a]
  BY <1>2 DEF ShardInv, ShardTypeOK
<1>4. ShardTypeOK'
  BY <1>2, <1>3 DEF ShardInv, ShardTypeOK
<1>5. DirtyIsScheduled' /\ DownIsIdle'
  BY <1>1 DEF DirtyIsScheduled, DownIsIdle
<1>6. ASSUME NEW a \in Accounts \ exposed'
      PROVE  Safe(a)'
  <2>1. CASE a = k
    <3>1. ~(flush.phase = "write" /\ flush.key = k)
      BY <1>6, <2>1
    <3> QED
      BY <1>2, <1>3, <2>1, <3>1 DEF Safe, Tracked
  <2>2. CASE a # k
    <3>1. a \notin exposed
      BY <1>6, <2>2
    <3>2. cache[a] = live[a] /\ Tracked(a)
      BY <1>1, <3>1 DEF ShardInv, Safe
    <3>3. live'[a] = live[a] /\ cache'[a] = cache[a] /\ disk'[a] = disk[a]
      BY <1>2, <1>3, <2>2
    <3> QED
      BY <2>2, <3>2, <3>3 DEF Safe, Tracked
  <2> QED
    BY <2>1, <2>2
<1> QED
  BY <1>4, <1>5, <1>6 DEF ShardInv

LEMMA UploadLeftDirtyInv ==
    ASSUME ShardAssumption, ShardInv, NEW k \in Accounts, UploadLeftDirty(k)
    PROVE  ShardInv'
<1> USE DEF UploadLeftDirty
<1>1. Saved(k) /\ process = "up"
  BY DEF Saved
<1>2. /\ live' \in [Accounts -> Versions] /\ cache' \in [Accounts -> Versions]
      /\ live'[k] \in Versions /\ cache'[k] = live'[k]
      /\ \A a \in Accounts \ {k} : live'[a] = live[a] /\ cache'[a] = cache[a]
  BY <1>1, SavedTypes
<1>3. ShardTypeOK'
  BY <1>2 DEF ShardInv, ShardTypeOK
<1>4. DirtyIsScheduled' /\ DownIsIdle'
  BY <1>1 DEF DirtyIsScheduled, DownIsIdle
<1>5. ASSUME NEW a \in Accounts \ exposed'
      PROVE  Safe(a)'
  <2>1. CASE a = k
    BY <1>2, <2>1 DEF Safe, Tracked
  <2>2. CASE a # k
    <3>1. cache[a] = live[a] /\ Tracked(a)
      BY <1>1, <1>5, <2>2 DEF ShardInv, Safe
    <3> QED
      BY <1>2, <2>2, <3>1 DEF Safe, Tracked
  <2> QED
    BY <2>1, <2>2
<1> QED
  BY <1>3, <1>4, <1>5 DEF ShardInv

LEMMA UploadDeferredInv ==
    ASSUME ShardAssumption, ShardInv, NEW k \in Accounts, UploadDeferred(k)
    PROVE  ShardInv'
<1> USE DEF UploadDeferred
<1>1. Saved(k) /\ process = "up"
  BY DEF Saved
<1>2. /\ live' \in [Accounts -> Versions] /\ cache' \in [Accounts -> Versions]
      /\ live'[k] \in Versions /\ cache'[k] = live'[k]
      /\ \A a \in Accounts \ {k} : live'[a] = live[a] /\ cache'[a] = cache[a]
  BY <1>1, SavedTypes
<1>3. dirty \cup {k} \in SUBSET Accounts /\ timers \cup {k} \in SUBSET Accounts
      /\ flush \in Flushes /\ pendingFlush \in BOOLEAN
  BY DEF ShardInv, ShardTypeOK
<1>4. BeginFlush(TRUE, dirty \cup {k}, timers \cup {k}, cache')
  OBVIOUS
<1>5. /\ dirty' \subseteq Accounts /\ timers' \subseteq Accounts
      /\ flush' \in Flushes /\ pendingFlush' \in BOOLEAN
      /\ dirty' # {} => timers' # {} \/ flush' # Idle
  BY <1>2, <1>3, <1>4, BeginFlushTypes
<1>6. ShardTypeOK'
  BY <1>2, <1>5 DEF ShardInv, ShardTypeOK
<1>7. DirtyIsScheduled' /\ DownIsIdle'
  BY <1>1, <1>5 DEF DirtyIsScheduled, DownIsIdle
<1>8. ASSUME NEW a \in Accounts \ exposed'
      PROVE  Safe(a)'
  <2>1. cache'[a] = live'[a]
    BY <1>1, <1>2, <1>8 DEF ShardInv, Safe
  <2>2. \/ a \in dirty \cup {k} \cup flush.todo
        \/ IF flush.phase = "write" /\ flush.key = a
           THEN flush.row = live'[a]
           ELSE disk'[a] = live'[a]
    <3>1. CASE a = k
      BY <3>1
    <3>2. CASE a # k
      <4>1. Tracked(a) /\ live'[a] = live[a] /\ disk' = disk
        BY <1>1, <1>2, <1>8, <3>2 DEF ShardInv, Safe
      <4> QED
        BY <4>1 DEF Tracked
    <3> QED
      BY <3>1, <3>2
  <2>3. Tracked(a)'
    BY <1>2, <1>3, <1>4, <2>1, <2>2, BeginFlushTracks
  <2> QED
    BY <2>1, <2>3 DEF Safe
<1> QED
  BY <1>6, <1>7, <1>8 DEF ShardInv

LEMMA PersistInv ==
    ASSUME ShardAssumption, ShardInv, NEW k \in Accounts,
           PersistReads(k) \/ PersistSaves(k)
    PROVE  ShardInv'
<1>1. CASE PersistReads(k)
  <2> USE DEF PersistReads
  <2>1. UNCHANGED <<live, cache, disk, dirty, timers, flush, pendingFlush, soon,
                    indexDirty, lag, process, exposed>>
    BY <1>1 DEF queueVars
  <2>2. persisting' \in [Accounts -> Versions \cup {NoVersion}]
    BY <1>1 DEF ShardInv, ShardTypeOK
  <2>3. ShardTypeOK'
    BY <2>1, <2>2 DEF ShardInv, ShardTypeOK
  <2> QED
    BY <2>1, <2>3 DEF ShardInv, DirtyIsScheduled, DownIsIdle, Safe, Tracked
<1>2. CASE PersistSaves(k)
  <2> USE DEF PersistSaves
  <2>1. persisting[k] \in Versions
    BY <1>2 DEF ShardInv, ShardTypeOK
  <2>2. cache' \in [Accounts -> Versions] /\ cache'[k] = persisting[k]
        /\ \A a \in Accounts \ {k} : cache'[a] = cache[a]
    BY <1>2, <2>1 DEF ShardInv, ShardTypeOK
  <2>3. persisting' \in [Accounts -> Versions \cup {NoVersion}]
    BY <1>2 DEF ShardInv, ShardTypeOK
  <2>4. ShardTypeOK'
    BY <1>2, <2>2, <2>3 DEF ShardInv, ShardTypeOK
  <2>5. DirtyIsScheduled' /\ DownIsIdle'
    BY <1>2 DEF DirtyIsScheduled, DownIsIdle
  <2>6. ASSUME NEW a \in Accounts \ exposed'
        PROVE  Safe(a)'
    <3>1. CASE a = k
      BY <1>2, <2>2, <2>6, <3>1 DEF Safe, Tracked
    <3>2. CASE a # k
      <4>1. cache[a] = live[a] /\ Tracked(a)
        BY <1>2, <2>6, <3>2 DEF ShardInv, Safe
      <4> QED
        BY <1>2, <2>2, <3>2, <4>1 DEF Safe, Tracked
    <3> QED
      BY <3>1, <3>2
  <2> QED
    BY <2>4, <2>5, <2>6 DEF ShardInv
<1> QED
  BY <1>1, <1>2

LEMMA ProcessInv ==
    ASSUME ShardAssumption, ShardInv, LagChange \/ Crash \/ Shutdown \/ Restart
    PROVE  ShardInv'
<1>1. CASE LagChange
  <2>1. lag' \in Lags /\ UNCHANGED <<live, cache, disk, dirty, timers, flush, pendingFlush,
                    soon, indexDirty, persisting, process, exposed>>
    BY <1>1 DEF LagChange, queueVars
  <2>2. ShardTypeOK'
    BY <2>1 DEF ShardInv, ShardTypeOK
  <2> QED
    BY <2>1, <2>2 DEF ShardInv, DirtyIsScheduled, DownIsIdle, Safe, Tracked
<1>2. CASE Crash \/ Shutdown
  <2>1. /\ process' \in {"crashed", "stopped"} /\ flush' = Idle /\ dirty' = {}
        /\ timers' = {} /\ pendingFlush' = FALSE /\ soon' = FALSE /\ indexDirty' = FALSE
        /\ persisting' = [k \in Accounts |-> NoVersion] /\ lag' = "calm" /\ exposed' = {}
        /\ UNCHANGED <<live, cache, disk>>
    BY <1>2 DEF Crash, Shutdown, Exit
  <2>2. ShardTypeOK'
    BY <2>1 DEF ShardInv, ShardTypeOK, Flushes, Lags
  <2> QED
    BY <2>1, <2>2 DEF ShardInv, DirtyIsScheduled, DownIsIdle
<1>3. CASE Restart
  <2>1. /\ process # "up" /\ process' = "up" /\ live' = disk /\ cache' = disk
        /\ UNCHANGED <<disk, dirty, timers, flush, pendingFlush, soon, indexDirty,
                       persisting, lag, exposed>>
    BY <1>3 DEF Restart, queueVars
  <2>2. flush' = Idle
    BY <2>1 DEF ShardInv, DownIsIdle
  <2>3. ShardTypeOK'
    BY <2>1 DEF ShardInv, ShardTypeOK
  <2>4. DirtyIsScheduled' /\ DownIsIdle'
    BY <2>1 DEF ShardInv, DirtyIsScheduled, DownIsIdle
  <2>5. \A k \in Accounts : Safe(k)'
    BY <2>1, <2>2 DEF Safe, Tracked, Idle
  <2> QED
    BY <2>3, <2>4, <2>5 DEF ShardInv
<1> QED
  BY <1>1, <1>2, <1>3

LEMMA NextInv ==
    ASSUME ShardAssumption, ShardInv, [ShardNext]_shardVars
    PROVE  ShardInv'
<1>1. CASE FlushStep
  BY <1>1, RenameInv, AccountFlushedInv, FlushFailsInv, IndexFlushedInv DEF FlushStep
<1>2. CASE SoonFires \/ ResponseFinishes \/ \E k \in Accounts : TimerFires(k)
  BY <1>2, FlushStarterInv
<1>3. CASE \E k \in Accounts :
              UploadFlushedSync(k) \/ UploadLeftDirty(k) \/ UploadDeferred(k)
  BY <1>3, UploadFlushedSyncInv, UploadLeftDirtyInv, UploadDeferredInv
<1>4. CASE \E k \in Accounts : PersistReads(k) \/ PersistSaves(k)
  BY <1>4, PersistInv
<1>5. CASE LagChange \/ Crash \/ Shutdown \/ Restart
  BY <1>5, ProcessInv
<1>6. CASE UNCHANGED shardVars
  <2>1. UNCHANGED <<live, cache, disk, dirty, timers, flush, pendingFlush, soon,
                    indexDirty, persisting, lag, process, exposed>>
    BY <1>6 DEF shardVars, queueVars
  <2>2. ShardTypeOK'
    BY <2>1 DEF ShardInv, ShardTypeOK
  <2> QED
    BY <2>1, <2>2 DEF ShardInv, DirtyIsScheduled, DownIsIdle, Safe, Tracked
<1> QED
  BY <1>1, <1>2, <1>3, <1>4, <1>5, <1>6 DEF ShardNext

-----------------------------------------------------------------------------
(* No copy of a session is ahead of the session *)

\* What the flush under way is writing is no newer than the live session, and
\* is not on its list a second time.
WriteIsBehind ==
    flush.phase = "write" =>
        flush.row <= live[flush.key] /\ flush.key \notin flush.todo

\* Needed for OnlyKnownRegressions alone: a shard that has caught up with the
\* live session is as new as anything that can be written over it.
BehindInv ==
    /\ process = "up" =>
           \A k \in Accounts :
               disk[k] <= live[k] /\ cache[k] <= live[k] /\ persisting[k] <= live[k]
    /\ process # "up" => \A k \in Accounts : persisting[k] = NoVersion
    /\ WriteIsBehind

LEMMA TurnIsBehind ==
    ASSUME NEW t \in SUBSET Accounts, NEW c \in [Accounts -> Versions],
           NEW l, \A k \in Accounts : c[k] <= l[k],
           NEW f \in Turn(t, c), f.phase = "write"
    PROVE  f.row <= l[f.key] /\ f.key \notin f.todo
<1>1. t # {}
  BY TurnOfNone DEF WritingIndex, Idle
<1>2. f.key \in t /\ f.row = c[f.key] /\ f.todo = t \ {f.key}
  BY <1>1, TurnOfSome
<1> QED
  BY <1>2

LEMMA BeginFlushIsBehind ==
    ASSUME NEW priority, NEW d \in SUBSET Accounts, NEW t,
           NEW c \in [Accounts -> Versions],
           BeginFlush(priority, d, t, c),
           \A k \in Accounts : c[k] <= live'[k],
           flush.phase = "write" =>
               flush.row <= live'[flush.key] /\ flush.key \notin flush.todo
    PROVE  WriteIsBehind'
<1>1. flush' = flush \/ flush' \in Turn(d, c)
  BY DEF BeginFlush
<1>2. CASE flush' \in Turn(d, c)
  BY <1>2, TurnIsBehind DEF WriteIsBehind
<1> QED
  BY <1>1, <1>2 DEF WriteIsBehind

LEMMA InitIsBehind ==
    ASSUME ShardAssumption, ShardInit
    PROVE  BehindInv
BY DEF ShardInit, BehindInv, WriteIsBehind, Idle, NoVersion

LEMMA FlushKeepsBehind ==
    ASSUME ShardAssumption, ShardInv, BehindInv, FlushStep
    PROVE  BehindInv'
<1>1. /\ flush \in Flushes /\ cache \in [Accounts -> Versions]
      /\ disk \in [Accounts -> Versions] /\ live \in [Accounts -> Versions]
  BY DEF ShardInv, ShardTypeOK
<1>2. process = "up" /\ UNCHANGED <<live, cache, persisting, process>>
  BY DEF FlushStep, RenameLands, AccountFlushed, FlushFails, IndexFlushed
<1>3. \A k \in Accounts :
          disk[k] <= live[k] /\ cache[k] <= live[k] /\ persisting[k] <= live[k]
  BY <1>2 DEF BehindInv
<1>4. CASE RenameLands
  <2>1. /\ flush.phase = "write" /\ flush'.phase = "landed"
        /\ disk' = [disk EXCEPT ![flush.key] = flush.row]
    BY <1>1, <1>4 DEF RenameLands, Flushes, Idle, WritingIndex
  <2>2. flush.row <= live[flush.key]
    BY <2>1 DEF BehindInv, WriteIsBehind
  <2>3. \A k \in Accounts : disk'[k] <= live[k]
    BY <1>1, <1>3, <2>1, <2>2
  <2> QED
    BY <1>2, <1>3, <2>1, <2>3 DEF BehindInv, WriteIsBehind
<1>5. CASE AccountFlushed
  <2>1. flush' \in Turn(flush.todo, cache) /\ disk' = disk
    BY <1>5 DEF AccountFlushed
  <2>2. flush.todo \in SUBSET Accounts
    BY <1>1, FlushTypes
  <2>3. WriteIsBehind'
    BY <1>1, <1>2, <1>3, <2>1, <2>2, TurnIsBehind DEF WriteIsBehind
  <2> QED
    BY <1>2, <1>3, <2>1, <2>3 DEF BehindInv
<1>6. CASE FlushFails \/ IndexFlushed
  <2>1. flush' = Idle /\ disk' = disk
    BY <1>6 DEF FlushFails, IndexFlushed, EndFlush
  <2> QED
    BY <1>2, <1>3, <2>1 DEF BehindInv, WriteIsBehind, Idle
<1> QED
  BY <1>4, <1>5, <1>6 DEF FlushStep

LEMMA StarterKeepsBehind ==
    ASSUME ShardAssumption, ShardInv, BehindInv,
           SoonFires \/ ResponseFinishes \/ \E k \in Accounts : TimerFires(k)
    PROVE  BehindInv'
<1>1. /\ dirty \in SUBSET Accounts /\ cache \in [Accounts -> Versions]
      /\ live \in [Accounts -> Versions]
  BY DEF ShardInv, ShardTypeOK
<1>2. PICK priority, t : BeginFlush(priority, dirty, t, cache)
  BY DEF SoonFires, ResponseFinishes, TimerFires
<1>3. process = "up" /\ UNCHANGED <<live, cache, disk, persisting, process>>
  BY DEF SoonFires, ResponseFinishes, TimerFires
<1>4. \A k \in Accounts : cache[k] <= live'[k]
  BY <1>3 DEF BehindInv
<1>5. flush.phase = "write" =>
          flush.row <= live'[flush.key] /\ flush.key \notin flush.todo
  BY <1>3 DEF BehindInv, WriteIsBehind
<1>6. WriteIsBehind'
  BY <1>1, <1>2, <1>4, <1>5, BeginFlushIsBehind
<1> QED
  BY <1>3, <1>6 DEF BehindInv

LEMMA UploadKeepsBehind ==
    ASSUME ShardAssumption, ShardInv, BehindInv, NEW k \in Accounts,
           UploadFlushedSync(k) \/ UploadLeftDirty(k) \/ UploadDeferred(k)
    PROVE  BehindInv'
<1>1. Saved(k) /\ process = "up" /\ UNCHANGED <<persisting, process>>
  BY DEF UploadFlushedSync, UploadLeftDirty, UploadDeferred, Saved
<1>2. /\ dirty \in SUBSET Accounts /\ flush \in Flushes
      /\ live \in [Accounts -> Versions] /\ cache \in [Accounts -> Versions]
      /\ disk \in [Accounts -> Versions]
      /\ persisting \in [Accounts -> Versions \cup {NoVersion}]
  BY DEF ShardInv, ShardTypeOK
<1>3. /\ live' \in [Accounts -> Versions] /\ cache' \in [Accounts -> Versions]
      /\ live'[k] \in Versions /\ cache'[k] = live'[k]
      /\ \A a \in Accounts \ {k} : live'[a] = live[a] /\ cache'[a] = cache[a]
  BY <1>1, SavedTypes
<1>4. \A a \in Accounts : live[a] <= live'[a] /\ live[a] \in Nat /\ live'[a] \in Nat
  <2>1. live'[k] = live[k] + 1
    BY <1>1, <1>2 DEF Saved
  <2> QED
    BY <1>2, <1>3, <2>1 DEF Versions
<1>5. \A a \in Accounts :
          disk[a] <= live[a] /\ cache[a] <= live[a] /\ persisting[a] <= live[a]
  BY <1>1 DEF BehindInv
<1>6. \A a \in Accounts : cache'[a] <= live'[a]
  <2> SUFFICES ASSUME NEW a \in Accounts
               PROVE  cache'[a] <= live'[a]
    OBVIOUS
  <2>1. CASE a = k
    BY <1>3, <1>4, <2>1
  <2>2. CASE a # k
    BY <1>3, <1>5, <2>2
  <2> QED
    BY <2>1, <2>2
<1>7. \A a \in Accounts : disk'[a] <= live'[a]
  <2> SUFFICES ASSUME NEW a \in Accounts
               PROVE  disk'[a] <= live'[a]
    OBVIOUS
  <2>1. disk' = disk \/ disk' = [disk EXCEPT ![k] = live'[k]]
    BY DEF UploadFlushedSync, UploadLeftDirty, UploadDeferred
  <2>2. disk'[a] = disk[a] \/ disk'[a] = live'[a]
    BY <1>2, <2>1
  <2>3. disk[a] \in Nat
    BY <1>2 DEF Versions
  <2> QED
    BY <1>4, <1>5, <2>2, <2>3
<1>8. \A a \in Accounts : persisting'[a] <= live'[a]
  <2> SUFFICES ASSUME NEW a \in Accounts
               PROVE  persisting[a] <= live'[a]
    BY <1>1
  <2>1. persisting[a] \in Int
    BY <1>2 DEF Versions, NoVersion
  <2> QED
    BY <1>4, <1>5, <2>1
<1>9. flush.phase = "write" =>
          flush.row <= live'[flush.key] /\ flush.key \notin flush.todo
  <2> SUFFICES ASSUME flush.phase = "write"
               PROVE  flush.row <= live'[flush.key] /\ flush.key \notin flush.todo
    OBVIOUS
  <2>1. flush.key \in Accounts /\ flush.row \in Nat
    BY <1>2, FlushTypes DEF Versions
  <2>2. flush.row <= live[flush.key] /\ flush.key \notin flush.todo
    BY DEF BehindInv, WriteIsBehind
  <2> QED
    BY <1>4, <2>1, <2>2
<1>10. WriteIsBehind'
  <2>1. CASE UploadDeferred(k)
    <3>1. BeginFlush(TRUE, dirty \cup {k}, timers \cup {k}, cache')
      BY <2>1 DEF UploadDeferred
    <3>2. dirty \cup {k} \in SUBSET Accounts
      BY <1>2
    <3> QED
      BY <1>3, <1>6, <1>9, <3>1, <3>2, BeginFlushIsBehind
  <2>2. CASE UploadFlushedSync(k) \/ UploadLeftDirty(k)
    <3>1. flush' = flush
      BY <2>2 DEF UploadFlushedSync, UploadLeftDirty
    <3> QED
      BY <1>9, <3>1 DEF WriteIsBehind
  <2> QED
    BY <2>1, <2>2
<1> QED
  BY <1>1, <1>6, <1>7, <1>8, <1>10 DEF BehindInv

LEMMA PersistKeepsBehind ==
    ASSUME ShardAssumption, ShardInv, BehindInv, NEW k \in Accounts,
           PersistReads(k) \/ PersistSaves(k)
    PROVE  BehindInv'
<1>1. /\ live \in [Accounts -> Versions] /\ cache \in [Accounts -> Versions]
      /\ persisting \in [Accounts -> Versions \cup {NoVersion}]
  BY DEF ShardInv, ShardTypeOK
<1>2. process = "up" /\ UNCHANGED <<live, disk, flush, process>>
  BY DEF PersistReads, PersistSaves, queueVars
<1>3. \A a \in Accounts :
          disk[a] <= live[a] /\ cache[a] <= live[a] /\ persisting[a] <= live[a]
  BY <1>2 DEF BehindInv
<1>4. \A a \in Accounts : live[a] \in Nat
  BY <1>1 DEF Versions
<1>5. \A a \in Accounts : cache'[a] \in {cache[a], persisting[a]}
  BY <1>1 DEF PersistReads, PersistSaves
<1>6. \A a \in Accounts : persisting'[a] \in {persisting[a], live[a], NoVersion}
  BY <1>1 DEF PersistReads, PersistSaves
<1>7. \A a \in Accounts : cache'[a] <= live[a] /\ persisting'[a] <= live[a]
  BY <1>3, <1>4, <1>5, <1>6 DEF NoVersion
<1> QED
  BY <1>2, <1>3, <1>7 DEF BehindInv, WriteIsBehind

LEMMA ProcessKeepsBehind ==
    ASSUME ShardAssumption, ShardInv, BehindInv,
           LagChange \/ Crash \/ Shutdown \/ Restart
    PROVE  BehindInv'
<1>1. CASE LagChange
  BY <1>1 DEF LagChange, queueVars, BehindInv, WriteIsBehind
<1>2. CASE Crash \/ Shutdown
  <2>1. /\ process' # "up" /\ flush' = Idle
        /\ persisting' = [k \in Accounts |-> NoVersion]
    BY <1>2 DEF Crash, Shutdown, Exit
  <2> QED
    BY <2>1 DEF BehindInv, WriteIsBehind, Idle
<1>3. CASE Restart
  <2>1. /\ process # "up" /\ process' = "up" /\ live' = disk /\ cache' = disk
        /\ UNCHANGED <<disk, flush, persisting>>
    BY <1>3 DEF Restart, queueVars
  <2>2. flush' = Idle
    BY <2>1 DEF ShardInv, DownIsIdle
  <2>3. \A k \in Accounts : disk[k] \in Nat
    BY DEF ShardInv, ShardTypeOK, Versions
  <2>4. \A k \in Accounts : persisting[k] = -1
    BY <2>1 DEF BehindInv, NoVersion
  <2>5. \A k \in Accounts :
            disk'[k] <= live'[k] /\ cache'[k] <= live'[k] /\ persisting'[k] <= live'[k]
    BY <2>1, <2>3, <2>4
  <2> QED
    BY <2>1, <2>2, <2>5 DEF BehindInv, WriteIsBehind, Idle
<1> QED
  BY <1>1, <1>2, <1>3

LEMMA NextKeepsBehind ==
    ASSUME ShardAssumption, ShardInv, BehindInv, [ShardNext]_shardVars
    PROVE  BehindInv'
<1>1. CASE FlushStep
  BY <1>1, FlushKeepsBehind
<1>2. CASE SoonFires \/ ResponseFinishes \/ \E k \in Accounts : TimerFires(k)
  BY <1>2, StarterKeepsBehind
<1>3. CASE \E k \in Accounts :
              UploadFlushedSync(k) \/ UploadLeftDirty(k) \/ UploadDeferred(k)
  BY <1>3, UploadKeepsBehind
<1>4. CASE \E k \in Accounts : PersistReads(k) \/ PersistSaves(k)
  BY <1>4, PersistKeepsBehind
<1>5. CASE LagChange \/ Crash \/ Shutdown \/ Restart
  BY <1>5, ProcessKeepsBehind
<1>6. CASE UNCHANGED shardVars
  BY <1>6 DEF shardVars, queueVars, BehindInv, WriteIsBehind
<1> QED
  BY <1>1, <1>2, <1>3, <1>4, <1>5, <1>6 DEF ShardNext

-----------------------------------------------------------------------------
(* The theorems *)

\* The inductive invariant holds in every reachable state.
THEOREM ShardInvariance == ShardSpec => []ShardInv
<1>1. ShardInit => ShardInv
  BY InitInv, ShardAssumption
<1>2. ShardInv /\ [ShardNext]_shardVars => ShardInv'
  BY NextInv, ShardAssumption
<1> QED
  BY <1>1, <1>2, PTL DEF ShardSpec

\* Every variable of the session store keeps its type, for any accounts.
THEOREM ShardTypesHold == ShardSpec => []ShardTypeOK
<1>1. ShardInv => ShardTypeOK
  BY DEF ShardInv
<1> QED
  BY <1>1, ShardInvariance, PTL

\* flushDirtyAccountsAsync and its callers never leave a dirty account without
\* a timer, an immediate or a running flush that will look at it.
THEOREM DirtyAlwaysScheduled == ShardSpec => []DirtyIsScheduled
<1>1. ShardInv => DirtyIsScheduled
  BY DEF ShardInv
<1> QED
  BY <1>1, ShardInvariance, PTL

\* With any number of accounts and uploads, a session that is not on disk is on
\* its way there unless one of the three known hazards has hit it.
THEOREM LossesAreKnown == ShardSpec => []OnlyKnownLosses
<1>1. ShardInv => OnlyKnownLosses
  <2> SUFFICES ASSUME ShardInv, process = "up", NEW k \in Accounts \ exposed
               PROVE  disk[k] = live[k] \/ k \in dirty \cup InFlush
    BY DEF OnlyKnownLosses
  <2>1. Tracked(k)
    BY DEF ShardInv, Safe
  <2>2. k # NoAccount
    BY ShardAssumption DEF ShardAssumption
  <2> QED
    BY <2>1, <2>2 DEF Tracked, InFlush
<1> QED
  BY <1>1, ShardInvariance, PTL

\* No copy of a session, in the cache, on disk or on its way there, is ahead of
\* the live session.
THEOREM NothingIsAhead == ShardSpec => []BehindInv
<1>1. ShardInit => BehindInv
  BY InitIsBehind, ShardAssumption
<1>2. ShardInv /\ BehindInv /\ [ShardNext]_shardVars => BehindInv'
  BY NextKeepsBehind, ShardAssumption
<1> QED
  BY <1>1, <1>2, ShardInvariance, PTL DEF ShardSpec

\* With any number of accounts and uploads, the shard of an account goes back to
\* an older version only if a known hazard has hit the account or it is dirty.
THEOREM RegressionsAreKnown == ShardSpec => OnlyKnownRegressions
<1>1. ASSUME ShardInv, BehindInv, [ShardNext]_shardVars,
             NEW k \in Accounts, disk'[k] < disk[k]
      PROVE  k \in exposed \cup dirty
  <2>1. /\ disk \in [Accounts -> Versions] /\ live \in [Accounts -> Versions]
        /\ flush \in Flushes
    BY <1>1 DEF ShardInv, ShardTypeOK
  <2>2. disk[k] \in Nat /\ disk'[k] # disk[k]
    BY <1>1, <2>1 DEF Versions
  <2>3. CASE \E a \in Accounts : UploadFlushedSync(a)
    <3>1. PICK a \in Accounts : UploadFlushedSync(a)
      BY <2>3
    <3>2. process = "up" /\ live'[a] = live[a] + 1 /\ disk' = [disk EXCEPT ![a] = live'[a]]
      BY <2>1, <3>1 DEF UploadFlushedSync, Saved
    <3>3. a = k /\ disk'[k] = live[k] + 1
      BY <2>1, <2>2, <3>2
    <3>4. disk[k] <= live[k] /\ live[k] \in Nat
      BY <2>1, <3>2, <1>1 DEF BehindInv, Versions
    <3> QED
      BY <1>1, <2>2, <3>3, <3>4
  <2>4. CASE RenameLands
    <3>1. process = "up" /\ flush.phase = "write" /\ disk' = [disk EXCEPT ![flush.key] = flush.row]
      BY <2>4 DEF RenameLands
    <3>2. flush.key = k /\ disk'[k] = flush.row
      BY <2>1, <2>2, <3>1
    <3>3. k \notin flush.todo /\ disk[k] <= live[k]
      BY <1>1, <3>1, <3>2 DEF BehindInv, WriteIsBehind
    <3>4. SUFFICES ASSUME k \notin exposed
                   PROVE  k \in dirty
      OBVIOUS
    <3>5. Tracked(k)
      BY <1>1, <3>1, <3>4 DEF ShardInv, Safe
    <3>6. k \in dirty \/ flush.row = live[k]
      BY <3>1, <3>2, <3>3, <3>5 DEF Tracked
    <3> QED
      BY <1>1, <2>1, <2>2, <3>2, <3>3, <3>6 DEF Versions
  <2>5. ~RenameLands /\ ~(\E a \in Accounts : UploadFlushedSync(a)) => disk' = disk
    BY <1>1 DEF ShardNext, FlushStep, AccountFlushed, FlushFails, IndexFlushed, SoonFires,
                ResponseFinishes, TimerFires, UploadLeftDirty, UploadDeferred,
                PersistReads, PersistSaves, LagChange, Crash, Shutdown, Exit, Restart,
                shardVars
  <2> QED
    BY <2>2, <2>3, <2>4, <2>5
<1>2. ShardInv /\ BehindInv /\ [ShardNext]_shardVars =>
          [\A k \in Accounts : disk'[k] < disk[k] => k \in exposed \cup dirty]_shardVars
  BY <1>1
<1> QED
  BY <1>2, ShardInvariance, NothingIsAhead, PTL DEF ShardSpec, OnlyKnownRegressions
=============================================================================
