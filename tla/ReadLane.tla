------------------------------ MODULE ReadLane ------------------------------
(***************************************************************************)
(* How a precomputed snapshot reaches a browser: the rows that             *)
(* deng-tracker-worker writes with site/src/fishitPrecomputeStore.js, and  *)
(* the read process of site/src/trackerReadApp.js, which answers from a    *)
(* copy of them in memory.  The copy is loaded once, in batches, and then  *)
(* kept up to date by asking for the rows stamped at or after the newest   *)
(* stamp it has met; a request for a row it lacks fetches that row alone.  *)
(*                                                                         *)
(* The read process is one JavaScript thread, but a refresh asks the       *)
(* database several questions, and the worker may commit between any two.  *)
(* A write is stamped when it is prepared and may have to wait for the     *)
(* database's lock before it is committed; while ownership passes from one *)
(* worker to another, two of them may be writing.                          *)
(*                                                                         *)
(* Abstractions: the commits of a row are numbered; a body and a presence  *)
(* record are the number of the commit that brought them, and HashOf tells *)
(* which bodies have the same content and hence the same hash, for an      *)
(* inventory may return to what it was.  The aliases by user id, the       *)
(* fallback to the website and what is derived from a presence record when *)
(* it is served are left out.                                              *)
(***************************************************************************)
EXTENDS Integers, FiniteSets

CONSTANTS
    N,          \* accounts, numbered in the order of session_key
    Viewed,     \* accounts whose page some browser keeps polling
    Workers,    \* worker processes that may be writing
    BatchSize,  \* TRACKER_READ_WARM_BATCH
    HashOf,     \* the hash, that is the content, of each numbered body
    MaxCommits, \* bound: commits of a row
    MaxOf,      \* bound: commits of the row of each account, at most MaxCommits
    MaxClock    \* bound: how far the clock of the stamps goes

Accounts == 1..N

ASSUME ReadAssumption ==
    /\ N \in Nat \ {0}
    /\ Viewed \subseteq Accounts
    /\ IsFiniteSet(Workers)
    /\ BatchSize \in Nat \ {0}
    /\ MaxCommits \in Nat
    /\ MaxOf \in [Accounts -> 0..MaxCommits]
    /\ HashOf \in [0..MaxCommits -> Nat]
    /\ \A n \in 1..MaxCommits : HashOf[n] # HashOf[0]
    /\ MaxClock \in Nat \ {0}

VARIABLES
    clock,      \* the time, as far as stamps can tell
    row,        \* tracker_latest_snapshots: body and hash, presence, stamp
    writing,    \* what each worker is about to commit
    cache,      \* cacheByKey: body, the hash it is labelled with, presence
    watermark,  \* cacheMaxPrecomputedAt
    probe,      \* what the refresh under way has still to go through
    warm,       \* the warm load
    shown,      \* what the browser holds, label and all
    overtaken,  \* ghost: cached accounts hit by a known way to miss a commit
    raced       \* ghost: accounts committed between two queries of a refresh

databaseVars == <<clock, row, writing>>
readVars == <<databaseVars, cache, watermark, probe, warm, shown, overtaken, raced>>

NoRow == [body |-> 0, presence |-> 0, at |-> 0]
NoEntry == [body |-> 0, label |-> HashOf[0], presence |-> 0]
NoWrite == [account |-> 0, at |-> 0]
NoProbe == [k \in {} |-> NoRow]

Commits == 0..MaxCommits
Rows == [body : Commits, presence : Commits, at : 0..clock]
Entries == [body : Commits, label : Nat, presence : Commits]

ReadTypeOK ==
    /\ clock \in 1..MaxClock
    /\ row \in [Accounts -> Rows]
    /\ writing \in [Workers -> [account : 0..N, at : 0..clock]]
    /\ cache \in [Accounts -> Entries]
    /\ watermark \in 0..clock
    /\ DOMAIN probe \subseteq Accounts
    /\ \A k \in DOMAIN probe : probe[k] \in Rows
    /\ warm \in [phase : {"boot", "load", "done"}, offset : Nat, total : Nat]
    /\ shown \in [Accounts -> Entries]
    /\ overtaken \subseteq Accounts
    /\ raced \subseteq Accounts

Boot == [phase |-> "boot", offset |-> 0, total |-> 0]

ReadInit ==
    /\ clock = 1
    /\ row = [k \in Accounts |-> NoRow]
    /\ writing = [w \in Workers |-> NoWrite]
    /\ cache = [k \in Accounts |-> NoEntry]
    /\ watermark = 0
    /\ probe = NoProbe
    /\ warm = Boot
    /\ shown = [k \in Accounts |-> NoEntry]
    /\ overtaken = {}
    /\ raced = {}

Stored(k) == row[k].body > 0
Cached(k) == cache[k].body > 0

\* ingestRow of a row as it stands.  The presence record is preferred to the
\* presence baked into the body.
EntryOf(r) == [body |-> r.body, label |-> HashOf[r.body], presence |-> r.presence]

\* The label is that of the body: what the browser is told to go by.
Honest(e) == e.label = HashOf[e.body]

\* The entry serves the content and the presence that are stored.
Current(k) ==
    /\ HashOf[cache[k].body] = HashOf[row[k].body]
    /\ cache[k].label = HashOf[row[k].body]
    /\ cache[k].presence = row[k].presence

-----------------------------------------------------------------------------
(* The workers: precomputeOne and sweepPresence *)

TimePasses ==
    /\ clock < MaxClock
    /\ clock' = clock + 1
    /\ UNCHANGED <<row, writing, cache, watermark, probe, warm, shown, overtaken, raced>>

\* upsertLatest and updatePresence take the time before their statement runs.
PrepareWrite(w, k) ==
    /\ writing[w] = NoWrite
    /\ row[k].presence + Cardinality({v \in Workers : writing[v].account = k}) < MaxOf[k]
    /\ writing' = [writing EXCEPT ![w] = [account |-> k, at |-> clock]]
    /\ UNCHANGED <<clock, row, cache, watermark, probe, warm, shown, overtaken, raced>>

\* A stamp the refresh has passed, or is about to pass.
TooLate(at) == at < watermark \/ \E j \in DOMAIN probe : at < probe[j].at

\* A commit on account k.
Committed(w, k, r) ==
    /\ row' = [row EXCEPT ![k] = r]
    /\ writing' = [writing EXCEPT ![w] = NoWrite]
    /\ overtaken' = IF TooLate(r.at) /\ (Cached(k) \/ k \in DOMAIN probe)
                    THEN overtaken \cup {k} ELSE overtaken \ {k}
    /\ UNCHANGED <<clock, cache, watermark, probe, warm, shown, raced>>

\* upsertLatest, called when the hash of the body built is not the one stored.
CommitSnapshot(w, k) ==
    /\ writing[w].account = k
    /\ row[k].presence < MaxOf[k]
    /\ LET n == row[k].presence + 1
       IN  /\ HashOf[n] # HashOf[row[k].body]
           /\ Committed(w, k, [body |-> n, presence |-> n, at |-> writing[w].at])

\* updatePresence, called when the hash is the one stored, for a stale body,
\* or by the sweep.
CommitPresence(w, k) ==
    /\ writing[w].account = k
    /\ Stored(k)
    /\ row[k].presence < MaxOf[k]
    /\ Committed(w, k, [row[k] EXCEPT !.presence = @ + 1, !.at = writing[w].at])

\* There is no row to update, or the database is locked for too long.
WriteComesToNothing(w) ==
    /\ writing[w] # NoWrite
    /\ writing' = [writing EXCEPT ![w] = NoWrite]
    /\ UNCHANGED <<clock, row, cache, watermark, probe, warm, shown, overtaken, raced>>

-----------------------------------------------------------------------------
(* The read process: loading rows *)

\* No refresh is between two of its queries.
Idle == DOMAIN probe = {}

\* Mutant: the presence baked into the body is used.
IngestBaked(S) ==
    /\ cache' = [k \in Accounts |->
                   IF k \in S THEN [EntryOf(row[k]) EXCEPT !.presence = row[k].body]
                   ELSE cache[k]]
    /\ watermark' \in {watermark} \cup {row[k].at : k \in S}
    /\ \A k \in S : watermark' >= row[k].at
    /\ watermark' >= watermark
    /\ overtaken' = (overtaken \ S) \cup
                    {j \in Accounts \ S : Cached(j) /\ ~Current(j) /\ row[j].at < watermark'}

\* ingestRow for the rows of one query.  The watermark may pass the stamp of
\* a cached row which was not among them and has changed since it was cached:
\* the next refresh would have asked for it and no longer does.
Ingest(S) ==
    /\ cache' = [k \in Accounts |-> IF k \in S THEN EntryOf(row[k]) ELSE cache[k]]
    /\ watermark' \in {watermark} \cup {row[k].at : k \in S}
    /\ \A k \in S : watermark' >= row[k].at
    /\ watermark' >= watermark
    /\ overtaken' = (overtaken \ S) \cup
                    {j \in Accounts \ S : Cached(j) /\ ~Current(j) /\ row[j].at < watermark'}

\* warmLoadCache
WarmStart ==
    /\ Idle /\ warm.phase = "boot"
    /\ LET total == Cardinality({k \in Accounts : Stored(k)})
       IN  warm' = [phase |-> IF total = 0 THEN "done" ELSE "load",
                    offset |-> 0, total |-> total]
    /\ UNCHANGED <<databaseVars, cache, watermark, probe, shown, overtaken, raced>>

\* ORDER BY session_key LIMIT BatchSize OFFSET offset
Batch(offset) ==
    {k \in Accounts : /\ Stored(k)
                      /\ Cardinality({j \in 1..(k - 1) : Stored(j)})
                            \in offset..(offset + BatchSize - 1)}

WarmBatch ==
    /\ Idle /\ warm.phase = "load"
    /\ LET batch == Batch(warm.offset)
           next == warm.offset + Cardinality(batch)
       IN  /\ Ingest(batch)
           /\ warm' = [warm EXCEPT
                         !.offset = next,
                         !.phase = IF Cardinality(batch) >= BatchSize /\ next < warm.total
                                   THEN "load" ELSE "done"]
    /\ UNCHANGED <<databaseVars, probe, shown, raced>>

\* A query of the warm load fails: what is missing is left to requests and to
\* the refresh.
WarmGivesUp ==
    /\ Idle /\ warm.phase # "done"
    /\ warm' = [warm EXCEPT !.phase = "done"]
    /\ UNCHANGED <<databaseVars, cache, watermark, probe, shown, overtaken, raced>>

-----------------------------------------------------------------------------
(* The read process: refreshCache *)

\* Mutant: rows with the very stamp of the watermark are not asked for.
ProbedAfter(at) == {k \in Accounts : Stored(k) /\ row[k].at > at}

\* getChangedMetaSince
Probed(at) == {k \in Accounts : Stored(k) /\ row[k].at >= at}

RefreshProbe ==
    /\ Idle
    /\ Probed(watermark) # {}
    /\ probe' = [k \in Probed(watermark) |-> row[k]]
    /\ UNCHANGED <<databaseVars, cache, watermark, warm, shown, overtaken, raced>>

\* Mutant: the watermark goes past the stamp, lest the row be asked for again.
PassedBeyond(k) ==
    /\ probe' = [j \in DOMAIN probe \ {k} |-> probe[j]]
    /\ watermark' = IF probe[k].at >= watermark THEN probe[k].at + 1 ELSE watermark

\* The account is done with, and the watermark has reached its stamp.
Passed(k) ==
    /\ probe' = [j \in DOMAIN probe \ {k} |-> probe[j]]
    /\ watermark' = IF probe[k].at > watermark THEN probe[k].at ELSE watermark

HasNewBody(k) == ~Cached(k) \/ cache[k].label # HashOf[probe[k].body]

\* Mutant: a heartbeat that left the body as it was is not taken over.
RefreshSkipsPresence(k) ==
    /\ k \in DOMAIN probe
    /\ ~HasNewBody(k)
    /\ Passed(k)
    /\ overtaken' = IF ~Honest(cache[k]) THEN overtaken \cup {k}
                    ELSE IF row[k] = probe[k] THEN overtaken \ {k} ELSE overtaken
    /\ UNCHANGED <<databaseVars, cache, warm, shown, raced>>

\* The hash is the one the entry is labelled with: the presence is taken over.
\* If the label is not that of the body, the body stays wrong.
RefreshKeepsBody(k) ==
    /\ k \in DOMAIN probe
    /\ ~HasNewBody(k)
    /\ cache' = [cache EXCEPT ![k].presence = probe[k].presence]
    /\ Passed(k)
    /\ overtaken' = IF ~Honest(cache[k]) THEN overtaken \cup {k}
                    ELSE IF row[k] = probe[k] THEN overtaken \ {k} ELSE overtaken
    /\ UNCHANGED <<databaseVars, warm, shown, raced>>

\* getJsonByKey: the body is the one stored by now, the hash and the presence
\* those of the probe.
RefreshPullsBody(k) ==
    /\ k \in DOMAIN probe
    /\ HasNewBody(k)
    /\ cache' = [cache EXCEPT ![k] = [body |-> row[k].body,
                                      label |-> HashOf[probe[k].body],
                                      presence |-> probe[k].presence]]
    /\ Passed(k)
    /\ overtaken' = IF row[k] = probe[k] THEN overtaken \ {k} ELSE overtaken
    /\ raced' = IF row[k].body = probe[k].body THEN raced ELSE raced \cup {k}
    /\ UNCHANGED <<databaseVars, warm, shown>>

\* Mutant: the entry gets the new hash although the body did not come.
PullFailsRelabelled(k) ==
    /\ k \in DOMAIN probe
    /\ HasNewBody(k)
    /\ cache' = IF Cached(k)
                THEN [cache EXCEPT ![k].presence = probe[k].presence,
                                   ![k].label = HashOf[probe[k].body]]
                ELSE cache
    /\ Passed(k)
    /\ overtaken' = IF Cached(k) THEN overtaken \cup {k} ELSE overtaken
    /\ UNCHANGED <<databaseVars, warm, shown, raced>>

\* The query for the body fails: the row is passed as if it had not changed.
PullFails(k) ==
    /\ k \in DOMAIN probe
    /\ HasNewBody(k)
    /\ cache' = IF Cached(k) THEN [cache EXCEPT ![k].presence = probe[k].presence]
                ELSE cache
    /\ Passed(k)
    /\ overtaken' = IF Cached(k) THEN overtaken \cup {k} ELSE overtaken
    /\ UNCHANGED <<databaseVars, warm, shown, raced>>

-----------------------------------------------------------------------------
(* The read process: servePrecomputed *)

\* Mutant: a full answer carries the presence baked into the body.
ReplyBaked(k, e) ==
    shown' = IF k \notin Viewed THEN shown
             ELSE IF shown[k].label = e.label
             THEN [shown EXCEPT ![k].presence = e.presence]
             ELSE [shown EXCEPT ![k] = [e EXCEPT !.presence = e.body]]

\* A browser that holds the body with this label is told that it is unchanged
\* and given the presence alone.
Reply(k, e) ==
    shown' = IF k \notin Viewed THEN shown
             ELSE IF shown[k].label = e.label
             THEN [shown EXCEPT ![k].presence = e.presence]
             ELSE [shown EXCEPT ![k] = e]

ServeCached(k) ==
    /\ Idle /\ Cached(k)
    /\ Reply(k, cache[k])
    /\ UNCHANGED <<databaseVars, cache, watermark, probe, warm, overtaken, raced>>

\* hydrateCacheMiss
ServeMiss(k) ==
    /\ Idle /\ ~Cached(k) /\ Stored(k)
    /\ Ingest({k})
    /\ Reply(k, EntryOf(row[k]))
    /\ UNCHANGED <<databaseVars, probe, warm, raced>>

\* pm2 restarts the read process.
ReadRestart ==
    /\ cache' = [k \in Accounts |-> NoEntry]
    /\ watermark' = 0
    /\ probe' = NoProbe
    /\ warm' = Boot
    /\ overtaken' = {}
    /\ UNCHANGED <<databaseVars, shown, raced>>

-----------------------------------------------------------------------------
WorkerStep(w) ==
    \/ \E k \in Accounts : PrepareWrite(w, k) \/ CommitSnapshot(w, k) \/ CommitPresence(w, k)
    \/ WriteComesToNothing(w)

RefreshRow(k) == RefreshKeepsBody(k) \/ RefreshPullsBody(k) \/ PullFails(k)

ReadNext ==
    \/ TimePasses
    \/ \E w \in Workers : WorkerStep(w)
    \/ WarmStart \/ WarmBatch \/ WarmGivesUp
    \/ RefreshProbe
    \/ \E k \in Accounts : RefreshRow(k) \/ ServeCached(k) \/ ServeMiss(k)
    \/ ReadRestart

ReadSpec == ReadInit /\ [][ReadNext]_readVars

\* The refresh timer keeps firing and its queries return.
FairReadSpec ==
    /\ ReadSpec
    /\ WF_readVars(RefreshProbe)
    /\ \A k \in Accounts : WF_readVars(RefreshRow(k))

-----------------------------------------------------------------------------
(* Properties *)

(* A body is never labelled with the hash of another content, in the cache *)
(* or in a browser, unless a commit once came between the probe of a       *)
(* refresh and its query for the body.  A browser asks with its label and, *)
(* if that is the hash of the entry, is told to keep what it has ("when    *)
(* the caller already holds this exact snapshot").                         *)
LabelsAreHonest ==
    \A k \in Accounts \ raced : Honest(cache[k]) /\ Honest(shown[k])

(* "Boundary rows are re-fetched (>=) so no change is missed": a cached    *)
(* account that differs from its row is one the next refresh asks for, or  *)
(* the refresh under way is still to go through, unless one of four        *)
(* hazards has hit it: a warm batch or a request for another account moved *)
(* the watermark past its stamp, the query for its body failed, its commit *)
(* came after the refresh had passed its stamp, or its wrongly labelled    *)
(* body was kept because the row had returned to the hash of the label.    *)
OnlyKnownMisses ==
    \A k \in Accounts \ overtaken :
        Cached(k) => \/ Current(k)
                     \/ row[k].at >= watermark
                     \/ k \in DOMAIN probe

(* What a browser shows of an account never goes back to an older body or  *)
(* an older presence, across refreshes, warm batches, misses and restarts  *)
(* of the read process.                                                    *)
ShownNeverGoesBack ==
    [][\A k \in Accounts : /\ shown'[k].body >= shown[k].body
                           /\ shown'[k].presence >= shown[k].presence]_readVars

(* The browser trails the database, body and presence each by itself: both *)
(* only advance there, and the browser never shows what is not yet stored  *)
(* nor anything older than it showed, whichever copy in between it came    *)
(* from.                                                                   *)
Bodies == INSTANCE TrailingCopy
              WITH Things <- Accounts,
                   source <- [k \in Accounts |-> row[k].body],
                   copy <- [k \in Accounts |-> shown[k].body]
Presences == INSTANCE TrailingCopy
                 WITH Things <- Accounts,
                      source <- [k \in Accounts |-> row[k].presence],
                      copy <- [k \in Accounts |-> shown[k].presence]
ShownTrails == Bodies!TrailSpec /\ Presences!TrailSpec

(* A cached account that has fallen behind its row catches up, unless a    *)
(* known hazard hits it or the process is restarted.                       *)
CacheCatchesUp ==
    \A k \in Accounts :
        Cached(k) /\ ~Current(k) ~> Current(k) \/ k \in overtaken \/ ~Cached(k)
=============================================================================
