# A verification model of the DENG Rejoin services

TLA+ specifications, model-checking configurations and machine-checked proofs
for the parts of this repository whose correctness depends on the order in which
things happen. Every definition is translated from the source; `PROJECT.json`
gives, for each, the file and the lines.

## 1. The system

The repository holds a Termux agent that keeps Roblox clients running
(`agent/`), a Discord bot and licence API (`bot/`), and a Node site (`site/`)
made of several processes:

| process | entry | role |
| --- | --- | --- |
| deng-portal-license (8790) | `site/server.js` | portal, sign-in, licences, key generation |
| deng-tracker-site (8791) | `site/tracker-site-server.js` | public tracker pages |
| deng-tracker-ingest (8792, up to six workers) | `site/tracker-ingest-server.js` | uploads of the in-game tracker |
| deng-tracker-read (8793), deng-tracker-worker | | read API and precomputation |

The processes share the session directory (one JSON shard per account), the
OAuth-state directory and the Supabase database; they share no memory.

### Inventory

| component | state | operations | hard behaviour | what makes it correct |
| --- | --- | --- | --- | --- |
| deferred enrichment gate `trackerConcurrencyGate.js` | pending job per account, in-flight set, wait queue and its set, active counter; event-loop lag and heap | schedule, start, run, finish, drain tick | every callback may interleave; load moves between two checks of one call; promises settle late | slots never leak, no job is stranded, backlog bounded, latest snapshot wins, nothing starts under heavy lag, backlog drains |
| upload route `trackerUploadCoalesce.js`, `fishitTrackerRoutes.js`, `trackerUploadSafeHandler.js` | lane hashes, `liveTrackDB`, replies | coalesce, 503, handle, schedule enrichment and audits | retries, sessions replaced under a queued job, handler failure halfway | the newest accepted snapshot is enriched, enrichment never goes back, what is "accepted" is stored |
| sharded store `fishitSessionStoreSharded.js` | account cache, dirty set, timers, flush in flight, shards on disk | save, sync flush, async flush, retry, shutdown, load | sync write against async write, failure in mid-flush, deferral under lag, crash, stop | dirty data is always scheduled, no unexplained difference between memory and disk, shards do not regress |
| shard readers and ingest cluster `trackerIngestCluster.js`, `fishitSessionStoreSharded.js` | per-process caches, shard mtimes | incremental reload and merge | several writers, stale caches, mtime tolerance | a reader converges, a merge never goes back |
| precompute store and read lane `fishitPrecomputeStore.js`, `trackerWorkerApp.js`, `trackerReadApp.js` | rows with a body, its hash, a presence record and a stamp; the read process's copy, its watermark, the warm load; the worker's lock file | upsert, presence update, warm load, probe and pull, cache miss, conditional answer; take and test the lock | commits between the queries of one refresh, stamps taken before a write that waits, failed queries, contents that return, two workers at a hand-over | a copy converges, a label is that of its body, a browser never goes back, one worker writes |
| key generation `challenge.js`, `licenseService.js` | challenge rows, licence keys, 8 s look-up cache, per-user lock | start or resume attempt, supersede, provider callback, complete and generate, cooldown | attempts replaced while a callback completes them, stale look-ups, insert timing out and landing late, failure or restart between key and finalisation | one unredeemed key per user, no key without an ad, an ad is paid out at most once |
| portal sign-in `oauthStateStore.js`, `aioSessionStore.js`, `sessionStore.js` | files | create, consume, prune | read-then-unlink between processes | a state is consumed once |
| dataset cache `aioDatasetCache.js` | built value, build in flight | get, force, invalidate | overlapping builds finishing out of order | an invalidated build is not served as fresh |
| agent lock and launch scheduler `lockfile.py`, `launch_scheduler.py` | lock file, schedule rows, worker threads | acquire, fire, re-anchor, join | two agents, hung workers | one agent, each package launched once per slot |
| agent supervision `supervisor.py`, `checking_system.py`, `checker_pointer.py`, `rjn_lifecycle_monitor.py` | a status and a monitor row per package, the checker pointer, the recovery queue, launch counts and throttles | detect, focus, queue, relaunch, fail, sleep a throttle out; mark a missing process | the dead lane commits beside the watchdog, verdicts are taken for all packages and applied one by one, a recovery is refused, fails or its client dies at once | the relay is always handed back, no package is queued twice or relaunched without end, none that is down is left alone |
| licence bot, catalogues, mobile apps, installers | | | see section 8 | |

Interactions: a tracker upload passes the coalescing middleware, the 503 gate
and `handleUpdateBackpack`, which replaces the account's session in
`liveTrackDB`, hands a job to the enrichment gate and saves the session to the
store; the job, later, enriches the snapshot and saves the session again. All of
it runs on one JavaScript thread: each callback is atomic, anything may happen
between two of them, and only the file operations of an asynchronous flush run
beside it.

## 2. Plan

Done:

1. `EnrichmentGate`, with the abstract `LatestWinsMailbox` it implements: checked, proved.
2. `UploadPipeline`, the route composed with the gate: checked, proved.
3. `SessionShards`, the writer side of the store: checked, proved.
4. `KeyGeneration`, one user's attempts, callbacks and keys over a database that
   fails and answers late, with the abstract `AdLedger` it implements: checked, its
   safety and the refinement proved.
5. `RecoveryRelay`, the agent's watchdog, its recovery queue and the dead lane
   beside it, with the abstract `RecoveryDesk` they implement: checked, its safety
   and the refinement proved.
6. `ReadLane`, from the worker's rows to a browser: checked, its safety proved.
7. `TrailingCopy`, an abstract copy that follows its source, implemented by the
   enrichments of `UploadPipeline` and by what a browser shows in `ReadLane`:
   checked, both refinements proved.

To do, in this order:

8. `WorkerLease`: the lock file that is to keep the tracker worker single, read and
   then written by two processes and tested at the start of a tick only; composed
   with `ReadLane`, whose `Workers` it would restrict.
9. `ReaderMerge`: several stores over one directory, the incremental reader.
10. `DatasetCache`, `OAuthState`, `AgentLock`: small protocols over shared files
    and promises.

## 3. Modules

`EnrichmentGate` - one variable per collection of `trackerConcurrencyGate.js`.
`Schedule` is `scheduleDeferredUploadWork` and its four ways out (`Reject`,
`ReplaceBehindRunning`, `StartAtOnce`, `QueueUp`); `RunToCompletion` and
`RunAsync` are the `setImmediate` callback of `startDeferredJob`, `Settle` the
handlers of the job's promise; `FinishDeferred` is part of whichever of them ends
the job, and `TryStart`, the loop of `tryStartDeferredWork`, part of every action
that calls it: it pops any prefix the loop's conditions allow. The lag is the
index of the highest threshold it has reached. The heap ratio is computed anew at
every check and may fall on either side of its limit while `heapTight` holds.

`LatestWinsMailbox` - what the gate promises: one slot and one worker for each
account. It knows neither queue nor load.

`UploadPipeline` - extends the gate with the route. `Coalesce`, `Busy503`,
`Handle` and `HandlerThrows` are the ways a POST can go; `Rebuilt` is the session
rebuilt by `handleUpdateBackpack` with its `deferredSnapshotSeq`; `Enrich`,
`EndWithoutEnriching` and `Audit` are what the gate's callback runs; jobs are the
values their closures capture. In an ingest process the refresh of the
owners' datasets after an upload returns at once (`scheduleAioTrackerCacheRefresh`),
and is left out.

`SessionShards` - `live` is `liveTrackDB`, `cache` the store's account cache,
`disk` the shards. `BeginFlush` is `flushDirtyAccountsAsync` up to its first
await, and is part of every action that calls it; `RenameLands`,
`AccountFlushed`, `IndexFlushed` and `FlushFails` are its continuation, one for
each point where the thread may do something else. `UploadFlushedSync`,
`UploadLeftDirty` and `UploadDeferred` are the ends of `persistSessionHeartbeat`;
`PersistReads` and `PersistSaves` the two halves of `persistSessionState`. The
ghost `exposed` names the accounts that one of three known hazards has hit since
they were last saved.

`KeyGeneration` - `status`, `keyOf` and `cooling` are the columns of
`license_ad_challenges`, `keys` the rows of `license_keys`. Every action is one
database call and the code up to the next. `StartLooks` and `StartAllowed` are
`getLicenseGenerationEligibility`, `CleanUp` to `MarkPending` the rest of
`executeProviderRedirect` and `startFreshProviderAttempt`, `PageCleansUp` to
`PageCreates` are `handleKeyStart` and `findOrCreateResumableChallenge`; `start`
and `older` are where each of these handlers stands. `LoadAttempt` is
`resolveProviderChallenge`; `Join`, `Enter` and `Leave` are `withGenerationLock`,
with `tail` for the user's entry in `GENERATION_LOCKS` and `ahead` for the promise
a callback awaits; `Check` to `FinalizeFails` are `completeAdAndGenerateKey`. The
portal is one process, the only one that serves these routes (8791 forwards them),
so the lock and the cache are not split. The entry of `portalLicenseCache` all these
handlers read is the one of `limit: 500`. Their own look-ups fill it in one step: in
the lock nothing can come between the reading and the caching. Those of pages
(`/license`, `/api/license/eligibility`), which also go on after their handler has
given them up, do it in two (`PageReads`, `PageStores`, with `reading` in between), so
an answer may be cached long after it was read. `completed_at` is taken before the
insert, and no time a query takes is compared with the cooldown: `CooldownLapses` may
come as soon as the attempt is finalised. Only what had been cached by the time of
`completed_at` (`predates`) is known to have lapsed first, 8 s against 60. `mishap` is
a ghost that remembers whether anything has happened that can lead to a second key;
one such thing is a cooldown that ends while a look-up older than its key is cached or
still to be cached.

`AdLedger` - what key generation promises about ads: a shop that sells one key for
each. In `KeyGeneration` an ad is an attempt, on offer while its row can still be
completed and over once it cannot (`AdState`); the callbacks with a claim to it are
those that have consumed it and those whose key is on its way or stored (`Claims`).
An ad is offered when its row is inserted, withdrawn when it is superseded or
expires, claimed by the update in `completeAdAndGenerateKey` that finds it pending.

`RecoveryRelay` - `pc` and `idx` are where the watchdog thread stands in its round.
`RefreshEvidence`, `TickRoundStart`, `DetectAll` and `ApplyVerdict` are the body of
`_run_watchdog_loop`; the actions of `Focus` are one focus window of
`checking_system.py`, each with the decision it ends in; those of `Recovery` are
`process_next_recovery`, which the round and the focus share and which returns to
`back`. `BeginRecovery` is `_reserve_recovery_launch_attempt` and
`begin_recovery`, `LaunchSucceeds` and `LaunchFails` the two `end_recovery`,
`FallAsleep` and `Wake` a launch the throttle refuses. `LaneLooks` and `LaneMarks`
are a dead-lane thread on either side of the monitor's lock. The world's actions
are what clients do. There are at least two packages, because a lone one is not
prefetched and takes another path. Two things the code does that its comments do
not suggest: a package queued by one window stays queued when a later window
commits it Online, and the dead lane commits Dead although the docstring of
`commit_presence_state` leaves that to the focused checker.

`RecoveryDesk` - what the recovery queue promises: one client at a time is served, in
the order in which they joined. The line is `recovery_queue`, the client at the desk
is the package whose launch is under way or whose throttle is being slept out
(`target` in the states "launch" and "asleep"), and those given up are
`unrecoverable_dead_packages`.

`ReadLane` - `row` is `tracker_latest_snapshots`, its columns numbered by the
commits that brought them; `cache`, `watermark` and `warm` are `cacheByKey`,
`cacheMaxPrecomputedAt` and the warm load; `probe` holds the rows `refreshCache`
has still to go through; `shown` is what a polling browser holds.
`PrepareWrite` is the point at which `upsertLatest` and `updatePresence` take the
time, `CommitSnapshot`, `CommitPresence` and `WriteComesToNothing` what becomes of
their statement. `RefreshProbe` and the actions of `RefreshRow` are the two kinds of
query of a refresh, `WarmStart`, `WarmBatch` and `WarmGivesUp` the warm load,
`ServeCached` and `ServeMiss` the ways of `servePrecomputed`, `Ingest` is
`ingestRow`. `HashOf` says which contents are the same: an inventory that sells and
catches a fish may be what it was. The ghosts `overtaken` and `raced` name the
accounts that one of the known hazards has hit.

`TrailingCopy` - a source advances and a copy follows it, never back and never ahead.
`UploadPipeline` instantiates it with the snapshot each session was rebuilt from and
the one enriched last, `ReadLane` twice, with the bodies and with the presence records
of the rows and of the browser.

`EnrichmentGate_proofs`, `UploadPipeline_proofs`, `SessionShards_proofs`,
`KeyGeneration_proofs`, `RecoveryRelay_proofs` and `ReadLane_proofs` hold the
theorems, section 6. The MC modules give TLC the constants a `.cfg` cannot write.

## 4. Runs

| run | question | bounds and why |
| --- | --- | --- |
| `gate` | counters, queue, backlog, shedding, refinement, draining | 4 accounts with a job each, 2 slots and a queue of 3: two accounts more than slots, so that some wait, and one more than the queue; the lag in each of four tiers, the cap taking three values. With one job an older is not told from a newer one here: that is the business of `pipeline`, and `RefinesMailbox` is proved for any jobs |
| `pipeline` | the newest snapshot is enriched, in order, never ahead of the session | 1 account, 4 uploads: running, pending, refused and newest differ. Enrichment order is a matter of one account; competition between accounts is the business of `gate`. Lag below, at the shed and at the 503 threshold |
| `v_superseded`, `v_retry` | findings, section 7 | 2 uploads |
| `shards` | dirty is scheduled, losses and regressions are known, dirty accounts are written | 2 accounts (one being written, one behind it), 2 uploads of the one (an older and a newer row) and 1 of the other |
| `v_shard_regress`, `v_shutdown` | findings, section 7 | as `shards` |
| `keygen` | the lock excludes and lets everyone in, an ad is paid once, statuses never go back, a second key needs a mishap, one key is sold per ad (the refinement of `AdLedger`) | 2 attempts, so that one replaces the other, and 2 callbacks, for one ad or for two; every call may fail. One page, whose look-up may be overtaken by anything. `CooldownLimit` is 1 for the code's 5, so that one attempt not finalised hides the cooldown. One callback's attempt is fixed, as attempts are interchangeable (`OneAttemptFixed`) |
| `v_two_keys` | finding, section 7 | as `keygen`, no faults, no page, `CooldownLimit` 5 |
| `recovery` | the relay is handed back, the queue is in order, relaunches in a row are bounded, only dead packages are queued and are served in order (the refinement of `RecoveryDesk`) | 2 packages, one recovered while the other waits or dies, each gone or in the game at the start; 1 further fault or look of the dead lane (a client that has not joined may end freely, so deaths are not rare). `NoHeartbeatLimit` is 2 for the code's 7 and `MaxLaunches` 2 for its 3: a window that counts and one that reaches the limit, a relaunch and the one that brings the throttle |
| `recovery_live` | no package that is down is left alone, the rounds go on | as `recovery` with `MaxFaults` 0, so without the dead lane: 2 packages in every mix of gone and in the game, launches that fail, die or never join. With a fault the graph, of millions of states, is beyond a liveness check of minutes |
| `read_lane` | labels are honest, misses are known, a browser never goes back nor ahead, the cache catches up | 2 accounts, one of them viewed, loaded in batches of 1, so that a batch may pass what another commit stamped; 3 commits of the first, so that its content returns (A, B, A), and 1 of the other; 2 workers, so that a commit may come in after a later stamp; a clock of 2, the least that has an earlier and a later |

`MaxUploads`, `MaxCommits` (with `MaxOf` for each account), `MaxClock` and
`MaxFaults` bound the histories, by a guard on the action that lengthens them: a
write already prepared counts against the commits. Attempts and callbacks are used
once, which bounds those of `KeyGeneration` (and is why its runs may end). Nothing
else is cut off. What two callbacks cannot show of the lock, a third that joins
while the second leaves, the proof covers.

## 5. Fairness

`GateFairness`: `setImmediate` callbacks run, a job's promise settles, and the
drain interval keeps firing. The first and the last are Node's; the second is a
property of the jobs the code assumes too, as it has no timeout on them. Nothing
is assumed of callers, and the lag must settle in one tier: when the cap rises, a
new upload may take the slot ahead of the queue, so no promise holds under an
oscillating lag. `FairShardSpec`: file operations complete or fail, timers and
immediates fire. Nothing is assumed of responses or of the lag.
`FairKeySpec`: the database calls of a callback return, fail or are given up
(every call is cut off after 30 s, `site/src/db.js`), and an insert under way
lands or is given up. Nothing is assumed of the handlers that start attempts, of
the user or of the clock. `FairRelaySpec`: the watchdog thread takes its next step
(its sleeps and launches end: every shell command has a timeout), and time passes,
that is, a launch met again and again by a round gets older. Strong fairness is
needed for the latter because a relaunch makes it young again. Nothing is assumed
of clients or of the dead lane. `FairReadSpec`: the refresh timer fires and the
queries of a refresh return or fail. Nothing is assumed of the workers, of the warm
load or of requests.

## 6. Proofs

The proofs hold for any finite sets of accounts, attempts, callbacks, pages and workers,
any number of packages, any hashes and any limits (`GateAssumption`,
`PipelineAssumption`, `ShardAssumption`, `KeyAssumption`, `RelayAssumption`,
`ReadAssumption`).

`EnrichmentGate_proofs`: `GateInv` adds to the checked invariants that a job is
captured exactly for the keys in flight and that settling keys are in flight.
Neither `SlotAccounting` nor `BacklogBounded` is inductive alone: the counter
moves with `Cardinality(inFlight)` only if a key started is not yet in flight,
and a start keeps the bound only if the key is not counted twice. The lemma
`TryStartDrains` says what the loop of `tryStartDeferredWork` does to the pool for
every queue, and all actions that drain go through it. From the same invariant
follow the action property `SheddingStartsNothing` and the refinement
`RefinesMailbox`: every step is a mailbox step of each account.

`SessionShards_proofs`: `ShardInv` says of every account that it is on disk, or
owed by the flush in flight with the right row, or dirty, or exposed
(`Tracked`/`Safe`), that dirty accounts are scheduled and that nothing is
scheduled while the process is down. `OnlyKnownLosses` needs the middle part: the
row being written must be the newest unless the account is dirty again.
`BehindInv`, needed for `OnlyKnownRegressions` alone, says that no copy of a session
is ahead of it: the one in the cache, on disk, in the write under way, or held by
`persistSessionState` across its await. A shard that `ShardInv` finds caught up is
then as new as anything that can be written over it. That nothing is held across an
await while the process is down is part of it: without, a restart from an older shard
would leave such a copy ahead.

`KeyGeneration_proofs` has four invariants of its own. `LockInv`: the callbacks
that hold a place in the chain of promises can be listed so that each awaits the
one before it, the map's entry is the last, and the first awaits nobody who has
still to resolve; whoever is inside is the first (`CriticalIsFirst`), which gives
`LockExclusive`. `Join` appends to the list, `Leave` removes its head, a restart
empties it. `AdInv`: a callback that has consumed its ad, or whose key is on its
way or stored, is the only such callback of its attempt, the attempt is over, and
an attempt whose handler has not inserted its row has none; this gives
`OneKeyPerAd`, even for inserts that land after the callback gave up, and
`NeverReopens`. `StoredInv`: a callback about to finalise has its key stored. On top
of the first two, `SingleKey` holds until the first mishap: every unredeemed key is
being inserted or finalised inside the lock, or cools down, or is missed neither by
the cache nor by an answer some page is about to put there (`KeyShown`). A callback
that passes the cooldown is alone in the lock and has met no key that cools down, so
all keys there are belong to the third kind (`PastCooldown`); its second look-up, if it
finds none, then means that there is none (`ClearToInsert`), which no other callback
can change while it is inside. What a step may do to the cache and to the pages'
answers is one formula (`Reads`), and under it a key that is shown stays shown
(`ReadingShows`). How long a query takes is nowhere used.

`RefinesLedger` needs `AdInv` and `StoredInv`: a key may be issued only to a callback
with a claim, which is `StoredInv`'s account of where each callback stands, and a claim
may only be made on an ad nobody has claimed, which is `AdInv`'s. One database step may
move several ads at once (a supersede goes over a list of ids, a restart gives up every
claim not yet acted on), so the ledger moves each ad by itself: the lemmas
`LedgerAdKept`, `LedgerAdStarts` and `LedgerAdClaimed` say what a step does to one ad,
`LedgerKeys` what it does to one key.

`UploadPipeline_proofs` first shows that the route uses the gate as the gate allows
(`PipelineUsesGate`): every step of the pipeline is a step of the gate or leaves it
alone, so the gate's invariant and theorems hold under the route
(`RouteKeepsGatePromises`). `AccountInv` then
says, for each account, in which order the snapshots of the session, of the job in
the slot, of the running job and of the last enrichment stand, and where the newest
accepted one is. `LatestSnapshotEnriched` and `EnrichmentMonotone` follow without
the sequence check of the jobs, which never fires (section 7). From it follows
`EnrichmentRefinesTrail` too: a session moves only to a snapshot no older, in steps
that enrich nothing (`SessionMoves`), and no job holds a snapshot newer than the
session's.

`RecoveryRelay_proofs`: `RelayInv` adds to the checked invariants what each step of
the watchdog knows of its locals (which package, where it returns to, whether
checking is paused), and the exact number of relaunches in a row: `MaxLaunches` for a
throttled package, the counter for any other.
`BurstBounded` alone is not inductive, as the counter is reset when the throttle is
set and not when it ends. The queue is handled by lemmas on appending to, removing
from and cutting a sequence without repetition. `RefreshEvidence` and the lane touch
no queue; every action that does keeps `QueueDiscipline` by one of these lemmas.
`RefinesDesk` uses the same lemmas, strengthened by what they say of the order: an
append or a sync leaves the queue as a prefix of the new one. The disjuncts of the
next-state relation are sorted into those that touch the desk (`DeskServes`,
`DeskGivesUp`, the ends of a recovery), those that only queue (`FocusQueuesSteps`) and
the quiet ones (`QuietSteps`). It needs one fact `RelayInv` does not hold, that a
package whose throttle is being slept out is not in the queue (`SleepInv`), as it may
be given up when the sleep ends.

`ReadLane_proofs`: `OrderInv` says that no copy is ahead of its source (browser,
cache, probe, row), for bodies and for presence records; from it follows that an
answer never takes a browser back, restarts included, since a restart empties the
cache and not the row. `MissInv` says of each cached or probed account not hit by a
hazard that it is current, or that the next refresh asks for it, or that the refresh
under way has yet to go through it and found it as it is now. `OnlyKnownMisses` alone
is not inductive: an account asked for by the next refresh ceases to be when this one
passes a later stamp, so `AskedForNext` looks at the stamps still to be passed too.
`ShownGoesForward` and `ShownRefinesTrail` rest on `OrderInv`: an answer is given from
the cache or from the row, both at least what the browser shows (`ShownForward`), and
no row is committed in the step that answers (`RowsForward`).

Only model-checked: the liveness properties `BacklogDrains`, `DirtyDrains`,
`CallbackAnswered`, `DownIsRecovered`, `RoundsGoOn` and `CacheCatchesUp`: fairness
is out of the prover's reach. Every safety property the passing
runs check is proved, the refinements among them.

## 7. Where the code does not do what it says

* `SupersededNeverEnriched` - `deferredSnapshotSeq` is always 1, so the two
  `superseded_...` exits of the job are dead code. `EnrichmentMonotone` and
  `LatestSnapshotEnriched` show that the harm is wasted work only: the gate's
  single slot and single worker order the jobs.
* `RetryIsStored` - a POST refused with 503 `retryable: true` and retried within
  the coalescing window (750 ms by default) gets `accepted: true` unseen.
* `ShardNeverRegresses` - an asynchronous write in flight puts an older row over
  the one `flushAccountSync` has just written, and nothing is left dirty.
  `OnlyKnownRegressions` shows that this and the other known hazards are the only
  ways: the shard of any other account goes back, if at all, while the account is
  dirty, and is written again.
* `ShutdownFlushes` - the graceful stop awaits a flush call that returns at once.
* `OneUnredeemedKey` - a new attempt may supersede an older one whose ad has just
  been consumed, because the update goes by id alone. The older one's key is
  stored, its finalising update finds no row to change, so there is no cooldown,
  and the look-ups are answered for 8 s from a cache that no insert clears. A
  completion of the new attempt within that time makes a second unredeemed key.
  The model does not say how long an ad takes; the routes in use have no minimum.
  `SecondKeyNeedsMishap` shows that this, and what else it lists, are the only ways.
  One of them needs no failure and no supersede, only slow queries: the cooldown is
  counted from `completed_at`, which is taken before the several calls of the insert
  (25 s each), and a page's look-up that read before the insert may be cached after
  it, under the time it ended; 60 s after `completed_at` the re-check may then still
  be served that empty answer.

Also noticed, without a run:

* the comment above `wrapTrackerUpload` says "handler returns 202 after persist, not
  503", while it answers 503 from 3500 ms of lag on, which makes its branch for
  8000 ms unreachable;
* `supervisor.py` says "A dead package is relaunched once here", but the recovery
  that a focus runs forgets the committed Dead when it succeeds
  (`checker_pointer.py`, `end_recovery`), and `handle_focus_dead`, which comes next,
  then marks the package dead and relaunches it on top of the first launch;
* a relaunch the throttle refuses is judged by the `recovery_stage` an earlier
  recovery left behind: if that one failed, the refused package is given up for the
  session (`Wake`);
* `trackerReadApp.js` answers "unchanged" "when the caller already holds this exact
  snapshot", but goes by the label: after a commit between the probe of a refresh and
  its query for the body (`raced`), and a return of the content, a browser may be
  told so while it holds another content;
* `trackerWorkerApp.js` promises "always a live writer and never two" of a lock file
  that is read and then written, and whose ownership is tested at the start of a tick
  only; `ReadLane` does not rest on it;
* the branch of `upsertLatest` for a stale body calls `updatePresence` with the
  presence of that body, which carries the revision the next call's guard compares:
  a second stale upsert then passes it.

## 8. Not modelled

The shard readers and the ingest cluster, the worker's lock file, the sign-in files,
the dataset cache, and the agent's own lock and launch scheduler: planned, section 2.
The catalogues are look-ups; the monitor relay keeps last values; the bot is a layer
over the database; the mobile apps and installers are sequential. The built assets
under `site/public/assets`, which are most of the lines of the repository, are
generated.

Of the modelled parts:

* upload route: the status and leaderstats lanes, identity checks, rate limits and
  the contents of a session;
* session store: the presence sidecar, the contents of `index.json`, trimming, the
  legacy single-file store;
* key generation: signatures and provider checks (taken as passed), the limits on the
  number of keys, panel resets and the handlers that no route uses
  (`handleProviderComplete`, `markPendingAd`);
* supervision: the first launches, captcha, wrong game, the RAM checks, webhooks, the
  lime channel and the race detector (both off by default), the stop of the agent,
  and the parsing of what Android commands print: the model starts from what the
  parser concludes;
* read lane: which accounts the worker chooses to build and what it puts in a body,
  the aliases by user id, the history table, the fallback to the website, and what is
  derived from a presence record that is missing or old when it is served.
