--------------------------- MODULE EnrichmentGate ---------------------------
(***************************************************************************)
(* The deferred-enrichment scheduler of the tracker ingest process         *)
(* (site/src/trackerConcurrencyGate.js).  Node runs every handler to       *)
(* completion, so each exported function, callback or timer tick is one    *)
(* action.  Between two actions anything else may run, and inside one the  *)
(* heap reading may differ from one call to the next.                      *)
(*                                                                         *)
(* Abstractions: a work function is an element of Jobs; the event-loop lag *)
(* is the index of the highest threshold it has reached; the counters that *)
(* only stats() reads are left out.                                        *)
(***************************************************************************)
EXTENDS Integers, Sequences, FiniteSets

CONSTANTS Keys,           \* accounts (lower-cased session keys)
          Jobs,           \* work functions
          NoJob,          \* no entry for the key
          EnrichmentMax,  \* TRACKER_ENRICHMENT_MAX_CONCURRENT
          QueueMax,       \* TRACKER_QUEUE_MAX
          LagSamples      \* the lag values the event-loop monitor may report

(***************************************************************************)
(* Lag thresholds in their default order (250, 1000, 2500, 3500, 8000 ms). *)
(* HardShed and Busy matter to the upload route only.                      *)
(***************************************************************************)
LagWarn == 1
LagShed == 2
LagPause == 3
HardShed == 4
Busy == 5

ASSUME GateAssumption ==
    /\ IsFiniteSet(Keys)
    /\ NoJob \notin Jobs
    /\ EnrichmentMax \in Nat \ {0}
    /\ QueueMax \in Nat
    /\ 0 \in LagSamples
    /\ LagSamples \subseteq 0..Busy

VARIABLES
    pending,    \* deferredPendingByKey: the job waiting for each key
    running,    \* the job captured by the key's setImmediate callback
    inFlight,   \* deferredInFlight
    settling,   \* keys whose callback ran and returned an unsettled promise
    waitQueue,  \* deferredWaitQueue
    waitSet,    \* deferredWaitSet
    active,     \* deferredActive
    lag,        \* getLagMs(), as a threshold index
    heapTight   \* TRUE while heapUsed/heapTotal hovers around HEAP_SHED_RATIO

jobVars == <<pending, running, inFlight, settling, waitQueue, waitSet, active>>
loadVars == <<lag, heapTight>>
gateVars == <<jobVars, loadVars>>

MaybeJob == Jobs \cup {NoJob}
PendingKeys == {k \in Keys : pending[k] # NoJob}
Elems(q) == {q[i] : i \in 1..Len(q)}
Distinct(q) == \A i, j \in 1..Len(q) : q[i] = q[j] => i = j

GateTypeOK ==
    /\ pending \in [Keys -> MaybeJob]
    /\ running \in [Keys -> MaybeJob]
    /\ inFlight \subseteq Keys
    /\ settling \subseteq Keys
    /\ waitQueue \in Seq(Keys)
    /\ waitSet \subseteq Keys
    /\ active \in Nat
    /\ lag \in LagSamples
    /\ heapTight \in BOOLEAN

GateInit ==
    /\ pending = [k \in Keys |-> NoJob]
    /\ running = [k \in Keys |-> NoJob]
    /\ inFlight = {}
    /\ settling = {}
    /\ waitQueue = << >>
    /\ waitSet = {}
    /\ active = 0
    /\ lag = 0
    /\ heapTight = FALSE

-----------------------------------------------------------------------------
(* Load readings *)

\* The values heapRatio >= HEAP_SHED_RATIO may take when it is evaluated.
HeapReadings == IF heapTight THEN BOOLEAN ELSE {FALSE}

AtLeastOne(n) == IF n < 1 THEN 1 ELSE n

EffectiveMax(heapHigh) ==
    IF lag >= LagPause THEN 0
    ELSE IF lag >= LagShed \/ heapHigh THEN AtLeastOne(EnrichmentMax \div 2)
    ELSE IF lag >= LagWarn THEN AtLeastOne(EnrichmentMax - 1)
    ELSE EnrichmentMax

ShouldShed(heapHigh) == lag >= LagShed \/ heapHigh

MayShed == \E h \in HeapReadings : ShouldShed(h)
MayNotShed == \E h \in HeapReadings : ~ShouldShed(h)

-----------------------------------------------------------------------------
(* tryStartDeferredWork *)

\* The keys among the first n of queue q that the loop starts: those with a
\* pending job and none in flight.  The others are popped and skipped.
Startable(q, n, pend, fly) ==
    {k \in Elems(SubSeq(q, 1, n)) : pend[k] # NoJob /\ k \notin fly}

\* The loop pops n keys of q and stops.  Its condition held before each pop
\* against the one reading of effectiveEnrichmentMax() taken on entry, and it
\* stopped because the queue is empty, the slots are full, or work is shed.
LoopPops(n, max, q, pend, fly, act) ==
    LET Full(i) == act + Cardinality(Startable(q, i, pend, fly)) >= max
    IN  /\ \A i \in 0..(n - 1) : ~Full(i)
        /\ n > 0 => MayNotShed
        /\ n = Len(q) \/ Full(n) \/ MayShed

\* tryStartDeferredWork() run in the state where the five collections already
\* have the values given; startDeferredJob for every key it starts.
TryStart(q, ws, pend, run, fly, act) ==
    \E n \in 0..Len(q), h \in HeapReadings :
        LET started == Startable(q, n, pend, fly)
        IN  /\ LoopPops(n, EffectiveMax(h), q, pend, fly, act)
            /\ waitQueue' = SubSeq(q, n + 1, Len(q))
            /\ waitSet' = ws \ Elems(SubSeq(q, 1, n))
            /\ pending' = [k \in Keys |-> IF k \in started THEN NoJob ELSE pend[k]]
            /\ running' = [k \in Keys |-> IF k \in started THEN pend[k] ELSE run[k]]
            /\ inFlight' = fly \cup started
            /\ active' = act + Cardinality(started)

\* Mutant: the key is queued without a look at deferredWaitSet.
EnqueuedAgain(q, ws, k) == Append(q, k)

\* enqueueDeferredKey
Enqueued(q, ws, k) == IF k \in ws THEN q ELSE Append(q, k)

-----------------------------------------------------------------------------
(* scheduleDeferredUploadWork *)

Known(k) == pending[k] # NoJob \/ k \in inFlight

TotalQueued == Cardinality(PendingKeys) + Len(waitQueue) + Cardinality(inFlight)

\* A net-new key is turned away while work is shed or the backlog is full.
Reject(k) ==
    /\ ~Known(k)
    /\ MayShed \/ TotalQueued >= QueueMax
    /\ UNCHANGED jobVars

\* Mutant: the limit is tested with > in place of >=.
AdmittedOneMore(k) == Known(k) \/ (MayNotShed /\ TotalQueued <= QueueMax)

Admitted(k) == Known(k) \/ (MayNotShed /\ TotalQueued < QueueMax)

\* The key's job is in flight: the new job waits for it in the pending slot.
ReplaceBehindRunning(k, j) ==
    /\ Admitted(k)
    /\ k \in inFlight
    /\ pending' = [pending EXCEPT ![k] = j]
    /\ UNCHANGED <<running, inFlight, settling, waitQueue, waitSet, active>>

\* Mutant: shouldShedEnrichment is not consulted before the direct start.
StartWhileShedding(k, j) ==
    /\ Admitted(k)
    /\ k \notin inFlight
    /\ \E h \in HeapReadings : active < EffectiveMax(h)
    /\ pending' = [pending EXCEPT ![k] = NoJob]
    /\ running' = [running EXCEPT ![k] = j]
    /\ inFlight' = inFlight \cup {k}
    /\ active' = active + 1
    /\ UNCHANGED <<settling, waitQueue, waitSet>>

\* Mutant: the older job waiting for the key is not deleted.
StartKeepsOldJob(k, j) ==
    /\ Admitted(k)
    /\ k \notin inFlight
    /\ \E h \in HeapReadings : active < EffectiveMax(h)
    /\ MayNotShed
    /\ running' = [running EXCEPT ![k] = j]
    /\ inFlight' = inFlight \cup {k}
    /\ active' = active + 1
    /\ UNCHANGED <<pending, settling, waitQueue, waitSet>>

\* A slot is free: startDeferredJob at once, without looking at the wait
\* queue.  An entry the key already has there stays, to be skipped later.
StartAtOnce(k, j) ==
    /\ Admitted(k)
    /\ k \notin inFlight
    /\ \E h \in HeapReadings : active < EffectiveMax(h)
    /\ MayNotShed
    /\ pending' = [pending EXCEPT ![k] = NoJob]
    /\ running' = [running EXCEPT ![k] = j]
    /\ inFlight' = inFlight \cup {k}
    /\ active' = active + 1
    /\ UNCHANGED <<settling, waitQueue, waitSet>>

\* No slot, or shedding: join the wait queue, then tryStartDeferredWork.
QueueUp(k, j) ==
    /\ Admitted(k)
    /\ k \notin inFlight
    /\ \E h \in HeapReadings : active >= EffectiveMax(h) \/ MayShed
    /\ TryStart(Enqueued(waitQueue, waitSet, k), waitSet \cup {k},
                [pending EXCEPT ![k] = j], running, inFlight, active)
    /\ UNCHANGED settling

Schedule(k, j) ==
    /\ \/ Reject(k)
       \/ ReplaceBehindRunning(k, j)
       \/ StartAtOnce(k, j)
       \/ QueueUp(k, j)
    /\ UNCHANGED loadVars

-----------------------------------------------------------------------------
(* The job's life after startDeferredJob *)

\* Mutant: the slot is not released.
FinishKeepsSlot(k) ==
    LET again == pending[k] # NoJob
    IN  /\ TryStart(IF again THEN Enqueued(waitQueue, waitSet, k) ELSE waitQueue,
                    IF again THEN waitSet \cup {k} ELSE waitSet,
                    pending, [running EXCEPT ![k] = NoJob], inFlight \ {k}, active)
        /\ settling' = settling \ {k}

\* Mutant: the slot is released by the promise's handler and once more here.
FinishReleasesTwice(k) ==
    LET again == pending[k] # NoJob
    IN  /\ TryStart(IF again THEN Enqueued(waitQueue, waitSet, k) ELSE waitQueue,
                    IF again THEN waitSet \cup {k} ELSE waitSet,
                    pending, [running EXCEPT ![k] = NoJob], inFlight \ {k}, active - 2)
        /\ settling' = settling \ {k}

\* Mutant: a job that arrived meanwhile does not make the key queue again.
FinishForgetsPending(k) ==
    /\ TryStart(waitQueue, waitSet, pending, [running EXCEPT ![k] = NoJob],
                inFlight \ {k}, IF active > 0 THEN active - 1 ELSE 0)
    /\ settling' = settling \ {k}

\* finishDeferred: the slot is released, a job that arrived meanwhile makes
\* the key queue again, and the queue is drained.
FinishDeferred(k) ==
    LET again == pending[k] # NoJob
    IN  /\ TryStart(IF again THEN Enqueued(waitQueue, waitSet, k) ELSE waitQueue,
                    IF again THEN waitSet \cup {k} ELSE waitSet,
                    pending, [running EXCEPT ![k] = NoJob], inFlight \ {k},
                    IF active > 0 THEN active - 1 ELSE 0)
        /\ settling' = settling \ {k}

\* The setImmediate callback runs a function that returns no promise or throws.
RunToCompletion(k) ==
    /\ k \in inFlight \ settling
    /\ FinishDeferred(k)
    /\ UNCHANGED loadVars

\* The setImmediate callback runs a function that returns a promise.
RunAsync(k) ==
    /\ k \in inFlight \ settling
    /\ settling' = settling \cup {k}
    /\ UNCHANGED <<pending, running, inFlight, waitQueue, waitSet, active, loadVars>>

\* That promise is fulfilled or rejected; both handlers call finishDeferred.
Settle(k) ==
    /\ k \in settling
    /\ FinishDeferred(k)
    /\ UNCHANGED loadVars

-----------------------------------------------------------------------------
(* Timers *)

\* Mutant: the tick drains only while some job is in flight.
DrainTickWhileBusy ==
    /\ active > 0
    /\ waitQueue # << >> \/ PendingKeys # {}
    /\ \E h \in HeapReadings : EffectiveMax(h) > 0
    /\ TryStart(waitQueue, waitSet, pending, running, inFlight, active)
    /\ UNCHANGED <<settling, loadVars>>

\* The self-healing drain, every DRAIN_TICK_MS.
DrainTick ==
    /\ waitQueue # << >> \/ PendingKeys # {}
    /\ \E h \in HeapReadings : EffectiveMax(h) > 0
    /\ TryStart(waitQueue, waitSet, pending, running, inFlight, active)
    /\ UNCHANGED <<settling, loadVars>>

\* The event-loop monitor takes a sample.
LagSample ==
    /\ lag' \in LagSamples
    /\ UNCHANGED <<jobVars, heapTight>>

\* The heap fills up, or a collection frees it.
HeapChange ==
    /\ heapTight' = ~heapTight
    /\ UNCHANGED <<jobVars, lag>>

GateInternal ==
    \/ \E k \in Keys : RunToCompletion(k) \/ RunAsync(k) \/ Settle(k)
    \/ DrainTick
    \/ LagSample
    \/ HeapChange

GateNext ==
    \/ \E k \in Keys, j \in Jobs : Schedule(k, j)
    \/ GateInternal

GateSpec == GateInit /\ [][GateNext]_gateVars

(***************************************************************************)
(* setImmediate callbacks run, promises returned by the work functions     *)
(* settle, and setInterval keeps firing.  Nothing is assumed of callers or *)
(* of the load.                                                            *)
(***************************************************************************)
GateFairness ==
    /\ \A k \in Keys : WF_gateVars(RunToCompletion(k) \/ RunAsync(k))
    /\ \A k \in Keys : WF_gateVars(Settle(k))
    /\ WF_gateVars(DrainTick)

FairGateSpec == GateSpec /\ GateFairness

-----------------------------------------------------------------------------
(* Properties *)

\* deferredActive, which is incremented and decremented apart from
\* deferredInFlight, counts exactly the jobs in flight, and they never exceed
\* ENRICHMENT_MAX however the load moved while they were started.  A drift
\* would leak a concurrency slot for the life of the process.
SlotAccounting ==
    /\ active = Cardinality(inFlight)
    /\ active <= EnrichmentMax

\* deferredWaitSet is the set of keys of deferredWaitQueue, and the queue
\* holds no key twice, across direct starts that leave stale entries behind.
WaitSetMirrorsQueue ==
    /\ waitSet = Elems(waitQueue)
    /\ Distinct(waitQueue)

\* No snapshot is stranded: a key with a pending job is in the wait queue or
\* has a job in flight whose finishDeferred will put it there.
NothingStranded == \A k \in PendingKeys : k \in waitSet \/ k \in inFlight

\* QUEUE_MAX bounds the accounts the gate holds anything for, although the
\* limit is tested against three collections that overlap and a known key is
\* admitted whatever their sizes.
BacklogBounded == Cardinality(PendingKeys \cup inFlight \cup waitSet) <= QueueMax

\* "Hard pause: above this event-loop lag, start ZERO new enrichment jobs"
\* (and none from LAG_SHED_MS on): no step taken then puts a job in flight or
\* takes one out of the backlog.
SheddingStartsNothing ==
    [][lag >= LagShed =>
          /\ inFlight' \subseteq inFlight
          /\ \A k \in PendingKeys : pending'[k] # NoJob]_gateVars

\* Each account sees a latest-wins mailbox: one job at a time, and an accepted
\* snapshot is lost only to a later one for the same account.
Mailbox == INSTANCE LatestWinsMailbox WITH slot <- pending
LatestWins == Mailbox!MailboxSpec

\* "this timer guarantees the backlog resumes the moment event-loop lag
\* recovers": once lag settles in one tier below LAG_SHED_MS and the heap is
\* calm, every pending job is started, even if no upload ever arrives again.
\* (Settling in ONE tier matters: each time the cap rises a new upload may take
\* the extra slot ahead of the wait queue, see StartAtOnce.)
SteadyAt(l) == <>[](lag = l /\ ~heapTight)
BacklogDrains ==
    SteadyAt(0) \/ SteadyAt(LagWarn)
        => \A k \in Keys : (pending[k] # NoJob) ~> (pending[k] = NoJob)
=============================================================================
