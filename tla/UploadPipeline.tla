--------------------------- MODULE UploadPipeline ---------------------------
(***************************************************************************)
(* An inventory upload from its POST to its enrichment: the coalescing     *)
(* middleware, the 503 gate, the handler that rebuilds the session and     *)
(* schedules the enrichment job, and the job itself, composed with the     *)
(* scheduler of EnrichmentGate.                                            *)
(*                                                                         *)
(* Abstractions: a snapshot is its upload number, and two POSTs have the   *)
(* same payload hash when they carry the same number; a session is the     *)
(* snapshot it was rebuilt from and its deferredSnapshotSeq; enriching is  *)
(* recording which snapshot was enriched last.  Status, leaderstats and    *)
(* offline reports touch none of this and are left out.                    *)
(***************************************************************************)
EXTENDS EnrichmentGate

CONSTANT MaxUploads  \* bound: how many distinct snapshots each account sends

\* The work functions handed to the gate, as the values their closures capture.
SnapshotJob(n, s) == [kind |-> "snapshot", upload |-> n, seq |-> s]
AuditJob == [kind |-> "audit", upload |-> 0, seq |-> 0]

ASSUME PipelineAssumption ==
    /\ MaxUploads \in [Keys -> Nat]
    /\ AuditJob \in Jobs
    /\ \A k \in Keys : \A n, s \in 1..MaxUploads[k] : SnapshotJob(n, s) \in Jobs

VARIABLES
    session,       \* liveTrackDB: the snapshot held and deferredSnapshotSeq
    recent,        \* recentByLane: the upload seen within the window, 0 if none
    sent,          \* the tracker client's newest snapshot
    reply,         \* the answer to the client's last POST ("accepted" is
                   \* accepted: true, of the handler or of the middleware)
    lastEnriched,  \* the snapshot whose enrichment was recorded last
    due            \* ghost: the accepted snapshot still to be enriched, 0 if
                   \* it was refused, displaced by an audit, or failed

routeVars == <<session, recent, sent, reply, lastEnriched, due>>
pipelineVars == <<gateVars, routeVars>>

Replies == {"none", "accepted", "error202", "busy503"}

PipelineTypeOK ==
    /\ GateTypeOK
    /\ reply \in [Keys -> Replies]
    /\ \A k \in Keys :
          /\ session[k] \in [upload : 0..sent[k], seq : Nat]
          /\ sent[k] \in 0..MaxUploads[k]
          /\ {recent[k], lastEnriched[k], due[k]} \subseteq 0..sent[k]

PipelineInit ==
    /\ GateInit
    /\ session = [k \in Keys |-> [upload |-> 0, seq |-> 0]]
    /\ recent = [k \in Keys |-> 0]
    /\ sent = [k \in Keys |-> 0]
    /\ reply = [k \in Keys |-> "none"]
    /\ lastEnriched = [k \in Keys |-> 0]
    /\ due = [k \in Keys |-> 0]

-----------------------------------------------------------------------------
(* The route: coalesce, gate, handle *)

\* The client posts a new snapshot, or the one it sent last over again.
Posts(k, n) ==
    /\ n \in {sent[k], sent[k] + 1} \cap 1..MaxUploads[k]
    /\ sent' = [sent EXCEPT ![k] = n]

\* trackerUploadCoalesceMiddleware recognises the payload and answers at once.
Coalesce(k, n) ==
    /\ Posts(k, n)
    /\ recent[k] = n
    /\ reply' = [reply EXCEPT ![k] = "accepted"]
    /\ UNCHANGED <<gateVars, session, recent, lastEnriched, due>>

\* The middleware lets the POST through, remembering it before anyone has
\* decided whether it will be handled.
PassesCoalescing(k, n) ==
    /\ Posts(k, n)
    /\ recent[k] # n
    /\ recent' = [recent EXCEPT ![k] = n]

\* wrapTrackerUpload turns the POST away under extreme lag.
Busy503(k, n) ==
    /\ PassesCoalescing(k, n)
    /\ lag >= HardShed
    /\ reply' = [reply EXCEPT ![k] = "busy503"]
    /\ UNCHANGED <<gateVars, session, lastEnriched, due>>

\* Mutant: the sequence number has no default: undefined + 1, written -1 here.
RebuiltWithoutDefault(n) == [upload |-> n, seq |-> -1]

\* deferredSnapshotSeq is read from the session object that was just rebuilt
\* without the old one's value, not from the session it replaces.
Rebuilt(n) ==
    LET fresh == [upload |-> n, seq |-> 0]
    IN  [fresh EXCEPT !.seq = @ + 1]

\* Mutant: the job captures the sequence number before the session is rebuilt.
HandleCapturesEarly(k, n) ==
    LET job == SnapshotJob(n, session[k].seq)
    IN  /\ PassesCoalescing(k, n)
        /\ lag < HardShed
        /\ session' = [session EXCEPT ![k] = Rebuilt(n)]
        /\ Schedule(k, job)
        /\ due' = [due EXCEPT ![k] =
                      IF pending'[k] = job \/ running'[k] = job THEN n ELSE 0]
        /\ reply' = [reply EXCEPT ![k] = "accepted"]
        /\ UNCHANGED lastEnriched

\* handleUpdateBackpack, inventory lane.
Handle(k, n) ==
    LET now == Rebuilt(n)
        job == SnapshotJob(n, now.seq)
    IN  /\ PassesCoalescing(k, n)
        /\ lag < HardShed
        /\ session' = [session EXCEPT ![k] = now]
        /\ Schedule(k, job)
        /\ due' = [due EXCEPT ![k] =
                      IF pending'[k] = job \/ running'[k] = job THEN n ELSE 0]
        /\ reply' = [reply EXCEPT ![k] = "accepted"]
        /\ UNCHANGED lastEnriched

\* Mutant: the job is scheduled before the session is replaced.
HandlerThrowsLate(k, n) ==
    /\ PassesCoalescing(k, n)
    /\ lag < HardShed
    /\ Schedule(k, SnapshotJob(n, Rebuilt(n).seq))
    /\ reply' = [reply EXCEPT ![k] = "error202"]
    /\ UNCHANGED <<session, due, lastEnriched>>

\* The handler throws before it replaces the session, or after that and before
\* it schedules the job; safeTrackerUploadHandler answers for it.
HandlerThrows(k, n) ==
    /\ PassesCoalescing(k, n)
    /\ lag < HardShed
    /\ \/ UNCHANGED <<session, due>>
       \/ /\ session' = [session EXCEPT ![k] = Rebuilt(n)]
          /\ due' = [due EXCEPT ![k] = 0]
    /\ reply' = [reply EXCEPT ![k] = "error202"]
    /\ UNCHANGED <<gateVars, lastEnriched>>

\* GET /api/fishit-tracker/debug/:username?full=1&refreshAudit=1 schedules an
\* audit under the account's own key.
RefreshAudit(k) ==
    /\ session[k].upload # 0
    /\ Schedule(k, AuditJob)
    /\ due' = [due EXCEPT ![k] = IF pending[k] # NoJob THEN 0 ELSE @]
    /\ UNCHANGED <<session, recent, sent, reply, lastEnriched>>

\* COALESCE_WINDOW_MS goes by.
WindowPasses(k) ==
    /\ recent[k] # 0
    /\ recent' = [recent EXCEPT ![k] = 0]
    /\ UNCHANGED <<gateVars, session, sent, reply, lastEnriched, due>>

-----------------------------------------------------------------------------
(* The job *)

Superseded(k) == running[k].seq # session[k].seq

\* The job enriches its snapshot and returns persistSessionState's promise.
Enrich(k) ==
    /\ k \in inFlight \ settling
    /\ running[k].kind = "snapshot"
    /\ ~Superseded(k)
    /\ RunAsync(k)
    /\ lastEnriched' = [lastEnriched EXCEPT ![k] = running[k].upload]
    /\ UNCHANGED <<session, recent, sent, reply, due>>

\* The job finds itself superseded and returns without a promise, or throws
\* before it has recorded anything; either way the gate lets it go.
EndWithoutEnriching(k) ==
    /\ k \in inFlight \ settling
    /\ running[k].kind = "snapshot"
    /\ RunToCompletion(k)
    /\ due' = [due EXCEPT ![k] =
                  IF ~Superseded(k) /\ @ = running[k].upload THEN 0 ELSE @]
    /\ UNCHANGED <<session, recent, sent, reply, lastEnriched>>

Audit(k) ==
    /\ k \in inFlight \ settling
    /\ running[k].kind = "audit"
    /\ RunAsync(k)
    /\ UNCHANGED routeVars

Persisted(k) == Settle(k) /\ UNCHANGED routeVars

Background == (DrainTick \/ LagSample \/ HeapChange) /\ UNCHANGED routeVars

PipelineNext ==
    \/ \E k \in Keys : \E n \in 1..MaxUploads[k] :
          Coalesce(k, n) \/ Busy503(k, n) \/ Handle(k, n) \/ HandlerThrows(k, n)
    \/ \E k \in Keys :
          \/ RefreshAudit(k) \/ WindowPasses(k)
          \/ Enrich(k) \/ EndWithoutEnriching(k) \/ Audit(k)
          \/ Persisted(k)
    \/ Background

PipelineSpec == PipelineInit /\ [][PipelineNext]_pipelineVars

-----------------------------------------------------------------------------
(* Properties *)

\* Enrichment never goes back to an older snapshot, although sessions are
\* replaced while jobs are queued and the sequence check never fires: the
\* gate's single slot and single worker per account order the jobs.
EnrichmentMonotone ==
    [][\A k \in Keys : lastEnriched'[k] >= lastEnriched[k]]_pipelineVars

\* Enrichment trails the live session: liveTrackDB only goes forward, through
\* retries, audits and handlers that throw, and no job enriches a snapshot
\* newer than the one it holds or older than the one enriched last.
Trail == INSTANCE TrailingCopy
             WITH Things <- Keys,
                  source <- [k \in Keys |-> session[k].upload],
                  copy <- lastEnriched
EnrichmentTrails == Trail!TrailSpec

\* "latest snapshot wins": once an account has no job left, the newest
\* snapshot the gate accepted for it is the one that was enriched.
LatestSnapshotEnriched ==
    \A k \in Keys :
        pending[k] = NoJob /\ k \notin inFlight /\ due[k] # 0
            => lastEnriched[k] = due[k] /\ session[k].upload >= due[k]

\* "Replaces any pending or in-flight snapshot for the same key": a job whose
\* snapshot the account's session no longer holds is skipped, never enriched.
SupersededNeverEnriched ==
    [][\A k \in Keys : lastEnriched'[k] # lastEnriched[k]
          => lastEnriched'[k] = session[k].upload]_pipelineVars

\* A POST turned away as "retryable: true" and sent again is stored before it
\* is answered with accepted: true.
RetryIsStored ==
    [][\A k \in Keys :
          reply[k] = "busy503" /\ reply'[k] = "accepted" /\ sent'[k] = sent[k]
              => session'[k].upload = sent[k]]_pipelineVars
=============================================================================
