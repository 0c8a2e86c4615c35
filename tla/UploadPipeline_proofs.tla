------------------------ MODULE UploadPipeline_proofs ------------------------
(***************************************************************************)
(* Proofs about UploadPipeline, for any set of accounts, any number of     *)
(* uploads and any limits of the gate.                                     *)
(***************************************************************************)
EXTENDS UploadPipeline, EnrichmentGate_proofs

-----------------------------------------------------------------------------
(* How a step of the gate moves the slot and the worker of one account     *)

\* They stay as they are, or the pending job is started.
Moves(x) ==
    \/ pending'[x] = pending[x] /\ running'[x] = running[x]
    \/ /\ running[x] = NoJob /\ pending[x] # NoJob
       /\ pending'[x] = NoJob /\ running'[x] = pending[x]

LEMMA DrainTickMoves ==
    ASSUME GateInv, DrainTick
    PROVE  \A x \in Keys : Moves(x)
<1>1. PICK started \in SUBSET Keys : Drained(started, waitQueue, pending, running, inFlight)
  BY DrainTickStep
<1>2. \A x \in Keys : running[x] # NoJob <=> x \in inFlight
  BY DEF GateInv, PoolInv, RunningInFlight
<1> QED BY <1>1, <1>2, DrainedMoves DEF Moves

\* The account that schedules j has it in its slot, or as its worker, or was
\* turned away with nothing pending and nothing in flight.
LEMMA ScheduleMoves ==
    ASSUME GateInv, NEW k \in Keys, NEW j \in Jobs, Schedule(k, j)
    PROVE  /\ \/ pending'[k] = j /\ running'[k] = running[k]
              \/ pending'[k] = NoJob /\ running'[k] = j /\ running[k] = NoJob
              \/ /\ pending[k] = NoJob /\ running[k] = NoJob
                 /\ pending'[k] = NoJob /\ running'[k] = NoJob
           /\ \A x \in Keys \ {k} : Moves(x)
           /\ settling' = settling
<1>1. /\ pending \in [Keys -> MaybeJob] /\ running \in [Keys -> MaybeJob]
      /\ \A x \in Keys : running[x] # NoJob <=> x \in inFlight
      /\ j # NoJob
  BY GateAssumption DEF GateInv, PoolInv, RunningInFlight
<1>2. CASE Reject(k)
  BY <1>1, <1>2 DEF Reject, Known, jobVars, Moves
<1>3. CASE ReplaceBehindRunning(k, j)
  BY <1>1, <1>3 DEF ReplaceBehindRunning, Moves
<1>4. CASE StartAtOnce(k, j)
  BY <1>1, <1>4 DEF StartAtOnce, Moves
<1>5. CASE QueueUp(k, j)
  <2> DEFINE pend == [pending EXCEPT ![k] = j]
  <2>1. PICK started \in SUBSET Keys :
          Drained(started, Enqueued(waitQueue, waitSet, k), pend, running, inFlight)
    BY <1>5, QueueUpStep
  <2>2. ASSUME NEW x \in Keys
        PROVE  \/ /\ pend[x] # NoJob /\ x \notin inFlight
                  /\ pending'[x] = NoJob /\ running'[x] = pend[x]
               \/ pending'[x] = pend[x] /\ running'[x] = running[x]
    <3> HIDE DEF pend
    <3> QED BY <2>1, DrainedMoves
  <2>3. pend[k] = j /\ \A x \in Keys \ {k} : pend[x] = pending[x]
    BY <1>1
  <2>4. k \notin inFlight /\ settling' = settling
    BY <1>5 DEF QueueUp
  <2> HIDE DEF pend
  <2>5. ASSUME NEW x \in Keys \ {k} PROVE Moves(x)
    BY <1>1, <2>2, <2>3 DEF Moves
  <2>6. \/ pending'[k] = j /\ running'[k] = running[k]
        \/ pending'[k] = NoJob /\ running'[k] = j /\ running[k] = NoJob
    BY <1>1, <2>2, <2>3, <2>4
  <2> QED BY <2>4, <2>5, <2>6
<1> QED BY <1>2, <1>3, <1>4, <1>5 DEF Schedule

\* The account whose job ends has no worker afterwards, or its pending job.
LEMMA FinishMoves ==
    ASSUME GateInv, NEW k \in inFlight, FinishDeferred(k)
    PROVE  /\ \/ pending'[k] = pending[k] /\ running'[k] = NoJob
              \/ pending[k] # NoJob /\ pending'[k] = NoJob /\ running'[k] = pending[k]
           /\ \A x \in Keys \ {k} : Moves(x)
           /\ settling' = settling \ {k}
<1> DEFINE run == [running EXCEPT ![k] = NoJob]
<1>1. /\ running \in [Keys -> MaybeJob] /\ k \in Keys
      /\ \A x \in Keys : running[x] # NoJob <=> x \in inFlight
  BY DEF GateInv, PoolInv, RunningInFlight
<1>2. PICK started \in SUBSET Keys, q \in Seq(Keys) :
        Drained(started, q, pending, run, inFlight \ {k})
  BY FinishStep
<1>3. ASSUME NEW x \in Keys
      PROVE  \/ /\ pending[x] # NoJob /\ x \notin inFlight \ {k}
                /\ pending'[x] = NoJob /\ running'[x] = pending[x]
             \/ pending'[x] = pending[x] /\ running'[x] = run[x]
  <2> HIDE DEF run
  <2> QED BY <1>2, DrainedMoves
<1>4. run[k] = NoJob /\ \A x \in Keys \ {k} : run[x] = running[x]
  BY <1>1
<1> HIDE DEF run
<1>5. \A x \in Keys \ {k} : Moves(x)
  BY <1>1, <1>3, <1>4 DEF Moves
<1>6. settling' = settling \ {k}
  BY DEF FinishDeferred
<1> QED BY <1>1, <1>3, <1>4, <1>5, <1>6

-----------------------------------------------------------------------------
(* The inductive invariant *)

\* Every snapshot job carries sequence number 1.
Snapshot(n) == SnapshotJob(n, 1)

JobUpTo(j, n) == j = NoJob \/ j = AuditJob \/ \E m \in 1..n : j = Snapshot(m)

(* Of one account with pending job p, running job r (whose promise is      *)
(* unsettled if s), session ses, last enrichment e and snapshot owed d:    *)
(* the jobs hold snapshots in the order of enrichment, none newer than the *)
(* session's or than the one owed, which is pending, running or enriched.  *)
AccountInv(p, r, s, ses, e, d) ==
    /\ ses \in [upload : Nat, seq : Nat]
    /\ ses.upload # 0 => ses.seq = 1
    /\ JobUpTo(p, ses.upload) /\ JobUpTo(r, ses.upload)
    /\ e \in 0..ses.upload /\ d \in 0..ses.upload
    /\ \A n \in 1..ses.upload : p = Snapshot(n) \/ r = Snapshot(n) =>
          e <= n /\ (d # 0 => n <= d)
    /\ \A m, n \in 1..ses.upload : r = Snapshot(m) /\ p = Snapshot(n) => m <= n
    /\ d # 0 => p = Snapshot(d) \/ (r = Snapshot(d) /\ ~s) \/ e = d

AccountsInv ==
    \A k \in Keys : AccountInv(pending[k], running[k], k \in settling, session[k],
                               lastEnriched[k], due[k])

RouteInv ==
    /\ session \in [Keys -> [upload : Nat, seq : Nat]]
    /\ recent \in [Keys -> Nat]
    /\ sent \in [Keys -> Nat]
    /\ reply \in [Keys -> Replies]
    /\ lastEnriched \in [Keys -> Nat]
    /\ due \in [Keys -> Nat]
    /\ \A k \in Keys : /\ session[k].upload <= sent[k] /\ recent[k] <= sent[k]
                       /\ sent[k] <= MaxUploads[k]

PipelineInv == GateInv /\ RouteInv /\ AccountsInv

LEMMA PipelineInvTyped == PipelineInv => PipelineTypeOK
<1> SUFFICES ASSUME PipelineInv PROVE PipelineTypeOK
  OBVIOUS
<1>1. GateTypeOK
  BY GateInvTyped DEF PipelineInv
<1>2. ASSUME NEW k \in Keys
      PROVE  /\ session[k] \in [upload : 0..sent[k], seq : Nat]
             /\ sent[k] \in 0..MaxUploads[k]
             /\ {recent[k], lastEnriched[k], due[k]} \subseteq 0..sent[k]
  <2>1. /\ session[k] \in [upload : Nat, seq : Nat]
        /\ recent[k] \in Nat /\ sent[k] \in Nat /\ MaxUploads[k] \in Nat
        /\ session[k].upload <= sent[k] /\ recent[k] <= sent[k] /\ sent[k] <= MaxUploads[k]
        /\ lastEnriched[k] \in 0..session[k].upload /\ due[k] \in 0..session[k].upload
    BY PipelineAssumption DEF PipelineInv, RouteInv, AccountsInv, AccountInv
  <2> QED BY <2>1
<1> QED BY <1>1, <1>2 DEF PipelineTypeOK, PipelineInv, RouteInv

LEMMA PipelineInitInv == PipelineInit => PipelineInv
<1> SUFFICES ASSUME PipelineInit PROVE PipelineInv
  OBVIOUS
<1>1. GateInv
  BY InitInv DEF PipelineInit
<1>2. RouteInv
  BY PipelineAssumption DEF PipelineInit, RouteInv, Replies
<1>3. AccountsInv
  BY DEF PipelineInit, GateInit, AccountsInv, AccountInv, JobUpTo
<1> QED BY <1>1, <1>2, <1>3 DEF PipelineInv

-----------------------------------------------------------------------------
(* What the moves do to one account *)

LEMMA JobsDiffer ==
    ASSUME NEW k \in Keys, NEW n \in 1..MaxUploads[k]
    PROVE  /\ Snapshot(n) \in Jobs
           /\ Snapshot(n) # NoJob /\ Snapshot(n) # AuditJob
           /\ AuditJob # NoJob
           /\ Snapshot(n).kind = "snapshot" /\ Snapshot(n).upload = n /\ Snapshot(n).seq = 1
<1>1. MaxUploads[k] \in Nat /\ 1 \in 1..MaxUploads[k]
  BY PipelineAssumption
<1>2. Snapshot(n) \in Jobs /\ AuditJob \in Jobs
  BY <1>1, PipelineAssumption DEF Snapshot
<1>3. Snapshot(n) # AuditJob
  BY DEF Snapshot, SnapshotJob, AuditJob
<1>4. Snapshot(n).kind = "snapshot" /\ Snapshot(n).upload = n /\ Snapshot(n).seq = 1
  BY DEF Snapshot, SnapshotJob
<1> QED BY <1>2, <1>3, <1>4, GateAssumption

LEMMA SnapshotInjective ==
    \A m, n : Snapshot(m) = Snapshot(n) => m = n
<1> SUFFICES ASSUME NEW m, NEW n, Snapshot(m) = Snapshot(n) PROVE m = n
  OBVIOUS
<1>1. Snapshot(m).upload = m /\ Snapshot(n).upload = n
  BY DEF Snapshot, SnapshotJob
<1> QED BY <1>1

\* A pending job is started, by the drain or at the end of another one.
LEMMA Started ==
    ASSUME NEW p, NEW r, NEW s, NEW ses, NEW e, NEW d,
           AccountInv(p, r, s, ses, e, d),
           d = 0 \/ r # Snapshot(d) \/ s,
           \A n \in 1..ses.upload : Snapshot(n) # NoJob
    PROVE  AccountInv(NoJob, p, FALSE, ses, e, d)
BY DEF AccountInv, JobUpTo

\* A job ends and no other is started.
LEMMA Ended ==
    ASSUME NEW p, NEW r, NEW s, NEW ses, NEW e, NEW d,
           AccountInv(p, r, s, ses, e, d),
           d = 0 \/ r # Snapshot(d) \/ s,
           \A n \in 1..ses.upload : Snapshot(n) # NoJob
    PROVE  AccountInv(p, NoJob, FALSE, ses, e, d)
BY DEF AccountInv, JobUpTo

\* The snapshot owed is given up.
LEMMA GivenUp ==
    ASSUME NEW p, NEW r, NEW s, NEW ses, NEW e, NEW d,
           AccountInv(p, r, s, ses, e, d)
    PROVE  AccountInv(p, r, s, ses, e, 0)
BY DEF AccountInv

LEMMA RebuiltIs == \A n : Rebuilt(n) = [upload |-> n, seq |-> 1]
<1> SUFFICES ASSUME NEW n PROVE Rebuilt(n) = [upload |-> n, seq |-> 1]
  OBVIOUS
<1> DEFINE fresh == [upload |-> n, seq |-> 0]
<1>1. fresh \in [upload : {n}, seq : Nat] /\ fresh.seq + 1 = 1 /\ fresh.upload = n
  OBVIOUS
<1>2. Rebuilt(n) = [fresh EXCEPT !.seq = fresh.seq + 1]
  BY Zenon DEF Rebuilt
<1> HIDE DEF fresh
<1> QED BY <1>1, <1>2

\* A new snapshot, or the session's again, takes the slot.
LEMMA Replaced ==
    ASSUME NEW p, NEW r, NEW s, NEW ses, NEW e, NEW d, NEW n \in Nat \ {0},
           AccountInv(p, r, s, ses, e, d), ses.upload <= n,
           \A m \in 1..n : Snapshot(m) # NoJob /\ Snapshot(m) # AuditJob
    PROVE  AccountInv(Snapshot(n), r, s, Rebuilt(n), e, n)
<1>1. Rebuilt(n) = [upload |-> n, seq |-> 1]
  BY RebuiltIs
<1>2. ses.upload \in Nat /\ 1..ses.upload \subseteq 1..n /\ n \in 1..n
  BY DEF AccountInv
<1> QED BY <1>1, <1>2, SnapshotInjective DEF AccountInv, JobUpTo

\* It is started at once, where the worker was idle.
LEMMA StartedAtOnce ==
    ASSUME NEW p, NEW r, NEW s, NEW ses, NEW e, NEW d, NEW n \in Nat \ {0},
           AccountInv(p, r, s, ses, e, d), ses.upload <= n,
           \A m \in 1..n : Snapshot(m) # NoJob /\ Snapshot(m) # AuditJob
    PROVE  AccountInv(NoJob, Snapshot(n), FALSE, Rebuilt(n), e, n)
<1>1. Rebuilt(n) = [upload |-> n, seq |-> 1]
  BY RebuiltIs
<1>2. ses.upload \in Nat /\ 1..ses.upload \subseteq 1..n /\ n \in 1..n
  BY DEF AccountInv
<1> QED BY <1>1, <1>2, SnapshotInjective DEF AccountInv, JobUpTo

\* The session is replaced without a job for it.
LEMMA Unscheduled ==
    ASSUME NEW p, NEW r, NEW s, NEW ses, NEW e, NEW d, NEW n \in Nat \ {0},
           AccountInv(p, r, s, ses, e, d), ses.upload <= n,
           \A m \in 1..n : Snapshot(m) # NoJob /\ Snapshot(m) # AuditJob
    PROVE  AccountInv(p, r, s, Rebuilt(n), e, 0)
<1>1. Rebuilt(n) = [upload |-> n, seq |-> 1]
  BY RebuiltIs
<1>2. ses.upload \in Nat /\ 1..ses.upload \subseteq 1..n
  BY DEF AccountInv
<1>3. ASSUME NEW j, JobUpTo(j, ses.upload)
      PROVE  /\ JobUpTo(j, n)
             /\ \A m \in 1..n : j = Snapshot(m) => m \in 1..ses.upload
  BY <1>2, <1>3, SnapshotInjective DEF JobUpTo
<1> QED BY <1>1, <1>2, <1>3 DEF AccountInv

\* An audit takes the slot, or is started on an idle worker.
LEMMA AuditPending ==
    ASSUME NEW p, NEW r, NEW s, NEW ses, NEW e, NEW d,
           AccountInv(p, r, s, ses, e, d), d = 0 \/ p # Snapshot(d),
           \A n \in 1..ses.upload : Snapshot(n) # AuditJob
    PROVE  AccountInv(AuditJob, r, s, ses, e, d)
BY DEF AccountInv, JobUpTo

LEMMA AuditStarted ==
    ASSUME NEW p, NEW r, NEW s, NEW ses, NEW e, NEW d,
           AccountInv(p, r, s, ses, e, d), d = 0 \/ (p # Snapshot(d) /\ r # Snapshot(d)),
           \A n \in 1..ses.upload : Snapshot(n) # AuditJob /\ Snapshot(n) # NoJob
    PROVE  AccountInv(NoJob, AuditJob, FALSE, ses, e, d)
BY DEF AccountInv, JobUpTo

-----------------------------------------------------------------------------
(* The steps of the pipeline *)

LEMMA AccountFacts ==
    ASSUME PipelineInv, NEW k \in Keys
    PROVE  /\ session[k].upload \in Nat /\ sent[k] \in Nat /\ MaxUploads[k] \in Nat
           /\ session[k].upload <= sent[k] /\ sent[k] <= MaxUploads[k]
           /\ \A n \in 1..MaxUploads[k] : Snapshot(n) # NoJob /\ Snapshot(n) # AuditJob
           /\ \A n \in 1..session[k].upload : Snapshot(n) # NoJob /\ Snapshot(n) # AuditJob
           /\ AuditJob # NoJob
           /\ AccountInv(pending[k], running[k], k \in settling, session[k],
                         lastEnriched[k], due[k])
           /\ due[k] \in 0..session[k].upload
           /\ running[k] # NoJob <=> k \in inFlight
           /\ k \in settling => k \in inFlight
<1>1. /\ session[k] \in [upload : Nat, seq : Nat] /\ sent[k] \in Nat /\ MaxUploads[k] \in Nat
      /\ session[k].upload <= sent[k] /\ sent[k] <= MaxUploads[k]
  BY PipelineAssumption DEF PipelineInv, RouteInv
<1>2. \A n \in 1..MaxUploads[k] : Snapshot(n) # NoJob /\ Snapshot(n) # AuditJob
  BY JobsDiffer
<1>3. 1..session[k].upload \subseteq 1..MaxUploads[k]
  BY <1>1
<1>4. AuditJob # NoJob
  BY PipelineAssumption, GateAssumption
<1>5. AccountInv(pending[k], running[k], k \in settling, session[k],
                 lastEnriched[k], due[k])
  BY DEF PipelineInv, AccountsInv
<1>6. due[k] \in 0..session[k].upload
  BY <1>5 DEF AccountInv
<1>7. (running[k] # NoJob <=> k \in inFlight) /\ (k \in settling => k \in inFlight)
  BY DEF PipelineInv, GateInv, PoolInv, RunningInFlight
<1> QED BY <1>1, <1>2, <1>3, <1>4, <1>5, <1>6, <1>7

\* An account that the step is not about keeps its part of the invariant.
LEMMA OthersKeep ==
    ASSUME PipelineInv, NEW x \in Keys, Moves(x),
           session'[x] = session[x], lastEnriched'[x] = lastEnriched[x], due'[x] = due[x],
           x \in settling' <=> x \in settling
    PROVE  AccountInv(pending[x], running[x], x \in settling, session[x],
                      lastEnriched[x], due[x])'
<1>1. CASE pending'[x] = pending[x] /\ running'[x] = running[x]
  BY <1>1, AccountFacts DEF AccountInv
<1>2. CASE /\ running[x] = NoJob /\ pending[x] # NoJob
           /\ pending'[x] = NoJob /\ running'[x] = pending[x]
  <2>1. due[x] = 0 \/ running[x] # Snapshot(due[x])
    BY <1>2, AccountFacts
  <2>2. AccountInv(NoJob, pending[x], FALSE, session[x], lastEnriched[x], due[x])
    BY <2>1, AccountFacts, Started
  <2>3. x \notin settling'
    BY <1>2, AccountFacts
  <2> QED BY <1>2, <2>2, <2>3 DEF AccountInv
<1> QED BY <1>1, <1>2 DEF Moves


LEMMA HandleStep ==
    ASSUME PipelineInv, NEW k \in Keys, NEW n \in 1..MaxUploads[k], Handle(k, n)
    PROVE  AccountsInv'
<1> DEFINE job == Snapshot(n)
<1>1. /\ sent[k] \in Nat /\ session[k].upload \in Nat /\ MaxUploads[k] \in Nat
      /\ session[k].upload <= n /\ n \in Nat \ {0}
      /\ \A m \in 1..n : Snapshot(m) # NoJob /\ Snapshot(m) # AuditJob
  BY AccountFacts DEF Handle, PassesCoalescing, Posts
<1>2. job = SnapshotJob(n, Rebuilt(n).seq) /\ job \in Jobs
  BY RebuiltIs, JobsDiffer DEF Snapshot
<1>3. /\ session' = [session EXCEPT ![k] = Rebuilt(n)]
      /\ Schedule(k, job)
      /\ due' = [due EXCEPT ![k] = IF pending'[k] = job \/ running'[k] = job THEN n ELSE 0]
      /\ lastEnriched' = lastEnriched
  BY <1>2 DEF Handle
<1>4. GateInv
  BY DEF PipelineInv
<1> HIDE DEF job
<1>5. /\ \/ pending'[k] = job /\ running'[k] = running[k]
         \/ pending'[k] = NoJob /\ running'[k] = job /\ running[k] = NoJob
         \/ /\ pending[k] = NoJob /\ running[k] = NoJob
            /\ pending'[k] = NoJob /\ running'[k] = NoJob
      /\ \A x \in Keys \ {k} : Moves(x)
      /\ settling' = settling
  BY <1>2, <1>3, <1>4, ScheduleMoves
<1>6. /\ session'[k] = Rebuilt(n)
      /\ due'[k] = IF pending'[k] = job \/ running'[k] = job THEN n ELSE 0
      /\ \A x \in Keys \ {k} : session'[x] = session[x] /\ due'[x] = due[x]
  BY <1>3 DEF PipelineInv, RouteInv
<1>7. ASSUME NEW x \in Keys \ {k}
      PROVE  AccountInv(pending[x], running[x], x \in settling, session[x],
                        lastEnriched[x], due[x])'
  BY <1>3, <1>5, <1>6, OthersKeep
<1>8. AccountInv(pending[k], running[k], k \in settling, session[k],
                 lastEnriched[k], due[k])'
  <2>0. job = Snapshot(n) /\ job # NoJob
    BY <1>1 DEF job
  <2>1. CASE pending'[k] = job /\ running'[k] = running[k]
    <3>1. AccountInv(job, running[k], k \in settling, Rebuilt(n), lastEnriched[k], n)
      BY <1>1, <2>0, AccountFacts, Replaced
    <3> QED BY <1>3, <1>5, <1>6, <2>1, <3>1 DEF AccountInv
  <2>2. CASE pending'[k] = NoJob /\ running'[k] = job /\ running[k] = NoJob
    <3>1. AccountInv(NoJob, job, FALSE, Rebuilt(n), lastEnriched[k], n)
      BY <1>1, <2>0, AccountFacts, StartedAtOnce
    <3>2. k \notin settling'
      BY <1>5, <2>2, AccountFacts
    <3> QED BY <1>3, <1>6, <2>2, <3>1, <3>2 DEF AccountInv
  <2>3. CASE /\ pending[k] = NoJob /\ running[k] = NoJob
             /\ pending'[k] = NoJob /\ running'[k] = NoJob
    <3>1. AccountInv(pending[k], running[k], k \in settling, Rebuilt(n), lastEnriched[k], 0)
      BY <1>1, AccountFacts, Unscheduled
    <3>2. due'[k] = 0
      BY <1>6, <2>0, <2>3
    <3> QED BY <1>3, <1>5, <1>6, <2>3, <3>1, <3>2 DEF AccountInv
  <2> QED BY <1>5, <2>1, <2>2, <2>3
<1> QED BY <1>7, <1>8 DEF AccountsInv

LEMMA ThrowStep ==
    ASSUME PipelineInv, NEW k \in Keys, NEW n \in 1..MaxUploads[k], HandlerThrows(k, n)
    PROVE  AccountsInv'
<1>1. /\ session[k].upload <= n /\ n \in Nat \ {0}
      /\ \A m \in 1..n : Snapshot(m) # NoJob /\ Snapshot(m) # AuditJob
  BY AccountFacts DEF HandlerThrows, PassesCoalescing, Posts
<1>2. UNCHANGED <<pending, running, settling, lastEnriched>>
  BY DEF HandlerThrows, gateVars, jobVars
<1>3. CASE UNCHANGED <<session, due>>
  BY <1>2, <1>3 DEF PipelineInv, AccountsInv
<1>4. CASE /\ session' = [session EXCEPT ![k] = Rebuilt(n)]
           /\ due' = [due EXCEPT ![k] = 0]
  <2>1. /\ session'[k] = Rebuilt(n) /\ due'[k] = 0
        /\ \A x \in Keys \ {k} : session'[x] = session[x] /\ due'[x] = due[x]
    BY <1>4 DEF PipelineInv, RouteInv
  <2>2. AccountInv(pending[k], running[k], k \in settling, Rebuilt(n), lastEnriched[k], 0)
    BY <1>1, AccountFacts, Unscheduled
  <2>3. AccountInv(pending[k], running[k], k \in settling, session[k],
                   lastEnriched[k], due[k])'
    BY <1>2, <2>1, <2>2 DEF AccountInv
  <2>4. ASSUME NEW x \in Keys \ {k}
        PROVE  AccountInv(pending[x], running[x], x \in settling, session[x],
                          lastEnriched[x], due[x])'
    BY <1>2, <2>1, OthersKeep DEF Moves
  <2> QED BY <2>3, <2>4 DEF AccountsInv
<1> QED BY <1>3, <1>4 DEF HandlerThrows

LEMMA AuditRequestStep ==
    ASSUME PipelineInv, NEW k \in Keys, RefreshAudit(k)
    PROVE  AccountsInv'
<1>1. /\ Schedule(k, AuditJob) /\ AuditJob \in Jobs /\ GateInv
      /\ session' = session /\ lastEnriched' = lastEnriched
      /\ due' = [due EXCEPT ![k] = IF pending[k] # NoJob THEN 0 ELSE @]
  BY PipelineAssumption DEF RefreshAudit, PipelineInv
<1>2. /\ \/ pending'[k] = AuditJob /\ running'[k] = running[k]
         \/ pending'[k] = NoJob /\ running'[k] = AuditJob /\ running[k] = NoJob
         \/ /\ pending[k] = NoJob /\ running[k] = NoJob
            /\ pending'[k] = NoJob /\ running'[k] = NoJob
      /\ \A x \in Keys \ {k} : Moves(x)
      /\ settling' = settling
  BY <1>1, ScheduleMoves
<1>3. /\ due'[k] = IF pending[k] # NoJob THEN 0 ELSE due[k]
      /\ \A x \in Keys \ {k} : due'[x] = due[x]
  BY <1>1 DEF PipelineInv, RouteInv
<1>4. ASSUME NEW x \in Keys \ {k}
      PROVE  AccountInv(pending[x], running[x], x \in settling, session[x],
                        lastEnriched[x], due[x])'
  BY <1>1, <1>2, <1>3, OthersKeep
<1>5. AccountInv(pending[k], running[k], k \in settling, session[k],
                 lastEnriched[k], due'[k])
  BY <1>3, AccountFacts, GivenUp
<1>6. due'[k] = 0 \/ pending[k] # Snapshot(due'[k])
  BY <1>3, AccountFacts
<1>7. AccountInv(pending[k], running[k], k \in settling, session[k],
                 lastEnriched[k], due[k])'
  <2>1. CASE pending'[k] = AuditJob /\ running'[k] = running[k]
    <3>1. AccountInv(AuditJob, running[k], k \in settling, session[k],
                     lastEnriched[k], due'[k])
      BY <1>5, <1>6, AccountFacts, AuditPending
    <3> QED BY <1>1, <1>2, <2>1, <3>1 DEF AccountInv
  <2>2. CASE pending'[k] = NoJob /\ running'[k] = AuditJob /\ running[k] = NoJob
    <3>1. due'[k] = 0 \/ running[k] # Snapshot(due'[k])
      BY <1>3, <2>2, AccountFacts
    <3>2. AccountInv(NoJob, AuditJob, FALSE, session[k], lastEnriched[k], due'[k])
      BY <1>5, <1>6, <3>1, AccountFacts, AuditStarted
    <3>3. k \notin settling'
      BY <1>2, <2>2, AccountFacts
    <3> QED BY <1>1, <2>2, <3>2, <3>3 DEF AccountInv
  <2>3. CASE /\ pending[k] = NoJob /\ running[k] = NoJob
             /\ pending'[k] = NoJob /\ running'[k] = NoJob
    BY <1>1, <1>2, <1>5, <2>3 DEF AccountInv
  <2> QED BY <1>2, <2>1, <2>2, <2>3
<1> QED BY <1>4, <1>7 DEF AccountsInv

\* The gate's part of the job's life: how the accounts move when k's job ends.
LEMMA FinishedStep ==
    ASSUME PipelineInv, NEW k \in inFlight, FinishDeferred(k),
           UNCHANGED <<session, lastEnriched>>,
           NEW d \in {due[k], 0}, due' = [due EXCEPT ![k] = d],
           d = 0 \/ running[k] # Snapshot(d) \/ k \in settling
    PROVE  AccountsInv'
<1>0. k \in Keys /\ GateInv /\ inFlight \subseteq Keys
  BY DEF PipelineInv, GateInv, PoolInv
<1>1. /\ \/ pending'[k] = pending[k] /\ running'[k] = NoJob
         \/ pending[k] # NoJob /\ pending'[k] = NoJob /\ running'[k] = pending[k]
      /\ \A x \in Keys \ {k} : Moves(x)
      /\ settling' = settling \ {k}
  BY <1>0, FinishMoves
<1>2. due'[k] = d /\ \A x \in Keys \ {k} : due'[x] = due[x]
  BY <1>0 DEF PipelineInv, RouteInv
<1>3. ASSUME NEW x \in Keys \ {k}
      PROVE  AccountInv(pending[x], running[x], x \in settling, session[x],
                        lastEnriched[x], due[x])'
  BY <1>1, <1>2, OthersKeep
<1>4. AccountInv(pending[k], running[k], k \in settling, session[k], lastEnriched[k], d)
  BY <1>0, AccountFacts, GivenUp
<1>5. \A n \in 1..session[k].upload : Snapshot(n) # NoJob
  BY <1>0, AccountFacts
<1>6. AccountInv(pending[k], running[k], k \in settling, session[k],
                 lastEnriched[k], due[k])'
  <2>1. CASE pending'[k] = pending[k] /\ running'[k] = NoJob
    <3>1. AccountInv(pending[k], NoJob, FALSE, session[k], lastEnriched[k], d)
      BY <1>4, <1>5, Ended
    <3> QED BY <1>1, <1>2, <2>1, <3>1 DEF AccountInv
  <2>2. CASE pending[k] # NoJob /\ pending'[k] = NoJob /\ running'[k] = pending[k]
    <3>1. AccountInv(NoJob, pending[k], FALSE, session[k], lastEnriched[k], d)
      BY <1>4, <1>5, Started
    <3> QED BY <1>1, <1>2, <2>2, <3>1 DEF AccountInv
  <2> QED BY <1>1, <2>1, <2>2
<1> QED BY <1>3, <1>6 DEF AccountsInv

\* A running snapshot job holds a snapshot of the session's sequence.
LEMMA RunningSnapshot ==
    ASSUME PipelineInv, NEW k \in Keys, k \in inFlight, running[k].kind = "snapshot"
    PROVE  /\ ~Superseded(k)
           /\ \E n \in 1..session[k].upload :
                running[k] = Snapshot(n) /\ running[k].upload = n
<1>1. AuditJob.kind # "snapshot"
  BY DEF AuditJob
<1>2. running[k] # NoJob /\ running[k] # AuditJob
  BY <1>1, AccountFacts
<1>3. PICK n \in 1..session[k].upload : running[k] = Snapshot(n)
  BY <1>2, AccountFacts DEF AccountInv, JobUpTo
<1>4. n \in 1..MaxUploads[k]
  BY AccountFacts
<1>5. running[k].upload = n /\ running[k].seq = 1
  BY <1>3, <1>4, JobsDiffer
<1>6. session[k].seq = 1
  BY AccountFacts DEF AccountInv
<1> QED BY <1>3, <1>5, <1>6 DEF Superseded

LEMMA EnrichStep ==
    ASSUME PipelineInv, NEW k \in Keys, Enrich(k)
    PROVE  AccountsInv' /\ \A x \in Keys : lastEnriched'[x] >= lastEnriched[x]
<1>1. PICK n \in 1..session[k].upload : running[k] = Snapshot(n) /\ running[k].upload = n
  BY RunningSnapshot DEF Enrich
<1>2. /\ lastEnriched'[k] = n
      /\ \A x \in Keys \ {k} : lastEnriched'[x] = lastEnriched[x]
  BY <1>1 DEF Enrich, PipelineInv, RouteInv
<1>3. /\ UNCHANGED <<pending, running, session, due>>
      /\ settling' = settling \cup {k}
  BY DEF Enrich, RunAsync
<1>4. /\ AccountInv(pending[k], running[k], TRUE, session[k], n, due[k])
      /\ lastEnriched[k] <= n
  <2>1. AccountInv(pending[k], running[k], k \in settling, session[k],
                   lastEnriched[k], due[k])
    BY AccountFacts
  <2> QED BY <1>1, <2>1, SnapshotInjective DEF AccountInv
<1>5. AccountInv(pending[k], running[k], k \in settling, session[k],
                 lastEnriched[k], due[k])'
  BY <1>2, <1>3, <1>4 DEF AccountInv
<1>6. ASSUME NEW x \in Keys \ {k}
      PROVE  AccountInv(pending[x], running[x], x \in settling, session[x],
                        lastEnriched[x], due[x])'
  BY <1>2, <1>3, OthersKeep DEF Moves
<1>7. \A x \in Keys : lastEnriched[x] \in Nat
  BY DEF PipelineInv, RouteInv
<1>8. ASSUME NEW x \in Keys PROVE lastEnriched'[x] >= lastEnriched[x]
  BY <1>2, <1>4, <1>7
<1> QED BY <1>5, <1>6, <1>8 DEF AccountsInv

LEMMA EndStep ==
    ASSUME PipelineInv, NEW k \in Keys, EndWithoutEnriching(k)
    PROVE  AccountsInv'
<1>1. PICK n \in 1..session[k].upload : running[k] = Snapshot(n) /\ running[k].upload = n
  BY RunningSnapshot DEF EndWithoutEnriching
<1>2. ~Superseded(k)
  BY RunningSnapshot DEF EndWithoutEnriching
<1> DEFINE d == IF due[k] = n THEN 0 ELSE due[k]
<1>3. /\ k \in inFlight /\ FinishDeferred(k)
      /\ UNCHANGED <<session, lastEnriched>>
      /\ due' = [due EXCEPT ![k] = d]
  BY <1>1, <1>2 DEF EndWithoutEnriching, RunToCompletion
<1>4. d \in {due[k], 0} /\ (d = 0 \/ running[k] # Snapshot(d))
  BY <1>1, SnapshotInjective
<1> HIDE DEF d
<1> QED BY <1>3, <1>4, FinishedStep

LEMMA SettleStep ==
    ASSUME PipelineInv, NEW k \in Keys, Persisted(k)
    PROVE  AccountsInv'
<1>1. k \in settling /\ k \in inFlight /\ FinishDeferred(k)
  BY AccountFacts DEF Persisted, Settle
<1>2. due' = [due EXCEPT ![k] = due[k]] /\ UNCHANGED <<session, lastEnriched>>
  BY DEF Persisted, routeVars, PipelineInv, RouteInv
<1> QED BY <1>1, <1>2, FinishedStep

-----------------------------------------------------------------------------
(* Safety *)

\* What the pipeline does to the gate's collections is a step of the gate.
LEMMA PipelineStepsGate ==
    ASSUME PipelineInv, [PipelineNext]_pipelineVars
    PROVE  [GateNext]_gateVars
<1>1. ASSUME NEW k \in Keys, NEW n \in 1..MaxUploads[k],
             Coalesce(k, n) \/ Busy503(k, n) \/ HandlerThrows(k, n)
      PROVE  UNCHANGED gateVars
  BY <1>1 DEF Coalesce, Busy503, HandlerThrows
<1>2. ASSUME NEW k \in Keys, NEW n \in 1..MaxUploads[k], Handle(k, n)
      PROVE  GateNext
  <2>1. SnapshotJob(n, Rebuilt(n).seq) \in Jobs
    BY RebuiltIs, JobsDiffer DEF Snapshot
  <2> QED BY <1>2, <2>1 DEF Handle, GateNext
<1>3. ASSUME NEW k \in Keys, RefreshAudit(k) PROVE GateNext
  BY <1>3, PipelineAssumption DEF RefreshAudit, GateNext
<1>4. ASSUME NEW k \in Keys, WindowPasses(k) PROVE UNCHANGED gateVars
  BY <1>4 DEF WindowPasses
<1>5. ASSUME NEW k \in Keys,
             Enrich(k) \/ EndWithoutEnriching(k) \/ Audit(k) \/ Persisted(k)
      PROVE  GateNext
  BY <1>5 DEF Enrich, EndWithoutEnriching, Audit, Persisted, GateNext, GateInternal
<1>6. ASSUME Background PROVE GateNext
  BY <1>6 DEF Background, GateNext, GateInternal
<1>7. UNCHANGED pipelineVars => UNCHANGED gateVars
  BY DEF pipelineVars
<1> QED BY <1>1, <1>2, <1>3, <1>4, <1>5, <1>6, <1>7 DEF PipelineNext

LEMMA PipelineRouteInv ==
    ASSUME PipelineInv, [PipelineNext]_pipelineVars
    PROVE  RouteInv'
<1> USE PipelineAssumption DEF PipelineInv, RouteInv, Replies
<1>1. ASSUME NEW k \in Keys, NEW n \in 1..MaxUploads[k], PassesCoalescing(k, n)
      PROVE  /\ recent' \in [Keys -> Nat] /\ sent' \in [Keys -> Nat]
             /\ n <= sent'[k]
             /\ \A x \in Keys : /\ recent'[x] <= sent'[x] /\ sent[x] <= sent'[x]
                                /\ sent'[x] <= MaxUploads[x]
  BY <1>1 DEF PassesCoalescing, Posts
<1>2. ASSUME NEW k \in Keys, NEW n \in 1..MaxUploads[k]
      PROVE  Rebuilt(n) \in [upload : Nat, seq : Nat] /\ Rebuilt(n).upload = n
  BY RebuiltIs
<1>3. ASSUME NEW k \in Keys, NEW n \in 1..MaxUploads[k], Coalesce(k, n) PROVE RouteInv'
  BY <1>3 DEF Coalesce, Posts
<1>4. ASSUME NEW k \in Keys, NEW n \in 1..MaxUploads[k], Busy503(k, n) PROVE RouteInv'
  BY <1>1, <1>4 DEF Busy503
<1>5. ASSUME NEW k \in Keys, NEW n \in 1..MaxUploads[k], Handle(k, n) PROVE RouteInv'
  <2>1. /\ session' = [session EXCEPT ![k] = Rebuilt(n)]
        /\ due' \in [Keys -> Nat] /\ lastEnriched' \in [Keys -> Nat]
        /\ reply' = [reply EXCEPT ![k] = "accepted"] /\ PassesCoalescing(k, n)
    BY <1>5 DEF Handle
  <2> QED BY <1>1, <1>2, <2>1
<1>6. ASSUME NEW k \in Keys, NEW n \in 1..MaxUploads[k], HandlerThrows(k, n) PROVE RouteInv'
  <2>1. /\ session' = session \/ session' = [session EXCEPT ![k] = Rebuilt(n)]
        /\ due' \in [Keys -> Nat] /\ lastEnriched' \in [Keys -> Nat]
        /\ reply' = [reply EXCEPT ![k] = "error202"] /\ PassesCoalescing(k, n)
    BY <1>6 DEF HandlerThrows
  <2>2. CASE session' = session
    BY <1>1, <2>1, <2>2
  <2>3. CASE session' = [session EXCEPT ![k] = Rebuilt(n)]
    BY <1>1, <1>2, <2>1, <2>3
  <2> QED BY <2>1, <2>2, <2>3
<1>7. ASSUME NEW k \in Keys, RefreshAudit(k) \/ WindowPasses(k) PROVE RouteInv'
  BY <1>7 DEF RefreshAudit, WindowPasses
<1>8. ASSUME NEW k \in Keys, Enrich(k) PROVE RouteInv'
  <2>1. running[k].upload \in Nat
    BY <1>8, RunningSnapshot DEF Enrich
  <2> QED BY <1>8, <2>1 DEF Enrich
<1>9. ASSUME NEW k \in Keys, EndWithoutEnriching(k) PROVE RouteInv'
  BY <1>9 DEF EndWithoutEnriching
<1>10. ASSUME NEW k \in Keys, Audit(k) \/ Persisted(k) PROVE RouteInv'
  BY <1>10 DEF Audit, Persisted, routeVars
<1>11. ASSUME Background \/ UNCHANGED pipelineVars PROVE RouteInv'
  BY <1>11 DEF Background, pipelineVars, routeVars
<1> QED BY <1>3, <1>4, <1>5, <1>6, <1>7, <1>8, <1>9, <1>10, <1>11 DEF PipelineNext

LEMMA AuditStep ==
    ASSUME PipelineInv, NEW k \in Keys, Audit(k)
    PROVE  AccountsInv'
<1>1. /\ UNCHANGED <<pending, running, session, lastEnriched, due>>
      /\ settling' = settling \cup {k}
  BY DEF Audit, RunAsync, routeVars
<1>2. running[k] # Snapshot(due[k])
  <2>1. Snapshot(due[k]).kind = "snapshot"
    BY DEF Snapshot, SnapshotJob
  <2> QED BY <2>1 DEF Audit
<1>3. AccountInv(pending[k], running[k], k \in settling, session[k],
                 lastEnriched[k], due[k])'
  BY <1>1, <1>2, AccountFacts DEF AccountInv
<1>4. ASSUME NEW x \in Keys \ {k}
      PROVE  AccountInv(pending[x], running[x], x \in settling, session[x],
                        lastEnriched[x], due[x])'
  BY <1>1, OthersKeep DEF Moves
<1> QED BY <1>3, <1>4 DEF AccountsInv

LEMMA BackgroundStep ==
    ASSUME PipelineInv, Background
    PROVE  AccountsInv'
<1>1. UNCHANGED <<session, lastEnriched, due, settling>>
  BY DEF Background, routeVars, DrainTick, LagSample, HeapChange, jobVars
<1>2. \A x \in Keys : Moves(x)
  <2>1. GateInv
    BY DEF PipelineInv
  <2> QED BY <2>1, DrainTickMoves DEF Background, LagSample, HeapChange, jobVars, Moves
<1> QED BY <1>1, <1>2, OthersKeep DEF AccountsInv

\* No step disturbs the invariant, and none takes an enrichment back.
LEMMA PipelineNextInv ==
    ASSUME PipelineInv, [PipelineNext]_pipelineVars
    PROVE  PipelineInv' /\ \A x \in Keys : lastEnriched'[x] >= lastEnriched[x]
<1>1. GateInv'
  BY PipelineStepsGate, NextInv DEF PipelineInv
<1>2. RouteInv'
  BY PipelineRouteInv
<1> DEFINE Monotone == \A x \in Keys : lastEnriched'[x] >= lastEnriched[x]
<1>3. lastEnriched' = lastEnriched => Monotone
  BY DEF PipelineInv, RouteInv
<1> HIDE DEF Monotone
<1>4. ASSUME NEW k \in Keys, NEW n \in 1..MaxUploads[k], Coalesce(k, n) \/ Busy503(k, n)
      PROVE  AccountsInv' /\ Monotone
  BY <1>3, <1>4 DEF Coalesce, Busy503, gateVars, jobVars, PipelineInv, AccountsInv
<1>5. ASSUME NEW k \in Keys, NEW n \in 1..MaxUploads[k], Handle(k, n)
      PROVE  AccountsInv' /\ Monotone
  BY <1>3, <1>5, HandleStep DEF Handle
<1>6. ASSUME NEW k \in Keys, NEW n \in 1..MaxUploads[k], HandlerThrows(k, n)
      PROVE  AccountsInv' /\ Monotone
  BY <1>3, <1>6, ThrowStep DEF HandlerThrows
<1>7. ASSUME NEW k \in Keys, RefreshAudit(k) PROVE AccountsInv' /\ Monotone
  BY <1>3, <1>7, AuditRequestStep DEF RefreshAudit
<1>8. ASSUME NEW k \in Keys, WindowPasses(k) PROVE AccountsInv' /\ Monotone
  BY <1>3, <1>8 DEF WindowPasses, gateVars, jobVars, PipelineInv, AccountsInv
<1>9. ASSUME NEW k \in Keys, Enrich(k) PROVE AccountsInv' /\ Monotone
  BY <1>9, EnrichStep DEF Monotone
<1>10. ASSUME NEW k \in Keys, EndWithoutEnriching(k) PROVE AccountsInv' /\ Monotone
  BY <1>3, <1>10, EndStep DEF EndWithoutEnriching
<1>11. ASSUME NEW k \in Keys, Audit(k) PROVE AccountsInv' /\ Monotone
  BY <1>3, <1>11, AuditStep DEF Audit, routeVars
<1>12. ASSUME NEW k \in Keys, Persisted(k) PROVE AccountsInv' /\ Monotone
  BY <1>3, <1>12, SettleStep DEF Persisted, routeVars
<1>13. ASSUME Background PROVE AccountsInv' /\ Monotone
  BY <1>3, <1>13, BackgroundStep DEF Background, routeVars
<1>14. ASSUME UNCHANGED pipelineVars PROVE AccountsInv' /\ Monotone
  BY <1>3, <1>14 DEF pipelineVars, routeVars, gateVars, jobVars, PipelineInv, AccountsInv
<1>15. AccountsInv' /\ Monotone
  BY <1>4, <1>5, <1>6, <1>7, <1>8, <1>9, <1>10, <1>11, <1>12, <1>13, <1>14 DEF PipelineNext
<1> QED BY <1>1, <1>2, <1>15 DEF PipelineInv, Monotone

\* The inductive invariant holds in every reachable state of the pipeline.
THEOREM PipelineInvariance == PipelineSpec => []PipelineInv
<1>1. PipelineInv /\ [PipelineNext]_pipelineVars => PipelineInv'
  BY PipelineNextInv
<1> QED BY <1>1, PipelineInitInv, PTL DEF PipelineSpec

\* The route uses the gate as the gate allows: with jobs it knows, and without
\* touching its collections otherwise, so that what is proved of the gate alone
\* (LatestWins, the limits, the shedding) holds under the route.
THEOREM PipelineUsesGate == PipelineSpec => GateSpec
<1>1. PipelineInit => GateInit
  BY DEF PipelineInit
<1>2. PipelineInv /\ [PipelineNext]_pipelineVars => [GateNext]_gateVars
  BY PipelineStepsGate
<1> QED BY <1>1, <1>2, PipelineInvariance, PTL DEF PipelineSpec, GateSpec

\* Sessions, replies and enrichments keep their types, and no account is ahead
\* of what its client has sent.
THEOREM PipelineTypeCorrect == PipelineSpec => []PipelineTypeOK
BY PipelineInvariance, PipelineInvTyped, PTL

\* "latest snapshot wins": an account whose jobs are all done has had the
\* newest snapshot the gate accepted for it enriched.
THEOREM NewestIsEnriched == PipelineSpec => []LatestSnapshotEnriched
<1>1. ASSUME PipelineInv PROVE LatestSnapshotEnriched
  <2> SUFFICES ASSUME NEW k \in Keys,
                      pending[k] = NoJob, k \notin inFlight, due[k] # 0
               PROVE  lastEnriched[k] = due[k] /\ session[k].upload >= due[k]
    BY DEF LatestSnapshotEnriched
  <2>1. due[k] \in 1..session[k].upload /\ running[k] = NoJob
    BY <1>1, AccountFacts
  <2>2. Snapshot(due[k]) # NoJob
    BY <1>1, <2>1, AccountFacts
  <2>3. AccountInv(pending[k], running[k], k \in settling, session[k],
                   lastEnriched[k], due[k])
    BY <1>1, AccountFacts
  <2> QED BY <2>1, <2>2, <2>3 DEF AccountInv
<1> QED BY <1>1, PipelineInvariance, PTL

\* Enrichment never goes back to an older snapshot, although the sequence check
\* of the jobs never fires.
THEOREM EnrichmentInOrder == PipelineSpec => EnrichmentMonotone
<1> DEFINE Monotone == \A k \in Keys : lastEnriched'[k] >= lastEnriched[k]
<1>1. PipelineInv /\ [PipelineNext]_pipelineVars => [Monotone]_pipelineVars
  BY PipelineNextInv
<1> QED BY <1>1, PipelineInvariance, PTL DEF PipelineSpec, EnrichmentMonotone

-----------------------------------------------------------------------------
(* What the composition inherits, and what it refines                      *)

\* Under the route with its retries, audits and errors the gate still refines
\* the latest-wins mailbox, strands nothing, keeps its slots and its backlog
\* within their limits, and starts nothing while it sheds.
THEOREM RouteKeepsGatePromises ==
    PipelineSpec => /\ LatestWins
                    /\ SheddingStartsNothing
                    /\ [](NothingStranded /\ SlotAccounting /\ BacklogBounded)
BY PipelineUsesGate, RefinesMailbox, ShedStartsNothing, NoneStranded, SlotsAccounted,
   BacklogWithinLimit, PTL

\* A session is replaced, if at all, by one rebuilt from a snapshot that is no
\* older, and nothing is enriched in that step.
LEMMA SessionMoves ==
    ASSUME PipelineInv, [PipelineNext]_pipelineVars
    PROVE  \/ session' = session
           \/ /\ lastEnriched' = lastEnriched
              /\ \E k \in Keys : \E n \in 1..MaxUploads[k] :
                    /\ session' = [session EXCEPT ![k] = Rebuilt(n)]
                    /\ n >= session[k].upload
<1>1. ASSUME NEW k \in Keys, NEW n \in 1..MaxUploads[k], Posts(k, n)
      PROVE  n >= session[k].upload
  BY <1>1, AccountFacts DEF Posts
<1>2. ASSUME NEW k \in Keys, NEW n \in 1..MaxUploads[k], Handle(k, n) \/ HandlerThrows(k, n)
      PROVE  /\ n >= session[k].upload
             /\ lastEnriched' = lastEnriched
             /\ session' = session \/ session' = [session EXCEPT ![k] = Rebuilt(n)]
  BY <1>1, <1>2 DEF Handle, HandlerThrows, PassesCoalescing
<1>3. ASSUME NEW k \in Keys,
             \/ \E n \in 1..MaxUploads[k] : Coalesce(k, n) \/ Busy503(k, n)
             \/ RefreshAudit(k) \/ WindowPasses(k) \/ Enrich(k)
             \/ EndWithoutEnriching(k) \/ Audit(k) \/ Persisted(k)
      PROVE  session' = session
  BY <1>3 DEF Coalesce, Busy503, RefreshAudit, WindowPasses, Enrich,
              EndWithoutEnriching, Audit, Persisted, routeVars
<1>4. Background \/ UNCHANGED pipelineVars => session' = session
  BY DEF Background, pipelineVars, routeVars
<1> QED BY <1>2, <1>3, <1>4 DEF PipelineNext

LEMMA TrailSteps ==
    ASSUME PipelineInv, [PipelineNext]_pipelineVars, NEW k \in Keys
    PROVE  Trail!TrailStep(k)
<1> USE DEF Trail!TrailStep, Trail!Advance, Trail!Follow, Trail!Rest
<1>1. PipelineInv' /\ lastEnriched'[k] >= lastEnriched[k]
  BY PipelineNextInv
<1>2. /\ session[k].upload \in Nat /\ lastEnriched[k] \in Nat
      /\ session \in [Keys -> [upload : Nat, seq : Nat]]
  BY DEF PipelineInv, RouteInv
<1>3. lastEnriched'[k] \in Nat /\ lastEnriched'[k] <= session'[k].upload
  BY <1>1 DEF PipelineInv, AccountsInv, AccountInv, RouteInv
<1>4. CASE session' = session
  BY <1>1, <1>2, <1>3, <1>4
<1>5. ASSUME lastEnriched' = lastEnriched,
             NEW a \in Keys, NEW n \in 1..MaxUploads[a],
             session' = [session EXCEPT ![a] = Rebuilt(n)],
             n >= session[a].upload
      PROVE  Trail!TrailStep(k)
  <2>1. Rebuilt(n).upload = n
    BY RebuiltIs
  <2>2. session'[k].upload = IF a = k THEN n ELSE session[k].upload
    BY <1>2, <1>5, <2>1
  <2>3. n \in Int
    OBVIOUS
  <2> QED BY <1>2, <1>5, <2>2, <2>3
<1> QED BY <1>4, <1>5, SessionMoves

\* Enrichment, behind its scheduler and with a sequence check that never fires,
\* trails the live session for any number of accounts, uploads and audits.
THEOREM EnrichmentRefinesTrail == PipelineSpec => EnrichmentTrails
<1> DEFINE Steps == \A t \in Keys : Trail!TrailStep(t)
<1>1. PipelineInit => Trail!TrailInit
  BY DEF PipelineInit, Trail!TrailInit
<1>2. PipelineInv /\ [PipelineNext]_pipelineVars => [Steps]_(Trail!trailVars)
  BY TrailSteps
<1> QED BY <1>1, <1>2, PipelineInvariance, PTL
        DEF PipelineSpec, EnrichmentTrails, Trail!TrailSpec
=============================================================================
