------------------------ MODULE KeyGeneration_proofs ------------------------
(***************************************************************************)
(* Proofs about KeyGeneration: its type invariant, the exclusion of the    *)
(* per-user lock, that an ad yields at most one key, that an attempt which *)
(* is over stays so, that a recorded key has been stored, and that a       *)
(* second unredeemed key needs a mishap.                                   *)
(***************************************************************************)
EXTENDS KeyGeneration, FiniteSetTheorems, TLAPS

USE DEF Statuses, Open, Spent, KeyStates, StartSteps, Steps, Critical, cacheVars

(* Type invariant *)

LEMMA ReadTypes ==
    ASSUME KeyTypeOK
    PROVE  /\ NoCache \in Answers /\ Cached({}) \in Answers
           /\ Cached(Unredeemed) \in Answers
BY DEF KeyTypeOK, NoCache, Cached, Answers, Unredeemed

LEMMA LookedTypes ==
    ASSUME KeyTypeOK, Looked \/ LookupErrs
    PROVE  cache' \in Answers
BY ReadTypes DEF KeyTypeOK, Looked, LookupErrs

LEMMA LookUpTypes ==
    ASSUME KeyTypeOK, NEW r \in Requests,
           NEW from, NEW to \in Steps, LookUp(r, from, to)
    PROVE  KeyTypeOK'
<1>1. cache' \in Answers
  BY LookedTypes DEF LookUp, KeyTypeOK
<1>2. mishap' \in BOOLEAN
  BY DEF LookUp, LookupErrs, KeyTypeOK
<1>3. \/ Leave(r, from)
      \/ Proceed(r, from, to)
  BY DEF LookUp
<1> QED
  BY <1>1, <1>2, <1>3 DEF KeyTypeOK, LookUp, Leave, Proceed, Moves,
                          rowVars, attemptVars, lockVars

LEMMA StartTypes ==
    ASSUME KeyTypeOK, NEW c \in Attempts, StartStep(c)
    PROVE  KeyTypeOK'
<1> USE DEF KeyTypeOK, StartMoves, lockVars
<1>1. CASE StartLooks(c)
  <2>1. cache' \in Answers /\ mishap' \in BOOLEAN
    BY <1>1, LookedTypes DEF StartLooks, LookupErrs
  <2> QED
    BY <1>1, <2>1 DEF StartLooks
<1>2. CASE CleanUp(c)
  BY <1>2 DEF CleanUp, Expire, OpenAttempts
<1>3. CASE CreateChallenge(c)
  BY <1>3 DEF CreateChallenge
<1>4. CASE ReadOpenAttempts(c)
  BY <1>4 DEF ReadOpenAttempts, OpenAttempts
<1>5. CASE \E d \in Attempts : Supersede(c, d)
  BY <1>5 DEF Supersede
<1>6. CASE SelectProvider(c)
  BY <1>6 DEF SelectProvider
<1>7. CASE MarkPending(c)
  BY <1>7 DEF MarkPending
<1>8. CASE StartFails(c)
  BY <1>8 DEF StartFails
<1>9. CASE PageCleansUp(c)
  BY <1>9 DEF PageCleansUp, Expire, OpenAttempts
<1>10. CASE PageResumes(c)
  BY <1>10 DEF PageResumes
<1>11. CASE PageFindsNone(c)
  BY <1>11 DEF PageFindsNone
<1>12. CASE PageSupersedes(c)
  BY <1>12 DEF PageSupersedes
<1>13. CASE PageCreates(c)
  BY <1>13 DEF PageCreates
<1>14. CASE StartAllowed(c)
  BY <1>14 DEF StartAllowed
<1> QED
  BY <1>1, <1>2, <1>3, <1>4, <1>5, <1>6, <1>7, <1>8, <1>9, <1>10, <1>11, <1>12, <1>13,
     <1>14 DEF StartStep

LEMMA RequestTypes ==
    ASSUME KeyTypeOK, NEW r \in Requests, RequestStep(r)
    PROVE  KeyTypeOK'
<1> USE DEF KeyTypeOK, Moves, Proceed, Leave, rowVars, attemptVars, lockVars
<1>1. CASE LoadAttempt(r)
  BY <1>1 DEF LoadAttempt
<1>2. CASE Join(r)
  BY <1>2 DEF Join
<1>3. CASE Enter(r)
  BY <1>3 DEF Enter
<1>4. CASE Check(r) \/ Recheck(r) \/ Duplicate(r)
  BY <1>4, LookUpTypes DEF Check, Recheck, Duplicate
<1>5. CASE CheckCooldown(r)
  BY <1>5 DEF CheckCooldown
<1>6. CASE Consume(r)
  BY <1>6 DEF Consume
<1>7. CASE ConsumeConflicts(r)
  BY <1>7 DEF ConsumeConflicts
<1>8. CASE AnswerConflict(r)
  BY <1>8 DEF AnswerConflict
<1>9. CASE SendInsert(r)
  <2>1. cache' \in Answers
    <3>1. cache \in Answers /\ row[r] \in Attempts
      OBVIOUS
    <3>2. \/ cache' = cache
          \/ cache' = [cache EXCEPT !.predates = cache.predates \cup {row[r]}]
      BY <1>9 DEF SendInsert
    <3> HIDE DEF KeyTypeOK
    <3> QED
      BY <3>1, <3>2 DEF Answers
  <2> QED
    BY <1>9, <2>1 DEF SendInsert
<1>10. CASE InsertConfirmed(r) \/ InsertRefused(r) \/ InsertTimesOut(r)
  BY <1>10 DEF InsertConfirmed, InsertRefused, InsertTimesOut
<1>11. CASE Fail(r)
  BY <1>11 DEF Fail
<1>12. CASE FinalizeFails(r)
  BY <1>12 DEF FinalizeFails
<1>13. CASE Finalize(r)
  <2>1. CASE status[row[r]] = "ad_completed"
    <3>1. row[r] \in Attempts /\ pc' \in [Requests -> Steps]
      BY <1>13 DEF Finalize
    <3>2. status' \in [Attempts -> Statuses]
      BY <1>13, <2>1, <3>1 DEF Finalize
    <3>3. keyOf' \in [Attempts -> Requests \cup {NoRequest}]
      BY <1>13, <2>1, <3>1 DEF Finalize
    <3>4. cooling' \in [Attempts -> BOOLEAN]
      <4>1. cooling \in [Attempts -> BOOLEAN]
        OBVIOUS
      <4>2. cooling' = [cooling EXCEPT ![row[r]] = TRUE]
        BY <1>13, <2>1 DEF Finalize
      <4> HIDE DEF KeyTypeOK
      <4> QED
        BY <3>1, <4>1, <4>2
    <3> QED
      BY <1>13, <3>1, <3>2, <3>3, <3>4 DEF Finalize
  <2>2. CASE status[row[r]] # "ad_completed"
    BY <1>13, <2>2 DEF Finalize
  <2> QED
    BY <2>1, <2>2
<1> QED
  BY <1>1, <1>2, <1>3, <1>4, <1>5, <1>6, <1>7, <1>8, <1>9, <1>10, <1>11, <1>12, <1>13
     DEF RequestStep

\* Steps of the database, the clock, another page and the process.
Environment ==
    \/ \E c \in Attempts : CooldownLapses(c)
    \/ \E r \in Requests : InsertLands(r) \/ InsertLost(r) \/ KeyGone(r)
    \/ CacheLapses
    \/ \E p \in Pages : PageReads(p) \/ PageStores(p)
    \/ Crash

LEMMA EnvironmentTypes ==
    ASSUME KeyTypeOK, Environment
    PROVE  KeyTypeOK'
<1> USE DEF KeyTypeOK, rowVars, attemptVars, lockVars
<1>1. CASE \E c \in Attempts : CooldownLapses(c)
  BY <1>1 DEF CooldownLapses
<1>2. CASE \E r \in Requests : InsertLands(r) \/ InsertLost(r) \/ KeyGone(r)
  BY <1>2 DEF InsertLands, InsertLost, KeyGone
<1>3. CASE CacheLapses
  BY <1>3, ReadTypes DEF CacheLapses
<1>4. CASE \E p \in Pages : PageReads(p) \/ PageStores(p)
  <2>1. PICK p \in Pages : PageReads(p) \/ PageStores(p)
    BY <1>4
  <2>2. reading' \in [Pages -> Answers] /\ cache' \in Answers /\ mishap' \in BOOLEAN
    <3>1. NoCache \in Answers /\ Cached({}) \in Answers /\ Cached(Unredeemed) \in Answers
      BY ReadTypes
    <3>2. /\ reading \in [Pages -> Answers]
          /\ cache \in Answers
          /\ reading[p] \in Answers
      OBVIOUS
    <3>3. mishap' \in BOOLEAN
      BY <2>1 DEF PageReads, PageStores
    <3> HIDE DEF KeyTypeOK
    <3>4. cache' = cache \/ cache' = reading[p]
      BY <2>1 DEF PageReads, PageStores
    <3>5. \E a \in {NoCache, Cached({}), Cached(Unredeemed)} :
             reading' = [reading EXCEPT ![p] = a]
      BY <2>1 DEF PageReads, PageStores
    <3> QED
      BY <3>1, <3>2, <3>3, <3>4, <3>5
  <2>3. UNCHANGED <<status, keyOf, cooling, start, older, tail, ahead, keys, pc, row>>
    BY <2>1 DEF PageReads, PageStores
  <2> QED
    BY <2>2, <2>3
<1>5. CASE Crash
  BY <1>5, ReadTypes DEF Crash
<1> QED
  BY <1>1, <1>2, <1>3, <1>4, <1>5 DEF Environment

LEMMA StepCases ==
    ASSUME KeyNext
    PROVE  \/ \E c \in Attempts : StartStep(c)
           \/ \E r \in Requests : RequestStep(r)
           \/ Environment
BY DEF KeyNext, Environment

LEMMA KeyInitTypes ==
    ASSUME KeyInit
    PROVE  KeyTypeOK
<1>1. cache \in Answers /\ reading \in [Pages -> Answers] /\ mishap \in BOOLEAN
  BY DEF KeyInit, NoCache, Answers
<1>2. cooling \in [Attempts -> BOOLEAN] /\ older \in [Attempts -> SUBSET Attempts]
  BY DEF KeyInit
<1> QED
  BY <1>1, <1>2 DEF KeyInit, KeyTypeOK

LEMMA KeyStepTypes ==
    ASSUME KeyTypeOK, [KeyNext]_keyVars
    PROVE  KeyTypeOK'
<1>1. CASE KeyNext
  BY <1>1, StepCases, StartTypes, RequestTypes, EnvironmentTypes
<1>2. CASE UNCHANGED keyVars
  BY <1>2 DEF KeyTypeOK, keyVars, rowVars, attemptVars, lockVars
<1> QED
  BY <1>1, <1>2

\* Statuses, steps and queues keep to their ranges, whatever fails.
THEOREM KeyTypeCorrect == KeySpec => []KeyTypeOK
<1>1. KeyInit => KeyTypeOK
  BY KeyInitTypes
<1>2. KeyTypeOK /\ [KeyNext]_keyVars => KeyTypeOK'
  BY KeyStepTypes
<1> QED
  BY <1>1, <1>2, PTL DEF KeySpec

\* Starting an attempt leaves the callbacks and the keys alone.
LEMMA StartFrame ==
    ASSUME NEW c \in Attempts, StartStep(c)
    PROVE  UNCHANGED <<keyOf, cooling, keys, pc, row, lockVars>>
BY DEF StartStep, StartMoves, StartLooks, StartAllowed, CleanUp, CreateChallenge, ReadOpenAttempts,
       Supersede, SelectProvider, MarkPending, StartFails, PageCleansUp, PageResumes,
       PageFindsNone, PageSupersedes, PageCreates

-----------------------------------------------------------------------------
(* The lock *)

\* Between joining the chain of promises and resolving its own.
Holds(r) == pc[r] \in {"queued"} \cup Critical

\* It awaits nobody who has still to resolve.
Front(r) == ahead[r] = NoRequest \/ pc[ahead[r]] = "done"

\* Q lists, in the order they joined, the n requests that hold a place in the
\* chain: each awaits the one before it, and the map's entry is the last.
Chain(n, Q) ==
    /\ \A r \in Requests : Holds(r) <=> \E i \in 1..n : Q[i] = r
    /\ \A i, j \in 1..n : Q[i] = Q[j] => i = j
    /\ \A i \in 2..n : ahead[Q[i]] = Q[i - 1]
    /\ n = 0 => tail = NoRequest
    /\ n > 0 => tail = Q[n] /\ Front(Q[1])

LockInv ==
    /\ KeyTypeOK
    /\ \A r \in Requests : pc[r] \in Critical => Front(r)
    /\ \E n \in Nat : \E Q \in [1..n -> Requests] : Chain(n, Q)

LEMMA CriticalIsFirst ==
    ASSUME LockInv, KeyAssumption, NEW n \in Nat, NEW Q \in [1..n -> Requests], Chain(n, Q),
           NEW r \in Requests, pc[r] \in Critical
    PROVE  n > 0 /\ Q[1] = r
<1>1. PICK i \in 1..n : Q[i] = r
  BY DEF Chain, Holds
<1>2. ASSUME i # 1
      PROVE  FALSE
  <2>1. i \in 2..n /\ i - 1 \in 1..n
    BY <1>2
  <2>2. ahead[r] = Q[i - 1] /\ Q[i - 1] \in Requests
    BY <1>1, <2>1 DEF Chain
  <2>3. Holds(Q[i - 1])
    BY <2>1, <2>2 DEF Chain
  <2>4. ahead[r] # NoRequest /\ pc[ahead[r]] # "done"
    BY <2>2, <2>3, KeyAssumption DEF KeyAssumption, Holds
  <2> QED
    BY <2>4 DEF LockInv, Front
<1> QED
  BY <1>1, <1>2

LEMMA LockInvExcludes == KeyAssumption /\ LockInv => LockExclusive
<1> SUFFICES ASSUME KeyAssumption, LockInv,
                    NEW q \in Requests, NEW r \in Requests,
                    pc[q] \in Critical, pc[r] \in Critical
             PROVE  q = r
  BY DEF LockExclusive
<1>1. PICK n \in Nat : \E Q \in [1..n -> Requests] : Chain(n, Q)
  BY DEF LockInv
<1>2. PICK Q \in [1..n -> Requests] : Chain(n, Q)
  BY <1>1
<1> QED
  BY <1>2, CriticalIsFirst

\* The ways a step can touch the lock.
Within(r) ==
    /\ pc[r] \in Critical
    /\ \E to \in Critical : pc' = [pc EXCEPT ![r] = to]
    /\ UNCHANGED lockVars

Resolves(r) ==
    /\ pc[r] \in Critical
    /\ pc' = [pc EXCEPT ![r] = "done"]
    /\ tail' = IF tail = r THEN NoRequest ELSE tail
    /\ UNCHANGED ahead

LEMMA LockCases ==
    ASSUME NEW r \in Requests, RequestStep(r)
    PROVE  LoadAttempt(r) \/ Join(r) \/ Enter(r) \/ Within(r) \/ Resolves(r)
<1>1. \A from, to \in Critical : Proceed(r, from, to) => Within(r)
  BY DEF Proceed, Moves, Within
<1>2. \A from \in Critical : Leave(r, from) => Resolves(r)
  BY DEF Leave, Moves, Resolves
<1>3. CASE Check(r) \/ Recheck(r) \/ Duplicate(r)
  BY <1>3, <1>1, <1>2 DEF Check, Recheck, Duplicate, LookUp
<1>4. CASE CheckCooldown(r) \/ Consume(r) \/ ConsumeConflicts(r) \/ AnswerConflict(r)
  BY <1>4, <1>1, <1>2 DEF CheckCooldown, Consume, ConsumeConflicts, AnswerConflict
<1>5. CASE SendInsert(r) \/ InsertConfirmed(r) \/ InsertRefused(r) \/ InsertTimesOut(r)
  BY <1>5, <1>1 DEF SendInsert, InsertConfirmed, InsertRefused, InsertTimesOut
<1>6. CASE Fail(r) \/ Finalize(r) \/ FinalizeFails(r)
  BY <1>6, <1>2 DEF Fail, Finalize, FinalizeFails
<1> QED
  BY <1>3, <1>4, <1>5, <1>6 DEF RequestStep

\* Only the request that moves changes its place; a resolved promise stays so.
LEMMA FrontStays ==
    ASSUME LockInv, KeyTypeOK', NEW r \in Requests, pc[r] # "done",
           NEW to \in Steps, pc' = [pc EXCEPT ![r] = to],
           NEW q, Front(q), ahead'[q] = ahead[q]
    PROVE  Front(q)'
BY DEF LockInv, KeyTypeOK, Front

LEMMA LockStays ==
    ASSUME LockInv, KeyTypeOK', UNCHANGED <<pc, lockVars>>
    PROVE  LockInv'
<1>1. \A r \in Requests : (pc[r] \in Critical => Front(r))'
  BY DEF LockInv, Front, lockVars
<1>2. PICK n \in Nat : \E Q \in [1..n -> Requests] : Chain(n, Q)
  BY DEF LockInv
<1>3. PICK Q \in [1..n -> Requests] : Chain(n, Q)
  BY <1>2
<1>4. Chain(n, Q)'
  BY <1>3 DEF Chain, Holds, Front, lockVars
<1> QED
  BY <1>1, <1>4 DEF LockInv

\* A step of a request that keeps its place in the chain.
LEMMA LockKept ==
    ASSUME LockInv, KeyTypeOK', NEW r \in Requests, NEW to \in Steps,
           pc' = [pc EXCEPT ![r] = to], UNCHANGED lockVars, pc[r] # "done",
           Holds(r) <=> to \in {"queued"} \cup Critical,
           to \in Critical => Front(r)
    PROVE  LockInv'
<1>1. \A q \in Requests : Holds(q)' <=> Holds(q)
  BY DEF Holds, LockInv, KeyTypeOK
<1>2. \A q \in Requests : Front(q) => Front(q)'
  BY FrontStays DEF lockVars
<1>3. \A q \in Requests : (pc[q] \in Critical => Front(q))'
  BY <1>2 DEF LockInv, KeyTypeOK
<1>4. PICK n \in Nat : \E Q \in [1..n -> Requests] : Chain(n, Q)
  BY DEF LockInv
<1>5. PICK Q \in [1..n -> Requests] : Chain(n, Q)
  BY <1>4
<1>6. Chain(n, Q)'
  <2>1. n > 0 => Q[1] \in Requests
    OBVIOUS
  <2> QED
    BY <1>1, <1>2, <1>5, <2>1 DEF Chain, lockVars
<1> QED
  BY <1>3, <1>6 DEF LockInv

LEMMA LockJoined ==
    ASSUME KeyAssumption, LockInv, KeyTypeOK', NEW r \in Requests, Join(r)
    PROVE  LockInv'
<1>1. PICK n \in Nat : \E Q \in [1..n -> Requests] : Chain(n, Q)
  BY DEF LockInv
<1>2. PICK Q \in [1..n -> Requests] : Chain(n, Q)
  BY <1>1
<1> DEFINE m == n + 1
           R == [i \in 1..m |-> IF i = m THEN r ELSE Q[i]]
<1>3. m \in Nat /\ R \in [1..m -> Requests]
  OBVIOUS
<1>4. /\ pc[r] = "loaded"
      /\ pc' = [pc EXCEPT ![r] = "queued"]
      /\ ahead' = [ahead EXCEPT ![r] = tail]
      /\ tail' = r
      /\ ~Holds(r)
  BY DEF Join, Moves, Holds
<1>5. \A i \in 1..n : R[i] = Q[i] /\ Q[i] \in Requests /\ Q[i] # r
  BY <1>2, <1>4 DEF Chain
<1>6. \A q \in Requests : q # r => pc'[q] = pc[q] /\ ahead'[q] = ahead[q]
  BY <1>4 DEF LockInv, KeyTypeOK
<1>h. \A q \in Requests : q # r => (Holds(q)' <=> Holds(q))
  BY <1>6 DEF Holds
<1>f. \A q \in Requests : q # r => (Front(q) => Front(q)')
  BY <1>4, <1>6, FrontStays
<1>7. Holds(r)' /\ ahead'[r] = tail /\ pc'[r] = "queued"
  BY <1>4 DEF Holds, LockInv, KeyTypeOK
<1>m. m = n + 1 /\ R[m] = r /\ m \in 1..m /\ m \notin 1..n /\ \A i \in 1..m : i = m \/ i \in 1..n
  OBVIOUS
<1> HIDE DEF m, R
<1>8. Chain(m, R)'
  <2>1. \A q \in Requests : Holds(q)' <=> \E i \in 1..m : R[i] = q
    <3> TAKE q \in Requests
    <3>1. CASE q = r
      BY <3>1, <1>7, <1>m
    <3>2. CASE q # r
      <4>1. (\E i \in 1..n : Q[i] = q) <=> (\E i \in 1..m : R[i] = q)
        BY <3>2, <1>5, <1>m
      <4> QED
        BY <3>2, <4>1, <1>2, <1>h DEF Chain
    <3> QED
      BY <3>1, <3>2
  <2>2. ASSUME NEW i \in 1..m, NEW j \in 1..m, R[i] = R[j]
        PROVE  i = j
    <3>1. CASE i \in 1..n /\ j \in 1..n
      <4>1. Q[i] = Q[j]
        BY <1>5, <2>2, <3>1
      <4> QED
        BY <1>2, <3>1, <4>1 DEF Chain
    <3>2. CASE i = m \/ j = m
      BY <1>5, <1>m, <2>2, <3>2
    <3> QED
      BY <1>m, <3>1, <3>2
  <2>3. \A i \in 2..m : ahead'[R[i]] = R[i - 1]
    <3> TAKE i \in 2..m
    <3>1. CASE i = m
      <4>1. n > 0 /\ n \in 1..n /\ tail = Q[n]
        BY <3>1, <1>2, <1>m DEF Chain
      <4>2. R[i] = r /\ i - 1 = n /\ R[i - 1] = Q[n]
        BY <3>1, <4>1, <1>5, <1>m
      <4> QED
        BY <4>1, <4>2, <1>7
    <3>2. CASE i # m
      <4>1. i \in 2..n /\ i - 1 \in 1..n /\ i \in 1..n
        BY <3>2, <1>m
      <4>2. ahead[Q[i]] = Q[i - 1]
        BY <4>1, <1>2 DEF Chain
      <4> QED
        BY <4>1, <4>2, <1>5, <1>6
    <3> QED
      BY <3>1, <3>2
  <2>4. tail' = R[m]
    BY <1>4, <1>m
  <2>5. Front(R[1])'
    <3>1. CASE n = 0
      <4>1. R[1] = r /\ tail = NoRequest
        BY <3>1, <1>2, <1>m DEF Chain
      <4> QED
        BY <4>1, <1>7 DEF Front
    <3>2. CASE n > 0
      <4>1. 1 \in 1..n /\ Front(Q[1])
        BY <3>2, <1>2 DEF Chain
      <4>2. R[1] = Q[1] /\ Front(Q[1])'
        BY <4>1, <1>5, <1>f, <1>m
      <4> QED
        BY <4>2 DEF Front
    <3> QED
      BY <3>1, <3>2
  <2> QED
    BY <2>1, <2>2, <2>3, <2>4, <2>5, <1>m DEF Chain
<1>9. \A q \in Requests : (pc[q] \in Critical => Front(q))'
  <2> TAKE q \in Requests
  <2>1. CASE q = r
    BY <2>1, <1>7
  <2>2. CASE q # r
    BY <2>2, <1>6, <1>f DEF LockInv
  <2> QED
    BY <2>1, <2>2
<1>10. \E k \in Nat : \E P \in [1..k -> Requests] : Chain(k, P)'
  BY <1>3, <1>8
<1> QED
  BY <1>9, <1>10 DEF LockInv

LEMMA LockResolved ==
    ASSUME KeyAssumption, LockInv, KeyTypeOK', NEW r \in Requests, Resolves(r)
    PROVE  LockInv'
<1>1. PICK n \in Nat : \E Q \in [1..n -> Requests] : Chain(n, Q)
  BY DEF LockInv
<1>2. PICK Q \in [1..n -> Requests] : Chain(n, Q)
  BY <1>1
<1>3. n > 0 /\ Q[1] = r
  BY <1>2, CriticalIsFirst DEF Resolves
<1> DEFINE m == n - 1
           R == [i \in 1..m |-> Q[i + 1]]
<1>4. m \in Nat /\ R \in [1..m -> Requests]
  BY <1>3
<1>5. pc'[r] = "done" /\ ~Holds(r)' /\ ahead' = ahead
  BY DEF Resolves, Holds, LockInv, KeyTypeOK
<1>6. \A q \in Requests : /\ q # r => (Holds(q)' <=> Holds(q)) /\ pc'[q] = pc[q]
                          /\ Front(q) => Front(q)'
  <2>1. \A q \in Requests : q # r => pc'[q] = pc[q]
    BY DEF Resolves, LockInv, KeyTypeOK
  <2>2. \A q \in Requests : Front(q) => Front(q)'
    BY <1>5, FrontStays DEF Resolves
  <2> QED
    BY <2>1, <2>2 DEF Holds
<1>7. Chain(m, R)'
  <2>1. \A q \in Requests : Holds(q)' <=> \E i \in 1..m : R[i] = q
    <3> TAKE q \in Requests
    <3>1. CASE q = r
      <4>1. \A i \in 1..m : i + 1 \in 1..n /\ 1 \in 1..n /\ i + 1 # 1
        BY <1>3
      <4>2. \A i \in 1..m : R[i] # r
        BY <4>1, <1>2, <1>3 DEF Chain
      <4> QED
        BY <3>1, <4>2, <1>5
    <3>2. CASE q # r
      <4>1. (\E i \in 1..n : Q[i] = q) <=> (\E i \in 1..m : R[i] = q)
        <5>1. \A i \in 1..n : Q[i] = q => i - 1 \in 1..m /\ R[i - 1] = Q[i]
          BY <3>2, <1>3
        <5>2. \A i \in 1..m : i + 1 \in 1..n /\ R[i] = Q[i + 1]
          BY <1>3
        <5> QED
          BY <5>1, <5>2
      <4> QED
        BY <3>2, <4>1, <1>2, <1>6 DEF Chain
    <3> QED
      BY <3>1, <3>2
  <2>2. \A i, j \in 1..m : R[i] = R[j] => i = j
    <3> TAKE i, j \in 1..m
    <3>1. i + 1 \in 1..n /\ j + 1 \in 1..n
      BY <1>3
    <3>2. Q[i + 1] = Q[j + 1] => i + 1 = j + 1
      BY <3>1, <1>2 DEF Chain
    <3> QED
      BY <3>1, <3>2
  <2>3. \A i \in 2..m : ahead'[R[i]] = R[i - 1]
    <3> TAKE i \in 2..m
    <3>1. i + 1 \in 2..n /\ R[i] = Q[i + 1] /\ R[i - 1] = Q[i]
      BY <1>3
    <3>2. ahead[Q[i + 1]] = Q[i + 1 - 1] /\ i + 1 - 1 = i
      BY <3>1, <1>2 DEF Chain
    <3> QED
      BY <3>1, <3>2, <1>5
  <2>4. CASE m = 0
    <3>1. tail = r
      BY <2>4, <1>2, <1>3 DEF Chain
    <3>2. tail' = NoRequest
      BY <3>1 DEF Resolves
    <3> QED
      BY <2>1, <2>2, <2>3, <2>4, <3>2 DEF Chain
  <2>5. CASE m > 0
    <3>1. n \in 1..n /\ 1 \in 1..n /\ 2 \in 2..n /\ n # 1 /\ m \in 1..m /\ 1 \in 1..m
      BY <2>5
    <3>2. tail = Q[n] /\ Q[n] # r /\ R[m] = Q[n]
      BY <3>1, <1>2, <1>3 DEF Chain
    <3>3. tail' = R[m]
      BY <3>2 DEF Resolves
    <3>4. R[1] = Q[2] /\ Q[2] \in Requests /\ ahead[Q[2]] = r
      <4>1. ahead[Q[2]] = Q[2 - 1]
        BY <3>1, <1>2 DEF Chain
      <4> QED
        BY <4>1, <3>1, <1>3
    <3>5. Front(R[1])'
      BY <3>4, <1>5 DEF Front
    <3> HIDE DEF m, R
    <3> QED
      BY <2>1, <2>2, <2>3, <2>5, <3>3, <3>5 DEF Chain
  <2> QED
    BY <1>4, <2>4, <2>5
<1>8. \A q \in Requests : (pc[q] \in Critical => Front(q))'
  <2> TAKE q \in Requests
  <2>1. CASE q = r
    BY <2>1, <1>5
  <2>2. CASE q # r
    BY <2>2, <1>6 DEF LockInv
  <2> QED
    BY <2>1, <2>2
<1> HIDE DEF m, R
<1>9. \E k \in Nat : \E P \in [1..k -> Requests] : Chain(k, P)'
  BY <1>4, <1>7
<1> QED
  BY <1>8, <1>9 DEF LockInv

\* A restart empties the chain.
LEMMA LockCrashed ==
    ASSUME LockInv, KeyTypeOK', Crash
    PROVE  LockInv'
<1>1. \A r \in Requests : pc'[r] \in {"idle", "done"}
  BY DEF Crash, LockInv, KeyTypeOK
<1>2. [i \in 1..0 |-> i] \in [1..0 -> Requests]
  OBVIOUS
<1>3. Chain(0, [i \in 1..0 |-> i])'
  <2>1. tail' = NoRequest
    BY DEF Crash
  <2> QED
    BY <1>1, <2>1 DEF Chain, Holds
<1>4. \E n \in Nat : \E Q \in [1..n -> Requests] : Chain(n, Q)'
  BY <1>2, <1>3
<1> QED
  BY <1>1, <1>4 DEF LockInv

\* withGenerationLock: however many callbacks of the user arrive, and whenever
\* the last of them deletes the map's entry, at most one is inside.
THEOREM LockIsExclusive == KeySpec => []LockExclusive
<1>1. KeyInit => LockInv
  <2> SUFFICES ASSUME KeyInit
               PROVE  LockInv
    OBVIOUS
  <2>1. KeyTypeOK
    BY KeyInitTypes
  <2>2. [i \in 1..0 |-> i] \in [1..0 -> Requests]
    OBVIOUS
  <2>3. Chain(0, [i \in 1..0 |-> i])
    BY DEF KeyInit, Chain, Holds
  <2>4. \E n \in Nat : \E Q \in [1..n -> Requests] : Chain(n, Q)
    BY <2>2, <2>3
  <2> QED
    BY <2>1, <2>4 DEF KeyInit, LockInv
<1>2. LockInv /\ [KeyNext]_keyVars => LockInv'
  <2> SUFFICES ASSUME LockInv, [KeyNext]_keyVars
               PROVE  LockInv'
    OBVIOUS
  <2>1. KeyTypeOK'
    BY KeyStepTypes DEF LockInv
  <2>2. ASSUME NEW c \in Attempts, StartStep(c)
        PROVE  LockInv'
    BY <2>1, <2>2, StartFrame, LockStays
  <2>3. ASSUME NEW r \in Requests, RequestStep(r)
        PROVE  LockInv'
    <3>1. CASE LoadAttempt(r)
      BY <2>1, <3>1, LockKept DEF LoadAttempt, Moves, Holds, lockVars
    <3>2. CASE Join(r)
      BY <2>1, <3>2, LockJoined, KeyAssumption
    <3>3. CASE Enter(r)
      BY <2>1, <3>3, LockKept DEF Enter, Moves, Holds, Front, lockVars
    <3>4. CASE Within(r)
      BY <2>1, <3>4, LockKept DEF Within, Holds, LockInv
    <3>5. CASE Resolves(r)
      BY <2>1, <3>5, LockResolved, KeyAssumption
    <3> QED
      BY <2>3, <3>1, <3>2, <3>3, <3>4, <3>5, LockCases
  <2>4. CASE Environment
    <3>1. CASE Crash
      BY <2>1, <3>1, LockCrashed
    <3>2. CASE ~Crash
      <4>1. UNCHANGED <<pc, lockVars>>
        BY <2>4, <3>2 DEF Environment, CooldownLapses, InsertLands, InsertLost, KeyGone,
                          CacheLapses, PageReads, PageStores
      <4> QED
        BY <2>1, <4>1, LockStays
    <3> QED
      BY <3>1, <3>2
  <2>5. CASE UNCHANGED keyVars
    BY <2>1, <2>5, LockStays DEF keyVars
  <2> QED
    BY <2>2, <2>3, <2>4, <2>5, StepCases
<1>3. LockInv => LockExclusive
  BY LockInvExcludes, KeyAssumption
<1> QED
  BY <1>1, <1>2, <1>3, PTL DEF KeySpec

-----------------------------------------------------------------------------
(* One key per ad *)

\* An attempt whose handler has not reached the insert has no row.
Unborn == {"none", "looked", "allowed", "clean", "page", "pagenone", "pageclear"}

AdInv ==
    /\ KeyTypeOK
    /\ \A c \in Attempts : start[c] \in Unborn => status[c] = "none"
    /\ \A c \in Attempts : \A d \in older[c] : status[d] # "none"
    /\ \A r \in Requests : Committed(r) => status[row[r]] \notin Open \cup {"none"}
    /\ \A q, r \in Requests : Committed(q) /\ Committed(r) /\ row[q] = row[r] => q = r

\* A step that leaves the attempts' handlers alone keeps the invariant if it
\* opens no attempt and commits no request.
LEMMA AdKept ==
    ASSUME AdInv, KeyTypeOK', UNCHANGED <<row, start, older>>,
           \A c \in Attempts : \/ status'[c] = status[c]
                               \/ status[c] # "none" /\ status'[c] \notin Open \cup {"none"},
           \A r \in Requests : Committed(r)' => Committed(r)
    PROVE  AdInv'
<1>1. \A c \in Attempts : (start[c] \in Unborn => status[c] = "none")'
  BY DEF AdInv, Unborn
<1>2. \A c \in Attempts : \A d \in older'[c] : status'[d] # "none"
  BY DEF AdInv, KeyTypeOK
<1>3. \A r \in Requests : Committed(r)' => status'[row'[r]] \notin Open \cup {"none"}
  BY DEF AdInv, KeyTypeOK
<1>4. \A q, r \in Requests : Committed(q)' /\ Committed(r)' /\ row'[q] = row'[r] => q = r
  BY DEF AdInv
<1> QED
  BY <1>1, <1>2, <1>3, <1>4 DEF AdInv

\* Of the handlers that start attempts, those that write an open status find
\* the attempt open or without a row.
LEMMA AdStartsOver ==
    ASSUME AdInv, NEW c \in Attempts, StartStep(c), NEW d \in Attempts,
           status[d] \notin Open \cup {"none"}
    PROVE  status'[d] \notin Open \cup {"none"}
<1> USE DEF AdInv, KeyTypeOK, StartMoves, Unborn
<1>1. CASE UNCHANGED status
  BY <1>1
<1>2. CASE CleanUp(c) \/ PageCleansUp(c)
  BY <1>2 DEF CleanUp, PageCleansUp, Expire, OpenAttempts
<1>3. CASE CreateChallenge(c) \/ PageCreates(c)
  BY <1>3 DEF CreateChallenge, PageCreates
<1>4. CASE \E e \in Attempts : Supersede(c, e)
  BY <1>4 DEF Supersede
<1>5. CASE SelectProvider(c) \/ MarkPending(c)
  BY <1>5 DEF SelectProvider, MarkPending
<1>6. CASE PageSupersedes(c)
  BY <1>6 DEF PageSupersedes
<1> QED
  BY <1>1, <1>2, <1>3, <1>4, <1>5, <1>6
     DEF StartStep, StartLooks, StartAllowed, ReadOpenAttempts, StartFails, PageResumes, PageFindsNone

LEMMA AdStarts ==
    ASSUME AdInv, KeyTypeOK', NEW c \in Attempts, StartStep(c)
    PROVE  AdInv'
<1>1. UNCHANGED <<keys, pc, row>>
  BY StartFrame
<1>2. \A r \in Requests : Committed(r)' <=> Committed(r)
  BY <1>1 DEF Committed
<1> USE DEF AdInv, KeyTypeOK, StartMoves, Unborn
<1>3. \A d \in Attempts : (start[d] \in Unborn => status[d] = "none")'
  <2>1. CASE StartLooks(c) \/ StartAllowed(c)
    BY <2>1 DEF StartLooks, StartAllowed
  <2>2. CASE CleanUp(c)
    BY <2>2 DEF CleanUp, Expire, OpenAttempts
  <2>3. CASE CreateChallenge(c)
    BY <2>3 DEF CreateChallenge
  <2>4. CASE ReadOpenAttempts(c)
    BY <2>4 DEF ReadOpenAttempts
  <2>5. CASE \E d \in Attempts : Supersede(c, d)
    BY <2>5 DEF Supersede
  <2>6. CASE SelectProvider(c) \/ MarkPending(c)
    BY <2>6 DEF SelectProvider, MarkPending
  <2>7. CASE StartFails(c)
    BY <2>7 DEF StartFails
  <2>8. CASE PageCleansUp(c)
    BY <2>8 DEF PageCleansUp, Expire, OpenAttempts
  <2>9. CASE PageResumes(c) \/ PageFindsNone(c)
    BY <2>9 DEF PageResumes, PageFindsNone
  <2>10. CASE PageSupersedes(c)
    BY <2>10 DEF PageSupersedes
  <2>11. CASE PageCreates(c)
    BY <2>11 DEF PageCreates
  <2> QED
    BY <2>1, <2>2, <2>3, <2>4, <2>5, <2>6, <2>7, <2>8, <2>9, <2>10, <2>11 DEF StartStep
<1>4. \A d \in Attempts : status[d] # "none" => status'[d] # "none"
  BY DEF StartStep, StartLooks, StartAllowed, CleanUp, Expire, CreateChallenge, ReadOpenAttempts,
         Supersede, SelectProvider, MarkPending, StartFails, PageCleansUp, PageResumes,
         PageFindsNone, PageSupersedes, PageCreates
<1>5. \A d \in Attempts :
         status[d] \notin Open \cup {"none"} => status'[d] \notin Open \cup {"none"}
  BY AdStartsOver
<1>6. \A e \in Attempts : \A d \in older'[e] : d \in older[e] \/ status[d] # "none"
  <2>1. CASE ReadOpenAttempts(c)
    BY <2>1 DEF ReadOpenAttempts, OpenAttempts
  <2>2. CASE \E d \in Attempts : Supersede(c, d)
    BY <2>2 DEF Supersede
  <2>3. CASE UNCHANGED older
    BY <2>3
  <2> QED
    BY <2>1, <2>2, <2>3
       DEF StartStep, StartLooks, StartAllowed, CleanUp, CreateChallenge, SelectProvider, MarkPending,
           StartFails, PageCleansUp, PageResumes, PageFindsNone, PageSupersedes, PageCreates
<1>7. \A e \in Attempts : \A d \in older'[e] : status'[d] # "none"
  BY <1>4, <1>6
<1>8. \A r \in Requests : Committed(r)' => status'[row'[r]] \notin Open \cup {"none"}
  BY <1>1, <1>2, <1>5
<1>9. \A q, r \in Requests : Committed(q)' /\ Committed(r)' /\ row'[q] = row'[r] => q = r
  BY <1>1, <1>2
<1> QED
  BY <1>3, <1>7, <1>8, <1>9

\* Of the steps of a callback only one commits it; none of the others opens an
\* attempt.
LEMMA RequestCommits ==
    ASSUME AdInv, NEW r \in Requests, RequestStep(r), ~Consume(r)
    PROVE  /\ \A c \in Attempts :
                 \/ status'[c] = status[c]
                 \/ status[c] # "none" /\ status'[c] \notin Open \cup {"none"}
           /\ \A q \in Requests : Committed(q)' => Committed(q)
<1> USE DEF KeyTypeOK, Moves, Proceed, Leave
<1>1. \A c \in Attempts : \/ status'[c] = status[c]
                          \/ status[c] # "none" /\ status'[c] \notin Open \cup {"none"}
  <2>1. CASE ConsumeConflicts(r)
    BY <2>1 DEF ConsumeConflicts, AdInv
  <2>2. CASE Fail(r)
    BY <2>2 DEF Fail, AdInv, Committed
  <2>3. CASE Finalize(r)
    BY <2>3 DEF Finalize, AdInv, rowVars
  <2>4. CASE UNCHANGED status
    BY <2>4
  <2> QED
    BY <2>1, <2>2, <2>3, <2>4
       DEF RequestStep, LoadAttempt, Join, Enter, Check, Recheck, Duplicate, LookUp,
           CheckCooldown, AnswerConflict, SendInsert,
           InsertConfirmed, InsertRefused, InsertTimesOut, FinalizeFails, rowVars
<1>2. \A q \in Requests : Committed(q)' => Committed(q)
  <2> USE DEF AdInv, Committed
  <2>1. CASE LoadAttempt(r) \/ Join(r) \/ Enter(r)
    BY <2>1 DEF LoadAttempt, Join, Enter
  <2>2. CASE Check(r) \/ Recheck(r) \/ Duplicate(r)
    BY <2>2 DEF Check, Recheck, Duplicate, LookUp
  <2>3. CASE CheckCooldown(r) \/ ConsumeConflicts(r) \/ AnswerConflict(r)
    BY <2>3 DEF CheckCooldown, ConsumeConflicts, AnswerConflict
  <2>4. CASE SendInsert(r) \/ InsertConfirmed(r)
    BY <2>4 DEF SendInsert, InsertConfirmed
  <2>5. CASE InsertRefused(r) \/ InsertTimesOut(r)
    BY <2>5 DEF InsertRefused, InsertTimesOut
  <2>6. CASE Fail(r) \/ Finalize(r) \/ FinalizeFails(r)
    BY <2>6 DEF Fail, Finalize, FinalizeFails
  <2> QED
    BY <2>1, <2>2, <2>3, <2>4, <2>5, <2>6 DEF RequestStep
<1> QED
  BY <1>1, <1>2

LEMMA AdRequests ==
    ASSUME AdInv, KeyTypeOK', NEW r \in Requests, RequestStep(r)
    PROVE  AdInv'
<1> USE DEF KeyTypeOK, Moves, Proceed, Leave
<1>1. UNCHANGED <<row, start, older>>
  BY DEF RequestStep, LoadAttempt, Join, Enter, Check, Recheck, Duplicate, LookUp,
         CheckCooldown, Consume, ConsumeConflicts, AnswerConflict, SendInsert,
         InsertConfirmed, InsertRefused, InsertTimesOut, Fail, Finalize, FinalizeFails,
         attemptVars
<1>2. CASE Consume(r)
  <2>1. /\ status[row[r]] = "pending_ad"
        /\ status' = [status EXCEPT ![row[r]] = "ad_completed"]
        /\ pc' = [pc EXCEPT ![r] = "recheck"]
        /\ UNCHANGED keys
    BY <1>2 DEF Consume
  <2>2. \A q \in Requests : q # r => (Committed(q)' <=> Committed(q))
    BY <2>1 DEF Committed, AdInv
  <2>3. \A q \in Requests : Committed(q) => row[q] # row[r]
    BY <2>1 DEF AdInv
  <2>4. \A c \in Attempts : (start[c] \in Unborn => status[c] = "none")'
    BY <1>1, <2>1 DEF AdInv
  <2>5. \A c \in Attempts : \A d \in older'[c] : status'[d] # "none"
    BY <1>1, <2>1 DEF AdInv
  <2>6. \A q \in Requests : Committed(q)' => status'[row'[q]] \notin Open \cup {"none"}
    BY <1>1, <2>1, <2>2 DEF AdInv
  <2>7. \A p, q \in Requests : Committed(p)' /\ Committed(q)' /\ row'[p] = row'[q] => p = q
    BY <1>1, <2>2, <2>3 DEF AdInv
  <2> QED
    BY <2>4, <2>5, <2>6, <2>7 DEF AdInv
<1>3. CASE ~Consume(r)
  BY <1>1, <1>3, RequestCommits, AdKept
<1> QED
  BY <1>2, <1>3

LEMMA EnvironmentCommits ==
    ASSUME KeyTypeOK, Environment
    PROVE  /\ UNCHANGED <<status, row>>
           /\ \A r \in Requests : Committed(r)' => Committed(r)
<1>1. UNCHANGED <<status, row>>
  BY DEF Environment, CooldownLapses, InsertLands, InsertLost, KeyGone, CacheLapses,
         PageReads, PageStores, Crash, rowVars
<1>2. CASE Crash
  BY <1>1, <1>2 DEF Crash, Committed, KeyTypeOK
<1>3. CASE ~Crash
  <2>1. UNCHANGED pc
    BY <1>3 DEF Environment, CooldownLapses, InsertLands, InsertLost, KeyGone, CacheLapses,
                PageReads, PageStores
  <2>2. \A r \in Requests : keys'[r] # "none" => keys[r] # "none"
    BY <1>3 DEF Environment, CooldownLapses, InsertLands, InsertLost, KeyGone,
                CacheLapses, PageReads, PageStores, KeyTypeOK
  <2> QED
    BY <1>1, <2>1, <2>2 DEF Committed
<1> QED
  BY <1>1, <1>2, <1>3

LEMMA AdEnvironment ==
    ASSUME AdInv, KeyTypeOK', Environment
    PROVE  AdInv'
<1>1. UNCHANGED <<status, row>> /\ \A r \in Requests : Committed(r)' => Committed(r)
  BY EnvironmentCommits DEF AdInv
<1>2. CASE Crash
  <2>1. \A c \in Attempts : (start[c] \in Unborn => status[c] = "none")'
    BY <1>1, <1>2 DEF Crash, AdInv, Unborn
  <2>2. \A c \in Attempts : \A d \in older'[c] : status'[d] # "none"
    BY <1>2 DEF Crash
  <2>3. \A r \in Requests : Committed(r)' => status'[row'[r]] \notin Open \cup {"none"}
    BY <1>1 DEF AdInv
  <2>4. \A q, r \in Requests : Committed(q)' /\ Committed(r)' /\ row'[q] = row'[r] => q = r
    BY <1>1 DEF AdInv
  <2> QED
    BY <2>1, <2>2, <2>3, <2>4 DEF AdInv
<1>3. CASE ~Crash
  <2>1. UNCHANGED <<start, older>>
    BY <1>3 DEF Environment, CooldownLapses, InsertLands, InsertLost, KeyGone,
                CacheLapses, PageReads, PageStores, attemptVars
  <2> QED
    BY <1>1, <2>1, AdKept
<1> QED
  BY <1>2, <1>3

LEMMA AdInvHolds == KeySpec => []AdInv
<1>1. KeyInit => AdInv
  <2> SUFFICES ASSUME KeyInit
               PROVE  AdInv
    OBVIOUS
  <2>1. KeyTypeOK
    BY KeyInitTypes
  <2>2. /\ \A c \in Attempts : status[c] = "none" /\ keyOf[c] = NoRequest /\ older[c] = {}
        /\ \A r \in Requests : keys[r] = "none" /\ pc[r] = "idle"
    BY DEF KeyInit
  <2> QED
    BY <2>1, <2>2 DEF AdInv, Committed
<1>2. AdInv /\ [KeyNext]_keyVars => AdInv'
  <2> SUFFICES ASSUME AdInv, [KeyNext]_keyVars
               PROVE  AdInv'
    OBVIOUS
  <2>1. KeyTypeOK'
    BY KeyStepTypes DEF AdInv
  <2>2. CASE UNCHANGED keyVars
    <3>1. \A r \in Requests : Committed(r)' => Committed(r)
      BY <2>2 DEF keyVars, Committed
    <3> QED
      BY <2>1, <2>2, <3>1, AdKept DEF keyVars, rowVars, attemptVars
  <2> QED
    BY <2>1, <2>2, StepCases, AdStarts, AdRequests, AdEnvironment
<1> QED
  BY <1>1, <1>2, PTL DEF KeySpec

\* However many callbacks arrive for an ad, and whatever fails, lands late or
\* is cut off by a crash, at most one of them has a key inserted.
THEOREM OneKeyPerAdAlways == KeySpec => []OneKeyPerAd
<1>1. AdInv => OneKeyPerAd
  BY DEF AdInv, OneKeyPerAd, Committed
<1> QED
  BY <1>1, AdInvHolds, PTL

\* No interleaving of the handlers and callbacks that write the status of an
\* attempt opens one that is over.
THEOREM NeverReopensAlways == KeySpec => NeverReopens
<1>1. AdInv /\ [KeyNext]_keyVars =>
         [\A c \in Attempts :
             status[c] \notin Open \cup {"none"} => status'[c] \notin Open \cup {"none"}]_keyVars
  <2> SUFFICES ASSUME AdInv, KeyNext, NEW c \in Attempts,
                      status[c] \notin Open \cup {"none"}
               PROVE  status'[c] \notin Open \cup {"none"}
    OBVIOUS
  <2>1. ASSUME NEW d \in Attempts, StartStep(d)
        PROVE  status'[c] \notin Open \cup {"none"}
    BY <2>1, AdStartsOver
  <2>2. ASSUME NEW r \in Requests, RequestStep(r)
        PROVE  status'[c] \notin Open \cup {"none"}
    BY <2>2 DEF AdInv, KeyTypeOK, RequestStep, LoadAttempt, Join, Enter, Check, Recheck,
                Duplicate, LookUp, CheckCooldown, Consume, ConsumeConflicts, AnswerConflict,
                SendInsert, InsertConfirmed, InsertRefused, InsertTimesOut, Fail, Finalize,
                FinalizeFails, rowVars
  <2>3. CASE Environment
    BY <2>3 DEF Environment, CooldownLapses, InsertLands, InsertLost, KeyGone,
                CacheLapses, PageReads, PageStores, Crash, rowVars
  <2> QED
    BY <2>1, <2>2, <2>3, StepCases
<1> QED
  BY <1>1, AdInvHolds, PTL DEF KeySpec, NeverReopens

-----------------------------------------------------------------------------
(* Recorded keys *)

\* A request that has not come to its insert has no key.
Sent == {"inserting", "duplicate", "fail", "finalize", "done"}

StoredInv ==
    /\ KeyTypeOK
    /\ \A r \in Requests : pc[r] \notin Sent => keys[r] = "none"
    /\ \A r \in Requests : pc[r] = "finalize" => keys[r] \in {"active", "gone"}
    /\ RecordedKeyIsStored

\* A step that records no key keeps the invariant if it loses no stored key.
LEMMA StoredKept ==
    ASSUME StoredInv, KeyTypeOK', UNCHANGED <<keyOf, row>>,
           \A r \in Requests :
              /\ keys[r] \in {"active", "gone"} => keys'[r] \in {"active", "gone"}
              /\ pc'[r] \notin Sent => pc[r] \notin Sent /\ keys'[r] = keys[r]
              /\ pc'[r] = "finalize" => pc[r] = "finalize" \/ keys'[r] \in {"active", "gone"}
    PROVE  StoredInv'
<1>1. \A c \in Attempts : keyOf[c] # NoRequest => keyOf[c] \in Requests
  BY DEF StoredInv, KeyTypeOK
<1>2. RecordedKeyIsStored'
  BY <1>1 DEF StoredInv, RecordedKeyIsStored
<1>3. \A r \in Requests : (pc[r] \notin Sent => keys[r] = "none")'
  BY DEF StoredInv
<1>4. \A r \in Requests : (pc[r] = "finalize" => keys[r] \in {"active", "gone"})'
  BY DEF StoredInv
<1> QED
  BY <1>2, <1>3, <1>4 DEF StoredInv

LEMMA StoredRequests ==
    ASSUME StoredInv, KeyTypeOK', NEW r \in Requests, RequestStep(r)
    PROVE  StoredInv'
<1> USE DEF StoredInv, KeyTypeOK, Moves, Proceed, Leave, Sent
<1>1. CASE Finalize(r) /\ status[row[r]] = "ad_completed"
  <2>1. /\ keyOf' = [keyOf EXCEPT ![row[r]] = r]
        /\ UNCHANGED <<keys, row>>
        /\ pc' = [pc EXCEPT ![r] = "done"]
        /\ keys[r] \in {"active", "gone"}
    BY <1>1 DEF Finalize
  <2>2. RecordedKeyIsStored'
    BY <2>1 DEF RecordedKeyIsStored
  <2> QED
    BY <2>1, <2>2
<1>2. CASE ~(Finalize(r) /\ status[row[r]] = "ad_completed")
  <2>1. UNCHANGED <<keyOf, row>>
    BY <1>2 DEF RequestStep, LoadAttempt, Join, Enter, Check, Recheck, Duplicate, LookUp,
                CheckCooldown, Consume, ConsumeConflicts, AnswerConflict, SendInsert,
                InsertConfirmed, InsertRefused, InsertTimesOut, Fail, Finalize,
                FinalizeFails, rowVars
  <2>2. \A q \in Requests :
           /\ keys[q] \in {"active", "gone"} => keys'[q] \in {"active", "gone"}
           /\ pc'[q] \notin Sent => pc[q] \notin Sent /\ keys'[q] = keys[q]
           /\ pc'[q] = "finalize" => pc[q] = "finalize" \/ keys'[q] \in {"active", "gone"}
    <3>1. CASE LoadAttempt(r) \/ Join(r) \/ Enter(r)
      BY <3>1 DEF LoadAttempt, Join, Enter
    <3>2. CASE Check(r) \/ Recheck(r) \/ Duplicate(r)
      BY <3>2 DEF Check, Recheck, Duplicate, LookUp
    <3>3. CASE CheckCooldown(r) \/ Consume(r) \/ ConsumeConflicts(r) \/ AnswerConflict(r)
      BY <3>3 DEF CheckCooldown, Consume, ConsumeConflicts, AnswerConflict
    <3>4. CASE SendInsert(r)
      BY <3>4 DEF SendInsert
    <3>5. CASE InsertConfirmed(r)
      BY <3>5 DEF InsertConfirmed
    <3>6. CASE InsertRefused(r) \/ InsertTimesOut(r)
      BY <3>6 DEF InsertRefused, InsertTimesOut
    <3>7. CASE Fail(r) \/ Finalize(r) \/ FinalizeFails(r)
      BY <3>7 DEF Fail, Finalize, FinalizeFails
    <3> QED
      BY <3>1, <3>2, <3>3, <3>4, <3>5, <3>6, <3>7 DEF RequestStep
  <2> HIDE DEF StoredInv, KeyTypeOK, Sent
  <2> QED
    BY <2>1, <2>2, StoredKept
<1> QED
  BY <1>1, <1>2

LEMMA StoredEnvironment ==
    ASSUME StoredInv, KeyTypeOK', Environment
    PROVE  StoredInv'
<1>1. UNCHANGED <<keyOf, row>>
  BY DEF Environment, CooldownLapses, InsertLands, InsertLost, KeyGone, CacheLapses,
         PageReads, PageStores, Crash, rowVars
<1>2. \A q \in Requests :
         /\ keys[q] \in {"active", "gone"} => keys'[q] \in {"active", "gone"}
         /\ pc'[q] \notin Sent => pc[q] \notin Sent /\ keys'[q] = keys[q]
         /\ pc'[q] = "finalize" => pc[q] = "finalize" \/ keys'[q] \in {"active", "gone"}
  <2> USE DEF StoredInv, KeyTypeOK, Sent
  <2>1. CASE Crash
    BY <2>1 DEF Crash
  <2>2. CASE \E r \in Requests : InsertLands(r) \/ InsertLost(r) \/ KeyGone(r)
    BY <2>2 DEF InsertLands, InsertLost, KeyGone
  <2>3. CASE UNCHANGED <<keys, pc>>
    BY <2>3
  <2> QED
    BY <2>1, <2>2, <2>3 DEF Environment, CooldownLapses, CacheLapses, PageReads, PageStores
<1> QED
  BY <1>1, <1>2, StoredKept

LEMMA StoredInvHolds == KeySpec => []StoredInv
<1>1. KeyInit => StoredInv
  <2> SUFFICES ASSUME KeyInit
               PROVE  StoredInv
    OBVIOUS
  <2>1. KeyTypeOK
    BY KeyInitTypes
  <2>2. /\ \A c \in Attempts : status[c] = "none" /\ keyOf[c] = NoRequest /\ older[c] = {}
        /\ \A r \in Requests : keys[r] = "none" /\ pc[r] = "idle"
    BY DEF KeyInit
  <2> QED
    BY <2>1, <2>2 DEF StoredInv, RecordedKeyIsStored
<1>2. StoredInv /\ [KeyNext]_keyVars => StoredInv'
  <2> SUFFICES ASSUME StoredInv, [KeyNext]_keyVars
               PROVE  StoredInv'
    OBVIOUS
  <2>1. KeyTypeOK'
    BY KeyStepTypes DEF StoredInv
  <2>2. ASSUME NEW c \in Attempts, StartStep(c)
        PROVE  StoredInv'
    BY <2>1, <2>2, StartFrame, StoredKept
  <2>3. CASE UNCHANGED keyVars
    BY <2>1, <2>3, StoredKept DEF keyVars, rowVars
  <2> QED
    BY <2>1, <2>2, <2>3, StepCases, StoredRequests, StoredEnvironment
<1> QED
  BY <1>1, <1>2, PTL DEF KeySpec

\* The key an attempt records has been stored, by a callback of that attempt,
\* whatever has become of the answers and of the process in between.
THEOREM RecordedKeyIsStoredAlways == KeySpec => []RecordedKeyIsStored
<1>1. StoredInv => RecordedKeyIsStored
  BY DEF StoredInv
<1> QED
  BY <1>1, StoredInvHolds, PTL

-----------------------------------------------------------------------------
(* The ledger of ads *)

Over(state) == state \notin Open \cup {"none"}

\* A step that commits no request is one of the ledger for every attempt whose
\* status it changes in one of the ways of the code.
LEMMA LedgerAdKept ==
    ASSUME AdInv, NEW c \in Attempts, UNCHANGED row,
           \A r \in Requests : Committed(r)' => Committed(r),
           status[c] = "none" => status'[c] \in Open \cup {"none"},
           status[c] # "none" => status'[c] # "none",
           Over(status[c]) => Over(status'[c])
    PROVE  Ledger!AdStep(c)
<1>1. Claims(c)' \subseteq Claims(c)
  BY DEF Claims
<1>2. status[c] \in Open \cup {"none"} => Claims(c) = {}
  BY DEF AdInv, Claims
<1>3. /\ status[c] = "none" <=> AdState(c) = "none"
      /\ status[c] \in Open <=> AdState(c) = "open"
      /\ Over(status[c]) <=> AdState(c) = "over"
  BY DEF AdState, Over
<1>4. /\ status'[c] = "none" <=> AdState(c)' = "none"
      /\ status'[c] \in Open <=> AdState(c)' = "open"
      /\ Over(status'[c]) <=> AdState(c)' = "over"
  BY DEF AdState, Over
<1> USE <1>3, <1>4 DEF Over, Ledger!AdStep, Ledger!Stays
<1>5. CASE status[c] = "none" /\ status'[c] \in Open
  BY <1>1, <1>2, <1>5 DEF Ledger!Offer
<1>6. CASE status[c] \in Open /\ Over(status'[c])
  BY <1>1, <1>2, <1>6 DEF Ledger!Withdraw
<1>7. CASE Over(status[c])
  BY <1>1, <1>7 DEF Ledger!GiveUp
<1>8. CASE \/ status[c] = "none" /\ status'[c] = "none"
           \/ status[c] \in Open /\ status'[c] \in Open
  BY <1>1, <1>2, <1>8 DEF Ledger!Unsold
<1> QED
  BY <1>5, <1>6, <1>7, <1>8

\* The handlers that start attempts: an attempt is offered before it is over.
LEMMA LedgerAdStarts ==
    ASSUME AdInv, NEW d \in Attempts, StartStep(d), NEW c \in Attempts
    PROVE  Ledger!AdStep(c)
<1>1. UNCHANGED <<keys, pc, row>>
  BY StartFrame
<1>2. \A r \in Requests : Committed(r)' => Committed(r)
  BY <1>1 DEF Committed
<1>3. /\ status[c] # "none" => status'[c] # "none"
      /\ status[c] = "none" => status'[c] \in Open \cup {"none"}
  <2> USE DEF AdInv, KeyTypeOK, StartMoves
  <2>1. CASE CleanUp(d) \/ PageCleansUp(d)
    BY <2>1 DEF CleanUp, PageCleansUp, Expire, OpenAttempts
  <2>2. CASE CreateChallenge(d) \/ PageCreates(d)
    BY <2>2 DEF CreateChallenge, PageCreates
  <2>3. CASE \E e \in Attempts : Supersede(d, e)
    BY <2>3 DEF Supersede
  <2>4. CASE SelectProvider(d) \/ MarkPending(d)
    BY <2>4 DEF SelectProvider, MarkPending
  <2>5. CASE PageSupersedes(d)
    BY <2>5 DEF PageSupersedes
  <2>6. CASE UNCHANGED status
    BY <2>6
  <2> QED
    BY <2>1, <2>2, <2>3, <2>4, <2>5, <2>6
       DEF StartStep, StartLooks, StartAllowed, ReadOpenAttempts, StartFails, PageResumes, PageFindsNone
<1>4. Over(status[c]) => Over(status'[c])
  BY AdStartsOver DEF Over
<1> QED
  BY <1>1, <1>2, <1>3, <1>4, LedgerAdKept

\* The step that consumes an ad is the claim of the callback that makes it.
LEMMA LedgerAdClaimed ==
    ASSUME AdInv, NEW r \in Requests, Consume(r), NEW c \in Attempts
    PROVE  Ledger!AdStep(c)
<1>1. /\ status[row[r]] = "pending_ad"
      /\ status' = [status EXCEPT ![row[r]] = "ad_completed"]
      /\ pc' = [pc EXCEPT ![r] = "recheck"]
      /\ UNCHANGED <<keys, row>>
  BY DEF Consume, Proceed, Moves
<1>2. KeyTypeOK /\ row[r] \in Attempts
  BY DEF AdInv, KeyTypeOK
<1>3. \A q \in Requests : q # r => (Committed(q)' <=> Committed(q))
  BY <1>1, <1>2 DEF Committed, KeyTypeOK
<1>4. CASE c = row[r]
  <2>1. Claims(c) = {}
    BY <1>1, <1>4 DEF AdInv, Claims
  <2>2. Committed(r)'
    BY <1>1, <1>2 DEF Committed, KeyTypeOK
  <2>3. Claims(c)' = {r}
    BY <1>1, <1>3, <1>4, <2>1, <2>2 DEF Claims
  <2>4. AdState(c) = "open" /\ AdState(c)' = "over"
    BY <1>1, <1>2, <1>4 DEF AdState, KeyTypeOK
  <2> QED
    BY <2>1, <2>3, <2>4 DEF Ledger!AdStep, Ledger!Claim
<1>5. CASE c # row[r]
  <2>1. status'[c] = status[c] /\ Claims(c)' = Claims(c)
    BY <1>1, <1>2, <1>3, <1>5 DEF Claims, KeyTypeOK
  <2>2. AdState(c)' = AdState(c)
    BY <2>1 DEF AdState
  <2>3. AdState(c) \in {"none", "open"} => Claims(c) = {}
    BY DEF AdInv, AdState, Claims
  <2>4. AdState(c) \in {"none", "open", "over"}
    BY DEF AdState
  <2> QED
    BY <2>1, <2>2, <2>3, <2>4 DEF Ledger!AdStep, Ledger!GiveUp, Ledger!Unsold, Ledger!Stays
<1> QED
  BY <1>4, <1>5

LEMMA LedgerAds ==
    ASSUME AdInv, [KeyNext]_keyVars, NEW c \in Attempts
    PROVE  Ledger!AdStep(c)
<1>1. ASSUME NEW d \in Attempts, StartStep(d)
      PROVE  Ledger!AdStep(c)
  BY <1>1, LedgerAdStarts
<1>2. ASSUME NEW r \in Requests, RequestStep(r)
      PROVE  Ledger!AdStep(c)
  <2>1. CASE Consume(r)
    BY <2>1, LedgerAdClaimed
  <2>2. CASE ~Consume(r)
    <3>1. UNCHANGED row
      BY <1>2 DEF RequestStep, LoadAttempt, Join, Enter, Check, Recheck, Duplicate, LookUp,
                  CheckCooldown, Consume, ConsumeConflicts, AnswerConflict, SendInsert,
                  InsertConfirmed, InsertRefused, InsertTimesOut, Fail, Finalize,
                  FinalizeFails, Proceed, Leave
    <3> QED
      BY <1>2, <2>2, <3>1, RequestCommits, LedgerAdKept DEF Over
  <2> QED
    BY <2>1, <2>2
<1>3. CASE Environment
  BY <1>3, EnvironmentCommits, LedgerAdKept DEF AdInv
<1>4. CASE UNCHANGED keyVars
  BY <1>4, LedgerAdKept DEF keyVars, rowVars, Committed
<1> QED
  BY <1>1, <1>2, <1>3, <1>4, StepCases

\* A key is sent by a request whose ad it has consumed and that has none.
LEMMA LedgerKeys ==
    ASSUME AdInv, StoredInv, [KeyNext]_keyVars, NEW q \in Requests
    PROVE  Ledger!Issue(q) \/ Ledger!Settle(q) \/ Ledger!Untouched(q)
<1> USE DEF Ledger!Settle, Ledger!Untouched
<1>1. ASSUME NEW c \in Attempts, StartStep(c)
      PROVE  Ledger!Untouched(q)
  BY <1>1, StartFrame
<1>2. ASSUME NEW r \in Requests, RequestStep(r)
      PROVE  Ledger!Issue(q) \/ Ledger!Settle(q) \/ Ledger!Untouched(q)
  <2>1. CASE SendInsert(r) /\ q = r
    <3>1. pc[r] = "insert" /\ keys' = [keys EXCEPT ![r] = "sent"]
      BY <2>1 DEF SendInsert, Proceed, Moves
    <3>2. keys[r] = "none" /\ keys'[r] = "sent" /\ row[r] \in Attempts
      BY <3>1 DEF StoredInv, Sent, KeyTypeOK
    <3>3. Committed(r) /\ r \in Claims(row[r])
      BY <3>1 DEF Committed, Claims
    <3>4. AdState(row[r]) = "over"
      BY <3>3 DEF AdInv, AdState
    <3> QED
      BY <2>1, <3>2, <3>3, <3>4 DEF Ledger!Issue
  <2>2. CASE ~(SendInsert(r) /\ q = r)
    BY <1>2, <2>2
       DEF AdInv, KeyTypeOK, RequestStep, LoadAttempt, Join, Enter, Check, Recheck, Duplicate,
           LookUp, CheckCooldown, Consume, ConsumeConflicts, AnswerConflict, SendInsert,
           InsertConfirmed, InsertRefused, InsertTimesOut, Fail, Finalize, FinalizeFails
  <2> QED
    BY <2>1, <2>2
<1>3. CASE Environment
  BY <1>3 DEF AdInv, KeyTypeOK, Environment, CooldownLapses, InsertLands, InsertLost, KeyGone,
              CacheLapses, PageReads, PageStores, Crash
<1>4. CASE UNCHANGED keyVars
  BY <1>4 DEF keyVars
<1> QED
  BY <1>1, <1>2, <1>3, <1>4, StepCases

\* Seen from the ads, all of key generation, with its lock, its cached look-ups,
\* its faults and its crashes, is a ledger that sells one key per ad.
THEOREM RefinesLedger == KeySpec => SellsOneKeyPerAd
<1>1. KeyInit => Ledger!LedgerInit
  <2> SUFFICES ASSUME KeyInit
               PROVE  Ledger!LedgerInit
    OBVIOUS
  <2>1. \A c \in Attempts : AdState(c) = "none" /\ Claims(c) = {}
    BY DEF KeyInit, AdState, Claims, Committed
  <2> QED
    BY <2>1 DEF KeyInit, Ledger!LedgerInit
<1>2. AdInv /\ StoredInv /\ [KeyNext]_keyVars => [Ledger!LedgerStep]_(Ledger!ledgerVars)
  BY LedgerAds, LedgerKeys DEF Ledger!LedgerStep
<1> QED
  BY <1>1, <1>2, AdInvHolds, StoredInvHolds, PTL
     DEF KeySpec, SellsOneKeyPerAd, Ledger!LedgerSpec

-----------------------------------------------------------------------------
(* One unredeemed key *)

\* Its attempt is finalised, and cools down.
Cooled(q) ==
    /\ status[row[q]] = "key_generated"
    /\ cooling[row[q]]
    /\ keyOf[row[q]] = q

Generating(q) == pc[q] \in {"inserting", "finalize"}
Holding == {"recheck", "insert", "inserting", "duplicate", "fail", "finalize"}

InsertAwaited == \A r \in Requests : keys[r] = "sent" => pc[r] = "inserting"
AdHeld == \A r \in Requests : pc[r] \in Holding => status[row[r]] = "ad_completed"
KeyShown == \A q \in Unredeemed : Generating(q) \/ Cooled(q) \/ Shown(q)
PastCooldown ==
    \A r \in Requests : pc[r] \in {"consume", "recheck"} => \A q \in Unredeemed : Shown(q)
ClearToInsert == \A r \in Requests : pc[r] = "insert" => Unredeemed = {}
OwnKeyOnly == \A r \in Requests : Generating(r) => Unredeemed \subseteq {r}
OnlyOne == \A q, r \in Unredeemed : q = r

SingleKey == /\ InsertAwaited /\ AdHeld /\ KeyShown /\ PastCooldown
             /\ ClearToInsert /\ OwnKeyOnly /\ OnlyOne

SingleKeyInv == ~mishap => SingleKey

\* What a step may do to the cache and to the look-ups of the pages, short of a
\* mishap.
Reads ==
    /\ \/ cache'.valid = cache.valid /\ cache'.unredeemed = cache.unredeemed
       \/ cache' \in {Cached(Unredeemed), NoCache} \cup {reading[p] : p \in Pages}
    /\ \A p \in Pages : reading'[p] \in {reading[p], Cached(Unredeemed), NoCache}

LEMMA ReadingShows ==
    ASSUME Reads, NEW q \in Unredeemed, Shown(q)
    PROVE  Shown(q)'
<1>1. /\ Cached(Unredeemed).valid => q \in Cached(Unredeemed).unredeemed
      /\ ~NoCache.valid
  BY DEF Cached, NoCache
<1>2. cache.valid => q \in cache.unredeemed
  BY DEF Shown
<1>3. \A p \in Pages : reading[p].valid => q \in reading[p].unredeemed
  BY DEF Shown
<1>4. cache'.valid => q \in cache'.unredeemed
  BY <1>1, <1>2, <1>3 DEF Reads
<1>5. \A p \in Pages : reading'[p].valid => q \in reading'[p].unredeemed
  BY <1>1, <1>3 DEF Reads
<1> QED
  BY <1>4, <1>5 DEF Shown

LEMMA LookUpReads ==
    ASSUME KeyTypeOK, ~mishap', UNCHANGED reading, Looked \/ LookupErrs
    PROVE  Reads
<1>1. LookupErrs => Unredeemed = {}
  BY DEF LookupErrs
<1>2. cache' = cache \/ cache' = Cached(Unredeemed)
  BY <1>1 DEF Looked, LookupErrs
<1> QED
  BY <1>2 DEF Reads

\* No mishap is forgotten, and superseding a spent attempt is one.
LEMMA SupersedeSpares ==
    ASSUME ~mishap', NEW c \in Attempts, NEW d \in Attempts, Supersede(c, d)
    PROVE  ~mishap /\ (status[d] \in Spent => status'[d] = status[d])
<1>1. mishap' = (mishap \/ (status[d] \in Spent /\ status'[d] # status[d]))
  BY DEF Supersede
<1> QED
  BY <1>1, Zenon

LEMMA CooldownPasses ==
    ASSUME KeyTypeOK, ~mishap', NEW r \in Requests, CheckCooldown(r)
    PROVE  /\ ~mishap
           /\ \/ Leave(r, "cooldown")
              \/ Proceed(r, "cooldown", "consume") /\ ~Cooling
<1>1. CASE Leave(r, "cooldown") /\ UNCHANGED mishap
  BY <1>1 DEF KeyTypeOK
<1>2. CASE Proceed(r, "cooldown", "consume") /\ mishap' = (mishap \/ Cooling)
  BY <1>2, Zenon
<1> QED
  BY <1>1, <1>2 DEF CheckCooldown

\* A spent attempt stays what it is, unless it is superseded: a mishap.
LEMMA SpentStays ==
    ASSUME AdInv, ~mishap', NEW c \in Attempts, StartStep(c),
           NEW d \in Attempts, status[d] \in Spent
    PROVE  status'[d] = status[d]
<1> USE DEF AdInv, KeyTypeOK, StartMoves, Unborn
<1>1. CASE UNCHANGED status
  BY <1>1
<1>2. CASE CleanUp(c) \/ PageCleansUp(c)
  BY <1>2 DEF CleanUp, PageCleansUp, Expire, OpenAttempts
<1>3. CASE CreateChallenge(c) \/ PageCreates(c)
  BY <1>3 DEF CreateChallenge, PageCreates
<1>4. CASE \E e \in Attempts : Supersede(c, e)
  <2>1. PICK e \in Attempts : Supersede(c, e)
    BY <1>4
  <2>2. CASE d = e
    BY <2>1, <2>2, SupersedeSpares
  <2>3. CASE d # e
    BY <2>1, <2>3 DEF Supersede
  <2> QED
    BY <2>2, <2>3
<1>5. CASE SelectProvider(c) \/ MarkPending(c)
  BY <1>5 DEF SelectProvider, MarkPending
<1>6. CASE PageSupersedes(c)
  BY <1>6 DEF PageSupersedes
<1> QED
  BY <1>1, <1>2, <1>3, <1>4, <1>5, <1>6
     DEF StartStep, StartLooks, StartAllowed, ReadOpenAttempts, StartFails, PageResumes, PageFindsNone

LEMMA StartReads ==
    ASSUME KeyTypeOK, ~mishap', NEW c \in Attempts, StartStep(c)
    PROVE  ~mishap /\ Reads
<1>1. CASE StartLooks(c)
  <2>1. UNCHANGED reading /\ (Looked \/ LookupErrs)
    BY <1>1 DEF StartLooks, StartMoves
  <2>2. ~mishap
    BY <1>1 DEF StartLooks, LookupErrs
  <2> QED
    BY <2>1, <2>2, LookUpReads
<1>2. CASE \E d \in Attempts : Supersede(c, d)
  BY <1>2, SupersedeSpares DEF Supersede, Reads
<1>3. CASE UNCHANGED <<cache, reading, mishap>>
  BY <1>3 DEF Reads
<1> QED
  BY <1>1, <1>2, <1>3
     DEF StartStep, StartMoves, StartAllowed, PageCleansUp, CleanUp, CreateChallenge, ReadOpenAttempts, SelectProvider, MarkPending,
         StartFails, PageResumes, PageFindsNone, PageSupersedes, PageCreates

\* A step that moves no callback, and neither stores a key nor touches a spent
\* attempt.
LEMMA SingleKept ==
    ASSUME KeyTypeOK, SingleKey, UNCHANGED <<pc, row>>, Reads,
           \A q \in Requests : keys'[q] \in {"sent", "active"} => keys'[q] = keys[q],
           \A d \in Attempts : status[d] \in Spent =>
              status'[d] = status[d] /\ cooling'[d] = cooling[d] /\ keyOf'[d] = keyOf[d]
    PROVE  SingleKey'
<1>1. Unredeemed' \subseteq Unredeemed
  BY DEF Unredeemed
<1>2. \A q \in Requests : row[q] \in Attempts
  BY DEF KeyTypeOK
<1>3. \A q \in Requests : Cooled(q) => Cooled(q)'
  BY <1>2 DEF Cooled
<1>4. InsertAwaited'
  BY DEF SingleKey, InsertAwaited
<1>5. AdHeld'
  BY <1>2 DEF SingleKey, AdHeld
<1>6. KeyShown'
  <2>1. \A q \in Unredeemed : Shown(q) => Shown(q)'
    BY ReadingShows
  <2>2. \A q \in Unredeemed : q \in Requests
    BY DEF Unredeemed
  <2> QED
    BY <1>1, <1>3, <2>1, <2>2 DEF SingleKey, KeyShown, Generating
<1>7. PastCooldown'
  <2>1. \A q \in Unredeemed : Shown(q) => Shown(q)'
    BY ReadingShows
  <2> QED
    BY <1>1, <2>1 DEF SingleKey, PastCooldown
<1>8. ClearToInsert'
  BY <1>1 DEF SingleKey, ClearToInsert
<1>9. OwnKeyOnly' /\ OnlyOne'
  BY <1>1 DEF SingleKey, OwnKeyOnly, OnlyOne, Generating
<1> QED
  BY <1>4, <1>5, <1>6, <1>7, <1>8, <1>9 DEF SingleKey

LEMMA SingleStarts ==
    ASSUME AdInv, SingleKeyInv, NEW c \in Attempts, StartStep(c)
    PROVE  SingleKeyInv'
<1> SUFFICES ASSUME ~mishap'
             PROVE  SingleKey'
  BY DEF SingleKeyInv
<1>1. KeyTypeOK
  BY DEF AdInv
<1>2. ~mishap /\ Reads
  BY <1>1, StartReads
<1>3. UNCHANGED <<keyOf, cooling, keys, pc, row>>
  BY StartFrame
<1>4. \A d \in Attempts : status[d] \in Spent => status'[d] = status[d]
  BY SpentStays
<1> QED
  BY <1>1, <1>2, <1>3, <1>4, SingleKept DEF SingleKeyInv

\* The callbacks.  Two facts about any of their steps: the callback that moves
\* reads as the cache allows, and no other one moves.
LEMMA RequestReads ==
    ASSUME KeyTypeOK, ~mishap', NEW r \in Requests, RequestStep(r)
    PROVE  /\ ~mishap /\ Reads
           /\ row' = row
           /\ \E to \in Steps : pc' = [pc EXCEPT ![r] = to]
<1> USE DEF Moves, Proceed, Leave
<1>1. CASE Check(r) \/ Recheck(r) \/ Duplicate(r)
  <2>1. PICK from, to \in Steps : LookUp(r, from, to)
    BY <1>1 DEF Check, Recheck, Duplicate
  <2>2. ~mishap
    BY <2>1 DEF LookUp, LookupErrs
  <2>3. Reads
    <3>1. UNCHANGED reading /\ (Looked \/ LookupErrs \/ UNCHANGED cache)
      BY <2>1 DEF LookUp
    <3> QED
      BY <3>1, LookUpReads DEF Reads
  <2>4. row' = row /\ \E t \in Steps : pc' = [pc EXCEPT ![r] = t]
    BY <2>1 DEF LookUp
  <2> QED
    BY <2>2, <2>3, <2>4
<1>2. CASE ~(Check(r) \/ Recheck(r) \/ Duplicate(r))
  <2>1. /\ ~mishap /\ UNCHANGED <<reading, row>>
        /\ SendInsert(r) \/ UNCHANGED cache
    BY <1>2, CooldownPasses
       DEF RequestStep, LoadAttempt, Join, Enter, CheckCooldown, Consume, ConsumeConflicts,
           AnswerConflict, SendInsert, InsertConfirmed, InsertRefused, InsertTimesOut,
           Fail, Finalize, FinalizeFails
  <2>3. cache'.valid = cache.valid /\ cache'.unredeemed = cache.unredeemed
    BY <2>1 DEF SendInsert, KeyTypeOK, Answers
  <2>2. \E to \in Steps : pc' = [pc EXCEPT ![r] = to]
    BY <1>2 DEF RequestStep, LoadAttempt, Join, Enter, CheckCooldown, Consume,
                ConsumeConflicts, AnswerConflict, SendInsert, InsertConfirmed,
                InsertRefused, InsertTimesOut, Fail, Finalize, FinalizeFails
  <2> QED
    BY <2>1, <2>2, <2>3 DEF Reads
<1> QED
  BY <1>1, <1>2

\* None stores a key (the database does), nor touches an attempt that cools down.
LEMMA RequestWrites ==
    ASSUME KeyTypeOK, SingleKey, NEW r \in Requests, RequestStep(r), ~mishap'
    PROVE  /\ Unredeemed' \subseteq Unredeemed
           /\ \A q \in Requests : Cooled(q) => Cooled(q)'
<1> USE DEF Moves, Proceed, Leave
<1>1. Unredeemed' \subseteq Unredeemed
  BY DEF KeyTypeOK, Unredeemed, RequestStep, LoadAttempt, Join, Enter, Check, Recheck,
         Duplicate, LookUp, CheckCooldown, Consume, ConsumeConflicts, AnswerConflict,
         SendInsert, InsertConfirmed, InsertRefused, InsertTimesOut, Fail, Finalize,
         FinalizeFails
<1>2. row[r] \in Attempts /\ \A q \in Requests : row[q] \in Attempts
  BY DEF KeyTypeOK
<1>3. row' = row
  BY RequestReads
<1>4. \/ UNCHANGED <<status, keyOf, cooling>>
      \/ /\ status[row[r]] # "key_generated"
         /\ \E s \in Statuses : status' = [status EXCEPT ![row[r]] = s]
         /\ \E k : keyOf' = [keyOf EXCEPT ![row[r]] = k]
         /\ \E t \in BOOLEAN : cooling' = [cooling EXCEPT ![row[r]] = t]
  <2>1. CASE Consume(r) \/ ConsumeConflicts(r)
    <3>1. UNCHANGED <<keyOf, cooling>>
      BY <2>1 DEF Consume, ConsumeConflicts
    <3>2. \/ UNCHANGED status
          \/ /\ status[row[r]] = "pending_ad"
             /\ status' = [status EXCEPT ![row[r]] = "ad_completed"]
      BY <2>1 DEF Consume, ConsumeConflicts
    <3>3. /\ keyOf = [keyOf EXCEPT ![row[r]] = keyOf[row[r]]]
          /\ cooling = [cooling EXCEPT ![row[r]] = cooling[row[r]]]
          /\ cooling[row[r]] \in BOOLEAN
      BY <1>2 DEF KeyTypeOK
    <3> QED
      BY <3>1, <3>2, <3>3
  <2>2. CASE Fail(r)
    <3>1. UNCHANGED <<keyOf, cooling>>
      BY <2>2 DEF Fail
    <3>2. UNCHANGED status \/ status' = [status EXCEPT ![row[r]] = "failed"]
      BY <2>2 DEF Fail
    <3>3. status[row[r]] = "ad_completed"
      BY <2>2 DEF Fail, SingleKey, AdHeld, Holding
    <3>4. /\ keyOf = [keyOf EXCEPT ![row[r]] = keyOf[row[r]]]
          /\ cooling = [cooling EXCEPT ![row[r]] = cooling[row[r]]]
          /\ cooling[row[r]] \in BOOLEAN
      BY <1>2 DEF KeyTypeOK
    <3> QED
      BY <3>1, <3>2, <3>3, <3>4
  <2>3. CASE Finalize(r)
    BY <2>3 DEF Finalize, rowVars
  <2>4. CASE UNCHANGED rowVars
    BY <2>4 DEF rowVars
  <2> QED
    BY <2>1, <2>2, <2>3, <2>4
       DEF RequestStep, LoadAttempt, Join, Enter, Check, Recheck, Duplicate, LookUp,
           CheckCooldown, AnswerConflict, SendInsert, InsertConfirmed, InsertRefused,
           InsertTimesOut, FinalizeFails
<1>5. ASSUME NEW q \in Requests, Cooled(q)
      PROVE  Cooled(q)'
  <2>1. CASE UNCHANGED <<status, keyOf, cooling>>
    BY <2>1, <1>3, <1>5 DEF Cooled
  <2>2. CASE /\ status[row[r]] # "key_generated"
             /\ \E s \in Statuses : status' = [status EXCEPT ![row[r]] = s]
             /\ \E k : keyOf' = [keyOf EXCEPT ![row[r]] = k]
             /\ \E t \in BOOLEAN : cooling' = [cooling EXCEPT ![row[r]] = t]
    <3>1. row[q] # row[r] /\ row[q] \in Attempts
      BY <1>2, <1>5, <2>2 DEF Cooled
    <3>2. status'[row[q]] = status[row[q]]
      BY <2>2, <3>1 DEF KeyTypeOK
    <3>3. keyOf'[row[q]] = keyOf[row[q]]
      BY <2>2, <3>1 DEF KeyTypeOK
    <3>4. cooling'[row[q]] = cooling[row[q]]
      <4>1. cooling \in [Attempts -> BOOLEAN]
        BY DEF KeyTypeOK
      <4> QED
        BY <2>2, <3>1, <4>1
    <3> QED
      BY <1>3, <1>5, <3>2, <3>3, <3>4 DEF Cooled
  <2> QED
    BY <1>4, <2>1, <2>2
<1> QED
  BY <1>1, <1>5

\* A callback that passes the cooldown leaves no key behind that a look-up would
\* miss: it is alone in the lock, and no key cools down.
LEMMA CooldownLeavesShown ==
    ASSUME KeyTypeOK, SingleKey, LockExclusive, ~mishap', NEW r \in Requests,
           CheckCooldown(r), pc'[r] = "consume", NEW q \in Unredeemed
    PROVE  Shown(q)
<1>1. q \in Requests /\ row[q] \in Attempts
  BY DEF Unredeemed, KeyTypeOK
<1>2. pc[r] = "cooldown" /\ ~Cooling
  BY CooldownPasses DEF Leave, Proceed, Moves, KeyTypeOK
<1>3. ~Generating(q)
  BY <1>1, <1>2 DEF LockExclusive, Generating
<1>4. ~Cooled(q)
  BY <1>1, <1>2 DEF Cooling, Cooled
<1> QED
  BY <1>3, <1>4 DEF SingleKey, KeyShown

\* The second look-up, if it finds nothing, then means that there is no key.
LEMMA RecheckFindsAll ==
    ASSUME KeyTypeOK, SingleKey, ~mishap', NEW r \in Requests,
           Recheck(r), pc'[r] = "insert"
    PROVE  Unredeemed = {}
<1>1. pc[r] = "recheck"
  BY DEF Recheck, LookUp, Leave, Proceed, Moves
<1>2. \A q \in Unredeemed : cache.valid => q \in cache.unredeemed
  BY <1>1 DEF SingleKey, PastCooldown, Shown
<1>3. Rows = {} \/ LookupErrs
  BY <1>1 DEF Recheck, LookUp, Leave, Moves, KeyTypeOK
<1>4. CASE LookupErrs
  BY <1>4 DEF LookupErrs
<1>5. CASE Rows = {}
  BY <1>2, <1>5 DEF Rows
<1> QED
  BY <1>3, <1>4, <1>5

LEMMA SingleRequests ==
    ASSUME KeyTypeOK, KeyTypeOK', LockExclusive, SingleKeyInv,
           NEW r \in Requests, RequestStep(r)
    PROVE  SingleKeyInv'
<1> SUFFICES ASSUME ~mishap'
             PROVE  SingleKey'
  BY DEF SingleKeyInv
<1>1. /\ ~mishap /\ Reads
      /\ row' = row
      /\ \E to \in Steps : pc' = [pc EXCEPT ![r] = to]
  BY RequestReads
<1>2. SingleKey
  BY <1>1 DEF SingleKeyInv
<1>3. /\ Unredeemed' \subseteq Unredeemed
      /\ \A q \in Requests : Cooled(q) => Cooled(q)'
  BY <1>2, RequestWrites
<1>4. \A q \in Requests : q # r => pc'[q] = pc[q]
  BY <1>1 DEF KeyTypeOK
<1>5. \A q \in Unredeemed : q \in Requests
  BY DEF Unredeemed
<1>6. row[r] \in Attempts /\ \A q \in Requests : row[q] \in Attempts
  BY DEF KeyTypeOK
<1> DEFINE Elsewhere == \A q \in Requests \ {r} : keys'[q] = keys[q]
<1>7. InsertAwaited'
  <2>1. Elsewhere /\ (keys'[r] = "sent" => pc'[r] = "inserting")
    <3> USE <1>2 DEF SingleKey, InsertAwaited, KeyTypeOK, Moves, Proceed, Leave
    <3>1. CASE LoadAttempt(r) \/ Join(r) \/ Enter(r)
      BY <3>1 DEF LoadAttempt, Join, Enter
    <3>2. CASE Check(r) \/ Recheck(r) \/ Duplicate(r)
      BY <3>2 DEF Check, Recheck, Duplicate, LookUp
    <3>3. CASE CheckCooldown(r) \/ Consume(r) \/ ConsumeConflicts(r) \/ AnswerConflict(r)
      BY <3>3 DEF CheckCooldown, Consume, ConsumeConflicts, AnswerConflict
    <3>4. CASE SendInsert(r) \/ InsertConfirmed(r) \/ InsertRefused(r)
      BY <3>4 DEF SendInsert, InsertConfirmed, InsertRefused
    <3>5. CASE Fail(r) \/ Finalize(r)
      BY <3>5 DEF Fail, Finalize
    <3> QED
      BY <3>1, <3>2, <3>3, <3>4, <3>5 DEF RequestStep, InsertTimesOut, FinalizeFails
  <2> QED
    BY <1>2, <1>4, <2>1 DEF SingleKey, InsertAwaited
<1>8. AdHeld'
  <2>1. ASSUME NEW q \in Requests, q # r, pc'[q] \in Holding
        PROVE  status'[row'[q]] = "ad_completed"
    <3>1. pc[q] \in Holding /\ status[row[q]] = "ad_completed"
      BY <1>2, <1>4, <2>1 DEF SingleKey, AdHeld
    <3>2. pc[r] \notin Critical
      BY <2>1, <3>1 DEF LockExclusive, Holding
    <3>3. LoadAttempt(r) \/ Join(r) \/ Enter(r)
      BY <3>2, LockCases DEF Within, Resolves
    <3>4. UNCHANGED status
      BY <3>3 DEF LoadAttempt, Join, Enter, rowVars
    <3> QED
      BY <1>1, <3>1, <3>4
  <2>2. pc'[r] \in Holding => status'[row[r]] = "ad_completed"
    <3> USE <1>2, <1>6 DEF SingleKey, AdHeld, Holding, KeyTypeOK, Moves, Proceed, Leave
    <3>1. CASE LoadAttempt(r) \/ Join(r) \/ Enter(r)
      BY <3>1 DEF LoadAttempt, Join, Enter
    <3>2. CASE Check(r) \/ Recheck(r) \/ Duplicate(r)
      BY <3>2 DEF Check, Recheck, Duplicate, LookUp, rowVars
    <3>3. CASE CheckCooldown(r) \/ Consume(r) \/ ConsumeConflicts(r) \/ AnswerConflict(r)
      BY <3>3 DEF CheckCooldown, Consume, ConsumeConflicts, AnswerConflict
    <3>4. CASE SendInsert(r) \/ InsertConfirmed(r) \/ InsertRefused(r) \/ InsertTimesOut(r)
      BY <3>4 DEF SendInsert, InsertConfirmed, InsertRefused, InsertTimesOut, rowVars
    <3>5. CASE Fail(r) \/ Finalize(r) \/ FinalizeFails(r)
      BY <3>5 DEF Fail, Finalize, FinalizeFails
    <3> QED
      BY <3>1, <3>2, <3>3, <3>4, <3>5 DEF RequestStep
  <2> QED
    BY <1>1, <2>1, <2>2 DEF AdHeld
<1>9. KeyShown'
  <2> SUFFICES ASSUME NEW q \in Unredeemed'
               PROVE  Generating(q)' \/ Cooled(q)' \/ Shown(q)'
    BY DEF KeyShown
  <2>1. q \in Unredeemed /\ q \in Requests
    BY <1>3, <1>5
  <2>2. CASE Cooled(q)
    BY <1>3, <2>1, <2>2
  <2>3. CASE Shown(q)
    BY <1>1, <2>1, <2>3, ReadingShows
  <2>4. CASE Generating(q) /\ q # r
    BY <1>4, <2>1, <2>4 DEF Generating
  <2>5. CASE Generating(q) /\ q = r
    <3>1. keys'[r] = "active" /\ keys[r] = "active" /\ pc[r] \in {"inserting", "finalize"}
      BY <2>1, <2>5 DEF Unredeemed, Generating
    <3>2. InsertConfirmed(r) \/ Finalize(r)
      BY <3>1 DEF RequestStep, LoadAttempt, Join, Enter, Check, Recheck, Duplicate, LookUp,
                  CheckCooldown, Consume, ConsumeConflicts, AnswerConflict, SendInsert,
                  InsertRefused, InsertTimesOut, Fail, FinalizeFails, Moves, Proceed, Leave
    <3>3. CASE InsertConfirmed(r)
      BY <2>5, <3>3 DEF InsertConfirmed, Proceed, Moves, Generating, KeyTypeOK
    <3>4. CASE Finalize(r)
      <4>1. status[row[r]] = "ad_completed"
        BY <1>2, <3>4 DEF Finalize, Leave, Moves, SingleKey, AdHeld, Holding
      <4>2. /\ status' = [status EXCEPT ![row[r]] = "key_generated"]
            /\ keyOf' = [keyOf EXCEPT ![row[r]] = r]
            /\ cooling' = [cooling EXCEPT ![row[r]] = TRUE]
        BY <3>4, <4>1 DEF Finalize
      <4>3. status'[row[r]] = "key_generated" /\ keyOf'[row[r]] = r
        BY <1>6, <4>2 DEF KeyTypeOK
      <4>4. cooling'[row[r]]
        <5>1. cooling \in [Attempts -> BOOLEAN]
          BY DEF KeyTypeOK
        <5> QED
          BY <1>6, <4>2, <5>1
      <4> QED
        BY <1>1, <2>5, <4>3, <4>4 DEF Cooled
    <3> QED
      BY <3>2, <3>3, <3>4
  <2> QED
    BY <1>2, <2>1, <2>2, <2>3, <2>4, <2>5 DEF SingleKey, KeyShown
<1>10. PastCooldown'
  <2>1. ASSUME NEW q \in Unredeemed, pc'[r] \in {"consume", "recheck"}
        PROVE  Shown(q)
    <3>1. CASE CheckCooldown(r)
      <4>1. pc'[r] = "consume"
        BY <2>1, <3>1, CooldownPasses DEF Leave, Proceed, Moves, KeyTypeOK
      <4> QED
        BY <1>2, <3>1, <4>1, CooldownLeavesShown
    <3>2. CASE ~CheckCooldown(r)
      <4>1. pc[r] \in {"consume", "recheck"}
        BY <2>1, <3>2
           DEF RequestStep, LoadAttempt, Join, Enter, Check, Recheck, Duplicate, LookUp,
               Consume, ConsumeConflicts, AnswerConflict, SendInsert, InsertConfirmed,
               InsertRefused, InsertTimesOut, Fail, Finalize, FinalizeFails, Moves,
               Proceed, Leave, KeyTypeOK
      <4> QED
        BY <1>2, <4>1 DEF SingleKey, PastCooldown
    <3> QED
      BY <3>1, <3>2
  <2>2. ASSUME NEW s \in Requests, pc'[s] \in {"consume", "recheck"}, NEW q \in Unredeemed'
        PROVE  Shown(q)'
    <3>1. Shown(q)
      BY <1>2, <1>3, <1>4, <2>1, <2>2 DEF SingleKey, PastCooldown
    <3> QED
      BY <1>1, <1>3, <3>1, ReadingShows
  <2> QED
    BY <2>2 DEF PastCooldown
<1>11. ClearToInsert'
  <2>1. pc'[r] = "insert" => Unredeemed = {}
    <3>1. pc'[r] = "insert" => Recheck(r)
      BY DEF RequestStep, LoadAttempt, Join, Enter, Check, Duplicate, LookUp, CheckCooldown,
             Consume, ConsumeConflicts, AnswerConflict, SendInsert, InsertConfirmed,
             InsertRefused, InsertTimesOut, Fail, Finalize, FinalizeFails, Moves, Proceed,
             Leave, KeyTypeOK
    <3> QED
      BY <1>2, <3>1, RecheckFindsAll
  <2> QED
    BY <1>2, <1>3, <1>4, <2>1 DEF SingleKey, ClearToInsert
<1>12. OwnKeyOnly'
  <2>1. Generating(r)' => Unredeemed \subseteq {r}
    <3>1. Generating(r)' => pc[r] = "insert" \/ Generating(r)
      BY DEF Generating, RequestStep, LoadAttempt, Join, Enter, Check, Recheck, Duplicate,
             LookUp, CheckCooldown, Consume, ConsumeConflicts, AnswerConflict, SendInsert,
             InsertConfirmed, InsertRefused, InsertTimesOut, Fail, Finalize, FinalizeFails,
             Moves, Proceed, Leave, KeyTypeOK
    <3> QED
      BY <1>2, <3>1 DEF SingleKey, ClearToInsert, OwnKeyOnly
  <2> QED
    BY <1>2, <1>3, <1>4, <2>1 DEF SingleKey, OwnKeyOnly, Generating
<1>13. OnlyOne'
  BY <1>2, <1>3 DEF SingleKey, OnlyOne
<1> QED
  BY <1>7, <1>8, <1>9, <1>10, <1>11, <1>12, <1>13 DEF SingleKey

\* An insert that lands is awaited, and its callback found no other key.
LEMMA SingleLands ==
    ASSUME KeyTypeOK, LockExclusive, SingleKey, NEW r \in Requests, InsertLands(r)
    PROVE  SingleKey'
<1>1. /\ keys[r] = "sent" /\ keys' = [keys EXCEPT ![r] = "active"]
      /\ UNCHANGED <<pc, row, status, keyOf, cooling, cache>>
  BY DEF InsertLands, rowVars
<1>2. pc[r] = "inserting"
  BY <1>1 DEF SingleKey, InsertAwaited
<1>3. Unredeemed = {}
  BY <1>1, <1>2 DEF SingleKey, OwnKeyOnly, Generating, Unredeemed
<1>4. Unredeemed' = {r}
  BY <1>1, <1>3 DEF Unredeemed, KeyTypeOK
<1>5. \A q \in Requests : pc[q] \in Critical => q = r
  BY <1>2 DEF LockExclusive
<1>6. InsertAwaited'
  BY <1>1 DEF SingleKey, InsertAwaited, KeyTypeOK
<1>7. AdHeld'
  BY <1>1 DEF SingleKey, AdHeld
<1>8. KeyShown' /\ OnlyOne'
  BY <1>1, <1>2, <1>4 DEF KeyShown, OnlyOne, Generating
<1>9. PastCooldown' /\ ClearToInsert' /\ OwnKeyOnly'
  BY <1>1, <1>2, <1>4, <1>5 DEF PastCooldown, ClearToInsert, OwnKeyOnly, Generating
<1> QED
  BY <1>6, <1>7, <1>8, <1>9 DEF SingleKey

\* When a cooldown lapses short of a mishap, its key is shown.
LEMMA SingleLapses ==
    ASSUME KeyTypeOK, SingleKey, NEW c \in Attempts, CooldownLapses(c), ~mishap'
    PROVE  SingleKey'
<1>1. /\ UNCHANGED <<status, keyOf, keys, pc, row, cache, reading>>
      /\ cooling' = [cooling EXCEPT ![c] = FALSE]
      /\ keys[keyOf[c]] = "active" => Shown(keyOf[c])
  BY DEF CooldownLapses, lockVars
<1>2. Unredeemed' = Unredeemed
  BY <1>1 DEF Unredeemed
<1>3. KeyShown'
  <2> SUFFICES ASSUME NEW q \in Unredeemed
               PROVE  Generating(q)' \/ Cooled(q)' \/ Shown(q)'
    BY <1>2 DEF KeyShown
  <2>1. q \in Requests /\ keys[q] = "active" /\ row[q] \in Attempts
    BY DEF Unredeemed, KeyTypeOK
  <2>2. CASE Generating(q) \/ Shown(q)
    BY <1>1, <2>2 DEF Generating, Shown
  <2>3. CASE Cooled(q) /\ row[q] = c
    BY <1>1, <2>1, <2>3 DEF Cooled, Shown
  <2>4. CASE Cooled(q) /\ row[q] # c
    <3>1. cooling \in [Attempts -> BOOLEAN]
      BY DEF KeyTypeOK
    <3>2. cooling'[row[q]] = cooling[row[q]]
      BY <1>1, <2>1, <2>4, <3>1
    <3> QED
      BY <1>1, <2>4, <3>2 DEF Cooled
  <2> QED
    BY <2>2, <2>3, <2>4 DEF SingleKey, KeyShown
<1>4. InsertAwaited' /\ AdHeld' /\ PastCooldown'
  BY <1>1, <1>2 DEF SingleKey, InsertAwaited, AdHeld, PastCooldown, Shown
<1>5. ClearToInsert' /\ OwnKeyOnly' /\ OnlyOne'
  BY <1>1, <1>2 DEF SingleKey, ClearToInsert, OwnKeyOnly, OnlyOne, Generating
<1> QED
  BY <1>3, <1>4, <1>5 DEF SingleKey

\* After a crash that cuts no insert off nobody is inside, and nothing cached.
LEMMA SingleCrashes ==
    ASSUME KeyTypeOK, SingleKey, Crash, ~mishap'
    PROVE  SingleKey'
<1>1. /\ \A r \in Requests : pc'[r] \in {"idle", "done"} /\ keys'[r] # "sent"
      /\ cache' = NoCache /\ reading' = [p \in Pages |-> NoCache]
      /\ Unredeemed' = Unredeemed
  BY DEF Crash, Unredeemed
<1>2. InsertAwaited' /\ AdHeld' /\ PastCooldown' /\ ClearToInsert' /\ OwnKeyOnly'
  BY <1>1 DEF InsertAwaited, AdHeld, PastCooldown, ClearToInsert, OwnKeyOnly, Generating,
              Holding
<1>3. KeyShown' /\ OnlyOne'
  BY <1>1 DEF SingleKey, KeyShown, OnlyOne, Shown, NoCache
<1> QED
  BY <1>2, <1>3 DEF SingleKey

LEMMA SingleEnvironment ==
    ASSUME KeyTypeOK, LockExclusive, SingleKeyInv, Environment
    PROVE  SingleKeyInv'
<1> SUFFICES ASSUME ~mishap'
             PROVE  SingleKey'
  BY DEF SingleKeyInv
<1>1. ~mishap
  BY DEF Environment, CooldownLapses, InsertLands, InsertLost, KeyGone, CacheLapses,
         PageReads, PageStores, Crash
<1>2. SingleKey
  BY <1>1 DEF SingleKeyInv
<1>3. CASE \E c \in Attempts : CooldownLapses(c)
  BY <1>2, <1>3, SingleLapses
<1>4. CASE \E r \in Requests : InsertLands(r)
  BY <1>2, <1>4, SingleLands
<1>5. CASE \E r \in Requests : InsertLost(r) \/ KeyGone(r)
  <2>1. \A q \in Requests : keys'[q] \in {"sent", "active"} => keys'[q] = keys[q]
    BY <1>5 DEF InsertLost, KeyGone, KeyTypeOK
  <2>2. Reads /\ UNCHANGED <<status, keyOf, cooling, pc, row>>
    BY <1>5 DEF InsertLost, KeyGone, rowVars, Reads
  <2> QED
    BY <1>2, <2>1, <2>2, SingleKept
<1>6. CASE CacheLapses \/ \E p \in Pages : PageReads(p) \/ PageStores(p)
  <2>1. UNCHANGED <<status, keyOf, cooling, keys, pc, row>>
    BY <1>6 DEF CacheLapses, PageReads, PageStores, rowVars
  <2>2. ASSUME CacheLapses
        PROVE  Reads
    BY <2>2 DEF CacheLapses, Reads
  <2>3. ASSUME NEW p \in Pages, PageReads(p)
        PROVE  Reads
    <3>1. reading' = [reading EXCEPT ![p] = Cached(Unredeemed)] /\ UNCHANGED cache
      BY <2>3 DEF PageReads
    <3> QED
      BY <3>1 DEF Reads, KeyTypeOK
  <2>4. ASSUME NEW p \in Pages, PageStores(p)
        PROVE  Reads
    BY <2>4 DEF PageStores, Reads, KeyTypeOK
  <2>5. Reads
    BY <1>6, <2>2, <2>3, <2>4
  <2> QED
    BY <1>2, <2>1, <2>5, SingleKept
<1>7. CASE Crash
  BY <1>2, <1>7, SingleCrashes
<1> QED
  BY <1>3, <1>4, <1>5, <1>6, <1>7 DEF Environment

\* Whatever the number of tabs, attempts and callbacks, the check for an
\* unredeemed key, its cache and the cooldown together keep the user to one,
\* until one of the mishaps SecondKeyNeedsMishap lists.
THEOREM SecondKeyNeedsMishapAlways == KeySpec => []SecondKeyNeedsMishap
<1>1. KeyInit => SingleKeyInv
  BY DEF KeyInit, SingleKeyInv, SingleKey, InsertAwaited, AdHeld, KeyShown, PastCooldown,
         ClearToInsert, OwnKeyOnly, OnlyOne, Unredeemed, Generating, Holding
<1>2. /\ AdInv /\ AdInv' /\ LockExclusive /\ SingleKeyInv
      /\ [KeyNext]_keyVars
      => SingleKeyInv'
  <2> SUFFICES ASSUME AdInv, AdInv', LockExclusive, SingleKeyInv, [KeyNext]_keyVars
               PROVE  SingleKeyInv'
    OBVIOUS
  <2>1. KeyTypeOK /\ KeyTypeOK'
    BY DEF AdInv
  <2>2. CASE UNCHANGED keyVars
    <3> SUFFICES ASSUME ~mishap'
                 PROVE  SingleKey'
      BY DEF SingleKeyInv
    <3>1. ~mishap /\ Reads /\ UNCHANGED <<status, keyOf, cooling, keys, pc, row>>
      BY <2>2 DEF keyVars, rowVars, Reads
    <3> QED
      BY <2>1, <3>1, SingleKept DEF SingleKeyInv
  <2> QED
    BY <2>1, <2>2, StepCases, SingleStarts, SingleRequests, SingleEnvironment
<1>3. SingleKeyInv => SecondKeyNeedsMishap
  <2> SUFFICES ASSUME OnlyOne
               PROVE  Cardinality(Unredeemed) <= 1
    BY DEF SingleKeyInv, SingleKey, SecondKeyNeedsMishap, OneUnredeemedKey
  <2>1. CASE Unredeemed = {}
    BY <2>1, FS_EmptySet
  <2>2. ASSUME NEW q \in Unredeemed
        PROVE  Cardinality(Unredeemed) <= 1
    <3>1. Unredeemed = {q}
      BY DEF OnlyOne
    <3>2. Cardinality({q}) = 1
      BY FS_Singleton
    <3> QED
      BY <3>1, <3>2
  <2> QED
    BY <2>1, <2>2
<1> QED
  BY <1>1, <1>2, <1>3, AdInvHolds, LockIsExclusive, PTL DEF KeySpec
=============================================================================
