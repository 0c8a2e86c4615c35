------------------------ MODULE EnrichmentGate_proofs ------------------------
(***************************************************************************)
(* Proofs about EnrichmentGate, for every set of accounts, every set of    *)
(* work functions, every cap and every load.                               *)
(***************************************************************************)
EXTENDS EnrichmentGate, SequenceTheorems, FiniteSetTheorems, TLAPS

-----------------------------------------------------------------------------
(* Sequences and cardinalities *)

\* Popping n keys of a duplicate-free queue leaves a duplicate-free queue
\* holding exactly the other keys.
LEMMA PopKeys ==
    ASSUME NEW q \in Seq(Keys), Distinct(q), NEW n \in 0..Len(q)
    PROVE  LET rest == SubSeq(q, n + 1, Len(q))
               popped == Elems(SubSeq(q, 1, n))
           IN  /\ rest \in Seq(Keys)
               /\ Distinct(rest)
               /\ Elems(rest) = Elems(q) \ popped
               /\ popped \subseteq Elems(q)
               /\ popped = {q[i] : i \in 1..n}
<1> DEFINE rest == SubSeq(q, n + 1, Len(q))
           first == SubSeq(q, 1, n)
<1>1. /\ rest \in Seq(Keys)
      /\ Len(rest) = Len(q) - n
      /\ \A i \in 1..(Len(q) - n) : rest[i] = q[n + i]
  <2>1. \A i \in (n + 1)..Len(q) : q[i] \in Keys
    BY ElementOfSeq
  <2> QED BY <2>1, SubSeqProperties
<1>2. /\ Len(first) = n
      /\ \A i \in 1..n : first[i] = q[i]
  <2>1. \A i \in 1..n : q[i] \in Keys
    BY ElementOfSeq
  <2> QED BY <2>1, SubSeqProperties
<1> HIDE DEF rest, first
<1>3. Elems(first) = {q[i] : i \in 1..n}
  BY <1>2 DEF Elems
<1>4. ASSUME NEW x
      PROVE  x \in Elems(rest) <=> \E i \in (n + 1)..Len(q) : x = q[i]
  <2>1. \A i \in 1..(Len(q) - n) : n + i \in (n + 1)..Len(q)
    OBVIOUS
  <2>2. \A i \in (n + 1)..Len(q) : i - n \in 1..(Len(q) - n) /\ n + (i - n) = i
    OBVIOUS
  <2>3. \A i \in (n + 1)..Len(q) : rest[i - n] = q[i]
    BY <1>1, <2>2
  <2>4. x \in Elems(rest) <=> \E i \in 1..(Len(q) - n) : x = rest[i]
    BY <1>1 DEF Elems
  <2> QED BY <1>1, <2>1, <2>2, <2>3, <2>4
<1>5. Elems(rest) = Elems(q) \ Elems(first)
  <2>1. \A i \in 1..Len(q) : i \in 1..n \/ i \in (n + 1)..Len(q)
    OBVIOUS
  <2>2. \A i \in (n + 1)..Len(q), j \in 1..n : i \in 1..Len(q) /\ j \in 1..Len(q) /\ i # j
    OBVIOUS
  <2>3. \A i \in (n + 1)..Len(q), j \in 1..n : q[i] # q[j]
    BY <2>2 DEF Distinct
  <2>4. ASSUME NEW x, x \in Elems(rest)
        PROVE  x \in Elems(q) /\ x \notin Elems(first)
    <3>1. PICK i \in (n + 1)..Len(q) : x = q[i]
      BY <1>4, <2>4
    <3>2. i \in 1..Len(q)
      OBVIOUS
    <3>3. x \in Elems(q)
      BY <3>1, <3>2 DEF Elems
    <3> QED BY <1>3, <2>3, <3>1, <3>3
  <2>5. \A x : x \in Elems(q) /\ x \notin Elems(first) => x \in Elems(rest)
    BY <1>3, <1>4, <2>1 DEF Elems
  <2> QED BY <2>4, <2>5
<1>6. Elems(first) \subseteq Elems(q)
  BY <1>3 DEF Elems
<1>7. Distinct(rest)
  BY <1>1 DEF Distinct
<1> QED BY <1>1, <1>3, <1>5, <1>6, <1>7 DEF rest, first

\* enqueueDeferredKey keeps the queue duplicate-free.
LEMMA PushKey ==
    ASSUME NEW q \in Seq(Keys), Distinct(q), NEW k \in Keys
    PROVE  LET more == Enqueued(q, Elems(q), k)
           IN  /\ more \in Seq(Keys)
               /\ Distinct(more)
               /\ Elems(more) = Elems(q) \cup {k}
<1>1. CASE k \in Elems(q)
  BY <1>1 DEF Enqueued
<1>2. CASE k \notin Elems(q)
  <2> DEFINE more == Append(q, k)
  <2>1. /\ more \in Seq(Keys)
        /\ Len(more) = Len(q) + 1
        /\ \A i \in 1..Len(q) : more[i] = q[i]
        /\ more[Len(q) + 1] = k
    BY AppendProperties
  <2>2. \A i \in 1..Len(more) : i \in 1..Len(q) \/ i = Len(q) + 1
    BY <2>1
  <2>3. Distinct(more)
    BY <1>2, <2>1, <2>2 DEF Distinct, Elems
  <2>4. Elems(more) = Elems(q) \cup {k}
    BY <2>1, <2>2 DEF Elems
  <2> QED BY <1>2, <2>1, <2>3, <2>4 DEF Enqueued
<1> QED BY <1>1, <1>2

\* A queue is at least as long as the number of its keys.
LEMMA QueueCardinality ==
    ASSUME NEW q \in Seq(Keys)
    PROVE  /\ IsFiniteSet(Elems(q))
           /\ Cardinality(Elems(q)) <= Len(q)
<1>1. /\ IsFiniteSet(1..Len(q))
      /\ Cardinality(1..Len(q)) = Len(q)
  <2>1. Len(q) \in Nat
    BY LenProperties
  <2> QED BY <2>1, FS_Interval
<1>2. Elems(q) = {q[i] : i \in 1..Len(q)}
  BY DEF Elems
<1> DEFINE f == [i \in 1..Len(q) |-> q[i]]
<1>3. f \in Surjection(1..Len(q), Elems(q))
  BY <1>2 DEF Surjection, Elems
<1> QED BY <1>1, <1>3, FS_Surjection

LEMMA FiniteKeys == \A S \in SUBSET Keys : IsFiniteSet(S) /\ Cardinality(S) \in Nat
BY GateAssumption, FS_Subset, FS_CardinalityType

\* The cap never exceeds ENRICHMENT_MAX, and nothing is started from
\* LAG_SHED_MS on.
LEMMA CapBound ==
    ASSUME lag \in LagSamples, heapTight \in BOOLEAN, NEW h \in HeapReadings
    PROVE  /\ EffectiveMax(h) \in Nat
           /\ EffectiveMax(h) <= EnrichmentMax
<1>1. lag \in Int /\ EnrichmentMax \in Nat \ {0} /\ h \in BOOLEAN
  <2>1. lag \in 0..Busy
    BY GateAssumption
  <2>2. h \in BOOLEAN
    BY DEF HeapReadings
  <2> QED BY <2>1, <2>2, GateAssumption DEF Busy
<1>2. /\ EnrichmentMax \div 2 \in Nat
      /\ EnrichmentMax \div 2 <= EnrichmentMax
  BY <1>1
<1> QED BY <1>1, <1>2 DEF EffectiveMax, AtLeastOne, LagPause, LagShed, LagWarn

LEMMA ShedBound ==
    ASSUME lag \in LagSamples, lag >= LagShed
    PROVE  ~MayNotShed
BY DEF MayNotShed, ShouldShed
-----------------------------------------------------------------------------
(* What tryStartDeferredWork does *)

\* One more pop starts at most one more job.
LEMMA StartableStep ==
    ASSUME NEW q \in Seq(Keys), NEW pend, NEW fly, NEW n \in 1..Len(q)
    PROVE  /\ IsFiniteSet(Startable(q, n, pend, fly))
           /\ Cardinality(Startable(q, n, pend, fly))
                <= Cardinality(Startable(q, n - 1, pend, fly)) + 1
<1> DEFINE S(i) == Startable(q, i, pend, fly)
<1>1. \A i \in 0..Len(q) : Elems(SubSeq(q, 1, i)) = {q[m] : m \in 1..i}
  <2> TAKE i \in 0..Len(q)
  <2>1. \A m \in 1..i : q[m] \in Keys
    BY ElementOfSeq
  <2>2. Len(SubSeq(q, 1, i)) = i /\ \A m \in 1..i : SubSeq(q, 1, i)[m] = q[m]
    BY <2>1, SubSeqProperties
  <2> QED BY <2>2 DEF Elems
<1>2. \A m \in 1..n : m \in 1..(n - 1) \/ m = n
  OBVIOUS
<1>3. S(n) \subseteq S(n - 1) \cup {q[n]}
  BY <1>1, <1>2 DEF Startable
<1>4. S(n) \subseteq Keys /\ S(n - 1) \subseteq Keys
  BY <1>1, ElementOfSeq DEF Startable
<1>5. IsFiniteSet(S(n)) /\ IsFiniteSet(S(n - 1))
  BY <1>4, GateAssumption, FS_Subset
<1> HIDE DEF S
<1>6. /\ IsFiniteSet(S(n - 1) \cup {q[n]})
      /\ Cardinality(S(n - 1) \cup {q[n]}) <= Cardinality(S(n - 1)) + 1
  <2> DEFINE T == S(n - 1)
  <2>1. IsFiniteSet(T) /\ Cardinality(T) \in Nat
    BY <1>5, FS_CardinalityType
  <2> HIDE DEF T
  <2>2. /\ IsFiniteSet(T \cup {q[n]})
        /\ Cardinality(T \cup {q[n]}) <= Cardinality(T) + 1
    <3>1. \A x : IsFiniteSet(T \cup {x}) /\ Cardinality(T \cup {x}) <= Cardinality(T) + 1
      <4> TAKE x
      <4>1. /\ IsFiniteSet(T \cup {x})
            /\ Cardinality(T \cup {x})
                 = IF x \in T THEN Cardinality(T) ELSE Cardinality(T) + 1
        BY <2>1, FS_AddElement
      <4> QED BY <2>1, <4>1
    <3> QED BY <3>1
  <2> QED BY <2>2 DEF T
<1>7. Cardinality(S(n)) <= Cardinality(S(n - 1) \cup {q[n]})
  BY <1>3, <1>6, FS_Subset
<1>8. QED
  <2>1. /\ Cardinality(S(n)) \in Nat
        /\ Cardinality(S(n - 1)) \in Nat
        /\ Cardinality(S(n - 1) \cup {q[n]}) \in Nat
    BY <1>5, <1>6, FS_CardinalityType
  <2>2. Cardinality(S(n)) <= Cardinality(S(n - 1)) + 1
    BY <1>6, <1>7, <2>1
  <2> QED BY <1>5, <2>2 DEF S

\* The outcome of tryStartDeferredWork, as its callers need it: started is the
\* set of keys whose job it starts, q the queue it found.
Drained(started, q, pend, run, fly) ==
    /\ started \subseteq Elems(q) \ fly
    /\ \A k \in started : pend[k] # NoJob
    /\ pending' = [k \in Keys |-> IF k \in started THEN NoJob ELSE pend[k]]
    /\ running' = [k \in Keys |-> IF k \in started THEN pend[k] ELSE run[k]]
    /\ inFlight' = fly \cup started
    /\ waitQueue' \in Seq(Keys) /\ Distinct(waitQueue)'
    /\ waitSet' = Elems(waitQueue)' /\ waitSet' \subseteq Elems(q)
    /\ \A k \in Elems(q) \ waitSet' : k \in started \cup fly \/ pend[k] = NoJob
    /\ active' = Cardinality(inFlight)' /\ active' <= EnrichmentMax
    /\ lag >= LagShed => started = {}

LEMMA TryStartDrains ==
    ASSUME lag \in LagSamples, heapTight \in BOOLEAN,
           NEW q \in Seq(Keys), Distinct(q), NEW pend, NEW run,
           NEW fly \in SUBSET Keys, NEW act, act = Cardinality(fly), act <= EnrichmentMax,
           TryStart(q, Elems(q), pend, run, fly, act)
    PROVE  \E started \in SUBSET Keys : Drained(started, q, pend, run, fly)
<1>1. PICK n \in 0..Len(q), h \in HeapReadings :
        /\ LoopPops(n, EffectiveMax(h), q, pend, fly, act)
        /\ waitQueue' = SubSeq(q, n + 1, Len(q))
        /\ waitSet' = Elems(q) \ Elems(SubSeq(q, 1, n))
        /\ pending' = [k \in Keys |-> IF k \in Startable(q, n, pend, fly) THEN NoJob ELSE pend[k]]
        /\ running' = [k \in Keys |-> IF k \in Startable(q, n, pend, fly) THEN pend[k] ELSE run[k]]
        /\ inFlight' = fly \cup Startable(q, n, pend, fly)
        /\ active' = act + Cardinality(Startable(q, n, pend, fly))
  BY DEF TryStart
<1> DEFINE started == Startable(q, n, pend, fly)
<1>2. /\ waitQueue' \in Seq(Keys)
      /\ Distinct(waitQueue)'
      /\ Elems(waitQueue)' = Elems(q) \ Elems(SubSeq(q, 1, n))
      /\ Elems(SubSeq(q, 1, n)) \subseteq Elems(q)
      /\ Elems(SubSeq(q, 1, n)) = {q[i] : i \in 1..n}
  <2> DEFINE rest == SubSeq(q, n + 1, Len(q))
             popped == Elems(SubSeq(q, 1, n))
  <2>1. waitQueue' = rest
    BY <1>1
  <2>2. /\ rest \in Seq(Keys)
        /\ Distinct(rest)
        /\ Elems(rest) = Elems(q) \ popped
        /\ popped \subseteq Elems(q)
        /\ popped = {q[i] : i \in 1..n}
    BY PopKeys
  <2> HIDE DEF rest, popped
  <2>3. Distinct(waitQueue)'
    BY <2>1, <2>2 DEF Distinct
  <2>4. Elems(waitQueue)' = Elems(rest)
    BY <2>1 DEF Elems
  <2> QED BY <2>1, <2>2, <2>3, <2>4 DEF rest, popped
<1>3. Elems(q) \subseteq Keys
  BY ElementOfSeq DEF Elems
<1>4. /\ started \subseteq Elems(q) \ fly
      /\ \A k \in started : pend[k] # NoJob
      /\ \A k \in Elems(q) \ waitSet' : k \in started \cup fly \/ pend[k] = NoJob
  BY <1>1, <1>2 DEF Startable
<1>5. IsFiniteSet(fly) /\ IsFiniteSet(started) /\ act \in Nat /\ Cardinality(started) \in Nat
  BY <1>3, <1>4, FiniteKeys
<1>6. n = 0 => started = {} /\ Cardinality(started) = 0
  <2>1. n = 0 => started = {}
    BY <1>2 DEF Startable
  <2> QED BY <2>1, FS_EmptySet
<1>7. active' = Cardinality(inFlight)'
  <2>1. fly \cap started = {}
    BY <1>4
  <2>2. Cardinality(fly \cup started) = Cardinality(fly) + Cardinality(started) - 0
    BY <1>5, <2>1, FS_Union, FS_EmptySet
  <2>3. Cardinality(fly \cup started) = act + Cardinality(started)
    BY <1>5, <2>2
  <2> QED BY <1>1, <2>3
<1>8. active' <= EnrichmentMax
  <2>1. CASE n = 0
    BY <1>1, <1>5, <1>6, <2>1
  <2>2. CASE n > 0
    <3>1. n \in 1..Len(q) /\ n - 1 \in 0..(n - 1)
      BY <2>2
    <3>2. ~(act + Cardinality(Startable(q, n - 1, pend, fly)) >= EffectiveMax(h))
      BY <1>1, <3>1 DEF LoopPops
    <3>3. /\ Cardinality(started) <= Cardinality(Startable(q, n - 1, pend, fly)) + 1
          /\ Startable(q, n - 1, pend, fly) \subseteq Keys
      <4>1. n - 1 \in 0..Len(q)
        BY <3>1
      <4>2. Elems(SubSeq(q, 1, n - 1)) \subseteq Elems(q)
        BY <4>1, PopKeys
      <4> QED BY <1>3, <3>1, <4>2, StartableStep DEF Startable
    <3>4. Cardinality(Startable(q, n - 1, pend, fly)) \in Nat
      BY <3>3, FiniteKeys
    <3>5. EffectiveMax(h) \in Nat /\ EffectiveMax(h) <= EnrichmentMax
      BY CapBound
    <3> HIDE DEF started
    <3> QED BY <1>1, <1>5, <3>2, <3>3, <3>4, <3>5, GateAssumption DEF started
  <2> QED BY <2>1, <2>2
<1>9. lag >= LagShed => started = {}
  <2>1. lag >= LagShed => ~(n > 0)
    BY <1>1, ShedBound DEF LoopPops
  <2>2. n \in Nat
    OBVIOUS
  <2> QED BY <1>6, <2>1, <2>2
<1>10. Drained(started, q, pend, run, fly)
  BY <1>1, <1>2, <1>4, <1>7, <1>8, <1>9 DEF Drained
<1>11. started \in SUBSET Keys
  BY <1>3, <1>4
<1> QED BY <1>10, <1>11

-----------------------------------------------------------------------------
(* The inductive invariant *)

\* The job captured by a setImmediate callback exists exactly while the key is
\* in deferredInFlight.
RunningInFlight == \A k \in Keys : running[k] # NoJob <=> k \in inFlight

\* What a completed tryStartDeferredWork establishes.
PoolInv ==
    /\ pending \in [Keys -> MaybeJob]
    /\ running \in [Keys -> MaybeJob]
    /\ inFlight \subseteq Keys
    /\ waitQueue \in Seq(Keys)
    /\ RunningInFlight
    /\ SlotAccounting
    /\ WaitSetMirrorsQueue
    /\ NothingStranded
    /\ BacklogBounded

GateInv ==
    /\ PoolInv
    /\ settling \subseteq inFlight
    /\ lag \in LagSamples
    /\ heapTight \in BOOLEAN

LEMMA ElemsAreKeys == \A q \in Seq(Keys) : Elems(q) \subseteq Keys
BY ElementOfSeq DEF Elems

LEMMA SmallerBacklog ==
    ASSUME NEW S \in SUBSET Keys, NEW T \in SUBSET S, Cardinality(S) <= QueueMax
    PROVE  Cardinality(T) <= QueueMax
<1>1. IsFiniteSet(S) /\ Cardinality(S) \in Nat /\ Cardinality(T) \in Nat
  BY FiniteKeys
<1>2. Cardinality(T) <= Cardinality(S)
  BY <1>1, FS_Subset
<1> QED BY <1>1, <1>2, GateAssumption

\* The type invariant is a consequence.
LEMMA GateInvTyped == GateInv => GateTypeOK
<1>1. ASSUME GateInv PROVE GateTypeOK
  <2>1. active \in Nat
    BY <1>1, FiniteKeys DEF GateInv, PoolInv, SlotAccounting
  <2>2. waitSet \subseteq Keys
    BY <1>1, ElemsAreKeys DEF GateInv, PoolInv, WaitSetMirrorsQueue
  <2> QED BY <1>1, <2>1, <2>2 DEF GateInv, PoolInv, GateTypeOK
<1> QED BY <1>1

LEMMA InitInv == GateInit => GateInv
<1>1. ASSUME GateInit PROVE GateInv
  <2> USE <1>1 DEF GateInit
  <2>1. PendingKeys = {}
    BY DEF PendingKeys
  <2>2. waitQueue \in Seq(Keys) /\ Len(waitQueue) = 0
    BY EmptySeq
  <2>3. WaitSetMirrorsQueue
    BY <2>2 DEF WaitSetMirrorsQueue, Elems, Distinct
  <2>4. SlotAccounting
    BY FS_EmptySet, GateAssumption DEF SlotAccounting
  <2>5. BacklogBounded
    <3>1. PendingKeys \cup inFlight \cup waitSet = {}
      BY <2>1
    <3>2. Cardinality({}) <= QueueMax
      BY FS_EmptySet, GateAssumption
    <3> QED BY ONLY <3>1, <3>2 DEF BacklogBounded
  <2>6. NothingStranded
    BY <2>1 DEF NothingStranded
  <2> QED BY <2>2, <2>3, <2>4, <2>5, <2>6, GateAssumption
          DEF GateInv, PoolInv, RunningInFlight, MaybeJob
<1> QED BY <1>1

\* tryStartDeferredWork turns collections that satisfy the invariant, but for
\* the keys it is about to start, into a state that satisfies it.
LEMMA DrainedPool ==
    ASSUME lag \in LagSamples,
           NEW q \in Seq(Keys), NEW pend \in [Keys -> MaybeJob],
           NEW run \in [Keys -> MaybeJob], NEW fly \in SUBSET Keys,
           \A k \in Keys : run[k] # NoJob <=> k \in fly,
           \A k \in Keys : pend[k] # NoJob => k \in Elems(q) \cup fly,
           Cardinality({k \in Keys : pend[k] # NoJob} \cup fly \cup Elems(q)) <= QueueMax,
           NEW started \in SUBSET Keys, Drained(started, q, pend, run, fly)
    PROVE  PoolInv'
<1> USE DEF Drained
<1>1. pending' \in [Keys -> MaybeJob] /\ running' \in [Keys -> MaybeJob]
  BY DEF MaybeJob
<1>2. inFlight' \subseteq Keys /\ waitQueue' \in Seq(Keys)
  OBVIOUS
<1>3. RunningInFlight'
  BY DEF RunningInFlight
<1>4. SlotAccounting'
  BY DEF SlotAccounting
<1>5. WaitSetMirrorsQueue'
  BY DEF WaitSetMirrorsQueue
<1>6. NothingStranded'
  BY DEF NothingStranded, PendingKeys
<1>7. BacklogBounded'
  <2>1. (PendingKeys \cup inFlight \cup waitSet)'
          \subseteq {k \in Keys : pend[k] # NoJob} \cup fly \cup Elems(q)
    BY DEF PendingKeys
  <2>2. {k \in Keys : pend[k] # NoJob} \cup fly \cup Elems(q) \subseteq Keys
    BY ElemsAreKeys
  <2>3. Cardinality((PendingKeys \cup inFlight \cup waitSet)') <= QueueMax
    BY <2>1, <2>2, SmallerBacklog
  <2> QED BY <2>3 DEF BacklogBounded
<1> QED BY <1>1, <1>2, <1>3, <1>4, <1>5, <1>6, <1>7 DEF PoolInv

LEMMA UnionCardinality ==
    ASSUME NEW S \in SUBSET Keys, NEW T \in SUBSET Keys
    PROVE  Cardinality(S \cup T) <= Cardinality(S) + Cardinality(T)
<1>1. /\ IsFiniteSet(S) /\ Cardinality(S) \in Nat
      /\ IsFiniteSet(T) /\ Cardinality(T) \in Nat
  BY FiniteKeys
<1>2. S \cap T \in SUBSET Keys
  OBVIOUS
<1>3. Cardinality(S \cap T) \in Nat
  BY <1>2, FiniteKeys
<1>4. Cardinality(S \cup T) = Cardinality(S) + Cardinality(T) - Cardinality(S \cap T)
  BY <1>1, FS_Union
<1> QED BY <1>1, <1>3, <1>4

LEMMA OneMoreKey ==
    ASSUME NEW S \in SUBSET Keys, NEW k \in Keys
    PROVE  Cardinality(S \cup {k}) <= Cardinality(S) + 1
<1>1. IsFiniteSet(S) /\ Cardinality(S) \in Nat
  BY FiniteKeys
<1>2. Cardinality(S \cup {k}) = IF k \in S THEN Cardinality(S) ELSE Cardinality(S) + 1
  BY <1>1, FS_AddElement
<1> QED BY <1>1, <1>2

\* Admitting an upload keeps the backlog within QUEUE_MAX.
LEMMA AdmittedBacklog ==
    ASSUME GateInv, NEW k \in Keys, Admitted(k)
    PROVE  Cardinality(PendingKeys \cup inFlight \cup waitSet \cup {k}) <= QueueMax
<1> DEFINE U == PendingKeys \cup inFlight \cup waitSet
<1>1. /\ PendingKeys \subseteq Keys /\ inFlight \subseteq Keys /\ waitSet \subseteq Keys
      /\ Cardinality(U) <= QueueMax
  BY GateInvTyped DEF GateInv, PoolInv, GateTypeOK, PendingKeys, BacklogBounded
<1>2. /\ IsFiniteSet(PendingKeys) /\ IsFiniteSet(inFlight) /\ IsFiniteSet(waitSet)
      /\ Cardinality(PendingKeys) \in Nat /\ Cardinality(inFlight) \in Nat
      /\ Cardinality(waitSet) \in Nat
      /\ IsFiniteSet(U) /\ Cardinality(U) \in Nat
  BY <1>1, FiniteKeys
<1>3. CASE Known(k)
  <2>1. U \cup {k} = U
    BY <1>3 DEF Known, PendingKeys
  <2> QED BY <1>1, <2>1
<1>4. CASE TotalQueued < QueueMax
  <2>1. Cardinality(waitSet) <= Len(waitQueue) /\ Len(waitQueue) \in Nat
    BY QueueCardinality, LenProperties DEF GateInv, PoolInv, WaitSetMirrorsQueue
  <2>2. /\ Cardinality(PendingKeys \cup inFlight) \in Nat
        /\ Cardinality(PendingKeys \cup inFlight)
             <= Cardinality(PendingKeys) + Cardinality(inFlight)
    BY <1>1, UnionCardinality, FiniteKeys
  <2>3. Cardinality(U) <= Cardinality(PendingKeys \cup inFlight) + Cardinality(waitSet)
    BY <1>1, UnionCardinality
  <2>4. Cardinality(U) < QueueMax
    BY <1>2, <1>4, <2>1, <2>2, <2>3, GateAssumption DEF TotalQueued
  <2>5. Cardinality(U \cup {k}) <= Cardinality(U) + 1
    BY <1>1, OneMoreKey
  <2>6. Cardinality(U \cup {k}) \in Nat
    BY <1>1, FiniteKeys
  <2> HIDE DEF U
  <2> QED BY <1>2, <2>4, <2>5, <2>6, GateAssumption DEF U
<1> QED BY <1>3, <1>4 DEF Admitted

-----------------------------------------------------------------------------
(* One lemma per action *)

LEMMA UnchangedPool == ASSUME GateInv, UNCHANGED jobVars PROVE PoolInv' /\ settling' \subseteq inFlight'
BY DEF GateInv, PoolInv, jobVars, RunningInFlight, SlotAccounting, WaitSetMirrorsQueue,
       NothingStranded, BacklogBounded, PendingKeys, Elems, Distinct

LEMMA ReplaceStep ==
    ASSUME GateInv, NEW k \in Keys, NEW j \in Jobs, ReplaceBehindRunning(k, j)
    PROVE  PoolInv' /\ settling' \subseteq inFlight'
<1> USE DEF ReplaceBehindRunning
<1>1. /\ pending' \in [Keys -> MaybeJob]
      /\ running' \in [Keys -> MaybeJob]
      /\ inFlight' \subseteq Keys /\ waitQueue' \in Seq(Keys)
      /\ settling' \subseteq inFlight'
  BY DEF GateInv, PoolInv, MaybeJob
<1>2. RunningInFlight' /\ SlotAccounting' /\ WaitSetMirrorsQueue'
  BY DEF GateInv, PoolInv, RunningInFlight, SlotAccounting, WaitSetMirrorsQueue, Elems, Distinct
<1>3. NothingStranded'
  BY DEF GateInv, PoolInv, NothingStranded, PendingKeys
<1>4. BacklogBounded'
  <2>1. (PendingKeys \cup inFlight \cup waitSet)' \subseteq PendingKeys \cup inFlight \cup waitSet
    BY DEF GateInv, PoolInv, PendingKeys
  <2>2. PendingKeys \cup inFlight \cup waitSet \subseteq Keys
    BY GateInvTyped DEF GateInv, PoolInv, GateTypeOK, PendingKeys
  <2>3. Cardinality((PendingKeys \cup inFlight \cup waitSet)') <= QueueMax
    BY <2>1, <2>2, SmallerBacklog DEF GateInv, PoolInv, BacklogBounded
  <2> QED BY <2>3 DEF BacklogBounded
<1> QED BY <1>1, <1>2, <1>3, <1>4 DEF PoolInv

LEMMA StartAtOnceStep ==
    ASSUME GateInv, NEW k \in Keys, NEW j \in Jobs, StartAtOnce(k, j)
    PROVE  PoolInv' /\ settling' \subseteq inFlight'
<1> USE DEF StartAtOnce
<1>1. /\ pending' \in [Keys -> MaybeJob]
      /\ running' \in [Keys -> MaybeJob]
      /\ inFlight' \subseteq Keys /\ waitQueue' \in Seq(Keys)
      /\ settling' \subseteq inFlight'
  BY DEF GateInv, PoolInv, MaybeJob
<1>2. RunningInFlight'
  BY GateAssumption DEF GateInv, PoolInv, RunningInFlight
<1>3. WaitSetMirrorsQueue'
  BY DEF GateInv, PoolInv, WaitSetMirrorsQueue, Elems, Distinct
<1>4. SlotAccounting'
  <2>1. IsFiniteSet(inFlight) /\ active = Cardinality(inFlight) /\ active \in Nat
    BY FiniteKeys DEF GateInv, PoolInv, SlotAccounting
  <2>2. PICK h \in HeapReadings : active < EffectiveMax(h)
    OBVIOUS
  <2>3. EffectiveMax(h) \in Nat /\ EffectiveMax(h) <= EnrichmentMax
    BY CapBound DEF GateInv
  <2>4. active + 1 <= EnrichmentMax
    BY <2>1, <2>2, <2>3, GateAssumption
  <2>5. Cardinality(inFlight \cup {k}) = active + 1
    BY <2>1, FS_AddElement
  <2> QED BY <2>4, <2>5 DEF SlotAccounting
<1>5. NothingStranded'
  BY DEF GateInv, PoolInv, NothingStranded, PendingKeys
<1>6. BacklogBounded'
  <2>1. (PendingKeys \cup inFlight \cup waitSet)'
          \subseteq PendingKeys \cup inFlight \cup waitSet \cup {k}
    BY DEF GateInv, PoolInv, PendingKeys
  <2>2. PendingKeys \cup inFlight \cup waitSet \cup {k} \subseteq Keys
    BY GateInvTyped DEF GateInv, PoolInv, GateTypeOK, PendingKeys
  <2>3. Cardinality(PendingKeys \cup inFlight \cup waitSet \cup {k}) <= QueueMax
    BY AdmittedBacklog
  <2>4. Cardinality((PendingKeys \cup inFlight \cup waitSet)') <= QueueMax
    BY <2>1, <2>2, <2>3, SmallerBacklog
  <2> QED BY <2>4 DEF BacklogBounded
<1> QED BY <1>1, <1>2, <1>3, <1>4, <1>5, <1>6 DEF PoolInv

\* What happens in the step that runs tryStartDeferredWork: it starts the keys
\* of a set, and leaves the invariant on every collection.
LEMMA QueueUpStep ==
    ASSUME GateInv, NEW k \in Keys, NEW j \in Jobs, QueueUp(k, j)
    PROVE  /\ PoolInv' /\ settling' \subseteq inFlight'
           /\ \E started \in SUBSET Keys :
                Drained(started, Enqueued(waitQueue, waitSet, k),
                        [pending EXCEPT ![k] = j], running, inFlight)
<1> DEFINE q == Enqueued(waitQueue, Elems(waitQueue), k)
           pend == [pending EXCEPT ![k] = j]
<1>1. /\ waitSet = Elems(waitQueue) /\ waitQueue \in Seq(Keys) /\ Distinct(waitQueue)
      /\ inFlight \in SUBSET Keys /\ running \in [Keys -> MaybeJob]
      /\ pending \in [Keys -> MaybeJob]
      /\ lag \in LagSamples /\ heapTight \in BOOLEAN
      /\ active = Cardinality(inFlight) /\ active <= EnrichmentMax
  BY DEF GateInv, PoolInv, WaitSetMirrorsQueue, SlotAccounting
<1>2. q \in Seq(Keys) /\ Distinct(q) /\ Elems(q) = waitSet \cup {k}
  BY <1>1, PushKey
<1>3. pend \in [Keys -> MaybeJob]
  BY <1>1 DEF MaybeJob
<1>4. q = Enqueued(waitQueue, waitSet, k)
  BY <1>1
<1>5. TryStart(q, Elems(q), pend, running, inFlight, active)
  BY <1>2, <1>4 DEF QueueUp
<1> HIDE DEF q
<1>6. PICK started \in SUBSET Keys : Drained(started, q, pend, running, inFlight)
  BY <1>1, <1>2, <1>5, TryStartDrains
<1>7. PoolInv'
  <2>1. \A x \in Keys : running[x] # NoJob <=> x \in inFlight
    BY DEF GateInv, PoolInv, RunningInFlight
  <2>2. \A x \in Keys : pend[x] # NoJob => x \in Elems(q) \cup inFlight
    BY <1>1, <1>2 DEF GateInv, PoolInv, NothingStranded, PendingKeys
  <2>3. Cardinality({x \in Keys : pend[x] # NoJob} \cup inFlight \cup Elems(q)) <= QueueMax
    <3>1. {x \in Keys : pend[x] # NoJob} \cup inFlight \cup Elems(q)
            \subseteq PendingKeys \cup inFlight \cup waitSet \cup {k}
      BY <1>1, <1>2 DEF PendingKeys
    <3>2. PendingKeys \cup inFlight \cup waitSet \cup {k} \subseteq Keys
      BY GateInvTyped DEF GateInv, PoolInv, GateTypeOK, PendingKeys
    <3>3. Cardinality(PendingKeys \cup inFlight \cup waitSet \cup {k}) <= QueueMax
      BY AdmittedBacklog DEF QueueUp
    <3> QED BY <3>1, <3>2, <3>3, SmallerBacklog
  <2> QED BY <1>1, <1>2, <1>3, <1>6, <2>1, <2>2, <2>3, DrainedPool
<1>8. settling' \subseteq inFlight'
  BY <1>6 DEF GateInv, QueueUp, Drained
<1> QED BY <1>4, <1>6, <1>7, <1>8

LEMMA FinishStep ==
    ASSUME GateInv, NEW k \in inFlight, FinishDeferred(k)
    PROVE  /\ PoolInv' /\ settling' \subseteq inFlight'
           /\ \E started \in SUBSET Keys, q \in Seq(Keys) :
                Drained(started, q, pending, [running EXCEPT ![k] = NoJob], inFlight \ {k})
<1> DEFINE again == pending[k] # NoJob
           q == IF again THEN Enqueued(waitQueue, waitSet, k) ELSE waitQueue
           ws == IF again THEN waitSet \cup {k} ELSE waitSet
           run == [running EXCEPT ![k] = NoJob]
           fly == inFlight \ {k}
           act == IF active > 0 THEN active - 1 ELSE 0
<1>1. /\ waitSet = Elems(waitQueue) /\ waitQueue \in Seq(Keys) /\ Distinct(waitQueue)
      /\ inFlight \in SUBSET Keys /\ running \in [Keys -> MaybeJob]
      /\ pending \in [Keys -> MaybeJob]
      /\ lag \in LagSamples /\ heapTight \in BOOLEAN
      /\ active = Cardinality(inFlight) /\ active <= EnrichmentMax
      /\ k \in Keys
  BY DEF GateInv, PoolInv, WaitSetMirrorsQueue, SlotAccounting
<1>2. q \in Seq(Keys) /\ Distinct(q) /\ Elems(q) = ws
  BY <1>1, PushKey
<1>3. run \in [Keys -> MaybeJob] /\ fly \in SUBSET Keys
  BY <1>1 DEF MaybeJob
<1>4. act = Cardinality(fly) /\ act <= EnrichmentMax
  <2>1. IsFiniteSet(inFlight) /\ active \in Nat
    BY <1>1, FiniteKeys
  <2>2. active # 0
    BY <1>1, <2>1, FS_EmptySet
  <2>3. Cardinality(fly) = active - 1
    BY <1>1, <2>1, FS_RemoveElement
  <2> QED BY <1>1, <2>1, <2>2, <2>3, GateAssumption
<1>5. TryStart(q, Elems(q), pending, run, fly, act) /\ settling' = settling \ {k}
  BY <1>2 DEF FinishDeferred
<1> HIDE DEF q, act
<1>6. PICK started \in SUBSET Keys : Drained(started, q, pending, run, fly)
  BY <1>1, <1>2, <1>3, <1>4, <1>5, TryStartDrains
<1>7. PoolInv'
  <2>1. \A x \in Keys : run[x] # NoJob <=> x \in fly
    BY <1>1 DEF GateInv, PoolInv, RunningInFlight
  <2>2. \A x \in Keys : pending[x] # NoJob => x \in Elems(q) \cup fly
    BY <1>1, <1>2 DEF GateInv, PoolInv, NothingStranded, PendingKeys
  <2>3. Cardinality({x \in Keys : pending[x] # NoJob} \cup fly \cup Elems(q)) <= QueueMax
    <3>1. {x \in Keys : pending[x] # NoJob} \cup fly \cup Elems(q)
            \subseteq PendingKeys \cup inFlight \cup waitSet
      BY <1>1, <1>2 DEF PendingKeys
    <3>2. PendingKeys \cup inFlight \cup waitSet \subseteq Keys
      BY GateInvTyped DEF GateInv, PoolInv, GateTypeOK, PendingKeys
    <3> QED BY <3>1, <3>2, SmallerBacklog DEF GateInv, PoolInv, BacklogBounded
  <2> QED BY <1>1, <1>2, <1>3, <1>6, <2>1, <2>2, <2>3, DrainedPool
<1>8. settling' \subseteq inFlight'
  BY <1>5, <1>6 DEF GateInv, Drained
<1> QED BY <1>2, <1>6, <1>7, <1>8

LEMMA DrainTickStep ==
    ASSUME GateInv, DrainTick
    PROVE  /\ PoolInv' /\ settling' \subseteq inFlight'
           /\ \E started \in SUBSET Keys :
                Drained(started, waitQueue, pending, running, inFlight)
<1>1. /\ waitSet = Elems(waitQueue) /\ waitQueue \in Seq(Keys) /\ Distinct(waitQueue)
      /\ inFlight \in SUBSET Keys /\ running \in [Keys -> MaybeJob]
      /\ pending \in [Keys -> MaybeJob]
      /\ lag \in LagSamples /\ heapTight \in BOOLEAN
      /\ active = Cardinality(inFlight) /\ active <= EnrichmentMax
  BY DEF GateInv, PoolInv, WaitSetMirrorsQueue, SlotAccounting
<1>2. TryStart(waitQueue, Elems(waitQueue), pending, running, inFlight, active)
  BY <1>1 DEF DrainTick
<1>3. PICK started \in SUBSET Keys : Drained(started, waitQueue, pending, running, inFlight)
  BY <1>1, <1>2, TryStartDrains
<1>4. PoolInv'
  <2>1. \A x \in Keys : running[x] # NoJob <=> x \in inFlight
    BY DEF GateInv, PoolInv, RunningInFlight
  <2>2. \A x \in Keys : pending[x] # NoJob => x \in Elems(waitQueue) \cup inFlight
    BY <1>1 DEF GateInv, PoolInv, NothingStranded, PendingKeys
  <2>3. Cardinality({x \in Keys : pending[x] # NoJob} \cup inFlight \cup Elems(waitQueue))
          <= QueueMax
    BY <1>1 DEF GateInv, PoolInv, BacklogBounded, PendingKeys
  <2> QED BY <1>1, <1>3, <2>1, <2>2, <2>3, DrainedPool
<1>5. settling' \subseteq inFlight'
  BY <1>3 DEF GateInv, DrainTick, Drained
<1> QED BY <1>3, <1>4, <1>5

-----------------------------------------------------------------------------
(* Safety *)

LEMMA NextInv == GateInv /\ [GateNext]_gateVars => GateInv'
<1> SUFFICES ASSUME GateInv, [GateNext]_gateVars
             PROVE  GateInv'
  OBVIOUS
<1> DEFINE Loads == lag' \in LagSamples /\ heapTight' \in BOOLEAN
           Pool == PoolInv' /\ settling' \subseteq inFlight'
<1>1. ASSUME NEW k \in Keys, NEW j \in Jobs, Schedule(k, j) PROVE Pool
  <2>1. CASE Reject(k)
    BY <2>1, UnchangedPool DEF Reject
  <2>2. CASE ReplaceBehindRunning(k, j)
    BY <2>2, ReplaceStep
  <2>3. CASE StartAtOnce(k, j)
    BY <2>3, StartAtOnceStep
  <2>4. CASE QueueUp(k, j)
    BY <2>4, QueueUpStep
  <2> QED BY <1>1, <2>1, <2>2, <2>3, <2>4 DEF Schedule
<1>2. ASSUME NEW k \in Keys, RunToCompletion(k) PROVE Pool
  BY <1>2, FinishStep DEF RunToCompletion
<1>3. ASSUME NEW k \in Keys, RunAsync(k) PROVE Pool
  BY <1>3 DEF RunAsync, GateInv, PoolInv, RunningInFlight, SlotAccounting,
              WaitSetMirrorsQueue, NothingStranded, BacklogBounded, PendingKeys, Elems, Distinct
<1>4. ASSUME NEW k \in Keys, Settle(k) PROVE Pool
  BY <1>4, FinishStep DEF Settle, GateInv
<1>5. ASSUME DrainTick PROVE Pool
  BY <1>5, DrainTickStep
<1>6. ASSUME LagSample \/ HeapChange \/ UNCHANGED gateVars PROVE Pool
  BY <1>6, UnchangedPool DEF LagSample, HeapChange, gateVars
<1>7. Loads
  BY DEF GateInv, GateNext, GateInternal, Schedule, RunToCompletion, RunAsync, Settle,
         DrainTick, LagSample, HeapChange, gateVars, loadVars
<1>8. Pool
  BY <1>1, <1>2, <1>3, <1>4, <1>5, <1>6 DEF GateNext, GateInternal
<1> QED BY <1>7, <1>8 DEF GateInv

\* The inductive invariant holds in every reachable state.
THEOREM Invariance == GateSpec => []GateInv
<1> QED BY InitInv, NextInv, PTL DEF GateSpec

\* The gate's collections and counters keep their types.
THEOREM TypeCorrect == GateSpec => []GateTypeOK
BY Invariance, GateInvTyped, PTL

\* deferredActive never drifts from deferredInFlight and never exceeds
\* ENRICHMENT_MAX.
THEOREM SlotsAccounted == GateSpec => []SlotAccounting
<1>1. GateInv => SlotAccounting
  BY DEF GateInv, PoolInv
<1> QED BY <1>1, Invariance, PTL

\* deferredWaitSet and deferredWaitQueue hold the same keys, each once.
THEOREM WaitSetCorrect == GateSpec => []WaitSetMirrorsQueue
<1>1. GateInv => WaitSetMirrorsQueue
  BY DEF GateInv, PoolInv
<1> QED BY <1>1, Invariance, PTL

\* Every pending snapshot is queued or behind a job of its own account.
THEOREM NoneStranded == GateSpec => []NothingStranded
<1>1. GateInv => NothingStranded
  BY DEF GateInv, PoolInv
<1> QED BY <1>1, Invariance, PTL

\* The accounts the gate holds anything for never outnumber QUEUE_MAX.
THEOREM BacklogWithinLimit == GateSpec => []BacklogBounded
<1>1. GateInv => BacklogBounded
  BY DEF GateInv, PoolInv
<1> QED BY <1>1, Invariance, PTL

-----------------------------------------------------------------------------
(* Shedding *)

\* From LAG_SHED_MS on, no step of any kind starts a job or takes one out of
\* the backlog.
THEOREM ShedStartsNothing == GateSpec => SheddingStartsNothing
<1> DEFINE Keeps == /\ inFlight' \subseteq inFlight
                    /\ \A k \in PendingKeys : pending'[k] # NoJob
<1>1. ASSUME GateInv, GateNext, lag >= LagShed PROVE Keeps
  <2> USE <1>1
  <2>1. ~MayNotShed
    BY ShedBound DEF GateInv
  <2>2. pending \in [Keys -> MaybeJob] /\ inFlight \subseteq Keys
    BY DEF GateInv, PoolInv
  <2>3. ASSUME NEW k \in Keys, NEW j \in Jobs, Schedule(k, j) PROVE Keeps
    <3>1. CASE Reject(k)
      BY <3>1 DEF Reject, jobVars, PendingKeys
    <3>2. CASE ReplaceBehindRunning(k, j)
      BY <2>2, <3>2, GateAssumption DEF ReplaceBehindRunning, PendingKeys
    <3>3. CASE StartAtOnce(k, j)
      BY <2>1, <3>3 DEF StartAtOnce
    <3>4. CASE QueueUp(k, j)
      <4>1. PICK started \in SUBSET Keys :
              Drained(started, Enqueued(waitQueue, waitSet, k),
                      [pending EXCEPT ![k] = j], running, inFlight)
        BY <3>4, QueueUpStep
      <4> QED BY <2>2, <4>1, GateAssumption DEF Drained, PendingKeys
    <3> QED BY <2>3, <3>1, <3>2, <3>3, <3>4 DEF Schedule
  <2>4. ASSUME NEW k \in Keys, RunToCompletion(k) \/ Settle(k) PROVE Keeps
    <3>1. k \in inFlight /\ FinishDeferred(k)
      BY <2>4 DEF RunToCompletion, Settle, GateInv
    <3>2. PICK started \in SUBSET Keys, q \in Seq(Keys) :
            Drained(started, q, pending, [running EXCEPT ![k] = NoJob], inFlight \ {k})
      BY <3>1, FinishStep
    <3> QED BY <3>2 DEF Drained, PendingKeys
  <2>5. ASSUME NEW k \in Keys, RunAsync(k) PROVE Keeps
    BY <2>5 DEF RunAsync, PendingKeys
  <2>6. ASSUME DrainTick PROVE Keeps
    <3>1. PICK started \in SUBSET Keys :
            Drained(started, waitQueue, pending, running, inFlight)
      BY <2>6, DrainTickStep
    <3> QED BY <3>1 DEF Drained, PendingKeys
  <2>7. ASSUME LagSample \/ HeapChange PROVE Keeps
    BY <2>7 DEF LagSample, HeapChange, jobVars, PendingKeys
  <2> QED BY <2>3, <2>4, <2>5, <2>6, <2>7 DEF GateNext, GateInternal
<1>2. GateInv /\ [GateNext]_gateVars => [lag >= LagShed => Keeps]_gateVars
  BY <1>1
<1> QED BY <1>2, Invariance, PTL DEF GateSpec, SheddingStartsNothing

-----------------------------------------------------------------------------
(* Refinement of LatestWinsMailbox *)

\* A step that drains the queue moves each mailbox by Start or not at all.
LEMMA DrainedMoves ==
    ASSUME NEW q, NEW pend, NEW run, NEW fly, NEW started \in SUBSET Keys,
           Drained(started, q, pend, run, fly), NEW k \in Keys
    PROVE  \/ /\ pend[k] # NoJob /\ k \notin fly
              /\ pending'[k] = NoJob /\ running'[k] = pend[k]
           \/ pending'[k] = pend[k] /\ running'[k] = run[k]
BY DEF Drained

\* Every account sees a mailbox with one slot and one worker: its snapshots
\* are enriched one at a time, and an accepted one is lost only to a later one.
THEOREM RefinesMailbox == GateSpec => LatestWins
<1> USE DEF Mailbox!MailboxStep, Mailbox!Put, Mailbox!PutAndStart, Mailbox!Start,
            Mailbox!Finish, Mailbox!FinishAndStart, Mailbox!Idle
<1>1. GateInit => Mailbox!MailboxInit
  BY DEF GateInit, Mailbox!MailboxInit
<1> DEFINE Moves == \A k \in Keys : Mailbox!MailboxStep(k)
<1>2. ASSUME GateInv, GateNext PROVE Moves
  <2> USE <1>2
  <2>1. /\ pending \in [Keys -> MaybeJob] /\ running \in [Keys -> MaybeJob]
        /\ \A k \in Keys : running[k] # NoJob <=> k \in inFlight
        /\ inFlight \subseteq Keys
    BY DEF GateInv, PoolInv, RunningInFlight
  <2>2. ASSUME NEW k \in Keys, NEW j \in Jobs, Schedule(k, j) PROVE Moves
    <3>1. CASE Reject(k)
      BY <3>1 DEF Reject, jobVars
    <3>2. CASE ReplaceBehindRunning(k, j)
      BY <2>1, <3>2 DEF ReplaceBehindRunning
    <3>3. CASE StartAtOnce(k, j)
      BY <2>1, <3>3 DEF StartAtOnce
    <3>4. CASE QueueUp(k, j)
      <4> DEFINE pend == [pending EXCEPT ![k] = j]
      <4>1. PICK started \in SUBSET Keys :
              Drained(started, Enqueued(waitQueue, waitSet, k), pend, running, inFlight)
        BY <3>4, QueueUpStep
      <4>2. ASSUME NEW x \in Keys PROVE Mailbox!MailboxStep(x)
        <5>1. \/ /\ pend[x] # NoJob /\ x \notin inFlight
                 /\ pending'[x] = NoJob /\ running'[x] = pend[x]
              \/ pending'[x] = pend[x] /\ running'[x] = running[x]
          <6> HIDE DEF pend
          <6> QED BY <4>1, DrainedMoves
        <5>2. CASE x = k
          <6>1. pend[x] = j /\ running[x] = NoJob
            BY <2>1, <3>4, <5>2 DEF QueueUp
          <6> QED BY <5>1, <6>1
        <5>3. CASE x # k
          <6>1. pend[x] = pending[x]
            BY <2>1, <5>3
          <6> QED BY <2>1, <5>1, <6>1
        <5> QED BY <5>2, <5>3
      <4> QED BY <4>2
    <3> QED BY <2>2, <3>1, <3>2, <3>3, <3>4 DEF Schedule
  <2>3. ASSUME NEW k \in Keys, RunToCompletion(k) \/ Settle(k) PROVE Moves
    <3> DEFINE run == [running EXCEPT ![k] = NoJob]
    <3>1. k \in inFlight /\ FinishDeferred(k)
      BY <2>3 DEF RunToCompletion, Settle, GateInv
    <3>2. PICK started \in SUBSET Keys, q \in Seq(Keys) :
            Drained(started, q, pending, run, inFlight \ {k})
      BY <3>1, FinishStep
    <3>3. ASSUME NEW x \in Keys PROVE Mailbox!MailboxStep(x)
      <4>1. \/ /\ pending[x] # NoJob /\ x \notin inFlight \ {k}
               /\ pending'[x] = NoJob /\ running'[x] = pending[x]
            \/ pending'[x] = pending[x] /\ running'[x] = run[x]
        <5> HIDE DEF run
        <5> QED BY <3>2, DrainedMoves
      <4>2. CASE x = k
        <5>1. run[x] = NoJob /\ running[x] # NoJob
          BY <2>1, <3>1, <4>2
        <5> QED BY <4>1, <5>1
      <4>3. CASE x # k
        <5>1. run[x] = running[x]
          BY <2>1, <4>3
        <5> QED BY <2>1, <4>1, <4>3, <5>1
      <4> QED BY <4>2, <4>3
    <3> QED BY <3>3
  <2>4. ASSUME NEW k \in Keys, RunAsync(k) PROVE Moves
    BY <2>4 DEF RunAsync
  <2>5. ASSUME DrainTick PROVE Moves
    <3>1. PICK started \in SUBSET Keys :
            Drained(started, waitQueue, pending, running, inFlight)
      BY <2>5, DrainTickStep
    <3>2. ASSUME NEW x \in Keys PROVE Mailbox!MailboxStep(x)
      <4>1. \/ /\ pending[x] # NoJob /\ x \notin inFlight
               /\ pending'[x] = NoJob /\ running'[x] = pending[x]
            \/ pending'[x] = pending[x] /\ running'[x] = running[x]
        BY <3>1, DrainedMoves
      <4> QED BY <2>1, <4>1
    <3> QED BY <3>2
  <2>6. ASSUME LagSample \/ HeapChange PROVE Moves
    BY <2>6 DEF LagSample, HeapChange, jobVars
  <2> QED BY <2>2, <2>3, <2>4, <2>5, <2>6 DEF GateNext, GateInternal
<1>3. UNCHANGED gateVars => UNCHANGED Mailbox!mailboxVars
  BY DEF gateVars, jobVars, Mailbox!mailboxVars
<1>4. GateInv /\ [GateNext]_gateVars => [Moves]_(Mailbox!mailboxVars)
  BY <1>2, <1>3
<1> QED BY <1>1, <1>4, Invariance, PTL DEF GateSpec, LatestWins, Mailbox!MailboxSpec
=============================================================================
