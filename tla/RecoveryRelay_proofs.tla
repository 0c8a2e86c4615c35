------------------------ MODULE RecoveryRelay_proofs ------------------------
(***************************************************************************)
(* Proofs about RecoveryRelay, for any number of packages and any limits:  *)
(* its type invariant, that the relay is never left locked, the discipline *)
(* of the recovery queue and the bound on consecutive relaunches.          *)
(***************************************************************************)
EXTENDS RecoveryRelay, SequenceTheorems, FiniteSetTheorems, TLAPS

Holds(q, p) == \E i \in 1..Len(q) : q[i] = p
Distinct(q) == \A i, j \in 1..Len(q) : q[i] = q[j] => i = j

\* r is q, or q with others behind it.
Begins(q, r) == Len(q) <= Len(r) /\ \A i \in 1..Len(q) : r[i] = q[i]

-----------------------------------------------------------------------------
(* What the operators of the recovery queue return *)

LEMMA SuffixOf ==
    ASSUME NEW q \in Seq(Packages), Distinct(q), NEW i \in 1..Len(q)
    PROVE  /\ SubSeq(q, i + 1, Len(q)) \in Seq(Packages)
           /\ Distinct(SubSeq(q, i + 1, Len(q)))
           /\ \A p : Holds(SubSeq(q, i + 1, Len(q)), p) => Holds(q, p) /\ p # q[i]
<1> DEFINE s == SubSeq(q, i + 1, Len(q))
<1>1. \A j \in (i + 1)..Len(q) : q[j] \in Packages
  OBVIOUS
<1>2. /\ s \in Seq(Packages)
      /\ Len(s) = Len(q) - i
      /\ \A j \in 1..(Len(q) - i) : s[j] = q[i + j]
  BY <1>1, SubSeqProperties
<1> HIDE DEF s
<1>3. Distinct(s)
  <2> SUFFICES ASSUME NEW j \in 1..Len(s), NEW k \in 1..Len(s), s[j] = s[k]
               PROVE  j = k
    BY DEF Distinct
  <2>1. i + j \in 1..Len(q) /\ i + k \in 1..Len(q) /\ q[i + j] = q[i + k]
    BY <1>2
  <2> QED
    BY <2>1 DEF Distinct
<1>4. ASSUME NEW p, Holds(s, p)
      PROVE  Holds(q, p) /\ p # q[i]
  <2>1. PICK j \in 1..Len(s) : s[j] = p
    BY <1>4 DEF Holds
  <2>2. i + j \in 1..Len(q) /\ q[i + j] = p /\ i + j # i
    BY <2>1, <1>2
  <2> QED
    BY <2>2 DEF Holds, Distinct
<1> QED
  BY <1>2, <1>3, <1>4 DEF s

LEMMA RemovalOf ==
    ASSUME NEW q \in Seq(Packages), Distinct(q), NEW p
    PROVE  /\ Without(q, p) \in Seq(Packages)
           /\ Distinct(Without(q, p))
           /\ \A r : Holds(Without(q, p), r) => Holds(q, r) /\ r # p
<1>1. CASE ~Holds(q, p)
  <2>1. Without(q, p) = q
    BY <1>1 DEF Without, Holds
  <2> QED
    BY <1>1, <2>1 DEF Holds
<1>2. CASE Holds(q, p)
  <2> DEFINE i == CHOOSE i \in 1..Len(q) : q[i] = p
             u == SubSeq(q, 1, i - 1)
             v == SubSeq(q, i + 1, Len(q))
             w == u \o v
  <2>1. i \in 1..Len(q) /\ q[i] = p
    BY <1>2 DEF Holds
  <2>2. Without(q, p) = w
    BY <1>2 DEF Without, Holds
  <2> HIDE DEF i
  <2>3. /\ \A j \in 1..(i - 1) : q[j] \in Packages
        /\ \A j \in (i + 1)..Len(q) : q[j] \in Packages
        /\ i - 1 \in Nat /\ i + 1 \in Int
    BY <2>1
  <2>4. /\ u \in Seq(Packages)
        /\ Len(u) = i - 1
        /\ \A j \in 1..(i - 1) : u[j] = q[j]
    BY <2>1, <2>3, SubSeqProperties
  <2>5. /\ v \in Seq(Packages)
        /\ Len(v) = Len(q) - i
        /\ \A j \in 1..(Len(q) - i) : v[j] = q[i + j]
    BY <2>1, <2>3, SubSeqProperties
  <2> HIDE DEF u, v
  <2>6. /\ w \in Seq(Packages)
        /\ Len(w) = Len(q) - 1
        /\ \A j \in 1..(Len(q) - 1) : w[j] = IF j < i THEN q[j] ELSE q[j + 1]
    <3>1. /\ w \in Seq(Packages)
          /\ Len(w) = Len(u) + Len(v)
          /\ \A j \in 1..(Len(u) + Len(v)) : w[j] = IF j <= Len(u) THEN u[j] ELSE v[j - Len(u)]
      BY <2>4, <2>5, ConcatProperties
    <3> HIDE DEF w
    <3>2. ASSUME NEW j \in 1..(Len(q) - 1)
          PROVE  w[j] = IF j < i THEN q[j] ELSE q[j + 1]
      <4>a. /\ j \in Int /\ i \in Int /\ Len(q) \in Int
            /\ i - 1 + (Len(q) - i) = Len(q) - 1
        BY <2>1
      <4>b. w[j] = IF j <= i - 1 THEN u[j] ELSE v[j - (i - 1)]
        BY <4>a, <3>1, <2>4, <2>5
      <4>1. CASE j < i
        <5>1. j <= i - 1 /\ j \in 1..(i - 1)
          BY <4>1, <4>a
        <5> QED
          BY <4>1, <5>1, <4>b, <2>4
      <4>2. CASE ~(j < i)
        <5>1. j - (i - 1) \in 1..(Len(q) - i) /\ i + (j - (i - 1)) = j + 1
          BY <4>2, <2>1
        <5>2. w[j] = v[j - (i - 1)]
          BY <4>2, <4>a, <4>b
        <5> QED
          BY <4>2, <5>1, <5>2, <2>5
      <4> QED
        BY <4>1, <4>2
    <3>3. Len(w) = Len(q) - 1
      BY <3>1, <2>1, <2>4, <2>5
    <3> QED
      BY <3>1, <3>2, <3>3
  <2> HIDE DEF w
  <2>7. \A j \in 1..Len(w) : \E k \in 1..Len(q) : k # i /\ w[j] = q[k] /\ k \in {j, j + 1}
                                                 /\ (k = j <=> j < i)
    BY <2>1, <2>6
  <2>8. Distinct(w)
    <3> SUFFICES ASSUME NEW j \in 1..Len(w), NEW k \in 1..Len(w), w[j] = w[k]
                 PROVE  j = k
      BY DEF Distinct
    <3>1. PICK a \in 1..Len(q) : w[j] = q[a] /\ a \in {j, j + 1} /\ (a = j <=> j < i) /\ a # i
      BY <2>7
    <3>2. PICK b \in 1..Len(q) : w[k] = q[b] /\ b \in {k, k + 1} /\ (b = k <=> k < i) /\ b # i
      BY <2>7
    <3>3. a = b
      BY <3>1, <3>2 DEF Distinct
    <3> QED
      BY <3>1, <3>2, <3>3, <2>1, <2>6
  <2>9. ASSUME NEW r, Holds(w, r)
        PROVE  Holds(q, r) /\ r # p
    BY <2>9, <2>7, <2>1 DEF Holds, Distinct
  <2> QED
    BY <2>2, <2>6, <2>8, <2>9
<1> QED
  BY <1>1, <1>2

LEMMA AppendOf ==
    ASSUME queue \in Seq(Packages), Distinct(queue), NEW p \in Packages
    PROVE  /\ Enqueued(p) \in Seq(Packages)
           /\ Distinct(Enqueued(p))
           /\ \A r : Holds(Enqueued(p), r) =>
                 Holds(queue, r) \/ (r = p /\ p \notin abandoned /\ active # p)
           /\ Begins(queue, Enqueued(p))
<1>1. CASE p \in abandoned \/ active = p \/ InQueue(p)
  BY <1>1 DEF Enqueued, Begins
<1>2. CASE ~(p \in abandoned \/ active = p \/ InQueue(p))
  <2>1. Enqueued(p) = Append(queue, p)
    BY <1>2 DEF Enqueued
  <2>2. /\ Append(queue, p) \in Seq(Packages)
        /\ Len(Append(queue, p)) = Len(queue) + 1
        /\ \A i \in 1..Len(queue) : Append(queue, p)[i] = queue[i]
        /\ Append(queue, p)[Len(queue) + 1] = p
    OBVIOUS
  <2>3. \A i \in 1..Len(queue) : queue[i] # p
    BY <1>2 DEF InQueue
  <2>4. Distinct(Append(queue, p))
    BY <2>2, <2>3 DEF Distinct
  <2>5. \A r : Holds(Append(queue, p), r) => Holds(queue, r) \/ r = p
    BY <2>2 DEF Holds
  <2>6. Begins(queue, Append(queue, p))
    BY <2>2 DEF Begins
  <2> QED
    BY <1>2, <2>1, <2>2, <2>4, <2>5, <2>6
<1> QED
  BY <1>1, <1>2

LEMMA SyncOf ==
    ASSUME RelayAssumption,
           NEW q \in Seq(Packages), Distinct(q), NEW given, NEW isDead, NEW current,
           NEW r \in Synced(q, given, isDead, current)
    PROVE  /\ r \in Seq(Packages)
           /\ Distinct(r)
           /\ \A p : Holds(r, p) =>
                 Holds(q, p) \/ (p \in Packages /\ isDead[p] /\ p \notin given /\ p # current)
           /\ Begins(q, r)
<1> DEFINE S == Missing(q, given, isDead, current)
           n == Cardinality(S)
<1>1. PICK s \in Orders(S) : r = q \o s
  BY DEF Synced
<1>2. S \subseteq Packages
  BY DEF Missing
<1>3. n \in Nat
  <2>1. IsFiniteSet(Packages)
    BY FS_Interval DEF Packages, RelayAssumption
  <2> QED
    BY <1>2, <2>1, FS_Subset, FS_CardinalityType
<1>4. /\ s \in [1..n -> S]
      /\ \A i, j \in 1..n : i # j => s[i] # s[j]
  BY DEF Orders
<1>5. \A p \in S : ~Holds(q, p) /\ isDead[p] /\ p \notin given /\ p # current
  BY DEF Missing, Holds
<1> HIDE DEF S, n
<1>6. s \in Seq(Packages) /\ Len(s) = n
  BY <1>2, <1>3, <1>4
<1>7. /\ r \in Seq(Packages)
      /\ Len(r) = Len(q) + n
      /\ \A i \in 1..(Len(q) + n) : r[i] = IF i <= Len(q) THEN q[i] ELSE s[i - Len(q)]
  BY <1>1, <1>6, ConcatProperties
<1>8. \A i \in 1..Len(r) :
         \/ i \in 1..Len(q) /\ r[i] = q[i]
         \/ i - Len(q) \in 1..n /\ r[i] = s[i - Len(q)] /\ r[i] \in S
  BY <1>3, <1>4, <1>7
<1>9. Distinct(r)
  <2> SUFFICES ASSUME NEW i \in 1..Len(r), NEW j \in 1..Len(r), r[i] = r[j]
               PROVE  i = j
    BY DEF Distinct
  <2>1. CASE i \in 1..Len(q) /\ r[i] = q[i] /\ j \in 1..Len(q) /\ r[j] = q[j]
    BY <2>1 DEF Distinct
  <2>2. CASE i \in 1..Len(q) /\ r[i] = q[i] /\ r[j] \in S
    BY <2>2, <1>5 DEF Holds
  <2>3. CASE j \in 1..Len(q) /\ r[j] = q[j] /\ r[i] \in S
    BY <2>3, <1>5 DEF Holds
  <2>4. CASE /\ i - Len(q) \in 1..n /\ r[i] = s[i - Len(q)]
             /\ j - Len(q) \in 1..n /\ r[j] = s[j - Len(q)]
    <3>1. s[i - Len(q)] = s[j - Len(q)]
      BY <2>4
    <3>2. i - Len(q) = j - Len(q)
      BY <3>1, <2>4, <1>4
    <3>3. i \in Int /\ j \in Int /\ Len(q) \in Int
      BY <1>7
    <3> QED
      BY <3>2, <3>3
  <2> QED
    BY <1>8, <2>1, <2>2, <2>3, <2>4
<1>10. ASSUME NEW p, Holds(r, p)
       PROVE  Holds(q, p) \/ (p \in Packages /\ isDead[p] /\ p \notin given /\ p # current)
  BY <1>10, <1>8, <1>5, <1>2 DEF Holds
<1>11. Begins(q, r)
  BY <1>3, <1>7 DEF Begins
<1> QED
  BY <1>7, <1>9, <1>10, <1>11

-----------------------------------------------------------------------------
(* The inductive invariant *)

QueueInv ==
    /\ Distinct(queue)
    /\ \A p : Holds(queue, p) => p \notin abandoned /\ p # active

\* What each step of the watchdog finds in its locals.
StepInv ==
    /\ active # 0 <=> pc = "launch"
    /\ pc \in {"asleep", "launch", "note"} => target \in Packages
    /\ pc \in {"next", "asleep", "launch", "note"} => back \in {"detect", "focusDead", "advance"}
    /\ pc = "asleep" => throttled[target]

\* The relaunches since the last pause are counted by the attempts, or have
\* armed the throttle.
LaunchCount ==
    \A p \in Packages :
        /\ attempts[p] < MaxLaunches
        /\ throttled[p] => attempts[p] = 0
        /\ burst[p] = IF throttled[p] THEN MaxLaunches ELSE attempts[p]

RelayInv == RelayTypeOK /\ RelayNeverLocked /\ QueueInv /\ StepInv /\ LaunchCount

LEMMA PackagesPositive == ASSUME RelayAssumption
                          PROVE  0 \notin Packages /\ 1 \in Packages /\ Packages \subseteq 0..N
  BY DEF RelayAssumption, Packages

\* The turn of the next package, or the next round.
LEMMA NextTurnSteps ==
    ASSUME RelayAssumption, idx \in Packages, NextTurn
    PROVE  idx' \in Packages /\ pc' \in {"apply", "refresh"}
  BY DEF NextTurn, RelayAssumption, Packages

LEMMA ReturnSteps ==
    ASSUME RelayAssumption, idx \in Packages, back \in {"detect", "focusDead", "advance"}, Return
    PROVE  /\ idx' \in Packages
           /\ pc' \in {"apply", "refresh", "detect", "focusDead"}
           /\ target' = 0
           /\ back' = "none"
<1>1. CASE back = "advance"
  BY <1>1, NextTurnSteps DEF Return
<1>2. CASE back # "advance"
  BY <1>2 DEF Return
<1> QED
  BY <1>1, <1>2

LEMMA RelayInitInv == ASSUME RelayAssumption, RelayInit PROVE RelayInv
<1>1. RelayTypeOK
  <2> USE DEF RelayInit
  <2>1. /\ proc \in [Packages -> {"gone", "up", "ingame"}]
        /\ row \in [Packages -> {"RELAUNCHING", "ONLINE", "DISCONNECTED", "DEAD", "FAILED"}]
        /\ kicked \in [Packages -> BOOLEAN]
        /\ age \in [Packages -> 0..2]
        /\ lane \subseteq Packages
        /\ faults \in 0..MaxFaults
    BY DEF RelayAssumption
  <2>2. /\ dead \in [Packages -> BOOLEAN]
        /\ pendingDead \in [Packages -> BOOLEAN]
        /\ silent \in [Packages -> 0..NoHeartbeatLimit]
        /\ queue \in Seq(Packages)
        /\ active \in 0..N
        /\ stageFailed \in BOOLEAN
        /\ abandoned \subseteq Packages
        /\ paused \in BOOLEAN
    <3>1. 0 \in 0..N /\ 0 \in 0..NoHeartbeatLimit
      BY DEF RelayAssumption
    <3>2. queue \in Seq(Packages)
      OBVIOUS
    <3> QED
      BY <3>1, <3>2
  <2>3. /\ status \in [Packages -> Statuses]
        /\ attempts \in [Packages -> Nat]
        /\ throttled \in [Packages -> BOOLEAN]
        /\ seen \in [Packages -> Statuses]
        /\ burst \in [Packages -> Nat]
    BY DEF Statuses
  <2>4. /\ pc \in Steps
        /\ idx \in Packages
        /\ target \in 0..N
        /\ back \in {"none", "detect", "focusDead", "advance"}
    <3>1. 1 \in Packages /\ 0 \in 0..N
      BY PackagesPositive DEF RelayAssumption
    <3> QED
      BY <3>1 DEF Steps
  <2> QED
    BY <2>1, <2>2, <2>3, <2>4 DEF RelayTypeOK
<1>2. QueueInv
  BY DEF RelayInit, QueueInv, Distinct, Holds
<1>3. RelayNeverLocked /\ StepInv
  BY DEF RelayInit, RelayNeverLocked, StepInv
<1>4. LaunchCount
  BY DEF RelayInit, LaunchCount, RelayAssumption
<1> QED
  BY <1>1, <1>2, <1>3, <1>4 DEF RelayInv

\* The packages and the dead lane touch neither the queue nor the watchdog.
LEMMA PackagesInv ==
    ASSUME RelayAssumption, RelayInv, NEW p \in Packages, DeadLane(p) \/ World(p)
    PROVE  RelayInv'
<1>1. UNCHANGED <<silent, queue, active, stageFailed, abandoned, paused, supervisorVars>>
  BY DEF DeadLane, World, LaneLooks, LaneMarks, Crash, GoesQuiet, Kick, Reopens, ConfirmOnline,
         pointerVars
<1>2. /\ proc' \in [Packages -> {"gone", "up", "ingame"}]
      /\ row' \in [Packages -> {"RELAUNCHING", "ONLINE", "DISCONNECTED", "DEAD", "FAILED"}]
      /\ kicked' \in [Packages -> BOOLEAN]
      /\ age' \in [Packages -> 0..2]
      /\ lane' \subseteq Packages
      /\ faults' \in 0..MaxFaults
      /\ dead' \in [Packages -> BOOLEAN]
      /\ pendingDead' \in [Packages -> BOOLEAN]
  <2> USE DEF RelayInv, RelayTypeOK, pointerVars
  <2>0. ASSUME Fault PROVE faults' \in 0..MaxFaults
    BY <2>0 DEF Fault, RelayAssumption
  <2>1. CASE LaneLooks(p)
    <3>1. faults' \in 0..MaxFaults
      BY <2>0, <2>1 DEF LaneLooks
    <3>2. age' \in [Packages -> 0..2]
      <4>1. (IF age[p] = 0 THEN 1 ELSE age[p]) \in 0..2
        OBVIOUS
      <4>2. CASE age' = [age EXCEPT ![p] = IF age[p] = 0 THEN 1 ELSE age[p]]
        BY <4>1, <4>2
      <4>3. CASE UNCHANGED age
        BY <4>3
      <4> QED
        BY <2>1, <4>2, <4>3 DEF LaneLooks
    <3> QED
      BY <2>1, <3>1, <3>2 DEF LaneLooks
  <2>2. CASE LaneMarks(p)
    BY <2>2 DEF LaneMarks, CommitDead
  <2>3. CASE Crash(p) \/ GoesQuiet(p) \/ Kick(p) \/ Reopens(p)
    <3>1. faults' \in 0..MaxFaults
      BY <2>0, <2>3 DEF Crash, GoesQuiet, Kick, Reopens
    <3>2. proc' \in [Packages -> {"gone", "up", "ingame"}]
      BY <2>3 DEF Crash, GoesQuiet, Kick, Reopens
    <3>3. row' \in [Packages -> {"RELAUNCHING", "ONLINE", "DISCONNECTED", "DEAD", "FAILED"}]
      BY <2>3 DEF Crash, GoesQuiet, Kick, Reopens
    <3>4. kicked' \in [Packages -> BOOLEAN]
      BY <2>3 DEF Crash, GoesQuiet, Kick, Reopens
    <3>5. UNCHANGED <<age, lane, dead, pendingDead>>
      BY <2>3 DEF Crash, GoesQuiet, Kick, Reopens
    <3> QED
      BY <3>1, <3>2, <3>3, <3>4, <3>5
  <2>4. CASE ConfirmOnline(p)
    BY <2>4 DEF ConfirmOnline
  <2> QED
    BY <2>1, <2>2, <2>3, <2>4 DEF DeadLane, World
<1>3. RelayTypeOK'
  BY <1>1, <1>2 DEF RelayInv, RelayTypeOK, supervisorVars, throttleVars, stepVars
<1> QED
  BY <1>1, <1>3 DEF RelayInv, RelayNeverLocked, QueueInv, StepInv, LaunchCount, Distinct, Holds,
                    supervisorVars, throttleVars, stepVars

-----------------------------------------------------------------------------
(* A round of the watchdog preserves the invariant. *)

LEMMA RefreshEvidenceInv ==
    ASSUME RelayAssumption, RelayInv, RefreshEvidence PROVE RelayInv'
<1> USE DEF RefreshEvidence
<1>1. pendingDead' \in [Packages -> BOOLEAN]
  OBVIOUS
<1>2. age' \in [Packages -> 0..2]
  <2>1. PICK older \in SUBSET {p \in Packages : age[p] < 2} :
           age' = [p \in Packages |-> IF p \in older THEN age[p] + 1 ELSE age[p]]
    OBVIOUS
  <2>2. \A p \in Packages : age[p] \in 0..2
    BY DEF RelayInv, RelayTypeOK
  <2>3. \A p \in Packages : (IF p \in older THEN age[p] + 1 ELSE age[p]) \in 0..2
    BY <2>2
  <2> QED
    BY <2>1, <2>3
<1>3. RelayTypeOK'
  BY <1>1, <1>2 DEF RelayInv, RelayTypeOK, Steps, throttleVars
<1> QED
  BY <1>3 DEF RelayInv, RelayNeverLocked, QueueInv, StepInv, LaunchCount, Distinct, Holds,
              throttleVars

LEMMA TickRoundStartInv ==
    ASSUME RelayAssumption, RelayInv, TickRoundStart PROVE RelayInv'
<1> USE DEF TickRoundStart
<1>1. active = 0 /\ ~paused /\ queue \in Seq(Packages) /\ Distinct(queue)
  BY DEF RelayInv, RelayTypeOK, RelayNeverLocked, QueueInv
<1>2. /\ queue' \in Seq(Packages)
      /\ Distinct(queue')
      /\ \A p : Holds(queue', p) =>
            Holds(queue, p) \/ (p \in Packages /\ dead[p] /\ p \notin abandoned /\ p # active)
  BY <1>1, SyncOf
<1>3. pc' \in {"next", "detect"} /\ (pc' = "next" => back' = "detect") /\ back' \in {back, "detect"}
  OBVIOUS
<1>4. RelayTypeOK'
  BY <1>2, <1>3 DEF RelayInv, RelayTypeOK, Steps, throttleVars, packageVars
<1>5. QueueInv'
  BY <1>2 DEF RelayInv, QueueInv, Distinct, Holds
<1>6. LaunchCount'
  BY DEF RelayInv, LaunchCount, throttleVars
<1> QED
  BY <1>1, <1>3, <1>4, <1>5, <1>6 DEF RelayInv, RelayNeverLocked, StepInv, throttleVars

LEMMA DetectAllInv ==
    ASSUME RelayAssumption, RelayInv, DetectAll PROVE RelayInv'
<1> USE DEF DetectAll
<1>0. /\ \A p \in Packages : row[p] \in {"RELAUNCHING", "ONLINE", "DISCONNECTED", "DEAD", "FAILED"}
      /\ \A p \in Packages : dead[p] \in BOOLEAN /\ status[p] \in Statuses
  BY DEF RelayInv, RelayTypeOK
<1>1. PICK downs, late :
         LET r == [p \in Packages |-> IF p \in downs THEN "DEAD"
                                      ELSE IF p \in late THEN "FAILED" ELSE row[p]]
         IN  /\ row' = r
             /\ dead' = [p \in Packages |-> p \in downs \/ dead[p]]
             /\ pendingDead' = [p \in Packages |-> p \notin downs /\ pendingDead[p]]
             /\ seen' = [p \in Packages |-> Verdict(p, r[p])]
  OBVIOUS
<1>2. row' \in [Packages -> {"RELAUNCHING", "ONLINE", "DISCONNECTED", "DEAD", "FAILED"}]
  BY <1>0, <1>1
<1>3. \A p \in Packages : \A r : Verdict(p, r) \in Statuses
  <2> SUFFICES ASSUME NEW p \in Packages, NEW r PROVE Verdict(p, r) \in Statuses
    OBVIOUS
  <2>1. status[p] \in Statuses
    BY <1>0
  <2> QED
    BY <2>1 DEF Verdict, Statuses
<1>4. seen' \in [Packages -> Statuses]
  BY <1>1, <1>3
<1>5. dead' \in [Packages -> BOOLEAN] /\ pendingDead' \in [Packages -> BOOLEAN]
  BY <1>1
<1>6. idx' \in Packages /\ pc' = "apply"
  BY PackagesPositive
<1>7. RelayTypeOK'
  BY <1>2, <1>4, <1>5, <1>6 DEF RelayInv, RelayTypeOK, Steps, throttleVars
<1> QED
  BY <1>6, <1>7 DEF RelayInv, RelayNeverLocked, QueueInv, StepInv, LaunchCount, Distinct, Holds,
                    throttleVars

LEMMA ApplyVerdictInv ==
    ASSUME RelayAssumption, RelayInv, ApplyVerdict PROVE RelayInv'
<1> USE DEF ApplyVerdict
<1>1. idx \in Packages /\ Applied(idx) \in Statuses
  BY DEF Applied, RelayInv, RelayTypeOK, Statuses
<1>2. status' \in [Packages -> Statuses] /\ seen' \in [Packages -> Statuses]
  BY <1>1 DEF RelayInv, RelayTypeOK, Statuses
<1>3. pendingDead' \in [Packages -> BOOLEAN]
  BY DEF RelayInv, RelayTypeOK
<1>4. /\ attempts' \in [Packages -> Nat]
      /\ throttled' \in [Packages -> BOOLEAN]
      /\ burst' \in [Packages -> Nat]
      /\ LaunchCount'
  <2>0. /\ attempts \in [Packages -> Nat]
        /\ throttled \in [Packages -> BOOLEAN]
        /\ burst \in [Packages -> Nat]
        /\ LaunchCount
        /\ 0 < MaxLaunches
    BY DEF RelayInv, RelayTypeOK, RelayAssumption
  <2>1. CASE Applied(idx) = "Online"
    <3>1. /\ attempts' = [attempts EXCEPT ![idx] = 0]
          /\ throttled' = [throttled EXCEPT ![idx] = FALSE]
          /\ burst' = [burst EXCEPT ![idx] = 0]
      BY <2>1
    <3>2. /\ attempts' \in [Packages -> Nat]
          /\ throttled' \in [Packages -> BOOLEAN]
          /\ burst' \in [Packages -> Nat]
      BY <2>0, <3>1
    <3>3. ASSUME NEW p \in Packages
          PROVE  /\ attempts'[p] < MaxLaunches
                 /\ throttled'[p] => attempts'[p] = 0
                 /\ burst'[p] = IF throttled'[p] THEN MaxLaunches ELSE attempts'[p]
      <4>1. CASE p = idx
        BY <2>0, <3>1, <4>1
      <4>2. CASE p # idx
        <5>1. attempts'[p] = attempts[p] /\ throttled'[p] = throttled[p] /\ burst'[p] = burst[p]
          BY <2>0, <3>1, <4>2
        <5> QED
          BY <2>0, <5>1 DEF LaunchCount
      <4> QED
        BY <4>1, <4>2
    <3> QED
      BY <3>2, <3>3 DEF LaunchCount
  <2>2. CASE Applied(idx) # "Online"
    BY <2>0, <2>2 DEF LaunchCount, throttleVars
  <2> QED
    BY <2>1, <2>2
<1>5. RelayTypeOK'
  BY <1>2, <1>3, <1>4 DEF RelayInv, RelayTypeOK, Steps, packageVars
<1> QED
  BY <1>4, <1>5 DEF RelayInv, RelayNeverLocked, QueueInv, StepInv, Distinct, Holds

-----------------------------------------------------------------------------
(* So does a focus. *)

\* What the focus leaves alone, whichever way it ends.
LEMMA FocusInv ==
    ASSUME RelayAssumption, RelayInv,
           UNCHANGED <<proc, kicked, age, lane, faults, active, stageFailed, abandoned, status,
                       throttleVars, target, seen>>,
           row' \in [Packages -> {"RELAUNCHING", "ONLINE", "DISCONNECTED", "DEAD", "FAILED"}],
           silent' \in [Packages -> 0..NoHeartbeatLimit],
           dead' \in [Packages -> BOOLEAN], pendingDead' \in [Packages -> BOOLEAN],
           queue' \in Seq(Packages), Distinct(queue'),
           \A p : Holds(queue', p) => Holds(queue, p) \/ (p \notin abandoned /\ active # p),
           pc \in {"focus", "focusDead"},
           \/ /\ pc' \in {"apply", "refresh"} /\ idx' \in Packages
              /\ UNCHANGED <<back, paused>>
           \/ /\ pc' = "next" /\ UNCHANGED idx
              /\ back' \in {"focusDead", "advance"} /\ paused' = TRUE
    PROVE  RelayInv'
<1>1. active = 0 /\ ~paused
  BY DEF RelayInv, RelayNeverLocked
<1>2. /\ pc' \in Steps /\ idx' \in Packages /\ paused' \in BOOLEAN
      /\ back' \in {"none", "detect", "focusDead", "advance"}
  BY DEF RelayInv, RelayTypeOK, Steps
<1>3. RelayTypeOK'
  BY <1>2 DEF RelayInv, RelayTypeOK, throttleVars
<1>4. QueueInv'
  BY DEF RelayInv, QueueInv, Distinct, Holds
<1>5. LaunchCount'
  BY DEF RelayInv, LaunchCount, throttleVars
<1>6. RelayNeverLocked' /\ StepInv'
  BY <1>1 DEF RelayInv, RelayNeverLocked, StepInv, throttleVars
<1> QED
  BY <1>3, <1>4, <1>5, <1>6 DEF RelayInv

LEMMA FocusOnDeadInv ==
    ASSUME RelayAssumption, RelayInv, pc = "focus", FocusOnDead,
           row' \in [Packages -> {"RELAUNCHING", "ONLINE", "DISCONNECTED", "DEAD", "FAILED"}],
           silent' \in [Packages -> 0..NoHeartbeatLimit]
    PROVE  RelayInv'
<1> USE DEF FocusOnDead, MarkDead, CommitDead
<1>1. /\ idx \in Packages /\ queue \in Seq(Packages) /\ Distinct(queue)
      /\ dead \in [Packages -> BOOLEAN] /\ pendingDead \in [Packages -> BOOLEAN]
  BY DEF RelayInv, RelayTypeOK, QueueInv
<1>2. /\ queue' \in Seq(Packages) /\ Distinct(queue')
      /\ \A p : Holds(queue', p) => Holds(queue, p) \/ (p \notin abandoned /\ active # p)
  BY <1>1, AppendOf
<1>3. dead' \in [Packages -> BOOLEAN] /\ pendingDead' \in [Packages -> BOOLEAN]
  BY <1>1
<1>4. /\ UNCHANGED <<proc, kicked, age, lane, faults, active, stageFailed, abandoned, status,
                     throttleVars, target, seen>>
      /\ pc' = "next" /\ UNCHANGED idx
      /\ back' \in {"focusDead", "advance"} /\ paused' = TRUE
  OBVIOUS
<1> QED
  BY <1>2, <1>3, <1>4, FocusInv

LEMMA CommitAliveInv ==
    ASSUME RelayAssumption, RelayInv, pc = "focus", CommitAlive,
           silent' \in [Packages -> 0..NoHeartbeatLimit]
    PROVE  RelayInv'
<1> USE DEF CommitAlive
<1>1. /\ idx \in Packages /\ queue \in Seq(Packages) /\ Distinct(queue)
      /\ dead \in [Packages -> BOOLEAN] /\ pendingDead \in [Packages -> BOOLEAN]
      /\ row \in [Packages -> {"RELAUNCHING", "ONLINE", "DISCONNECTED", "DEAD", "FAILED"}]
  BY DEF RelayInv, RelayTypeOK, QueueInv
<1>2. pc' \in {"apply", "refresh"} /\ idx' \in Packages
  BY <1>1, NextTurnSteps
<1>3. /\ UNCHANGED <<proc, row, kicked, age, lane, faults, active, stageFailed, abandoned, status,
                     throttleVars, target, seen, queue, back, paused>>
      /\ dead' \in [Packages -> BOOLEAN] /\ pendingDead' \in [Packages -> BOOLEAN]
  BY <1>1 DEF packageVars
<1> QED
  BY <1>1, <1>2, <1>3, FocusInv

LEMMA FocusStepsInv ==
    ASSUME RelayAssumption, RelayInv, Focus
    PROVE  RelayInv'
<1>1. /\ idx \in Packages /\ queue \in Seq(Packages) /\ Distinct(queue)
      /\ dead \in [Packages -> BOOLEAN] /\ pendingDead \in [Packages -> BOOLEAN]
      /\ row \in [Packages -> {"RELAUNCHING", "ONLINE", "DISCONNECTED", "DEAD", "FAILED"}]
      /\ silent \in [Packages -> 0..NoHeartbeatLimit]
  BY DEF RelayInv, RelayTypeOK, QueueInv
<1>2. CASE SkipFocus
  <2>1. pc = "focus" /\ pc' \in {"apply", "refresh"} /\ idx' \in Packages
    BY <1>1, <1>2, NextTurnSteps DEF SkipFocus
  <2>2. /\ UNCHANGED <<proc, row, kicked, age, lane, faults, active, stageFailed, abandoned, status,
                       throttleVars, target, seen, queue, back, paused, dead, pendingDead, silent>>
    BY <1>2 DEF SkipFocus, packageVars, pointerVars
  <2> QED
    BY <1>1, <2>1, <2>2, FocusInv
<1>3. CASE FocusKnownDead
  BY <1>1, <1>3, FocusOnDeadInv DEF FocusKnownDead
<1>4. CASE WindowFindsGone
  <2>1. row' \in [Packages -> {"RELAUNCHING", "ONLINE", "DISCONNECTED", "DEAD", "FAILED"}]
    BY <1>1, <1>4 DEF WindowFindsGone
  <2> QED
    BY <1>1, <1>4, <2>1, FocusOnDeadInv DEF WindowFindsGone, InWindow
<1>5. CASE WindowSeesOnline
  <2>1. silent' \in [Packages -> 0..NoHeartbeatLimit]
    <3>1. 0 \in 0..NoHeartbeatLimit
      BY DEF RelayAssumption
    <3>2. CASE silent' = [silent EXCEPT ![idx] = 0]
      BY <1>1, <3>1, <3>2
    <3>3. CASE UNCHANGED silent
      BY <1>1, <3>3
    <3> QED
      BY <1>5, <3>2, <3>3 DEF WindowSeesOnline
  <2> QED
    BY <1>5, <2>1, CommitAliveInv DEF WindowSeesOnline, InWindow
<1>6. CASE WindowEndsSilent
  <2>1. pc = "focus"
    BY <1>6 DEF WindowEndsSilent, InWindow
  <2>2. silent[idx] \in 0..NoHeartbeatLimit /\ NoHeartbeatLimit \in Nat
    BY <1>1 DEF RelayAssumption
  <2>3. CASE silent[idx] + 1 >= NoHeartbeatLimit
    <3>1. silent' = [silent EXCEPT ![idx] = NoHeartbeatLimit] /\ FocusOnDead /\ row' = row
      BY <1>6, <2>3 DEF WindowEndsSilent
    <3>2. NoHeartbeatLimit \in 0..NoHeartbeatLimit
      BY <2>2
    <3>3. silent' \in [Packages -> 0..NoHeartbeatLimit]
      BY <1>1, <3>1, <3>2
    <3> QED
      BY <1>1, <2>1, <3>1, <3>3, FocusOnDeadInv
  <2>4. CASE ~(silent[idx] + 1 >= NoHeartbeatLimit)
    <3>1. silent' = [silent EXCEPT ![idx] = silent[idx] + 1] /\ CommitAlive
      BY <1>6, <2>4 DEF WindowEndsSilent
    <3>2. silent[idx] + 1 \in 0..NoHeartbeatLimit
      BY <2>2, <2>4
    <3>3. silent' \in [Packages -> 0..NoHeartbeatLimit]
      BY <1>1, <3>1, <3>2
    <3> QED
      BY <2>1, <3>1, <3>3, CommitAliveInv
  <2> QED
    BY <2>3, <2>4
<1>7. CASE HandleFocusDead
  <2>1. /\ queue' = Enqueued(idx)
        /\ dead' \in [Packages -> BOOLEAN] /\ pendingDead' \in [Packages -> BOOLEAN]
    BY <1>1, <1>7 DEF HandleFocusDead, MarkDead, CommitDead
  <2>2. /\ queue' \in Seq(Packages) /\ Distinct(queue')
        /\ \A p : Holds(queue', p) => Holds(queue, p) \/ (p \notin abandoned /\ active # p)
    BY <1>1, <2>1, AppendOf
  <2>3. /\ UNCHANGED <<proc, row, kicked, age, lane, faults, active, stageFailed, abandoned, status,
                       throttleVars, target, seen, silent>>
        /\ pc = "focusDead" /\ pc' = "next" /\ UNCHANGED idx
        /\ back' \in {"focusDead", "advance"} /\ paused' = TRUE
    BY <1>7 DEF HandleFocusDead, packageVars
  <2> QED
    BY <1>1, <2>1, <2>2, <2>3, FocusInv
<1> QED
  BY <1>2, <1>3, <1>4, <1>5, <1>6, <1>7 DEF Focus

-----------------------------------------------------------------------------
(* And so does a recovery. *)

LEMMA NothingQueuedInv ==
    ASSUME RelayAssumption, RelayInv, NothingQueued PROVE RelayInv'
<1>1. idx \in Packages /\ back \in {"detect", "focusDead", "advance"}
  BY DEF RelayInv, RelayTypeOK, StepInv, NothingQueued
<1>2. /\ idx' \in Packages /\ pc' \in {"apply", "refresh", "detect", "focusDead"}
      /\ target' = 0 /\ back' = "none"
  BY <1>1, ReturnSteps DEF NothingQueued
<1>3. 0 \in 0..N /\ << >> \in Seq(Packages)
  BY DEF RelayAssumption
<1>4. /\ active = 0 /\ queue' = << >> /\ paused' = FALSE
      /\ UNCHANGED <<proc, row, kicked, age, lane, faults, dead, pendingDead, silent, active,
                     stageFailed, abandoned, status, attempts, throttled, burst, seen>>
  BY DEF NothingQueued, packageVars, throttleVars
<1>5. RelayTypeOK'
  BY <1>2, <1>3, <1>4 DEF RelayInv, RelayTypeOK, Steps
<1>6. QueueInv'
  BY <1>4 DEF QueueInv, Distinct, Holds
<1>7. LaunchCount'
  BY <1>4 DEF RelayInv, LaunchCount
<1> QED
  BY <1>2, <1>4, <1>5, <1>6, <1>7 DEF RelayInv, RelayNeverLocked, StepInv

\* The package taken from the queue, and the queue that is left.
LEMMA DequeueSteps ==
    ASSUME RelayAssumption, RelayInv, NEW i \in 1..Len(queue), Dequeue(i)
    PROVE  /\ queue[i] \in Packages /\ queue[i] \notin abandoned
           /\ queue' \in Seq(Packages) /\ Distinct(queue')
           /\ \A p : Holds(queue', p) => Holds(queue, p) /\ p # queue[i]
<1>1. queue \in Seq(Packages) /\ Distinct(queue)
  BY DEF RelayInv, RelayTypeOK, QueueInv
<1>2. queue' = SubSeq(queue, i + 1, Len(queue)) /\ queue[i] \notin abandoned
  BY DEF Dequeue, IsHead
<1>3. queue[i] \in Packages
  BY <1>1
<1> QED
  BY <1>1, <1>2, <1>3, SuffixOf

LEMMA FallAsleepInv ==
    ASSUME RelayAssumption, RelayInv, NEW i \in 1..Len(queue), FallAsleep(i)
    PROVE  RelayInv'
<1> USE DEF FallAsleep
<1>1. /\ queue[i] \in Packages
      /\ queue' \in Seq(Packages) /\ Distinct(queue')
      /\ \A p : Holds(queue', p) => Holds(queue, p)
  BY DequeueSteps
<1>2. /\ pc = "next" /\ active = 0 /\ target' = queue[i] /\ paused' = TRUE /\ pc' = "asleep"
      /\ target' \in 0..N
  BY <1>1, PackagesPositive DEF Dequeue
<1>3. RelayTypeOK'
  BY <1>1, <1>2 DEF RelayInv, RelayTypeOK, Steps, throttleVars, packageVars
<1>4. QueueInv'
  BY <1>1 DEF RelayInv, QueueInv
<1>5. LaunchCount'
  BY DEF RelayInv, LaunchCount, throttleVars
<1> QED
  BY <1>1, <1>2, <1>3, <1>4, <1>5 DEF RelayInv, RelayNeverLocked, StepInv, throttleVars

LEMMA BeginRecoveryInv ==
    ASSUME RelayAssumption, RelayInv, NEW i \in 1..Len(queue), BeginRecovery(i)
    PROVE  RelayInv'
<1> DEFINE p == queue[i]
<1>1. /\ p \in Packages /\ p \notin abandoned
      /\ queue' \in Seq(Packages) /\ Distinct(queue')
      /\ \A r : Holds(queue', r) => Holds(queue, r) /\ r # p
  BY DequeueSteps DEF BeginRecovery
<1>2. /\ pc = "next" /\ target' = p /\ paused' = TRUE
      /\ active' = p /\ stageFailed' = FALSE /\ pc' = "launch"
      /\ status' = [status EXCEPT ![p] = "Relaunching"]
      /\ proc' = [proc EXCEPT ![p] = "gone"]
      /\ UNCHANGED <<row, kicked, age, lane, faults, dead, pendingDead, silent, abandoned,
                     idx, back, seen>>
  BY DEF BeginRecovery, Dequeue
<1>3. /\ attempts' = [attempts EXCEPT ![p] = IF IsLastAttempt(p) THEN 0 ELSE attempts[p] + 1]
      /\ throttled' = [throttled EXCEPT ![p] = IsLastAttempt(p)]
      /\ burst' = [burst EXCEPT ![p] = IF throttled[p] THEN 1 ELSE burst[p] + 1]
  BY DEF BeginRecovery
<1> HIDE DEF p
<1>4. /\ attempts \in [Packages -> Nat] /\ throttled \in [Packages -> BOOLEAN]
      /\ burst \in [Packages -> Nat] /\ LaunchCount
      /\ status \in [Packages -> Statuses]
      /\ proc \in [Packages -> {"gone", "up", "ingame"}]
  BY DEF RelayInv, RelayTypeOK
<1>5. IsLastAttempt(p) \in BOOLEAN /\ (IsLastAttempt(p) <=> attempts[p] + 1 >= MaxLaunches)
  BY DEF IsLastAttempt
<1>6. /\ attempts' \in [Packages -> Nat] /\ throttled' \in [Packages -> BOOLEAN]
      /\ burst' \in [Packages -> Nat]
  <2>1. attempts[p] \in Nat /\ burst[p] \in Nat
    BY <1>1, <1>4
  <2>2. (IF IsLastAttempt(p) THEN 0 ELSE attempts[p] + 1) \in Nat
    BY <2>1
  <2>3. (IF throttled[p] THEN 1 ELSE burst[p] + 1) \in Nat
    BY <2>1
  <2>4. attempts' \in [Packages -> Nat]
    BY <1>3, <1>4, <2>2
  <2>5. throttled' \in [Packages -> BOOLEAN]
    BY <1>3, <1>4, <1>5
  <2>6. burst' \in [Packages -> Nat]
    BY <1>3, <1>4, <2>3
  <2> QED
    BY <2>4, <2>5, <2>6
<1>7. LaunchCount'
  <2> SUFFICES ASSUME NEW r \in Packages
               PROVE  /\ attempts'[r] < MaxLaunches
                      /\ throttled'[r] => attempts'[r] = 0
                      /\ burst'[r] = IF throttled'[r] THEN MaxLaunches ELSE attempts'[r]
    BY DEF LaunchCount
  <2>0. /\ attempts[r] \in Nat /\ attempts[r] < MaxLaunches /\ throttled[r] \in BOOLEAN
        /\ throttled[r] => attempts[r] = 0
        /\ burst[r] = IF throttled[r] THEN MaxLaunches ELSE attempts[r]
        /\ MaxLaunches \in Nat /\ 0 < MaxLaunches
    BY <1>4 DEF LaunchCount, RelayAssumption
  <2>1. CASE r # p
    <3>1. attempts'[r] = attempts[r] /\ throttled'[r] = throttled[r] /\ burst'[r] = burst[r]
      BY <1>3, <1>4, <2>1
    <3> QED
      BY <2>0, <3>1
  <2>2. CASE r = p /\ attempts[r] + 1 >= MaxLaunches
    <3>1. attempts'[r] = 0 /\ throttled'[r] = TRUE
          /\ burst'[r] = IF throttled[r] THEN 1 ELSE burst[r] + 1
      BY <1>3, <1>4, <1>5, <2>2
    <3>2. burst'[r] = MaxLaunches
      BY <2>0, <2>2, <3>1
    <3> QED
      BY <2>0, <3>1, <3>2
  <2>3. CASE r = p /\ ~(attempts[r] + 1 >= MaxLaunches)
    <3>1. attempts'[r] = attempts[r] + 1 /\ throttled'[r] = FALSE
          /\ burst'[r] = IF throttled[r] THEN 1 ELSE burst[r] + 1
      BY <1>3, <1>4, <1>5, <2>3
    <3> QED
      BY <2>0, <2>3, <3>1
  <2> QED
    BY <2>1, <2>2, <2>3
<1>8. /\ status' \in [Packages -> Statuses]
      /\ proc' \in [Packages -> {"gone", "up", "ingame"}]
  BY <1>2, <1>4 DEF Statuses
<1>9. target' \in 0..N /\ active' \in 0..N
  BY <1>1, <1>2, PackagesPositive
<1>10. RelayTypeOK'
  BY <1>1, <1>2, <1>6, <1>8, <1>9 DEF RelayInv, RelayTypeOK, Steps
<1>11. QueueInv'
  BY <1>1, <1>2 DEF RelayInv, QueueInv
<1>12. RelayNeverLocked' /\ StepInv'
  BY <1>1, <1>2, PackagesPositive DEF RelayInv, RelayNeverLocked, StepInv
<1> QED
  BY <1>7, <1>10, <1>11, <1>12 DEF RelayInv

LEMMA LaunchSucceedsInv ==
    ASSUME RelayAssumption, RelayInv, LaunchSucceeds PROVE RelayInv'
<1> USE DEF LaunchSucceeds
<1>1. /\ target \in Packages /\ queue \in Seq(Packages) /\ Distinct(queue)
      /\ dead \in [Packages -> BOOLEAN]
      /\ proc \in [Packages -> {"gone", "up", "ingame"}]
      /\ back \in {"detect", "focusDead", "advance"}
  BY DEF RelayInv, RelayTypeOK, QueueInv, StepInv
<1>2. /\ queue' \in Seq(Packages) /\ Distinct(queue')
      /\ \A p : Holds(queue', p) => Holds(queue, p)
  BY <1>1, RemovalOf
<1>3. proc' \in [Packages -> {"gone", "up", "ingame"}] /\ dead' \in [Packages -> BOOLEAN]
  <2>1. PICK result \in {"up", "gone"} : proc' = [proc EXCEPT ![target] = result]
    OBVIOUS
  <2> QED
    BY <1>1, <2>1
<1>4. active' = 0 /\ active' \in 0..N /\ paused' = FALSE /\ pc' = "note"
  BY DEF Resume, RelayAssumption
<1>5. RelayTypeOK'
  BY <1>2, <1>3, <1>4 DEF RelayInv, RelayTypeOK, Steps, throttleVars
<1>6. QueueInv'
  <2>1. \A p : Holds(queue, p) => p \in Packages
    BY <1>1 DEF Holds
  <2> QED
    BY <1>2, <1>4, <2>1, PackagesPositive DEF RelayInv, QueueInv
<1>7. LaunchCount'
  BY DEF RelayInv, LaunchCount, throttleVars
<1> QED
  BY <1>1, <1>4, <1>5, <1>6, <1>7 DEF RelayInv, RelayNeverLocked, StepInv

LEMMA NoteLaunchInv ==
    ASSUME RelayAssumption, RelayInv, NoteLaunch PROVE RelayInv'
<1> USE DEF NoteLaunch
<1>1. /\ idx \in Packages /\ target \in Packages /\ back \in {"detect", "focusDead", "advance"}
      /\ active = 0
      /\ row \in [Packages -> {"RELAUNCHING", "ONLINE", "DISCONNECTED", "DEAD", "FAILED"}]
      /\ age \in [Packages -> 0..2] /\ status \in [Packages -> Statuses]
  BY DEF RelayInv, RelayTypeOK, StepInv
<1>2. /\ idx' \in Packages /\ pc' \in {"apply", "refresh", "detect", "focusDead"}
      /\ target' = 0 /\ back' = "none"
  BY <1>1, ReturnSteps
<1>3. target' \in 0..N /\ paused' = FALSE
  BY <1>2 DEF RelayAssumption, Resume
<1>4. /\ row' \in [Packages -> {"RELAUNCHING", "ONLINE", "DISCONNECTED", "DEAD", "FAILED"}]
      /\ status' \in [Packages -> Statuses]
  BY <1>1 DEF Statuses
<1>5. age' \in [Packages -> 0..2]
  BY <1>1
<1>6. RelayTypeOK'
  BY <1>2, <1>3, <1>4, <1>5 DEF RelayInv, RelayTypeOK, Steps, throttleVars
<1>7. QueueInv'
  BY DEF RelayInv, QueueInv
<1>8. LaunchCount'
  BY DEF RelayInv, LaunchCount, throttleVars
<1> QED
  BY <1>1, <1>2, <1>3, <1>6, <1>7, <1>8 DEF RelayInv, RelayNeverLocked, StepInv

\* A package given up, after a failed launch or after a refused one.
LEMMA AbandonSteps ==
    ASSUME RelayAssumption, RelayInv, NEW p \in Packages, Abandon(p)
    PROVE  /\ abandoned' \subseteq Packages
           /\ queue' \in Seq(Packages)
           /\ QueueInv'
           /\ active' = 0 /\ active' \in 0..N /\ stageFailed' = TRUE /\ paused' = FALSE
           /\ pc' = "next" /\ target' = 0 /\ target' \in 0..N
           /\ idx' = idx /\ back' = back
<1> USE DEF Abandon
<1>1. queue \in Seq(Packages) /\ Distinct(queue) /\ abandoned \subseteq Packages
  BY DEF RelayInv, RelayTypeOK, QueueInv
<1> DEFINE w == Without(queue, p)
           given == abandoned \cup {p}
<1>2. /\ w \in Seq(Packages) /\ Distinct(w)
      /\ \A r : Holds(w, r) => Holds(queue, r) /\ r # p
  BY <1>1, RemovalOf
<1>3. queue' \in Synced(w, given, dead, 0)
  OBVIOUS
<1> HIDE DEF w
<1>4. /\ queue' \in Seq(Packages) /\ Distinct(queue')
      /\ \A r : Holds(queue', r) =>
           Holds(w, r) \/ (r \in Packages /\ dead[r] /\ r \notin given /\ r # 0)
  <2> HIDE DEF given
  <2> QED
    BY <1>2, <1>3, SyncOf
<1>5. \A r : Holds(queue', r) => r \notin given /\ r # 0
  <2>1. \A r : Holds(queue, r) => r \in Packages /\ r \notin abandoned
    BY <1>1 DEF Holds, RelayInv, QueueInv
  <2> QED
    BY <1>2, <1>4, <2>1, PackagesPositive
<1>6. /\ active' = 0 /\ stageFailed' = TRUE /\ paused' = FALSE /\ abandoned' = given
      /\ pc' = "next" /\ target' = 0 /\ idx' = idx /\ back' = back
  BY DEF Resume
<1>7. 0 \in 0..N
  BY DEF RelayAssumption
<1>8. QueueInv'
  BY <1>4, <1>5, <1>6 DEF QueueInv, Distinct, Holds
<1> QED
  BY <1>1, <1>4, <1>6, <1>7, <1>8

LEMMA LaunchFailsInv ==
    ASSUME RelayAssumption, RelayInv, LaunchFails PROVE RelayInv'
<1> USE DEF LaunchFails
<1>1. /\ target \in Packages /\ back \in {"detect", "focusDead", "advance"}
      /\ status \in [Packages -> Statuses]
  BY DEF RelayInv, RelayTypeOK, StepInv
<1>2. /\ abandoned' \subseteq Packages /\ queue' \in Seq(Packages) /\ QueueInv'
      /\ active' = 0 /\ active' \in 0..N /\ stageFailed' = TRUE /\ paused' = FALSE
      /\ pc' = "next" /\ target' = 0 /\ target' \in 0..N
      /\ idx' = idx /\ back' = back
  BY <1>1, AbandonSteps
<1>3. status' \in [Packages -> Statuses]
  BY <1>1 DEF Statuses
<1>4. RelayTypeOK'
  BY <1>2, <1>3 DEF RelayInv, RelayTypeOK, Steps, throttleVars, packageVars
<1>5. LaunchCount'
  BY DEF RelayInv, LaunchCount, throttleVars
<1> QED
  BY <1>1, <1>2, <1>4, <1>5 DEF RelayInv, RelayNeverLocked, StepInv

LEMMA WakeInv ==
    ASSUME RelayAssumption, RelayInv, Wake PROVE RelayInv'
<1> USE DEF Wake
<1>1. /\ target \in Packages /\ back \in {"detect", "focusDead", "advance"} /\ idx \in Packages
      /\ active = 0 /\ throttled[target]
      /\ throttled \in [Packages -> BOOLEAN] /\ burst \in [Packages -> Nat]
      /\ attempts \in [Packages -> Nat] /\ LaunchCount
  BY DEF RelayInv, RelayTypeOK, StepInv
<1>2. throttled' = [throttled EXCEPT ![target] = FALSE] /\ burst' = [burst EXCEPT ![target] = 0]
      /\ attempts' = attempts
  OBVIOUS
<1>3. throttled' \in [Packages -> BOOLEAN] /\ burst' \in [Packages -> Nat]
  BY <1>1, <1>2
<1>4. LaunchCount'
  <2> SUFFICES ASSUME NEW r \in Packages
               PROVE  /\ attempts'[r] < MaxLaunches
                      /\ throttled'[r] => attempts'[r] = 0
                      /\ burst'[r] = IF throttled'[r] THEN MaxLaunches ELSE attempts'[r]
    BY DEF LaunchCount
  <2>1. CASE r = target
    BY <1>1, <1>2, <2>1 DEF LaunchCount
  <2>2. CASE r # target
    <3>1. attempts'[r] = attempts[r] /\ throttled'[r] = throttled[r] /\ burst'[r] = burst[r]
      BY <1>1, <1>2, <2>2
    <3> QED
      BY <1>1, <3>1 DEF LaunchCount
  <2> QED
    BY <2>1, <2>2
<1>5. CASE stageFailed
  <2>1. /\ abandoned' \subseteq Packages /\ queue' \in Seq(Packages) /\ QueueInv'
        /\ active' = 0 /\ active' \in 0..N /\ stageFailed' = TRUE /\ paused' = FALSE
        /\ pc' = "next" /\ target' = 0 /\ target' \in 0..N
        /\ idx' = idx /\ back' = back
    BY <1>1, <1>5, AbandonSteps
  <2>2. RelayTypeOK'
    BY <1>3, <2>1 DEF RelayInv, RelayTypeOK, Steps, packageVars
  <2> QED
    BY <1>1, <1>4, <2>1, <2>2 DEF RelayInv, RelayNeverLocked, StepInv
<1>6. CASE ~stageFailed
  <2>1. Resume /\ Return /\ UNCHANGED <<abandoned, queue, active, stageFailed>>
    BY <1>6
  <2>2. /\ idx' \in Packages /\ pc' \in {"apply", "refresh", "detect", "focusDead"}
        /\ target' = 0 /\ back' = "none"
    BY <1>1, <2>1, ReturnSteps
  <2>3. target' \in 0..N /\ paused' = FALSE
    BY <2>1, <2>2 DEF RelayAssumption, Resume
  <2>4. RelayTypeOK'
    BY <1>3, <2>1, <2>2, <2>3 DEF RelayInv, RelayTypeOK, Steps, packageVars
  <2>5. QueueInv'
    BY <2>1 DEF RelayInv, QueueInv
  <2> QED
    BY <1>1, <1>4, <2>1, <2>2, <2>3, <2>4, <2>5 DEF RelayInv, RelayNeverLocked, StepInv
<1> QED
  BY <1>5, <1>6

LEMMA StutterInv == ASSUME RelayInv, UNCHANGED relayVars PROVE RelayInv'
<1>1. RelayTypeOK'
  BY DEF RelayInv, RelayTypeOK, relayVars, packageVars, pointerVars, supervisorVars, throttleVars,
         stepVars
<1> QED
  BY <1>1 DEF RelayInv, RelayNeverLocked, QueueInv, StepInv, LaunchCount, Distinct, Holds,
              relayVars, pointerVars, supervisorVars, throttleVars, stepVars

LEMMA RelayNextInv ==
    ASSUME RelayAssumption, RelayInv, [RelayNext]_relayVars PROVE RelayInv'
<1>1. CASE Recovery
  BY <1>1, NothingQueuedInv, FallAsleepInv, BeginRecoveryInv, LaunchSucceedsInv, NoteLaunchInv,
     LaunchFailsInv, WakeInv DEF Recovery
<1>2. CASE Round
  BY <1>2, RefreshEvidenceInv, TickRoundStartInv, DetectAllInv, ApplyVerdictInv DEF Round
<1>3. CASE Focus
  BY <1>3, FocusStepsInv
<1>4. CASE \E p \in Packages : DeadLane(p) \/ World(p)
  BY <1>4, PackagesInv
<1>5. CASE UNCHANGED relayVars
  BY <1>5, StutterInv
<1> QED
  BY <1>1, <1>2, <1>3, <1>4, <1>5 DEF RelayNext, Watchdog

-----------------------------------------------------------------------------
(* The inductive invariant of the relay: what the properties below rest    *)
(* on, with the locals of every step of the watchdog and the exact count   *)
(* of the relaunches since the last pause.                                 *)
THEOREM RelayInvariance == RelaySpec => []RelayInv
<1>1. RelayInit => RelayInv
  BY RelayInitInv, RelayAssumption
<1>2. RelayInv /\ [RelayNext]_relayVars => RelayInv'
  BY RelayNextInv, RelayAssumption
<1> QED
  BY <1>1, <1>2, PTL DEF RelaySpec

(* Every variable of the relay keeps its type.                             *)
THEOREM RelayTypeCorrect == RelaySpec => []RelayTypeOK
<1>1. RelayInv => RelayTypeOK
  BY DEF RelayInv
<1> QED
  BY <1>1, RelayInvariance, PTL

(* No way out of a recovery, failed and refused ones included, leaves the  *)
(* relay owned or checking paused.                                         *)
THEOREM RelayIsNeverLocked == RelaySpec => []RelayNeverLocked
<1>1. RelayInv => RelayNeverLocked
  BY DEF RelayInv
<1> QED
  BY <1>1, RelayInvariance, PTL

(* The queue never holds a package twice, an abandoned one or the one that *)
(* is being recovered.                                                     *)
THEOREM QueueIsDisciplined == RelaySpec => []QueueDiscipline
<1>1. RelayInv => QueueDiscipline
  BY DEF RelayInv, QueueInv, QueueDiscipline, Distinct, Holds
<1> QED
  BY <1>1, RelayInvariance, PTL

(* However its deaths and the sleeps of its throttle are interleaved, a    *)
(* package is relaunched at most MaxLaunches times in a row.               *)
THEOREM BurstsAreBounded == RelaySpec => []BurstBounded
<1>1. ASSUME RelayInv PROVE BurstBounded
  <2> SUFFICES ASSUME NEW p \in Packages PROVE burst[p] <= MaxLaunches
    BY DEF BurstBounded
  <2>1. /\ attempts[p] < MaxLaunches /\ attempts[p] \in Nat /\ MaxLaunches \in Nat
        /\ burst[p] = IF throttled[p] THEN MaxLaunches ELSE attempts[p]
    BY <1>1, RelayAssumption DEF RelayInv, RelayTypeOK, LaunchCount, RelayAssumption
  <2> QED
    BY <2>1
<1> QED
  BY <1>1, RelayInvariance, PTL

(* Whoever queues a package, it is committed Dead when it gets there.      *)
THEOREM OnlyDeadEverQueued == RelaySpec => OnlyDeadIsQueued
<1> DEFINE Step == \A p \in Packages : InQueue(p)' /\ ~InQueue(p) => dead'[p]
<1>1. ASSUME RelayAssumption, RelayInv, [RelayNext]_relayVars PROVE Step
  <2> SUFFICES ASSUME NEW p \in Packages, Holds(queue', p), ~Holds(queue, p) PROVE dead'[p]
    BY DEF InQueue, Holds
  <2>0. /\ queue \in Seq(Packages) /\ Distinct(queue) /\ idx \in Packages
        /\ dead \in [Packages -> BOOLEAN]
    BY <1>1 DEF RelayInv, RelayTypeOK, QueueInv
  <2>1. queue' # queue
    OBVIOUS
  <2>2. ASSUME queue' = Enqueued(idx) PROVE p = idx
    BY <2>0, <2>2, AppendOf
  <2>3. CASE TickRoundStart
    BY <1>1, <2>0, <2>3, SyncOf DEF TickRoundStart
  <2>4. CASE FocusKnownDead \/ WindowFindsGone \/ (WindowEndsSilent /\ FocusOnDead)
    <3>1. FocusOnDead
      BY <2>4 DEF FocusKnownDead, WindowFindsGone
    <3> QED
      BY <2>0, <2>2, <3>1 DEF FocusOnDead, MarkDead, CommitDead
  <2>5. CASE HandleFocusDead
    BY <2>0, <2>2, <2>5 DEF HandleFocusDead, MarkDead, CommitDead
  <2>6. ASSUME NEW q \in Packages, Abandon(q), dead' = dead PROVE dead'[p]
    <3> DEFINE w == Without(queue, q)
               given == abandoned \cup {q}
    <3>1. w \in Seq(Packages) /\ Distinct(w) /\ (\A r : Holds(w, r) => Holds(queue, r))
      BY <2>0, RemovalOf
    <3>2. queue' \in Synced(w, given, dead, 0)
      BY <2>6 DEF Abandon
    <3> HIDE DEF w, given
    <3> QED
      BY <1>1, <2>6, <3>1, <3>2, SyncOf
  <2>7. CASE LaunchFails
    BY <1>1, <2>6, <2>7 DEF LaunchFails, RelayInv, StepInv
  <2>8. CASE Wake
    BY <1>1, <2>1, <2>6, <2>8 DEF Wake, RelayInv, StepInv
  <2>9. CASE NothingQueued
    BY <2>9 DEF NothingQueued, Holds
  <2>10. ASSUME NEW i \in 1..Len(queue), Dequeue(i) PROVE FALSE
    BY <1>1, <2>10, DequeueSteps
  <2>11. CASE LaunchSucceeds
    BY <2>0, <2>11, RemovalOf DEF LaunchSucceeds
  <2>12. CASE \E i \in 1..Len(queue) : FallAsleep(i) \/ BeginRecovery(i)
    BY <2>10, <2>12 DEF FallAsleep, BeginRecovery
  <2>13. CASE \/ NoteLaunch \/ RefreshEvidence \/ DetectAll \/ ApplyVerdict \/ SkipFocus
              \/ WindowSeesOnline \/ (WindowEndsSilent /\ CommitAlive)
              \/ UNCHANGED relayVars \/ \E q \in Packages : DeadLane(q) \/ World(q)
    <3>1. queue' = queue
      BY <2>13 DEF NoteLaunch, RefreshEvidence, DetectAll, ApplyVerdict, SkipFocus,
            WindowSeesOnline, CommitAlive, relayVars, pointerVars, DeadLane, World,
            LaneLooks, LaneMarks, Crash, GoesQuiet, Kick, Reopens, ConfirmOnline
    <3> QED
      BY <2>1, <3>1
  <2>14. CASE WindowEndsSilent
    BY <2>4, <2>13, <2>14 DEF WindowEndsSilent
  <2> QED
    BY <1>1, <2>3, <2>4, <2>5, <2>7, <2>8, <2>9, <2>11, <2>12, <2>13, <2>14
       DEF RelayNext, Watchdog, Recovery, Round, Focus
<1>2. RelayInv /\ [RelayNext]_relayVars => [Step]_relayVars
  BY <1>1, RelayAssumption
<1> QED
  BY <1>2, RelayInvariance, PTL DEF RelaySpec, OnlyDeadIsQueued

-----------------------------------------------------------------------------
(* The desk *)

Serving == IF pc \in {"asleep", "launch"} THEN target ELSE 0

DeskStep == Desk!Join \/ Desk!Serve \/ Desk!Finish \/ Desk!GiveUp

\* What is added behind the queue is new to it and may join it.
LEMMA JoinsAllowed ==
    ASSUME RelayAssumption, RelayInv, RelayInv', Begins(queue, queue'), Serving' = 0
    PROVE  Desk!JoinsBehind(queue)
<1>1. queue' \in Seq(Packages) /\ Distinct(queue')
  BY DEF RelayInv, RelayTypeOK, QueueInv
<1>2. \A i \in 1..Len(queue') : queue'[i] \in Packages /\ queue'[i] \notin abandoned'
  <2>1. \A i \in 1..Len(queue') : queue'[i] \in Packages
    BY <1>1
  <2> QED
    BY <2>1 DEF RelayInv, QueueInv, Holds
<1>3. Len(queue) \in Nat /\ Len(queue') \in Nat
  BY <1>1 DEF RelayInv, RelayTypeOK
<1>4. ASSUME NEW i \in (Len(queue) + 1)..Len(queue')
      PROVE  /\ queue'[i] \in Packages \ (abandoned' \cup {Serving'})
             /\ \A j \in 1..(i - 1) : queue'[j] # queue'[i]
  <2>1. i \in 1..Len(queue') /\ \A j \in 1..(i - 1) : j \in 1..Len(queue') /\ j # i
    BY <1>3
  <2>2. queue'[i] # 0
    BY <1>2, <2>1, PackagesPositive
  <2> QED
    BY <1>1, <1>2, <2>1, <2>2 DEF Distinct
<1> QED
  BY <1>4 DEF Begins, Desk!JoinsBehind, Serving

\* The steps that move neither the queue nor the desk ...
QuietStep ==
    \/ NoteLaunch \/ RefreshEvidence \/ DetectAll \/ ApplyVerdict \/ SkipFocus
    \/ WindowSeesOnline \/ (WindowEndsSilent /\ CommitAlive)
    \/ \E p \in Packages : DeadLane(p) \/ World(p)
    \/ UNCHANGED relayVars

\* ... those that queue the package in focus ...
FocusQueues ==
    HandleFocusDead \/ FocusKnownDead \/ WindowFindsGone \/ (WindowEndsSilent /\ FocusOnDead)

\* ... and the rest.
LEMMA RelayCases ==
    ASSUME [RelayNext]_relayVars
    PROVE  \/ QuietStep \/ FocusQueues \/ TickRoundStart \/ NothingQueued
           \/ \E i \in 1..Len(queue) : FallAsleep(i) \/ BeginRecovery(i)
           \/ LaunchSucceeds \/ LaunchFails \/ Wake
<1>1. WindowEndsSilent => CommitAlive \/ FocusOnDead
  BY DEF WindowEndsSilent
<1> QED
  BY <1>1 DEF RelayNext, Watchdog, Recovery, Round, Focus, QuietStep, FocusQueues

LEMMA QuietSteps ==
    ASSUME RelayAssumption, RelayInv, QuietStep
    PROVE  /\ UNCHANGED <<queue, abandoned>>
           /\ UNCHANGED <<pc, target>> \/ {pc, pc'} \cap {"asleep", "launch"} = {}
<1>1. /\ idx \in Packages
      /\ pc = "note" => back \in {"detect", "focusDead", "advance"}
  BY DEF RelayInv, RelayTypeOK, StepInv
<1>2. NextTurn => pc' \in {"apply", "refresh"}
  BY <1>1, NextTurnSteps
<1>3. CASE NoteLaunch
  BY <1>1, <1>3, ReturnSteps DEF NoteLaunch
<1>4. CASE RefreshEvidence \/ DetectAll \/ ApplyVerdict
  BY <1>4 DEF RefreshEvidence, DetectAll, ApplyVerdict
<1>5. CASE SkipFocus
  BY <1>2, <1>5 DEF SkipFocus, pointerVars
<1>6. CASE WindowSeesOnline \/ (WindowEndsSilent /\ CommitAlive)
  BY <1>2, <1>6 DEF WindowSeesOnline, WindowEndsSilent, CommitAlive, InWindow
<1>7. CASE \/ \E p \in Packages : DeadLane(p) \/ World(p)
           \/ UNCHANGED relayVars
  BY <1>7 DEF DeadLane, World, LaneLooks, LaneMarks, Crash, GoesQuiet, Kick, Reopens,
              ConfirmOnline, relayVars, pointerVars, supervisorVars, stepVars
<1> QED
  BY <1>3, <1>4, <1>5, <1>6, <1>7 DEF QuietStep

LEMMA FocusQueuesSteps ==
    ASSUME RelayInv, FocusQueues
    PROVE  /\ Begins(queue, queue') /\ UNCHANGED abandoned
           /\ pc \in {"focus", "focusDead"} /\ pc' = "next"
<1>1. idx \in Packages /\ queue \in Seq(Packages) /\ Distinct(queue)
  BY DEF RelayInv, RelayTypeOK, QueueInv
<1>2. Begins(queue, Enqueued(idx))
  BY <1>1, AppendOf
<1>3. CASE HandleFocusDead
  BY <1>2, <1>3 DEF HandleFocusDead, MarkDead
<1>4. CASE ~HandleFocusDead
  <2>1. FocusOnDead /\ pc = "focus"
    BY <1>4 DEF FocusQueues, FocusKnownDead, WindowFindsGone, WindowEndsSilent, InWindow
  <2> QED
    BY <1>2, <2>1 DEF FocusOnDead, MarkDead
<1> QED
  BY <1>3, <1>4

\* While the throttle of a package is slept out, the package is not queued.
SleepInv == pc = "asleep" => ~Holds(queue, target)

LEMMA SleepInvHolds == RelaySpec => []SleepInv
<1>1. RelayInit => SleepInv
  BY DEF RelayInit, SleepInv
<1>2. ASSUME RelayInv, SleepInv, [RelayNext]_relayVars
      PROVE  SleepInv'
  <2>1. CASE QuietStep
    BY <1>2, <2>1, QuietSteps, RelayAssumption DEF SleepInv, Holds
  <2>2. CASE FocusQueues
    BY <1>2, <2>2, FocusQueuesSteps DEF SleepInv
  <2>3. CASE \E i \in 1..Len(queue) : FallAsleep(i)
    <3>1. PICK i \in 1..Len(queue) : FallAsleep(i)
      BY <2>3
    <3>2. Dequeue(i) /\ target' = queue[i]
      BY <3>1 DEF FallAsleep, Dequeue
    <3> QED
      BY <1>2, <3>2, DequeueSteps, RelayAssumption DEF SleepInv
  <2>4. CASE TickRoundStart \/ LaunchSucceeds \/ \E i \in 1..Len(queue) : BeginRecovery(i)
    BY <2>4 DEF TickRoundStart, LaunchSucceeds, BeginRecovery, SleepInv
  <2>5. CASE NothingQueued \/ LaunchFails \/ Wake
    <3>1. Abandon(target) => pc' = "next"
      BY DEF Abandon
    <3>2. CASE Return
      <4>1. idx \in Packages /\ back \in {"detect", "focusDead", "advance"}
        BY <1>2, <2>5 DEF RelayInv, RelayTypeOK, StepInv, NothingQueued, LaunchFails, Wake
      <4> QED
        BY <3>2, <4>1, ReturnSteps, RelayAssumption DEF SleepInv
    <3> QED
      BY <2>5, <3>1, <3>2 DEF NothingQueued, LaunchFails, Wake, SleepInv
  <2> QED
    BY <1>2, <2>1, <2>2, <2>3, <2>4, <2>5, RelayCases
<1> QED
  BY <1>1, <1>2, RelayInvariance, PTL DEF RelaySpec

\* Nothing stands before the first of the queue.
LEMMA DeskServes ==
    ASSUME RelayAssumption, RelayInv, NEW i \in 1..Len(queue),
           FallAsleep(i) \/ BeginRecovery(i)
    PROVE  Desk!Serve
<1>1. /\ Dequeue(i) /\ pc = "next" /\ pc' \in {"asleep", "launch"} /\ abandoned' = abandoned
      /\ queue \in Seq(Packages)
  BY DEF FallAsleep, BeginRecovery, Dequeue, RelayInv, RelayTypeOK
<1>2. i = 1
  <2> SUFFICES ASSUME i # 1 PROVE FALSE
    OBVIOUS
  <2>1. 1 \in 1..(i - 1) /\ 1 \in 1..Len(queue)
    BY <1>1
  <2>2. queue[1] \in abandoned
    BY <1>1, <2>1 DEF Dequeue, IsHead
  <2> QED
    BY <2>1, <2>2 DEF RelayInv, QueueInv, Holds
<1>3. queue # << >> /\ target' = Head(queue)
  BY <1>1, <1>2 DEF Dequeue
<1>4. queue' = Tail(queue)
  BY <1>1, <1>2, <1>3 DEF Dequeue
<1> QED
  BY <1>1, <1>3, <1>4 DEF Desk!Serve

\* A package that is given up was not queued, and those the sync adds may be.
LEMMA DeskGivesUp ==
    ASSUME RelayAssumption, RelayInv, RelayInv', pc \in {"asleep", "launch"},
           target \in Packages, ~Holds(queue, target), Abandon(target)
    PROVE  Desk!GiveUp
<1>1. Without(queue, target) = queue
  BY DEF Without, Holds
<1>2. queue \in Seq(Packages) /\ Distinct(queue)
  BY DEF RelayInv, RelayTypeOK, QueueInv
<1>3. /\ queue' \in Synced(queue, abandoned \cup {target}, dead, 0)
      /\ abandoned' = abandoned \cup {target} /\ pc' = "next"
  BY <1>1 DEF Abandon
<1>4. Begins(queue, queue')
  BY <1>2, <1>3, SyncOf
<1>5. Desk!JoinsBehind(queue)
  BY <1>3, <1>4, JoinsAllowed DEF Serving
<1> QED
  BY <1>3, <1>5, PackagesPositive DEF Desk!GiveUp

LEMMA DeskSteps ==
    ASSUME RelayAssumption, RelayInv, SleepInv, RelayInv', [RelayNext]_relayVars
    PROVE  [DeskStep]_(Desk!deskVars)
<1> USE DEF DeskStep
<1>1. CASE QuietStep
  BY <1>1, QuietSteps DEF Desk!deskVars
<1>2. CASE FocusQueues
  <2>1. Begins(queue, queue') /\ UNCHANGED abandoned /\ Serving = 0 /\ Serving' = 0
    BY <1>2, FocusQueuesSteps DEF Serving
  <2> QED
    BY <2>1, JoinsAllowed DEF Desk!Join, Serving
<1>3. CASE TickRoundStart
  <2>1. queue \in Seq(Packages) /\ Distinct(queue)
    BY DEF RelayInv, RelayTypeOK, QueueInv
  <2>2. Begins(queue, queue') /\ UNCHANGED abandoned /\ Serving = 0 /\ Serving' = 0
    BY <1>3, <2>1, SyncOf DEF TickRoundStart, Serving
  <2> QED
    BY <2>2, JoinsAllowed DEF Desk!Join, Serving
<1>4. CASE NothingQueued
  <2>1. queue \in Seq(Packages) /\ \A i \in 1..Len(queue) : queue[i] \notin abandoned
    BY DEF RelayInv, RelayTypeOK, QueueInv, Holds
  <2>2. queue = << >>
    BY <1>4, <2>1 DEF NothingQueued
  <2>3. pc = "next" /\ pc' \in {"apply", "refresh", "detect", "focusDead"}
    BY <1>4, ReturnSteps DEF NothingQueued, RelayInv, RelayTypeOK, StepInv
  <2> QED
    BY <1>4, <2>2, <2>3 DEF NothingQueued, Desk!deskVars
<1>5. CASE \E i \in 1..Len(queue) : FallAsleep(i) \/ BeginRecovery(i)
  BY <1>5, DeskServes
<1>6. ASSUME pc = "launch"
      PROVE  target \in Packages /\ ~Holds(queue, target)
  BY <1>6, PackagesPositive DEF RelayInv, StepInv, RelayNeverLocked, QueueInv
<1>7. CASE LaunchSucceeds
  <2>1. pc = "launch" /\ pc' = "note" /\ UNCHANGED abandoned
    BY <1>7 DEF LaunchSucceeds
  <2>2. queue' = queue
    BY <1>6, <1>7, <2>1 DEF LaunchSucceeds, Without, Holds
  <2> QED
    BY <1>6, <2>1, <2>2, PackagesPositive DEF Desk!Finish
<1>8. CASE LaunchFails
  BY <1>6, <1>8, DeskGivesUp DEF LaunchFails
<1>9. CASE Wake
  <2>1. pc = "asleep" /\ target \in Packages /\ ~Holds(queue, target)
    BY <1>9 DEF Wake, RelayInv, StepInv, SleepInv
  <2>2. CASE stageFailed
    BY <1>9, <2>1, <2>2, DeskGivesUp DEF Wake
  <2>3. CASE ~stageFailed
    <3>1. pc' \in {"apply", "refresh", "detect", "focusDead"} /\ UNCHANGED <<queue, abandoned>>
      BY <1>9, <2>3, ReturnSteps DEF Wake, RelayInv, RelayTypeOK, StepInv
    <3> QED
      BY <2>1, <3>1, PackagesPositive DEF Desk!Finish
  <2> QED
    BY <2>2, <2>3
<1> QED
  BY <1>1, <1>2, <1>3, <1>4, <1>5, <1>7, <1>8, <1>9, RelayCases

(* For any number of packages, and however focus, hand-off, sync, refused  *)
(* and failed launches are interleaved, the recovery queue is a line: who  *)
(* joins it first is served first, and leaves it in no other way.          *)
THEOREM RefinesDesk == RelaySpec => ServedInOrder
<1>1. RelayInit => Desk!DeskInit
  BY DEF RelayInit, Desk!DeskInit
<1>2. RelayInv /\ SleepInv /\ RelayInv' /\ [RelayNext]_relayVars
      => [DeskStep]_(Desk!deskVars)
  BY DeskSteps, RelayAssumption
<1> QED
  BY <1>1, <1>2, RelayInvariance, SleepInvHolds, PTL
     DEF RelaySpec, ServedInOrder, Desk!DeskSpec, DeskStep
=============================================================================
