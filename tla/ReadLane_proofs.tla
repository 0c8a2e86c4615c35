--------------------------- MODULE ReadLane_proofs ---------------------------
(***************************************************************************)
(* Proofs about ReadLane, for any number of accounts, workers and commits, *)
(* any batch size and any way the contents repeat.                         *)
(***************************************************************************)
EXTENDS ReadLane, FiniteSetTheorems, TLAPS

\* No copy is ahead of what it was taken from: browser, cache, probe, row.
Order(k) ==
    /\ row[k].body <= row[k].presence
    /\ cache[k].body <= row[k].body /\ cache[k].presence <= row[k].presence
    /\ shown[k].body <= row[k].body /\ shown[k].presence <= row[k].presence
    /\ Cached(k) => /\ shown[k].body <= cache[k].body
                    /\ shown[k].presence <= cache[k].presence
    /\ k \in DOMAIN probe =>
          /\ cache[k].presence <= probe[k].presence
          /\ shown[k].presence <= probe[k].presence
          /\ probe[k] = row[k] \/ probe[k].presence < row[k].presence

OrderInv == \A k \in Accounts : Order(k)

\* The next refresh will ask for the account, whatever this one still passes.
AskedForNext(k) ==
    /\ row[k].at >= watermark
    /\ \A j \in DOMAIN probe : row[k].at >= probe[j].at

AwaitedNow(k) == k \in DOMAIN probe /\ probe[k] = row[k]

MissInv ==
    \A k \in Accounts \ overtaken :
        Cached(k) \/ k \in DOMAIN probe => Current(k) \/ AskedForNext(k) \/ AwaitedNow(k)

ReadInv == ReadTypeOK /\ OrderInv /\ LabelsAreHonest /\ MissInv

-----------------------------------------------------------------------------
LEMMA ReadInitInv == ASSUME ReadAssumption, ReadInit PROVE ReadInv
<1>1. ReadTypeOK
  BY DEF ReadAssumption, ReadInit, ReadTypeOK, NoRow, NoEntry, NoWrite, NoProbe, Boot,
         Accounts, Commits, Rows, Entries
<1>2. OrderInv /\ LabelsAreHonest /\ MissInv
  BY DEF ReadInit, OrderInv, Order, LabelsAreHonest, MissInv, Cached, Honest,
         NoRow, NoEntry, NoProbe
<1> QED
  BY <1>1, <1>2 DEF ReadInv

-----------------------------------------------------------------------------
(* Rows and entries *)

LEMMA RowFields ==
    ASSUME ReadAssumption, clock \in Nat, NEW r \in Rows
    PROVE  /\ r.body \in Commits /\ r.presence \in Commits
           /\ r.body \in Nat /\ r.presence \in Nat /\ r.at \in Nat /\ r.at <= clock
  BY DEF ReadAssumption, Rows, Commits

LEMMA EntryFields ==
    ASSUME ReadAssumption, NEW e \in Entries
    PROVE  /\ e.body \in Commits /\ e.presence \in Commits /\ e.label \in Nat
           /\ e.body \in Nat /\ e.presence \in Nat
  BY DEF ReadAssumption, Entries, Commits

LEMMA EntryMade ==
    ASSUME NEW b \in Commits, NEW h \in Nat, NEW p \in Commits
    PROVE  [body |-> b, label |-> h, presence |-> p] \in Entries
  BY DEF Entries

LEMMA HashType == ASSUME ReadAssumption, NEW b \in Commits PROVE HashOf[b] \in Nat
  BY DEF ReadAssumption, Commits

\* ingestRow of a row.
LEMMA EntryOfRow ==
    ASSUME ReadAssumption, clock \in Nat, NEW r \in Rows
    PROVE  /\ EntryOf(r) \in Entries /\ Honest(EntryOf(r))
           /\ EntryOf(r).body = r.body /\ EntryOf(r).presence = r.presence
           /\ EntryOf(r).label = HashOf[r.body]
  BY RowFields, HashType, EntryMade DEF EntryOf, Honest

\* An entry that is given another presence.
LEMMA EntryWith ==
    ASSUME ReadAssumption, NEW e \in Entries, NEW p \in Commits
    PROVE  LET f == [e EXCEPT !.presence = p]
           IN  /\ f \in Entries
               /\ f.body = e.body /\ f.label = e.label /\ f.presence = p
               /\ Honest(f) <=> Honest(e)
  BY DEF Entries, Honest

\* What a browser has after an answer.
LEMMA ReplyMade ==
    ASSUME NEW k \in Accounts, NEW e, Reply(k, e)
    PROVE  \/ shown' = shown
           \/ shown' = [shown EXCEPT ![k] = [shown[k] EXCEPT !.presence = e.presence]]
           \/ shown' = [shown EXCEPT ![k] = e]
<1>1. CASE k \in Viewed /\ shown[k].label = e.label
  BY <1>1 DEF Reply
<1> QED
  BY <1>1 DEF Reply

LEMMA CountType ==
    ASSUME ReadAssumption, NEW S \in SUBSET Accounts
    PROVE  Cardinality(S) \in Nat
<1>1. IsFiniteSet(1..N)
  BY FS_Interval DEF ReadAssumption
<1> QED
  BY <1>1, FS_Subset, FS_CardinalityType DEF Accounts

\* What the type invariant says of one account.
LEMMA OfAccount ==
    ASSUME ReadAssumption, ReadTypeOK
    PROVE  /\ clock \in Nat /\ watermark \in Nat /\ watermark <= clock
           /\ \A k \in Accounts : /\ row[k] \in Rows /\ cache[k] \in Entries
                                   /\ shown[k] \in Entries
           /\ \A k \in DOMAIN probe : k \in Accounts /\ probe[k] \in Rows
  BY DEF ReadAssumption, ReadTypeOK

-----------------------------------------------------------------------------
(* The steps of the read process, by what they do to the entries *)

LEMMA IngestInv ==
    ASSUME ReadAssumption, ReadInv, Idle, NEW S \in SUBSET Accounts, Ingest(S),
           UNCHANGED <<clock, row, writing, probe, raced>>,
           warm' \in [phase : {"boot", "load", "done"}, offset : Nat, total : Nat],
           \/ UNCHANGED shown
           \/ \E k \in S : Reply(k, EntryOf(row[k]))
    PROVE  ReadInv'
<1>0. ReadTypeOK /\ OrderInv /\ LabelsAreHonest /\ MissInv
  BY DEF ReadInv
<1>1. /\ clock \in Nat /\ watermark \in Nat /\ watermark <= clock
      /\ \A k \in Accounts :
            /\ row[k] \in Rows /\ cache[k] \in Entries /\ shown[k] \in Entries
            /\ row[k].at \in Nat /\ row[k].at <= clock
            /\ row[k].presence \in Commits
            /\ EntryOf(row[k]) \in Entries /\ Honest(EntryOf(row[k]))
            /\ EntryOf(row[k]).body = row[k].body
            /\ EntryOf(row[k]).presence = row[k].presence
            /\ EntryOf(row[k]).label = HashOf[row[k].body]
  BY <1>0, OfAccount, RowFields, EntryOfRow
<1>2. \A k \in Accounts : cache'[k] = IF k \in S THEN EntryOf(row[k]) ELSE cache[k]
  BY DEF Ingest
<1>3. /\ watermark' \in Nat /\ watermark' <= clock /\ watermark' >= watermark
      /\ \A k \in S : watermark' >= row[k].at
  <2>1. watermark' = watermark \/ \E k \in S : watermark' = row[k].at
    BY DEF Ingest
  <2> QED
    BY <1>1, <2>1 DEF Ingest
<1>4. /\ shown' \in [Accounts -> Entries]
      /\ \A k \in Accounts :
            \/ shown'[k] = shown[k]
            \/ /\ k \in S
               /\ \/ shown'[k] = [shown[k] EXCEPT !.presence = row[k].presence]
                  \/ shown'[k] = EntryOf(row[k])
  <2>0. shown \in [Accounts -> Entries]
    BY <1>0 DEF ReadTypeOK
  <2>1. CASE UNCHANGED shown
    BY <2>0, <2>1
  <2>2. CASE \E k \in S : Reply(k, EntryOf(row[k]))
    <3>1. PICK k \in S : Reply(k, EntryOf(row[k]))
      BY <2>2
    <3>2. \/ shown' = shown
          \/ shown' = [shown EXCEPT ![k] = [shown[k] EXCEPT !.presence = row[k].presence]]
          \/ shown' = [shown EXCEPT ![k] = EntryOf(row[k])]
      <4>1. EntryOf(row[k]).presence = row[k].presence
        BY <1>1
      <4> QED
        BY <3>1, <4>1, ReplyMade
    <3>3. [shown[k] EXCEPT !.presence = row[k].presence] \in Entries
      BY <1>1, EntryWith
    <3>4. CASE shown' = [shown EXCEPT ![k] = [shown[k] EXCEPT !.presence = row[k].presence]]
      <4> DEFINE f == [shown[k] EXCEPT !.presence = row[k].presence]
      <4>1. shown' = [shown EXCEPT ![k] = f] /\ f \in Entries
        BY <3>3, <3>4
      <4>2. shown' \in [Accounts -> Entries]
        <5> HIDE DEF f
        <5> QED
          BY <2>0, <4>1
      <4>3. shown'[k] = f /\ \A j \in Accounts \ {k} : shown'[j] = shown[j]
        <5> HIDE DEF f
        <5> QED
          BY <2>0, <4>1
      <4> QED
        BY <4>2, <4>3
    <3>5. CASE shown' = [shown EXCEPT ![k] = EntryOf(row[k])]
      BY <1>1, <2>0, <3>5
    <3> QED
      BY <2>0, <2>1, <3>2, <3>4, <3>5
  <2> QED
    BY <2>1, <2>2
<1>5. ReadTypeOK'
  <2>1. cache' \in [Accounts -> Entries]
    BY <1>1 DEF Ingest
  <2>2. overtaken' \subseteq Accounts
    BY <1>0 DEF Ingest, ReadTypeOK
  <2>3. Rows' = Rows /\ Entries' = Entries
    BY DEF Rows, Entries
  <2> QED
    BY <1>0, <1>1, <1>3, <1>4, <2>1, <2>2, <2>3 DEF ReadTypeOK
<1>6. OrderInv'
  <2> SUFFICES ASSUME NEW k \in Accounts PROVE Order(k)'
    BY DEF OrderInv
  <2>1. /\ row[k].body \in Nat /\ row[k].presence \in Nat
        /\ shown[k].body \in Nat /\ shown[k].presence \in Nat
        /\ cache[k].body \in Nat /\ cache[k].presence \in Nat
    BY <1>1, RowFields, EntryFields
  <2>2. Order(k) /\ row'[k] = row[k] /\ k \notin DOMAIN probe'
    BY <1>0 DEF OrderInv, Idle
  <2>3. CASE k \notin S
    BY <1>2, <1>4, <2>1, <2>2, <2>3 DEF Order, Cached
  <2>4. CASE k \in S
    <3>1. cache'[k].body = row[k].body /\ cache'[k].presence = row[k].presence
      BY <1>1, <1>2, <2>4
    <3>2. /\ shown'[k].body = shown[k].body \/ shown'[k].body = row[k].body
          /\ shown'[k].presence = shown[k].presence \/ shown'[k].presence = row[k].presence
      <4>1. CASE shown'[k] = [shown[k] EXCEPT !.presence = row[k].presence]
        BY <1>1, <4>1, EntryWith
      <4>2. CASE shown'[k] = EntryOf(row[k])
        BY <1>1, <4>2
      <4> QED
        BY <1>4, <4>1, <4>2
    <3> QED
      BY <2>1, <2>2, <3>1, <3>2 DEF Order, Cached
  <2> QED
    BY <2>3, <2>4
<1>7. LabelsAreHonest'
  <2> SUFFICES ASSUME NEW k \in Accounts \ raced
               PROVE  Honest(cache'[k]) /\ Honest(shown'[k])
    BY DEF LabelsAreHonest, Honest
  <2>1. Honest(cache[k]) /\ Honest(shown[k])
    BY <1>0 DEF LabelsAreHonest
  <2>2. Honest(cache'[k])
    BY <1>1, <1>2, <2>1
  <2>3. CASE shown'[k] = [shown[k] EXCEPT !.presence = row[k].presence]
    BY <1>1, <2>1, <2>2, <2>3, EntryWith
  <2>4. CASE shown'[k] = EntryOf(row[k])
    BY <1>1, <2>2, <2>4
  <2>5. CASE shown'[k] = shown[k]
    BY <2>1, <2>2, <2>5
  <2> QED
    BY <1>4, <2>3, <2>4, <2>5
<1>8. MissInv'
  <2> SUFFICES ASSUME NEW k \in Accounts \ overtaken', Cached(k)'
               PROVE  Current(k)' \/ AskedForNext(k)'
    BY DEF MissInv, Idle
  <2>1. CASE k \in S
    BY <1>1, <1>2, <2>1 DEF Current
  <2>2. CASE k \notin S
    <3>1. cache'[k] = cache[k] /\ row'[k] = row[k]
      BY <1>2, <2>2
    <3>2. Cached(k) /\ (Current(k) => Current(k)')
      BY <3>1 DEF Cached, Current
    <3>3. Current(k) \/ ~(row[k].at < watermark')
      BY <2>2, <3>2 DEF Ingest
    <3> QED
      BY <1>1, <1>3, <3>1, <3>2, <3>3 DEF AskedForNext, Idle
  <2> QED
    BY <2>1, <2>2
<1> QED
  BY <1>5, <1>6, <1>7, <1>8 DEF ReadInv
\* The three ways a refresh deals with an account.
LEMMA RefreshRowInv ==
    ASSUME ReadAssumption, ReadInv, NEW k \in Accounts, RefreshRow(k)
    PROVE  ReadInv'
<1>0. ReadTypeOK /\ OrderInv /\ LabelsAreHonest /\ MissInv
  BY DEF ReadInv
<1>1. /\ k \in DOMAIN probe /\ Passed(k)
      /\ clock' = clock /\ row' = row /\ writing' = writing
      /\ warm' = warm /\ shown' = shown
  BY DEF RefreshRow, RefreshKeepsBody, RefreshPullsBody, PullFails, databaseVars
<1>2. /\ clock \in Nat /\ watermark \in Nat /\ watermark <= clock
      /\ \A j \in Accounts :
            /\ row[j] \in Rows /\ cache[j] \in Entries /\ shown[j] \in Entries
            /\ row[j].body \in Commits /\ row[j].body \in Nat
            /\ row[j].presence \in Nat /\ row[j].at \in Nat
            /\ cache[j].body \in Nat /\ cache[j].presence \in Nat
            /\ shown[j].body \in Nat /\ shown[j].presence \in Nat
  BY <1>0, OfAccount, RowFields, EntryFields
<1>3. \A j \in DOMAIN probe :
            /\ j \in Accounts /\ probe[j] \in Rows
            /\ probe[j].body \in Commits /\ probe[j].presence \in Commits
            /\ probe[j].presence \in Nat /\ probe[j].at \in Nat /\ probe[j].at <= clock
  BY <1>0, <1>2, OfAccount, RowFields
<1>4. /\ DOMAIN probe' = DOMAIN probe \ {k}
      /\ \A j \in DOMAIN probe' : probe'[j] = probe[j]
      /\ watermark' \in Nat /\ watermark' <= clock
      /\ watermark' = watermark \/ watermark' = probe[k].at
      /\ watermark' >= watermark /\ watermark' >= probe[k].at
  BY <1>1, <1>2, <1>3 DEF Passed
<1>5. /\ cache' \in [Accounts -> Entries]
      /\ \A j \in Accounts \ {k} : cache'[j] = cache[j]
      /\ \/ /\ ~Cached(k) /\ PullFails(k)
            /\ cache'[k] = cache[k]
         \/ /\ Cached(k) /\ (PullFails(k) \/ RefreshKeepsBody(k))
            /\ cache'[k].body = cache[k].body /\ cache'[k].label = cache[k].label
            /\ cache'[k].presence = probe[k].presence
         \/ /\ RefreshPullsBody(k)
            /\ cache'[k].body = row[k].body
            /\ cache'[k].label = HashOf[probe[k].body]
            /\ cache'[k].presence = probe[k].presence
  <2> DEFINE kept == [cache[k] EXCEPT !.presence = probe[k].presence]
             pulled == [body |-> row[k].body, label |-> HashOf[probe[k].body],
                        presence |-> probe[k].presence]
  <2>0. cache \in [Accounts -> Entries]
    BY <1>0 DEF ReadTypeOK
  <2>1. /\ kept \in Entries /\ kept.body = cache[k].body /\ kept.label = cache[k].label
        /\ kept.presence = probe[k].presence
    BY <1>1, <1>2, <1>3, EntryWith
  <2>2. /\ pulled \in Entries /\ pulled.body = row[k].body
        /\ pulled.label = HashOf[probe[k].body] /\ pulled.presence = probe[k].presence
    BY <1>1, <1>2, <1>3, HashType, EntryMade
  <2>3. CASE PullFails(k) /\ ~Cached(k)
    BY <2>0, <2>3 DEF PullFails
  <2>4. CASE (PullFails(k) \/ RefreshKeepsBody(k)) /\ Cached(k)
    <3>1. cache' = [cache EXCEPT ![k] = kept]
      BY <2>4 DEF PullFails, RefreshKeepsBody
    <3> HIDE DEF kept
    <3> QED
      BY <2>0, <2>1, <2>4, <3>1
  <2>5. CASE RefreshPullsBody(k)
    <3>1. cache' = [cache EXCEPT ![k] = pulled]
      BY <2>5 DEF RefreshPullsBody
    <3> HIDE DEF pulled
    <3> QED
      BY <2>0, <2>2, <2>5, <3>1
  <2> QED
    BY <2>3, <2>4, <2>5 DEF RefreshRow, RefreshKeepsBody, HasNewBody
<1>6. /\ overtaken' \subseteq Accounts
      /\ \A j \in Accounts \ {k} : j \in overtaken' <=> j \in overtaken
  BY <1>0 DEF RefreshRow, RefreshKeepsBody, RefreshPullsBody, PullFails, ReadTypeOK
<1>7. /\ raced' \subseteq Accounts /\ raced \subseteq raced'
      /\ RefreshPullsBody(k) /\ k \notin raced' => row[k].body = probe[k].body
  BY <1>0 DEF RefreshRow, RefreshKeepsBody, RefreshPullsBody, PullFails, ReadTypeOK
<1>8. ReadTypeOK'
  <2>1. Rows' = Rows /\ Entries' = Entries
    BY <1>1 DEF Rows, Entries
  <2> QED
    BY <1>0, <1>1, <1>3, <1>4, <1>5, <1>6, <1>7, <2>1 DEF ReadTypeOK
<1>9. OrderInv'
  <2> SUFFICES ASSUME NEW j \in Accounts PROVE Order(j)'
    BY DEF OrderInv
  <2>1. Order(j)
    BY <1>0 DEF OrderInv
  <2>2. CASE j # k
    BY <1>1, <1>4, <1>5, <2>1, <2>2 DEF Order, Cached
  <2>3. CASE j = k
    <3>1. k \notin DOMAIN probe' /\ row'[k] = row[k] /\ shown'[k] = shown[k]
      BY <1>1, <1>4
    <3>2. /\ probe[k].presence <= row[k].presence
          /\ shown[k].presence <= probe[k].presence
      BY <1>1, <1>2, <1>3, <2>1, <2>3 DEF Order
    <3> QED
      BY <1>1, <1>2, <1>3, <1>5, <2>1, <2>3, <3>1, <3>2 DEF Order, Cached
  <2> QED
    BY <2>2, <2>3
<1>10. LabelsAreHonest'
  <2> SUFFICES ASSUME NEW j \in Accounts \ raced'
               PROVE  Honest(cache'[j]) /\ Honest(shown'[j])
    BY DEF LabelsAreHonest, Honest
  <2>1. Honest(cache[j]) /\ Honest(shown'[j])
    BY <1>0, <1>1, <1>7 DEF LabelsAreHonest
  <2> QED
    BY <1>5, <1>7, <2>1 DEF Honest
<1>11. MissInv'
  <2> SUFFICES ASSUME NEW j \in Accounts \ overtaken', (Cached(j) \/ j \in DOMAIN probe)'
               PROVE  (Current(j) \/ AskedForNext(j) \/ AwaitedNow(j))'
    BY DEF MissInv
  <2>1. AskedForNext(j) => AskedForNext(j)'
    BY <1>1, <1>2, <1>3, <1>4 DEF AskedForNext
  <2>2. CASE j # k
    <3>1. cache'[j] = cache[j] /\ j \notin overtaken
      BY <1>5, <1>6, <2>2
    <3>2. Current(j) \/ AskedForNext(j) \/ AwaitedNow(j)
      BY <1>0, <1>4, <2>2, <3>1 DEF MissInv, Cached
    <3>3. Current(j) => Current(j)'
      BY <1>1, <3>1 DEF Current
    <3>4. AwaitedNow(j) => AwaitedNow(j)'
      BY <1>1, <1>4, <2>2 DEF AwaitedNow
    <3> QED
      BY <2>1, <3>2, <3>3, <3>4
  <2>3. CASE j = k
    <3>1. cache'[k].body > 0
      BY <1>4, <2>3 DEF Cached
    <3>2. ~PullFails(k)
      BY <1>1, <1>5, <2>3, <3>1 DEF PullFails, Cached
    <3>3. CASE row[k] = probe[k]
      <4>1. CASE RefreshKeepsBody(k)
        <5>1. cache[k].label = HashOf[probe[k].body] /\ Cached(k)
          BY <4>1 DEF RefreshKeepsBody, HasNewBody
        <5>2. Honest(cache[k])
          BY <2>3, <4>1 DEF RefreshKeepsBody
        <5>3. cache'[k].body = cache[k].body /\ cache'[k].label = cache[k].label
              /\ cache'[k].presence = probe[k].presence
          BY <1>5, <3>2, <4>1 DEF RefreshKeepsBody, RefreshPullsBody
        <5> QED
          BY <1>1, <2>3, <3>3, <5>1, <5>2, <5>3 DEF Current, Honest
      <4>2. CASE RefreshPullsBody(k)
        <5>1. /\ cache'[k].body = row[k].body /\ cache'[k].label = HashOf[probe[k].body]
              /\ cache'[k].presence = probe[k].presence
          BY <1>5, <3>2, <4>2 DEF RefreshKeepsBody, RefreshPullsBody
        <5> QED
          BY <1>1, <2>3, <3>3, <5>1 DEF Current
      <4> QED
        BY <3>2, <4>1, <4>2 DEF RefreshRow
    <3>4. CASE row[k] # probe[k]
      <4>1. k \notin overtaken
        BY <2>3, <3>2, <3>4 DEF RefreshRow, RefreshKeepsBody, RefreshPullsBody
      <4>2. /\ cache[k].presence <= probe[k].presence
            /\ probe[k].presence < row[k].presence
        BY <1>0, <1>1, <3>4 DEF OrderInv, Order
      <4>3. cache[k].presence # row[k].presence
        BY <1>1, <1>2, <1>3, <4>2
      <4>4. AskedForNext(k)
        BY <1>0, <1>1, <3>4, <4>1, <4>3 DEF MissInv, Current, AwaitedNow
      <4> QED
        BY <2>1, <2>3, <4>4
    <3> QED
      BY <3>3, <3>4
  <2> QED
    BY <2>2, <2>3
<1> QED
  BY <1>8, <1>9, <1>10, <1>11 DEF ReadInv
-----------------------------------------------------------------------------
(* The steps of the workers *)

LEMMA CommittedInv ==
    ASSUME ReadAssumption, ReadInv, NEW w \in Workers, NEW k \in Accounts, NEW r \in Rows,
           Committed(w, k, r),
           r.body <= r.presence, row[k].body <= r.body, row[k].presence < r.presence
    PROVE  ReadInv'
<1>0. ReadTypeOK /\ OrderInv /\ LabelsAreHonest /\ MissInv
  BY DEF ReadInv
<1>1. /\ row' = [row EXCEPT ![k] = r] /\ row \in [Accounts -> Rows]
      /\ UNCHANGED <<clock, cache, watermark, probe, warm, shown, raced>>
  BY <1>0 DEF Committed, ReadTypeOK
<1>2. row'[k] = r /\ \A j \in Accounts \ {k} : row'[j] = row[j]
  BY <1>1
<1>3. /\ clock \in Nat /\ watermark \in Nat
      /\ \A j \in Accounts :
            /\ row[j].body \in Nat /\ row[j].presence \in Nat /\ row[j].at \in Nat
            /\ cache[j].body \in Nat /\ cache[j].presence \in Nat
            /\ shown[j].body \in Nat /\ shown[j].presence \in Nat
      /\ r.body \in Nat /\ r.presence \in Nat /\ r.at \in Nat
  BY <1>0, OfAccount, RowFields, EntryFields
<1>4. \A j \in DOMAIN probe : probe[j].presence \in Nat /\ probe[j].at \in Nat
  BY <1>0, <1>3, OfAccount, RowFields
<1>5. ReadTypeOK'
  <2>1. Rows' = Rows /\ Entries' = Entries
    BY <1>1 DEF Rows, Entries
  <2>2. row' \in [Accounts -> Rows]
    BY <1>1
  <2>3. writing' \in [Workers -> [account : 0..N, at : 0..clock]]
    BY <1>0 DEF Committed, ReadTypeOK, NoWrite, ReadAssumption
  <2>4. overtaken' \subseteq Accounts
    BY <1>0 DEF Committed, ReadTypeOK
  <2> QED
    BY <1>0, <1>1, <2>1, <2>2, <2>3, <2>4 DEF ReadTypeOK
<1>6. OrderInv'
  <2> SUFFICES ASSUME NEW j \in Accounts PROVE Order(j)'
    BY DEF OrderInv
  <2>1. Order(j)
    BY <1>0 DEF OrderInv
  <2>2. CASE j # k
    BY <1>1, <1>2, <2>1, <2>2 DEF Order, Cached
  <2>3. CASE j = k
    <3>1. k \in DOMAIN probe => probe[k].presence < r.presence
      BY <1>3, <1>4, <2>1, <2>3 DEF Order
    <3>2. /\ cache[k].body <= r.body /\ cache[k].presence <= r.presence
          /\ shown[k].body <= r.body /\ shown[k].presence <= r.presence
      <4>1. /\ cache[k].body <= row[k].body /\ cache[k].presence <= row[k].presence
            /\ shown[k].body <= row[k].body /\ shown[k].presence <= row[k].presence
        BY <2>1, <2>3 DEF Order
      <4>2. /\ row[k].body \in Nat /\ row[k].presence \in Nat
            /\ cache[k].body \in Nat /\ cache[k].presence \in Nat
            /\ shown[k].body \in Nat /\ shown[k].presence \in Nat
            /\ r.body \in Nat /\ r.presence \in Nat
        BY <1>3
      <4>3. row[k].body <= r.body /\ row[k].presence <= r.presence
        BY <4>2
      <4> QED
        BY ONLY <4>1, <4>2, <4>3
    <3>3. /\ Cached(k) => /\ shown[k].body <= cache[k].body
                          /\ shown[k].presence <= cache[k].presence
          /\ k \in DOMAIN probe => /\ cache[k].presence <= probe[k].presence
                                   /\ shown[k].presence <= probe[k].presence
      BY <2>1, <2>3 DEF Order
    <3>4. Cached(k)' <=> Cached(k)
      BY <1>1 DEF Cached
    <3> QED
      BY <1>1, <1>2, <2>3, <3>1, <3>2, <3>3, <3>4 DEF Order
  <2> QED
    BY <2>2, <2>3
<1>7. LabelsAreHonest'
  BY <1>0, <1>1 DEF LabelsAreHonest, Honest
<1>8. MissInv'
  <2> SUFFICES ASSUME NEW j \in Accounts \ overtaken', Cached(j) \/ j \in DOMAIN probe
               PROVE  (Current(j) \/ AskedForNext(j) \/ AwaitedNow(j))'
    BY <1>1 DEF MissInv, Cached
  <2>1. CASE j # k
    <3>1. j \notin overtaken
      BY <2>1 DEF Committed
    <3>2. Current(j) \/ AskedForNext(j) \/ AwaitedNow(j)
      BY <1>0, <3>1 DEF MissInv
    <3> QED
      BY <1>1, <1>2, <2>1, <3>2 DEF Current, AskedForNext, AwaitedNow
  <2>2. CASE j = k
    <3>1. ~TooLate(r.at)
      BY <2>2 DEF Committed
    <3> QED
      BY <1>1, <1>2, <1>3, <1>4, <2>2, <3>1 DEF TooLate, AskedForNext
  <2> QED
    BY <2>1, <2>2
<1> QED
  BY <1>5, <1>6, <1>7, <1>8 DEF ReadInv

LEMMA WorkerInv ==
    ASSUME ReadAssumption, ReadInv, NEW w \in Workers, WorkerStep(w)
    PROVE  ReadInv'
<1>0. ReadTypeOK /\ OrderInv /\ LabelsAreHonest /\ MissInv
  BY DEF ReadInv
<1>1. /\ writing[w].at \in 0..clock /\ clock \in Nat
      /\ \A k \in Accounts :
            /\ row[k] \in Rows /\ row[k].body \in Commits
            /\ row[k].body \in Nat /\ row[k].presence \in Nat
            /\ row[k].body <= row[k].presence
  BY <1>0, OfAccount, RowFields DEF OrderInv, Order, ReadTypeOK
<1>2. ASSUME NEW k \in Accounts, CommitSnapshot(w, k) PROVE ReadInv'
  <2> DEFINE n == row[k].presence + 1
             r == [body |-> n, presence |-> n, at |-> writing[w].at]
  <2>1. n \in Nat /\ n \in Commits
    BY <1>1, <1>2 DEF CommitSnapshot, ReadAssumption, Commits
  <2>2. Committed(w, k, r)
    BY <1>2 DEF CommitSnapshot
  <2>3. /\ r \in Rows /\ r.body <= r.presence
        /\ row[k].body <= r.body /\ row[k].presence < r.presence
    BY <1>1, <2>1 DEF Rows
  <2> HIDE DEF r
  <2> QED
    BY <2>2, <2>3, CommittedInv
<1>3. ASSUME NEW k \in Accounts, CommitPresence(w, k) PROVE ReadInv'
  <2> DEFINE n == row[k].presence + 1
             r == [row[k] EXCEPT !.presence = n, !.at = writing[w].at]
  <2>1. n \in Nat /\ n \in Commits
    BY <1>1, <1>3 DEF CommitPresence, ReadAssumption, Commits
  <2>2. Committed(w, k, r)
    BY <1>3 DEF CommitPresence
  <2>3. r \in Rows /\ r.body = row[k].body /\ r.presence = n
    BY <1>1, <2>1 DEF Rows
  <2>4. r.body <= r.presence /\ row[k].body <= r.body /\ row[k].presence < r.presence
    BY <1>1, <2>1, <2>3
  <2> HIDE DEF r
  <2> QED
    BY <2>2, <2>3, <2>4, CommittedInv
<1>4. ASSUME \/ WriteComesToNothing(w)
             \/ \E k \in Accounts : PrepareWrite(w, k)
      PROVE  ReadInv'
  <2>1. UNCHANGED <<clock, row, cache, watermark, probe, warm, shown, overtaken, raced>>
    BY <1>4 DEF WriteComesToNothing, PrepareWrite
  <2>2. writing' \in [Workers -> [account : 0..N, at : 0..clock]]
    <3> DEFINE A == [account : 0..N, at : 0..clock]
    <3>1. writing \in [Workers -> A]
      BY <1>0 DEF ReadTypeOK
    <3>2. NoWrite \in A /\ \A k \in Accounts : [account |-> k, at |-> clock] \in A
      BY <1>1 DEF NoWrite, ReadAssumption, Accounts
    <3>3. \/ writing' = [writing EXCEPT ![w] = NoWrite]
          \/ \E k \in Accounts : writing' = [writing EXCEPT ![w] = [account |-> k, at |-> clock]]
      BY <1>4 DEF WriteComesToNothing, PrepareWrite
    <3>4. \E a \in A : writing' = [writing EXCEPT ![w] = a]
      BY <3>2, <3>3
    <3> HIDE DEF A
    <3>5. writing' \in [Workers -> A]
      BY <3>1, <3>4
    <3> QED
      BY <3>5 DEF A
  <2>3. ReadTypeOK'
    BY <1>0, <2>1, <2>2 DEF ReadTypeOK, Rows, Entries
  <2> QED
    BY <1>0, <2>1, <2>3
       DEF ReadInv, OrderInv, Order, LabelsAreHonest, Honest, MissInv, Cached, Current,
           AskedForNext, AwaitedNow
<1> QED
  BY <1>2, <1>3, <1>4 DEF WorkerStep

-----------------------------------------------------------------------------
(* The other steps *)

LEMMA TimePassesInv ==
    ASSUME ReadAssumption, ReadInv, TimePasses
    PROVE  ReadInv'
<1>0. ReadTypeOK /\ OrderInv /\ LabelsAreHonest /\ MissInv
  BY DEF ReadInv
<1>1. /\ clock \in Nat /\ clock' = clock + 1 /\ clock' \in 1..MaxClock
      /\ UNCHANGED <<row, writing, cache, watermark, probe, warm, shown, overtaken, raced>>
  BY <1>0 DEF TimePasses, ReadTypeOK, ReadAssumption
<1>2. Rows \subseteq Rows' /\ Entries' = Entries
  BY <1>1 DEF Rows, Entries
<1>3. [account : 0..N, at : 0..clock] \subseteq [account : 0..N, at : 0..clock']
  BY <1>1
<1>4. watermark \in 0..clock'
  BY <1>0, <1>1 DEF ReadTypeOK
<1>5. ReadTypeOK'
  <2>1. row' \in [Accounts -> Rows'] /\ cache' \in [Accounts -> Entries']
    BY <1>0, <1>1, <1>2 DEF ReadTypeOK
  <2>2. writing' \in [Workers -> [account : 0..N, at : 0..clock']]
    <3> DEFINE A == [account : 0..N, at : 0..clock]
               B == [account : 0..N, at : 0..clock']
    <3>1. writing \in [Workers -> A] /\ A \subseteq B /\ writing' = writing
      BY <1>0, <1>1, <1>3 DEF ReadTypeOK
    <3> HIDE DEF A, B
    <3>2. writing' \in [Workers -> B]
      BY <3>1
    <3> QED
      BY <3>2 DEF B
  <2>3. \A k \in DOMAIN probe' : probe'[k] \in Rows'
    BY <1>0, <1>1, <1>2 DEF ReadTypeOK
  <2> QED
    BY <1>0, <1>1, <1>2, <1>4, <2>1, <2>2, <2>3 DEF ReadTypeOK
<1> QED
  BY <1>0, <1>1, <1>5
     DEF ReadInv, OrderInv, Order, LabelsAreHonest, Honest, MissInv, Cached, Current,
         AskedForNext, AwaitedNow

LEMMA WarmInv ==
    ASSUME ReadAssumption, ReadInv, WarmStart \/ WarmBatch \/ WarmGivesUp
    PROVE  ReadInv'
<1>0. ReadTypeOK /\ OrderInv /\ LabelsAreHonest /\ MissInv
  BY DEF ReadInv
<1>1. warm' \in [phase : {"boot", "load", "done"}, offset : Nat, total : Nat]
  <2>1. warm \in [phase : {"boot", "load", "done"}, offset : Nat, total : Nat]
    BY <1>0 DEF ReadTypeOK
  <2>2. Cardinality({k \in Accounts : Stored(k)}) \in Nat
    BY CountType
  <2>3. Batch(warm.offset) \subseteq Accounts
    BY DEF Batch
  <2>4. Cardinality(Batch(warm.offset)) \in Nat
    BY <2>3, CountType
  <2>5. CASE WarmStart
    BY <2>2, <2>5 DEF WarmStart
  <2>6. CASE WarmBatch
    <3> DEFINE n == Cardinality(Batch(warm.offset))
    <3>1. n \in Nat /\ warm.offset \in Nat
      BY <2>1, <2>4
    <3>2. \E next \in Nat, p \in {"load", "done"} :
            warm' = [warm EXCEPT !.offset = next, !.phase = p]
      <4>1. warm.offset + n \in Nat
        BY <3>1
      <4> QED
        BY <2>6, <4>1 DEF WarmBatch
    <3> QED
      BY <2>1, <3>2
  <2>7. CASE WarmGivesUp
    BY <2>1, <2>7 DEF WarmGivesUp
  <2> QED
    BY <2>5, <2>6, <2>7
<1>2. CASE WarmBatch
  <2>1. /\ Idle /\ Ingest(Batch(warm.offset)) /\ UNCHANGED shown
        /\ UNCHANGED <<clock, row, writing, probe, raced>>
    BY <1>2 DEF WarmBatch, databaseVars
  <2>2. Batch(warm.offset) \in SUBSET Accounts
    BY DEF Batch
  <2> QED
    BY <1>1, <2>1, <2>2, IngestInv
<1>3. CASE WarmStart \/ WarmGivesUp
  <2>1. UNCHANGED <<clock, row, writing, cache, watermark, probe, shown, overtaken, raced>>
    BY <1>3 DEF WarmStart, WarmGivesUp, databaseVars
  <2>2. ReadTypeOK'
    BY <1>0, <1>1, <2>1 DEF ReadTypeOK, Rows, Entries
  <2> QED
    BY <1>0, <2>1, <2>2
       DEF ReadInv, OrderInv, Order, LabelsAreHonest, Honest, MissInv, Cached, Current,
           AskedForNext, AwaitedNow
<1> QED
  BY <1>2, <1>3

LEMMA RefreshProbeInv ==
    ASSUME ReadAssumption, ReadInv, RefreshProbe
    PROVE  ReadInv'
<1>0. ReadTypeOK /\ OrderInv /\ LabelsAreHonest /\ MissInv
  BY DEF ReadInv
<1>1. UNCHANGED <<clock, row, writing, cache, watermark, warm, shown, overtaken, raced>>
  BY DEF RefreshProbe, databaseVars
<1>2. /\ DOMAIN probe' = Probed(watermark) /\ Probed(watermark) \subseteq Accounts
      /\ \A k \in Probed(watermark) : probe'[k] = row[k]
  BY DEF RefreshProbe, Probed
<1>3. \A k \in Accounts :
        /\ row[k] \in Rows /\ row[k].body \in Nat /\ row[k].presence \in Nat
        /\ cache[k].body \in Nat /\ row[k].at \in Nat
  BY <1>0, OfAccount, RowFields, EntryFields
<1>4. ReadTypeOK'
  <2>1. Rows' = Rows /\ Entries' = Entries
    BY <1>1 DEF Rows, Entries
  <2> QED
    BY <1>0, <1>1, <1>2, <1>3, <2>1 DEF ReadTypeOK
<1>5. OrderInv'
  BY <1>0, <1>1, <1>2 DEF OrderInv, Order, Cached
<1>6. LabelsAreHonest'
  BY <1>0, <1>1 DEF LabelsAreHonest, Honest
<1>7. MissInv'
  <2> SUFFICES ASSUME NEW k \in Accounts \ overtaken', (Cached(k) \/ k \in DOMAIN probe)'
               PROVE  (Current(k) \/ AskedForNext(k) \/ AwaitedNow(k))'
    BY DEF MissInv
  <2>1. CASE k \in Probed(watermark)
    BY <1>1, <1>2, <2>1 DEF AwaitedNow
  <2>2. CASE k \notin Probed(watermark)
    <3>1. Cached(k)
      BY <1>1, <1>2, <2>2 DEF Cached
    <3>2. Stored(k)
      BY <1>0, <1>3, <3>1 DEF OrderInv, Order, Cached, Stored
    <3>3. Current(k)
      BY <1>0, <1>1, <2>2, <3>1, <3>2
         DEF MissInv, AskedForNext, AwaitedNow, Probed, RefreshProbe, Idle
    <3> QED
      BY <1>1, <3>3 DEF Current
  <2> QED
    BY <2>1, <2>2
<1> QED
  BY <1>4, <1>5, <1>6, <1>7 DEF ReadInv

LEMMA ServeInv ==
    ASSUME ReadAssumption, ReadInv, NEW k \in Accounts, ServeCached(k) \/ ServeMiss(k)
    PROVE  ReadInv'
<1>0. ReadTypeOK /\ OrderInv /\ LabelsAreHonest /\ MissInv
  BY DEF ReadInv
<1>1. CASE ServeMiss(k)
  <2>1. /\ Idle /\ Ingest({k}) /\ Reply(k, EntryOf(row[k]))
        /\ UNCHANGED <<clock, row, writing, probe, warm, raced>>
    BY <1>1 DEF ServeMiss, databaseVars
  <2>2. warm' \in [phase : {"boot", "load", "done"}, offset : Nat, total : Nat]
    BY <1>0, <2>1 DEF ReadTypeOK
  <2> QED
    BY <2>1, <2>2, IngestInv
<1>2. CASE ServeCached(k)
  <2>1. /\ Idle /\ Cached(k) /\ Reply(k, cache[k])
        /\ UNCHANGED <<clock, row, writing, cache, watermark, probe, warm, overtaken, raced>>
    BY <1>2 DEF ServeCached, databaseVars
  <2>2. /\ shown \in [Accounts -> Entries] /\ cache[k] \in Entries /\ shown[k] \in Entries
        /\ cache[k].presence \in Commits
        /\ cache[k].body \in Nat /\ cache[k].presence \in Nat
        /\ shown[k].body \in Nat /\ shown[k].presence \in Nat
    BY <1>0, OfAccount, EntryFields DEF ReadTypeOK
  <2> DEFINE f == [shown[k] EXCEPT !.presence = cache[k].presence]
  <2>3. /\ f \in Entries /\ f.body = shown[k].body /\ f.presence = cache[k].presence
        /\ Honest(f) <=> Honest(shown[k])
    BY <2>2, EntryWith
  <2>4. \/ shown' = shown \/ shown' = [shown EXCEPT ![k] = f]
        \/ shown' = [shown EXCEPT ![k] = cache[k]]
    BY <2>1, ReplyMade
  <2> HIDE DEF f
  <2>5. /\ shown' \in [Accounts -> Entries]
        /\ \A j \in Accounts \ {k} : shown'[j] = shown[j]
        /\ shown'[k] = shown[k] \/ shown'[k] = f \/ shown'[k] = cache[k]
    BY <2>2, <2>3, <2>4
  <2>6. ReadTypeOK'
    <3>1. Rows' = Rows /\ Entries' = Entries
      BY <2>1 DEF Rows, Entries
    <3> QED
      BY <1>0, <2>1, <2>5, <3>1 DEF ReadTypeOK
  <2>7. OrderInv'
    <3> SUFFICES ASSUME NEW j \in Accounts PROVE Order(j)'
      BY DEF OrderInv
    <3>1. Order(j) /\ j \notin DOMAIN probe'
      BY <1>0, <2>1 DEF OrderInv, Idle
    <3>2. CASE j # k
      BY <2>1, <2>5, <3>1, <3>2 DEF Order, Cached
    <3>3. CASE j = k
      <4>1. /\ shown'[k].body = shown[k].body \/ shown'[k].body = cache[k].body
            /\ shown'[k].presence = shown[k].presence
               \/ shown'[k].presence = cache[k].presence
        BY <2>3, <2>5
      <4> QED
        BY <2>1, <2>2, <3>1, <3>3, <4>1 DEF Order, Cached
    <3> QED
      BY <3>2, <3>3
  <2>8. LabelsAreHonest'
    <3> SUFFICES ASSUME NEW j \in Accounts \ raced
                 PROVE  Honest(cache[j]) /\ Honest(shown'[j])
      BY <2>1 DEF LabelsAreHonest, Honest
    <3>1. Honest(cache[j]) /\ Honest(shown[j])
      BY <1>0 DEF LabelsAreHonest
    <3> QED
      BY <2>3, <2>5, <3>1
  <2>9. MissInv'
    BY <1>0, <2>1 DEF MissInv, Cached, Current, AskedForNext, AwaitedNow
  <2> QED
    BY <2>6, <2>7, <2>8, <2>9 DEF ReadInv
<1> QED
  BY <1>1, <1>2

LEMMA RestartInv ==
    ASSUME ReadAssumption, ReadInv, ReadRestart
    PROVE  ReadInv'
<1>0. ReadTypeOK /\ OrderInv /\ LabelsAreHonest /\ MissInv
  BY DEF ReadInv
<1>1. /\ UNCHANGED <<clock, row, writing, shown, raced>>
      /\ watermark' = 0 /\ DOMAIN probe' = {} /\ warm' = Boot /\ overtaken' = {}
      /\ \A k \in Accounts : cache'[k] = NoEntry
      /\ cache' = [k \in Accounts |-> NoEntry]
  BY DEF ReadRestart, databaseVars, NoProbe
<1>2. /\ NoEntry \in Entries /\ NoEntry.body = 0 /\ NoEntry.presence = 0
      /\ Honest(NoEntry)
  BY DEF ReadAssumption, NoEntry, Entries, Commits, Honest
<1>3. ReadTypeOK'
  <2>1. Rows' = Rows /\ Entries' = Entries
    BY <1>1 DEF Rows, Entries
  <2>2. cache' \in [Accounts -> Entries] /\ 0 \in 0..clock
    BY <1>0, <1>1, <1>2 DEF ReadTypeOK
  <2> QED
    BY <1>0, <1>1, <2>1, <2>2 DEF ReadTypeOK, Boot
<1>4. OrderInv'
  <2>1. \A k \in Accounts : row[k].body \in Nat /\ row[k].presence \in Nat
    BY <1>0, OfAccount, RowFields
  <2> QED
    BY <1>0, <1>1, <1>2, <2>1 DEF OrderInv, Order, Cached
<1>5. LabelsAreHonest'
  BY <1>0, <1>1, <1>2 DEF LabelsAreHonest, Honest
<1>6. MissInv'
  BY <1>1, <1>2 DEF MissInv, Cached
<1> QED
  BY <1>3, <1>4, <1>5, <1>6 DEF ReadInv

LEMMA ReadStutterInv == ASSUME ReadInv, UNCHANGED readVars PROVE ReadInv'
  BY DEF readVars, databaseVars, ReadInv, ReadTypeOK, Rows, Entries, OrderInv, Order,
         LabelsAreHonest, Honest, MissInv, Cached, Current, AskedForNext, AwaitedNow

\* No step disturbs the invariant.
LEMMA ReadInvStep ==
    ASSUME ReadAssumption, ReadInv, [ReadNext]_readVars
    PROVE  ReadInv'
BY RefreshRowInv, WorkerInv, TimePassesInv, WarmInv, RefreshProbeInv, ServeInv,
   RestartInv, ReadStutterInv
   DEF ReadNext

-----------------------------------------------------------------------------
(* The inductive invariant of the read lane, for any accounts, workers and *)
(* batch size: types, the order of the copies, honest labels, and that     *)
(* every entry is current, asked for next, awaited or overtaken.           *)
THEOREM ReadInvariance == ReadSpec => []ReadInv
<1>1. ReadInit => ReadInv
  BY ReadAssumption, ReadInitInv
<1>2. ReadInv /\ [ReadNext]_readVars => ReadInv'
  BY ReadAssumption, ReadInvStep
<1> QED
  BY <1>1, <1>2, PTL DEF ReadSpec

(* Every variable keeps its type; no stamp or watermark is ahead of the    *)
(* clock.                                                                  *)
THEOREM ReadTypeCorrect == ReadSpec => []ReadTypeOK
<1>1. ReadInv => ReadTypeOK
  BY DEF ReadInv
<1> QED
  BY <1>1, ReadInvariance, PTL

(* A body is labelled with the hash of another content only after a commit *)
(* came between the two queries of a refresh.                              *)
THEOREM LabelsStayHonest == ReadSpec => []LabelsAreHonest
<1>1. ReadInv => LabelsAreHonest
  BY DEF ReadInv
<1> QED
  BY <1>1, ReadInvariance, PTL

(* However commits, warm batches, requests and refreshes interleave, a     *)
(* cached account misses a commit only by one of the four named hazards.   *)
THEOREM MissesAreKnown == ReadSpec => []OnlyKnownMisses
<1>1. ReadInv => OnlyKnownMisses
  BY DEF ReadInv, MissInv, OnlyKnownMisses, AskedForNext, AwaitedNow
<1> QED
  BY <1>1, ReadInvariance, PTL

\* What a browser shows of an account never goes back in a step.
LEMMA ShownForward ==
    ASSUME ReadAssumption, ReadInv, [ReadNext]_readVars
    PROVE  \A k \in Accounts : /\ shown'[k].body >= shown[k].body
                              /\ shown'[k].presence >= shown[k].presence
<1> SUFFICES ASSUME NEW j \in Accounts
             PROVE  /\ shown'[j].body >= shown[j].body
                    /\ shown'[j].presence >= shown[j].presence
  OBVIOUS
<1>0. /\ ReadTypeOK /\ Order(j) /\ shown \in [Accounts -> Entries]
      /\ clock \in Nat /\ row[j] \in Rows
      /\ shown[j] \in Entries /\ cache[j] \in Entries
  BY OfAccount DEF ReadInv, OrderInv, ReadTypeOK
<1>1. /\ shown[j].body \in Nat /\ shown[j].presence \in Nat
      /\ cache[j].body \in Nat /\ cache[j].presence \in Nat
      /\ cache[j].presence \in Commits
      /\ row[j].body \in Nat /\ row[j].presence \in Nat
  BY <1>0, RowFields, EntryFields
<1>2. ASSUME NEW k \in Accounts, NEW e, Reply(k, e),
             j = k => /\ e.body >= shown[j].body /\ e.presence >= shown[j].presence
      PROVE  /\ shown'[j].body >= shown[j].body
             /\ shown'[j].presence >= shown[j].presence
  <2> DEFINE f == [shown[k] EXCEPT !.presence = e.presence]
  <2>1. \/ shown' = shown \/ shown' = [shown EXCEPT ![k] = f]
        \/ shown' = [shown EXCEPT ![k] = e]
    BY <1>2, ReplyMade
  <2>2. shown[k] \in Entries
    BY <1>0
  <2>3. f.body = shown[k].body /\ f.presence = e.presence
    BY <2>2 DEF Entries
  <2> HIDE DEF f
  <2>4. \/ shown'[j] = shown[j]
        \/ j = k /\ (shown'[j] = f \/ shown'[j] = e)
    BY <1>0, <2>1
  <2> QED
    BY <1>1, <1>2, <2>3, <2>4
<1>3. ASSUME NEW k \in Accounts, ServeCached(k)
      PROVE  /\ shown'[j].body >= shown[j].body
             /\ shown'[j].presence >= shown[j].presence
  BY <1>0, <1>1, <1>2, <1>3 DEF ServeCached, Order
<1>4. ASSUME NEW k \in Accounts, ServeMiss(k)
      PROVE  /\ shown'[j].body >= shown[j].body
             /\ shown'[j].presence >= shown[j].presence
  <2>1. j = k => EntryOf(row[k]).body = row[j].body /\ EntryOf(row[k]).presence = row[j].presence
    BY <1>0, EntryOfRow
  <2> QED
    BY <1>0, <1>1, <1>2, <1>4, <2>1 DEF ServeMiss, Order
<1>5. CASE shown' = shown
  BY <1>1, <1>5
<1>6. ASSUME \/ TimePasses \/ WarmStart \/ WarmBatch \/ WarmGivesUp \/ RefreshProbe
             \/ ReadRestart \/ UNCHANGED readVars
             \/ \E k \in Accounts : RefreshRow(k)
             \/ \E w \in Workers : WorkerStep(w)
      PROVE  shown' = shown
  BY <1>6 DEF TimePasses, WarmStart, WarmBatch, WarmGivesUp, RefreshProbe, ReadRestart,
     readVars, RefreshRow, RefreshKeepsBody, RefreshPullsBody, PullFails, WorkerStep,
     PrepareWrite, CommitSnapshot, CommitPresence, Committed, WriteComesToNothing
<1> QED
  BY <1>3, <1>4, <1>5, <1>6 DEF ReadNext

\* The rows do not go back either, and a browser is answered in no step in
\* which a row is committed.
LEMMA RowsForward ==
    ASSUME ReadAssumption, ReadInv, [ReadNext]_readVars
    PROVE  \/ row' = row
           \/ /\ shown' = shown
              /\ \A k \in Accounts : /\ row'[k].body >= row[k].body
                                     /\ row'[k].presence >= row[k].presence
<1>1. /\ ReadTypeOK /\ row \in [Accounts -> Rows] /\ clock \in Nat
      /\ \A k \in Accounts : /\ row[k].body \in Nat /\ row[k].presence \in Nat
                             /\ row[k].body <= row[k].presence
  <2>1. ReadTypeOK /\ row \in [Accounts -> Rows] /\ clock \in Nat
    BY OfAccount DEF ReadInv, ReadTypeOK
  <2> QED
    BY <2>1, RowFields DEF ReadInv, OrderInv, Order
<1>2. ASSUME NEW w \in Workers, NEW k \in Accounts, NEW r, Committed(w, k, r),
             r.body >= row[k].body, r.presence >= row[k].presence
      PROVE  /\ shown' = shown
             /\ \A j \in Accounts : /\ row'[j].body >= row[j].body
                                    /\ row'[j].presence >= row[j].presence
  <2>1. shown' = shown /\ row' = [row EXCEPT ![k] = r]
    BY <1>2 DEF Committed
  <2>2. ASSUME NEW j \in Accounts
        PROVE  row'[j].body >= row[j].body /\ row'[j].presence >= row[j].presence
    BY <1>1, <1>2, <2>1
  <2> QED
    BY <2>1, <2>2
<1>3. ASSUME NEW w \in Workers, NEW k \in Accounts, CommitSnapshot(w, k)
      PROVE  /\ shown' = shown
             /\ \A j \in Accounts : /\ row'[j].body >= row[j].body
                                    /\ row'[j].presence >= row[j].presence
  <2> DEFINE n == row[k].presence + 1
             r == [body |-> n, presence |-> n, at |-> writing[w].at]
  <2>1. Committed(w, k, r)
    BY <1>3 DEF CommitSnapshot
  <2>2. r.body = n /\ r.presence = n
    OBVIOUS
  <2>3. n >= row[k].body /\ n >= row[k].presence
    BY <1>1
  <2> HIDE DEF r, n
  <2> QED
    BY <1>2, <2>1, <2>2, <2>3
<1>4. ASSUME NEW w \in Workers, NEW k \in Accounts, CommitPresence(w, k)
      PROVE  /\ shown' = shown
             /\ \A j \in Accounts : /\ row'[j].body >= row[j].body
                                    /\ row'[j].presence >= row[j].presence
  <2> DEFINE n == row[k].presence + 1
             r == [row[k] EXCEPT !.presence = n, !.at = writing[w].at]
  <2>1. Committed(w, k, r)
    BY <1>4 DEF CommitPresence
  <2>2. r.body = row[k].body /\ r.presence = n
    BY <1>1 DEF Rows
  <2>3. row[k].body >= row[k].body /\ n >= row[k].presence
    BY <1>1
  <2> HIDE DEF r, n
  <2> QED
    BY <1>2, <2>1, <2>2, <2>3
<1>5. ASSUME NEW w \in Workers, NEW k \in Accounts,
             PrepareWrite(w, k) \/ WriteComesToNothing(w)
      PROVE  row' = row
  BY <1>5 DEF PrepareWrite, WriteComesToNothing
<1>6. ASSUME \/ TimePasses \/ WarmStart \/ WarmBatch \/ WarmGivesUp \/ RefreshProbe
             \/ ReadRestart \/ UNCHANGED readVars
             \/ \E k \in Accounts : RefreshRow(k) \/ ServeCached(k) \/ ServeMiss(k)
             \/ \E w \in Workers : WriteComesToNothing(w)
      PROVE  row' = row
  BY <1>6 DEF TimePasses, WarmStart, WarmBatch, WarmGivesUp, RefreshProbe, ReadRestart,
     readVars, databaseVars, RefreshRow, RefreshKeepsBody, RefreshPullsBody, PullFails,
     ServeCached, ServeMiss, WriteComesToNothing
<1> QED
  BY <1>3, <1>4, <1>5, <1>6 DEF ReadNext, WorkerStep

\* What a browser shows of an account never goes back.
THEOREM ShownGoesForward == ReadSpec => ShownNeverGoesBack
<1> DEFINE Step == \A k \in Accounts : /\ shown'[k].body >= shown[k].body
                                       /\ shown'[k].presence >= shown[k].presence
<1>1. ReadInv /\ [ReadNext]_readVars => [Step]_readVars
  BY ShownForward, ReadAssumption
<1> QED
  BY <1>1, ReadInvariance, PTL DEF ReadSpec, ShownNeverGoesBack

LEMMA TrailSteps ==
    ASSUME ReadAssumption, ReadInv, [ReadNext]_readVars, NEW k \in Accounts
    PROVE  Bodies!TrailStep(k) /\ Presences!TrailStep(k)
<1>1. /\ shown'[k].body >= shown[k].body /\ shown'[k].presence >= shown[k].presence
      /\ \/ row' = row
         \/ /\ shown' = shown
            /\ row'[k].body >= row[k].body /\ row'[k].presence >= row[k].presence
  BY ShownForward, RowsForward
<1>2. /\ row[k].body \in Nat /\ row[k].presence \in Nat
      /\ shown[k].body \in Nat /\ shown[k].presence \in Nat
  BY OfAccount, RowFields, EntryFields DEF ReadInv
<1>3. /\ shown'[k].body <= row'[k].body /\ shown'[k].presence <= row'[k].presence
      /\ row'[k].body \in Nat /\ row'[k].presence \in Nat
      /\ shown'[k].body \in Nat /\ shown'[k].presence \in Nat
  <2>1. ReadInv'
    BY ReadInvStep
  <2>2. ReadTypeOK' /\ Order(k)'
    BY <2>1 DEF ReadInv, OrderInv
  <2>3. row'[k] \in Rows' /\ shown'[k] \in Entries /\ clock' \in Nat
    BY <2>2 DEF ReadTypeOK, Entries, Commits, ReadAssumption
  <2> QED
    BY <2>2, <2>3, EntryFields DEF Order, Rows, Commits, ReadAssumption
<1>4. Bodies!TrailStep(k)
  BY <1>1, <1>2, <1>3 DEF Bodies!TrailStep, Bodies!Advance, Bodies!Follow, Bodies!Rest
<1>5. Presences!TrailStep(k)
  BY <1>1, <1>2, <1>3
     DEF Presences!TrailStep, Presences!Advance, Presences!Follow, Presences!Rest
<1> QED
  BY <1>4, <1>5

\* Whatever batches, refreshes, misses, failures and restarts lie in between, the
\* browser trails the database in the body and in the presence it shows.
THEOREM ShownRefinesTrail == ReadSpec => ShownTrails
<1> DEFINE BodySteps == \A t \in Accounts : Bodies!TrailStep(t)
           PresenceSteps == \A t \in Accounts : Presences!TrailStep(t)
<1>1. ReadInit => Bodies!TrailInit /\ Presences!TrailInit
  BY DEF ReadInit, NoRow, NoEntry, Bodies!TrailInit, Presences!TrailInit
<1>2. ReadInv /\ [ReadNext]_readVars => [BodySteps]_(Bodies!trailVars)
  BY TrailSteps, ReadAssumption
<1>3. ReadInv /\ [ReadNext]_readVars => [PresenceSteps]_(Presences!trailVars)
  BY TrailSteps, ReadAssumption
<1> QED
  BY <1>1, <1>2, <1>3, ReadInvariance, PTL
     DEF ReadSpec, ShownTrails, Bodies!TrailSpec, Presences!TrailSpec
=============================================================================
