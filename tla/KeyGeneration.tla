---------------------------- MODULE KeyGeneration ----------------------------
(***************************************************************************)
(* How one portal user turns a watched ad into a licence key               *)
(* (site/src/challenge.js, its callers in site/src/routes.js and the       *)
(* look-ups of site/src/licenseService.js): attempts are started, replaced *)
(* and sent to an ad provider; when the provider calls back, a request     *)
(* passes the per-user lock, the check for an unredeemed key, the cooldown,*)
(* consumes the ad, inserts the key and finalises the attempt.  Every step *)
(* is one database call, and the steps of several tabs interleave.         *)
(*                                                                         *)
(* Abstractions: one user and the one portal process, which may crash; a   *)
(* key is named by the request that generates it; owner, provider and      *)
(* signature checks are taken as passed; redemption, revocation and expiry *)
(* of a key are one event, which a cached row does not show; an update     *)
(* whose answer is lost has been applied when its caller goes on, or never *)
(* is; time appears as the lapse of the cache, of the cooldown and of an   *)
(* attempt, and a query may take any time.                                 *)
(***************************************************************************)
EXTENDS Integers, FiniteSets

CONSTANTS Attempts,   \* rows of license_ad_challenges the user can have
          Requests,   \* callbacks of ad providers
          Pages,      \* look-ups by the user's pages that may be under way at once
          NoRequest,
          CooldownLimit,   \* rows checkCooldown asks for
          Faults      \* TRUE if database calls may fail and the process may crash

ASSUME KeyAssumption ==
    /\ IsFiniteSet(Attempts)
    /\ IsFiniteSet(Requests)
    /\ IsFiniteSet(Pages)
    /\ NoRequest \notin Requests
    /\ CooldownLimit \in Nat \ {0}
    /\ Faults \in BOOLEAN

VARIABLES
    status,   \* license_ad_challenges.status, "none" if there is no row
    keyOf,    \* license_key_id
    cooling,  \* completed_at lies within the last COOLDOWN_SECONDS
    keys,     \* license_keys: "sent" is an insert that may still land
    start,    \* how far the handler that starts each attempt has come
    older,    \* the attempts it has found and has still to supersede
    pc,       \* how far each request has come
    row,      \* the attempt it completes (challengeRow)
    tail,     \* the user's entry in GENERATION_LOCKS: the last to join
    ahead,    \* the request whose promise each request awaits (previous)
    cache,    \* portalLicenseCache: the unredeemed keys it holds
    reading,  \* what each page's look-up has read and has still to cache
    mishap    \* ghost: something has gone wrong that makes a second key possible

attemptVars == <<start, older>>
rowVars == <<status, keyOf, cooling>>
lockVars == <<tail, ahead>>
cacheVars == <<cache, reading>>
keyVars == <<rowVars, attemptVars, lockVars, cacheVars, keys, pc, row, mishap>>

Open == {"created", "provider_selected", "pending_ad"}
Spent == {"ad_completed", "key_generated"}
Statuses == Open \cup Spent \cup {"none", "failed", "superseded"}
KeyStates == {"none", "sent", "active", "gone"}
StartSteps == {"none", "looked", "allowed", "clean", "inserted", "superseding",
               "selected", "page", "pagenone", "pageclear", "over"}
Critical == {"check", "cooldown", "consume", "conflict", "recheck", "insert",
             "inserting", "duplicate", "fail", "finalize"}
Steps == {"idle", "loaded", "queued", "done"} \cup Critical

\* An answer of the look-up: the keys in it, and the attempts whose key was
\* generated after it was cached (their completed_at is later).
Answers == [valid : BOOLEAN, unredeemed : SUBSET Requests, predates : SUBSET Attempts]
NoCache == [valid |-> FALSE, unredeemed |-> {}, predates |-> {}]
Cached(S) == [valid |-> TRUE, unredeemed |-> S, predates |-> {}]

KeyTypeOK ==
    /\ status \in [Attempts -> Statuses]
    /\ keyOf \in [Attempts -> Requests \cup {NoRequest}]
    /\ cooling \in [Attempts -> BOOLEAN]
    /\ keys \in [Requests -> KeyStates]
    /\ start \in [Attempts -> StartSteps]
    /\ older \in [Attempts -> SUBSET Attempts]
    /\ pc \in [Requests -> Steps]
    /\ row \in [Requests -> Attempts]
    /\ tail \in Requests \cup {NoRequest}
    /\ ahead \in [Requests -> Requests \cup {NoRequest}]
    /\ cache \in Answers
    /\ reading \in [Pages -> Answers]
    /\ mishap \in BOOLEAN

KeyInit ==
    /\ status = [c \in Attempts |-> "none"]
    /\ keyOf = [c \in Attempts |-> NoRequest]
    /\ cooling = [c \in Attempts |-> FALSE]
    /\ keys = [r \in Requests |-> "none"]
    /\ start = [c \in Attempts |-> "none"]
    /\ older = [c \in Attempts |-> {}]
    /\ pc = [r \in Requests |-> "idle"]
    /\ row \in [Requests -> Attempts]
    /\ tail = NoRequest
    /\ ahead = [r \in Requests |-> NoRequest]
    /\ cache = NoCache
    /\ reading = [p \in Pages |-> NoCache]
    /\ mishap = FALSE

-----------------------------------------------------------------------------
(* Look-ups *)

Unredeemed == {r \in Requests : keys[r] = "active"}
OpenAttempts == {c \in Attempts : status[c] \in Open}

\* getPortalUserLicenses: the rows come from the cache while it holds any; only
\* a reading of the database fills it.
Rows == IF cache.valid THEN cache.unredeemed ELSE Unredeemed
Looked == cache' = IF cache.valid THEN cache ELSE Cached(Unredeemed)

\* A reading of the database that answers with an error yields no rows, and
\* these are cached.
LookupErrs ==
    /\ Faults
    /\ ~cache.valid
    /\ cache' = Cached({})
    /\ mishap' = (mishap \/ Unredeemed # {})

\* checkCooldown asks for CooldownLimit rows, latest completed_at first; the
\* database sorts the attempts that have none (not finalised) before all others.
Cooling == \E c \in Attempts : status[c] \in Spent /\ cooling[c]
Cooldown ==
    Cooling /\ Cardinality({c \in Attempts : status[c] = "ad_completed"}) < CooldownLimit

\* Whether q is found wherever it is looked up: neither the answer in the cache
\* nor one that a page has still to put there misses it.
Shown(q) ==
    \A answer \in {cache} \cup {reading[p] : p \in Pages} :
        answer.valid => q \in answer.unredeemed

-----------------------------------------------------------------------------
(* Starting an attempt: startFreshProviderAttempt and executeProviderRedirect *)

StartMoves(c, from, to) ==
    /\ start[c] = from
    /\ start' = [start EXCEPT ![c] = to]
    /\ UNCHANGED <<keyOf, cooling, keys, pc, row, lockVars, reading>>

\* getLicenseGenerationEligibility looks the user's keys up ...
StartLooks(c) ==
    /\ StartMoves(c, "none", "looked")
    /\ \/ Rows = {} /\ Looked /\ UNCHANGED mishap
       \/ LookupErrs
    /\ UNCHANGED <<status, older>>

\* ... and then asks for the cooldown.
StartAllowed(c) ==
    /\ StartMoves(c, "looked", "allowed")
    /\ ~Cooldown \/ Faults
    /\ UNCHANGED <<status, older, cache, mishap>>

\* cleanupExpiredResumableAttempts: any open attempt may have expired.
Expire ==
    \E expired \in SUBSET OpenAttempts :
       status' = [d \in Attempts |-> IF d \in expired THEN "failed" ELSE status[d]]

CleanUp(c) ==
    /\ StartMoves(c, "allowed", "clean")
    /\ Expire
    /\ UNCHANGED <<older, cache, mishap>>

CreateChallenge(c) ==
    /\ StartMoves(c, "clean", "inserted")
    /\ status' = [status EXCEPT ![c] = "created"]
    /\ UNCHANGED <<older, cache, mishap>>

\* supersedeOpenAttemptsExcept reads the other open attempts ...
ReadOpenAttempts(c) ==
    /\ StartMoves(c, "inserted", "superseding")
    /\ \/ older' = [older EXCEPT ![c] = OpenAttempts \ {c}]
       \/ Faults /\ UNCHANGED older
    /\ UNCHANGED <<status, cache, mishap>>

\* ... and updates them one by one, by id, whatever has become of them.
Supersede(c, d) ==
    /\ start[c] = "superseding"
    /\ d \in older[c]
    /\ older' = [older EXCEPT ![c] = @ \ {d}]
    /\ \/ status' = [status EXCEPT ![d] = "superseded"]
       \/ /\ Faults
          /\ status' = [status EXCEPT ![d] = "failed"]
       \/ /\ Faults
          /\ UNCHANGED status
    /\ mishap' = (mishap \/ (status[d] \in Spent /\ status'[d] # status[d]))
    /\ UNCHANGED <<start, keyOf, cooling, keys, pc, row, lockVars, cacheVars>>

\* selectProvider
SelectProvider(c) ==
    /\ older[c] = {}
    /\ status[c] = "created"
    /\ StartMoves(c, "superseding", "selected")
    /\ status' = [status EXCEPT ![c] = "provider_selected"]
    /\ UNCHANGED <<older, cache, mishap>>

\* Mutant: the state is not part of the update's filter.
MarkPendingAnyway(c) ==
    /\ StartMoves(c, "selected", "over")
    /\ status' = [status EXCEPT ![c] = "pending_ad"]
    /\ UNCHANGED <<older, cache, mishap>>

\* Mutant: the status the code still lists but the database no longer knows.
MarkStarted(c) ==
    /\ status[c] \in {"provider_selected", "pending_ad"}
    /\ StartMoves(c, "selected", "over")
    /\ status' = [status EXCEPT ![c] = "ad_started"]
    /\ UNCHANGED <<older, cache, mishap>>

\* markLootLabsPendingById, markLinkvertisePendingById
MarkPending(c) ==
    /\ status[c] \in {"provider_selected", "pending_ad"}
    /\ StartMoves(c, "selected", "over")
    /\ status' = [status EXCEPT ![c] = "pending_ad"]
    /\ UNCHANGED <<older, cache, mishap>>

\* The user is not eligible, the attempt has been superseded meanwhile, or a call
\* has failed.
StartFails(c) ==
    /\ \/ start[c] = "looked" /\ Cooldown
       \/ start[c] = "superseding" /\ older[c] = {} /\ status[c] # "created"
       \/ start[c] = "selected" /\ status[c] \notin {"provider_selected", "pending_ad"}
       \/ Faults /\ start[c] \notin {"none", "over"}
    /\ StartMoves(c, start[c], "over")
    /\ UNCHANGED <<status, older, cache, mishap>>

\* handleKeyStart and findOrCreateResumableChallenge: an attempt that is still
\* open is resumed; with none, or none it can read, the open ones are superseded
\* and a row is created.
PageCleansUp(c) ==
    /\ StartMoves(c, "looked", "page")
    /\ ~Cooldown \/ Faults
    /\ Expire
    /\ UNCHANGED <<older, cache, mishap>>

PageResumes(c) ==
    /\ OpenAttempts # {}
    /\ StartMoves(c, "page", "over")
    /\ UNCHANGED <<status, older, cache, mishap>>

PageFindsNone(c) ==
    /\ OpenAttempts = {} \/ Faults
    /\ StartMoves(c, "page", "pagenone")
    /\ UNCHANGED <<status, older, cache, mishap>>

PageSupersedes(c) ==
    /\ StartMoves(c, "pagenone", "pageclear")
    /\ \/ status' = [d \in Attempts |->
                        IF status[d] \in Open THEN "superseded" ELSE status[d]]
       \/ Faults /\ UNCHANGED status
    /\ UNCHANGED <<older, cache, mishap>>

PageCreates(c) ==
    /\ StartMoves(c, "pageclear", "over")
    /\ status' = [status EXCEPT ![c] = "created"]
    /\ UNCHANGED <<older, cache, mishap>>

StartStep(c) ==
    \/ StartLooks(c) \/ StartAllowed(c)
    \/ CleanUp(c) \/ CreateChallenge(c) \/ ReadOpenAttempts(c)
    \/ \E d \in Attempts : Supersede(c, d)
    \/ SelectProvider(c) \/ MarkPending(c) \/ StartFails(c)
    \/ PageCleansUp(c) \/ PageResumes(c) \/ PageFindsNone(c)
    \/ PageSupersedes(c) \/ PageCreates(c)

-----------------------------------------------------------------------------
(* The callback and the lock: resolveProviderChallenge, withGenerationLock *)

Moves(r, from, to) ==
    /\ pc[r] = from
    /\ pc' = [pc EXCEPT ![r] = to]

\* The row is read, and found to be waiting for its ad.
LoadAttempt(r) ==
    /\ Moves(r, "idle", "loaded")
    /\ status[row[r]] = "pending_ad"
    /\ UNCHANGED <<rowVars, attemptVars, lockVars, keys, row, cacheVars, mishap>>

\* Mutant: the lock's entry is written before it is read.
JoinBehindItself(r) ==
    /\ Moves(r, "loaded", "queued")
    /\ ahead' = [ahead EXCEPT ![r] = r]
    /\ tail' = r
    /\ UNCHANGED <<rowVars, attemptVars, keys, row, cacheVars, mishap>>

Join(r) ==
    /\ Moves(r, "loaded", "queued")
    /\ ahead' = [ahead EXCEPT ![r] = tail]
    /\ tail' = r
    /\ UNCHANGED <<rowVars, attemptVars, keys, row, cacheVars, mishap>>

\* Mutant: nobody waits for the promise of the request ahead.
EnterAtOnce(r) ==
    /\ Moves(r, "queued", "check")
    /\ UNCHANGED <<rowVars, attemptVars, lockVars, keys, row, cacheVars, mishap>>

\* The promise of the request ahead is resolved.
Enter(r) ==
    /\ Moves(r, "queued", "check")
    /\ ahead[r] # NoRequest => pc[ahead[r]] = "done"
    /\ UNCHANGED <<rowVars, attemptVars, lockVars, keys, row, cacheVars, mishap>>

\* The answer, and the finally block of the lock: the promise is resolved, and
\* the entry deleted if nobody has joined since.
Leave(r, from) ==
    /\ Moves(r, from, "done")
    /\ tail' = IF tail = r THEN NoRequest ELSE tail
    /\ UNCHANGED <<ahead, row, attemptVars>>

Proceed(r, from, to) ==
    /\ Moves(r, from, to)
    /\ UNCHANGED <<lockVars, row, attemptVars>>

-----------------------------------------------------------------------------
(* completeAdAndGenerateKey *)

\* A look-up for an unredeemed key: the answer is that key, or on to the next
\* step.  A look-up that throws ends the request.
LookUp(r, from, to) ==
    /\ UNCHANGED <<rowVars, keys, reading>>
    /\ \/ Rows # {} /\ Leave(r, from) /\ Looked /\ UNCHANGED mishap
       \/ Rows = {} /\ Proceed(r, from, to) /\ Looked /\ UNCHANGED mishap
       \/ Proceed(r, from, to) /\ LookupErrs
       \/ Faults /\ ~cache.valid /\ Leave(r, from) /\ UNCHANGED <<cache, mishap>>

Check(r) == LookUp(r, "check", "cooldown")
Recheck(r) == LookUp(r, "recheck", "insert")
Duplicate(r) == LookUp(r, "duplicate", "fail")

\* checkCooldown; when its query fails the request is let through.
CheckCooldown(r) ==
    /\ \/ Cooldown /\ Leave(r, "cooldown") /\ UNCHANGED mishap
       \/ /\ ~Cooldown \/ Faults
          /\ Proceed(r, "cooldown", "consume")
          /\ mishap' = (mishap \/ Cooling)
    /\ UNCHANGED <<rowVars, keys, cacheVars>>

\* Mutant: the attempt's status is not part of the update's filter.
ConsumeAnyway(r) ==
    /\ Proceed(r, "consume", "recheck")
    /\ status' = [status EXCEPT ![row[r]] = "ad_completed"]
    /\ UNCHANGED <<keyOf, cooling, keys, cacheVars, mishap>>

\* The ad is consumed by an update that tests for pending_ad.
Consume(r) ==
    /\ status[row[r]] = "pending_ad"
    /\ Proceed(r, "consume", "recheck")
    /\ status' = [status EXCEPT ![row[r]] = "ad_completed"]
    /\ UNCHANGED <<keyOf, cooling, keys, cacheVars, mishap>>

\* Mutant: an update that matched nothing is taken for one that did.
ConflictIgnored(r) ==
    /\ status[row[r]] # "pending_ad"
    /\ Proceed(r, "consume", "recheck")
    /\ UNCHANGED <<rowVars, keys, cacheVars, mishap>>

\* It matched nothing, or its answer is an error, applied or not.
ConsumeConflicts(r) ==
    /\ Proceed(r, "consume", "conflict")
    /\ \/ /\ Faults \/ status[row[r]] # "pending_ad"
          /\ UNCHANGED status
       \/ /\ Faults
          /\ status[row[r]] = "pending_ad"
          /\ status' = [status EXCEPT ![row[r]] = "ad_completed"]
    /\ UNCHANGED <<keyOf, cooling, keys, cacheVars, mishap>>

\* The status is read again, only to choose the wording of the answer.
AnswerConflict(r) ==
    /\ Leave(r, "conflict")
    /\ UNCHANGED <<rowVars, keys, cacheVars, mishap>>

\* The key is generated, and with it the completed_at of its attempt.
SendInsert(r) ==
    /\ Proceed(r, "insert", "inserting")
    /\ keys' = [keys EXCEPT ![r] = "sent"]
    /\ cache' = IF cache.valid THEN [cache EXCEPT !.predates = @ \cup {row[r]}] ELSE cache
    /\ UNCHANGED <<rowVars, reading, mishap>>

InsertConfirmed(r) ==
    /\ keys[r] \in {"active", "gone"}
    /\ Proceed(r, "inserting", "finalize")
    /\ UNCHANGED <<rowVars, keys, cacheVars, mishap>>

InsertRefused(r) ==
    /\ Faults
    /\ keys[r] = "sent"
    /\ Proceed(r, "inserting", "duplicate")
    /\ keys' = [keys EXCEPT ![r] = "none"]
    /\ UNCHANGED <<rowVars, cacheVars, mishap>>

\* Mutant: a timeout is taken for an answer.
TimeoutTakenForSuccess(r) ==
    /\ Faults
    /\ Proceed(r, "inserting", "finalize")
    /\ mishap' = TRUE
    /\ UNCHANGED <<rowVars, keys, cacheVars>>

\* withSupabaseTimeout gives up: the insert may have landed, or land later.
InsertTimesOut(r) ==
    /\ Faults
    /\ Proceed(r, "inserting", "duplicate")
    /\ mishap' = TRUE
    /\ UNCHANGED <<rowVars, keys, cacheVars>>

\* The attempt is marked failed, by id (or the update fails too).
Fail(r) ==
    /\ Leave(r, "fail")
    /\ \/ status' = [status EXCEPT ![row[r]] = "failed"]
       \/ UNCHANGED status
    /\ UNCHANGED <<keyOf, cooling, keys, cacheVars, mishap>>

\* Mutant: completed_at is not set.
FinalizeUntimed(r) ==
    /\ Leave(r, "finalize")
    /\ IF status[row[r]] = "ad_completed"
       THEN /\ status' = [status EXCEPT ![row[r]] = "key_generated"]
            /\ keyOf' = [keyOf EXCEPT ![row[r]] = r]
            /\ UNCHANGED cooling
       ELSE UNCHANGED rowVars
    /\ UNCHANGED <<keys, cacheVars, mishap>>

\* The key is recorded in the attempt, by an update that tests for
\* ad_completed; that it matches nothing is only logged.
Finalize(r) ==
    /\ Leave(r, "finalize")
    /\ IF status[row[r]] = "ad_completed"
       THEN /\ status' = [status EXCEPT ![row[r]] = "key_generated"]
            /\ keyOf' = [keyOf EXCEPT ![row[r]] = r]
            /\ cooling' = [cooling EXCEPT ![row[r]] = TRUE]
       ELSE UNCHANGED rowVars
    /\ UNCHANGED <<keys, cacheVars, mishap>>

FinalizeFails(r) ==
    /\ Faults
    /\ Leave(r, "finalize")
    /\ mishap' = TRUE
    /\ UNCHANGED <<rowVars, keys, cacheVars>>

RequestStep(r) ==
    \/ LoadAttempt(r) \/ Join(r) \/ Enter(r)
    \/ Check(r) \/ CheckCooldown(r)
    \/ Consume(r) \/ ConsumeConflicts(r) \/ AnswerConflict(r)
    \/ Recheck(r) \/ SendInsert(r)
    \/ InsertConfirmed(r) \/ InsertRefused(r) \/ InsertTimesOut(r)
    \/ Duplicate(r) \/ Fail(r)
    \/ Finalize(r) \/ FinalizeFails(r)

-----------------------------------------------------------------------------
(* The database, the clock and the process *)

InsertLands(r) ==
    /\ keys[r] = "sent"
    /\ keys' = [keys EXCEPT ![r] = "active"]
    /\ UNCHANGED <<rowVars, attemptVars, lockVars, pc, row, cacheVars, mishap>>

\* An insert nobody waits for any more never lands.
InsertLost(r) ==
    /\ keys[r] = "sent"
    /\ pc[r] # "inserting"
    /\ keys' = [keys EXCEPT ![r] = "none"]
    /\ UNCHANGED <<rowVars, attemptVars, lockVars, pc, row, cacheVars, mishap>>

\* The key is redeemed, revoked, deleted or expires.
KeyGone(r) ==
    /\ keys[r] = "active"
    /\ keys' = [keys EXCEPT ![r] = "gone"]
    /\ UNCHANGED <<rowVars, attemptVars, lockVars, pc, row, cacheVars, mishap>>

CacheLapses ==
    /\ cache.valid
    /\ cache' = NoCache
    /\ UNCHANGED <<rowVars, attemptVars, lockVars, keys, pc, row, reading, mishap>>

\* A page, or a handler that has been given up, found nothing in the cache some
\* time ago, and now reads the user's keys ...
PageReads(p) ==
    /\ ~reading[p].valid
    /\ \/ /\ reading' = [reading EXCEPT ![p] = Cached(Unredeemed)]
          /\ UNCHANGED mishap
       \/ /\ Faults
          /\ reading' = [reading EXCEPT ![p] = Cached({})]
          /\ mishap' = (mishap \/ Unredeemed # {})
    /\ UNCHANGED <<rowVars, attemptVars, lockVars, keys, pc, row, cache>>

\* ... and, after the queries that complete its rows, caches them from then on.
PageStores(p) ==
    /\ reading[p].valid
    /\ cache' = reading[p]
    /\ reading' = [reading EXCEPT ![p] = NoCache]
    /\ UNCHANGED <<rowVars, attemptVars, lockVars, keys, pc, row, mishap>>

\* COOLDOWN_SECONDS after completed_at, which may be before the attempt is even
\* finalised.  What was cached by the time of completed_at has lapsed by then
\* (60 s against 8 s), but not what a page has cached since, or is about to,
\* though it read the keys before this one was stored.
CooldownLapses(c) ==
    /\ cooling[c]
    /\ c \notin cache.predates
    /\ cooling' = [cooling EXCEPT ![c] = FALSE]
    /\ mishap' = (mishap \/ (keys[keyOf[c]] = "active" /\ ~Shown(keyOf[c])))
    /\ UNCHANGED <<status, keyOf, keys, attemptVars, lockVars, cacheVars, pc, row>>

\* The portal process ends and is started again; an insert under way may land.
Crash ==
    /\ Faults
    /\ start' = [c \in Attempts |-> IF start[c] = "none" THEN "none" ELSE "over"]
    /\ older' = [c \in Attempts |-> {}]
    /\ pc' = [r \in Requests |-> IF pc[r] = "idle" THEN "idle" ELSE "done"]
    /\ tail' = NoRequest
    /\ cache' = NoCache
    /\ reading' = [p \in Pages |-> NoCache]
    /\ mishap' = (mishap \/ \E r \in Requests : keys[r] = "sent")
    /\ UNCHANGED <<rowVars, keys, row, ahead>>

KeyNext ==
    \/ \E c \in Attempts : StartStep(c) \/ CooldownLapses(c)
    \/ \E r \in Requests : RequestStep(r) \/ InsertLands(r) \/ InsertLost(r) \/ KeyGone(r)
    \/ CacheLapses
    \/ \E p \in Pages : PageReads(p) \/ PageStores(p)
    \/ Crash

KeySpec == KeyInit /\ [][KeyNext]_keyVars

(***************************************************************************)
(* Every database call returns, fails or is given up (30 s at the latest,  *)
(* site/src/db.js), and promises that are resolved run what awaits them.   *)
(***************************************************************************)
KeyFairness ==
    \A r \in Requests : WF_keyVars(RequestStep(r)) /\ WF_keyVars(InsertLands(r))

FairKeySpec == KeySpec /\ KeyFairness

-----------------------------------------------------------------------------
(* Properties *)

\* withGenerationLock, a chain of promises whose entry is deleted by the last:
\* at most one callback of the user is between its first look-up and its answer.
LockExclusive ==
    \A q, r \in Requests : pc[q] \in Critical /\ pc[r] \in Critical => q = r

\* "atomically consume challenge and generate exactly one key": of all the
\* callbacks for an attempt, whatever fails, lands late or is retried, at most
\* one ever has a key inserted.
OneKeyPerAd ==
    \A q, r \in Requests :
        keys[q] # "none" /\ keys[r] # "none" /\ row[q] = row[r] => q = r

\* An attempt that is over is never open again, although the handler that
\* starts it, those that supersede it and the callbacks all write its status.
NeverReopens ==
    [][\A c \in Attempts :
          status[c] \notin Open \cup {"none"} => status'[c] \notin Open \cup {"none"}]_keyVars

\* A key an attempt records has been stored, and was generated for its own ad.
RecordedKeyIsStored ==
    \A c \in Attempts :
        keyOf[c] # NoRequest => keys[keyOf[c]] \in {"active", "gone"} /\ row[keyOf[c]] = c

\* "The only generation guard is the single-active-unredeemed-key check": the
\* user never holds two unredeemed keys.
OneUnredeemedKey == Cardinality(Unredeemed) <= 1

\* Look-ups answered from a cache that no insert clears, together with the
\* cooldown, do keep it to one key, unless one of these happened: a query of
\* keys or of the cooldown failed, attempts never finalised hid the one that
\* cools down, an insert timed out or was cut off by a crash, a final update
\* failed, an attempt already spent was superseded, or queries were so slow that
\* a cooldown ended while a look-up older than its key was still to be served.
SecondKeyNeedsMishap == ~mishap => OneUnredeemedKey

\* The request has consumed its ad, or has (had) a key on its way.
Committed(r) ==
    \/ pc[r] \in {"recheck", "insert", "inserting", "duplicate", "fail", "finalize"}
    \/ keys[r] # "none"

AdState(c) == CASE status[c] = "none" -> "none"
                [] status[c] \in Open -> "open"
                [] OTHER -> "over"

Claims(c) == {r \in Requests : Committed(r) /\ row[r] = c}

Ledger == INSTANCE AdLedger WITH
    Ads <- Attempts,
    Callbacks <- Requests,
    ad <- [c \in Attempts |-> AdState(c)],
    claims <- [c \in Attempts |-> Claims(c)]

\* completeAdAndGenerateKey, among the handlers that start, expire and supersede
\* attempts and whatever fails, is the sale of one key per ad: a claim is made
\* only in the step that ends an open ad, and a key issued only under a claim.
SellsOneKeyPerAd == Ledger!LedgerSpec

\* A callback that waits for the lock is answered.
CallbackAnswered == \A r \in Requests : pc[r] = "queued" ~> pc[r] = "done"
=============================================================================
