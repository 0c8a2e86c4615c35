--------------------------- MODULE RecoveryRelay ---------------------------
(***************************************************************************)
(* How the rejoin agent notices that a cloned Roblox package is down and   *)
(* relaunches it.  Three parties share the rows of checker_pointer.py:     *)
(*   - the watchdog thread: one round of supervisor.py _run_watchdog_loop  *)
(*     refreshes the evidence flags, recovers one queued package, detects  *)
(*     every package at once, then for each package in turn applies the    *)
(*     detected status and focuses it (checking_system.py);                *)
(*   - the dead lane of rjn_lifecycle_monitor.py, threads that look for    *)
(*     missing processes and commit Dead without the watchdog;             *)
(*   - the packages themselves: they join, go quiet, crash, get kicked.    *)
(*                                                                         *)
(* The stage is the one after all first launches.  The build is the        *)
(* default one: focused checker on, lime channel and race detector off,    *)
(* hot lane only.                                                          *)
(*                                                                         *)
(* Abstractions: a visible status of which every value makes the watchdog  *)
(* recover (Dead, Disconnected, Join Failed, Failed) is "Dead"; Launching  *)
(* and Waiting are one; of the committed presence only "is it Dead" is     *)
(* kept.  Captcha, wrong game, RAM clean-up, webhooks and the stop of the  *)
(* agent are left out.  Time is the age of a launch and the two timers.    *)
(***************************************************************************)
EXTENDS Integers, Sequences, FiniteSets

CONSTANTS
    N,                 \* packages, numbered in the order of the list; with only
                       \* one, the verdicts are not prefetched
    NoHeartbeatLimit,  \* NO_HEARTBEAT_FOCUS_LIMIT, 7 in the code
    MaxLaunches,       \* RECOVERY_MAX_CONSECUTIVE_LAUNCHES, 3 in the code
    MaxFaults          \* bound: faults of the packages, and missing processes
                       \* the dead lane comes upon, in a run

ASSUME RelayAssumption ==
    /\ N \in Nat \ {0, 1}
    /\ NoHeartbeatLimit \in Nat \ {0}
    /\ MaxLaunches \in Nat \ {0}
    /\ MaxFaults \in Nat

VARIABLES
    \* the packages, and what the monitor makes of them
    proc,         \* "gone", "up" (alive, no heartbeat) or "ingame"
    row,          \* PackageRjnState.internal_state
    kicked,       \* last_with_reason_at is set
    age,          \* since the relaunch: 0 under 8 s and unseen, 1 in the 30 s
                  \* loading grace, 2 past it
    lane,         \* packages a dead-lane thread has found gone and not yet marked
    faults,       \* what MaxFaults bounds, so far
    \* the checker pointer
    dead,         \* committed_presence_state is "Dead"
    pendingDead,  \* raw_dead_evidence_pending
    silent,       \* consecutive_no_heartbeat_focus_count, up to the limit
    queue,        \* recovery_queue
    active,       \* active_recovery_package while recovery_in_progress, or 0
    stageFailed,  \* recovery_stage = "recovery_failed"
    abandoned,    \* unrecoverable_dead_packages
    paused,       \* recovery_pause_checking
    \* the supervisor
    status,       \* status_map
    attempts,     \* _recovery_launch_attempts
    throttled,    \* _recovery_throttle_until lies ahead
    pc, idx,      \* the step of the round and the package of its turn
    target, back, \* the package process_next took, and where it returns to
    seen,         \* the verdicts of _prefetch_package_detection
    burst         \* ghost: relaunches since the last pause or Online

packageVars == <<proc, row, kicked, age, lane, faults>>
pointerVars == <<dead, pendingDead, silent, queue, active, stageFailed, abandoned, paused>>
throttleVars == <<attempts, throttled, burst>>
stepVars == <<pc, idx, target, back>>
supervisorVars == <<status, throttleVars, stepVars, seen>>
relayVars == <<packageVars, pointerVars, supervisorVars>>

Packages == 1..N
Statuses == {"Relaunching", "Launching", "Online", "No Heartbeat", "Dead"}
Steps == {"refresh", "tick", "detect", "apply", "focus", "focusDead",
          "next", "asleep", "launch", "note"}

RelayTypeOK ==
    /\ proc \in [Packages -> {"gone", "up", "ingame"}]
    /\ row \in [Packages -> {"RELAUNCHING", "ONLINE", "DISCONNECTED", "DEAD", "FAILED"}]
    /\ kicked \in [Packages -> BOOLEAN]
    /\ age \in [Packages -> 0..2]
    /\ lane \subseteq Packages
    /\ faults \in 0..MaxFaults
    /\ dead \in [Packages -> BOOLEAN]
    /\ pendingDead \in [Packages -> BOOLEAN]
    /\ silent \in [Packages -> 0..NoHeartbeatLimit]
    /\ queue \in Seq(Packages)
    /\ active \in 0..N
    /\ stageFailed \in BOOLEAN
    /\ abandoned \subseteq Packages
    /\ paused \in BOOLEAN
    /\ status \in [Packages -> Statuses]
    /\ attempts \in [Packages -> Nat]
    /\ throttled \in [Packages -> BOOLEAN]
    /\ pc \in Steps
    /\ idx \in Packages
    /\ target \in 0..N
    /\ back \in {"none", "detect", "focusDead", "advance"}
    /\ seen \in [Packages -> Statuses]
    /\ burst \in [Packages -> Nat]

RelayInit ==
    /\ proc \in [Packages -> {"gone", "ingame"}]
    /\ row = [p \in Packages |-> "ONLINE"]
    /\ kicked = [p \in Packages |-> FALSE]
    /\ age = [p \in Packages |-> 2]
    /\ lane = {}
    /\ faults = 0
    /\ dead = [p \in Packages |-> FALSE]
    /\ pendingDead = [p \in Packages |-> FALSE]
    /\ silent = [p \in Packages |-> 0]
    /\ queue = <<>>
    /\ active = 0
    /\ stageFailed = FALSE
    /\ abandoned = {}
    /\ paused = FALSE
    /\ status = [p \in Packages |-> "Online"]
    /\ attempts = [p \in Packages |-> 0]
    /\ throttled = [p \in Packages |-> FALSE]
    /\ pc = "refresh" /\ idx = 1 /\ target = 0 /\ back = "none"
    /\ seen = [p \in Packages |-> "Online"]
    /\ burst = [p \in Packages |-> 0]

-----------------------------------------------------------------------------
(* The packages.  A fault is a crash, a kick or a client that goes quiet;  *)
(* one that has yet to join, or has gone quiet, may end at any time.       *)

Fault == faults < MaxFaults /\ faults' = faults + 1

Crash(p) ==
    /\ proc[p] # "gone"
    /\ IF proc[p] = "up" THEN UNCHANGED faults ELSE Fault
    /\ proc' = [proc EXCEPT ![p] = "gone"]
    /\ UNCHANGED <<row, kicked, age, lane, pointerVars, supervisorVars>>

GoesQuiet(p) ==
    /\ proc[p] = "ingame" /\ Fault
    /\ proc' = [proc EXCEPT ![p] = "up"]
    /\ UNCHANGED <<row, kicked, age, lane, pointerVars, supervisorVars>>

\* The log line "with reason" of a kick.
Kick(p) ==
    /\ proc[p] = "ingame" /\ Fault
    /\ proc' = [proc EXCEPT ![p] = "up"]
    /\ row' = [row EXCEPT ![p] = "DISCONNECTED"]
    /\ kicked' = [kicked EXCEPT ![p] = TRUE]
    /\ UNCHANGED <<age, lane, pointerVars, supervisorVars>>

\* The user opens a package the agent has not relaunched.
Reopens(p) ==
    /\ proc[p] = "gone" /\ active # p /\ Fault
    /\ proc' = [proc EXCEPT ![p] = "up"]
    /\ UNCHANGED <<row, kicked, age, lane, pointerVars, supervisorVars>>

\* A join marker or a heartbeat in the log, from a client in the game.
IsOnline(p, r) == r = "ONLINE" /\ proc[p] = "ingame"
ConfirmOnline(p) ==
    /\ proc[p] # "gone" /\ ~IsOnline(p, row[p])
    /\ proc' = [proc EXCEPT ![p] = "ingame"]
    /\ row' = [row EXCEPT ![p] = "ONLINE"]
    /\ UNCHANGED <<kicked, age, lane, faults, pointerVars, supervisorVars>>

-----------------------------------------------------------------------------
(* The dead lane.  It looks at the process, and then takes the monitor's   *)
(* lock to mark the row.  The commit that follows outside the lock is      *)
(* taken with the mark: a relaunch in between ends in the same state.      *)

\* _process_missing_dead_eligible, with the 8 s guard of its callers
Eligible(p) == row[p] = "ONLINE" \/ age[p] > 0

\* commit_presence_state(p, "Dead"): a commit consumes the pending flag.
CommitDead(p) ==
    /\ dead' = [dead EXCEPT ![p] = TRUE]
    /\ pendingDead' = [pendingDead EXCEPT ![p] = FALSE]

\* Eight seconds may have passed, or an earlier look found the process alive.
LaneLooks(p) ==
    /\ p \notin lane /\ proc[p] = "gone" /\ Fault
    /\ lane' = lane \cup {p}
    /\ \/ age' = [age EXCEPT ![p] = IF @ = 0 THEN 1 ELSE @]
       \/ UNCHANGED age
    /\ UNCHANGED <<proc, row, kicked, pointerVars, supervisorVars>>

LaneMarks(p) ==
    /\ p \in lane
    /\ lane' = lane \ {p}
    /\ IF row[p] = "DEAD" \/ Eligible(p)
       THEN CommitDead(p) /\ row' = [row EXCEPT ![p] = "DEAD"]
       ELSE UNCHANGED <<row, dead, pendingDead>>
    /\ UNCHANGED <<proc, kicked, age, faults, silent, queue, active, stageFailed, abandoned,
                   paused, supervisorVars>>

-----------------------------------------------------------------------------
(* The recovery queue *)

InQueue(p) == \E i \in 1..Len(queue) : queue[i] = p

\* Mutant: a queued package is queued again.
EnqueuedAgain(p) == IF p \in abandoned \/ active = p THEN queue ELSE Append(queue, p)

\* enqueue_recovery: an abandoned, queued or active package is refused.
Enqueued(p) == IF p \in abandoned \/ active = p \/ InQueue(p) THEN queue
               ELSE Append(queue, p)

\* Mutant: the package is queued and its committed state left as it was.
MarkWithoutCommit(p) == queue' = Enqueued(p) /\ UNCHANGED <<dead, pendingDead>>

\* mark_dead_detected
MarkDead(p) == CommitDead(p) /\ queue' = Enqueued(p)

Without(q, p) ==
    IF \E i \in 1..Len(q) : q[i] = p
    THEN LET i == CHOOSE i \in 1..Len(q) : q[i] = p
         IN  SubSeq(q, 1, i - 1) \o SubSeq(q, i + 1, Len(q))
    ELSE q

\* The sync of committed-Dead packages appends them to q in the order of the
\* rows, which is the order they were first touched in.
Orders(S) == {f \in [1..Cardinality(S) -> S] :
                \A i, j \in 1..Cardinality(S) : i # j => f[i] # f[j]}
Missing(q, given, isDead, current) ==
    {p \in Packages : /\ isDead[p] /\ p \notin given /\ p # current
                      /\ \A i \in 1..Len(q) : q[i] # p}
Synced(q, given, isDead, current) ==
    {q \o s : s \in Orders(Missing(q, given, isDead, current))}

-----------------------------------------------------------------------------
(* process_next_recovery, shared by the start of a round and by the focus. *)
(* It returns to the step named by back.                                   *)

\* Mutant: the round runs one package past the end of the list.
NextTurnTooFar ==
    IF idx <= N THEN idx' = idx + 1 /\ pc' = "apply" ELSE idx' = 1 /\ pc' = "refresh"

NextTurn ==
    IF idx < N THEN idx' = idx + 1 /\ pc' = "apply" ELSE idx' = 1 /\ pc' = "refresh"
Return == /\ IF back = "advance" THEN NextTurn ELSE pc' = back /\ idx' = idx
          /\ target' = 0
          /\ back' = "none"

\* Mutant: checking is resumed only when it is safe to.
ResumeIfSafe == paused' = (queue # <<>>)

\* resume_checking_if_safe: whether it is safe decides the header only.
Resume == paused' = FALSE

\* Mutant: the packages are taken from the other end.
IsHeadOfNewest(i) == /\ i \in 1..Len(queue) /\ queue[i] \notin abandoned
                     /\ \A j \in (i + 1)..Len(queue) : queue[j] \in abandoned

\* dequeue_recovery drops the abandoned packages it meets.
IsHead(i) == /\ i \in 1..Len(queue) /\ queue[i] \notin abandoned
             /\ \A j \in 1..(i - 1) : queue[j] \in abandoned

NothingQueued ==
    /\ pc = "next" /\ active = 0
    /\ \A i \in 1..Len(queue) : queue[i] \in abandoned
    /\ queue' = <<>>
    /\ paused' = FALSE
    /\ Return
    /\ UNCHANGED <<packageVars, dead, pendingDead, silent, active, stageFailed, abandoned,
                   status, throttleVars, seen>>

Dequeue(i) ==
    /\ pc = "next" /\ active = 0 /\ IsHead(i)
    /\ queue' = SubSeq(queue, i + 1, Len(queue))
    /\ target' = queue[i]
    /\ paused' = TRUE

\* _reserve_recovery_launch_attempt refuses before the throttle has run out:
\* the watchdog sleeps the rest, and _handle_state returns without having
\* begun a recovery.
FallAsleep(i) ==
    /\ Dequeue(i) /\ throttled[queue[i]]
    /\ pc' = "asleep"
    /\ UNCHANGED <<packageVars, dead, pendingDead, silent, active, stageFailed, abandoned,
                   status, throttleVars, idx, back, seen>>

\* Mutant: the launch that has just been counted is not.
IsLastAttemptLate(p) == attempts[p] >= MaxLaunches

IsLastAttempt(p) == attempts[p] + 1 >= MaxLaunches

\* Without a throttle, or after it has run out (which nothing but this guard
\* notices): the launcher force-stops the package before it opens it.
BeginRecovery(i) ==
    LET p == queue[i]
        last == IsLastAttempt(p)
    IN
    /\ Dequeue(i)
    /\ attempts' = [attempts EXCEPT ![p] = IF last THEN 0 ELSE @ + 1]
    /\ throttled' = [throttled EXCEPT ![p] = last]
    /\ burst' = [burst EXCEPT ![p] = IF throttled[p] THEN 1 ELSE @ + 1]
    /\ active' = p
    /\ stageFailed' = FALSE
    /\ status' = [status EXCEPT ![p] = "Relaunching"]
    /\ proc' = [proc EXCEPT ![p] = "gone"]
    /\ pc' = "launch"
    /\ UNCHANGED <<row, kicked, age, lane, faults, dead, pendingDead, silent, abandoned,
                   idx, back, seen>>

\* end_recovery of a success forgets the committed Dead.
LaunchSucceeds ==
    /\ pc = "launch"
    /\ \E result \in {"up", "gone"} : proc' = [proc EXCEPT ![target] = result]
    /\ dead' = [dead EXCEPT ![target] = FALSE]
    /\ queue' = Without(queue, target)
    /\ active' = 0
    /\ stageFailed' = FALSE
    /\ Resume
    /\ pc' = "note"
    /\ UNCHANGED <<row, kicked, age, lane, faults, pendingDead, silent, abandoned, status,
                   throttleVars, idx, target, back, seen>>

\* note_launch_watchdog resets the monitor's row, and _handle_state returns.
NoteLaunch ==
    /\ pc = "note"
    /\ row' = [row EXCEPT ![target] = "RELAUNCHING"]
    /\ age' = [age EXCEPT ![target] = 0]
    /\ status' = [status EXCEPT ![target] = "Relaunching"]
    /\ Resume
    /\ Return
    /\ UNCHANGED <<proc, kicked, lane, faults, dead, pendingDead, silent, queue, active,
                   stageFailed, abandoned, throttleVars, seen>>

\* Mutant: the package is not marked, and the sync queues it again.
AbandonUnmarked(p) ==
    /\ queue' \in Synced(Without(queue, p), abandoned, dead, 0)
    /\ active' = 0
    /\ stageFailed' = TRUE
    /\ Resume
    /\ pc' = "next"
    /\ target' = 0
    /\ UNCHANGED <<abandoned, idx, back>>

\* mark_unrecoverable, then the sync and the next package of the queue
Abandon(p) ==
    /\ abandoned' = abandoned \cup {p}
    /\ queue' \in Synced(Without(queue, p), abandoned \cup {p}, dead, 0)
    /\ active' = 0
    /\ stageFailed' = TRUE
    /\ Resume
    /\ pc' = "next"
    /\ target' = 0
    /\ UNCHANGED <<idx, back>>

LaunchFails ==
    /\ pc = "launch"
    /\ Abandon(target)
    /\ status' = [status EXCEPT ![target] = "Dead"]
    /\ UNCHANGED <<packageVars, dead, pendingDead, silent, throttleVars, seen>>

\* The caller judges a recovery that was never begun by the stage the last
\* one left behind.
Wake ==
    /\ pc = "asleep"
    /\ throttled' = [throttled EXCEPT ![target] = FALSE]
    /\ burst' = [burst EXCEPT ![target] = 0]
    /\ IF stageFailed
       THEN Abandon(target)
       ELSE /\ Resume
            /\ Return
            /\ UNCHANGED <<abandoned, queue, active, stageFailed>>
    /\ UNCHANGED <<packageVars, dead, pendingDead, silent, status, attempts, seen>>

-----------------------------------------------------------------------------
(* A round of the watchdog *)

\* Between two rounds a launch may get older.  No window is open then, but for
\* one that ended in the recovery of another package, and its package is dead.
GrowsOlder(p) == age[p] < 2 /\ age'[p] = age[p] + 1

RefreshEvidence ==
    /\ pc = "refresh"
    /\ pendingDead' = [p \in Packages |-> row[p] \in {"DEAD", "DISCONNECTED"}]
    /\ \E older \in SUBSET {p \in Packages : age[p] < 2} :
         age' = [p \in Packages |-> IF p \in older THEN age[p] + 1 ELSE age[p]]
    /\ pc' = "tick"
    /\ UNCHANGED <<proc, row, kicked, lane, faults, dead, silent, queue, active, stageFailed,
                   abandoned, paused, status, throttleVars, idx, target, back, seen>>

TickRoundStart ==
    /\ pc = "tick"
    /\ queue' \in Synced(queue, abandoned, dead, active)
    /\ IF ~paused /\ active = 0 /\ queue' # <<>>
       THEN pc' = "next" /\ back' = "detect"
       ELSE pc' = "detect" /\ back' = back
    /\ UNCHANGED <<packageVars, dead, pendingDead, silent, active, stageFailed, abandoned,
                   paused, status, throttleVars, idx, target, seen>>

\* _detect_android_package_state for a row r.  A kick outlives the session it
\* ended.  No Heartbeat with a live process assigns no state: the exception
\* this raises is read as Dead.
Verdict(p, r) ==
    CASE IsOnline(p, r) -> "Online"
      [] ~IsOnline(p, r) /\ (kicked[p] \/ r \in {"DISCONNECTED", "FAILED", "DEAD"}) -> "Dead"
      [] OTHER ->
           CASE status[p] \in {"Relaunching", "Launching"} ->
                    IF proc[p] = "gone" /\ age[p] = 2 THEN "Dead" ELSE status[p]
             [] status[p] = "Online" ->
                    IF proc[p] = "gone" THEN "Dead"
                    ELSE IF age[p] < 2 THEN "Launching" ELSE "No Heartbeat"
             [] OTHER -> "Dead"

\* evaluate_package marks a missing process at the first or the second look,
\* also a young one that has silent windows to its name, and gives up on an
\* old relaunch that never came online.
DetectAll ==
    /\ pc = "detect"
    /\ \E downs \in SUBSET {p \in Packages : /\ proc[p] = "gone"
                                            /\ (Eligible(p) \/ silent[p] > 0)},
          late \in SUBSET {p \in Packages : row[p] = "RELAUNCHING" /\ age[p] = 2} :
         LET r == [p \in Packages |-> IF p \in downs THEN "DEAD"
                                      ELSE IF p \in late THEN "FAILED" ELSE row[p]]
         IN  /\ row' = r
             /\ dead' = [p \in Packages |-> p \in downs \/ dead[p]]
             /\ pendingDead' = [p \in Packages |-> p \notin downs /\ pendingDead[p]]
             /\ seen' = [p \in Packages |-> Verdict(p, r[p])]
    /\ idx' = 1
    /\ pc' = "apply"
    /\ UNCHANGED <<proc, kicked, age, lane, faults, silent, queue, active, stageFailed,
                   abandoned, paused, status, throttleVars, target, back>>

\* A package seen launching is looked at again if it has a fresh heartbeat.
Applied(p) == IF seen[p] \in {"Launching", "Relaunching"} /\ IsOnline(p, row[p])
              THEN "Online" ELSE seen[p]

ApplyVerdict ==
    /\ pc = "apply"
    /\ status' = [status EXCEPT ![idx] = Applied(idx)]
    /\ IF Applied(idx) = "Online"
       THEN /\ attempts' = [attempts EXCEPT ![idx] = 0]
            /\ throttled' = [throttled EXCEPT ![idx] = FALSE]
            /\ burst' = [burst EXCEPT ![idx] = 0]
       ELSE UNCHANGED throttleVars
    /\ pendingDead' = [pendingDead EXCEPT ![idx] = @ \/ Applied(idx) = "Dead"]
    /\ seen' = [seen EXCEPT ![idx] = "Dead"]
    /\ pc' = "focus"
    /\ UNCHANGED <<packageVars, dead, silent, queue, active, stageFailed, abandoned, paused,
                   idx, target, back>>

CannotFocus == paused \/ active # 0 \/ idx \in abandoned

SkipFocus ==
    /\ pc = "focus" /\ CannotFocus
    /\ NextTurn
    /\ UNCHANGED <<packageVars, pointerVars, status, throttleVars, target, back, seen>>

\* mark_dead_detected, then the next recovery, then handle_focus_dead
FocusOnDead ==
    /\ MarkDead(idx)
    /\ paused' = TRUE
    /\ back' = "focusDead"
    /\ pc' = "next"
    /\ UNCHANGED <<proc, kicked, age, lane, faults, active, stageFailed, abandoned, status,
                   throttleVars, idx, target, seen>>

FocusKnownDead ==
    /\ pc = "focus" /\ ~CannotFocus
    /\ status[idx] = "Dead" \/ pendingDead[idx]
    /\ FocusOnDead
    /\ UNCHANGED <<row, silent>>

InWindow == pc = "focus" /\ ~CannotFocus /\ status[idx] # "Dead" /\ ~pendingDead[idx]
FoundGone == status[idx] = "No Heartbeat" /\ proc[idx] = "gone"

WindowFindsGone ==
    /\ InWindow /\ FoundGone
    /\ row' = [row EXCEPT ![idx] = "DEAD"]
    /\ FocusOnDead
    /\ UNCHANGED silent

\* finish_checking_decision of a package that is not Dead
CommitAlive ==
    /\ dead' = [dead EXCEPT ![idx] = FALSE]
    /\ pendingDead' = [pendingDead EXCEPT ![idx] = FALSE]
    /\ NextTurn
    /\ UNCHANGED <<packageVars, queue, active, stageFailed, abandoned, paused, status,
                   throttleVars, target, back, seen>>

\* Only evidence met inside the window resets the count, not evidence met by
\* the decision at its end.
WindowSeesOnline ==
    /\ InWindow /\ IsOnline(idx, row[idx])
    /\ CommitAlive
    /\ \/ silent' = [silent EXCEPT ![idx] = 0]
       \/ UNCHANGED silent

\* Mutant: a silent window sets the count back.
WindowForgetsSilence ==
    /\ InWindow /\ ~FoundGone /\ ~IsOnline(idx, row[idx])
    /\ silent' = [silent EXCEPT ![idx] = 0]
    /\ CommitAlive

WindowEndsSilent ==
    /\ InWindow /\ ~FoundGone /\ ~IsOnline(idx, row[idx])
    /\ IF silent[idx] + 1 >= NoHeartbeatLimit
       THEN /\ silent' = [silent EXCEPT ![idx] = NoHeartbeatLimit]
            /\ FocusOnDead /\ UNCHANGED row
       ELSE silent' = [silent EXCEPT ![idx] = @ + 1] /\ CommitAlive

HandleFocusDead ==
    /\ pc = "focusDead"
    /\ IF dead[idx] THEN queue' = Enqueued(idx) /\ UNCHANGED <<dead, pendingDead>>
       ELSE MarkDead(idx)
    /\ paused' = TRUE
    /\ back' = "advance"
    /\ pc' = "next"
    /\ UNCHANGED <<packageVars, silent, active, stageFailed, abandoned, status, throttleVars,
                   idx, target, seen>>

-----------------------------------------------------------------------------
Recovery == \/ NothingQueued
            \/ \E i \in 1..Len(queue) : FallAsleep(i) \/ BeginRecovery(i)
            \/ LaunchSucceeds \/ NoteLaunch \/ LaunchFails \/ Wake

Round == RefreshEvidence \/ TickRoundStart \/ DetectAll \/ ApplyVerdict

Focus == \/ SkipFocus \/ FocusKnownDead \/ WindowFindsGone
         \/ WindowSeesOnline \/ WindowEndsSilent \/ HandleFocusDead

Watchdog == Recovery \/ Round \/ Focus

DeadLane(p) == LaneLooks(p) \/ LaneMarks(p)

World(p) == \/ Crash(p) \/ GoesQuiet(p) \/ Kick(p) \/ Reopens(p)
            \/ ConfirmOnline(p)

RelayNext == Watchdog \/ \E p \in Packages : DeadLane(p) \/ World(p)

RelaySpec == RelayInit /\ [][RelayNext]_relayVars

\* The watchdog thread runs, sleeps end and time passes; no package ever has
\* to come back, and no dead-lane thread has to run.
FairRelaySpec == /\ RelaySpec
                 /\ WF_relayVars(Watchdog)
                 /\ \A p \in Packages : SF_relayVars(RefreshEvidence /\ GrowsOlder(p))

-----------------------------------------------------------------------------
(* Every way out of a recovery, a refused or a failed one too, gives the   *)
(* relay back: when the watchdog begins a round, detects or focuses, no    *)
(* recovery is active and checking is not paused.  A recovery under way    *)
(* is the watchdog's own, and pauses checking.  (begin_recovery,           *)
(* end_recovery and the flags _process_next_recovery sets around them.)    *)
RelayNeverLocked ==
    /\ pc \in {"refresh", "tick", "detect", "apply", "focus", "focusDead"} =>
          active = 0 /\ ~paused
    /\ active # 0 => active = target /\ paused

(* The recovery queue holds a package once, never one that was given up    *)
(* and never the one being recovered, whichever of the focus, the sync and *)
(* the failure path queued it.                                             *)
QueueDiscipline ==
    /\ \A i, j \in 1..Len(queue) : queue[i] = queue[j] => i = j
    /\ \A i \in 1..Len(queue) : queue[i] \notin abandoned /\ queue[i] # active

(* A package is relaunched at most MaxLaunches times before the watchdog   *)
(* has slept its throttle out or seen the package Online                   *)
(* (_reserve_recovery_launch_attempt).                                     *)
BurstBounded == \A p \in Packages : burst[p] <= MaxLaunches

(* A step that queues a package leaves it committed Dead: focus, hand-off  *)
(* and sync never queue a package the pointer shows as alive.  (Nothing    *)
(* withdraws the entry when a later window commits it Online.)             *)
OnlyDeadIsQueued ==
    [][\A p \in Packages : InQueue(p)' /\ ~InQueue(p) => dead'[p]]_relayVars

\* The package the watchdog has taken from the queue and not yet dealt with.
Desk == INSTANCE RecoveryDesk WITH
    Clients <- Packages,
    Nobody <- 0,
    line <- queue,
    serving <- IF pc \in {"asleep", "launch"} THEN target ELSE 0,
    gone <- abandoned

(* The relay serves the packages in the order they were queued.  Focus,    *)
(* hand-off and sync only ever add behind the last; the clean-ups of       *)
(* dequeue_recovery, end_recovery and mark_unrecoverable take nobody else  *)
(* out of the queue; and what was given up is never queued again.          *)
ServedInOrder == Desk!DeskSpec

(* A package that is gone, or alive without joining the game, comes back   *)
(* to the game, is relaunched or is given up: neither the other packages'  *)
(* recoveries nor a throttle, a stale status or an early relaunch starves  *)
(* it.                                                                     *)
DownIsRecovered ==
    \A p \in Packages :
        proc[p] # "ingame" ~> (proc[p] = "ingame" \/ active = p \/ p \in abandoned)

(* The rounds go on: the recoveries that follow one another at the end of  *)
(* process_next_recovery come to an end, whatever fails.                   *)
RoundsGoOn == []<>(pc = "refresh")
=============================================================================
