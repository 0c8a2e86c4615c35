------------------------- MODULE LatestWinsMailbox -------------------------
(***************************************************************************)
(* What the enrichment gate promises its callers: every account has a      *)
(* mailbox with a single slot and a single worker.  A new snapshot         *)
(* overwrites the slot ("latest snapshot wins"), the worker runs one       *)
(* snapshot at a time, and a snapshot leaves the slot only by being        *)
(* overwritten or by being run.  Nothing here knows of the wait queue or   *)
(* of the load, and any set of mailboxes may move in one step.             *)
(***************************************************************************)
CONSTANTS Keys,   \* the accounts
          Jobs,   \* the work functions callers may hand in
          NoJob   \* the empty slot

VARIABLES slot,    \* for each account, the snapshot waiting to be enriched
          running  \* for each account, the snapshot being enriched

mailboxVars == <<slot, running>>

MailboxInit ==
    /\ slot = [k \in Keys |-> NoJob]
    /\ running = [k \in Keys |-> NoJob]

Put(k) ==
    /\ slot'[k] \in Jobs
    /\ running'[k] = running[k]

PutAndStart(k) ==
    /\ running[k] = NoJob
    /\ running'[k] \in Jobs
    /\ slot'[k] = NoJob

Start(k) ==
    /\ slot[k] # NoJob
    /\ running[k] = NoJob
    /\ running'[k] = slot[k]
    /\ slot'[k] = NoJob

Finish(k) ==
    /\ running[k] # NoJob
    /\ running'[k] = NoJob
    /\ slot'[k] = slot[k]

FinishAndStart(k) ==
    /\ running[k] # NoJob
    /\ slot[k] # NoJob
    /\ running'[k] = slot[k]
    /\ slot'[k] = NoJob

Idle(k) == slot'[k] = slot[k] /\ running'[k] = running[k]

MailboxStep(k) ==
    Put(k) \/ PutAndStart(k) \/ Start(k) \/ Finish(k) \/ FinishAndStart(k) \/ Idle(k)

MailboxSpec == MailboxInit /\ [][\A k \in Keys : MailboxStep(k)]_mailboxVars
=============================================================================
