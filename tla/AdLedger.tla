------------------------------ MODULE AdLedger ------------------------------
(***************************************************************************)
(* What key generation promises about ads: the ledger of a shop that sells *)
(* one key per ad watched.  An ad is offered, and is over from the moment  *)
(* it is claimed or withdrawn; only an ad on offer can be claimed, by one  *)
(* callback; a key is issued only to a callback with a claim, is settled   *)
(* once, and once gone is never issued again.  Nothing here knows of the   *)
(* lock, of the look-ups and their cache, of the cooldown or of faults.    *)
(* Several ads may be withdrawn, and claims be given up, in one step.      *)
(***************************************************************************)
CONSTANTS Ads, Callbacks

VARIABLES ad,      \* for each ad: "none", "open" or "over"
          claims,  \* for each ad, the callbacks with a claim to its key
          keys     \* for each callback, its key

ledgerVars == <<ad, claims, keys>>

LedgerInit ==
    /\ ad = [c \in Ads |-> "none"]
    /\ claims = [c \in Ads |-> {}]
    /\ keys = [r \in Callbacks |-> "none"]

Stays(c, state) == ad[c] = state /\ ad'[c] = state

Offer(c) ==
    /\ ad[c] = "none" /\ ad'[c] = "open"
    /\ claims'[c] = {}

Withdraw(c) ==
    /\ ad[c] = "open" /\ ad'[c] = "over"
    /\ claims'[c] = {}

Claim(c) ==
    /\ ad[c] = "open" /\ ad'[c] = "over"
    /\ claims[c] = {}
    /\ \E r \in Callbacks : claims'[c] = {r}

GiveUp(c) ==
    /\ Stays(c, "over")
    /\ claims'[c] \subseteq claims[c]

Unsold(c) ==
    /\ Stays(c, "none") \/ Stays(c, "open")
    /\ claims[c] = {} /\ claims'[c] = {}

AdStep(c) == Offer(c) \/ Withdraw(c) \/ Claim(c) \/ GiveUp(c) \/ Unsold(c)

Issue(r) ==
    /\ keys[r] = "none" /\ keys'[r] = "sent"
    /\ \E c \in Ads : ad[c] = "over" /\ r \in claims[c]

Settle(r) ==
    \/ keys[r] = "sent" /\ keys'[r] \in {"active", "none"}
    \/ keys[r] = "active" /\ keys'[r] = "gone"

Untouched(r) == keys'[r] = keys[r]

LedgerStep ==
    /\ \A c \in Ads : AdStep(c)
    /\ \A r \in Callbacks : Issue(r) \/ Settle(r) \/ Untouched(r)

LedgerSpec == LedgerInit /\ [][LedgerStep]_ledgerVars
=============================================================================
