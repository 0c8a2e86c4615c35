SPECIFICATION FairShardSpec
CONSTANTS
    a1 = a1
    a2 = a2
    Accounts <- MCAccounts
    NoAccount = NoAccount
    MaxUploads <- MCMaxUploads
INVARIANTS ShardTypeOK DirtyIsScheduled OnlyKnownLosses
PROPERTIES OnlyKnownRegressions DirtyDrains
