SPECIFICATION ShardSpec
CONSTANTS
    a1 = a1
    a2 = a2
    Accounts <- MCAccounts
    NoAccount = NoAccount
    MaxUploads <- MCMaxUploads
PROPERTY ShardNeverRegresses
