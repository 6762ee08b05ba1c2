SPECIFICATION FairSpec
CONSTANTS
    inbox = inbox
    Workers = {cron, user}
    Folders = {inbox}
    Plan <- Inbox
    MaxUid = 2
    MaxRenumber = 1
    MaxFaults = 1
INVARIANTS
    TypeOK
    NoGap
    OneValidity
PROPERTIES
    MessageIndexed
    NewestIndexed
