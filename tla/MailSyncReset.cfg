SPECIFICATION FairSpec
CONSTANTS
    inbox = inbox
    Workers = {cron}
    Folders = {inbox}
    Plan <- Inbox
    MaxUid = 3
    MaxRenumber = 1
    MaxFaults = 0
PROPERTIES
    ResyncedMessageIndexed
