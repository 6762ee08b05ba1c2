SPECIFICATION FairSpec
CONSTANTS
    MaxDrops = 0
    MaxLogouts = 0
    MaxFaults = 0
    MaxUnpairs = 1
    MaxRestarts = 0

PROPERTY UnpairOffersQR
\* An idle connection waits for an event that may never come.
CHECK_DEADLOCK FALSE
