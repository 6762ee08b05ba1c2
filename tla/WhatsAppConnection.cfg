SPECIFICATION FairSpec
CONSTANTS
    MaxDrops = 2
    MaxLogouts = 1
    MaxFaults = 1
    MaxUnpairs = 1
    MaxRestarts = 1
INVARIANTS TypeOK QRMeansUnpaired AsleepMeansConnected
PROPERTY Recovers
\* An idle connection waits for an event that may never come.
CHECK_DEADLOCK FALSE
