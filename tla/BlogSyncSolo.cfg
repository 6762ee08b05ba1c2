SPECIFICATION FairSpec
CONSTANTS
    b1 = b1
    b2 = b2
    Workers = {serve}
    Blogs = {b1, b2}
    Runs <- TwoRuns
    Urls = {u1, u2}
    NumCells = 2
    MaxFaults = 1
    NoUrl = NoUrl
INVARIANTS
    TypeOK
    FirstRunSafeUnlessFault
PROPERTIES
    NoTaskForRecordedPost
    EveryPostRecorded
