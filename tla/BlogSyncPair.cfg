SPECIFICATION Spec
CONSTANTS
    b1 = b1
    b2 = b2
    Workers = {serve, cron}
    Blogs = {b1}
    Runs <- OneRun
    Urls = {u1, u2}
    NumCells = 2
    MaxFaults = 2
    NoUrl = NoUrl
SYMMETRY UrlSymmetry
INVARIANTS
    SeriesComplete
    OneTaskPerCell
    RollbackSparesSaved
