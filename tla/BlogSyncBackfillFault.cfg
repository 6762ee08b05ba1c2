SPECIFICATION Spec
CONSTANTS
    b1 = b1
    b2 = b2
    Workers = {serve}
    Blogs = {b1}
    Runs <- OneRun
    Urls = {u1, u2}
    NumCells = 2
    MaxFaults = 1
    NoUrl = NoUrl
INVARIANT
    FirstRunSafety
