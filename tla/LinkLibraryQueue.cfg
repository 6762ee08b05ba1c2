SPECIFICATION Spec
CONSTANTS
    rss = rss
    rss2 = rss2
    tdo = tdo
    web1 = web1
    article = article
    task = task
    again = again
    memo = memo
    form = form
    tool = tool
    v1 = v1
    v2 = v2
    x = x
    y = y
    Passes = {web1}
    SourceOfPass <- PassKinds
    Items = {form, tool}
    SourceOf <- ItemKinds
    Urls = {v1, v2}
    UrlOf <- TwoUrls
    NoUrl = NoUrl
    Video = {v1}
    Tags = {x, y}
    Labels <- ItemLabels
    AiTags = {y}
    Concurrency = 1
    MaxStars = 2
    Limit = 1
    MaxEdits = 1
    MaxFaults = 0
INVARIANTS
    QueueShowsUnrated
CHECK_DEADLOCK FALSE
