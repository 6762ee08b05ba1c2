SPECIFICATION Spec
CONSTANTS
    rss = rss
    rss2 = rss2
    tdo = tdo
    web1 = web1
    article = article
    task = task
    again = again
    memo = memo
    form = form
    tool = tool
    v1 = v1
    v2 = v2
    x = x
    y = y
    Passes = {rss, web1}
    SourceOfPass <- PassKinds
    Items = {article, task, form, tool}
    SourceOf <- ItemKinds
    Urls = {v1}
    UrlOf <- ItemUrls
    NoUrl = NoUrl
    Video = {v1}
    Tags = {x, y}
    Labels <- ItemLabels
    AiTags = {y}
    Concurrency = 1
    MaxStars = 2
    Limit = 2
    MaxEdits = 2
    MaxFaults = 1
INVARIANTS
    TypeOK
PROPERTIES
    EditsButKindSurvive
CHECK_DEADLOCK FALSE
