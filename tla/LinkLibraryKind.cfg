SPECIFICATION Spec
CONSTANTS
    rss = rss
    rss2 = rss2
    tdo = tdo
    web1 = web1
    article = article
    task = task
    again = again
    memo = memo
    form = form
    tool = tool
    v1 = v1
    v2 = v2
    x = x
    y = y
    Passes = {rss, web1}
    SourceOfPass <- PassKinds
    Items = {article, form}
    SourceOf <- ItemKinds
    Urls = {v1}
    UrlOf <- ItemUrls
    NoUrl = NoUrl
    Video = {v1}
    Tags = {x, y}
    Labels <- ItemLabels
    AiTags = {y}
    Concurrency = 1
    MaxStars = 2
    Limit = 2
    MaxEdits = 1
    MaxFaults = 0
PROPERTIES
    KindSurvives
CHECK_DEADLOCK FALSE
