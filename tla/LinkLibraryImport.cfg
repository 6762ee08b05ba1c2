SPECIFICATION FairSpec
CONSTANTS
    rss = rss
    rss2 = rss2
    tdo = tdo
    web1 = web1
    article = article
    task = task
    again = again
    memo = memo
    form = form
    tool = tool
    v1 = v1
    v2 = v2
    x = x
    y = y
    Passes = {rss, tdo}
    SourceOfPass <- PassKinds
    Items = {article, task, again, memo}
    SourceOf <- ItemKinds
    Urls = {v1}
    UrlOf <- ItemUrls
    NoUrl = NoUrl
    Video = {v1}
    Tags = {x}
    Labels <- ItemLabels
    AiTags = {x}
    Concurrency = 2
    MaxStars = 1
    Limit = 2
    MaxEdits = 0
    MaxFaults = 1
PROPERTIES
    NothingLost
    ItemsDrain
    NewVideoAnalyzed
CHECK_DEADLOCK FALSE
