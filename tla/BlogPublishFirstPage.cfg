SPECIFICATION FairSpec
CONSTANTS
    projA = projA
    projB = projB
    Posters = {p1}
    Regens = {}
    Tasks = {1, 2}
    Ours = {1, 2}
    AutoPost = {2}
    Projects <- OneProject
    ProjectOf <- AllInA
    DueAt <- SecondDueLate
    PageSize = 1
    Drafts = {d1, d2}
    Labels = {regenerate, mastodon}
    UserLabels = {}
    Regenerate = regenerate
    KeyWindowEnds = FALSE
    MaxTime = 1
    MaxEdits = 0
    MaxFaults = 0
    Never = Never
    NoTask = NoTask
PROPERTY
    DueIsPosted
