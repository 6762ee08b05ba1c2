SPECIFICATION FairSpec
CONSTANTS
    projA = projA
    projB = projB
    Posters = {}
    Regens = {r1}
    Tasks = {1}
    Ours = {1}
    AutoPost = {1}
    Projects <- OneProject
    ProjectOf <- AllInA
    DueAt <- SecondDueLate
    PageSize = 1
    Drafts = {d1, d2}
    Labels = {regenerate, mastodon}
    UserLabels = {regenerate, mastodon}
    Regenerate = regenerate
    KeyWindowEnds = FALSE
    MaxTime = 0
    MaxEdits = 2
    MaxFaults = 0
    Never = Never
    NoTask = NoTask
PROPERTY
    LabelIsStripped
