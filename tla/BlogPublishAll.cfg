SPECIFICATION FairSpec
CONSTANTS
    projA = projA
    projB = projB
    Posters = {p1}
    Regens = {r1}
    Tasks = {1, 2, 3}
    Ours = {1, 2}
    AutoPost = {2}
    Projects <- OneProject
    ProjectOf <- AllInA
    DueAt <- SecondDueLate
    PageSize = 3
    Drafts = {d1, d2}
    Labels = {regenerate, mastodon}
    UserLabels = {regenerate}
    Regenerate = regenerate
    KeyWindowEnds = TRUE
    MaxTime = 1
    MaxEdits = 2
    MaxFaults = 1
    Never = Never
    NoTask = NoTask
INVARIANTS
    TypeOK
    RecordedIsPosted
    OnlyDueTasksPosted
PROPERTIES
    NeverRepublished
    OthersLeftAlone
    LabelIsStripped
