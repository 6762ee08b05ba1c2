SPECIFICATION Spec
CONSTANTS
    projA = projA
    projB = projB
    Posters = {p1}
    Regens = {}
    Tasks = {1}
    Ours = {1}
    AutoPost = {1}
    Projects <- OneProject
    ProjectOf <- AllInA
    DueAt <- SecondDueLate
    PageSize = 1
    Drafts = {d1, d2}
    Labels = {regenerate, mastodon}
    UserLabels = {}
    Regenerate = regenerate
    KeyWindowEnds = TRUE
    MaxTime = 1
    MaxEdits = 0
    MaxFaults = 1
    Never = Never
    NoTask = NoTask
INVARIANT
    PostedOnce
