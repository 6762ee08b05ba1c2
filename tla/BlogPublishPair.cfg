SPECIFICATION FairSpec
CONSTANTS
    projA = projA
    projB = projB
    Posters = {p1, p2}
    Regens = {}
    Tasks = {1, 2}
    Ours = {1, 2}
    AutoPost = {2}
    Projects <- TwoProjects
    ProjectOf <- SecondInB
    DueAt <- SecondDueLate
    PageSize = 2
    Drafts = {d1, d2}
    Labels = {regenerate, mastodon}
    UserLabels = {}
    Regenerate = regenerate
    KeyWindowEnds = FALSE
    MaxTime = 1
    MaxEdits = 1
    MaxFaults = 2
    Never = Never
    NoTask = NoTask
INVARIANTS
    PostedOnce
PROPERTIES
    KeepsPromise
    PostedIsClosed
    DueIsPosted
