CONSTANTS
    p1 = p1
    p2 = p2
    post = post
    layout = layout
    Procs = {p1, p2}
    Content = {post}
    Config = {layout}
    CleanPublish = TRUE
    MaxEdits = 2
SPECIFICATION FairSpec
INVARIANTS OwnChangesBuilt
PROPERTIES CallsReturn
CHECK_DEADLOCK FALSE
