CONSTANTS
    post = post
    draft = draft
    List = List
    r1 = r1
    Pages = {post, draft}
    Drafts = {draft}
    Requests = {r1}
    CleanPublish = TRUE
    MaxEdits = 1
    MaxFailures = 1
SPECIFICATION FairServing
INVARIANTS WriteThrough FreshUnlessLate
PROPERTY EventuallyCurrent
