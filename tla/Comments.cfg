CONSTANTS
    p1 = p1
    p2 = p2
    w1 = w1
    NoPost = NoPost
    Posts <- TwoPosts
    Web <- OneWeb
    MaxFailures = 2
SPECIFICATION CommentsFairSpec
INVARIANTS QueuedUntilFetched OwedStayQueued ArchiveKept
PROPERTIES QueueDrains
