SPECIFICATION FairSpec
CONSTANTS
    Ids = {a, b}
    Conns = {c1, c2}
    TopicSet <- MCTopics
    Patterns <- MCPatterns
    MaxRequests = 2
    MaxUnread = 1
    None = None
INVARIANTS
    OnlineIsPolled
    TopicsMatch
PROPERTIES
    ImplementsBroker
    RequestsAreServed
CHECK_DEADLOCK FALSE
