SPECIFICATION Spec
CONSTANTS
    feed = feed
    parser = parser
    d1 = d1
    d2 = d2
    Agent = {feed, parser}
    Dispatch = {d1, d2}
    Worker = {w1}
    Request = {r1}
    Mentions <- MCMentions
    Routed = {feed}
    Served = {feed}
    NoTurn = NoTurn
    MaxCalls = 2
    MaxMillis = 1
INVARIANTS
    JobListIsExact
    MessagesCarryTheirOwn
    ProvenanceIsComplete
PROPERTIES
    MentionsAreAnswered
CHECK_DEADLOCK FALSE
