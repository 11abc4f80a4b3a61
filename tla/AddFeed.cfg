\* Additions and imports at the same time, and goroutines that outlive them.
SPECIFICATION FairSpec
CONSTANTS
    h1 = h1  h2 = h2  u1 = u1  u2 = u2  w1 = w1  w2 = w2  x1 = x1  x2 = x2  x3 = x3
    Users = {u1, u2}
    Trial = {u1}
    URLs = {x1, x2, x3}
    FeedIDs = {1, 2, 3}
    Handlers = {h1, h2}
    Workers = {w1, w2}
    Limit = 1
    Envs <- AllEnvs
    None = None
INVARIANTS TypeOK OneFeedPerURL LimitOverrun
PROPERTY Answered
