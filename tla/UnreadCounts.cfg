\* Every operation on the unread counts, on both backends.
SPECIFICATION Spec
CONSTANTS
    a1 = a1  a2 = a2  f1 = f1  i1 = i1  i2 = i2  r1 = r1  r2 = r2  u1 = u1  u2 = u2
    Users = {u1, u2}
    Feeds = {f1}
    Articles = {a1}
    FeedOf <- OneFeed
    Initially = {}
    Instances = {i1, i2}
    Requests = {r1, r2}
    TTL = 1
    MaxCount = 2
    Envs <- AllEnvs
    None = None
SYMMETRY Symmetry
INVARIANTS TypeOK QuietExact CacheBounded
