\* One request at a time on SQLite: mark all as read.
SPECIFICATION Spec
CONSTANTS
    a1 = a1  f1 = f1  r1 = r1  r2 = r2  u1 = u1  u2 = u2
    Users = {u1, u2}
    Feeds = {f1}
    Articles = {a1}
    FeedOf <- OneFeed
    Requests = {r1, r2}
    Envs <- SequentialEnvs
    None = None
PROPERTY StarsKept
