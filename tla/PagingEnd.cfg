\* The list of unread articles on Datastore.
SPECIFICATION Spec
CONSTANTS
    Feeds = {f1, f2}
    Ids = {1, 2, 3}
    Times = {1, 2}
    Cap = 200  NanoMin = 1  Span = 2
    Envs <- UnreadEnvs
    None = None
INVARIANT PagesDisjoint
