\* Lists that are read page by page while they change.
SPECIFICATION FairSpec
CONSTANTS
    Feeds = {f1, f2}
    Ids = {1, 2, 3}
    Times = {0, 1, 2}
    Cap = 200  NanoMin = 1  Span = 2
    Envs <- AllEnvs
    None = None
INVARIANTS TypeOK NoRepeat NoMiss
PROPERTY WalkEnds
