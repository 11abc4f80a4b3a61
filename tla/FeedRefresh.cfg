\* Refreshes one after the other and at the same time, with and without the scheduler.
SPECIFICATION FairSpec
CONSTANTS
    a1 = a1  a2 = a2  f1 = f1  f2 = f2  r1 = r1  r2 = r2
    Feeds = {f1, f2}
    Articles = {a1, a2}
    Runs = {r1, r2}
    HalfHour = 1  Hour = 2  SixHours = 3
    Week = 2  Month = 3
    MaxAge = 3
    Envs <- AllEnvs
    None = None
INVARIANTS TypeOK OneCopy EtagFresh
PROPERTIES PublishedStored
