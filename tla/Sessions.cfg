\* Logins, logouts, requests, admin changes and the cron on both backends.
SPECIFICATION FairSpec
CONSTANTS
    i1 = i1  i2 = i2  r1 = r1  r2 = r2  s1 = s1  s2 = s2  u1 = u1  u2 = u2
    SessionIDs = {s1, s2}
    Users = {u1, u2}
    Instances = {i1, i2}
    Requests = {r1, r2}
    SessionTTL = 2
    CacheTTL = 1
    Envs <- AllEnvs
    None = None
INVARIANTS TypeOK SessionIdentity
PROPERTIES RevocationBound NoResurrection AdminBound ExpiredRowsRemoved ImplementsService
