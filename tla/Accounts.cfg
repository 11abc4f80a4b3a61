\* Webhooks, administration and the command line on both backends.
SPECIFICATION FairSpec
CONSTANTS
    u1 = u1  u2 = u2  s1 = s1  s2 = s2  p1 = p1  p2 = p2  t1 = t1  t2 = t2
    Users = {u1, u2}
    Subs = {s1, s2}
    Tokens = {t1, t2}
    Procs = {p1, p2}
    Limit = 2
    Envs <- AllEnvs
    None = None
INVARIANTS TypeOK SettledMirrors ActiveWasPaid GrantsKept InfoAgrees
PROPERTIES RevokedStays StatusCatchesUp AdminsRestored
CHECK_DEADLOCK FALSE
