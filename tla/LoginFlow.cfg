\* Logins that overlap, are repeated and lose their instance.
SPECIFICATION FairSpec
CONSTANTS
    b1 = b1
    b2 = b2
    i1 = i1
    i2 = i2
    Browsers = {b1, b2}
    Instances = {i1, i2}
    Accounts = {g1, g2}
    UserIds = {u1, u2}
    States = {s1, s2}
    Sessions = {x1, x2}
    Procs = {p1, p2}
    StateTTL = 1
    CodeTTL = 1
    MaxTime = 2
    Envs <- AllEnvs
    None = None
INVARIANTS TypeOK OwnSession StateOnce OneUser
PROPERTIES ImplementsSignIn Forgotten
