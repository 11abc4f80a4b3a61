\* Datastore, one instance: a logout while another request refreshes the session.
SPECIFICATION Spec
CONSTANTS
    i1 = i1  i2 = i2  r1 = r1  r2 = r2  s1 = s1  s2 = s2  u1 = u1  u2 = u2
    SessionIDs = {s1, s2}
    Users = {u1, u2}
    Instances = {i1, i2}
    Requests = {r1, r2}
    SessionTTL = 2
    CacheTTL = 1
    Envs <- LogoutEnvs
    None = None
PROPERTY LogoutEnds
