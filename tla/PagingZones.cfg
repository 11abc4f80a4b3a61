\* Articles dated in other zones on SQLite.
SPECIFICATION Spec
CONSTANTS
    Feeds = {f1, f2}
    Ids = {1, 2, 3}
    Times = {1, 2}
    Cap = 200  NanoMin = 1  Span = 2
    Envs <- ZoneEnvs
    None = None
INVARIANT PagesDisjoint
