\* Two processes on the same database files, one request each, of every kind.
CONSTANTS
    c = c  d = d  m1 = m1  m2 = m2  t1 = t1  t2 = t2  t3 = t3
    Swhid = {c}
    Contents = {c}
    Archived = {c}
    Untypable = {}
    NoSwhid = NoSwhid
    Mounts = {m1, m2}
    Tasks = {t1, t2}
    MountOf <- PairOfMounts
    OnDisk <- AllTables
    Bypass = FALSE
    Asked = {"metadata", "json", "blob", "unlink"}
SPECIFICATION FairSpec
INVARIANTS PurgeSticks
PROPERTIES BlockedUntilCrash EveryRequestAnswered
