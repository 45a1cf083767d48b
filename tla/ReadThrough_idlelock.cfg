\* Two processes: may one with no request under way keep a lock.
CONSTANTS
    c = c  d = d  m1 = m1  m2 = m2  t1 = t1  t2 = t2  t3 = t3
    Swhid = {c}
    Contents = {c}
    Archived = {c}
    Untypable = {}
    NoSwhid = NoSwhid
    Mounts = {m1, m2}
    Tasks = {t1, t2, t3}
    MountOf <- TwoMounts
    OnDisk <- AllTables
    Bypass = FALSE
    Asked = {"blob"}
SPECIFICATION Spec
INVARIANT IdleLeavesNoLock
