\* One process, its two database files, three requests at a time; the metadata
\* of d is of a kind typify_json raises on.
CONSTANTS
    c = c  d = d  m1 = m1  m2 = m2  t1 = t1  t2 = t2  t3 = t3
    Swhid = {c, d}
    Contents = {c}
    Archived = {c, d}
    Untypable = {d}
    NoSwhid = NoSwhid
    Mounts = {m1}
    Tasks = {t1, t2, t3}
    MountOf <- OneMount
    OnDisk <- AllTables
    Bypass = FALSE
    Asked = {"metadata", "json", "blob", "unlink"}
SYMMETRY SymTasks
SPECIFICATION Spec
INVARIANTS TypeOK NullOnlyAfterPurge DuplicateOnlyAfterRace PurgeSticks NoIdleWriter
