\* Two users of one origin over two days; requests take up to a tick, and the
\* clock may change by one.
CONSTANTS
    url = url  u1 = u1  u2 = u2
    Urls = {url}
    NoUrl = NoUrl
    Users = {u1, u2}
    Day = 3
    Slow = 1
    Shift = 1
    MaxTime = 6
    MaxVisits = 2
SYMMETRY SymUsers
SPECIFICATION Spec
INVARIANTS TypeOK FreshVisits RegetIsFresh
PROPERTIES LostOnlyByOverlap VisitsOnlyGrow
