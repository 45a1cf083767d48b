\* An archive of every type of artifact, walked under either graph back-end.
CONSTANTS
    Object <- Archive
    Absent <- NotArchived
    History <- Histories
    Visits <- OriginVisits
    Hash <- Digits
    PageSize = 1
    Unsized = {"c"}
    BackEnds <- Configured
    Typed = {"s", "r2", "e", "x", "t0"}
    Depth = 5
SPECIFICATION Spec
INVARIANTS TypeOK LinksResolve NothingLeftOut NamesAreUnique WalkedIsCached
