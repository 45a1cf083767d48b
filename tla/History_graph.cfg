\* The compressed graph, on a merge.
CONSTANTS
    h = h  p = p  q = q  g = g  t1 = t1  t2 = t2
    Revs = {h, p, q, g}
    Parents <- Merge
    NoRev = NoRev
    Backends = {"graph"}
    Limit = 4
    Tasks = {t1}
    ByName <- MergeOrder
SPECIFICATION Spec
INVARIANT EdgesAreParents
