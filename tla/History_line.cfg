\* Logs of two revisions at most, of a line of three: that of h is cut, and leads
\* to every ancestor all the same.  Traversals, of a process started again.
CONSTANTS
    h = h  p = p  q = q  g = g  t1 = t1  t2 = t2
    Revs = {h, p, g}
    Parents <- Line
    NoRev = NoRev
    Backends = {"web", "graph"}
    Limit = 2
    Tasks = {t1, t2}
    ByName <- LineOrder
SYMMETRY SymTasks
SPECIFICATION Spec
INVARIANTS TypeOK HistoryIsAncestors HistoryIsWhole FetchedAreListed QueryIsClosure
