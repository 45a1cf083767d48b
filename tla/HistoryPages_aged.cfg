\* A line of five, known by logs of two revisions; three revisions to a page.
CONSTANTS
    h = h  p = p  q = q  r = r  g = g  t1 = t1
    Revs = {h, p, q, r, g}
    Parents <- Line
    NoRev = NoRev
    Backends = {"web"}
    Limit = 2
    Tasks = {t1}
    ByName <- NameOrder
    Paged = h
    PageSize = 3
SPECIFICATION PagesSpec
INVARIANT PagesAreHistory
