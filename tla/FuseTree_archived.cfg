\* Archived directories mounted on the fly, by two clients at a time, with room
\* for one listing.
CONSTANTS
    archive = archive  folder = folder  sub = sub  l = l  x = x
    top = top  shard = shard  p = p  q = q  c1 = c1  c2 = c2
    Clients = {c1, c2}
    Root = archive
    Children <- ArchivedTree
    Links = {l}
    OnTheFly = {archive}
    Live = {}
    Unstored = {}
    MaxRam = 2000
    Names = {folder, sub, x}
    Block = 1
    MaxInode = 7
    NoNode = NoNode
SYMMETRY SymClients
SPECIFICATION Spec
INVARIANTS TypeOK HandlesResolve StreamIsListing LookupIsExact RamAccounted WithinMaxRam
PROPERTY InodesKeepTheirEntry LooksStatic
