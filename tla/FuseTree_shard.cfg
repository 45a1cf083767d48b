\* A shard of cache/ whose rows come and go while it is listed.
CONSTANTS
    archive = archive  folder = folder  sub = sub  l = l  x = x
    top = top  shard = shard  p = p  q = q  c1 = c1  c2 = c2
    Clients = {c1}
    Root = top
    Children <- ShardTree
    Links = {}
    OnTheFly = {}
    Live = {shard}
    Unstored = {shard}
    MaxRam = 3000
    Names = {shard}
    Block = 1
    MaxInode = 9
    NoNode = NoNode
SPECIFICATION Spec
INVARIANTS NothingMissedUnlessPurged
