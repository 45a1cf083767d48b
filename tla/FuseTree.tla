------------------------------ MODULE FuseTree ------------------------------
(***************************************************************************)
(* The virtual tree: entries created on demand, the inode table that names *)
(* them to the kernel, and the directory listings kept by DirEntryCache.   *)
(*                                                                         *)
(* A node is what an entry stands for, and is its name in its directory.   *)
(* Each time a directory is computed its children are new entries, with    *)
(* new inodes.  Clients are user processes; a client has one request in    *)
(* the file system at a time.  A step goes from one await that suspends to *)
(* the next, so a readdir that finds its listing is one step.              *)
(***************************************************************************)

EXTENDS Integers, SequencesExt, FiniteSetsExt, Selection

CONSTANTS
    Clients,
    Root,       \* the node of the mount point
    Children,   \* for each directory node, its children in listing order
    Links,      \* entries that await a fetch: symlinks (a blob) and submodules
    OnTheFly,   \* directories that list nothing and look up any child
    Live,       \* directories that list those children that have a row
    Unstored,   \* Live ones DirEntryCache.set passes over
    MaxRam,     \* direntry.maxram
    Names,      \* bound: the names looked up
    Block,      \* entries the kernel's buffer takes in one readdir
    MaxInode,   \* bound on the inodes allocated
    NoNode

Dirs == DOMAIN Children
Nodes == {Root} \cup UNION {ToSet(Children[d]) : d \in Dirs}
Inodes == 1 .. MaxInode

ASSUME TreeAssumption ==
    /\ \A d \in Dirs : Children[d] \in Seq(Nodes) /\ IsInjective(Children[d])
    /\ Root \in Dirs /\ OnTheFly \subseteq Dirs /\ Live \subseteq Dirs \ OnTheFly
    /\ Unstored \subseteq Live
    /\ Links \cap (Dirs \cup UNION {ToSet(Children[d]) : d \in Live}) = {}
    /\ NoNode \notin Nodes

ASSUME BoundAssumption ==
    /\ Names \subseteq Nodes /\ MaxRam \in Nat
    /\ Block \in Nat /\ Block > 0 /\ MaxInode \in Nat /\ MaxInode > 0

VARIABLES
    nodeOf,   \* _inode2entry: what the entry of each inode stands for
    order, held, used,  \* the cache of listings, keyed by inode
    rows,     \* the nodes whose metadata is cached
    known,    \* the inodes the kernel was given
    pc,       \* what each client is doing
    dir,      \* the inode of the directory its request is about
    want,     \* the name it looks up, NoNode in a readdir
    offset,   \* the position of its directory stream
    made,     \* the children created so far for the request
    seen,     \* the names its stream has returned
    got,      \* the inode a lookup returned, 0 for ENOENT
    stable,   \* history: rows there since its stream was opened
    purged    \* history: a row was purged since

INSTANCE DirEntryCache
    WITH Keys <- Nat \ {0}

listings == <<order, held, used>>
client == <<pc, dir, want, offset, made, seen, got, stable, purged>>
vars == <<nodeOf, order, held, used, rows, known, client>>

RowNodes == UNION {ToSet(Children[d]) : d \in Live}

\* The inodes allocated.
Handles == 1 .. Len(nodeOf)

TypeOK ==
    /\ nodeOf \in Seq(Nodes)
    /\ CacheTypeOK
    /\ rows \subseteq RowNodes
    /\ known \subseteq Handles
    /\ pc \in [Clients -> {"idle", "open", "metadata", "link", "answered",
                           "end", "error"}]
    /\ dir \in [Clients -> Handles]
    /\ want \in [Clients -> Nodes \cup {NoNode}]
    /\ offset \in [Clients -> Nat]
    /\ made \in [Clients -> Seq(Handles)]
    /\ seen \in [Clients -> Seq(Nodes)]
    /\ got \in [Clients -> Handles \cup {0}]
    /\ stable \in [Clients -> SUBSET RowNodes]
    /\ purged \in [Clients -> BOOLEAN]

\* Fuse.__init__: the root entry takes the first inode.
Init ==
    /\ nodeOf = <<Root>>
    /\ CacheInit
    /\ rows = {}
    /\ known = {1}
    /\ pc = [c \in Clients |-> "idle"]
    /\ dir = [c \in Clients |-> 1]
    /\ want = [c \in Clients |-> NoNode]
    /\ offset = [c \in Clients |-> 0]
    /\ made = [c \in Clients |-> <<>>]
    /\ seen = [c \in Clients |-> <<>>]
    /\ got = [c \in Clients |-> 0]
    /\ stable = [c \in Clients |-> {}]
    /\ purged = [c \in Clients |-> FALSE]

-----------------------------------------------------------------------------
(* Requests.                                                               *)

KnownDir(i) == i \in known /\ nodeOf[i] \in Dirs

\* compute_entries: the children a directory has now.
Listing(d) ==
    CASE d \in OnTheFly -> <<>>
      [] d \in Live -> Selected(Children[d], rows)
      [] OTHER -> Children[d]

Opendir(c, i) ==
    /\ pc[c] = "idle"
    /\ KnownDir(i)
    /\ pc' = [pc EXCEPT ![c] = "open"]
    /\ dir' = [dir EXCEPT ![c] = i]
    /\ stable' = [stable EXCEPT ![c] = ToSet(Listing(nodeOf[i])) \cap RowNodes]
    /\ UNCHANGED <<nodeOf, listings, rows, known, want, offset, made, seen, got,
                   purged>>

\* Mutant: the block starts with the entry the last one ended with.
MutServe(c, listing) ==
    /\ \E n \in 1 .. Block :
        LET last == Min({Len(listing), offset[c] + n})
            sent == SubSeq(listing, Max({1, offset[c]}), last)
        IN  /\ seen' = [seen EXCEPT ![c] =
                           @ \o [k \in 1 .. Len(sent) |-> nodeOf'[sent[k]]]]
            /\ known' = known \cup ToSet(sent)
            /\ offset' = [offset EXCEPT ![c] = last]
    /\ pc' = [pc EXCEPT ![c] = IF offset[c] >= Len(listing) THEN "end" ELSE "open"]
    /\ UNCHANGED got

\* readdir, given the listing: readdir_reply hands entries to the kernel until
\* its buffer is full.
Serve(c, listing) ==
    /\ \E n \in 1 .. Block :
        LET last == Min({Len(listing), offset[c] + n})
            sent == SubSeq(listing, offset[c] + 1, last)
        IN  /\ seen' = [seen EXCEPT ![c] =
                           @ \o [k \in 1 .. Len(sent) |-> nodeOf'[sent[k]]]]
            /\ known' = known \cup ToSet(sent)
            /\ offset' = [offset EXCEPT ![c] = @ + Len(sent)]
    /\ pc' = [pc EXCEPT ![c] = IF offset[c] >= Len(listing) THEN "end" ELSE "open"]
    /\ UNCHANGED got

\* Mutant: the name is not compared.
MutFind(c, listing, name) ==
    /\ got' = [got EXCEPT ![c] = IF listing = <<>> THEN 0 ELSE listing[1]]
    /\ known' = known \cup ToSet(listing)
    /\ pc' = [pc EXCEPT ![c] = "answered"]
    /\ UNCHANGED <<seen, offset>>

\* Mutant: the name is returned for the inode.
MutFindName(c, listing, name) ==
    /\ got' = [got EXCEPT ![c] = name]
    /\ pc' = [pc EXCEPT ![c] = "answered"]
    /\ UNCHANGED <<seen, offset, known>>

\* lookup, given the listing: the first entry with the name.
Find(c, listing, name) ==
    LET hits == {i \in ToSet(listing) : nodeOf'[i] = name}
    IN  /\ got' = [got EXCEPT ![c] = IF hits = {} THEN 0 ELSE Min(hits)]
        /\ known' = known \cup hits
        /\ pc' = [pc EXCEPT ![c] = "answered"]
        /\ UNCHANGED <<seen, offset>>

Use(c, listing, name) ==
    /\ IF name = NoNode THEN Serve(c, listing) ELSE Find(c, listing, name)
    /\ made' = [made EXCEPT ![c] = <<>>]

Await(c, label, children) ==
    /\ pc' = [pc EXCEPT ![c] = label]
    /\ made' = [made EXCEPT ![c] = children]
    /\ UNCHANGED <<known, seen, offset, got>>

\* get_entries: an empty listing counts as none, and is computed again.
GetEntries(c, i, name) ==
    IF CacheGet(i) # <<>>
      THEN Use(c, CacheGet(i), name)
      ELSE Await(c, "metadata", <<>>)

\* The kernel asks for the next block of the stream.
Readdir(c) ==
    /\ pc[c] = "open"
    /\ UNCHANGED nodeOf
    /\ GetEntries(c, dir[c], NoNode)
    /\ UNCHANGED <<listings, rows, dir, want, stable, purged>>

Lookup(c, i, name) ==
    /\ pc[c] = "idle"
    /\ KnownDir(i)
    /\ dir' = [dir EXCEPT ![c] = i]
    /\ want' = [want EXCEPT ![c] = name]
    /\ UNCHANGED nodeOf
    /\ IF nodeOf[i] \in OnTheFly
         THEN Await(c, "metadata", <<>>)
         ELSE GetEntries(c, i, name)
    /\ UNCHANGED <<listings, rows, stable, purged>>

\* The bound MaxInode, such that a computation begun can end.
RoomFor(n) ==
    LET Unmade(c) == IF pc[c] = "link"
                       THEN Len(Listing(nodeOf[dir[c]])) - Len(made[c]) ELSE 0
    IN  Len(nodeOf) + MapThenSumSet(Unmade, Clients) + n <= MaxInode

\* Mutant: a name is mounted without its metadata.
MutMountArtifact(c) ==
    /\ pc[c] = "metadata"
    /\ nodeOf[dir[c]] \in OnTheFly /\ want[c] # NoNode
    /\ RoomFor(1)
    /\ nodeOf' = Append(nodeOf, want[c])
    /\ got' = [got EXCEPT ![c] = Len(nodeOf')]
    /\ known' = known \cup {Len(nodeOf')}
    /\ pc' = [pc EXCEPT ![c] = "answered"]
    /\ UNCHANGED <<listings, rows, dir, want, offset, made, seen, stable, purged>>

\* ArchiveDir.lookup makes an entry for the name, whatever it made before.
MountArtifact(c) ==
    /\ pc[c] = "metadata"
    /\ nodeOf[dir[c]] \in OnTheFly /\ want[c] # NoNode
    /\ want[c] \in ToSet(Children[nodeOf[dir[c]]])
    /\ RoomFor(1)
    /\ nodeOf' = Append(nodeOf, want[c])
    /\ got' = [got EXCEPT ![c] = Len(nodeOf')]
    /\ known' = known \cup {Len(nodeOf')}
    /\ pc' = [pc EXCEPT ![c] = "answered"]
    /\ UNCHANGED <<listings, rows, dir, want, offset, made, seen, stable, purged>>

\* The position of the next entry after k whose fetch is awaited.
NextLink(listing, k) ==
    Min({j \in k + 1 .. Len(listing) : listing[j] \in Links} \cup {Len(listing) + 1})

\* Mutant: cache/ is kept like any directory.
MutStore(i, children) == CacheSet(i, children)

\* DirEntryCache.set
Store(i, children) ==
    IF nodeOf[i] \in Unstored THEN UNCHANGED listings ELSE CacheSet(i, children)

\* compute_entries goes on after an await: it creates the children up to the
\* next symlink or submodule, the first of them the one whose fetch was awaited (a
\* failure is logged, and a symlink's target stays empty).  After the last child
\* the listing is stored and used.
Compute(c) ==
    LET i == dir[c]
        listing == Listing(nodeOf[i])
        k == Len(made[c])
        awaited == IF pc[c] = "link" THEN k + 1 ELSE k
        last == NextLink(listing, awaited) - 1
        children == made[c] \o [j \in 1 .. last - k |-> Len(nodeOf) + j]
    IN  /\ pc[c] \in {"metadata", "link"}
        /\ nodeOf[i] \in OnTheFly => want[c] = NoNode
        /\ pc[c] = "metadata" => RoomFor(Len(listing))
        /\ nodeOf' = nodeOf \o SubSeq(listing, k + 1, last)
        /\ IF last < Len(listing)
             THEN Await(c, "link", children) /\ UNCHANGED listings
             ELSE Store(i, children) /\ Use(c, children, want[c])
        /\ UNCHANGED <<rows, dir, want, stable, purged>>

\* ENOENT: get_metadata raises, or the SQLite query, or the get_attrs of an entry
\* that readdir has reached.
Fail(c) ==
    /\ pc[c] \in {"open", "metadata"}
    /\ pc' = [pc EXCEPT ![c] = "error"]
    /\ UNCHANGED <<nodeOf, listings, rows, known, dir, want, offset, made, seen,
                   got, stable, purged>>

\* Mutant: the entry allocated last is dropped with the request.
MutDone(c) ==
    /\ pc[c] \in {"answered", "end", "error"}
    /\ pc' = [pc EXCEPT ![c] = "idle"]
    /\ nodeOf' = SubSeq(nodeOf, 1, Max({1, Len(nodeOf) - 1}))
    /\ UNCHANGED <<listings, rows, known, dir, want, offset, made, seen, got,
                   stable, purged>>

\* The client is done with its answer, or with its stream.
Done(c) ==
    /\ pc[c] \in {"answered", "end", "error"}
    /\ pc' = [pc EXCEPT ![c] = "idle"]
    /\ dir' = [dir EXCEPT ![c] = 1]
    /\ want' = [want EXCEPT ![c] = NoNode]
    /\ offset' = [offset EXCEPT ![c] = 0]
    /\ seen' = [seen EXCEPT ![c] = <<>>]
    /\ got' = [got EXCEPT ![c] = 0]
    /\ stable' = [stable EXCEPT ![c] = {}]
    /\ purged' = [purged EXCEPT ![c] = FALSE]
    /\ UNCHANGED <<nodeOf, listings, rows, known, made>>

\* Some request stores the metadata of an artifact.
Remember(n) ==
    /\ n \in RowNodes \ rows
    /\ rows' = rows \cup {n}
    /\ UNCHANGED <<nodeOf, listings, known, client>>

\* rm cache/xx/SWHID
Unlink(i, n) ==
    /\ KnownDir(i)
    /\ nodeOf[i] \in Unstored
    /\ n \in rows \cap ToSet(Children[nodeOf[i]])
    /\ rows' = rows \ {n}
    /\ stable' = [c \in Clients |-> stable[c] \ {n}]
    /\ purged' = [c \in Clients |-> purged[c] \/ pc[c] # "idle"]
    /\ UNCHANGED <<nodeOf, listings, known, pc, dir, want, offset, made, seen, got>>

Step(c) == Readdir(c) \/ MountArtifact(c) \/ Compute(c) \/ Fail(c) \/ Done(c)

Next ==
    \/ \E c \in Clients, i \in Inodes : Opendir(c, i)
    \/ \E c \in Clients, i \in Inodes, n \in Names : Lookup(c, i, n)
    \/ \E c \in Clients : Step(c)
    \/ \E n \in RowNodes : Remember(n)
    \/ \E i \in Inodes, n \in RowNodes : Unlink(i, n)

Spec == Init /\ [][Next]_vars

-----------------------------------------------------------------------------
(* Properties.                                                             *)

\* An inode, once allocated, names the same entry for ever: the kernel may use
\* what it was given after the listing was evicted and computed again.
InodesKeepTheirEntry ==
    [][\A i \in 1 .. Len(nodeOf) :
           i <= Len(nodeOf') /\ nodeOf'[i] = nodeOf[i]]_vars

\* Whatever the kernel holds, and whatever a cached listing holds, resolves.
HandlesResolve ==
    known \cup UNION {ToSet(held[i]) : i \in DOMAIN held} \subseteq 1 .. Len(nodeOf)

\* A stream over an archived directory returns its entries in order, each of
\* them once, whatever is evicted or computed again between two blocks and
\* whoever else lists it; at its end it has returned all of them.
StreamIsListing ==
    \A c \in Clients :
        LET d == nodeOf[dir[c]]
        IN  d \notin Live /\ (pc[c] = "open" \/ pc[c] = "end") =>
                /\ IsPrefix(seen[c], Listing(d))
                /\ pc[c] = "end" => seen[c] = Listing(d)

\* A lookup in an archived directory finds a child under its name and no other.
LookupIsExact ==
    \A c \in Clients :
        LET d == nodeOf[dir[c]]
        IN  pc[c] = "answered" /\ d \notin Live =>
                IF got[c] = 0 THEN want[c] \notin ToSet(Children[d])
                ELSE want[c] = nodeOf[got[c]] /\ want[c] \in ToSet(Children[d])

\* A stream over cache/xx misses no row that was there all along, unless a row
\* was purged meanwhile: rows that come in move the others back, never forward.
NothingMissedUnlessPurged ==
    \A c \in Clients :
        pc[c] = "end" /\ nodeOf[dir[c]] \in Unstored /\ ~purged[c] =>
            stable[c] \subseteq ToSet(seen[c])

-----------------------------------------------------------------------------
(* The tree as clients see it.                                             *)

\* What a client knows of its request.
Status(c) ==
    CASE pc[c] \in {"open", "metadata", "link"} ->
            IF want[c] = NoNode THEN "reading" ELSE "looking"
      [] pc[c] = "answered" -> IF got[c] = 0 THEN "none" ELSE "found"
      [] OTHER -> pc[c]

Tree == INSTANCE ReadOnlyTree
    WITH reached <- {nodeOf[i] : i \in known},
         status <- [c \in Clients |-> Status(c)],
         at <- [c \in Clients |-> nodeOf[dir[c]]],
         sought <- want,
         told <- seen

\* Clients cannot tell the tree from one that is all there from the beginning:
\* inodes allocated on demand, listings that are computed by several of them at
\* once, interrupted, cached and evicted do not show in any answer, in no order
\* of requests.
LooksStatic == Tree!Spec

-----------------------------------------------------------------------------
(* The inductive invariant behind the properties of archived directories.  *)

\* What an archived directory lists, whatever rows there are.
Fixed(d) == IF d \in OnTheFly THEN <<>> ELSE Children[d]

\* The entries, by their inodes, are those of the first children of d.
Partial(table, entries, d) ==
    /\ entries \in Seq(1 .. Len(table))
    /\ d \notin Live =>
           /\ Len(entries) <= Len(Fixed(d))
           /\ \A k \in 1 .. Len(entries) : table[entries[k]] = Fixed(d)[k]

Whole(table, entries, d) ==
    Partial(table, entries, d) /\ (d \notin Live => Len(entries) = Len(Fixed(d)))

TableInv ==
    /\ nodeOf \in Seq(Nodes)
    /\ 1 \in known /\ nodeOf[1] \in Dirs
    /\ known \subseteq Handles

ListingsInv ==
    \A i \in DOMAIN held :
        i \in Handles /\ nodeOf[i] \in Dirs /\ Whole(nodeOf, held[i], nodeOf[i])

\* The names a stream over d has returned.
Returned(names, d) ==
    d \notin Live =>
        /\ Len(names) <= Len(Fixed(d))
        /\ \A k \in 1 .. Len(names) : names[k] = Fixed(d)[k]

RequestInv(c) ==
    LET d == nodeOf[dir[c]]
    IN  /\ dir[c] \in known /\ d \in Dirs
        /\ want[c] \in Nodes \cup {NoNode}
        /\ pc[c] # "link" => made[c] = <<>>
        /\ pc[c] = "link" =>
               /\ d \notin Live /\ Partial(nodeOf, made[c], d)
               /\ Len(made[c]) < Len(Fixed(d))

StreamInv(c) ==
    LET d == nodeOf[dir[c]]
    IN  /\ seen[c] \in Seq(Nodes)
        /\ pc[c] = "idle" => want[c] = NoNode /\ seen[c] = <<>>
        /\ pc[c] \in {"open", "end"} => want[c] = NoNode
        /\ want[c] = NoNode => offset[c] = Len(seen[c]) /\ Returned(seen[c], d)
        /\ pc[c] = "end" /\ d \notin Live => Len(seen[c]) = Len(Fixed(d))

AnswerInv(c) ==
    LET d == nodeOf[dir[c]]
    IN  /\ got[c] \in Handles \cup {0}
        /\ pc[c] = "answered" => want[c] # NoNode
        /\ pc[c] = "answered" /\ d \notin Live =>
               IF got[c] = 0 THEN want[c] \notin ToSet(Children[d])
               ELSE want[c] = nodeOf[got[c]] /\ want[c] \in ToSet(Children[d])

\* Each of a client's variables has a value for each client.
Shapes ==
    /\ DOMAIN pc = Clients /\ DOMAIN dir = Clients /\ DOMAIN want = Clients
    /\ DOMAIN offset = Clients /\ DOMAIN made = Clients
    /\ DOMAIN seen = Clients /\ DOMAIN got = Clients

IInv ==
    /\ Shapes
    /\ TableInv
    /\ ListingsInv
    /\ \A c \in Clients : RequestInv(c) /\ StreamInv(c) /\ AnswerInv(c)

-----------------------------------------------------------------------------
(* What the streams over cache/ rest on.                                   *)

\* DirEntryCache.set keeps no listing of cache/, so each block is cut from the
\* rows of the moment.
NoneKept == \A i \in DOMAIN held : nodeOf[i] \notin Unstored

\* Each of these rows was returned, or the stream is still to come to it.
Ahead(wanted, names, listing, position) ==
    \A n \in wanted :
        \/ n \in ToSet(names)
        \/ \E k \in position + 1 .. Len(listing) : listing[k] = n

AheadInv(c) ==
    LET d == nodeOf[dir[c]]
    IN  want[c] = NoNode /\ pc[c] \in {"open", "metadata"} /\ d \in Unstored /\ ~purged[c]
            => Ahead(stable[c], seen[c], Listing(d), offset[c])

CacheDirInv ==
    /\ NoneKept
    /\ \A c \in Clients : AheadInv(c)
    /\ NothingMissedUnlessPurged

-----------------------------------------------------------------------------
(* What the documentation says, and the code does not do.                  *)

\* cache/ is populated with symlinks to all artifacts, and is what one purges
\* through.  A stream is resumed by its position in the rows of the moment, so
\* a purge between two blocks makes it step over a row that stays.
NothingMissed ==
    \A c \in Clients :
        pc[c] = "end" /\ nodeOf[dir[c]] \in Unstored =>
            stable[c] \subseteq ToSet(seen[c])

=============================================================================
