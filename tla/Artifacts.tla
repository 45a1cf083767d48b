----------------------------- MODULE Artifacts -----------------------------
(***************************************************************************)
(* The tree that the mount point shows of an archive, and a process that   *)
(* walks it: what each directory computes from the metadata of either      *)
(* back-end, and the relative targets of its symlinks.  Where these should *)
(* lead is in ArtifactLinks.                                               *)
(*                                                                         *)
(* A name is a string; a path, a symlink's target, the name of a branch    *)
(* and a date are sequences of names.  An entry is a record, "part" is     *)
(* what it is made from besides its SWHID (a prefix, a page, the parents,  *)
(* a snapshot).  Listings are computed anew at each use; the cache of      *)
(* listings is FuseTree's subject.                                         *)
(***************************************************************************)

EXTENDS Integers, SequencesExt, FiniteSetsExt, Selection, TLC

CONSTANTS
    Object,     \* the archived objects, by SWHID
    Absent,     \* the types of SWHIDs that are referenced, not archived
    History,    \* for each revision, what Fuse.get_history returns
    Visits,     \* for each origin, its visits in order
    Hash,       \* the first SHARDING_LENGTH digits of each SWHID's id
    PageSize,   \* PAGE_SIZE
    Unsized,    \* contents that the graph's traversal of lengths leaves out
    BackEnds,   \* the configured pairs of back-ends
    Typed,      \* bound: the names that are typed in archive/
    Depth       \* bound: the levels of a listing that LinksUnder looks at

Archived == DOMAIN Object
Swhids == Archived \cup DOMAIN Absent
Origins == DOMAIN Visits
Json(s) == s \o ".json"
PageName(n) == "00" \o ToString(n)
JsonNames == {Json(s) : s \in Swhids}
TypeOf(s) == IF s \in Archived THEN Object[s].type ELSE Absent[s]
IsA(type, s) == TypeOf(s) = type
Revisions == {s \in Archived : IsA("rev", s)}
NoSwhid == "-"

\* The objects of an archive.  A branch has a target or is the alias of a path;
\* its name has a part for each directory that it is shown in.
Contents == [type : {"cnt"}, length : Nat, skipped : BOOLEAN, link : Seq(STRING)]
Edges == [name : STRING, perms : {"file", "link", "dir", "rev"}, target : Swhids]
Directories == [type : {"dir"}, entries : SUBSET Edges]
Commits == [type : {"rev"}, directory : Swhids, parents : Seq(Swhids), date : [1 .. 3 -> STRING]]
Releases == [type : {"rel"}, target : Swhids]
Branches ==
    [name : Seq(STRING) \ {<<>>}, target : Swhids]
    \cup [name : Seq(STRING) \ {<<>>}, alias : Seq(STRING)]
Snapshots == [type : {"snp"}, branches : SUBSET Branches]

ASSUME ArchiveAssumption ==
    \A s \in Archived :
        /\ Object[s] \in Contents \cup Directories \cup Commits \cup Releases \cup Snapshots
        /\ IsA("dir", s) =>
              /\ \A d, f \in Object[s].entries : d.name = f.name => d = f
              /\ \A d \in Object[s].entries : d.perms = "dir" => IsA("dir", d.target)

\* A history has each revision once; a visit has a snapshot or none.
ASSUME HistoryAssumption ==
    /\ History \in [Revisions -> Seq(Revisions)]
    /\ \A s \in Revisions : IsInjective(History[s])
    /\ \A u \in Origins :
          /\ Visits[u] \in Seq([date : STRING, snapshot : Seq(Swhids)])
          /\ \A i \in DOMAIN Visits[u] : Len(Visits[u][i].snapshot) <= 1

\* A SWHID ends with the digits of a hash; its document's name, and the number of
\* a parent, are those of no other.
ASSUME NamesAssumption ==
    /\ \A s, t \in Swhids : Json(s) # t /\ (Json(s) = Json(t) => s = t)
    /\ \A s \in Swhids : Hash[s] # "origin"
    /\ \A s \in Revisions :
          \A i, j \in DOMAIN Object[s].parents : ToString(i) = ToString(j) => i = j

ASSUME ConfigurationAssumption ==
    /\ BackEnds \subseteq {"web", "compressed"} \X {"web", "storage", "objstorage"}
    /\ PageSize \in Nat \ {0}
    /\ Depth \in Nat \ 0 .. 3
    /\ \A s \in Archived : IsA("snp", s) => \A b \in Object[s].branches : Len(b.name) <= Depth

VARIABLES
    graph,    \* the graph back-end: "web" or "compressed"
    content,  \* the content back-end: "web", "storage" or "objstorage"
    rows,     \* the SWHIDs whose metadata is cached
    stack,    \* the entries from the mount point to where the walker is
    todo,     \* the names it still has to walk
    from,     \* the names of the symlink that it follows, <<>> if none
    result    \* how its last walk or read ended

vars == <<graph, content, rows, stack, todo, from, result>>

Here == Last(stack)

-----------------------------------------------------------------------------
(* What the back-ends return.                                              *)

\* The node of the graph: its successors, each with the labels of the edges
\* that lead to it.  Aliases are no edges.
Successors(s) ==
    LET edges == IF IsA("dir", s) THEN Object[s].entries
                 ELSE {b \in Object[s].branches : "target" \in DOMAIN b}
    IN  {[target |-> t, labels |-> {e \in edges : e.target = t}] :
            t \in {e.target : e \in edges}}

\* Mutant: each successor has one label.
MutLabelled(s) == {CHOOSE l \in n.labels : TRUE : n \in Successors(s)}

Labelled(s) == UNION {n.labels : n \in Successors(s)}

\* CompressedGraphBackend.get_metadata.  The successors of a revision come in
\* the order of the graph, so parents are told from the directory by their type,
\* and a repeated one comes once.
FromGraph(s) ==
    CASE IsA("snp", s) -> [Object[s] EXCEPT !.branches = Labelled(s)]
      [] IsA("dir", s) -> [Object[s] EXCEPT !.entries = Labelled(s)]
      [] IsA("rev", s) -> [Object[s] EXCEPT !.parents = SetToSeq(ToSet(@))]
      [] OTHER -> Object[s]

Metadata(s) == IF graph = "compressed" THEN FromGraph(s) ELSE Object[s]

\* The bytes of a content come: ObjStorageBackend.get_blob, without objstorage,
\* takes empty ones for none.
BlobComes(s) ==
    /\ s \in Archived /\ ~Object[s].skipped
    /\ content = "storage" => Object[s].length > 0

-----------------------------------------------------------------------------
(* Entries.                                                                *)

\* FuseEntry.create_child
Child(e, kind, name, swhid, part) ==
    [kind |-> kind, name |-> name, depth |-> e.depth + 1, swhid |-> swhid,
     part |-> part, sized |-> TRUE, lost |-> {}]

Link(e, name, target) == Child(e, "link", name, NoSwhid, target)

\* Mutant: the mount point is counted.
MutUp(e) == [i \in 1 .. e.depth |-> ".."]

\* get_relative_root_path: the mount point has depth 1.
Up(e) == [i \in 1 .. e.depth - 1 |-> ".."]

ToArchive(e, name, s) == Link(e, name, Up(e) \o <<"archive", s>>)

Root == [kind |-> "root", name |-> "", depth |-> 1, swhid |-> NoSwhid,
         part |-> <<>>, sized |-> TRUE, lost |-> {}]

RootEntries ==
    {Child(Root, n, n, NoSwhid, <<>>) : n \in {"archive", "origin", "cache", "README"}}

\* Directory.compute_entries: a symlink whose blob does not come has an empty
\* target, and a length that did not come is missed by get_attrs.
DirectoryEntry(e, d) ==
    CASE d.perms = "link" ->
            Link(e, d.name, IF BlobComes(d.target) /\ d.target \notin e.lost
                              THEN Object[d.target].link ELSE <<>>)
      [] d.perms = "file" ->
            [Child(e, "cnt", d.name, d.target, <<>>) EXCEPT !.sized =
                graph = "compressed" => d.target \notin Unsized]
      [] d.perms = "dir" -> Child(e, "dir", d.name, d.target, <<>>)
      [] d.perms = "rev" -> ToArchive(e, d.name, d.target)

Directory(e) == {DirectoryEntry(e, d) : d \in Metadata(e.swhid).entries}

Revision(e) ==
    LET m == Metadata(e.swhid)
    IN  {ToArchive(e, "root", m.directory), ToArchive(e, "meta.json", Json(e.swhid)),
         Child(e, "parents", "parents", NoSwhid, m.parents),
         Child(e, "history", "history", e.swhid, <<>>)}
        \cup (IF m.parents = <<>> THEN {} ELSE {Link(e, "parent", <<"parents", "1">>)})

RevisionParents(e) == {ToArchive(e, ToString(i), e.part[i]) : i \in DOMAIN e.part}

RevisionHistory(e) ==
    {Child(e, n, n, e.swhid, <<>>) : n \in {"by-date", "by-hash", "by-page"}}

\* One directory for each name, however many artifacts it is for.
Shards(e, names) == {Child(e, e.kind, n, e.swhid, Append(e.part, n)) : n \in names}

Leaves(e, swhids) == {ToArchive(e, s, s) : s \in swhids}

\* The history is joined with the cached metadata, which has the dates.
ShardByDate(e) ==
    LET dated == {s \in ToSet(History[e.swhid]) \cap rows : IsPrefix(e.part, Object[s].date)}
    IN  IF Len(e.part) = 3 THEN Leaves(e, dated)
        ELSE Shards(e, {Object[s].date[Len(e.part) + 1] : s \in dated})

ShardByHash(e) ==
    LET history == ToSet(History[e.swhid])
    IN  IF e.part = <<>> THEN Shards(e, {Hash[s] : s \in history})
        ELSE Leaves(e, {s \in history : Hash[s] = e.part[1]})

Page(history, n) == Slice(history, PageSize, n)

ShardByPage(e) ==
    LET history == History[e.swhid]
        pages == {i \div PageSize : i \in 0 .. Len(history) - 1}
    IN  IF e.part = <<>> THEN Shards(e, {PageName(n) : n \in pages})
        ELSE UNION {Leaves(e, ToSet(Page(history, n))) :
                       n \in {k \in pages : PageName(k) = e.part[1]}}

\* find_root_directory
RootOf[s \in Swhids] ==
    CASE IsA("rel", s) -> RootOf[Object[s].target]
      [] IsA("rev", s) -> Object[s].directory
      [] IsA("dir", s) -> s
      [] OTHER -> NoSwhid

Release(e) ==
    LET target == Metadata(e.swhid).target
    IN  {ToArchive(e, "meta.json", Json(e.swhid)), ToArchive(e, "target", target),
         Child(e, "target_type", "target_type", NoSwhid, <<>>)}
        \cup (IF RootOf[target] = NoSwhid THEN {} ELSE {ToArchive(e, "root", RootOf[target])})

\* os.path.relpath
RelPath(target, dir) ==
    LET common == Max({n \in 0 .. Min({Len(target), Len(dir)}) :
                          SubSeq(target, 1, n) = SubSeq(dir, 1, n)})
    IN  [i \in 1 .. Len(dir) - common |-> ".."]
        \o SubSeq(target, common + 1, Len(target))

\* A branch is a link in the directory that its name says.
BranchLink(e, b) ==
    IF "alias" \in DOMAIN b
      THEN Link(e, Last(b.name), RelPath(b.alias, Front(b.name)))
      ELSE ToArchive(e, Last(b.name), b.target)

Snapshot(e) ==
    LET k == Len(e.part) + 1
        below == {b \in Metadata(e.swhid).branches : IsStrictPrefix(e.part, b.name)}
        here == {b \in below : Len(b.name) = k}
    IN  {BranchLink(e, b) : b \in here} \cup Shards(e, {b.name[k] : b \in below \ here})

\* Mutant: the visits of a day that are in conflict are kept all the same.
MutKept(visits, i) == TRUE

\* "seen_date": of the visits of a day the first one is kept.
FirstOfDay(visits, i) == ~\E j \in DOMAIN visits : j < i /\ visits[j].date = visits[i].date

Origin(e) ==
    LET visits == Visits[e.name]
    IN  {Child(e, "visit", visits[i].date, NoSwhid, visits[i].snapshot) :
            i \in {j \in DOMAIN visits : FirstOfDay(visits, j)}}

OriginVisit(e) ==
    {ToArchive(e, "snapshot", s) : s \in ToSet(e.part)}
    \cup {Child(e, "visitmeta", "meta.json", NoSwhid, <<>>)}

CacheDir(e) ==
    {Child(e, "shard", h, NoSwhid, <<h>>) : h \in {Hash[s] : s \in rows}}
    \cup {Link(e, "origin", Up(e) \o <<"origin">>)}

ArtifactShardBySwhid(e) ==
    LET mine == {s \in rows : Hash[s] = e.part[1]}
    IN  Leaves(e, mine) \cup {ToArchive(e, Json(s), Json(s)) : s \in mine}

\* compute_entries.  Those of archive/ are mounted, not listed.
Entries(e) ==
    CASE e.kind = "root" -> RootEntries
      [] e.kind = "dir" -> Directory(e)
      [] e.kind = "rev" -> Revision(e)
      [] e.kind = "parents" -> RevisionParents(e)
      [] e.kind = "history" -> RevisionHistory(e)
      [] e.kind = "by-date" -> ShardByDate(e)
      [] e.kind = "by-hash" -> ShardByHash(e)
      [] e.kind = "by-page" -> ShardByPage(e)
      [] e.kind = "rel" -> Release(e)
      [] e.kind = "snp" -> Snapshot(e)
      [] e.kind = "url" -> Origin(e)
      [] e.kind = "visit" -> OriginVisit(e)
      [] e.kind = "cache" -> CacheDir(e)
      [] e.kind = "shard" -> ArtifactShardBySwhid(e)
      [] OTHER -> {}

-----------------------------------------------------------------------------
(* The walker.                                                             *)

Files == {"cnt", "meta", "README", "target_type", "visitmeta"}
Kinds == Files \cup {"root", "archive", "origin", "cache", "dir", "rev", "parents",
            "history", "by-date", "by-hash", "by-page", "rel", "snp", "url", "visit",
            "shard"}

\* What find_root_directory fetches.
RootChain[s \in Swhids] ==
    CASE IsA("rel", s) -> {s} \cup (IF s \in Archived THEN RootChain[Object[s].target] ELSE {})
      [] IsA("rev", s) -> {s}
      [] OTHER -> {}

\* The metadata without which compute_entries raises.
Needed(e) ==
    CASE e.kind = "rel" -> RootChain[e.swhid]
      [] e.kind \in {"dir", "rev", "snp"} -> {e.swhid}
      [] OTHER -> {}

\* What get_entries returns of a directory; without its metadata it raises.
Computed(e) == IF Needed(e) \subseteq Archived THEN Entries(e) ELSE {}

\* Fuse.readdir awaits the attributes of one entry after the other: when those of
\* one do not come, the listing ends in ENOENT, for the others as well.
Served(entries) == IF \A f \in entries : f.sized THEN entries ELSE {}

Listed(e) == Served(Computed(e))

\* What it would also have: submodules, and with the log of a history its
\* revisions, unless the edges were cached.
AlsoFetched(e) ==
    CASE e.kind = "dir" ->
            {{d.target : d \in {f \in Object[e.swhid].entries : f.perms = "rev"}} \cap Archived}
      [] e.kind \in {"by-date", "by-hash", "by-page"} /\ graph = "web" ->
            {{}, {e.swhid} \cup ToSet(History[e.swhid])}
      [] OTHER -> {{}}

\* ENTRIES_REGEXP
Accepts(e, name) ==
    /\ e.kind = "archive" => name \in Swhids \cup JsonNames
    /\ e.kind = "shard" => name \notin JsonNames

\* Mutant: an artifact is mounted before its metadata is awaited.
MutMount(e, name) ==
    {Child(e, "meta", name, s, <<>>) : s \in {t \in Archived : Json(t) = name}}
    \cup {Child(e, TypeOf(s), s, s, <<>>) : s \in {t \in Swhids : t = name}}

\* ArchiveDir.lookup and the attributes of its answer: the size of a document is
\* that of its content.
Mount(e, name) ==
    {Child(e, "meta", name, s, <<>>) : s \in {t \in Archived : Json(t) = name}}
    \cup {Child(e, TypeOf(s), s, s, <<>>) :
             s \in {t \in Archived : t = name /\ (IsA("cnt", t) => BlobComes(t))}}

\* A snapshot lists its branches before its directories.
First(hits) == IF \E h \in hits : h.kind = "link" THEN {h \in hits : h.kind = "link"} ELSE hits

\* Fuse.lookup: no entry for ENOENT.  Of what was computed, only the one that has
\* the name is asked for its attributes.
Lookup(e, name) ==
    IF ~Accepts(e, name) THEN {}
    ELSE CASE e.kind = "archive" -> Mount(e, name)
           [] e.kind = "origin" -> {Child(e, "url", u, NoSwhid, <<>>) : u \in {name} \cap Origins}
           [] OTHER -> {h \in First({f \in Computed(e) : f.name = name}) : h.sized}

Path(entries) == [i \in 1 .. Len(entries) - 1 |-> entries[i + 1].name]

Init ==
    /\ \E b \in BackEnds : graph = b[1] /\ content = b[2]
    /\ rows = {}
    /\ stack = <<Root>>
    /\ todo = <<>>
    /\ from = <<>>
    /\ result = "there"

AtRest == todo = <<>> /\ result = "there"

\* The walker sets off for a name that it has listed, knows from elsewhere, or types.
Go ==
    /\ AtRest
    /\ \E name \in {e.name : e \in Computed(Here)}
                   \cup (CASE Here.kind = "archive" -> Typed
                           [] Here.kind = "origin" -> Origins
                           [] OTHER -> {}) :
           todo' = <<name>>
    /\ from' = <<>>
    /\ result' = "walking"
    /\ UNCHANGED <<graph, content, rows, stack>>

Arrive == result' = IF todo' = <<>> THEN "there" ELSE "walking"

\* The kernel goes up by itself.
Ascend ==
    /\ result = "walking"
    /\ todo[1] = ".."
    /\ IF Len(stack) = 1
         THEN result' = "outside" /\ UNCHANGED <<stack, todo>>
         ELSE stack' = Front(stack) /\ todo' = Tail(todo) /\ Arrive
    /\ UNCHANGED <<graph, content, rows, from>>

\* The blobs of a directory's symlinks that will not come when it is computed.
MayLose(e) ==
    IF e.kind = "dir" /\ e.swhid \in Archived
      THEN SUBSET {d.target : d \in {f \in Object[e.swhid].entries : f.perms = "link"}}
      ELSE {{}}

\* The metadata that a lookup in e leaves in the cache.
Fetch(e) ==
    {Needed(e) \cup also : also \in AlsoFetched(e)}

\* Mutant: what is mounted is not remembered.
MutRemembered(e) == {}

\* get_metadata, called to mount an artifact or to read its document.
Remembered(e) == IF Here.kind = "archive" THEN {e.swhid} ELSE {}

\* The kernel looks up one name, and goes on with the target of a symlink.
Descend ==
    /\ result = "walking"
    /\ todo[1] # ".."
    /\ \E hit \in Lookup(Here, todo[1]), fetched \in Fetch(Here) :
        /\ rows' = rows \cup fetched \cup Remembered(hit)
        /\ IF hit.kind = "link"
             THEN /\ hit.part # <<>>
                  /\ todo' = hit.part \o Tail(todo)
                  /\ from' = IF from = <<>> THEN Append(Path(stack), hit.name) ELSE from
                  /\ UNCHANGED stack
             ELSE /\ hit.kind \in Files => Tail(todo) = <<>>
                  /\ \E lost \in MayLose(hit) :
                        stack' = Append(stack, [hit EXCEPT !.lost = lost])
                  /\ todo' = Tail(todo)
                  /\ UNCHANGED from
    /\ Arrive
    /\ UNCHANGED <<graph, content>>

\* ENOENT: no metadata, no such entry, or an empty target; and ENOTDIR.
Miss ==
    /\ result = "walking"
    /\ todo[1] # ".."
    /\ \A hit \in Lookup(Here, todo[1]) :
          IF hit.kind = "link" THEN hit.part = <<>>
          ELSE hit.kind \in Files /\ Tail(todo) # <<>>
    /\ from' = IF from = <<>> THEN Append(Path(stack), todo[1]) ELSE from
    /\ result' = "missing"
    /\ UNCHANGED <<graph, content, rows, stack, todo>>

\* Fuse.read
Read ==
    /\ AtRest
    /\ Here.kind \in Files
    /\ result' = IF Here.kind = "cnt" /\ ~BlobComes(Here.swhid) THEN "unreadable" ELSE "read"
    /\ UNCHANGED <<graph, content, rows, stack, todo, from>>

\* The walker begins again at the mount point.
Again ==
    /\ todo = <<>> \/ result \in {"missing", "outside"}
    /\ stack # <<Root>> \/ result # "there"
    /\ stack' = <<Root>>
    /\ todo' = <<>>
    /\ from' = <<>>
    /\ result' = "there"
    /\ UNCHANGED <<graph, content, rows>>

\* rm cache/xx/SWHID; SWHID.json names it as well.
Unlink ==
    /\ AtRest
    /\ Here.kind = "shard"
    /\ \E s \in {t \in rows : Hash[t] = Here.part[1]} : rows' = rows \ {s}
    /\ UNCHANGED <<graph, content, stack, todo, from, result>>

Next == Go \/ Ascend \/ Descend \/ Miss \/ Read \/ Again \/ Unlink

Spec == Init /\ [][Next]_vars

-----------------------------------------------------------------------------
(* Properties.                                                             *)

TypeOK ==
    /\ <<graph, content>> \in BackEnds
    /\ rows \subseteq Archived
    /\ stack # <<>> /\ stack[1] = Root
    /\ \A i \in DOMAIN stack :
          /\ stack[i].kind \in Kinds
          /\ stack[i].depth = i
          /\ stack[i].swhid \in Swhids \cup {NoSwhid}
    /\ result \in {"there", "walking", "missing", "outside", "read", "unreadable"}
    /\ todo = <<>> <=> result \in {"there", "read", "unreadable"}

At(entry, path) == [entry |-> entry, path |-> path]

\* What is listed one level below.
Deeper(level) ==
    UNION {{At(f, Append(at.path, f.name)) : f \in Listed(at.entry)} : at \in level}

\* What is listed under a directory, level after level, with its path from there.
Levels(e) ==
    LET level[n \in 0 .. Depth] ==
            IF n = 0 THEN {At(e, <<>>)} ELSE Deeper(level[n - 1])
    IN  level

\* The links under a directory, as paths.
LinksUnder(e) ==
    {at.path : at \in {a \in UNION {Levels(e)[n] : n \in 0 .. Depth} : a.entry.kind = "link"}}

\* Every artifact of a set is in one shard, and nothing else is.
Sharded(e, swhids) ==
    LET paths == LinksUnder(e)
    IN  /\ {Last(path) : path \in paths} = swhids
        /\ Cardinality(paths) = Cardinality(swhids)

\* A directory of a source tree has a file whose length the graph left out.
LengthMissing(entries) ==
    graph = "compressed" /\ \E d \in entries : d.perms = "file" /\ d.target \in Unsized

\* Nothing is left out and nothing shown twice: a source tree is computed with the
\* entries of the archived one under both back-ends, and lists all of them, or
\* none when a length is missing; a snapshot lists its branches (the graph has
\* no aliases), a history one link for each revision whatever the sharding, an
\* origin a directory for each day of a visit.
NothingLeftOut ==
    CASE Here.kind = "dir" ->
            LET entries == IF Here.swhid \in Archived THEN Object[Here.swhid].entries ELSE {}
                names == {d.name : d \in entries}
            IN  /\ {f.name : f \in Computed(Here)} = names
                /\ {f.name : f \in Listed(Here)} = IF LengthMissing(entries) THEN {} ELSE names
      [] Here.kind = "snp" /\ Here.part = <<>> ->
            LinksUnder(Here) = {b.name : b \in {c \in Object[Here.swhid].branches :
                                   graph = "web" \/ "target" \in DOMAIN c}}
      [] Here.kind = "by-date" /\ Here.part = <<>> ->
            Sharded(Here, ToSet(History[Here.swhid]) \cap rows)
      [] Here.kind \in {"by-hash", "by-page"} /\ Here.part = <<>> ->
            Sharded(Here, ToSet(History[Here.swhid]))
      [] Here.kind = "url" ->
            {f.name : f \in Listed(Here)} = {v.date : v \in ToSet(Visits[Here.name])}
      [] OTHER -> TRUE

\* No directory has two entries of one name, but for a branch that is named
\* like a directory of branches.
NamesAreUnique ==
    \A e, f \in Computed(Here) : e.name = f.name /\ e # f => Here.kind = "snp"

\* get_cached_swhids: "it should always contain all accessed SWHIDs".  Whatever
\* the walker went through is in cache/, and so can be purged; contents opened
\* in a source tree are not, their lengths came with the directory's.
WalkedIsCached ==
    \A i \in 2 .. Len(stack) :
        /\ stack[i - 1].kind = "archive" => stack[i].swhid \in rows
        /\ Needed(stack[i - 1]) \subseteq rows
=============================================================================
