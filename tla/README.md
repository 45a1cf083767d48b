# SwhFS in TLA+: the caches and the virtual tree of `swh-fuse`

`swh fs mount` shows the Software Heritage archive as a read-only file system.
One process serves one mount point: an asyncio loop runs every FUSE request as a
task, artifacts are fetched from a back-end on demand, and what was fetched is
kept in SQLite tables that several processes may share. This project models the
parts of that program where the order of steps matters, checks them with TLC on
small instances, and proves what matters most for every instance with TLAPS.

    tlc -config ReadThrough_disk.cfg MCReadThrough.tla
    tlapm ReadThroughProofs.tla


## 1. The system

Source paths are relative to `src/swh/fuse/`.

| Component | State it keeps | Operations | What makes it correct |
|---|---|---|---|
| Read-through requests (`fuse.py`) | the local variables of each task | `get_metadata`, `get_blob`, reading `SWHID.json`, `rm cache/xx/SWHID` | an answer is what is archived; a purge lasts; every request ends |
| Metadata and blob caches (`cache.py`) | `metadata_cache`, `blob_cache`; a connection, its transaction and its locks per table | `get`, `set`, `remove`, bypass, open, close | a row is whole or absent; no process keeps the others out |
| History cache (`cache.py`) | `history_graph`, one table of edges for all revisions | `get`, `get_with_date_prefix`, `set` | a closure contains ancestors only, and all of them |
| Direntry cache (`cache.py`) | an `OrderedDict` from inode to entries, `used_ram` | `get`, `set`, eviction (`invalidate` has no caller) | the running size is the size of what is held, within `maxram` |
| Inode table (`fuse.py`) | `_inode2entry`, `_next_inode` | allocation, `opendir`, `readdir`, `lookup`, `unlink` | an inode the kernel holds resolves, always to the same entry |
| Virtual tree (`fs/`) | none of its own: entries made on demand | `compute_entries`, `lookup`, `get_entries` | a listing shows each child once; names find what they name |
| Web API back-end (`backends/web_api.py`) | none; writes metadata rows while it fetches a history | `get_metadata`, `get_blob`, `get_history`, `get_visits` | errors are not taken for answers |
| Compressed graph back-end (`backends/compressed.py`) | a gRPC channel | the same, and a health check | its pairs are pairs of a revision and a parent |
| Object storage back-end (`backends/objstorage.py`) | statistics | `get_blob` | what is archived is served |
| Origins and visits | `visits_cache`, with insertion times | `get_visits`, refreshed after a day | a newer answer is not lost |
| Life cycle (`fuse.py`, `cli.py`) | the mount, a temporary directory, a thread | `main`, `SwhFsTmpMount`, `mount`, `umount`, `clean` | nothing is removed through a live mount |

**How they interact.** The kernel calls the handlers of `Fuse`; a handler reads
the inode table and asks an entry for its children; the entry looks in the
direntry cache, or computes its children with calls to `Fuse.get_metadata`,
`get_blob`, `get_history` or `get_visits`, which look in a SQLite table, call the
back-end and insert. `cache/` is computed from the metadata table, and an unlink
in it deletes rows. All tasks of a process share one connection per database,
hence one transaction; all processes of a user share the database files.

**What is hard.** Every `await` lets the other tasks run: a row read before one may
be gone after it, and two tasks may compute or insert the same thing. A commit
ends whatever transaction the shared connection has, its own or not, and a
write that raises leaves it open. SQLite refuses locks after five seconds. A
listing is served by blocks, by index, over something that may be evicted and
computed again between two of them. Edges of histories are shared by all
revisions and never fetched again. The process may end anywhere.
`PROJECT.json` lists these hazards, each at its line.


## 2. Modules

| Module | Models | State |
|---|---|---|
| `ReadThrough` | read-through requests, metadata and blob tables, SQLite's locks, crashes | `disk`, `draft`, `lock`; per task `pc`, `op`, `swhid`, `kind`, `answer` |
| `DirEntryCache` | the direntry cache | `order`, `held`, `used` |
| `FuseTree` | inode table, directory requests, virtual directories; composes `DirEntryCache` by `INSTANCE` | `nodeOf`, the cache, `rows`, `known`; per client `pc`, `dir`, `want`, `offset`, `made`, ... |
| `ReadOnlyTree` | the tree that clients may expect, which `FuseTree` implements | `reached`; per client `status`, `at`, `sought`, `told` |
| `Artifacts` | what every directory lists, mounts and links to, under both graph back-ends, and a user who walks it | `graph`, `content`, `rows`, `stack`, `todo`, `from`, `result` |
| `ArtifactLinks` | what the path of a symlink denotes in the archive itself; extends `Artifacts` | |
| `History` | the history table, both back-ends' `get_history`, `by-hash/` and `by-date/` | `backend`, `edges`, `rows`; per task `pc`, `view`, `rev`, `todo`, `batch`, `answer` |
| `HistoryQuery` | the recursive query, and the order in which it returns a history; extends `History` | |
| `HistoryPages` | `by-page/`, its listings in the direntry cache and a program that reads them; extends `HistoryQuery` | besides `History`'s, `top`, `pages`, `reads`, `seen` |
| `Origins` | the visits table and its day, `origin/`, the listing of an origin, the clock | `time`, `offset`, `visits`, `rows`; per user `pc`, `op`, `at`, `fetched`, `saw` |
| `Lifecycle` | `main`, `SwhFsTmpMount`, the health check, `mount`, `umount`, `clean`, kills | `user`, `polls`, `fuse`, `attempts`, `mounted`, `busy`, `dir`, `rows`, `disk`, `linked` |
| `Selection` | what a select returns of an ordered list, and a page has of it, for `FuseTree`, `HistoryQuery`, `HistoryPages` and `Artifacts` | |
| `ReadThroughProofs`, `DirEntryCacheProofs`, `FuseTreeProofs`, `ArtifactsProofs`, `HistoryProofs`, `OriginsProofs`, `LifecycleProofs` | theorems about these; `HistoryProofs` is about `HistoryQuery` and `HistoryPages` too | |
| `SelectionProofs` | lemmas that several of them use: induction, recursion, sequences, selections | |
| `MCReadThrough`, `MCFuseTree`, `MCHistory`, `MCHistoryPages`, `MCArtifacts`, `MCOrigins`, `MCLifecycle` | instances for TLC | |

The components meet in three ways. `FuseTree` contains `DirEntryCache` and steps it
with its own actions. `Artifacts` says what the listings are that `FuseTree` takes as
`Children`, and what the histories (`History`) and visits (`Origins`) are shown as; it
takes their values as constants. `ReadThrough`, `History` and `Origins` each have
their tables' rows: what one does to another's rows is an action of the other
(`Remember` and `Forget` in `History`, `Remember` and `Unlink` in `FuseTree`).

### ReadThrough

An action is one `await`: `Get` the first select, `Fetch` the back-end call, `Insert`
the execute of an insert, `Commit`, `Reget` the second select of `get_metadata`, `Raw`
the one of `MetaEntry.get_content`, `Delete` the execute of a purge. `Start` is the
arrival of a request and `Reply` its end. `draft[k]` is what the connection that
writes table `k` sees; `disk[k]` is what the others see, and what a crash leaves.

`lock[m][k]` is the state of a connection: `begun` (Python's `sqlite3` executed its
`BEGIN`, then the write was refused), `shared` (it then read inside that
transaction, and keeps its lock), `reserved` (uncommitted changes), `pending` (its
commit was refused because of a reader, and no new reader may come). Locks taken
and given back inside one select are left out: a select that meets no `pending`
connection neither waits nor makes another one wait for longer than the busy
timeout. A lock that is not free is refused at once: the five seconds' wait ends
either with the lock, which is the same as asking later, or with the error.

The history variable `raced` says that another request removed, or added, the row
that a request is about. It never guards a step.

In memory, every table is in one database (`Db`), since every in-memory cache opens
the same shared-cache URI; the locks are then by table in SQLite, but a second
writer of the database is refused all the same.

### DirEntryCache and FuseTree

`CacheSet` is `__setitem__` with its whole eviction loop: none of the cache's methods
has an await. A value's size is a thousand per entry, as in `LRU.sizeof`. `Sizes` sums the
sizes of the first keys, as `used_ram` loses them one `__delitem__` after the other; it is a
recursive function, so that theorems can speak of it, and so is `Selection`'s `Kept`.

In `FuseTree` a node is what an entry stands for. Each computation of a directory
makes new entries, with new inodes, for all its children: this is `Compute`, which
is interrupted at each symlink or submodule of an archived directory, where the
code awaits a blob or metadata. `GetEntries` takes an empty cached listing for
none, as the code does. `Listing` has the three sorts of directories: archived ones, `archive/` (lists
nothing, `MountArtifact` makes an entry for any name), and those computed from the
rows of a table (`cache/xx`, a day of `by-date/`: `Live`), of which the shards of `cache/` are
never stored (`Unstored`). Of the latter `Listing` is the rows there are, in the table's order
(`Selected`). A row in `rows` comes (`Remember`) and goes (`Unlink`). `known` is what
the kernel was given; it may use any of it at any time. `Fail` is what ends a request in ENOENT before
it serves: the metadata does not come, or SQLite refuses, or the attributes of an entry that `readdir`
has reached do not come.

`ReadOnlyTree` is the abstract specification: a tree that is all there from the beginning, and
requests that may fail until they are answered. It has no inodes, no computations, no cache and no
awaits. `Tree` maps `FuseTree` to it: inodes to what they name, a request that waits or computes to
one that is still reading or looking (`Status`). Directories that list rows are in it too, with
what is left of their promises when rows come and go: a listing has children of the directory only.

### Artifacts

A user walks the tree from the mount point: `Go` sets off for a name that it lists,
or types in `archive/` or `origin/`; the kernel then looks up one name at a time
(`Descend`, which goes on with a symlink's target), goes up (`Ascend`), or gets
ENOENT (`Miss`). `stack` is the path of entries it is at, each with the SWHID,
prefix, page or parents it was made from, and its depth. There is one operator for
each `compute_entries`, named after its class. Entries are computed at each use:
their caching is `FuseTree`'s subject.

`Metadata` is what `get_metadata` returns: the archived object, or what
`CompressedGraphBackend` rebuilds of it from its successors and labels
(`FromGraph`). `MayLose` has the blobs of symlinks that fail to come when a directory is
computed, `Absent` the SWHIDs that the archive refers to and does not have, `Unsized` the contents
whose length the graph's traversal left out. A directory with one of these is computed (`Computed`),
and looked up in; but it lists nothing (`Served`, `Listed`), since `readdir` awaits the attributes of each entry
and answers ENOENT when those of one do not come. (It does so of the block that it fills; what blocks
before it have returned is returned. How a listing is served by blocks is `FuseTree`'s subject.) `rows` are the SWHIDs with
a metadata row, from which `cache/` and `by-date/` are made.

What a symlink should lead to is stated apart from how its target is made, and in a module of
its own, `ArtifactLinks`: `Denoted` follows a path in the archived objects (`In`, `InTree`), and
knows nothing of depths, prefixes, shards or `..`. What should be listed is stated of the archive
too: `LinksUnder` has the paths from a directory to the links below it, through its
subdirectories, level after level (`Levels`), of which there are at most `Depth`.

Four assumptions say what an archive is. `ArchiveAssumption`: a SWHID names an object of its type,
and a directory has no name twice. `HistoryAssumption`: a history has each
revision once (what `QueryIsClosure` promises of it), and a visit one snapshot or none.
`NamesAssumption`: a SWHID's document is no SWHID, and `str` tells numbers apart.
`ConfigurationAssumption`: the two back-ends are configured ones, and `Depth` admits the four
levels of `by-date/` and the longest name of a branch.

### History

One process; an execute and its commit are one step, because `ReadThrough` already
has what may come between them, and `Fail` stands for a refusal at any step.
`Log` is what `/log/?limit=1000` may return, as sets: the revision and as many
ancestors as the limit admits, each of them reached from it through others of the log.
`Traversals` are the orders of a breadth-first traversal. `Reachable` is the closure
of the recursive query, written as the intersection of the closed sets, so that it
can be proved about. A process may be restarted with the other back-end (`Restart`), and
finds the edges of the first. The metadata rows of a log are stored one at a time before
its edges, in any order.

In `HistoryQuery`, `Query` is the history as the sequence that SQLite returns: a queue from whose
head rows are taken (`Visit`), the parents of each in the order of the index of `unique(src, dst)`
(`ByName`). As many visits as there are revisions take all rows, so `Queues` ends there. `QueryOver`
is the same over any edges.

`HistoryPages` is `History` with a reader beside it: its steps are those of `History`'s tasks
(`Request`), which leave the reader alone, a restart, which ends it, and the reader's own,
which only read the table. `ListPages` is a listing of `by-page/`, `ReadPage` one of a page; both are
served from the direntry cache (`top`, `pages`) while they are in it. A page belongs to the
listing of `by-page/` that made its inode, so a new one of these starts with empty pages.

### Origins

The visits archived of an origin only grow, so a list of them is its length; `visits`
keeps when each was archived. A row has a length and an insertion time, which is the
naive local time (`clock`): `SetClock` moves it against the real one. A request goes
through the names of `origin/` (`ListNames`, a lookup only), the row (`Get`), the
back-end (`Fetch`), the insert (`Store`) and the row again (`Reget`). A user stays in an
origin's directory and lists it again after its listing was evicted (`Evict`);
`saw` is what it saw last. An origin with no visits is stored with an empty list, or does not exist.

### Lifecycle

`user` is the thread that uses a mount (`SwhFsTmpMount`: `Poll` in `__enter__`, then
inside, `Unmount` and `RemoveTree` in `__exit__`), or the mount command; `fuse` is where
`main` is, which runs in the same process. The kernel's part is `mounted` and `busy`. `rows`
is the database that `main` has open, `disk` the file at its path: `linked` says that
they are the same, which a `clean` under a running mount ends. `Interrupt` is an exception of
`pyfuse3.main`, which is logged and unmounts, or Control-C in the foreground.


## 3. What TLC checks

Each run asks one question. All of these pass. An invariant that is proved for every instance
(section 4) is mostly checked in one run only, where it bites.

| Run | Instance | Shows |
|---|---|---|
| `ReadThrough_disk` | 1 process, 3 tasks, a content and an artifact that `typify_json` cannot read, files | `NullOnlyAfterPurge`, `DuplicateOnlyAfterRace`, `PurgeSticks`, `NoIdleWriter`, the types |
| `ReadThrough_pair` | 2 processes with 1 task each, files, fair event loops | `PurgeSticks`, `BlockedUntilCrash`, `EveryRequestAnswered` |
| `FuseTree_archived` | 2 clients, a directory mounted on the fly with a symlink and a subdirectory, room for one listing | `HandlesResolve`, `StreamIsListing`, `LookupIsExact`, `InodesKeepTheirEntry`, `RamAccounted`, `WithinMaxRam`, the refinement `LooksStatic`, the types |
| `FuseTree_shard` | 1 client, a shard of `cache/` whose rows come and go | `NothingMissedUnlessPurged` |
| `Artifacts` | an archive with every type of artifact, both graph back-ends, 1 user | `LinksResolve`, `NothingLeftOut`, `NamesAreUnique`, `WalkedIsCached`, the types |
| `History_line` | 2 tasks, a line of three, logs of two revisions, either back-end | `HistoryIsAncestors`, `HistoryIsWhole`, `FetchedAreListed`, `QueryIsClosure`, the types |
| `Origins` | 1 origin, 2 users, 2 visits, two days of 3 ticks | `FreshVisits`, `RegetIsFresh`, `LostOnlyByOverlap`, `VisitsOnlyGrow`, the types |
| `Lifecycle` | mounts one after the other, by command and context, 3 artifacts | `LeftClean`, `ServedByHealthyGraph`, `LossIsAsked`, `EnterEnds`, `ThreadEnds`, the types |

What they say, in short. A request answers with nothing only if its row was purged
under it (`NullOnlyAfterPurge`), and a blob is refused as a duplicate only if another
request stored it (`DuplicateOnlyAfterRace`). A purge that succeeded stays, through
other tasks' transactions and crashes (`PurgeSticks`). A process alone leaves no
metadata transaction open (`NoIdleWriter`); two processes may block each other, and
then only the end of one helps (`BlockedUntilCrash`), although every request is
answered, be it with an error (`EveryRequestAnswered`). A directory stream is the
directory's listing whatever is evicted and recomputed under it
(`StreamIsListing`), and no order of requests tells clients more than a tree that
nobody writes would (`LooksStatic`); for `cache/` this is so unless a row is purged meanwhile
(`NothingMissedUnlessPurged`). Every symlink leads to the artifact it stands for, from
any depth and through any others, or to ENOENT where that artifact cannot be shown
(`LinksResolve`); no entry, branch, revision or day is lost or doubled on the way from the
archive to a listing (`NothingLeftOut`, `NamesAreUnique`; a directory with a length missing lists
nothing at all), and what one walks through can
be purged in `cache/` (`WalkedIsCached`). Histories contain ancestors only, whichever logs their
edges came from; what was fetched is listed, by date too; and where each log leads to all
ancestors they are whole (`HistoryIsAncestors`, `FetchedAreListed`, `HistoryIsWhole`). The query lists
its closure, each revision once (`QueryIsClosure`).
A fresh answer about an origin misses no visit older than a day, a
slow request and a clock change together (`FreshVisits`); visits disappear only when
requests overlap (`LostOnlyByOverlap`, `VisitsOnlyGrow`). A context leaves nothing behind, unless
`fusermount3` was refused, and takes no row from the file that it was not told to
(`LeftClean`, `LossIsAsked`); entering it ends, and so does its thread (`EnterEnds`,
`ThreadEnds`); with the compressed graph no mount point appears before the server has said that
it serves (`ServedByHealthyGraph`).

**Bounds.** The rows of different artifacts meet only through locks and
transactions, which are per table: a second artifact is enough to have a
transaction that holds another task's row, and a third task to have one task
write, one commit and one read. Two processes are enough for each conflict of
SQLite's locks, which is between two connections. Two processes one of which has two
tasks have no passing run: what holds there is proved (section 4).

In `FuseTree_archived`,
`MaxInode` (7) admits two computations of the mounted directory and one of its
subdirectory, so that a listing is evicted and computed again under an open stream
(a state where this has happened is reached), or two mounts of the directory; in
`FuseTree_shard` it (9) admits a whole stream, which computes the shard for each of
its three blocks. `RoomFor` refuses only computations that have not begun. `Block` is
1: each entry takes a call of its own. `Names` bounds the names looked up, one of
which is in one directory and not in the other. `MaxRam` is a few entries where the default is a tenth of the memory: what matters is
whether the next listing fits.

`Limit` is 2 where the code has 1000: what matters is
whether the log is cut. In `History_line` the log of the newest revision is, and leads to every
ancestor all the same, by the parent of its last revision; a longer line would make `HistoryIsWhole`
false, and a merge, whose traversal pairs siblings, `HistoryIsAncestors` of the edges that a graph
back-end has left. Four revisions make the smallest merge with a common ancestor (`History_graph`).
In `HistoryPages_aged`, `Limit` is 2 and `PageSize` 3, a log being smaller than a page as in the code
(1000 and 10,000): the history of a line of five gets its second page when the log of a revision
further back has been fetched, and never from one log.

The archive of `Artifacts` has a merge (two parents, the histories of all), a release of a
release, a release of an unarchived revision, a submodule and a directory that are
not archived, one content with two names, an empty one and a skipped one, symlinks down, up and
out of their tree, two branches on one revision, aliases at two depths, a branch whose
name is a prefix of another's, two visits of one day, and shards that hold several
revisions and one. `PageSize` is 1 where the code has 10,000: each history of two has two pages.
`Typed` is what the user types in `archive/`; what links lead to is
looked up besides. The configuration with an objstorage is left out of the run: its contents come
as the Web API's do (`BlobComes`).

In `Origins`, `Day` is 3 ticks, the longest request (`Slow`) 1, the clock's change (`Shift`) 1:
the smallest with `Slow + Shift < Day`, which the code's day and HTTP requests justify
(an hour of summer time and a request of minutes). `MaxTime` 6 is two days, so that a row expires
and is replaced, and `MaxVisits` 2 lets a list go from one to two and back. In `Lifecycle`,
`MaxAttempts` is 3 for 30 and `MaxPolls` 4 for 30000; both loops do the same in each turn.

**Fairness.** `FairSpec` of `ReadThrough` has weak fairness of each task's `Step`: the event loop runs
every ready task, the thread of each connection ends its call (SQLite's busy
timeout ends its waits), and a back-end call ends with an answer or an error (HTTP
and gRPC clients raise). Nothing makes a user ask again, so `Start` is not fair, and
no process need crash. A task that asks for a lock steps all the same, with a
refusal, so weak fairness is enough. `Lifecycle` has weak fairness of `Main` (the thread
of the mount runs, and what it awaits returns) and of `Poll` (the thread that
waits runs); nothing makes a user leave, close a file or run a command.

Deadlock is checked in every run.

### Disagreements

These runs end in a counterexample. Each checks one sentence of the documentation
or of the code, quoted in `PROJECT.json`.

| Run | Says | What happens |
|---|---|---|
| `ReadThrough_idlelock` | the caches are shared by concurrent processes | of two first reads of a blob the second raises `IntegrityError` (a plain `insert`, where the metadata has `insert or ignore`), and leaves its transaction open: an idle process keeps the others from writing |
| `FuseTree_skipped` | `cache/` lists all artifacts | a purge between two blocks of a listing makes it step over another row |
| `History_graph` | pairs of a revision and a parent | after a merge the compressed graph's pairs are of two siblings |
| `HistoryPages_aged` | no cache invalidation is necessary | `by-page/` and its pages stay in the direntry cache as they were listed of a shorter history: a program that reads them all misses revisions of the one there is |

Read in the code while modelling, without a run of their own:

- `cache/xx` lists `SWHID.json` (`fs/mountpoint.py:176`), which its `ENTRIES_REGEXP`
  (`:161`) refuses to look up: the names that `docs/design.md` promises can be
  listed and not opened. `LinksResolve` excepts them.
- `cache.py:90` takes the metadata table for "all accessed SWHIDs"; reading a content in a
  source tree stores no metadata (`fuse.py:107`, lengths come with the directory's), and
  `cache/` does not list it. `WalkedIsCached` says so.
- A release whose target cannot be fetched lists nothing at all, not even `target`
  and `meta.json` (`fs/artifact.py:424`).
- An empty content is an error when there is no objstorage (`backends/objstorage.py:82`).
- A content whose length the graph left out (`backends/compressed.py:264`, `fs/artifact.py:52`) hides
  its whole directory: `readdir` asks for the length of each entry (`fuse.py:212`), and the listing ends
  in ENOENT, although the other entries can be looked up. `NothingLeftOut` has the case.
- The graph gives a revision's parents, and the visits of an origin, in its own
  order: `parent` need not be the first parent of the commit, nor the visit that is kept
  of a day its first one.
- Looking a content up in `archive/` downloads it, to know its size (`fuse.py:273`); the
  objstorage's calls do so inside the event loop and block it (`backends/objstorage.py:81`, `:96`).
- `FuseSymlinkEntry.size` measures `str(target)`, which for the bytes of a blob is their
  Python notation (`fs/entry.py:140`).
- `SWHID.json` is dumped from a select after `get_metadata` (`fs/mountpoint.py:99`): it
  is `null` if the artifact is purged in between. `NullOnlyAfterPurge` has the case.
- With in-memory caches the two connections of a process share one database
  (`cache.py:33`), and it can meet its own lock. The model has it (`Db`).
- A symlink whose blob could not be fetched is listed, and cached, with an empty
  target (`fs/artifact.py:91`). `Artifacts` has it (`MayLose`).
- `LRU.__setitem__` counts a value when its key is new only (`cache.py:412`): a
  longer listing that replaces a shorter one exceeds `maxram`. So `RamAccounted` is
  checked, and proved, where a directory keeps its listing, as archived ones do.
- The Web API's log is cut at a thousand revisions (`backends/web_api.py:73`), and
  its edges answer for every revision in it from then on. So `HistoryIsWhole` is
  checked where each log leads to all ancestors. When another log completes such a history, the
  listings that were made of it stay: `HistoryPages_aged`.
- Histories are not "sorted in reverse topological order" (`fs/artifact.py:157`): the recursive query
  (`cache.py:317`) goes by distance. With the parents p and g of h, where g is the parent of q and
  q of p, it returns g, p, q or p, g, q. `QueryIsClosure` says what the query does return.
- The compressed graph stores no metadata of the revisions in a history
  (`backends/compressed.py:279`), which `by-date/` joins with (`cache.py:353`): it is
  empty then, and `FetchedAreListed` speaks of logs only.
- A process may be started over the rows of the other back-end, and serves them:
  aliases that the graph has not, a log's edges, a traversal's.
- The rmtree of a context that `fusermount3` refused runs in the mounted tree, and removes what can be
  removed there: the artifacts in `cache/` (`fuse.py:401`). `LossIsAsked` names the case.
- A `RuntimeError` of `__enter__` leaves its thread, the directory and perhaps a late mount
  behind: Python calls no `__exit__` then (`fuse.py:395`). `LeftClean` speaks of contexts that were
  entered.
- A failure of `pyfuse3.init` is logged (`fuse.py:436`), and the command ends as after an unmount.
- `umount` runs `fusermount` (`cli.py:207`) where the command has checked for `fusermount3` (`cli.py:103`).
- `clean` under a running mount removes the file's name only (`cli.py:224`): what the mount
  stores from then on is lost when it ends.


## 4. What is proved

`tlapm` checks every leaf; the provers are Z3, Zenon and LS4.

**`ReadThroughProofs`**, for any number of processes, tasks and artifacts, on disk,
in memory or with blobs bypassed (databases in memory have proofs and no run).
`Invariance` is the inductive invariant `IInv`
of `ReadThrough`; `TypeCorrect`, `NullNeedsPurge`, `DuplicateNeedsRace` and
`PurgeLasts` follow from it, and `BlockedForGood` is an action property under it.
`WritersCommit` has an invariant of its own.

`PurgeSticks` alone is not inductive: it speaks of the committed rows at the end of
a request, and says nothing about what the request had established before. `IInv`
has three parts besides the types:

- `TaskInv`: which request a task can be serving at each of its steps;
- `StoreInv`: a table has one writer at most, and without one its draft is what is
  committed. The first half comes from `CanWrite`; the second is what makes a
  crash, or a commit of a connection that wrote nothing, harmless;
- `RowInv`: what each step of a request has established about its row, in the view
  of its own connection, unless another request disturbed it. For a purge it goes
  from its connection's view (after the execute) to the committed rows (after the
  commit), table by table.

The proof sorts the actions. *Quiet* steps (`Get`, `Fetch`, `Reget`, `Raw`, refusals,
`Start`, `Reply`) change no connection's view; `QuietKeeps` preserves the other
tasks' rows. *Moving* steps (`Insert`, `Delete`, `Commit`) change views of one table
only; `MovesKeeps` preserves the rows of the others because whoever they disturb
is marked. `CrashKeeps` stands apart. `Commit` is the longest: a task may commit
another one's transaction, or none.

Assumptions: `ObjectAssumption` (contents, archived and untypable artifacts are
artifacts), `MountAssumption` (each task has a mount), and `MemoryAssumption` (a
database in memory belongs to one process). TLC evaluates them in every run.

`BlockedForGood` says that two processes, of which one's commit was refused by the
other's reader and the other's writes by the first one, stay so until one ends.

`WritersCommit` is `NoIdleWriter` for a process that is alone and has its databases on disk
(`Alone`, the hypothesis of `NoIdleWriter` itself): nobody refuses it a lock, so a task that
executed goes on to commit. A refused insert is what breaks this with two.

**`FuseTreeProofs`**, for any tree, clients, sizes of a block and of the cache. The properties say
nothing of a listing that is being computed, or that waits in the cache for a stream that has
come half way. `IInv`, stated in `FuseTree`, does:

- `TableInv`: the kernel holds inodes of the table only, and the root is a directory;
- `ListingsInv`: a cached listing is whole, that is, its inodes name the children of the
  directory, in order (`Whole`); of a directory computed from rows only that its inodes exist;
- `RequestInv`: so is, as far as it goes, what a request has made up to a symlink (`Partial`);
- `StreamInv`: a stream's offset is the number of names it has returned, which are the first
  of its directory;
- `AnswerInv`: a lookup's answer names what it looked for, or no child does.

`Grown` is the other half of each step: the table only gets longer. With it, what holds of listings
and of other clients is kept without looking at the step (`ListingsKept`, `ClientKept`), and
each action answers for its own client. `HandlesResolve`, `StreamIsListing` and
`LookupIsExact` follow from `IInv`, `InodesKeepTheirEntry` from `Grown`. What is evicted does
not matter: all this takes from `CacheSet` is `CacheSetHolds`.

`TreeLooksStatic` is `LooksStatic`: each step of `FuseTree` is one of `ReadOnlyTree`, or does not show
there. It needs besides `IInv` that a cached listing over rows, too, has children of its
directory only, and that inode 1 is the root's (`OwnInv`). `Comes` says what a step is in the abstract tree,
for the client that takes it; `OneComes` that the other clients see nothing of it. A computation
that is suspended does not show (`AwaitHides`), and one that ends serves what a cached listing would
have (`ServeReads`, `FindComes`): this is where `Whole` and `Partial` meet the abstract listing. The
theorem covers directories over rows; the run has none.

Three more invariants rest on `IInv`:

- the types (`TreeTypes`): inodes that a client, a stream or a computation has are inodes of the
  table. They need what `CacheSet` does to the order of the keys (`CacheSetKeeps`);
- the sizes (`SizesAreCounted`, `ListingsFit`): `used` is the sum of the sizes of what is held,
  and within `maxram`. They are proved with `Live \subseteq Unstored`, that is, where every directory
  over rows is one that `DirEntryCache.set` passes over. It does so for `cache/` and `origin/`; a
  day of `by-date/` is stored, and may be replaced by a longer listing, of which `__setitem__` counts
  nothing (section 3, "Disagreements"). `IInv` is what says that a listing that replaces another
  has its size: both are whole;
- the streams over `cache/` (`CacheDirInv`, which TLC has checked too): every row that was there
  from the start of the stream was returned, or is in the listing of the moment past the stream's
  offset (`Ahead`). Rows that come in move others back, never forward (`SelectedAhead`), and
  the offset was the length of what was returned. A row that goes moves others forward: this is
  `FuseTree_skipped`, and why `NothingMissedInCache` is about streams that no purge met.

Assumptions: `TreeAssumption`, where a directory over rows lists no symlink that awaits a fetch
(those of `cache/` have their targets when made), and `BoundAssumption`.

**`DirEntryCacheProofs`**, for any keys, values, sizes and `MaxRam`. `CacheSetKeeps` is the whole of
`__setitem__`: keys and values stay in agreement, and if `used` was the sum of what was held, and a
value is replaced by one of its size, it still is, and fits. `MovedToEndMoves` says what a
key's move does to the order, `SameSizes` that a part of a sequence adds to the sum what it would
alone: the sum over what is evicted and what stays is the sum over all.

**`ArtifactsProofs`**, for any archive, visits, histories, page size and length of branch
names, under all pairs of back-ends. The properties speak of the directory where the walker is; that
it has what its listing is made from (a history's directory an archived revision, the list of
parents numbers of a revision's parents) depends on how the walker came there. `Walk` says it of the
whole path:

- `Sound`, of each entry: what its kind is made from. `..` needs it, since it goes back to entries
  that the walk has not looked at since;
- `Below`, of each entry and the one before it: it is one deeper, and the directories of the mount point
  and the shards of `cache/` are nowhere else;
- `Cached`: the rows have what was mounted in `archive/` and what it took to list what was
  passed through (`WalkedStaysCached`). An unlink is possible in a shard of `cache/` only, and the
  path there passes through nothing that was fetched (`ShardsAreInCache`).

`Chain` is the first two, from the mount point on; `ChainAppend` and `ChainFront` keep it down and up,
`ComputedSound`, `MountSound` and `LookupSound` say it of what a directory, `archive/` and a lookup return.
`ArtifactTypes` follows: the depth of an entry, from which its relative links are made, is its place
on the path. `EntriesDistinct` goes through the directories one by one (`ComputedDistinct`).

`AllIsShown` is the longest. A directory of shards (`ShardAt`) is a place in a tree of prefixes:
`Tree` says of such a tree that each of its listings has the links that end there and the shards
that go on to others (`Leads`), and nothing else. `LevelsStep` says that the levels of a listing
are computed one from the other, and `TreeLinks` goes down them by induction, once for all: the
links under such a directory are the paths of the tree. What is left for each directory is to
show that it is such a tree, of branch names (`SnapshotLinks`, of any length), of dates
(`ByDateSharded`), of two digits (`ByHashSharded`) and of page numbers (`ByPageSharded`), and,
for the last three, that each revision is at the end of one path only (`ShardedOneByOne`), which
for pages is the lemma that the quotient of a place is its page (`PageOf`). Source trees rest on
`AllLabelled`: the labels of a node's successors, with several names for one successor, are all
the entries; and on `DirectorySized`: that the listing of a tree ends in an error says that a file of
it has no length in the graph. All other directories list what they compute (`AllSized`,
`ListedAsComputed`).

**`SelectionProofs`** has what the provers do not: induction (`SetInduction`, with a set of
naturals for the predicate, whose least element, `Smallest`, comes from the well-foundedness of
the strict subset order), and with it that a recursive function over the naturals exists
(`Recursion`), without which nothing can be said of one. `KeptStep`, `SizesStep`
(`DirEntryCacheProofs`) and `QueuesStep` (`HistoryProofs`) apply it to the model's, `LevelsStep`
(`ArtifactsProofs`) to the levels of a listing. Then `SelectedItems`, `SelectedOnce` and
`SelectedAhead`: a selection has the rows there are, each once, in the order of the list; and a
page has the items whose places have its number for their quotient by the page size
(`SliceItems`).

**`HistoryProofs`**. `WebHistorySound`: with the Web API back-end, `Spec =>
[]HistoryIsAncestors`, for any archive and limit. The invariant `SoundInv` says that
stored edges, and edges on their way, are archived; `ReachableMonotone` then bounds
the closure. The hypothesis `Backends = {"web"}` is needed: see `History_graph`.

`HistoryTypes` and `FetchedListed` hold with either back-end, and across restarts that change it.
`FetchedInv` follows a log through its request: its own edges lead to all of it (that is what
`Log` assumes of the server), then the table's do, and its rows are stored before its
edges, unless a purge took one.

`WebHistoryWhole` is `HistoryIsWhole` for the Web API and logs that may hold the whole archive
(`Cardinality(Revs) <= Limit`). `WholeInv` adds to `SoundInv` that an edge is never stored without
those further back: so a history that is found in the table is whole, and one that is
not, and was just stored, too (`PastReached`). For the compressed graph it is only model-checked, on
a line.

Of the query (`HistoryQuery`), for any archive and order of SWHIDs: `QueryReturnsClosure` is
`QueryIsClosure` with either back-end, whatever edges are stored, the loops of the compressed graph
included. `QueueInv` says of the queue after n visits that it has each revision once, all of them
reachable, and all successors of its first n (`VisitKeeps`). As no revision is there twice, it is
no longer than the revisions are many (`NotLonger`), so that at the end it is closed, and has the
closure (`QueueWhole`).

Of the pages (`HistoryPages`), with any page size and limit of the log, hence also with the code's, where
a history gets its second page only by growing. `PagesOfOneHistory`: the pages cut from one history,
whatever edges it is made of, have all its revisions, none twice. What pages of several histories have
together is what `HistoryPages_aged` refutes; what remains true of them is that they only lack
revisions (`KeptPagesOnlyLack`): edges are never deleted, so the closure of an earlier table is
part of the present one (`HistoryGrows`), and every page that is kept or shown was cut from one of
these (`PagesInv`). With the Web API they list ancestors only (`WebPagesAreAncestors`). `PagesTypes` is
`PagesTypeOK`, which no run checks apart.

**`OriginsProofs`**, for any origins, users and times, and any `Slow + Shift < Day`
(`SlowAssumption`, without which `get_visits` may return None). `FreshVisits` is about rows at the
moment they are read, and is not inductive: `IInv` says of each row that it has all that was
archived before the request that stored it began (`RowInv`), of each request what its answer
and the row still have in common (`RequestInv`), and of each user that what it saw is in the
row unless the row went back (`SeenInv`). `VisitsAreFresh` and `NothingIsNone` follow by
arithmetic, `OnlyOverlapLoses` and `UsersLoseNothing` are action properties under it.

**`LifecycleProofs`**, for any artifacts and any limits of the two loops. `IInv` relates the
three parties: a context that is inside has, or had, a mounted file system, one that has left with
its directory gone has none; a mount over the graph has passed its check; rows and file are the
same while linked. `LeftClean` and `ServedByHealthyGraph` follow, and `LossIsAsked` is an
action property under it.

**Only model-checked**:

- `LinksResolve`. What a path denotes is defined by recursion on paths that are followed through
  symlinks, aliases and releases, and need not end: symlinks may be circular. No function over a set
  of paths is this definition, so its operators are `RECURSIVE`, which the provers cannot use. TLC
  checks it on an archive with every sort of link; of the links' own parts, that the depth is right
  is proved (`ArtifactTypes`);
- `HistoryIsWhole` of the compressed graph, on a line: a traversal's pairs are not edges, and of a
  merge it is false; and of the Web API where a log is cut and leads to all ancestors all the same;
- liveness (`EveryRequestAnswered`, `EnterEnds`, `ThreadEnds`), which is out of the prover's reach.


## 5. What is not modelled

| Left out | Why |
|---|---|
| Argument and configuration parsing, daemonizing, logging, statistics | no state of the system's own |
| The parser of `maxram` | yields a number |
| `open`, `getxattr`, modes and times of entries | read a field that was set when the entry was made |
| `_remove_inode`, `invalidate` | have no caller |
| The graph's order of visits; time zones of archived dates | the archive's data, which the code passes on |
| Encodings: branch names that are not UTF-8, percent-encoding of URLs | names are model values; a name with a `/` that comes from them is not considered |
| An interrupt of the program around a context while it enters | its thread goes on, as after a `RuntimeError` of `__enter__`, which `Lifecycle` has |
| What the network and the kernel do inside a call | an answer or an error |
| Growth of the inode table | what the code does: it never removes an inode. Bounded in the model (`MaxInode`) |
