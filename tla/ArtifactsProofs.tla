-------------------------- MODULE ArtifactsProofs --------------------------
(***************************************************************************)
(* The tree of artifacts, for any archive, visits, histories and depth of  *)
(* the names of branches.                                                  *)
(*                                                                         *)
(* The inductive invariant, Walk, says of each entry between the mount     *)
(* point and the walker what it is made from (Sound), what it is below     *)
(* (Below), and that the cache has what it took to go through it (Cached). *)
(* The types and the content of the cache follow from it, and so does that *)
(* the entry the walker is in was made as the lemmas about listings need:  *)
(* that they have no name twice (Distinct), and that a directory of shards *)
(* leads to the links it should (Tree), which the induction over the       *)
(* levels of a listing turns into the paths under it (TreeLinks).          *)
(***************************************************************************)

EXTENDS Artifacts, SelectionProofs

-----------------------------------------------------------------------------
(* Objects and their metadata.                                             *)

\* An object is of its type.
LEMMA ObjectTypes ==
  ASSUME NEW s \in Archived
  PROVE  /\ TypeOf(s) \in {"cnt", "dir", "rev", "rel", "snp"}
         /\ IsA("dir", s) => Object[s] \in Directories
         /\ IsA("rev", s) => Object[s] \in Commits
         /\ IsA("snp", s) => Object[s] \in Snapshots
  BY ArchiveAssumption
  DEF TypeOf, IsA, Contents, Directories, Commits, Releases, Snapshots

\* Each edge is a label of the successor that it leads to.
LEMMA AllLabelled ==
  ASSUME NEW s \in Archived
  PROVE  /\ IsA("dir", s) => Labelled(s) = Object[s].entries
         /\ IsA("snp", s) => Labelled(s) = {b \in Object[s].branches : "target" \in DOMAIN b}
  <1> DEFINE edges == IF IsA("dir", s) THEN Object[s].entries
                      ELSE {b \in Object[s].branches : "target" \in DOMAIN b}
             labels(t) == {e \in edges : e.target = t}
  <1>1. Successors(s) = {[target |-> t, labels |-> labels(t)] : t \in {e.target : e \in edges}}
    BY DEF Successors
  <1> HIDE DEF edges
  <1>2. ASSUME NEW n \in Successors(s)
        PROVE  n.labels \subseteq edges
    BY <1>1
  <1>3. ASSUME NEW e \in edges
        PROVE  e \in Labelled(s)
    <2> DEFINE n == [target |-> e.target, labels |-> labels(e.target)]
    <2>1. n \in Successors(s)
      BY <1>1
    <2>2. e \in n.labels
      OBVIOUS
    <2> QED
      BY <2>1, <2>2 DEF Labelled
  <1>4. ~(IsA("dir", s) /\ IsA("snp", s))
    BY DEF IsA
  <1> QED
    BY <1>2, <1>3, <1>4 DEF edges, Labelled

\* Both back-ends return the entries of a directory, and the graph returns the
\* branches of a snapshot that are no aliases.
LEMMA MetadataOf ==
  ASSUME NEW s \in Archived
  PROVE  /\ IsA("dir", s) => Metadata(s).entries = Object[s].entries
         /\ IsA("snp", s) =>
               Metadata(s).branches =
                   IF graph = "compressed"
                     THEN {b \in Object[s].branches : "target" \in DOMAIN b}
                     ELSE Object[s].branches
  <1>1. ASSUME IsA("dir", s)
        PROVE  Metadata(s).entries = Object[s].entries
    <2>1. FromGraph(s) = [Object[s] EXCEPT !.entries = Labelled(s)]
      BY <1>1 DEF FromGraph, IsA
    <2> QED
      BY <1>1, <2>1, ObjectTypes, AllLabelled DEF Metadata, Directories
  <1>2. ASSUME IsA("snp", s)
        PROVE  Metadata(s).branches =
                   IF graph = "compressed"
                     THEN {b \in Object[s].branches : "target" \in DOMAIN b}
                     ELSE Object[s].branches
    <2>1. FromGraph(s) = [Object[s] EXCEPT !.branches = Labelled(s)]
      BY <1>2 DEF FromGraph, IsA
    <2> QED
      BY <1>2, <2>1, ObjectTypes, AllLabelled DEF Metadata, Snapshots
  <1> QED
    BY <1>1, <1>2

\* A set in any order has no more items than the sequence it was made of.
LEMMA SetToSeqShorter ==
  ASSUME NEW S, NEW p \in Seq(S)
  PROVE  DOMAIN SetToSeq(ToSet(p)) \subseteq DOMAIN p
  <1>1. PICK n \in Nat : n = Len(p) /\ p \in [1 .. n -> S]
    OBVIOUS
  <1>2. PICK T : T = ToSet(p)
    OBVIOUS
  <1>3. p \in Surjection(1 .. n, T)
    <2>1. p \in [1 .. n -> T]
      BY <1>1, <1>2, Places
    <2>2. \A x \in T : \E i \in 1 .. n : p[i] = x
      BY <1>1, <1>2, Places
    <2> QED
      BY <2>1, <2>2 DEF Surjection
  <1>4. IsFiniteSet(1 .. n) /\ Cardinality(1 .. n) = n
    BY FS_Interval
  <1>5. PICK m \in Nat : IsFiniteSet(T) /\ m = Cardinality(T) /\ m <= n
    BY <1>3, <1>4, FS_Surjection, FS_CardinalityType
  <1>6. \E f \in [1 .. m -> T] : IsInjective(f)
    <2>1. ExistsBijection(1 .. m, T)
      BY <1>5, FS_CardinalityType
    <2> QED
      BY <2>1 DEF ExistsBijection, Bijection, Injection
  <1>7. SetToSeq(T) \in [1 .. m -> T]
    BY <1>5, <1>6 DEF SetToSeq
  <1> QED
    BY <1>1, <1>2, <1>5, <1>7

\* The graph numbers at most as many parents.
LEMMA ParentsOf ==
  ASSUME NEW s \in Revisions
  PROVE  DOMAIN Metadata(s).parents \subseteq DOMAIN Object[s].parents
  <1>1. s \in Archived /\ IsA("rev", s)
    BY DEF Revisions
  <1>2. Object[s] \in Commits
    BY <1>1, ObjectTypes
  <1>3. FromGraph(s) = [Object[s] EXCEPT !.parents = SetToSeq(ToSet(@))]
    BY <1>1 DEF FromGraph, IsA
  <1>4. FromGraph(s).parents = SetToSeq(ToSet(Object[s].parents))
    BY <1>2, <1>3 DEF Commits
  <1>5. Object[s].parents \in Seq(Swhids)
    BY <1>2 DEF Commits
  <1> QED
    BY <1>4, <1>5, SetToSeqShorter DEF Metadata

-----------------------------------------------------------------------------
(* Entries.                                                                *)

Fields == {"kind", "name", "depth", "swhid", "part", "sized", "lost"}

\* The fields of an entry.
LEMMA ChildFields ==
  ASSUME NEW e, NEW kind, NEW name, NEW swhid, NEW part
  PROVE  /\ DOMAIN Child(e, kind, name, swhid, part) = Fields
         /\ Child(e, kind, name, swhid, part).kind = kind
         /\ Child(e, kind, name, swhid, part).name = name
         /\ Child(e, kind, name, swhid, part).depth = e.depth + 1
         /\ Child(e, kind, name, swhid, part).swhid = swhid
         /\ Child(e, kind, name, swhid, part).part = part
  BY DEF Child, Fields

\* The fields of a symlink.
LEMMA LinkFields ==
  ASSUME NEW e, NEW name, NEW target, NEW s
  PROVE  /\ Link(e, name, target).kind = "link" /\ Link(e, name, target).name = name
         /\ ToArchive(e, name, s).kind = "link" /\ ToArchive(e, name, s).name = name
  BY ChildFields DEF Link, ToArchive

\* The entry of a directory's edge.
LEMMA DirectoryEntryFields ==
  ASSUME NEW e, NEW d \in Edges
  PROVE  /\ DirectoryEntry(e, d).name = d.name
         /\ DirectoryEntry(e, d).kind # "link" =>
               /\ DOMAIN DirectoryEntry(e, d) = Fields
               /\ DirectoryEntry(e, d).depth = e.depth + 1
               /\ DirectoryEntry(e, d).swhid = d.target
               /\ DirectoryEntry(e, d).kind = IF d.perms = "dir" THEN "dir" ELSE "cnt"
               /\ d.perms \in {"file", "dir"}
  <1>1. CASE d.perms = "link"
    BY <1>1, LinkFields DEF DirectoryEntry
  <1>2. CASE d.perms = "rev"
    BY <1>2, LinkFields DEF DirectoryEntry
  <1>3. CASE d.perms = "dir"
    BY <1>3, ChildFields DEF DirectoryEntry
  <1>4. CASE d.perms = "file"
    <2> DEFINE c == Child(e, "cnt", d.name, d.target, <<>>)
               b == graph = "compressed" => d.target \notin Unsized
    <2>1. DirectoryEntry(e, d) = [c EXCEPT !.sized = b]
      BY <1>4 DEF DirectoryEntry
    <2>2. /\ DOMAIN c = Fields /\ c.kind = "cnt" /\ c.name = d.name
          /\ c.depth = e.depth + 1 /\ c.swhid = d.target
      BY ChildFields
    <2> HIDE DEF c, b
    <2>3. /\ DOMAIN DirectoryEntry(e, d) = Fields /\ DirectoryEntry(e, d).kind = "cnt"
          /\ DirectoryEntry(e, d).name = d.name /\ DirectoryEntry(e, d).depth = e.depth + 1
          /\ DirectoryEntry(e, d).swhid = d.target
      BY <2>1, <2>2 DEF Fields
    <2> QED
      BY <1>4, <2>3
  <1> QED
    BY <1>1, <1>2, <1>3, <1>4 DEF Edges

-----------------------------------------------------------------------------
(* What the walker is in.                                                  *)

\* What an entry is made from is of its kind.
Sound(e) ==
    /\ e.kind \in Kinds
    /\ e.kind = "root" => e = Root
    /\ e.swhid \in Swhids \cup {NoSwhid}
    /\ e.kind = "dir" => e.swhid \in Swhids /\ IsA("dir", e.swhid)
    /\ e.kind \in {"rev", "rel", "snp"} => e.swhid \in Archived /\ IsA(e.kind, e.swhid)
    /\ e.kind \in {"history", "by-date", "by-hash", "by-page"} => e.swhid \in Revisions
    /\ e.kind = "parents" => \E s \in Revisions : DOMAIN e.part \subseteq DOMAIN Object[s].parents
    /\ e.kind = "url" => e.name \in Origins
    /\ e.kind = "visit" => e.part \in Seq(Swhids) /\ Len(e.part) <= 1

\* An entry is one level below its directory, and those of the mount point and
\* of cache/ are nowhere else.
Below(d, e) ==
    /\ DOMAIN e = Fields
    /\ e.depth = d.depth + 1
    /\ e.kind # "root"
    /\ e.kind \in {"archive", "origin", "cache", "README"} => d.kind = "root"
    /\ e.kind = "shard" => d.kind = "cache"

\* A shard's directories are shards of what it is a shard of.
LEMMA ShardsSound ==
  ASSUME NEW e, Sound(e), e.kind \in {"snp", "by-date", "by-hash", "by-page"},
         NEW names, NEW f \in Shards(e, names)
  PROVE  Sound(f) /\ Below(e, f)
  <1>1. PICK n \in names : f = Child(e, e.kind, n, e.swhid, Append(e.part, n))
    BY DEF Shards
  <1>2. /\ DOMAIN f = Fields /\ f.kind = e.kind /\ f.depth = e.depth + 1
        /\ f.swhid = e.swhid
    BY <1>1, ChildFields
  <1> QED
    BY <1>2 DEF Sound, Below

\* A shard's leaves are symlinks, named like the artifacts.
LEMMA LeavesAreLinks ==
  ASSUME NEW e, NEW S, NEW f \in Leaves(e, S)
  PROVE  f.kind = "link" /\ f.name \in S
  BY LinkFields DEF Leaves

\* What a directory computes is a symlink, or is made from what it should.
LEMMA ComputedSound ==
  ASSUME NEW e, Sound(e), NEW f \in Computed(e), f.kind # "link"
  PROVE  Sound(f) /\ Below(e, f)
  <1>1. f \in Entries(e) /\ Needed(e) \subseteq Archived
    BY DEF Computed
  <1>2. CASE e.kind = "root"
    <2>1. PICK n \in {"archive", "origin", "cache", "README"} : f = Child(Root, n, n, NoSwhid, <<>>)
      BY <1>1, <1>2 DEF Entries, RootEntries
    <2>2. DOMAIN f = Fields /\ f.kind = n /\ f.depth = Root.depth + 1 /\ f.swhid = NoSwhid
      BY <2>1, ChildFields
    <2> QED
      BY <1>2, <2>2 DEF Sound, Below, Kinds, Files
  <1>3. CASE e.kind = "dir"
    <2>1. e.swhid \in Archived /\ IsA("dir", e.swhid)
      BY <1>1, <1>3 DEF Needed, Sound
    <2>2. Object[e.swhid] \in Directories
      BY <2>1, ObjectTypes
    <2>3. Metadata(e.swhid).entries = Object[e.swhid].entries
      BY <2>1, MetadataOf
    <2>4. PICK d \in Object[e.swhid].entries : f = DirectoryEntry(e, d)
      BY <1>1, <1>3, <2>3 DEF Entries, Directory
    <2>5. d \in Edges /\ (d.perms = "dir" => IsA("dir", d.target))
      BY <2>1, <2>2, ArchiveAssumption DEF Directories
    <2>6. /\ DOMAIN f = Fields /\ f.depth = e.depth + 1 /\ f.swhid = d.target
          /\ f.kind = IF d.perms = "dir" THEN "dir" ELSE "cnt"
      BY <2>4, <2>5, DirectoryEntryFields
    <2>7. f.swhid \in Swhids
      BY <2>5, <2>6 DEF Edges
    <2> QED
      BY <2>5, <2>6, <2>7 DEF Sound, Below, Kinds, Files
  <1>4. CASE e.kind = "rev"
    <2>1. \/ f = Child(e, "parents", "parents", NoSwhid, Metadata(e.swhid).parents)
          \/ f = Child(e, "history", "history", e.swhid, <<>>)
      <3>1. f \in Revision(e)
        BY <1>1, <1>4 DEF Entries
      <3>2. \/ \E n, s : f = ToArchive(e, n, s)
            \/ f = Link(e, "parent", <<"parents", "1">>)
            \/ f = Child(e, "parents", "parents", NoSwhid, Metadata(e.swhid).parents)
            \/ f = Child(e, "history", "history", e.swhid, <<>>)
        BY <3>1, Zenon DEF Revision
      <3> QED
        BY <3>2, LinkFields
    <2>2. e.swhid \in Revisions
      BY <1>4 DEF Sound, Revisions
    <2>3. /\ DOMAIN f = Fields /\ f.depth = e.depth + 1
          /\ \/ f.kind = "parents" /\ f.swhid = NoSwhid /\ f.part = Metadata(e.swhid).parents
             \/ f.kind = "history" /\ f.swhid = e.swhid
      BY <2>1, ChildFields
    <2>4. f.kind = "parents" => DOMAIN f.part \subseteq DOMAIN Object[e.swhid].parents
      BY <2>2, <2>3, ParentsOf
    <2> QED
      BY <2>2, <2>3, <2>4 DEF Sound, Below, Kinds, Files, Revisions, Swhids
  <1>5. CASE e.kind = "parents"
    BY <1>1, <1>5, LinkFields DEF Entries, RevisionParents
  <1>6. CASE e.kind = "history"
    <2>1. PICK n \in {"by-date", "by-hash", "by-page"} : f = Child(e, n, n, e.swhid, <<>>)
      BY <1>1, <1>6 DEF Entries, RevisionHistory
    <2>2. DOMAIN f = Fields /\ f.kind = n /\ f.depth = e.depth + 1 /\ f.swhid = e.swhid
      BY <2>1, ChildFields
    <2> QED
      BY <1>6, <2>2 DEF Sound, Below, Kinds, Files, Revisions, Swhids
  <1>7. CASE e.kind = "by-date"
    <2>1. \E S : f \in Leaves(e, S) \/ f \in Shards(e, S)
      BY <1>1, <1>7 DEF Entries, ShardByDate
    <2> QED
      BY <1>7, <2>1, ShardsSound, LeavesAreLinks
  <1>8. CASE e.kind = "by-hash"
    <2>1. \E S : f \in Leaves(e, S) \/ f \in Shards(e, S)
      BY <1>1, <1>8 DEF Entries, ShardByHash
    <2> QED
      BY <1>8, <2>1, ShardsSound, LeavesAreLinks
  <1>9. CASE e.kind = "by-page"
    <2>1. \E S : f \in Leaves(e, S) \/ f \in Shards(e, S)
      BY <1>1, <1>9 DEF Entries, ShardByPage
    <2> QED
      BY <1>9, <2>1, ShardsSound, LeavesAreLinks
  <1>10. CASE e.kind = "rel"
    <2>1. f = Child(e, "target_type", "target_type", NoSwhid, <<>>)
      <3>1. f \in Release(e)
        BY <1>1, <1>10 DEF Entries
      <3>2. \/ \E n, s : f = ToArchive(e, n, s)
            \/ f = Child(e, "target_type", "target_type", NoSwhid, <<>>)
        BY <3>1, Zenon DEF Release
      <3> QED
        BY <3>2, LinkFields
    <2>2. DOMAIN f = Fields /\ f.kind = "target_type" /\ f.depth = e.depth + 1 /\ f.swhid = NoSwhid
      BY <2>1, ChildFields
    <2> QED
      BY <2>2 DEF Sound, Below, Kinds, Files
  <1>11. CASE e.kind = "snp"
    <2>1. \/ \E b : f = BranchLink(e, b)
          \/ \E S : f \in Shards(e, S)
      BY <1>1, <1>11 DEF Entries, Snapshot
    <2>2. \A b : BranchLink(e, b).kind = "link"
      BY LinkFields DEF BranchLink
    <2> QED
      BY <1>11, <2>1, <2>2, ShardsSound
  <1>12. CASE e.kind = "url"
    <2>1. e.name \in Origins
      BY <1>12 DEF Sound
    <2>2. PICK i \in DOMAIN Visits[e.name] :
              f = Child(e, "visit", Visits[e.name][i].date, NoSwhid, Visits[e.name][i].snapshot)
      BY <1>1, <1>12 DEF Entries, Origin
    <2>3. /\ Visits[e.name] \in Seq([date : STRING, snapshot : Seq(Swhids)])
          /\ Len(Visits[e.name][i].snapshot) <= 1
      BY <2>1, HistoryAssumption
    <2>4. Visits[e.name][i].snapshot \in Seq(Swhids)
      <3>1. PICK v \in Seq([date : STRING, snapshot : Seq(Swhids)]) : v = Visits[e.name]
        BY <2>3
      <3>2. i \in 1 .. Len(v)
        BY <2>2, <3>1
      <3>3. v[i] \in [date : STRING, snapshot : Seq(Swhids)]
        BY <3>2, ElementOfSeq
      <3> QED
        BY <3>1, <3>3
    <2>5. /\ DOMAIN f = Fields /\ f.kind = "visit" /\ f.depth = e.depth + 1
          /\ f.swhid = NoSwhid /\ f.part = Visits[e.name][i].snapshot
      BY <2>2, ChildFields
    <2> QED
      BY <2>3, <2>4, <2>5 DEF Sound, Below, Kinds, Files
  <1>13. CASE e.kind = "visit"
    <2>1. f = Child(e, "visitmeta", "meta.json", NoSwhid, <<>>)
      BY <1>1, <1>13, LinkFields DEF Entries, OriginVisit
    <2>2. DOMAIN f = Fields /\ f.kind = "visitmeta" /\ f.depth = e.depth + 1 /\ f.swhid = NoSwhid
      BY <2>1, ChildFields
    <2> QED
      BY <2>2 DEF Sound, Below, Kinds, Files
  <1>14. CASE e.kind = "cache"
    <2>1. PICK h : f = Child(e, "shard", h, NoSwhid, <<h>>)
      BY <1>1, <1>14, LinkFields DEF Entries, CacheDir
    <2>2. DOMAIN f = Fields /\ f.kind = "shard" /\ f.depth = e.depth + 1 /\ f.swhid = NoSwhid
      BY <2>1, ChildFields
    <2> QED
      BY <1>14, <2>2 DEF Sound, Below, Kinds, Files
  <1>15. CASE e.kind = "shard"
    <2>1. \E s, n : f = ToArchive(e, n, s)
      BY <1>1, <1>15 DEF Entries, ArtifactShardBySwhid, Leaves
    <2> QED
      BY <2>1, LinkFields
  <1> QED
    BY <1>1, <1>2, <1>3, <1>4, <1>5, <1>6, <1>7, <1>8, <1>9, <1>10, <1>11, <1>12, <1>13,
       <1>14, <1>15 DEF Entries

\* What is mounted in archive/ is archived, and shown as what it is.
LEMMA MountSound ==
  ASSUME NEW e, e.kind = "archive", NEW name, NEW hit \in Mount(e, name)
  PROVE  Sound(hit) /\ Below(e, hit) /\ hit.swhid \in Archived
  <1>1. CASE \E s \in Archived : hit = Child(e, "meta", name, s, <<>>)
    <2>1. PICK s \in Archived : hit = Child(e, "meta", name, s, <<>>)
      BY <1>1
    <2>2. DOMAIN hit = Fields /\ hit.kind = "meta" /\ hit.depth = e.depth + 1 /\ hit.swhid = s
      BY <2>1, ChildFields
    <2> QED
      BY <2>2 DEF Sound, Below, Kinds, Files, Swhids
  <1>2. CASE \E s \in Archived : hit = Child(e, TypeOf(s), s, s, <<>>)
    <2>1. PICK s \in Archived : hit = Child(e, TypeOf(s), s, s, <<>>)
      BY <1>2
    <2>2. /\ DOMAIN hit = Fields /\ hit.kind = TypeOf(s) /\ hit.depth = e.depth + 1
          /\ hit.swhid = s
      BY <2>1, ChildFields
    <2>3. hit.kind \in {"cnt", "dir", "rev", "rel", "snp"} /\ IsA(hit.kind, s)
      BY <2>2, ObjectTypes DEF IsA
    <2> QED
      BY <2>2, <2>3 DEF Sound, Below, Kinds, Files, Swhids
  <1> QED
    BY <1>1, <1>2 DEF Mount

\* So is what is found in a directory, whose metadata came.
LEMMA LookupSound ==
  ASSUME NEW e, Sound(e), NEW name, NEW hit \in Lookup(e, name)
  PROVE  /\ hit.kind # "link" => Sound(hit) /\ Below(e, hit)
         /\ e.kind = "archive" => hit.swhid \in Archived /\ hit.kind # "link"
         /\ Needed(e) \subseteq Archived
  <1>1. Accepts(e, name)
    BY DEF Lookup
  <1>2. CASE e.kind = "archive"
    <2>1. hit \in Mount(e, name)
      BY <1>1, <1>2 DEF Lookup
    <2>2. Sound(hit) /\ Below(e, hit) /\ hit.swhid \in Archived
      BY <1>2, <2>1, MountSound
    <2>3. hit.kind # "link"
      BY <2>2 DEF Sound, Kinds, Files
    <2> QED
      BY <1>2, <2>2, <2>3 DEF Needed
  <1>3. CASE e.kind = "origin"
    <2>1. PICK u \in Origins : hit = Child(e, "url", u, NoSwhid, <<>>)
      BY <1>1, <1>3 DEF Lookup
    <2>2. /\ DOMAIN hit = Fields /\ hit.kind = "url" /\ hit.name = u
          /\ hit.depth = e.depth + 1 /\ hit.swhid = NoSwhid
      BY <2>1, ChildFields
    <2>3. Sound(hit) /\ Below(e, hit)
      BY <2>2 DEF Sound, Below, Kinds, Files
    <2> QED
      BY <1>3, <2>3 DEF Needed
  <1>4. CASE e.kind \notin {"archive", "origin"}
    <2>1. hit \in {h \in First({f \in Computed(e) : f.name = name}) : h.sized}
      BY <1>1, <1>4 DEF Lookup
    <2>2. hit \in Computed(e)
      BY <2>1 DEF First
    <2>3. Needed(e) \subseteq Archived
      BY <2>2 DEF Computed
    <2>4. hit.kind # "link" => Sound(hit) /\ Below(e, hit)
      BY <2>2, ComputedSound
    <2> QED
      BY <1>4, <2>3, <2>4
  <1> QED
    BY <1>2, <1>3, <1>4

\* Blobs that did not come change nothing of it.
LEMMA LostSound ==
  ASSUME NEW d, NEW e, Sound(e), Below(d, e), NEW lost
  PROVE  /\ Sound([e EXCEPT !.lost = lost]) /\ Below(d, [e EXCEPT !.lost = lost])
         /\ [e EXCEPT !.lost = lost].swhid = e.swhid
  <1> DEFINE f == [e EXCEPT !.lost = lost]
  <1>1. /\ DOMAIN f = Fields /\ f.kind = e.kind /\ f.name = e.name /\ f.depth = e.depth
        /\ f.swhid = e.swhid /\ f.part = e.part
    BY DEF Below, Fields
  <1> HIDE DEF f
  <1>2. e.kind # "root"
    BY DEF Below
  <1>3. Sound(f)
    BY <1>1, <1>2 DEF Sound
  <1>4. Below(d, f)
    BY <1>1 DEF Below
  <1> QED
    BY <1>1, <1>3, <1>4 DEF f

\* The entries from the mount point to where the walker is.
Chain(entries) ==
    /\ entries \in Seq(ToSet(entries))
    /\ entries # <<>> /\ entries[1] = Root
    /\ \A i \in 1 .. Len(entries) : Sound(entries[i]) /\ entries[i].depth = i
    /\ \A i \in 2 .. Len(entries) : Below(entries[i - 1], entries[i])

\* Each went through what the cache remembers.
Cached(entries, swhids) ==
    \A i \in 2 .. Len(entries) :
        /\ entries[i - 1].kind = "archive" => entries[i].swhid \in swhids
        /\ Needed(entries[i - 1]) \subseteq swhids

\* The walker begins at the mount point.
LEMMA ChainRoot == Chain(<<Root>>) /\ \A S : Cached(<<Root>>, S)
  <1>1. /\ <<Root>> \in Seq({Root}) /\ ToSet(<<Root>>) = {Root}
        /\ Len(<<Root>>) = 1 /\ <<Root>>[1] = Root
    BY DEF ToSet
  <1>2. Root.kind = "root" /\ Root.depth = 1 /\ Root.swhid = NoSwhid
    BY DEF Root
  <1>3. Sound(Root)
    BY <1>2 DEF Sound, Kinds
  <1>4. 2 .. 1 = {} /\ 1 .. 1 = {1} /\ <<Root>> # <<>>
    OBVIOUS
  <1> QED
    BY <1>1, <1>2, <1>3, <1>4 DEF Chain, Cached

\* The way back to where it came from.
LEMMA ChainFront ==
  ASSUME NEW s, Chain(s), NEW S, Cached(s, S), Len(s) # 1
  PROVE  Chain(Front(s)) /\ Cached(Front(s), S)
  <1>1. PICK n \in Nat \ {0} : n = Len(s)
    BY DEF Chain
  <1>2. PICK f : f = Front(s)
    OBVIOUS
  <1>3. n - 1 \in Nat \ {0}
    BY <1>1
  <1>4. /\ f \in Seq(ToSet(s)) /\ Len(f) = n - 1
        /\ \A i \in 1 .. n - 1 : f[i] = s[i]
    BY <1>1, <1>2, <1>3 DEF Front, Chain
  <1>5. f \in Seq(ToSet(f))
    <2>1. \A i \in 1 .. n - 1 : f[i] \in ToSet(f)
      BY <1>4, Places
    <2>2. f \in [1 .. n - 1 -> ToSet(f)]
      BY <1>4, <2>1
    <2> QED
      BY <1>3, <2>2
  <1>6. \A i \in 1 .. n - 1 : i \in 1 .. n
    BY <1>1
  <1>7. \A i \in 2 .. n - 1 : i \in 2 .. n /\ i \in 1 .. n - 1 /\ i - 1 \in 1 .. n - 1
    BY <1>1
  <1>8. 1 \in 1 .. n - 1 /\ f # <<>>
    BY <1>3, <1>4
  <1> HIDE DEF Chain, Cached
  <1>9. Chain(f)
    BY <1>1, <1>4, <1>5, <1>6, <1>7, <1>8 DEF Chain
  <1>10. Cached(f, S)
    BY <1>1, <1>4, <1>6, <1>7 DEF Cached
  <1> QED
    BY <1>2, <1>9, <1>10

\* One level further down, when the cache has what it went through.
LEMMA ChainAppend ==
  ASSUME NEW s, Chain(s), NEW S, Cached(s, S), NEW e, Sound(e), Below(Last(s), e),
         Last(s).kind = "archive" => e.swhid \in S, Needed(Last(s)) \subseteq S
  PROVE  Chain(Append(s, e)) /\ Cached(Append(s, e), S)
  <1>1. PICK n \in Nat \ {0} : n = Len(s)
    BY DEF Chain
  <1>2. PICK a : a = Append(s, e)
    OBVIOUS
  <1>3. PICK d : d = Last(s) /\ d = s[n]
    BY <1>1 DEF Last
  <1>4. a \in Seq(ToSet(s) \cup {e}) /\ Len(a) = n + 1 /\ a[n + 1] = e
        /\ \A i \in 1 .. n : a[i] = s[i]
    BY <1>1, <1>2 DEF Chain
  <1>5. a \in Seq(ToSet(a))
    <2>1. \A i \in 1 .. n + 1 : a[i] \in ToSet(a)
      BY <1>4, Places
    <2>2. a \in [1 .. n + 1 -> ToSet(a)] /\ n + 1 \in Nat
      BY <1>4, <2>1
    <2> QED
      BY <2>2
  <1>6. \A i \in 1 .. n + 1 : i \in 1 .. n \/ i = n + 1
    BY <1>1
  <1>7. \A i \in 2 .. n + 1 : \/ i \in 2 .. n /\ i \in 1 .. n /\ i - 1 \in 1 .. n
                              \/ i = n + 1 /\ i - 1 = n /\ n \in 1 .. n
    BY <1>1
  <1>8. 1 \in 1 .. n /\ a # <<>>
    BY <1>1, <1>4
  <1>9. e.depth = n + 1
    BY <1>1, <1>3 DEF Chain, Below
  <1>10. \A i \in 1 .. n + 1 : Sound(a[i]) /\ a[i].depth = i
    BY <1>1, <1>4, <1>6, <1>9 DEF Chain
  <1>11. \A i \in 2 .. n + 1 : Below(a[i - 1], a[i])
    BY <1>1, <1>3, <1>4, <1>7 DEF Chain
  <1>12. Chain(a)
    BY <1>1, <1>4, <1>5, <1>8, <1>10, <1>11 DEF Chain
  <1>13. Cached(a, S)
    BY <1>1, <1>3, <1>4, <1>7 DEF Cached
  <1> QED
    BY <1>2, <1>12, <1>13

-----------------------------------------------------------------------------
(* The walk.                                                               *)

Walk ==
    /\ <<graph, content>> \in BackEnds
    /\ rows \subseteq Archived
    /\ Chain(stack)
    /\ Cached(stack, rows)
    /\ result \in {"there", "walking", "missing", "outside", "read", "unreadable"}
    /\ todo = <<>> <=> result \in {"there", "read", "unreadable"}

\* The walker is in an entry that is what it should be.
LEMMA HereSound ==
  ASSUME Chain(stack)
  PROVE  Sound(Here)
  <1>1. PICK n \in Nat \ {0} : n = Len(stack)
    BY DEF Chain
  <1> QED
    BY <1>1 DEF Chain, Here, Last

\* What a lookup leaves in the cache is archived, with all the directory needed.
LEMMA FetchedArchived ==
  ASSUME NEW e, Sound(e), Needed(e) \subseteq Archived, NEW fetched \in Fetch(e)
  PROVE  fetched \subseteq Archived /\ Needed(e) \subseteq fetched
  <1>1. PICK also \in AlsoFetched(e) : fetched = Needed(e) \cup also
    BY DEF Fetch
  <1>2. also \subseteq Archived
    <2>1. CASE e.kind = "dir"
      BY <1>1, <2>1 DEF AlsoFetched
    <2>2. CASE e.kind \in {"by-date", "by-hash", "by-page"}
      <3>1. e.swhid \in Revisions
        BY <2>2 DEF Sound
      <3>2. PICK h \in Seq(Revisions) : h = History[e.swhid]
        BY <3>1, HistoryAssumption
      <3>3. ToSet(h) \subseteq Revisions
        BY Places, <3>2
      <3> QED
        BY <1>1, <2>2, <3>1, <3>2, <3>3 DEF AlsoFetched, Revisions
    <2>3. CASE e.kind \notin {"dir", "by-date", "by-hash", "by-page"}
      BY <1>1, <2>3 DEF AlsoFetched
    <2> QED
      BY <2>1, <2>2, <2>3
  <1> QED
    BY <1>1, <1>2

\* It holds at first.
LEMMA InitWalk == Init => Walk
  <1> SUFFICES ASSUME Init PROVE Walk
    OBVIOUS
  <1>1. <<graph, content>> \in BackEnds
    <2>1. PICK b \in BackEnds : graph = b[1] /\ content = b[2]
      BY DEF Init
    <2>2. b = <<b[1], b[2]>>
      BY ConfigurationAssumption
    <2> QED
      BY <2>1, <2>2
  <1> QED
    BY <1>1, ChainRoot DEF Init, Walk

\* A lookup goes one level down, or on with a symlink.
LEMMA DescendWalk ==
  ASSUME Walk, Descend
  PROVE  Walk'
  <1>1. PICK hit \in Lookup(Here, todo[1]), fetched \in Fetch(Here) :
        /\ rows' = rows \cup fetched \cup Remembered(hit)
        /\ IF hit.kind = "link"
             THEN UNCHANGED stack
             ELSE \E lost \in MayLose(hit) : stack' = Append(stack, [hit EXCEPT !.lost = lost])
    BY DEF Descend
  <1>2. Sound(Here)
    BY HereSound DEF Walk
  <1>3. /\ hit.kind # "link" => Sound(hit) /\ Below(Here, hit)
        /\ Here.kind = "archive" => hit.swhid \in Archived /\ hit.kind # "link"
        /\ Needed(Here) \subseteq Archived
    BY <1>2, LookupSound
  <1>4. fetched \subseteq Archived /\ Needed(Here) \subseteq fetched
    BY <1>2, <1>3, FetchedArchived
  <1>5. /\ Remembered(hit) \subseteq Archived
        /\ Here.kind = "archive" => hit.swhid \in Remembered(hit)
    BY <1>3 DEF Remembered
  <1>6. rows' \subseteq Archived /\ rows \subseteq rows' /\ Needed(Here) \subseteq rows'
        /\ (Here.kind = "archive" => hit.swhid \in rows')
    BY <1>1, <1>4, <1>5 DEF Walk
  <1>7. Chain(stack) /\ Cached(stack, rows')
    BY <1>6 DEF Walk, Cached
  <1>8. Chain(stack') /\ Cached(stack', rows')
    <2>1. CASE hit.kind = "link"
      BY <1>1, <1>7, <2>1
    <2>2. CASE hit.kind # "link"
      <3>1. PICK lost \in MayLose(hit) : stack' = Append(stack, [hit EXCEPT !.lost = lost])
        BY <1>1, <2>2
      <3>2. PICK e : e = [hit EXCEPT !.lost = lost]
        OBVIOUS
      <3>3. Sound(e) /\ Below(Last(stack), e) /\ e.swhid = hit.swhid
        BY <1>3, <2>2, <3>2, LostSound DEF Here
      <3>4. Last(stack).kind = "archive" => e.swhid \in rows'
        BY <1>6, <3>3 DEF Here
      <3>5. Needed(Last(stack)) \subseteq rows'
        BY <1>6 DEF Here
      <3> QED
        BY <1>7, <3>1, <3>2, <3>3, <3>4, <3>5, ChainAppend
    <2> QED
      BY <2>1, <2>2
  <1>9. result' = IF todo' = <<>> THEN "there" ELSE "walking"
    BY DEF Descend, Arrive
  <1>10. graph' = graph /\ content' = content
    BY DEF Descend
  <1> QED
    BY <1>6, <1>8, <1>9, <1>10 DEF Walk

\* In a shard of cache/, the walker came through the mount point and cache/.
LEMMA ShardsAreInCache ==
  ASSUME Chain(stack), Here.kind = "shard"
  PROVE  Len(stack) = 3 /\ stack[1].kind = "root" /\ stack[2].kind = "cache"
  <1>1. PICK n \in Nat \ {0} : n = Len(stack)
    BY DEF Chain
  <1>2. stack[n].kind = "shard" /\ stack[1].kind = "root"
    <2>1. Root.kind = "root"
      BY DEF Root
    <2>2. stack[n] = Here /\ stack[1] = Root
      BY <1>1 DEF Here, Last, Chain
    <2> QED
      BY <2>1, <2>2
  <1>3. n # 1 /\ n \in 2 .. n /\ n - 1 \in 1 .. n
    BY <1>1, <1>2
  <1>4. stack[n - 1].kind = "cache"
    BY <1>1, <1>2, <1>3 DEF Chain, Below
  <1>5. n - 1 # 1 /\ n - 1 \in 2 .. n /\ n - 2 \in 1 .. n /\ n - 1 - 1 = n - 2
    BY <1>1, <1>2, <1>3, <1>4
  <1>6. stack[n - 2].kind = "root"
    BY <1>1, <1>4, <1>5 DEF Chain, Below
  <1>7. n - 2 = 1
    <2>1. n - 2 \notin 2 .. n
      BY <1>1, <1>6 DEF Chain, Below
    <2> QED
      BY <1>5, <2>1
  <1>8. n = 3
    BY ONLY <1>7, n \in Nat
  <1> QED
    BY <1>1, <1>2, <1>4, <1>8

\* What is purged in a shard is nothing the walker went through.
LEMMA UnlinkWalk ==
  ASSUME Walk, Unlink
  PROVE  Walk'
  <1>1. PICK s \in rows : rows' = rows \ {s}
    BY DEF Unlink
  <1>2. /\ Here.kind = "shard"
        /\ UNCHANGED <<graph, content, stack, todo, from, result>>
    BY DEF Unlink
  <1>3. Len(stack) = 3 /\ stack[1].kind = "root" /\ stack[2].kind = "cache"
    BY <1>2, ShardsAreInCache DEF Walk
  <1>4. Needed(stack[1]) = {} /\ Needed(stack[2]) = {}
    BY <1>3 DEF Needed
  <1>5. Cached(stack, rows')
    <2>1. ASSUME NEW i \in 2 .. 3
          PROVE  i - 1 \in {1, 2}
      OBVIOUS
    <2>2. \A j \in {1, 2} : stack[j].kind # "archive" /\ Needed(stack[j]) = {}
      BY <1>3, <1>4
    <2> QED
      BY <1>3, <2>1, <2>2 DEF Cached
  <1> QED
    BY <1>1, <1>2, <1>5 DEF Walk

\* No step breaks it.
LEMMA NextWalk == Walk /\ [Next]_vars => Walk'
  <1> SUFFICES ASSUME Walk, [Next]_vars PROVE Walk'
    OBVIOUS
  <1>1. CASE Go
    <2>1. todo' # <<>> /\ result' = "walking" /\ UNCHANGED <<graph, content, rows, stack>>
      BY <1>1 DEF Go
    <2> QED
      BY <2>1 DEF Walk
  <1>2. CASE Ascend
    <2>1. CASE Len(stack) = 1
      BY <1>2, <2>1 DEF Ascend, Walk
    <2>2. CASE Len(stack) # 1
      <3>1. /\ stack' = Front(stack) /\ UNCHANGED <<graph, content, rows>>
            /\ result' = IF todo' = <<>> THEN "there" ELSE "walking"
        BY <1>2, <2>2 DEF Ascend, Arrive
      <3>2. Chain(stack') /\ Cached(stack', rows')
        BY <2>2, <3>1, ChainFront DEF Walk
      <3> QED
        BY <3>1, <3>2 DEF Walk
    <2> QED
      BY <2>1, <2>2
  <1>3. CASE Descend
    BY <1>3, DescendWalk
  <1>4. CASE Miss
    BY <1>4 DEF Miss, Walk
  <1>5. CASE Read
    BY <1>5 DEF Read, AtRest, Walk
  <1>6. CASE Again
    BY <1>6, ChainRoot DEF Again, Walk
  <1>7. CASE Unlink
    BY <1>7, UnlinkWalk
  <1>8. CASE UNCHANGED vars
    BY <1>8 DEF vars, Walk
  <1> QED
    BY <1>1, <1>2, <1>3, <1>4, <1>5, <1>6, <1>7, <1>8 DEF Next

\* The inductive invariant: every entry between the mount point and the walker is
\* one level below the one before, is made from what its kind is made from, and
\* what it took to go through it is in the cache.
THEOREM WalkInvariance == Spec => []Walk
  BY InitWalk, NextWalk, PTL DEF Spec

\* The types, and that the depth of an entry is the number of names that lead to
\* it, whatever it was reached through: what relative targets count on.
THEOREM ArtifactTypes == Spec => []TypeOK
  <1>1. Walk => TypeOK
    <2> SUFFICES ASSUME Walk PROVE TypeOK
      OBVIOUS
    <2>1. PICK n \in Nat \ {0} : n = Len(stack) /\ DOMAIN stack = 1 .. n
      BY DEF Walk, Chain
    <2>2. \A i \in 1 .. n : /\ stack[i].kind \in Kinds /\ stack[i].depth = i
                            /\ stack[i].swhid \in Swhids \cup {NoSwhid}
      BY <2>1 DEF Walk, Chain, Sound
    <2> QED
      BY <2>1, <2>2 DEF Walk, Chain, TypeOK
  <1> QED
    BY <1>1, WalkInvariance, PTL

\* Whatever the walker went through is in the cache.
THEOREM WalkedStaysCached == Spec => []WalkedIsCached
  <1>1. Walk => WalkedIsCached
    BY DEF Walk, Cached, WalkedIsCached
  <1> QED
    BY <1>1, WalkInvariance, PTL

-----------------------------------------------------------------------------
(* Names.                                                                  *)

\* No two of these entries have one name.
Distinct(entries) == \A e, f \in entries : e.name = f.name => e = f

\* Leaves have the names of their artifacts.
LEMMA LeavesDistinct ==
  ASSUME NEW e, NEW S
  PROVE  Distinct(Leaves(e, S))
  BY LinkFields DEF Distinct, Leaves

\* A shard is made from its name.
LEMMA ShardsDistinct ==
  ASSUME NEW e, NEW names
  PROVE  Distinct(Shards(e, names))
  <1>1. ASSUME NEW f \in Shards(e, names)
        PROVE  f = Child(e, e.kind, f.name, e.swhid, Append(e.part, f.name))
    BY ChildFields DEF Shards
  <1> QED
    BY <1>1 DEF Distinct

\* A source tree's directory has the names of the archived one.
LEMMA DirectoryDistinct ==
  ASSUME NEW e, e.swhid \in Archived, IsA("dir", e.swhid)
  PROVE  /\ Distinct(Directory(e))
         /\ {f.name : f \in Directory(e)} = {d.name : d \in Object[e.swhid].entries}
  <1>1. Metadata(e.swhid).entries = Object[e.swhid].entries
    BY MetadataOf
  <1>2. PICK D \in SUBSET Edges : D = Object[e.swhid].entries
    BY ObjectTypes DEF Directories
  <1>3. Directory(e) = {DirectoryEntry(e, d) : d \in D}
    BY <1>1, <1>2 DEF Directory
  <1>4. \A d \in D : DirectoryEntry(e, d).name = d.name
    BY <1>2, DirectoryEntryFields
  <1>5. \A d, f \in D : d.name = f.name => d = f
    BY <1>2, ArchiveAssumption
  <1>6. Distinct(Directory(e))
    BY <1>3, <1>4, <1>5 DEF Distinct
  <1>7. {f.name : f \in Directory(e)} = {d.name : d \in D}
    BY <1>3, <1>4
  <1> QED
    BY <1>2, <1>6, <1>7

\* Each visit that is shown is the first one of its day.
LEMMA OriginDistinct ==
  ASSUME NEW e, e.name \in Origins
  PROVE  Distinct(Origin(e))
  <1>1. PICK n \in Nat : DOMAIN Visits[e.name] = 1 .. n
    BY HistoryAssumption
  <1> DEFINE v == Visits[e.name]
             shown(i) == Child(e, "visit", v[i].date, NoSwhid, v[i].snapshot)
  <1>2. ASSUME NEW i \in 1 .. n, NEW j \in 1 .. n, FirstOfDay(v, i), FirstOfDay(v, j),
               v[i].date = v[j].date
        PROVE  i = j
    BY <1>1, <1>2 DEF FirstOfDay
  <1>3. Origin(e) = {shown(i) : i \in {j \in 1 .. n : FirstOfDay(v, j)}}
    BY <1>1 DEF Origin
  <1>4. \A i : shown(i).name = v[i].date
    BY ChildFields
  <1> HIDE DEF shown, v
  <1> QED
    BY <1>2, <1>3, <1>4 DEF Distinct

\* No directory computes two entries of one name, but a snapshot.
LEMMA ComputedDistinct ==
  ASSUME NEW d, Sound(d), d.kind # "snp", rows \subseteq Archived
  PROVE  Distinct(Computed(d))
  <1> SUFFICES ASSUME NEW e \in Entries(d), NEW f \in Entries(d), Needed(d) \subseteq Archived,
                      e.name = f.name
               PROVE  e = f
    BY DEF Computed, Distinct
  <1>1. CASE d.kind = "root"
    <2> DEFINE entry(n) == Child(Root, n, n, NoSwhid, <<>>)
    <2>1. RootEntries = {entry(n) : n \in {"archive", "origin", "cache", "README"}}
      BY DEF RootEntries
    <2>2. \A n : entry(n).name = n
      BY ChildFields
    <2> HIDE DEF entry
    <2> QED
      BY <1>1, <2>1, <2>2 DEF Entries
  <1>2. CASE d.kind = "dir"
    <2>1. d.swhid \in Archived /\ IsA("dir", d.swhid)
      BY <1>2 DEF Needed, Sound
    <2> QED
      BY <1>2, <2>1, DirectoryDistinct DEF Entries, Distinct
  <1>3. CASE d.kind = "rev"
    <2> DEFINE root == ToArchive(d, "root", Metadata(d.swhid).directory)
               meta == ToArchive(d, "meta.json", Json(d.swhid))
               parents == Child(d, "parents", "parents", NoSwhid, Metadata(d.swhid).parents)
               history == Child(d, "history", "history", d.swhid, <<>>)
               parent == Link(d, "parent", <<"parents", "1">>)
    <2>1. \A g \in Revision(d) : g \in {root, meta, parents, history, parent}
      BY Zenon DEF Revision
    <2>2. e \in Revision(d) /\ f \in Revision(d)
      BY <1>3 DEF Entries
    <2>3. /\ root.name = "root" /\ meta.name = "meta.json" /\ parents.name = "parents"
          /\ history.name = "history" /\ parent.name = "parent"
      <3>1. root.name = "root"
        BY LinkFields
      <3>2. meta.name = "meta.json"
        BY LinkFields
      <3>3. parents.name = "parents" /\ history.name = "history"
        BY ChildFields
      <3>4. parent.name = "parent"
        BY LinkFields
      <3> QED
        BY <3>1, <3>2, <3>3, <3>4
    <2> HIDE DEF root, meta, parents, history, parent
    <2> QED
      BY <2>1, <2>2, <2>3
  <1>4. CASE d.kind = "parents"
    <2>1. PICK s \in Revisions : DOMAIN d.part \subseteq DOMAIN Object[s].parents
      BY <1>4 DEF Sound
    <2> DEFINE entry(i) == ToArchive(d, ToString(i), d.part[i])
    <2>2. RevisionParents(d) = {entry(i) : i \in DOMAIN d.part}
      BY DEF RevisionParents
    <2>3. \A i : entry(i).name = ToString(i)
      BY LinkFields
    <2>4. \A i, j \in DOMAIN d.part : ToString(i) = ToString(j) => i = j
      BY <2>1, NamesAssumption
    <2> HIDE DEF entry
    <2> QED
      BY <1>4, <2>2, <2>3, <2>4 DEF Entries
  <1>5. CASE d.kind = "history"
    <2> DEFINE entry(n) == Child(d, n, n, d.swhid, <<>>)
    <2>1. RevisionHistory(d) = {entry(n) : n \in {"by-date", "by-hash", "by-page"}}
      BY DEF RevisionHistory
    <2>2. \A n : entry(n).name = n
      BY ChildFields
    <2> HIDE DEF entry
    <2> QED
      BY <1>5, <2>1, <2>2 DEF Entries
  <1>6. CASE d.kind = "by-date"
    <2>1. PICK S : Entries(d) = Leaves(d, S) \/ Entries(d) = Shards(d, S)
      BY <1>6 DEF Entries, ShardByDate
    <2> QED
      BY <2>1, LeavesDistinct, ShardsDistinct DEF Distinct
  <1>7. CASE d.kind = "by-hash"
    <2>1. PICK S : Entries(d) = Leaves(d, S) \/ Entries(d) = Shards(d, S)
      BY <1>7 DEF Entries, ShardByHash
    <2> QED
      BY <2>1, LeavesDistinct, ShardsDistinct DEF Distinct
  <1>8. CASE d.kind = "by-page"
    <2>1. CASE d.part = <<>>
      <3>1. PICK S : Entries(d) = Shards(d, S)
        BY <1>8, <2>1 DEF Entries, ShardByPage
      <3> QED
        BY <3>1, ShardsDistinct DEF Distinct
    <2>2. CASE d.part # <<>>
      <3>1. \A g \in Entries(d) : \E S : g \in Leaves(d, S)
        BY <1>8, <2>2 DEF Entries, ShardByPage
      <3>2. \A g \in Entries(d) : g = ToArchive(d, g.name, g.name)
        BY <3>1, LinkFields DEF Leaves
      <3> QED
        BY <3>2
    <2> QED
      BY <2>1, <2>2
  <1>9. CASE d.kind = "rel"
    <2> DEFINE meta == ToArchive(d, "meta.json", Json(d.swhid))
               target == ToArchive(d, "target", Metadata(d.swhid).target)
               type == Child(d, "target_type", "target_type", NoSwhid, <<>>)
               root == ToArchive(d, "root", RootOf[Metadata(d.swhid).target])
    <2>1. \A g \in Release(d) : g \in {meta, target, type, root}
      BY Zenon DEF Release
    <2>2. e \in Release(d) /\ f \in Release(d)
      BY <1>9 DEF Entries
    <2>3. /\ meta.name = "meta.json" /\ target.name = "target"
          /\ type.name = "target_type" /\ root.name = "root"
      <3>1. meta.name = "meta.json"
        BY LinkFields
      <3>2. target.name = "target"
        BY LinkFields
      <3>3. type.name = "target_type"
        BY ChildFields
      <3>4. root.name = "root"
        BY LinkFields
      <3> QED
        BY <3>1, <3>2, <3>3, <3>4
    <2> HIDE DEF meta, target, type, root
    <2> QED
      BY <2>1, <2>2, <2>3
  <1>10. CASE d.kind = "url"
    <2>1. d.name \in Origins
      BY <1>10 DEF Sound
    <2> QED
      BY <1>10, <2>1, OriginDistinct DEF Entries, Distinct
  <1>11. CASE d.kind = "visit"
    <2>1. PICK p \in Seq(Swhids) : p = d.part /\ Len(p) <= 1
      BY <1>11 DEF Sound
    <2>2. PICK n \in Nat : n = Len(p) /\ n <= 1
      BY <2>1
    <2>3. \A s, t \in ToSet(p) : s = t
      <3>1. \A i, j \in 1 .. n : i = j
        BY <2>2
      <3> QED
        BY <2>2, <3>1, Places
    <2>4. \A g \in OriginVisit(d) :
              \/ \E s \in ToSet(p) : g = ToArchive(d, "snapshot", s)
              \/ g = Child(d, "visitmeta", "meta.json", NoSwhid, <<>>)
      BY <2>1, Zenon DEF OriginVisit
    <2>5. e \in OriginVisit(d) /\ f \in OriginVisit(d)
      BY <1>11 DEF Entries
    <2> QED
      BY <2>3, <2>4, <2>5, ChildFields, LinkFields
  <1>12. CASE d.kind = "cache"
    <2> DEFINE shard(h) == Child(d, "shard", h, NoSwhid, <<h>>)
               origin == Link(d, "origin", Up(d) \o <<"origin">>)
    <2>1. \A g \in CacheDir(d) : g = origin \/ \E s \in rows : g = shard(Hash[s])
      BY Zenon DEF CacheDir
    <2>2. e \in CacheDir(d) /\ f \in CacheDir(d)
      BY <1>12 DEF Entries
    <2>3. origin.name = "origin" /\ \A h : shard(h).name = h
      BY ChildFields, LinkFields
    <2>4. \A s \in rows : Hash[s] # "origin"
      BY NamesAssumption DEF Swhids
    <2> HIDE DEF shard, origin
    <2> QED
      BY <2>1, <2>2, <2>3, <2>4
  <1>13. CASE d.kind = "shard"
    <2>1. \A g \in ArtifactShardBySwhid(d) :
              \E s \in rows : g = ToArchive(d, s, s) \/ g = ToArchive(d, Json(s), Json(s))
      BY Zenon DEF ArtifactShardBySwhid, Leaves
    <2>2. e \in ArtifactShardBySwhid(d) /\ f \in ArtifactShardBySwhid(d)
      BY <1>13 DEF Entries
    <2>3. \A g \in ArtifactShardBySwhid(d) : g = ToArchive(d, g.name, g.name)
      BY <2>1, LinkFields
    <2> QED
      BY <2>2, <2>3
  <1>14. CASE d.kind \in Files \cup {"archive", "origin"}
    BY <1>14 DEF Entries, Files
  <1> QED
    BY <1>1, <1>2, <1>3, <1>4, <1>5, <1>6, <1>7, <1>8, <1>9, <1>10, <1>11, <1>12, <1>13, <1>14
    DEF Sound, Kinds

\* Whatever the walker is in, it finds one entry of each name, but in a snapshot.
THEOREM EntriesDistinct == Spec => []NamesAreUnique
  <1>1. Walk => NamesAreUnique
    BY HereSound, ComputedDistinct DEF Walk, NamesAreUnique, Distinct
  <1> QED
    BY <1>1, WalkInvariance, PTL

-----------------------------------------------------------------------------
(* Directories of shards.                                                  *)

\* Of what is not a file, attributes come.
LEMMA AllSized ==
  ASSUME NEW e, NEW kind, NEW name, NEW swhid, NEW part, NEW S
  PROVE  /\ Child(e, kind, name, swhid, part).sized
         /\ Link(e, name, part).sized /\ ToArchive(e, name, swhid).sized
         /\ \A f \in Leaves(e, S) \cup Shards(e, S) : f.sized
  <1>1. \A k, n, s, p : Child(e, k, n, s, p).sized
    BY DEF Child
  <1>2. \A n, p : Link(e, n, p).sized
    BY <1>1 DEF Link
  <1>3. \A n, s : ToArchive(e, n, s).sized
    BY <1>2 DEF ToArchive
  <1>4. ASSUME NEW f \in Leaves(e, S) \cup Shards(e, S)
        PROVE  f.sized
    <2>1. CASE f \in Leaves(e, S)
      BY <1>3, <2>1 DEF Leaves
    <2>2. CASE f \in Shards(e, S)
      BY <1>1, <2>2 DEF Shards
    <2> QED
      BY <1>4, <2>1, <2>2
  <1> QED
    BY <1>1, <1>2, <1>3, <1>4

\* So a directory of shards and an origin list what they compute.
LEMMA ListedAsComputed ==
  ASSUME NEW e, e.kind \in {"snp", "by-date", "by-hash", "by-page", "url"}
  PROVE  Listed(e) = Computed(e)
  <1> SUFFICES ASSUME NEW f \in Entries(e) PROVE f.sized
    BY DEF Listed, Served, Computed
  <1>1. CASE e.kind = "snp"
    <2>1. \A b : BranchLink(e, b).sized
      BY AllSized DEF BranchLink
    <2>2. f \in Snapshot(e)
      BY <1>1 DEF Entries
    <2>3. \E S : f \in Shards(e, S) \/ \E b : f = BranchLink(e, b)
      BY <2>2, Zenon DEF Snapshot
    <2> QED
      BY <2>1, <2>3, AllSized
  <1>2. CASE e.kind = "by-date"
    <2>1. f \in ShardByDate(e)
      BY <1>2 DEF Entries
    <2>2. \E S : f \in Leaves(e, S) \/ f \in Shards(e, S)
      BY <2>1, Zenon DEF ShardByDate
    <2> QED
      BY <2>2, AllSized
  <1>3. CASE e.kind = "by-hash"
    <2>1. f \in ShardByHash(e)
      BY <1>3 DEF Entries
    <2>2. \E S : f \in Leaves(e, S) \/ f \in Shards(e, S)
      BY <2>1, Zenon DEF ShardByHash
    <2> QED
      BY <2>2, AllSized
  <1>4. CASE e.kind = "by-page"
    <2>1. f \in ShardByPage(e)
      BY <1>4 DEF Entries
    <2>2. \E S : f \in Leaves(e, S) \/ f \in Shards(e, S)
      BY <2>1, Zenon DEF ShardByPage
    <2> QED
      BY <2>2, AllSized
  <1>5. CASE e.kind = "url"
    <2>1. f \in Origin(e)
      BY <1>5 DEF Entries
    <2>2. \E name, part : f = Child(e, "visit", name, NoSwhid, part)
      BY <2>1, Zenon DEF Origin
    <2> QED
      BY <2>2, AllSized
  <1> QED
    BY <1>1, <1>2, <1>3, <1>4, <1>5

\* The shard that a path leads to from a directory of shards.
ShardAt(e, q) ==
    IF q = <<>> THEN e
    ELSE [kind |-> e.kind, name |-> Last(q), depth |-> e.depth + Len(q), swhid |-> e.swhid,
          part |-> q, sized |-> TRUE, lost |-> {}]

\* The k-th name of a path is listed where those before it lead: as a link if it is
\* the last one, or else as a shard.
Leads(e, p, k) ==
    LET d == ShardAt(e, SubSeq(p, 1, k - 1))
    IN  IF k = Len(p) THEN \E f \in Listed(d) : f.kind = "link" /\ f.name = p[k]
        ELSE ShardAt(e, SubSeq(p, 1, k)) \in Listed(d)

\* The shards under e, whose paths are in Q, lead to links whose paths are those
\* in P.
Tree(e, N, Q, P) ==
    /\ P \subseteq Seq(N) /\ Q \subseteq Seq(N) /\ <<>> \in Q
    /\ \A p \in P : Len(p) \in 1 .. Depth
    /\ e.kind # "link"
    /\ \A q \in Q : \A f \in Listed(ShardAt(e, q)) :
          \/ f.kind = "link" /\ f.name \in N /\ Append(q, f.name) \in P
          \/ \E n \in N : Append(q, n) \in Q /\ f = ShardAt(e, Append(q, n))
    /\ \A p \in P : \A k \in 1 .. Len(p) : Leads(e, p, k)

\* The first items of a path, and one more.
LEMMA FirstItems ==
  ASSUME NEW N, NEW p \in Seq(N), NEW k \in 1 .. Len(p)
  PROVE  /\ SubSeq(p, 1, k - 1) \in Seq(N) /\ SubSeq(p, 1, k) \in Seq(N) /\ p[k] \in N
         /\ Len(SubSeq(p, 1, k - 1)) = k - 1 /\ Len(SubSeq(p, 1, k)) = k
         /\ SubSeq(p, 1, k) # <<>> /\ SubSeq(p, 1, 0) = <<>>
         /\ Last(SubSeq(p, 1, k)) = p[k]
         /\ Append(SubSeq(p, 1, k - 1), p[k]) = SubSeq(p, 1, k)
         /\ SubSeq(p, 1, Len(p)) = p
  <1>1. PICK n \in Nat : n = Len(p)
    OBVIOUS
  <1>2. k \in Nat \ {0} /\ k - 1 \in Nat /\ k \in 1 .. n
    BY <1>1
  <1>3. PICK q : q = SubSeq(p, 1, k - 1)
    OBVIOUS
  <1>4. PICK r : r = SubSeq(p, 1, k)
    OBVIOUS
  <1>5. q \in Seq(N) /\ Len(q) = k - 1 /\ \A i \in 1 .. k - 1 : q[i] = p[i]
    BY <1>1, <1>2, <1>3
  <1>6. r \in Seq(N) /\ Len(r) = k /\ \A i \in 1 .. k : r[i] = p[i]
    BY <1>1, <1>2, <1>4
  <1>7. p[k] \in N
    OBVIOUS
  <1>8. Append(q, p[k]) = r
    <2>1. PICK a : a = Append(q, p[k])
      OBVIOUS
    <2>2. a \in Seq(N) /\ Len(a) = k /\ a[k] = p[k] /\ \A i \in 1 .. k - 1 : a[i] = q[i]
      BY <1>2, <1>5, <1>7, <2>1
    <2>3. \A i \in 1 .. k : a[i] = r[i]
      <3>1. \A i \in 1 .. k : i = k \/ i \in 1 .. k - 1
        BY <1>2
      <3> QED
        BY <1>2, <1>5, <1>6, <2>2, <3>1
    <2> QED
      BY <1>6, <2>1, <2>2, <2>3, SeqEqual
  <1>9. r # <<>> /\ Last(r) = p[k]
    BY <1>2, <1>6 DEF Last
  <1>10. SubSeq(p, 1, 0) = <<>> /\ SubSeq(p, 1, Len(p)) = p
    OBVIOUS
  <1> QED
    BY <1>3, <1>4, <1>5, <1>6, <1>7, <1>8, <1>9, <1>10

\* A shard is made from its path, and what it is a shard of.
LEMMA ShardFields ==
  ASSUME NEW e, e.part = <<>>, NEW q
  PROVE  ShardAt(e, q).kind = e.kind /\ ShardAt(e, q).swhid = e.swhid /\ ShardAt(e, q).part = q
  <1>1. CASE q = <<>>
    BY <1>1 DEF ShardAt
  <1>2. CASE q # <<>>
    BY <1>2 DEF ShardAt
  <1> QED
    BY <1>1, <1>2

\* A shard's shard.
LEMMA ShardOfShard ==
  ASSUME NEW e, e.part = <<>>, e.depth \in Nat, NEW N, NEW q \in Seq(N), NEW n \in N
  PROVE  /\ Child(ShardAt(e, q), e.kind, n, e.swhid, Append(q, n)) = ShardAt(e, Append(q, n))
         /\ ShardAt(e, Append(q, n)).name = n
  <1>1. PICK d : d = ShardAt(e, q)
    OBVIOUS
  <1>2. d.depth = e.depth + Len(q)
    <2>1. CASE q = <<>>
      BY <1>1, <2>1 DEF ShardAt
    <2>2. CASE q # <<>>
      BY <1>1, <2>2 DEF ShardAt
    <2> QED
      BY <2>1, <2>2
  <1>3. PICK a \in Seq(N) : a = Append(q, n) /\ Len(a) = Len(q) + 1 /\ a[Len(q) + 1] = n
    <2>1. q \in Seq(N) /\ n \in N
      OBVIOUS
    <2> QED
      BY ONLY <2>1, AppendProperties
  <1>4. a # <<>> /\ Last(a) = n /\ Len(a) = Len(q) + 1
    BY <1>3 DEF Last
  <1>5. ShardAt(e, a) = [kind |-> e.kind, name |-> n, depth |-> e.depth + (Len(q) + 1),
                         swhid |-> e.swhid, part |-> a, sized |-> TRUE, lost |-> {}]
    BY <1>4 DEF ShardAt
  <1>6. d.depth + 1 = e.depth + (Len(q) + 1)
    BY <1>2, SMTT(30)
  <1>7. Child(d, e.kind, n, e.swhid, a) = ShardAt(e, a)
    BY <1>5, <1>6 DEF Child
  <1>8. ShardAt(e, a).name = n
    BY <1>5
  <1> QED
    BY <1>1, <1>3, <1>7, <1>8

\* A symlink lists nothing.
LEMMA LinksListNothing ==
  ASSUME NEW f, f.kind = "link"
  PROVE  Listed(f) = {}
  BY DEF Listed, Served, Computed, Entries

\* The levels under a directory of shards are computed one from the other.
LEMMA LevelsStep ==
  ASSUME NEW e, NEW N, NEW Q, NEW P, Tree(e, N, Q, P), e.part = <<>>, e.depth \in Nat
  PROVE  /\ Levels(e)[0] = {At(e, <<>>)}
         /\ \A n \in 1 .. Depth : Levels(e)[n] = Deeper(Levels(e)[n - 1])
  <1> DEFINE Shards_ == {ShardAt(e, q) : q \in Q}
             U == Shards_ \cup UNION {Listed(d) : d \in Shards_}
             R == [entry : U, path : Seq(N)]
             V == SUBSET R
             Item(f, n) == IF n = 0 THEN {At(e, <<>>)} ELSE Deeper(f[n - 1])
             step == [x \in V \X (1 .. Depth) |-> Deeper(x[1])]
  <1>1. Depth \in Nat
    BY ConfigurationAssumption
  <1>2. \A u \in U : \A f \in Listed(u) : f \in U /\ f.name \in N
    <2>1. ASSUME NEW q \in Q, NEW f \in Listed(ShardAt(e, q))
          PROVE  f \in U /\ f.name \in N
      <3>1. q \in Seq(N)
        BY DEF Tree
      <3>2. CASE f.kind = "link" /\ f.name \in N /\ Append(q, f.name) \in P
        BY <3>2
      <3>3. CASE \E n \in N : Append(q, n) \in Q /\ f = ShardAt(e, Append(q, n))
        BY <3>1, <3>3, ShardOfShard
      <3> QED
        BY <3>2, <3>3 DEF Tree
    <2>2. ASSUME NEW q \in Q, NEW u \in Listed(ShardAt(e, q)), NEW f \in Listed(u)
          PROVE  f \in U /\ f.name \in N
      <3>1. u.kind # "link"
        BY LinksListNothing
      <3>2. PICK n \in N : Append(q, n) \in Q /\ u = ShardAt(e, Append(q, n))
        BY <3>1 DEF Tree
      <3> QED
        BY <2>1, <3>2
    <2> QED
      BY <2>1, <2>2
  <1>3. {At(e, <<>>)} \in V
    <2>1. e = ShardAt(e, <<>>) /\ <<>> \in Q /\ <<>> \in Seq(N)
      BY DEF ShardAt, Tree
    <2>2. e \in Shards_
      BY <2>1
    <2> HIDE DEF Shards_
    <2>3. At(e, <<>>) \in R
      BY <2>1, <2>2 DEF At
    <2> QED
      BY <2>3
  <1>4. \A L \in V : Deeper(L) \in V
    <2> HIDE DEF U
    <2>1. ASSUME NEW L \in V, NEW at \in L, NEW f \in Listed(at.entry)
          PROVE  At(f, Append(at.path, f.name)) \in R
      <3>1. at.entry \in U /\ at.path \in Seq(N)
        OBVIOUS
      <3>2. f \in U /\ f.name \in N
        BY <1>2, <3>1
      <3>3. Append(at.path, f.name) \in Seq(N)
        BY <3>1, <3>2
      <3> QED
        BY <3>2, <3>3 DEF At
    <2> HIDE DEF R
    <2> QED
      BY <2>1 DEF Deeper
  <1> HIDE DEF V
  <1>5. step \in [V \X (1 .. Depth) -> V]
    BY <1>4
  <1>6. PICK f \in [0 .. Depth -> V] : Follows(f, {At(e, <<>>)}, step, Depth)
    <2> HIDE DEF step
    <2> QED
      BY <1>1, <1>3, <1>5, Recursion
  <1>7. \A n \in 0 .. Depth : f[n] = Item(f, n)
    <2>1. ASSUME NEW n \in 1 .. Depth
          PROVE  f[n] = Deeper(f[n - 1])
      <3>1. n - 1 \in 0 .. Depth
        BY <1>1
      <3>2. <<f[n - 1], n>> \in V \X (1 .. Depth)
        BY <1>6, <3>1
      <3>3. f[n] = step[<<f[n - 1], n>>]
        BY <1>6 DEF Follows
      <3> QED
        BY <3>2, <3>3
    <2>2. \A n \in 0 .. Depth : n = 0 \/ n \in 1 .. Depth
      BY <1>1
    <2> QED
      BY <1>6, <2>1, <2>2 DEF Follows
  <1>8. f = [n \in 0 .. Depth |-> Item(f, n)]
    BY <1>6, <1>7
  <1> DEFINE levels == CHOOSE g : g = [n \in 0 .. Depth |-> Item(g, n)]
  <1>9. levels = [n \in 0 .. Depth |-> Item(levels, n)]
    BY <1>8
  <1>10. levels = Levels(e)
    BY DEF Levels
  <1> HIDE DEF levels
  <1>11. 0 \in 0 .. Depth /\ \A n \in 1 .. Depth : n \in 0 .. Depth /\ n # 0
    BY <1>1
  <1>12. \A n \in 0 .. Depth : levels[n] = Item(levels, n)
    BY <1>9
  <1> QED
    BY <1>10, <1>11, <1>12

\* What is listed somewhere is listed one level deeper than its directory.
LEMMA InDeeper ==
  ASSUME NEW L, NEW d, NEW q, At(d, q) \in L, NEW f \in Listed(d)
  PROVE  At(f, Append(q, f.name)) \in Deeper(L)
  <1>1. At(d, q).entry = d /\ At(d, q).path = q
    BY DEF At
  <1> QED
    BY <1>1 DEF Deeper

\* The links under a directory of shards are where its shards lead.
LEMMA TreeLinks ==
  ASSUME NEW e, NEW N, NEW Q, NEW P, Tree(e, N, Q, P), e.part = <<>>, e.depth \in Nat
  PROVE  LinksUnder(e) = P
  <1>1. Depth \in Nat
    BY ConfigurationAssumption
  <1>2. PICK L : L = Levels(e)
    OBVIOUS
  <1>3. L[0] = {At(e, <<>>)} /\ \A n \in 1 .. Depth : L[n] = Deeper(L[n - 1])
    BY <1>2, LevelsStep
  <1>4. e = ShardAt(e, <<>>) /\ <<>> \in Seq(N) /\ <<>> \in Q
    BY DEF ShardAt, Tree
  <1>5. ASSUME NEW n \in 0 .. Depth, NEW at \in L[n], at.entry.kind = "link"
        PROVE  at.path \in P
    <2> DEFINE OnTree(a) == /\ a.path \in Seq(N)
                            /\ \/ a.path \in Q /\ a.entry = ShardAt(e, a.path)
                               \/ a.entry.kind = "link" /\ a.path \in P
               Good == {k \in 0 .. Depth : \A a \in L[k] : OnTree(a)}
    <2>1. 0 \in Good /\ Good \subseteq Nat
      <3>1. OnTree(At(e, <<>>))
        BY <1>4 DEF At
      <3> QED
        BY <1>1, <1>3, <3>1
    <2>2. ASSUME NEW k \in 0 .. Depth - 1, k \in Good
          PROVE  k + 1 \in Good
      <3>1. k + 1 \in 1 .. Depth /\ k + 1 \in 0 .. Depth /\ k + 1 - 1 = k
        BY <1>1
      <3>2. ASSUME NEW a \in Deeper(L[k])
            PROVE  OnTree(a)
        <4>1. PICK b \in L[k] : \E f \in Listed(b.entry) : a = At(f, Append(b.path, f.name))
          BY DEF Deeper
        <4>2. PICK f \in Listed(b.entry) : a = At(f, Append(b.path, f.name))
          BY <4>1
        <4>3. PICK q \in Q : q = b.path /\ b.entry = ShardAt(e, q) /\ q \in Seq(N)
          BY <2>2, <4>2, LinksListNothing
        <4>4. a.entry = f /\ a.path = Append(q, f.name)
          BY <4>2, <4>3 DEF At
        <4>5. CASE f.kind = "link" /\ f.name \in N /\ Append(q, f.name) \in P
          <5>1. Append(q, f.name) \in Seq(N)
            BY <4>5 DEF Tree
          <5> QED
            BY <4>4, <4>5, <5>1
        <4>6. CASE \E m \in N : Append(q, m) \in Q /\ f = ShardAt(e, Append(q, m))
          <5>1. PICK m \in N : Append(q, m) \in Q /\ f = ShardAt(e, Append(q, m))
            BY <4>6
          <5>2. f.name = m
            BY <4>3, <5>1, ShardOfShard
          <5>3. Append(q, m) \in Seq(N)
            BY <5>1 DEF Tree
          <5> QED
            BY <4>4, <5>1, <5>2, <5>3
        <4> QED
          BY <4>2, <4>3, <4>5, <4>6 DEF Tree
      <3> QED
        BY <1>3, <3>1, <3>2
    <2>3. n \in Good
      <3>1. 0 .. Depth \subseteq Good
        <4> HIDE DEF Good
        <4> QED
          BY <1>1, <2>1, <2>2, SetInduction
      <3> QED
        BY <3>1
    <2>4. ShardAt(e, at.path).kind # "link"
      <3>1. e.kind # "link"
        BY DEF Tree
      <3> QED
        BY <3>1 DEF ShardAt
    <2> QED
      BY <1>5, <2>3, <2>4
  <1>6. ASSUME NEW p \in P
        PROVE  \E n \in 0 .. Depth : \E at \in L[n] : at.entry.kind = "link" /\ at.path = p
    <2>1. PICK m \in Nat : m = Len(p) /\ m \in 1 .. Depth
      BY DEF Tree
    <2>2. p \in Seq(N)
      BY DEF Tree
    <2> DEFINE Upto(k) == SubSeq(p, 1, k)
               Good == {k \in 0 .. m - 1 : At(ShardAt(e, Upto(k)), Upto(k)) \in L[k]}
    <2>3. 0 \in Good /\ Good \subseteq Nat
      <3>1. Upto(0) = <<>>
        BY <2>1, <2>2, FirstItems
      <3> HIDE DEF Upto
      <3> QED
        BY <1>3, <1>4, <2>1, <3>1
    <2>4. ASSUME NEW k \in 1 .. m, k - 1 \in Good
          PROVE  \A f \in Listed(ShardAt(e, Upto(k - 1))) :
                    f.name = p[k] => At(f, Upto(k)) \in L[k]
      <3>1. Append(Upto(k - 1), p[k]) = Upto(k)
        BY <2>1, <2>2, FirstItems
      <3>2. At(ShardAt(e, Upto(k - 1)), Upto(k - 1)) \in L[k - 1]
        BY <2>4
      <3>3. k \in 1 .. Depth
        BY <1>1, <2>1
      <3>4. L[k] = Deeper(L[k - 1])
        BY <1>3, <3>3
      <3> HIDE DEF Upto
      <3>5. ASSUME NEW f \in Listed(ShardAt(e, Upto(k - 1))), f.name = p[k]
            PROVE  At(f, Upto(k)) \in L[k]
        <4>1. At(f, Append(Upto(k - 1), f.name)) \in Deeper(L[k - 1])
          BY ONLY <3>2, <3>5, InDeeper
        <4> QED
          BY ONLY <3>1, <3>4, <3>5, <4>1
      <3> QED
        BY <3>5
    <2>5. ASSUME NEW k \in 0 .. (m - 1) - 1, k \in Good
          PROVE  k + 1 \in Good
      <3>1. k + 1 \in 1 .. m /\ k + 1 - 1 = k /\ k + 1 # m /\ k + 1 \in 0 .. m - 1
        BY <2>1
      <3>2. ShardAt(e, Upto(k + 1)) \in Listed(ShardAt(e, Upto(k)))
        BY <2>1, <3>1 DEF Tree, Leads
      <3>3. ShardAt(e, Upto(k + 1)).name = p[k + 1]
        <4>1. Upto(k + 1) # <<>> /\ Last(Upto(k + 1)) = p[k + 1]
          BY <2>1, <2>2, <3>1, FirstItems
        <4> HIDE DEF Upto
        <4> QED
          BY <4>1 DEF ShardAt
      <3> HIDE DEF Upto
      <3>4. At(ShardAt(e, Upto(k + 1)), Upto(k + 1)) \in L[k + 1]
        BY <2>4, <2>5, <3>1, <3>2, <3>3
      <3> QED
        BY <3>1, <3>4
    <2>6. m - 1 \in Good
      <3>1. m - 1 \in Nat /\ m - 1 \in 0 .. m - 1
        BY <2>1
      <3>2. 0 .. m - 1 \subseteq Good
        <4> HIDE DEF Good
        <4> QED
          BY <2>3, <2>5, <3>1, SetInduction
      <3> QED
        BY <3>1, <3>2
    <2>7. PICK f \in Listed(ShardAt(e, Upto(m - 1))) : f.kind = "link" /\ f.name = p[m]
      BY <2>1 DEF Tree, Leads
    <2>8. m \in 1 .. m /\ m \in 0 .. Depth
      BY <1>1, <2>1
    <2>9. At(f, Upto(m)) \in L[m]
      <3> HIDE DEF Good, Upto
      <3> QED
        BY <2>4, <2>6, <2>7, <2>8
    <2>10. Upto(m) = p
      BY <2>1, <2>2, <2>8, FirstItems
    <2>11. At(f, p).entry = f /\ At(f, p).path = p
      BY DEF At
    <2> HIDE DEF Upto
    <2> QED
      BY <2>7, <2>8, <2>9, <2>10, <2>11
  <1>7. LinksUnder(e) =
           {at.path : at \in {a \in UNION {L[n] : n \in 0 .. Depth} : a.entry.kind = "link"}}
    BY <1>2 DEF LinksUnder
  <1> QED
    BY <1>5, <1>6, <1>7

-----------------------------------------------------------------------------
(* Snapshots.                                                              *)

\* The strict prefixes of a path are its first items.
LEMMA PrefixItems ==
  ASSUME NEW N, NEW q \in Seq(N), NEW p \in Seq(N)
  PROVE  /\ IsPrefix(q, p) <=> Len(q) <= Len(p) /\ q = SubSeq(p, 1, Len(q))
         /\ IsStrictPrefix(q, p) <=> Len(q) < Len(p) /\ q = SubSeq(p, 1, Len(q))
  <1>1. SubSeq(q, 1, Len(q)) = q /\ SubSeq(p, 1, Len(p)) = p
    OBVIOUS
  <1>2. PICK m \in Nat, n \in Nat : m = Len(q) /\ n = Len(p)
    OBVIOUS
  <1>3. IsPrefix(q, p) <=> m <= n /\ q = SubSeq(p, 1, m)
    BY <1>1, <1>2 DEF IsPrefix
  <1>4. IsStrictPrefix(q, p) <=> m < n /\ q = SubSeq(p, 1, m)
    <2>1. m = n /\ q = SubSeq(p, 1, m) => q = p
      BY <1>1, <1>2
    <2>2. q = p => m = n
      BY <1>2
    <2>3. m < n <=> m <= n /\ m # n
      BY <1>2
    <2> QED
      BY <1>3, <2>1, <2>2, <2>3 DEF IsStrictPrefix
  <1> QED
    BY <1>2, <1>3, <1>4

\* The links under a snapshot are its branches: all of them, or with the graph
\* those that are no aliases.
LEMMA SnapshotLinks ==
  ASSUME NEW e, e.kind = "snp", e.part = <<>>, e.depth \in Nat,
         e.swhid \in Archived, IsA("snp", e.swhid)
  PROVE  LinksUnder(e) = {b.name : b \in Metadata(e.swhid).branches}
  <1> DEFINE N == STRING
             P == {b.name : b \in Metadata(e.swhid).branches}
  <1>1. PICK M \in SUBSET Branches :
           M = Metadata(e.swhid).branches /\ M \subseteq Object[e.swhid].branches
    <2>1. Object[e.swhid].branches \subseteq Branches
      BY ObjectTypes DEF Snapshots
    <2> QED
      BY <2>1, MetadataOf
  <1>2. \A b \in M : b.name \in Seq(N) /\ Len(b.name) \in 1 .. Depth
    <2> TAKE b \in M
    <2>1. b.name \in Seq(STRING) \ {<<>>}
      BY <1>1 DEF Branches
    <2>2. Len(b.name) <= Depth
      BY <1>1, ConfigurationAssumption
    <2>3. PICK n \in Nat : n = Len(b.name) /\ n # 0
      BY <2>1
    <2>4. n \in 1 .. Depth
      BY <2>2, <2>3, ConfigurationAssumption
    <2> QED
      BY <2>1, <2>3, <2>4
  <1>3. ASSUME NEW q \in Seq(N)
        PROVE  /\ ShardAt(e, q).kind = "snp" /\ ShardAt(e, q).swhid = e.swhid
               /\ ShardAt(e, q).part = q
               /\ \A n \in N : Child(ShardAt(e, q), "snp", n, e.swhid, Append(q, n))
                                = ShardAt(e, Append(q, n))
    <2>1. \A n \in N : Child(ShardAt(e, q), e.kind, n, e.swhid, Append(q, n))
                         = ShardAt(e, Append(q, n))
      BY ShardOfShard
    <2> QED
      BY <2>1, ShardFields
  <1>4. ASSUME NEW q \in Seq(N)
        PROVE  Listed(ShardAt(e, q)) =
                 LET below == {b \in M : IsStrictPrefix(q, b.name)}
                     here == {b \in below : Len(b.name) = Len(q) + 1}
                 IN  {BranchLink(ShardAt(e, q), b) : b \in here}
                     \cup {ShardAt(e, Append(q, b.name[Len(q) + 1])) : b \in below \ here}
    <2>1. PICK d : d = ShardAt(e, q)
      OBVIOUS
    <2>2. d.kind = "snp" /\ d.swhid = e.swhid /\ d.part = q
      BY <1>3, <2>1
    <2>3. Listed(d) = Snapshot(d)
      BY <2>2, ListedAsComputed DEF Computed, Needed, Entries
    <2> DEFINE below == {b \in M : IsStrictPrefix(q, b.name)}
               here == {b \in below : Len(b.name) = Len(q) + 1}
               k == Len(q) + 1
    <2>4. Snapshot(d) = {BranchLink(d, b) : b \in here}
                        \cup Shards(d, {b.name[k] : b \in below \ here})
      BY <1>1, <2>2 DEF Snapshot
    <2>5. \A b \in below \ here : b.name[k] \in N
      <3> TAKE b \in below \ here
      <3>1. b.name \in Seq(N)
        BY <1>2
      <3>2. Len(q) < Len(b.name)
        <4>1. IsStrictPrefix(q, b.name)
          OBVIOUS
        <4> QED
          BY ONLY <3>1, <4>1, PrefixItems, q \in Seq(N)
      <3>3. k \in 1 .. Len(b.name)
        BY <3>1, <3>2
      <3> QED
        BY <3>1, <3>3
    <2> HIDE DEF below, here, k
    <2>6. Shards(d, {b.name[k] : b \in below \ here})
             = {Child(d, "snp", b.name[k], e.swhid, Append(q, b.name[k])) : b \in below \ here}
      BY <2>2 DEF Shards
    <2>7. \A b \in below \ here : Child(d, "snp", b.name[k], e.swhid, Append(q, b.name[k]))
                                    = ShardAt(e, Append(q, b.name[k]))
      BY <1>3, <2>1, <2>5
    <2> QED
      BY <2>1, <2>3, <2>4, <2>6, <2>7 DEF below, here, k
  <1>5. ASSUME NEW q \in Seq(N), NEW f \in Listed(ShardAt(e, q))
        PROVE  \/ f.kind = "link" /\ f.name \in N /\ Append(q, f.name) \in P
               \/ \E n \in N : Append(q, n) \in Seq(N) /\ f = ShardAt(e, Append(q, n))
    <2>1. PICK b \in M :
             /\ IsStrictPrefix(q, b.name)
             /\ \/ Len(b.name) = Len(q) + 1 /\ f = BranchLink(ShardAt(e, q), b)
                \/ f = ShardAt(e, Append(q, b.name[Len(q) + 1]))
      BY <1>4
    <2>2. PICK p \in Seq(N) : p = b.name
      BY <1>2
    <2>3. PICK k : k = Len(q) + 1
      OBVIOUS
    <2>4. k \in 1 .. Len(p) /\ k - 1 = Len(q) /\ SubSeq(p, 1, k - 1) = q
      <3>1. Len(q) < Len(p) /\ q = SubSeq(p, 1, Len(q))
        BY ONLY <2>1, <2>2, PrefixItems, q \in Seq(N), p \in Seq(N)
      <3> QED
        BY <2>3, <3>1
    <2>5. Append(q, p[k]) = SubSeq(p, 1, k) /\ SubSeq(p, 1, Len(p)) = p /\ p[k] \in N
          /\ SubSeq(p, 1, k) \in Seq(N)
      BY ONLY <2>4, FirstItems, p \in Seq(N)
    <2>6. CASE Len(b.name) = Len(q) + 1 /\ f = BranchLink(ShardAt(e, q), b)
      <3>1. f.kind = "link" /\ f.name = Last(b.name)
        BY <2>6, LinkFields DEF BranchLink
      <3>2. k = Len(p) /\ Last(p) = p[k]
        BY <2>2, <2>3, <2>6 DEF Last
      <3>3. p \in P
        BY <1>1, <2>2
      <3>4. f.name = p[k] /\ Append(q, p[k]) = p
        BY <2>2, <2>5, <3>1, <3>2
      <3> HIDE DEF P
      <3> QED
        BY <2>5, <3>1, <3>3, <3>4
    <2>7. CASE f = ShardAt(e, Append(q, b.name[Len(q) + 1]))
      BY <2>2, <2>3, <2>5, <2>7
    <2> QED
      BY <2>1, <2>6, <2>7
  <1>6. ASSUME NEW p \in P, NEW k \in 1 .. Len(p)
        PROVE  Leads(e, p, k)
    <2>1. PICK b \in M : p = b.name
      BY <1>1
    <2>2. p \in Seq(N)
      BY <1>2, <2>1
    <2>3. PICK q : q = SubSeq(p, 1, k - 1)
      OBVIOUS
    <2>4. /\ q \in Seq(N) /\ Len(q) = k - 1 /\ Len(q) + 1 = k
          /\ Append(q, p[k]) = SubSeq(p, 1, k)
      BY ONLY <2>2, <2>3, FirstItems, k \in 1 .. Len(p)
    <2>5. IsStrictPrefix(q, b.name)
      <3>1. Len(q) < Len(p) /\ q = SubSeq(p, 1, Len(q))
        BY <2>2, <2>3, <2>4
      <3> QED
        BY ONLY <2>1, <2>2, <2>4, <3>1, PrefixItems
    <2>6. CASE k = Len(p)
      <3>1. BranchLink(ShardAt(e, q), b) \in Listed(ShardAt(e, q))
        BY <1>4, <2>1, <2>4, <2>5, <2>6
      <3>2. /\ BranchLink(ShardAt(e, q), b).kind = "link"
            /\ BranchLink(ShardAt(e, q), b).name = Last(b.name)
        BY LinkFields DEF BranchLink
      <3>3. Last(b.name) = p[k]
        BY <2>1, <2>6 DEF Last
      <3> QED
        BY <2>3, <2>6, <3>1, <3>2, <3>3 DEF Leads
    <2>7. CASE k # Len(p)
      <3>1. ShardAt(e, Append(q, b.name[Len(q) + 1])) \in Listed(ShardAt(e, q))
        BY <1>4, <2>1, <2>4, <2>5, <2>7
      <3> QED
        BY <2>1, <2>3, <2>4, <2>7, <3>1 DEF Leads
    <2> QED
      BY <2>6, <2>7
  <1>7. Tree(e, N, Seq(N), P)
    <2>1. P \subseteq Seq(N) /\ (\A p \in P : Len(p) \in 1 .. Depth) /\ <<>> \in Seq(N)
      BY <1>1, <1>2
    <2> HIDE DEF P
    <2> QED
      BY <1>5, <1>6, <2>1 DEF Tree
  <1> QED
    BY <1>7, TreeLinks

-----------------------------------------------------------------------------
(* Histories.                                                              *)

\* The items of a sequence are finitely many.
LEMMA FiniteItems ==
  ASSUME NEW S, NEW p \in Seq(S)
  PROVE  IsFiniteSet(ToSet(p))
  <1>1. PICK n \in Nat : n = Len(p) /\ p \in [1 .. n -> S]
    OBVIOUS
  <1>2. PICK T : T = ToSet(p)
    OBVIOUS
  <1>3. p \in Surjection(1 .. n, T)
    <2>1. p \in [1 .. n -> T]
      BY <1>1, <1>2, Places
    <2>2. \A x \in T : \E i \in 1 .. n : p[i] = x
      BY <1>1, <1>2, Places
    <2> QED
      BY <2>1, <2>2 DEF Surjection
  <1>4. IsFiniteSet(1 .. n)
    BY FS_Interval
  <1> QED
    BY <1>2, <1>3, <1>4, FS_Surjection

\* Artifacts are in shards one by one, if a link leads to each of them, and to
\* nothing else, and no two of the links to the same one.
LEMMA ShardedOneByOne ==
  ASSUME NEW e, NEW S, IsFiniteSet(S), NEW P, LinksUnder(e) = P,
         \A p \in P : Last(p) \in S,
         \A s \in S : \E p \in P : Last(p) = s,
         \A p, q \in P : Last(p) = Last(q) => p = q
  PROVE  Sharded(e, S)
  <1> DEFINE path == [s \in S |-> CHOOSE p \in P : Last(p) = s]
  <1>1. \A s \in S : path[s] \in P /\ Last(path[s]) = s
    OBVIOUS
  <1> HIDE DEF path
  <1>2. \A p \in P : path[Last(p)] = p
    BY <1>1
  <1>3. path \in [S -> P]
    BY <1>1 DEF path
  <1>4. path \in Bijection(S, P)
    <2>1. path \in Injection(S, P)
      BY <1>1, <1>3 DEF Injection, IsInjective
    <2>2. path \in Surjection(S, P)
      BY <1>2, <1>3 DEF Surjection
    <2> QED
      BY <2>1, <2>2 DEF Bijection
  <1>5. Cardinality(P) = Cardinality(S)
    BY <1>4, FS_Bijection DEF ExistsBijection
  <1>6. {Last(p) : p \in P} = S
    BY <1>1
  <1> QED
    BY <1>5, <1>6 DEF Sharded

\* A path that ends with a SWHID.
LEMMA Ended ==
  ASSUME NEW N, NEW q \in Seq(N), NEW n \in N, NEW a, a = Append(q, n)
  PROVE  /\ a \in Seq(N) /\ Len(a) = Len(q) + 1
         /\ a[Len(q) + 1] = n
         /\ SubSeq(a, 1, Len(q)) = q
         /\ \A k \in 1 .. Len(q) : /\ SubSeq(a, 1, k) = SubSeq(q, 1, k)
                                   /\ SubSeq(a, 1, k - 1) = SubSeq(q, 1, k - 1)
                                   /\ a[k] = q[k]
  <1>2. PICK m \in Nat : m = Len(q)
    OBVIOUS
  <1>3. a \in Seq(N) /\ Len(a) = m + 1 /\ a[m + 1] = n /\ \A k \in 1 .. m : a[k] = q[k]
    <2>1. q \in Seq(N) /\ n \in N
      OBVIOUS
    <2> QED
      BY ONLY a = Append(q, n), <1>2, <2>1, AppendProperties
  <1>5. ASSUME NEW k \in 0 .. m
        PROVE  SubSeq(a, 1, k) = SubSeq(q, 1, k)
    <2>1. \A i \in 1 .. k : a[i] = q[i]
      BY <1>2, <1>3
    <2>2. PICK x : x = SubSeq(a, 1, k)
      OBVIOUS
    <2>3. PICK y : y = SubSeq(q, 1, k)
      OBVIOUS
    <2>4. k \in Nat /\ \A i \in 1 .. k : q[i] \in N /\ a[i] \in N
      <3>1. \A i \in 1 .. k : i \in 1 .. Len(q) /\ i \in 1 .. m
        BY <1>2
      <3> QED
        BY <1>2, <1>3, <3>1, ElementOfSeq
    <2>5. x \in Seq(N) /\ Len(x) = k /\ \A i \in 1 .. k : x[i] = a[i]
      BY ONLY <2>2, <2>4, SubSeqProperties, k \in Nat
    <2>6. y \in Seq(N) /\ Len(y) = k /\ \A i \in 1 .. k : y[i] = q[i]
      BY ONLY <2>3, <2>4, SubSeqProperties, k \in Nat
    <2> QED
      BY <2>1, <2>2, <2>3, <2>5, <2>6, SeqEqual
  <1>6. SubSeq(q, 1, m) = q /\ m \in 0 .. m
    BY <1>2
  <1>7. \A k \in 1 .. m : k \in 0 .. m /\ k - 1 \in 0 .. m
    BY <1>2
  <1> QED
    BY <1>2, <1>3, <1>5, <1>6, <1>7

\* A history is a sequence of revisions, each of which it has once.
LEMMA HistoryOf ==
  ASSUME NEW r \in Revisions
  PROVE  /\ \E h \in Seq(Revisions) : h = History[r]
         /\ ToSet(History[r]) \subseteq Revisions /\ IsFiniteSet(ToSet(History[r]))
         /\ \A i, j \in 1 .. Len(History[r]) : History[r][i] = History[r][j] => i = j
  <1>1. PICK h \in Seq(Revisions) : h = History[r]
    BY HistoryAssumption
  <1>2. ToSet(h) \subseteq Revisions
    BY Places
  <1>3. \A i, j \in 1 .. Len(h) : h[i] = h[j] => i = j
    BY <1>1, HistoryAssumption DEF IsInjective
  <1> QED
    BY <1>1, <1>2, <1>3, FiniteItems

\* Under by-date there is one link for each cached revision of the history.
LEMMA ByDateSharded ==
  ASSUME NEW e, e.kind = "by-date", e.part = <<>>, e.depth \in Nat, e.swhid \in Revisions
  PROVE  Sharded(e, ToSet(History[e.swhid]) \cap rows)
  <1> DEFINE S == ToSet(History[e.swhid]) \cap rows
             N == STRING \cup Revisions
             date(s) == Object[s].date
             P == {Append(date(s), s) : s \in S}
  <1>1. S \subseteq Revisions /\ IsFiniteSet(S)
    BY HistoryOf, FS_Intersection
  <1>2. ASSUME NEW s \in S
        PROVE  date(s) \in Seq(N) /\ Len(date(s)) = 3 /\ s \in N
    <2>1. Object[s] \in Commits
      BY <1>1, ObjectTypes DEF Revisions
    <2>2. PICK d \in [1 .. 3 -> STRING] : d = date(s)
      BY <2>1 DEF Commits
    <2>3. PICK T : T = N
      OBVIOUS
    <2>4. d \in [1 .. 3 -> T]
      BY <2>3
    <2>5. PICK n \in Nat : n = 3 /\ d \in [1 .. n -> T]
      BY <2>4
    <2>6. d \in Seq(T)
      BY ONLY <2>5, n \in Nat, SeqDef, ZenonT(60)
    <2>7. Len(d) = n
      BY <2>5, <2>6
    <2> QED
      BY <1>1, <2>2, <2>3, <2>5, <2>6, <2>7
  <1>3. ASSUME NEW s \in S, NEW p, p = Append(date(s), s)
        PROVE  /\ p \in Seq(N) /\ Len(p) = 4 /\ Last(p) = s /\ p[4] = s
               /\ SubSeq(p, 1, 3) = date(s)
               /\ \A k \in 1 .. 3 : /\ SubSeq(p, 1, k) = SubSeq(date(s), 1, k)
                                    /\ SubSeq(p, 1, k - 1) = SubSeq(date(s), 1, k - 1)
                                    /\ p[k] = date(s)[k]
    <2>1. PICK d \in Seq(N) : d = date(s) /\ Len(d) = 3
      BY <1>2
    <2>2. s \in N /\ d \in Seq(N) /\ p = Append(d, s)
      BY <1>2, <1>3, <2>1
    <2> HIDE DEF N
    <2>3. /\ p \in Seq(N) /\ Len(p) = Len(d) + 1 /\ p[Len(d) + 1] = s
          /\ SubSeq(p, 1, Len(d)) = d
          /\ \A k \in 1 .. Len(d) : /\ SubSeq(p, 1, k) = SubSeq(d, 1, k)
                                    /\ SubSeq(p, 1, k - 1) = SubSeq(d, 1, k - 1)
                                    /\ p[k] = d[k]
      BY ONLY <2>2, Ended
    <2>4. Len(p) = 4 /\ p[4] = s
      BY <2>1, <2>3
    <2> QED
      BY <2>1, <2>3, <2>4 DEF Last
  <1>4. ASSUME NEW q \in Seq(N)
        PROVE  LET dated == {s \in S : IsPrefix(q, date(s))}
               IN  /\ Len(q) = 3 => Listed(ShardAt(e, q)) =
                                      {ToArchive(ShardAt(e, q), s, s) : s \in dated}
                   /\ Len(q) # 3 => Listed(ShardAt(e, q)) =
                                      {ShardAt(e, Append(q, date(s)[Len(q) + 1])) : s \in dated}
                   /\ Len(q) # 3 => \A s \in dated :
                         /\ Len(q) + 1 \in 1 .. 3 /\ date(s)[Len(q) + 1] \in N
                         /\ q = SubSeq(date(s), 1, Len(q))
                   /\ Len(q) = 3 => \A s \in dated : q = date(s)
    <2>1. PICK d : d = ShardAt(e, q)
      OBVIOUS
    <2>2. d.kind = "by-date" /\ d.swhid = e.swhid /\ d.part = q
      BY <2>1, ShardFields
    <2>3. Listed(d) = ShardByDate(d)
      BY <2>2, ListedAsComputed DEF Computed, Needed, Entries
    <2> DEFINE dated == {s \in S : IsPrefix(q, date(s))}
               k == Len(q) + 1
    <2>4. dated = {s \in ToSet(History[d.swhid]) \cap rows : IsPrefix(d.part, Object[s].date)}
      BY <2>2
    <2>5. ASSUME NEW s \in dated
          PROVE  /\ Len(q) <= 3 /\ q = SubSeq(date(s), 1, Len(q))
                 /\ Len(q) # 3 => k \in 1 .. 3 /\ date(s)[k] \in N
                 /\ Len(q) = 3 => q = date(s)
      <3>1. PICK c \in Seq(N) : c = date(s) /\ Len(c) = 3
        BY <1>2
      <3>2. IsPrefix(q, c)
        BY <3>1
      <3> HIDE DEF N
      <3>3. Len(q) <= 3 /\ q = SubSeq(c, 1, Len(q)) /\ Len(q) \in Nat
        BY ONLY <3>1, <3>2, PrefixItems, q \in Seq(N), c \in Seq(N)
      <3>4. Len(q) # 3 => k \in 1 .. 3
        BY <3>3
      <3>5. k \in 1 .. 3 => c[k] \in N
        BY ONLY <3>1, c \in Seq(N), ElementOfSeq
      <3>6. Len(q) = 3 => q = c
        BY ONLY <3>1, <3>3, c \in Seq(N)
      <3> QED
        BY <3>1, <3>3, <3>4, <3>5, <3>6
    <2> HIDE DEF dated
    <2>6. CASE Len(q) = 3
      <3>1. Listed(d) = Leaves(d, dated)
        BY <2>2, <2>3, <2>4, <2>6 DEF ShardByDate
      <3> QED
        BY <2>1, <2>5, <2>6, <3>1 DEF Leaves, dated
    <2>7. CASE Len(q) # 3
      <3>1. Listed(d) = Shards(d, {date(s)[k] : s \in dated})
        BY <2>2, <2>3, <2>4, <2>7 DEF ShardByDate
      <3>2. \A s \in dated : Child(d, "by-date", date(s)[k], e.swhid, Append(q, date(s)[k]))
                               = ShardAt(e, Append(q, date(s)[k]))
        BY <2>1, <2>5, <2>7, ShardOfShard
      <3>3. Listed(d) = {ShardAt(e, Append(q, date(s)[k])) : s \in dated}
        BY <2>2, <3>1, <3>2 DEF Shards
      <3> QED
        BY <2>1, <2>5, <2>7, <3>3 DEF dated
    <2> QED
      BY <2>6, <2>7
  <1>5. ASSUME NEW q \in Seq(N), NEW f \in Listed(ShardAt(e, q))
        PROVE  \/ f.kind = "link" /\ f.name \in N /\ Append(q, f.name) \in P
               \/ \E n \in N : Append(q, n) \in Seq(N) /\ f = ShardAt(e, Append(q, n))
    <2>1. CASE Len(q) = 3
      <3>1. PICK s \in S : q = date(s) /\ f = ToArchive(ShardAt(e, q), s, s)
        BY <1>4, <2>1
      <3>2. f.kind = "link" /\ f.name = s
        BY <3>1, LinkFields
      <3> QED
        BY <1>2, <3>1, <3>2
    <2>2. CASE Len(q) # 3
      <3>1. PICK s \in S : /\ f = ShardAt(e, Append(q, date(s)[Len(q) + 1]))
                           /\ date(s)[Len(q) + 1] \in N
        BY <1>4, <2>2
      <3>2. Append(q, date(s)[Len(q) + 1]) \in Seq(N)
        BY ONLY <3>1, q \in Seq(N), AppendProperties
      <3> QED
        BY <3>1, <3>2
    <2> QED
      BY <2>1, <2>2
  <1>6. ASSUME NEW s \in S, NEW p, p = Append(date(s), s), NEW k \in 1 .. Len(p)
        PROVE  Leads(e, p, k)
    <2>1. PICK d \in Seq(N) : d = date(s) /\ Len(d) = 3
      BY <1>2
    <2> HIDE DEF N, S, date
    <2>2. /\ Len(p) = 4 /\ p[4] = s /\ SubSeq(p, 1, 3) = d
          /\ \A j \in 1 .. 3 : /\ SubSeq(p, 1, j) = SubSeq(d, 1, j)
                               /\ SubSeq(p, 1, j - 1) = SubSeq(d, 1, j - 1)
                               /\ p[j] = d[j]
      BY ONLY <1>3, <1>6, <2>1
    <2>3. CASE k = 4
      <3>1. IsPrefix(d, d) /\ SubSeq(d, 1, Len(d)) = d
        BY DEF IsPrefix
      <3>2. ToArchive(ShardAt(e, d), s, s) \in Listed(ShardAt(e, d))
        BY <1>4, <2>1, <3>1
      <3>3. k = Len(p) /\ k - 1 = 3 /\ SubSeq(p, 1, k - 1) = d /\ p[k] = s
        BY <2>2, <2>3
      <3>4. /\ ToArchive(ShardAt(e, d), s, s).kind = "link"
            /\ ToArchive(ShardAt(e, d), s, s).name = s
        BY LinkFields
      <3> QED
        BY <3>2, <3>3, <3>4 DEF Leads
    <2>4. CASE k \in 1 .. 3
      <3>1. PICK q : q = SubSeq(d, 1, k - 1)
        OBVIOUS
      <3>2. /\ q \in Seq(N) /\ Len(q) = k - 1 /\ Append(q, d[k]) = SubSeq(d, 1, k)
        BY ONLY <2>1, <2>4, <3>1, FirstItems, d \in Seq(N)
      <3>3. Len(q) # 3 /\ Len(q) + 1 = k /\ Len(q) <= 3 /\ q = SubSeq(d, 1, Len(q))
        BY <2>4, <3>1, <3>2
      <3>4. IsPrefix(q, d)
        BY ONLY <2>1, <3>2, <3>3, PrefixItems, d \in Seq(N)
      <3>5. ShardAt(e, Append(q, date(s)[k])) \in Listed(ShardAt(e, q))
        BY <1>4, <2>1, <3>2, <3>3, <3>4
      <3>6. k # Len(p) /\ SubSeq(p, 1, k - 1) = q /\ SubSeq(p, 1, k) = Append(q, d[k])
        BY <2>2, <2>4, <3>1, <3>2
      <3> QED
        BY <2>1, <3>5, <3>6 DEF Leads
    <2> QED
      BY <2>2, <2>3, <2>4
  <1>7. Tree(e, N, Seq(N), P)
    <2>1. (\A p \in P : p \in Seq(N)) /\ <<>> \in Seq(N)
      BY <1>3
    <2>2. \A p \in P : Len(p) \in 1 .. Depth
      <3>1. 4 \in 1 .. Depth
        BY ConfigurationAssumption
      <3> QED
        BY <1>3, <3>1, ZenonT(30)
    <2>3. \A p \in P : \A k \in 1 .. Len(p) : Leads(e, p, k)
      BY <1>6
    <2> HIDE DEF P, N
    <2> QED
      BY <1>5, <2>1, <2>2, <2>3 DEF Tree
  <1>8. LinksUnder(e) = P
    <2> HIDE DEF P, N
    <2> QED
      BY <1>7, TreeLinks
  <1>9. /\ \A p \in P : Last(p) \in S
        /\ \A s \in S : \E p \in P : Last(p) = s
        /\ \A p, q \in P : Last(p) = Last(q) => p = q
    <2>1. \A p \in P : p = Append(date(Last(p)), Last(p)) /\ Last(p) \in S
      BY <1>3
    <2>2. \A s \in S : Append(date(s), s) \in P /\ Last(Append(date(s), s)) = s
      BY <1>3
    <2> HIDE DEF P, S
    <2> QED
      BY <2>1, <2>2
  <1> HIDE DEF P, S, N
  <1> QED
    BY <1>1, <1>8, <1>9, ShardedOneByOne DEF S

\* A path of two names.
LEMMA PairItems ==
  ASSUME NEW N, NEW x \in N, NEW y \in N, NEW b \in Seq(N), Len(b) = 1, b[1] = x,
         NEW p \in Seq(N), Len(p) = 2, p[1] = x, p[2] = y
  PROVE  /\ Append(<<>>, x) = b /\ Append(b, y) = p
         /\ SubSeq(p, 1, 0) = <<>> /\ SubSeq(p, 1, 1) = b
  <1>1. Append(<<>>, x) = b
    <2>1. PICK a : a = Append(<<>>, x)
      OBVIOUS
    <2>2. <<>> \in Seq(N) /\ Len(<<>>) = 0 /\ x \in N
      OBVIOUS
    <2>3. a \in Seq(N) /\ Len(a) = Len(<<>>) + 1 /\ a[Len(<<>>) + 1] = x
      BY ONLY <2>1, <2>2, AppendProperties
    <2>4. Len(a) = 1 /\ \A i \in 1 .. 1 : a[i] = b[i]
      BY <2>2, <2>3
    <2> QED
      BY <2>1, <2>3, <2>4, SeqEqual
  <1>2. Append(b, y) = p
    <2>1. PICK a : a = Append(b, y)
      OBVIOUS
    <2>2. a \in Seq(N) /\ Len(a) = Len(b) + 1 /\ a[1] = b[1] /\ a[Len(b) + 1] = y
      <3>1. 1 \in 1 .. Len(b) /\ b \in Seq(N) /\ y \in N
        OBVIOUS
      <3> QED
        BY ONLY <2>1, <3>1, AppendProperties
    <2>3. Len(a) = 2 /\ \A i \in 1 .. 2 : a[i] = p[i]
      BY <2>2
    <2> QED
      BY <2>1, <2>2, <2>3, SeqEqual
  <1>3. SubSeq(p, 1, 1) = b
    <2>1. PICK a : a = SubSeq(p, 1, 1)
      OBVIOUS
    <2>2. 1 \in Int /\ \A i \in 1 .. 1 : p[i] \in N
      OBVIOUS
    <2>3. a \in Seq(N) /\ Len(a) = 1 /\ \A i \in 1 .. 1 : a[i] = p[i]
      BY ONLY <2>1, <2>2, SubSeqProperties
    <2>4. \A i \in 1 .. 1 : a[i] = b[i]
      BY <2>3
    <2> QED
      BY <2>1, <2>3, <2>4, SeqEqual
  <1>4. SubSeq(p, 1, 0) = <<>>
    OBVIOUS
  <1> QED
    BY <1>1, <1>2, <1>3, <1>4

\* A name, and a name in a directory, are paths.
LEMMA NamesArePaths ==
  ASSUME NEW N, NEW x \in N, NEW y \in N
  PROVE  /\ <<x>> \in Seq(N) /\ Len(<<x>>) = 1 /\ <<x>>[1] = x
         /\ <<x, y>> \in Seq(N) /\ Len(<<x, y>>) = 2 /\ <<x, y>>[1] = x /\ <<x, y>>[2] = y
  OBVIOUS

\* Each artifact is listed in the shard that D names.
ByName(e, S, D) ==
    /\ Listed(e) = Shards(e, {D[s] : s \in S})
    /\ \A s \in S : \A d :
          d.kind = e.kind /\ d.swhid = e.swhid /\ d.part = <<D[s]>> =>
              Listed(d) = Leaves(d, {t \in S : D[t] = D[s]})

\* So there is one link for each of them.
LEMMA ShardedByName ==
  ASSUME NEW e, e.kind # "link", e.part = <<>>, e.depth \in Nat,
         NEW S, IsFiniteSet(S), NEW D, ByName(e, S, D)
  PROVE  Sharded(e, S)
  <1> DEFINE N == {D[s] : s \in S} \cup S
             name(s) == <<D[s]>>
             path(s) == <<D[s], s>>
             Q == {<<>>} \cup {name(s) : s \in S}
             P == {path(s) : s \in S}
             shard(s) == ShardAt(e, name(s))
  <1>1. ASSUME NEW s \in S
        PROVE  /\ D[s] \in N /\ s \in N
               /\ name(s) \in Seq(N) /\ Len(name(s)) = 1 /\ name(s)[1] = D[s]
               /\ path(s) \in Seq(N) /\ Len(path(s)) = 2 /\ path(s)[1] = D[s] /\ path(s)[2] = s
    <2>1. D[s] \in N /\ s \in N
      OBVIOUS
    <2>2. PICK x \in N : x = D[s]
      BY <2>1
    <2> HIDE DEF N
    <2>3. /\ <<x>> \in Seq(N) /\ Len(<<x>>) = 1 /\ <<x>>[1] = x
          /\ <<x, s>> \in Seq(N) /\ Len(<<x, s>>) = 2 /\ <<x, s>>[1] = x /\ <<x, s>>[2] = s
      BY <2>1, NamesArePaths
    <2> QED
      BY <2>1, <2>2, <2>3
  <1>2. \A s, t \in S : D[s] = D[t] => name(s) = name(t)
    OBVIOUS
  <1>3. /\ Q = {<<>>} \cup {name(s) : s \in S}
        /\ P = {path(s) : s \in S}
    OBVIOUS
  <1>4. \A s \in S : /\ shard(s) = ShardAt(e, name(s))
                     /\ Listed(shard(s)) = Leaves(shard(s), {t \in S : D[t] = D[s]})
    BY ShardFields DEF ByName
  <1> HIDE DEF name, path, shard, N, P, Q
  <1>5. ASSUME NEW s \in S
        PROVE  /\ Append(<<>>, D[s]) = name(s) /\ Append(name(s), s) = path(s)
               /\ SubSeq(path(s), 1, 0) = <<>> /\ SubSeq(path(s), 1, 1) = name(s)
               /\ Last(path(s)) = s
    <2>1. PICK x \in N, b \in Seq(N), p \in Seq(N) :
             /\ x = D[s] /\ b = name(s) /\ p = path(s) /\ s \in N
             /\ Len(b) = 1 /\ b[1] = x /\ Len(p) = 2 /\ p[1] = x /\ p[2] = s
      BY <1>1
    <2>2. /\ Append(<<>>, x) = b /\ Append(b, s) = p
          /\ SubSeq(p, 1, 0) = <<>> /\ SubSeq(p, 1, 1) = b
      <3>1. s \in N /\ Len(b) = 1 /\ b[1] = x /\ Len(p) = 2 /\ p[1] = x /\ p[2] = s
        BY <2>1
      <3> QED
        BY ONLY <3>1, PairItems, x \in N, b \in Seq(N), p \in Seq(N)
    <2> QED
      BY <2>1, <2>2 DEF Last
  <1>6. ShardAt(e, <<>>) = e
    BY DEF ShardAt
  <1>7. Listed(e) = {shard(s) : s \in S}
    <2>1. ASSUME NEW s \in S
          PROVE  Child(e, e.kind, D[s], e.swhid, Append(e.part, D[s])) = shard(s)
      <3>1. PICK x \in N : x = D[s]
        BY <1>1
      <3>2. PICK q \in Seq(N) : q = <<>>
        BY EmptySeq
      <3>3. Child(ShardAt(e, q), e.kind, x, e.swhid, Append(q, x)) = ShardAt(e, Append(q, x))
        BY ShardOfShard
      <3> QED
        BY <1>4, <1>5, <1>6, <3>1, <3>2, <3>3
    <2> QED
      BY <2>1 DEF Shards, ByName
  <1>8. ASSUME NEW q \in Q, NEW f \in Listed(ShardAt(e, q))
        PROVE  \/ f.kind = "link" /\ f.name \in N /\ Append(q, f.name) \in P
               \/ \E n \in N : Append(q, n) \in Q /\ f = ShardAt(e, Append(q, n))
    <2>1. CASE q = <<>>
      <3>1. PICK s \in S : f = shard(s)
        BY <1>6, <1>7, <2>1
      <3>2. D[s] \in N /\ Append(q, D[s]) = name(s) /\ name(s) \in Q
        BY <1>1, <1>3, <1>5, <2>1
      <3> QED
        BY <1>4, <3>1, <3>2
    <2>2. CASE q # <<>>
      <3>1. PICK s \in S : q = name(s)
        BY <1>3, <2>2
      <3>2. PICK t \in S : D[t] = D[s] /\ f = ToArchive(shard(s), t, t)
        BY <1>4, <3>1 DEF Leaves
      <3>3. f.kind = "link" /\ f.name = t
        BY <3>2, LinkFields
      <3>4. Append(q, t) = path(t) /\ path(t) \in P /\ t \in N
        BY <1>1, <1>2, <1>3, <1>5, <3>1, <3>2
      <3> QED
        BY <3>3, <3>4
    <2> QED
      BY <2>1, <2>2
  <1>9. ASSUME NEW p \in P, NEW k \in 1 .. Len(p)
        PROVE  Leads(e, p, k)
    <2>1. PICK s \in S : p = path(s)
      BY <1>3
    <2>2. Len(p) = 2 /\ p[2] = s /\ SubSeq(p, 1, 0) = <<>> /\ SubSeq(p, 1, 1) = name(s)
      BY <1>1, <1>5, <2>1
    <2>3. CASE k = 1
      <3>1. k # Len(p) /\ SubSeq(p, 1, k - 1) = <<>> /\ SubSeq(p, 1, k) = name(s)
        BY <2>2, <2>3
      <3> QED
        BY <1>4, <1>6, <1>7, <3>1 DEF Leads
    <2>4. CASE k = 2
      <3>1. ToArchive(shard(s), s, s) \in Listed(shard(s))
        BY <1>4 DEF Leaves
      <3>2. ToArchive(shard(s), s, s).kind = "link" /\ ToArchive(shard(s), s, s).name = s
        BY LinkFields
      <3>3. k = Len(p) /\ SubSeq(p, 1, k - 1) = name(s) /\ p[k] = s
        BY <2>2, <2>4
      <3> QED
        BY <1>4, <3>1, <3>2, <3>3 DEF Leads
    <2> QED
      BY <2>2, <2>3, <2>4
  <1>10. Tree(e, N, Q, P)
    <2>1. <<>> \in Seq(N)
      BY EmptySeq
    <2>2. P \subseteq Seq(N) /\ Q \subseteq Seq(N) /\ <<>> \in Q
      BY ONLY <1>1, <1>3, <2>1
    <2>3. 2 \in 1 .. Depth
      BY ConfigurationAssumption
    <2>4. \A p \in P : Len(p) \in 1 .. Depth
      BY ONLY <1>1, <1>3, <2>3
    <2> QED
      BY <1>8, <1>9, <2>2, <2>4 DEF Tree
  <1>11. LinksUnder(e) = P
    BY <1>10, TreeLinks
  <1> QED
    BY <1>3, <1>5, <1>11, ShardedOneByOne

\* Under by-hash there is one link for each revision of the history.
LEMMA ByHashSharded ==
  ASSUME NEW e, e.kind = "by-hash", e.part = <<>>, e.depth \in Nat, e.swhid \in Revisions
  PROVE  Sharded(e, ToSet(History[e.swhid]))
  <1> DEFINE S == ToSet(History[e.swhid])
  <1>1. Listed(e) = Shards(e, {Hash[s] : s \in S})
    <2>1. Listed(e) = ShardByHash(e)
      BY ListedAsComputed DEF Computed, Needed, Entries
    <2> QED
      BY <2>1 DEF ShardByHash
  <1>2. ASSUME NEW s \in S, NEW d, d.kind = e.kind /\ d.swhid = e.swhid /\ d.part = <<Hash[s]>>
        PROVE  Listed(d) = Leaves(d, {t \in S : Hash[t] = Hash[s]})
    <2>1. d.part # <<>> /\ d.part[1] = Hash[s]
      BY <1>2
    <2> QED
      <3>1. Listed(d) = ShardByHash(d)
        BY <1>2, ListedAsComputed DEF Computed, Needed, Entries
      <3> QED
        BY <1>2, <2>1, <3>1 DEF ShardByHash
  <1>3. IsFiniteSet(S) /\ e.kind # "link"
    BY HistoryOf
  <1> HIDE DEF S
  <1>4. Sharded(e, S)
    <2>1. ByName(e, S, Hash)
      BY <1>1, <1>2 DEF ByName
    <2> QED
      BY <1>3, <2>1, ShardedByName
  <1> QED
    BY <1>4 DEF S

\* The places of a history, and the pages that they are on.
LEMMA PageOf ==
  ASSUME NEW r \in Revisions
  PROVE  \E D : /\ \A i \in 1 .. Len(History[r]) : D[History[r][i]] = (i - 1) \div PageSize
                /\ \A s \in ToSet(History[r]) : D[s] \in Nat
  <1>1. PICK h \in Seq(Revisions) : h = History[r]
    BY HistoryOf
  <1>2. \A i, j \in 1 .. Len(h) : h[i] = h[j] => i = j
    BY <1>1, HistoryOf
  <1>3. PICK n \in Nat : n = Len(h)
    OBVIOUS
  <1> DEFINE D == [s \in ToSet(h) |-> (CHOOSE i \in 1 .. n : h[i] = s) - 1]
  <1>4. \A i \in 1 .. n : h[i] \in ToSet(h) /\ D[h[i]] = i - 1
    BY <1>2, <1>3, Places
  <1>5. \A s \in ToSet(h) : \E i \in 1 .. n : s = h[i]
    BY <1>3, Places
  <1> DEFINE page == [s \in ToSet(h) |-> D[s] \div PageSize]
  <1> HIDE DEF D
  <1>6. \A i \in 1 .. n : page[h[i]] = (i - 1) \div PageSize
    BY <1>4
  <1>7. \A i \in 1 .. n : (i - 1) \div PageSize \in Nat
    BY Quotient, ConfigurationAssumption
  <1> HIDE DEF page
  <1>8. \A s \in ToSet(h) : page[s] \in Nat
    BY <1>5, <1>6, <1>7
  <1>9. \A i \in 1 .. Len(History[r]) : page[History[r][i]] = (i - 1) \div PageSize
    BY <1>1, <1>3, <1>6
  <1> QED
    BY <1>1, <1>8, <1>9

\* Under by-page there is one link for each revision of the history.
LEMMA ByPageSharded ==
  ASSUME NEW e, e.kind = "by-page", e.part = <<>>, e.depth \in Nat, e.swhid \in Revisions
  PROVE  Sharded(e, ToSet(History[e.swhid]))
  <1> DEFINE S == ToSet(History[e.swhid])
  <1>1. PICK h \in Seq(Revisions) : h = History[e.swhid]
    BY HistoryOf
  <1>2. PICK n \in Nat : n = Len(h)
    OBVIOUS
  <1>3. PICK page : /\ \A i \in 1 .. n : page[h[i]] = (i - 1) \div PageSize
                    /\ \A s \in S : page[s] \in Nat
    BY <1>1, <1>2, PageOf
  <1>4. /\ \A i \in 1 .. n : h[i] \in S
        /\ \A s \in S : \E i \in 1 .. n : s = h[i]
    BY <1>1, <1>2, Places
  <1> DEFINE pages == {i \div PageSize : i \in 0 .. n - 1}
             D == [s \in S |-> PageName(page[s])]
  <1>5. pages = {page[s] : s \in S}
    <2>1. ASSUME NEW i \in 0 .. n - 1
          PROVE  \E s \in S : i \div PageSize = page[s]
      <3>1. PICK j \in 1 .. n : i = j - 1
        <4>1. i + 1 \in 1 .. n /\ i = i + 1 - 1
          BY <1>2
        <4> QED
          BY <4>1
      <3> QED
        BY <1>3, <1>4, <3>1
    <2>2. ASSUME NEW s \in S
          PROVE  \E i \in 0 .. n - 1 : i \div PageSize = page[s]
      <3>1. PICK j \in 1 .. n : s = h[j]
        BY <1>4
      <3>2. j - 1 \in 0 .. n - 1
        BY <1>2
      <3> QED
        BY <1>3, <3>1, <3>2
    <2> QED
      BY <2>1, <2>2
  <1>6. \A k \in Nat : ToSet(Page(h, k)) = {s \in S : page[s] = k}
    <2> TAKE k \in Nat
    <2>1. /\ \A x \in ToSet(Slice(h, PageSize, k)) :
                \E i \in 1 .. Len(h) : x = h[i] /\ (i - 1) \div PageSize = k
          /\ \A i \in 1 .. Len(h) :
                (i - 1) \div PageSize = k => h[i] \in ToSet(Slice(h, PageSize, k))
      BY SliceItems, ConfigurationAssumption
    <2> QED
      BY <1>2, <1>3, <1>4, <2>1 DEF Page
  <1>7. pages = {i \div PageSize : i \in 0 .. Len(History[e.swhid]) - 1}
    BY <1>1, <1>2
  <1> HIDE DEF S, pages
  <1>8. Listed(e) = Shards(e, {D[s] : s \in S})
    <2>1. Listed(e) = Shards(e, {PageName(k) : k \in pages})
      BY <1>7, ListedAsComputed DEF Computed, Needed, Entries, ShardByPage
    <2>2. {PageName(k) : k \in pages} = {D[s] : s \in S}
      BY <1>5
    <2> QED
      BY <2>1, <2>2
  <1>9. ASSUME NEW s \in S, NEW d, d.kind = e.kind /\ d.swhid = e.swhid /\ d.part = <<D[s]>>
        PROVE  Listed(d) = Leaves(d, {t \in S : D[t] = D[s]})
    <2>1. d.part # <<>> /\ d.part[1] = D[s]
      BY <1>9
    <2>2. Listed(d) = UNION {Leaves(d, ToSet(Page(h, k))) :
                                k \in {m \in pages : PageName(m) = D[s]}}
      <3>1. Listed(d) = ShardByPage(d)
        BY <1>9, ListedAsComputed DEF Computed, Needed, Entries
      <3> QED
        BY <1>1, <1>7, <1>9, <2>1, <3>1 DEF ShardByPage
    <2> DEFINE mine == {m \in pages : PageName(m) = D[s]}
    <2>3. \A t \in S : D[t] = D[s] <=> page[t] \in mine
      BY <1>5
    <2>4. \A k \in mine : ToSet(Page(h, k)) = {t \in S : page[t] = k}
      BY <1>3, <1>5, <1>6
    <2>5. UNION {Leaves(d, ToSet(Page(h, k))) : k \in mine}
             = UNION {{ToArchive(d, t, t) : t \in {u \in S : page[u] = k}} : k \in mine}
      BY <2>4 DEF Leaves
    <2> HIDE DEF mine
    <2>6. UNION {{ToArchive(d, t, t) : t \in {u \in S : page[u] = k}} : k \in mine}
             = {ToArchive(d, t, t) : t \in {u \in S : D[u] = D[s]}}
      <3>1. ASSUME NEW k \in mine, NEW t \in S, page[t] = k
            PROVE  ToArchive(d, t, t) \in {ToArchive(d, u, u) : u \in {v \in S : D[v] = D[s]}}
        BY <2>3, <3>1
      <3>2. ASSUME NEW t \in S, D[t] = D[s]
            PROVE  \E k \in mine : ToArchive(d, t, t) \in
                                      {ToArchive(d, u, u) : u \in {v \in S : page[v] = k}}
        BY <2>3, <3>2
      <3> HIDE DEF D
      <3> QED
        BY <3>1, <3>2
    <2> QED
      BY <2>2, <2>5, <2>6 DEF Leaves, mine
  <1>10. IsFiniteSet(S) /\ e.kind # "link"
    BY HistoryOf DEF S
  <1>11. ByName(e, S, D)
    <2> HIDE DEF D
    <2> QED
      BY <1>8, <1>9 DEF ByName
  <1>12. Sharded(e, S)
    <2> HIDE DEF D
    <2> QED
      BY <1>10, <1>11, ShardedByName
  <1> QED
    BY <1>12 DEF S

-----------------------------------------------------------------------------
(* What the walker is shown.                                               *)

\* An origin shows each day on which it was visited.
LEMMA OriginDays ==
  ASSUME NEW e, e.name \in Origins
  PROVE  {f.name : f \in Origin(e)} = {v.date : v \in ToSet(Visits[e.name])}
  <1>1. PICK v : v = Visits[e.name]
    OBVIOUS
  <1>2. v \in Seq([date : STRING, snapshot : Seq(Swhids)])
    BY <1>1, HistoryAssumption
  <1>3. PICK n \in Nat : n = Len(v) /\ DOMAIN v = 1 .. n
    BY <1>2
  <1> DEFINE day(i) == Child(e, "visit", v[i].date, NoSwhid, v[i].snapshot)
  <1>4. Origin(e) = {day(i) : i \in {j \in 1 .. n : FirstOfDay(v, j)}}
    BY <1>1, <1>3 DEF Origin
  <1>5. \A i : day(i).name = v[i].date
    BY ChildFields
  <1>6. ASSUME NEW i \in 1 .. n
        PROVE  \E j \in 1 .. n : FirstOfDay(v, j) /\ v[j].date = v[i].date
    <2> DEFINE T == {j \in 1 .. n : v[j].date = v[i].date}
    <2>1. T \subseteq Nat /\ i \in T
      OBVIOUS
    <2> HIDE DEF T
    <2>2. PICK m \in T : \A j \in T : m <= j
      BY <2>1, Smallest
    <2>3. m \in 1 .. n /\ v[m].date = v[i].date /\ \A j \in 1 .. n : v[j].date = v[m].date => m <= j
      BY <2>2 DEF T
    <2>4. FirstOfDay(v, m)
      BY <1>3, <2>3 DEF FirstOfDay
    <2> QED
      BY <2>3, <2>4
  <1>7. /\ \A x \in ToSet(v) : \E i \in 1 .. n : x = v[i]
        /\ \A i \in 1 .. n : v[i] \in ToSet(v)
    BY <1>2, <1>3, Places
  <1> HIDE DEF day
  <1>8. \A f \in Origin(e) : \E x \in ToSet(v) : f.name = x.date
    BY <1>4, <1>5, <1>7
  <1>9. ASSUME NEW x \in ToSet(v)
        PROVE  \E f \in Origin(e) : f.name = x.date
    <2>1. PICK i \in 1 .. n : x = v[i]
      BY <1>7
    <2>2. PICK j \in 1 .. n : FirstOfDay(v, j) /\ v[j].date = v[i].date
      BY <1>6
    <2> QED
      BY <1>4, <1>5, <2>1, <2>2
  <1> QED
    BY <1>1, <1>8, <1>9

\* The attributes of all entries come, unless the graph left a length out.
LEMMA DirectorySized ==
  ASSUME NEW e, e.swhid \in Archived, IsA("dir", e.swhid)
  PROVE  LengthMissing(Object[e.swhid].entries) <=> \E f \in Directory(e) : ~f.sized
  <1>1. PICK D \in SUBSET Edges : D = Object[e.swhid].entries
    BY ObjectTypes DEF Directories
  <1>2. Directory(e) = {DirectoryEntry(e, d) : d \in D}
    BY <1>1, MetadataOf DEF Directory
  <1>3. ASSUME NEW d \in D
        PROVE  DirectoryEntry(e, d).sized <=>
                 ~(graph = "compressed" /\ d.perms = "file" /\ d.target \in Unsized)
    <2>1. d.perms \in {"file", "link", "dir", "rev"}
      BY <1>1 DEF Edges
    <2>2. CASE d.perms = "file"
      <3>1. /\ Child(e, "cnt", d.name, d.target, <<>>).sized
            /\ "sized" \in DOMAIN Child(e, "cnt", d.name, d.target, <<>>)
        BY DEF Child
      <3> QED
        BY <2>2, <3>1 DEF DirectoryEntry
    <2>3. CASE d.perms # "file"
      BY <2>1, <2>3, AllSized DEF DirectoryEntry
    <2> QED
      BY <2>2, <2>3
  <1> QED
    BY <1>1, <1>2, <1>3 DEF LengthMissing

\* A directory of source code is computed whole, and listed unless a length is
\* missing; whatever else the walker is in shows all that it should, and each
\* thing once.
THEOREM AllIsShown == Spec => []NothingLeftOut
  <1>1. Walk => NothingLeftOut
    <2> SUFFICES ASSUME Walk PROVE NothingLeftOut
      OBVIOUS
    <2>1. Sound(Here)
      BY HereSound DEF Walk
    <2>2. Here.depth \in Nat
      <3>1. PICK n \in Nat \ {0} : n = Len(stack)
        BY DEF Walk, Chain
      <3>2. n \in 1 .. n /\ Here = stack[n]
        BY <3>1 DEF Here, Last
      <3>3. stack[n].depth = n
        BY <3>1, <3>2 DEF Walk, Chain
      <3> QED
        BY <3>1, <3>2, <3>3
    <2>3. CASE Here.kind = "dir"
      <3>1. IsA("dir", Here.swhid)
        BY <2>1, <2>3 DEF Sound
      <3>2. CASE Here.swhid \in Archived
        <4>1. Computed(Here) = Directory(Here)
          BY <2>3, <3>2 DEF Computed, Needed, Entries
        <4>2. {f.name : f \in Computed(Here)} = {d.name : d \in Object[Here.swhid].entries}
          BY <3>1, <3>2, <4>1, DirectoryDistinct
        <4>3. LengthMissing(Object[Here.swhid].entries) <=> \E f \in Computed(Here) : ~f.sized
          BY <3>1, <3>2, <4>1, DirectorySized
        <4>4. Listed(Here) = IF LengthMissing(Object[Here.swhid].entries) THEN {} ELSE Computed(Here)
          BY <4>3 DEF Listed, Served
        <4> QED
          BY <2>3, <3>2, <4>2, <4>4 DEF NothingLeftOut
      <3>3. CASE Here.swhid \notin Archived
        <4>1. Computed(Here) = {} /\ Listed(Here) = {} /\ ~LengthMissing({})
          BY <2>3, <3>3 DEF Computed, Listed, Served, Needed, LengthMissing
        <4> QED
          BY <2>3, <3>3, <4>1 DEF NothingLeftOut
      <3> QED
        BY <3>2, <3>3
    <2>4. CASE Here.kind = "snp" /\ Here.part = <<>>
      <3>1. Here.swhid \in Archived /\ IsA("snp", Here.swhid)
        BY <2>1, <2>4 DEF Sound
      <3>2. LinksUnder(Here) = {b.name : b \in Metadata(Here.swhid).branches}
        BY <2>2, <2>4, <3>1, SnapshotLinks
      <3>3. Metadata(Here.swhid).branches =
              {c \in Object[Here.swhid].branches : graph = "web" \/ "target" \in DOMAIN c}
        <4>1. graph \in {"web", "compressed"}
          BY ConfigurationAssumption DEF Walk
        <4> QED
          BY <3>1, <4>1, MetadataOf
      <3> QED
        BY <2>4, <3>2, <3>3 DEF NothingLeftOut
    <2>5. CASE Here.kind \in {"by-date", "by-hash", "by-page"} /\ Here.part = <<>>
      <3>1. Here.swhid \in Revisions
        BY <2>1, <2>5 DEF Sound
      <3> QED
        BY <2>2, <2>5, <3>1, ByDateSharded, ByHashSharded, ByPageSharded DEF NothingLeftOut
    <2>6. CASE Here.kind = "url"
      <3>1. Here.name \in Origins
        BY <2>1, <2>6 DEF Sound
      <3>2. Listed(Here) = Origin(Here)
        BY <2>6, ListedAsComputed DEF Computed, Needed, Entries
      <3> QED
        BY <2>6, <3>1, <3>2, OriginDays DEF NothingLeftOut
    <2> QED
      BY <2>3, <2>4, <2>5, <2>6 DEF NothingLeftOut
  <1> QED
    BY <1>1, WalkInvariance, PTL

=============================================================================
