--------------------------- MODULE ArtifactLinks ---------------------------
(***************************************************************************)
(* Where the symlinks of the tree should lead: what a path denotes in the  *)
(* archive itself, whatever directories the mount point shows it in.  A    *)
(* path is followed through symlinks, aliases and releases, as far as they *)
(* lead.                                                                   *)
(***************************************************************************)

EXTENDS Artifacts

\* Every ".." takes off the name before it.
RECURSIVE Normal(_)
Normal(path) ==
    LET ups == {i \in 2 .. Len(path) : path[i] = ".." /\ path[i - 1] # ".."}
        i == Min(ups)
    IN  IF ups = {} THEN path
        ELSE Normal(SubSeq(path, 1, i - 2) \o SubSeq(path, i + 1, Len(path)))

\* What a path in a source tree denotes: the object that is there, with its
\* symlinks followed in the tree; at says how far the path has been walked.
RECURSIVE InTree(_, _, _)
InTree(tree, at, path) ==
    LET dir == IF at = <<>> THEN tree ELSE CHOOSE t \in InTree(tree, <<>>, at) : TRUE
        next(d) == IF d.perms = "link"
                     THEN InTree(tree, <<>>, Normal(at \o Object[d.target].link \o Tail(path)))
                     ELSE IF Len(path) = 1 THEN {d.target}
                     ELSE InTree(tree, Append(at, d.name), Tail(path))
    IN  UNION {next(d) : d \in {f \in Object[dir].entries : f.name = path[1]}}

\* What a path in an archived object denotes: the names its target has in
\* archive/.  The graph gives the parents of a revision in any order.
RECURSIVE In(_, _)
In(s, path) ==
    IF path = <<>> THEN {s} ELSE IF s \notin Archived THEN {} ELSE
    CASE IsA("dir", s) -> InTree(s, <<>>, path)
      [] IsA("snp", s) ->
            UNION {IF "alias" \in DOMAIN b THEN In(s, b.alias) ELSE {b.target} :
                      b \in {c \in Object[s].branches : c.name = path}}
      [] TypeOf(s) \in {"rel", "rev"} /\ path = <<"meta.json">> -> {Json(s)}
      [] IsA("rel", s) /\ path = <<"target">> -> {Object[s].target}
      [] IsA("rel", s) /\ path = <<"root">> ->
            IF IsA("dir", Object[s].target) THEN {Object[s].target}
            ELSE In(Object[s].target, path)
      [] IsA("rev", s) /\ path = <<"root">> -> {Object[s].directory}
      [] IsA("rev", s) /\ path = <<"parent">> -> In(s, <<"parents", "1">>)
      [] IsA("rev", s) /\ path[1] = "parents" ->
            {Object[s].parents[i] : i \in {j \in DOMAIN Object[s].parents :
                                              graph = "compressed" \/ ToString(j) = path[2]}}
      [] IsA("rev", s) /\ path[1] = "history" -> {Last(path)}
      [] OTHER -> {}

\* What a path under the mount point denotes.
Denoted(path) ==
    CASE path[1] = "archive" -> In(path[2], SubSeq(path, 3, Len(path)))
      [] path[1] = "cache" -> {Last(path)}
      [] path[1] = "origin" ->
            LET days == SelectSeq(Visits[path[2]], LAMBDA v : v.date = path[3])
            IN  IF path[4] = "snapshot" THEN ToSet(days[1].snapshot) ELSE {}

\* What archive/ can show of it.
Mountable(name) ==
    \/ \E s \in Archived : name = Json(s)
    \/ name \in Archived /\ (IsA("cnt", name) => BlobComes(name))
    \/ name = "origin"

\* A symlink leads to the artifact that it stands for, from however deep in the
\* tree and through whatever links in between: a source tree's own symlinks, a
\* branch and its aliases, parents, a release's root, the shards of a history
\* and of cache/.  It leads nowhere only if that artifact cannot be mounted, or
\* has no length, if the blob with its target did not come, or if its own name
\* is SWHID.json in cache/.
LinksResolve ==
    /\ from # <<>> /\ todo = <<>> =>
          (IF Here.kind = "meta" THEN Json(Here.swhid)
           ELSE IF Here.kind = "origin" THEN "origin" ELSE Here.swhid) \in Denoted(from)
    /\ result \in {"missing", "outside"} /\ (\A i \in DOMAIN stack : stack[i].lost = {}) =>
          \A name \in Denoted(from) :
              \/ ~Mountable(name) \/ name \in Unsized
              \/ Here.kind = "shard" /\ name \in JsonNames

=============================================================================
