---------------------------- MODULE MCArtifacts ----------------------------
(* An origin with two visits of one day and a third one; its snapshot, a   *)
(* release of a release, three revisions with a merge, and a source tree   *)
(* with a subdirectory, symlinks, an empty file and a submodule.           *)

EXTENDS ArtifactLinks

Cnt(length, link) == [type |-> "cnt", length |-> length, skipped |-> FALSE, link |-> link]
Entry(name, perms, target) == [name |-> name, perms |-> perms, target |-> target]
Rev(directory, parents, date) ==
    [type |-> "rev", directory |-> directory, parents |-> parents, date |-> date]

Archive ==
    [c |-> Cnt(3, <<>>), e |-> Cnt(0, <<>>),
     k |-> Cnt(5, <<"sub", "f">>), l |-> Cnt(4, <<"..", "g">>),
     o |-> Cnt(11, <<"..", "..", "..", "..">>), p |-> [Cnt(9, <<>>) EXCEPT !.skipped = TRUE],
     d |-> [type |-> "dir",
            entries |-> {Entry("g", "file", "c"), Entry("k", "link", "k"),
                         Entry("sub", "dir", "b"), Entry("m", "rev", "x"),
                         Entry("n", "dir", "y"), Entry("p", "file", "p")}],
     b |-> [type |-> "dir",
            entries |-> {Entry("f", "file", "e"), Entry("h", "file", "e"),
                         Entry("l", "link", "l"), Entry("o", "link", "o")}],
     r0 |-> Rev("b", <<>>, <<"2020", "01", "05">>),
     r1 |-> Rev("b", <<"r0">>, <<"2020", "02", "05">>),
     r2 |-> Rev("d", <<"r1", "r0">>, <<"2021", "02", "05">>),
     t1 |-> [type |-> "rel", target |-> "r2"],
     t2 |-> [type |-> "rel", target |-> "t1"],
     t0 |-> [type |-> "rel", target |-> "x"],
     s |-> [type |-> "snp",
            branches |-> {[name |-> <<"HEAD">>, alias |-> <<"refs", "heads", "main">>],
                          [name |-> <<"refs", "heads", "main">>, target |-> "r2"],
                          [name |-> <<"refs", "heads", "dev">>, target |-> "r2"],
                          [name |-> <<"refs", "tags", "latest">>, alias |-> <<"refs", "tags", "v1">>],
                          [name |-> <<"refs", "tags", "v1", "old">>, target |-> "t0"],
                          [name |-> <<"refs", "tags", "v1">>, target |-> "t2"]}]]

NotArchived == [x |-> "rev", y |-> "dir"]
Histories == [r0 |-> <<>>, r1 |-> <<"r0">>, r2 |-> <<"r1", "r0">>]
OriginVisits ==
    [u |-> <<[date |-> "2021-01-01", snapshot |-> <<"s">>],
             [date |-> "2021-01-01", snapshot |-> <<>>],
             [date |-> "2021-01-02", snapshot |-> <<>>]>>]
Digits == [s \in Swhids |-> IF s \in {"r0", "d", "c", "x", "s", "t1", "t0"} THEN "0a" ELSE "1b"]
\* With an objstorage, the contents come as from the Web API.
Configured == {<<"web", "web">>, <<"compressed", "storage">>}
=============================================================================
