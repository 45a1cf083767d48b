----------------------------- MODULE MCFuseTree -----------------------------
(* Small trees: archive/ with a directory to mount, which has a symlink    *)
(* and a subdirectory; and a shard of cache/, whose rows come and go.      *)

EXTENDS FuseTree, TLC

CONSTANTS archive, folder, sub, l, x, top, shard, p, q, c1, c2

\* archive/folder/{l, sub/x}, of which l is a symlink
ArchivedTree ==
    archive :> <<folder>> @@ folder :> <<l, sub>> @@ sub :> <<x>>

ShardTree == top :> <<shard>> @@ shard :> <<p, q>>

SymClients == Permutations({c1, c2})
=============================================================================
