--------------------------- MODULE MCReadThrough ---------------------------
(* Small instances of ReadThrough: two or three requests at a time, of one *)
(* or two processes, on one content and one other artifact.                *)

EXTENDS ReadThrough, TLC

CONSTANTS c, d, m1, m2, t1, t2, t3

OneMount == t1 :> m1 @@ t2 :> m1 @@ t3 :> m1
TwoMounts == t1 :> m1 @@ t2 :> m1 @@ t3 :> m2
PairOnOneMount == t1 :> m1 @@ t2 :> m1
PairOfMounts == t1 :> m1 @@ t2 :> m2
AllTables == {"metadata", "blob"}

SymTasks == Permutations({t1, t2, t3})
SymFirstTasks == Permutations({t1, t2})
=============================================================================
