----------------------------- MODULE MCHistory -----------------------------
(* A merge h of p and q, whose common parent is g; and a line of three of  *)
(* them.                                                                   *)

EXTENDS HistoryQuery, TLC

CONSTANTS h, p, q, g, t1, t2

Merge == h :> {p, q} @@ p :> {g} @@ q :> {g} @@ g :> {}
Line == h :> {p} @@ p :> {g} @@ g :> {}

MergeOrder == <<g, h, p, q>>
LineOrder == <<g, h, p>>

SymTasks == Permutations({t1, t2})
=============================================================================
