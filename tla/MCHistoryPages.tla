--------------------------- MODULE MCHistoryPages ---------------------------
(* A line of five revisions.                                               *)

EXTENDS HistoryPages

CONSTANTS h, p, q, r, g, t1

Line == h :> {p} @@ p :> {q} @@ q :> {r} @@ r :> {g} @@ g :> {}

NameOrder == <<g, h, p, q, r>>
=============================================================================
