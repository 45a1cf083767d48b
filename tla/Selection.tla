----------------------------- MODULE Selection -----------------------------
(***************************************************************************)
(* What a listing takes from a longer list: the items that have a row, in  *)
(* the order of the list, as a select returns them (SelectSeq, written as  *)
(* a recursive function so that theorems can be proved about it); or those *)
(* of one page.                                                            *)
(***************************************************************************)

EXTENDS Integers, Sequences

\* What was selected after each item.
Kept(list, rows) ==
    LET kept[k \in 0 .. Len(list)] ==
            IF k = 0 THEN <<>>
            ELSE IF list[k] \in rows THEN Append(kept[k - 1], list[k])
            ELSE kept[k - 1]
    IN  kept

Selected(list, rows) == Kept(list, rows)[Len(list)]

\* The items of the n-th page of that size, the first one being page 0.
Slice(list, size, n) ==
    SubSeq(list, n * size + 1,
           IF Len(list) < (n + 1) * size THEN Len(list) ELSE (n + 1) * size)

=============================================================================
