---------------------------- MODULE HistoryQuery ----------------------------
(***************************************************************************)
(* HISTORY_REC_QUERY, the recursive select that walks the history_graph    *)
(* table, and the order in which it returns the revisions of a history.    *)
(***************************************************************************)

EXTENDS History, SequencesExt, Selection

CONSTANT ByName  \* the revisions, in the order of their SWHIDs

ASSUME OrderAssumption ==
    ByName \in Seq(Revs) /\ IsInjective(ByName) /\ ToSet(ByName) = Revs

\* The ends of the rows that leave r.
Successors(E, r) == {e[2] : e \in {e \in E : e[1] = r}}

\* Mutant: "union all" for "union".
MutVisit(E, queue, n) ==
    IF n > Len(queue) THEN queue
    ELSE queue \o Selected(ByName, Successors(E, queue[n]))

\* The recursive select takes the oldest row of its queue, and adds what is new,
\* in the order of the index of unique(src, dst).
Visit(E, queue, n) ==
    IF n > Len(queue) THEN queue
    ELSE queue \o Selected(ByName, Successors(E, queue[n]) \ ToSet(queue))

\* The queue after each visit; at the end all its rows have been taken.
Queues(E, r) ==
    LET after[n \in 0 .. Cardinality(Revs)] ==
            IF n = 0 THEN <<r>> ELSE Visit(E, after[n - 1], n)
    IN  after

\* The rows of HISTORY_REC_QUERY, but for the root.
QueryOver(E, r) == Tail(Queues(E, r)[Cardinality(Revs)])

Query(r) == QueryOver(edges, r)

-----------------------------------------------------------------------------
(* Properties.                                                             *)

\* The query returns what History takes it for, each revision once, whatever
\* edges requests have stored and in whatever order it finds revisions.
QueryIsClosure ==
    \A r \in Revs : ToSet(Query(r)) = Cached(r) /\ IsInjective(Query(r))

=============================================================================
