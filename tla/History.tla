------------------------------ MODULE History ------------------------------
(***************************************************************************)
(* The histories of revisions: Fuse.get_history over the history_graph     *)
(* table, whose edges all revisions share and whose transitive closure is  *)
(* the answer, and the listings history/by-hash and history/by-date made   *)
(* from it.  The Web API back-end answers with a bounded log, and stores   *)
(* the metadata of what it lists one row at a time before it returns the   *)
(* edges; the compressed graph answers with a traversal.                   *)
(*                                                                         *)
(* One process; an execute and its commit are one step (ReadThrough has    *)
(* the locks), and each of them may be refused.                            *)
(***************************************************************************)

EXTENDS Integers, FiniteSets, Sequences

CONSTANTS
    Revs,     \* the revisions of the archive
    Parents,  \* the parents of each
    NoRev,    \* what an idle task works on
    Backends, \* those the process may be started with: "web", "graph"
    Limit,    \* revisions in one answer of /log (1000)
    Tasks

ASSUME ArchiveAssumption ==
    /\ IsFiniteSet(Revs)
    /\ Parents \in [Revs -> SUBSET Revs]
    /\ NoRev \notin Revs
    /\ Backends \subseteq {"web", "graph"}
    /\ Limit \in Nat \ {0}

Pairs == Revs \X Revs
Archived == {e \in Pairs : e[2] \in Parents[e[1]]}
Views == {"by-hash", "by-date"}

\* What is in every set that holds r and the ends of the edges that leave it.
Reachable(E, r) ==
    {s \in Revs : \A S \in SUBSET Revs :
        r \in S /\ (\A e \in E : e[1] \in S => e[2] \in S) => s \in S}

Ancestors == [r \in Revs |-> Reachable(Archived, r) \ {r}]

VARIABLES
    backend,  \* the one the process is configured with
    edges,    \* the rows of history_graph
    rows,     \* the revisions that have a row in metadata_cache
    pc,       \* the next step of each task
    view,     \* the listing it makes
    rev,      \* the revision whose history it lists
    todo,     \* the revisions of the log it has yet to store
    batch,    \* the edges it was given
    answer,   \* the revisions listed
    fetched,  \* history: the revisions of the log it was given
    failed,   \* history: its back-end call failed, and was answered with []
    purged    \* history: a row was purged since it started

vars == <<backend, edges, rows, pc, view, rev, todo, batch, answer, fetched, failed,
          purged>>

TypeOK ==
    /\ backend \in Backends
    /\ edges \subseteq Pairs
    /\ rows \subseteq Revs
    /\ pc \in [Tasks -> {"idle", "get", "fetch", "rows", "edges", "reget",
                         "dates", "done", "error"}]
    /\ view \in [Tasks -> Views]
    /\ rev \in [Tasks -> Revs \cup {NoRev}]
    /\ todo \in [Tasks -> SUBSET Revs]
    /\ batch \in [Tasks -> SUBSET Pairs]
    /\ answer \in [Tasks -> SUBSET Revs]
    /\ fetched \in [Tasks -> SUBSET Revs]
    /\ failed \in [Tasks -> BOOLEAN]
    /\ purged \in [Tasks -> BOOLEAN]

Init ==
    /\ backend \in Backends
    /\ edges = {}
    /\ rows = {}
    /\ pc = [t \in Tasks |-> "idle"]
    /\ view = [t \in Tasks |-> "by-hash"]
    /\ rev = [t \in Tasks |-> NoRev]
    /\ todo = [t \in Tasks |-> {}]
    /\ batch = [t \in Tasks |-> {}]
    /\ answer = [t \in Tasks |-> {}]
    /\ fetched = [t \in Tasks |-> {}]
    /\ failed = [t \in Tasks |-> FALSE]
    /\ purged = [t \in Tasks |-> FALSE]

-----------------------------------------------------------------------------
(* The back-ends' answers.                                                 *)

LogEdges(F) == {e \in Archived : e[1] \in F}

\* The log of r: itself and as many of its ancestors as the limit admits, each
\* of them reached through others of the log.
Log == [r \in Revs |->
    {F \in SUBSET ({r} \cup Ancestors[r]) :
        /\ r \in F
        /\ Cardinality(F) <= Limit
        /\ Cardinality(F) < Limit => F = {r} \cup Ancestors[r]
        /\ F \subseteq Reachable(LogEdges(F), r)}]

\* The orders in which a breadth-first traversal from r may return revisions.
Traversals(r) ==
    LET reached == {r} \cup Ancestors[r]
        finders(s, j) == {i \in DOMAIN s : s[j] \in Parents[s[i]]}
    IN  {s \in [1 .. Cardinality(reached) -> reached] :
            /\ s[1] = r
            /\ \A j, k \in DOMAIN s : s[j] = s[k] => j = k
            /\ \A j \in DOMAIN s \ {1} : \E i \in finders(s, j) : i < j
            /\ \A j, k \in DOMAIN s \ {1} : j < k =>
                   \A n \in finders(s, k) : \E i \in finders(s, j) : i <= n}

\* Each revision is paired with the one returned before it, whatever its child.
ChainEdges(s) ==
    {<<s[1], s[1]>>} \cup {<<s[i], s[i + 1]>> : i \in 1 .. Len(s) - 1}

-----------------------------------------------------------------------------
(* Tasks.                                                                  *)

\* HistoryCache.get: the first row of the closure, r itself, is left out.
Cached(r) == Reachable(edges, r) \ {r}

GoTo(t, label) ==
    /\ pc' = [pc EXCEPT ![t] = label]
    /\ UNCHANGED answer

List(t, revisions) ==
    /\ pc' = [pc EXCEPT ![t] = "done"]
    /\ answer' = [answer EXCEPT ![t] = revisions]

\* What follows get_history: by-hash lists its answer, by-date asks again.
Proceed(t) ==
    \/ view[t] = "by-hash" /\ List(t, Cached(rev[t]))
    \/ view[t] = "by-date" /\ GoTo(t, "dates")

\* Mutant: the revision is kept for the view.
MutStart(t, v, r) ==
    /\ pc[t] = "idle"
    /\ pc' = [pc EXCEPT ![t] = "get"]
    /\ view' = [view EXCEPT ![t] = r]
    /\ rev' = [rev EXCEPT ![t] = r]
    /\ UNCHANGED <<backend, edges, rows, todo, batch, answer, fetched, failed, purged>>

\* A by-hash or a by-date directory is listed, and is not in the direntry cache.
Start(t, v, r) ==
    /\ pc[t] = "idle"
    /\ pc' = [pc EXCEPT ![t] = "get"]
    /\ view' = [view EXCEPT ![t] = v]
    /\ rev' = [rev EXCEPT ![t] = r]
    /\ UNCHANGED <<backend, edges, rows, todo, batch, answer, fetched, failed, purged>>

\* A history that is empty counts as none.
Get(t) ==
    /\ pc[t] = "get"
    /\ \/ Cached(rev[t]) # {} /\ Proceed(t)
       \/ Cached(rev[t]) = {} /\ GoTo(t, "fetch")
    /\ UNCHANGED <<backend, edges, rows, view, rev, todo, batch, fetched, failed, purged>>

\* Mutant: the log's edges are turned round.
MutFetchLog(t) ==
    /\ pc[t] = "fetch"
    /\ \E F \in Log[rev[t]] :
          /\ todo' = [todo EXCEPT ![t] = F]
          /\ fetched' = [fetched EXCEPT ![t] = F]
          /\ batch' = [batch EXCEPT ![t] = {<<e[2], e[1]>> : e \in LogEdges(F)}]
    /\ GoTo(t, "rows")
    /\ UNCHANGED <<backend, edges, rows, view, rev, failed, purged>>

\* WebApiBackend.get_history, as it is answered.
FetchLog(t) ==
    /\ pc[t] = "fetch"
    /\ backend = "web"
    /\ \E F \in Log[rev[t]] :
          /\ todo' = [todo EXCEPT ![t] = F]
          /\ fetched' = [fetched EXCEPT ![t] = F]
          /\ batch' = [batch EXCEPT ![t] = LogEdges(F)]
    /\ GoTo(t, "rows")
    /\ UNCHANGED <<backend, edges, rows, view, rev, failed, purged>>

\* Its HTTPError is logged, and the answer is an empty list: nothing is stored.
FetchNothing(t) ==
    /\ pc[t] = "fetch"
    /\ backend = "web"
    /\ failed' = [failed EXCEPT ![t] = TRUE]
    /\ GoTo(t, "reget")
    /\ UNCHANGED <<backend, edges, rows, view, rev, todo, batch, fetched, purged>>

\* CompressedGraphBackend.get_history
FetchTraversal(t) ==
    /\ pc[t] = "fetch"
    /\ backend = "graph"
    /\ \E s \in Traversals(rev[t]) : batch' = [batch EXCEPT ![t] = ChainEdges(s)]
    /\ GoTo(t, "edges")
    /\ UNCHANGED <<backend, edges, rows, view, rev, todo, fetched, failed, purged>>

\* Mutant: the last revision of the log is not stored.
MutStoreRow(t) ==
    /\ pc[t] = "rows"
    /\ \E x \in todo[t] :
          /\ rows' = IF todo[t] = {x} THEN rows ELSE rows \cup {x}
          /\ todo' = [todo EXCEPT ![t] = @ \ {x}]
          /\ GoTo(t, IF todo[t] = {x} THEN "edges" ELSE "rows")
    /\ UNCHANGED <<backend, edges, view, rev, batch, fetched, failed, purged>>

\* The metadata of one revision of the log (the code takes them in the order
\* of the log, the model in any).
StoreRow(t) ==
    /\ pc[t] = "rows"
    /\ \E x \in todo[t] :
          /\ rows' = rows \cup {x}
          /\ todo' = [todo EXCEPT ![t] = @ \ {x}]
          /\ GoTo(t, IF todo[t] = {x} THEN "edges" ELSE "rows")
    /\ UNCHANGED <<backend, edges, view, rev, batch, fetched, failed, purged>>

\* Mutant: an execute for each edge, of which the last one is committed.
MutStoreEdges(t) ==
    /\ pc[t] = "edges"
    /\ \/ batch[t] = {} /\ UNCHANGED edges
       \/ \E e \in batch[t] : edges' = edges \cup {e}
    /\ GoTo(t, "reget")
    /\ UNCHANGED <<backend, rows, view, rev, todo, batch, fetched, failed, purged>>

\* HistoryCache.set, one executemany for all the edges.
StoreEdges(t) ==
    /\ pc[t] = "edges"
    /\ edges' = edges \cup batch[t]
    /\ GoTo(t, "reget")
    /\ UNCHANGED <<backend, rows, view, rev, todo, batch, fetched, failed, purged>>

Reget(t) ==
    /\ pc[t] = "reget"
    /\ Proceed(t)
    /\ UNCHANGED <<backend, edges, rows, view, rev, todo, batch, fetched, failed, purged>>

\* get_with_date_prefix: the closure joined with the rows that have a date.
Dates(t) ==
    /\ pc[t] = "dates"
    /\ List(t, Cached(rev[t]) \cap rows)
    /\ UNCHANGED <<backend, edges, rows, view, rev, todo, batch, fetched, failed, purged>>

\* A query refused by SQLite, or a back-end call that raises: ENOENT.
Fail(t) ==
    /\ pc[t] \in {"get", "fetch", "rows", "edges", "reget", "dates"}
    /\ GoTo(t, "error")
    /\ UNCHANGED <<backend, edges, rows, view, rev, todo, batch, fetched, failed, purged>>

Idle(T) ==
    /\ pc' = [t \in Tasks |-> IF t \in T THEN "idle" ELSE pc[t]]
    /\ view' = [t \in Tasks |-> IF t \in T THEN "by-hash" ELSE view[t]]
    /\ rev' = [t \in Tasks |-> IF t \in T THEN NoRev ELSE rev[t]]
    /\ todo' = [t \in Tasks |-> IF t \in T THEN {} ELSE todo[t]]
    /\ batch' = [t \in Tasks |-> IF t \in T THEN {} ELSE batch[t]]
    /\ answer' = [t \in Tasks |-> IF t \in T THEN {} ELSE answer[t]]
    /\ fetched' = [t \in Tasks |-> IF t \in T THEN {} ELSE fetched[t]]
    /\ failed' = [t \in Tasks |-> t \notin T /\ failed[t]]
    /\ purged' = [t \in Tasks |-> t \notin T /\ purged[t]]

Reply(t) ==
    /\ pc[t] \in {"done", "error"}
    /\ Idle({t})
    /\ UNCHANGED <<backend, edges, rows>>

\* The process is stopped and started again, maybe with another configuration;
\* what it had committed stays.
Restart ==
    /\ backend' \in Backends
    /\ Idle(Tasks)
    /\ UNCHANGED <<edges, rows>>

\* Some other request stores the metadata of a revision, or purges it.
Remember(x) ==
    /\ x \notin rows
    /\ rows' = rows \cup {x}
    /\ UNCHANGED <<backend, edges, pc, view, rev, todo, batch, answer, fetched, failed, purged>>

Forget(x) ==
    /\ x \in rows
    /\ rows' = rows \ {x}
    /\ purged' = [t \in Tasks |-> purged[t] \/ pc[t] # "idle"]
    /\ UNCHANGED <<backend, edges, pc, view, rev, todo, batch, answer, fetched, failed>>

Step(t) ==
    \/ Get(t) \/ FetchLog(t) \/ FetchNothing(t) \/ FetchTraversal(t) \/ StoreRow(t)
    \/ StoreEdges(t) \/ Reget(t) \/ Dates(t) \/ Fail(t) \/ Reply(t)

Next ==
    \/ \E t \in Tasks, v \in Views, r \in Revs : Start(t, v, r)
    \/ \E t \in Tasks : Step(t)
    \/ \E x \in Revs : Remember(x) \/ Forget(x)
    \/ Restart

Spec == Init /\ [][Next]_vars

-----------------------------------------------------------------------------
(* Properties.                                                             *)

Listed(t, v) == pc[t] = "done" /\ view[t] = v

\* The history of a revision lists ancestors of it and nothing else, although
\* its edges came from logs of other revisions, cut at other places, some of
\* them stored while this request was under way.  It holds of the Web API
\* back-end; EdgesAreParents is why it does not hold of the compressed graph.
HistoryIsAncestors ==
    \A t \in Tasks : pc[t] = "done" => answer[t] \subseteq Ancestors[rev[t]]

\* What the log fetched by a request lists is in its listing, by date too
\* because the back-end stored the metadata first, unless a row was purged
\* or the process was restarted meanwhile.
FetchedAreListed ==
    \A t \in Tasks :
        pc[t] = "done" /\ (view[t] = "by-date" => ~purged[t]) =>
            fetched[t] \ {rev[t]} \subseteq answer[t]

\* history/ lists all the ancestors of its revision, or nothing after a failed
\* call of the Web API: no crash, error or concurrent request leaves part of the
\* edges behind.  So it is where every log leads to all ancestors of its
\* revisions (one that is cut still has the parents of its last revision), and
\* where the compressed graph traverses a line.  Otherwise a log that was cut
\* answers for every revision in it, for ever.
HistoryIsWhole ==
    \A t \in Tasks : Listed(t, "by-hash") /\ ~failed[t] => answer[t] = Ancestors[rev[t]]

-----------------------------------------------------------------------------
(* What the documentation says, and the code does not do.                  *)

\* GraphBackend.get_history returns "a list of tuples (rev swhid, parent
\* swhid)".  The compressed graph's pairs are the successive revisions of a
\* traversal, so the two parents of a merge are stored as child and parent.
EdgesAreParents == edges \subseteq Archived \cup {<<r, r>> : r \in Revs}

=============================================================================
