--------------------------- MODULE HistoryProofs ---------------------------
(***************************************************************************)
(* Histories, for any archive, any limit of the logs and any number of     *)
(* requests.  Over the Web API none lists a revision that is not an        *)
(* ancestor: the edges stored, and those on their way, are archived ones,  *)
(* and the closure of a smaller set of edges is smaller.  With either      *)
(* back-end a request lists what its own log had.  And where no log is     *)
(* cut, histories over the Web API are whole.                              *)
(*                                                                         *)
(* Then their order and their pages, for any size of the pages.  The       *)
(* recursive query returns the closure of its edges, each revision once:   *)
(* after as many visits as there are revisions its queue holds every       *)
(* successor of what it holds.  The pages cut from one history have each   *)
(* of its revisions once; those cut from an earlier one may lack some, but *)
(* never have one that the history has not.                                *)
(***************************************************************************)

EXTENDS HistoryPages, SelectionProofs

\* What is reachable over some edges is reachable over more of them.
LEMMA ReachableMonotone ==
  ASSUME NEW E, NEW F, E \subseteq F, NEW r
  PROVE  Reachable(E, r) \subseteq Reachable(F, r)
  BY DEF Reachable

\* The request's revision is known from its start to its end, and the edges
\* are pairs of a revision and a parent of it.
SoundInv ==
    /\ TypeOK
    /\ edges \subseteq Archived
    /\ \A t \in Tasks :
          /\ batch[t] \subseteq Archived
          /\ pc[t] # "idle" => rev[t] \in Revs
          /\ pc[t] = "done" => answer[t] \subseteq Ancestors[rev[t]]

\* What is listed are ancestors.
LEMMA CachedSound ==
  ASSUME SoundInv, NEW r \in Revs
  PROVE  Cached(r) \subseteq Ancestors[r] /\ Cached(r) \subseteq Revs
  BY ReachableMonotone DEF SoundInv, Cached, Ancestors, Reachable

\* A request that goes on, and what it may then list.
LEMMA GoToKeeps ==
  ASSUME SoundInv, NEW t \in Tasks, pc[t] # "idle",
         NEW l \in {"fetch", "rows", "edges", "reget", "dates", "error"}, GoTo(t, l)
  PROVE  /\ pc' \in [Tasks -> {"idle", "get", "fetch", "rows", "edges", "reget",
                               "dates", "done", "error"}]
         /\ answer' = answer
         /\ \A u \in Tasks : pc'[u] # "idle" => rev[u] \in Revs
         /\ \A u \in Tasks : pc'[u] = "done" => answer[u] \subseteq Ancestors[rev[u]]
  BY DEF SoundInv, TypeOK, GoTo

\* A request that lists ancestors.
LEMMA ListKeeps ==
  ASSUME SoundInv, NEW t \in Tasks, pc[t] # "idle",
         NEW A \in SUBSET Revs, A \subseteq Ancestors[rev[t]], List(t, A)
  PROVE  /\ pc' \in [Tasks -> {"idle", "get", "fetch", "rows", "edges", "reget",
                               "dates", "done", "error"}]
         /\ answer' \in [Tasks -> SUBSET Revs]
         /\ \A u \in Tasks : pc'[u] # "idle" => rev[u] \in Revs
         /\ \A u \in Tasks : pc'[u] = "done" => answer'[u] \subseteq Ancestors[rev[u]]
  BY DEF SoundInv, TypeOK, List

\* What follows get_history.
LEMMA ProceedKeeps ==
  ASSUME SoundInv, NEW t \in Tasks, pc[t] # "idle", Proceed(t),
         UNCHANGED <<backend, edges, rows, view, rev, todo, batch, fetched, failed, purged>>
  PROVE  SoundInv'
  <1>1. rev[t] \in Revs
    BY DEF SoundInv
  <1>2. Cached(rev[t]) \in SUBSET Revs /\ Cached(rev[t]) \subseteq Ancestors[rev[t]]
    BY <1>1, CachedSound
  <1>3. CASE List(t, Cached(rev[t]))
    BY <1>2, <1>3, ListKeeps DEF SoundInv, TypeOK
  <1>4. CASE GoTo(t, "dates")
    BY <1>4, GoToKeeps DEF SoundInv, TypeOK
  <1> QED
    BY <1>3, <1>4 DEF Proceed

\* Requests that end, or end with the process.
LEMMA IdleKeeps ==
  ASSUME SoundInv, NEW T, Idle(T), UNCHANGED <<edges, rows>>, backend' \in Backends
  PROVE  SoundInv'
  <1>1. failed' \in [Tasks -> BOOLEAN] /\ purged' \in [Tasks -> BOOLEAN]
    BY Zenon DEF Idle
  <1>2. TypeOK'
    BY <1>1 DEF SoundInv, TypeOK, Idle, Views
  <1> QED
    BY <1>2 DEF SoundInv, Idle

\* Each step of a request, over the Web API.
LEMMA StepKeeps ==
  ASSUME Backends = {"web"}, SoundInv, NEW t \in Tasks, Step(t)
  PROVE  SoundInv'
  <1>1. CASE Get(t)
    <2>1. CASE Proceed(t)
      BY <1>1, <2>1, ProceedKeeps DEF Get
    <2>2. CASE GoTo(t, "fetch")
      BY <1>1, <2>2, GoToKeeps DEF Get, SoundInv, TypeOK
    <2> QED
      BY <1>1, <2>1, <2>2 DEF Get
  <1>2. CASE FetchLog(t)
    <2>1. PICK F \in Log[rev[t]] :
             /\ todo' = [todo EXCEPT ![t] = F]
             /\ fetched' = [fetched EXCEPT ![t] = F]
             /\ batch' = [batch EXCEPT ![t] = LogEdges(F)]
      BY <1>2 DEF FetchLog
    <2>2. rev[t] \in Revs /\ pc[t] # "idle"
      BY <1>2 DEF FetchLog, SoundInv
    <2>3. F \in SUBSET Revs
      BY <2>2 DEF Log, Ancestors, Reachable
    <2>4. LogEdges(F) \subseteq Archived /\ LogEdges(F) \subseteq Pairs
      BY DEF LogEdges, Archived
    <2> HIDE DEF Log
    <2> QED
      BY <1>2, <2>1, <2>2, <2>3, <2>4, GoToKeeps DEF FetchLog, SoundInv, TypeOK
  <1>3. CASE FetchNothing(t)
    BY <1>3, GoToKeeps DEF FetchNothing, SoundInv, TypeOK
  <1>4. CASE FetchTraversal(t)
    BY <1>4 DEF FetchTraversal, SoundInv, TypeOK
  <1>5. CASE StoreRow(t)
    <2>1. PICK x \in todo[t] :
             /\ rows' = rows \cup {x}
             /\ todo' = [todo EXCEPT ![t] = @ \ {x}]
             /\ GoTo(t, IF todo[t] = {x} THEN "edges" ELSE "rows")
      BY <1>5 DEF StoreRow
    <2>2. PICK l \in {"edges", "rows"} : GoTo(t, l)
      BY <2>1
    <2> QED
      BY <1>5, <2>1, <2>2, GoToKeeps DEF StoreRow, SoundInv, TypeOK
  <1>6. CASE StoreEdges(t)
    BY <1>6, GoToKeeps DEF StoreEdges, SoundInv, TypeOK
  <1>7. CASE Reget(t)
    BY <1>7, ProceedKeeps DEF Reget
  <1>8. CASE Dates(t)
    <2>1. rev[t] \in Revs /\ pc[t] # "idle"
      BY <1>8 DEF Dates, SoundInv
    <2>2. Cached(rev[t]) \cap rows \in SUBSET Revs
          /\ Cached(rev[t]) \cap rows \subseteq Ancestors[rev[t]]
      BY <2>1, CachedSound
    <2> QED
      BY <1>8, <2>1, <2>2, ListKeeps DEF Dates, SoundInv, TypeOK
  <1>9. CASE Fail(t)
    BY <1>9, GoToKeeps DEF Fail, SoundInv, TypeOK
  <1>10. CASE Reply(t)
    BY <1>10, IdleKeeps DEF Reply, SoundInv, TypeOK
  <1> QED
    BY <1>1, <1>2, <1>3, <1>4, <1>5, <1>6, <1>7, <1>8, <1>9, <1>10 DEF Step

\* Each step there is.
LEMMA SoundKept ==
  ASSUME Backends = {"web"}, SoundInv, [Next]_vars
  PROVE  SoundInv'
  <1>1. CASE UNCHANGED vars
    BY <1>1 DEF vars, SoundInv, TypeOK
  <1>2. ASSUME NEW t \in Tasks, NEW v \in Views, NEW r \in Revs, Start(t, v, r)
        PROVE  SoundInv'
    BY <1>2 DEF Start, SoundInv, TypeOK
  <1>3. ASSUME NEW t \in Tasks, Step(t)
        PROVE  SoundInv'
    BY <1>3, StepKeeps
  <1>4. ASSUME NEW x \in Revs, Remember(x)
        PROVE  SoundInv'
    BY <1>4 DEF Remember, SoundInv, TypeOK
  <1>5. ASSUME NEW x \in Revs, Forget(x)
        PROVE  SoundInv'
    <2>1. purged' \in [Tasks -> BOOLEAN]
      BY <1>5, Zenon DEF Forget
    <2> QED
      BY <1>5, <2>1 DEF Forget, SoundInv, TypeOK
  <1>6. CASE Restart
    BY <1>6, IdleKeeps DEF Restart
  <1> QED
    BY <1>1, <1>2, <1>3, <1>4, <1>5, <1>6 DEF Next

\* The cache starts empty.
LEMMA SoundInit ==
  ASSUME Init
  PROVE  SoundInv
  <1>1. failed \in [Tasks -> BOOLEAN] /\ purged \in [Tasks -> BOOLEAN]
    BY Zenon DEF Init
  <1> QED
    BY <1>1 DEF Init, SoundInv, TypeOK, Views

\* Fuse.get_history over the Web API: whatever logs were fetched, cut, refused
\* or interleaved, what is listed under history/ is an ancestor.
THEOREM WebHistorySound ==
  ASSUME Backends = {"web"}
  PROVE  Spec => []HistoryIsAncestors
  <1>1. Init => SoundInv
    BY SoundInit
  <1>2. SoundInv /\ [Next]_vars => SoundInv'
    BY SoundKept
  <1>3. SoundInv => HistoryIsAncestors
    BY DEF SoundInv, HistoryIsAncestors
  <1> QED
    BY <1>1, <1>2, <1>3, PTL DEF Spec

-----------------------------------------------------------------------------
(* Types, and what a log has in common with the rows and edges stored.     *)

\* A traversal's pairs are pairs of revisions.
LEMMA ChainsArePairs ==
  ASSUME NEW r \in Revs, NEW s \in Traversals(r)
  PROVE  ChainEdges(s) \subseteq Pairs
  <1> DEFINE reached == {r} \cup Ancestors[r]
  <1>1. reached \subseteq Revs
    BY DEF Ancestors, Reachable
  <1>2. Cardinality(reached) \in Nat
    BY <1>1, ArchiveAssumption, FS_Subset, FS_CardinalityType
  <1>3. PICK n \in Nat : n = Cardinality(reached)
    BY <1>2
  <1>4. s \in [1 .. n -> Revs]
    BY <1>1, <1>3 DEF Traversals
  <1>5. s[1] = r
    BY DEF Traversals
  <1>6. Len(s) = n
    BY ONLY <1>4, n \in Nat
  <1>7. ASSUME NEW i \in 1 .. n - 1
        PROVE  s[i] \in Revs /\ s[i + 1] \in Revs
    BY ONLY <1>4, n \in Nat, i \in 1 .. n - 1
  <1> QED
    BY <1>5, <1>6, <1>7 DEF ChainEdges, Pairs

\* What a request has fetched, and what there is of it.
RequestInv(t) ==
    /\ pc[t] # "idle" => rev[t] \in Revs
    /\ pc[t] \in {"idle", "get", "fetch"} => fetched[t] = {}
    /\ pc[t] \in {"rows", "edges"} => fetched[t] \subseteq Reachable(batch[t], rev[t])
    /\ pc[t] \in {"reget", "dates"} => fetched[t] \subseteq Reachable(edges, rev[t])
    /\ pc[t] = "dates" => view[t] = "by-date"
    /\ pc[t] = "rows" /\ ~purged[t] => fetched[t] \ todo[t] \subseteq rows
    /\ pc[t] \in {"edges", "reget", "dates"} /\ ~purged[t] => fetched[t] \subseteq rows
    /\ pc[t] = "done" /\ (view[t] = "by-date" => ~purged[t]) =>
           fetched[t] \ {rev[t]} \subseteq answer[t]

FetchedInv == TypeOK /\ \A t \in Tasks : RequestInv(t)

\* A request that does nothing, while edges only come, and rows go in purges
\* only, which mark it.
Untouched(u) ==
    /\ pc'[u] = pc[u] /\ view'[u] = view[u] /\ rev'[u] = rev[u]
    /\ todo'[u] = todo[u] /\ batch'[u] = batch[u] /\ answer'[u] = answer[u]
    /\ fetched'[u] = fetched[u]

\* A request on which nothing is done keeps what it knows.
LEMMA RequestKept ==
  ASSUME NEW u \in Tasks, RequestInv(u), Untouched(u), edges \subseteq edges',
         pc[u] # "idle" /\ ~purged'[u] => ~purged[u] /\ rows \subseteq rows'
  PROVE  RequestInv(u)'
  <1>1. Reachable(edges, rev[u]) \subseteq Reachable(edges', rev[u])
    BY ReachableMonotone
  <1> QED
    BY <1>1 DEF RequestInv, Untouched

\* One task steps, and adds to the tables.
Others(t) ==
    /\ edges \subseteq edges' /\ rows \subseteq rows' /\ purged' = purged
    /\ \A u \in Tasks \ {t} : Untouched(u)

\* So a step of one task is judged by what it does to that task.
LEMMA FetchedByOne ==
  ASSUME FetchedInv, NEW t \in Tasks, Others(t), TypeOK', RequestInv(t)'
  PROVE  FetchedInv'
  BY RequestKept DEF FetchedInv, Others

\* A task that goes on, and what it lists when it ends.
LEMMA GoesOn ==
  ASSUME TypeOK, NEW t \in Tasks, NEW l \in {"fetch", "rows", "edges", "reget", "dates", "error"},
         GoTo(t, l)
  PROVE  /\ pc' \in [Tasks -> {"idle", "get", "fetch", "rows", "edges", "reget",
                               "dates", "done", "error"}]
         /\ pc'[t] = l /\ answer' = answer
         /\ \A u \in Tasks \ {t} : pc'[u] = pc[u]
  BY DEF TypeOK, GoTo

\* A task that lists.
LEMMA Lists ==
  ASSUME TypeOK, NEW t \in Tasks, NEW A \in SUBSET Revs, List(t, A)
  PROVE  /\ pc' \in [Tasks -> {"idle", "get", "fetch", "rows", "edges", "reget",
                               "dates", "done", "error"}]
         /\ answer' \in [Tasks -> SUBSET Revs]
         /\ pc'[t] = "done" /\ answer'[t] = A
         /\ \A u \in Tasks \ {t} : pc'[u] = pc[u] /\ answer'[u] = answer[u]
  BY DEF TypeOK, List

\* get_history has its answer, which holds what was fetched.
LEMMA FetchedProceed ==
  ASSUME FetchedInv, NEW t \in Tasks, Proceed(t), rev[t] \in Revs,
         fetched[t] \subseteq Reachable(edges, rev[t]),
         ~purged[t] => fetched[t] \subseteq rows,
         UNCHANGED <<backend, edges, rows, view, rev, todo, batch, fetched, failed, purged>>
  PROVE  FetchedInv'
  <1>1. Cached(rev[t]) \in SUBSET Revs
    BY DEF Cached, Reachable
  <1>2. CASE view[t] = "by-hash" /\ List(t, Cached(rev[t]))
    <2>1. /\ pc'[t] = "done" /\ answer'[t] = Cached(rev[t]) /\ TypeOK' /\ Others(t)
      BY <1>1, <1>2, Lists DEF FetchedInv, TypeOK, Others, Untouched
    <2>2. RequestInv(t)'
      BY <2>1 DEF RequestInv, Cached
    <2> QED
      BY <2>1, <2>2, FetchedByOne
  <1>3. CASE view[t] = "by-date" /\ GoTo(t, "dates")
    <2>1. /\ pc'[t] = "dates" /\ answer' = answer /\ TypeOK' /\ Others(t)
      BY <1>3, GoesOn DEF FetchedInv, TypeOK, Others, Untouched
    <2>2. RequestInv(t)'
      BY <1>3, <2>1 DEF RequestInv
    <2> QED
      BY <2>1, <2>2, FetchedByOne
  <1> QED
    BY <1>2, <1>3 DEF Proceed

\* Requests that end, or end with the process.
LEMMA FetchedIdle ==
  ASSUME FetchedInv, NEW T, Idle(T), UNCHANGED <<edges, rows>>, backend' \in Backends
  PROVE  FetchedInv'
  <1>1. failed' \in [Tasks -> BOOLEAN] /\ purged' \in [Tasks -> BOOLEAN]
    BY Zenon DEF Idle
  <1>2. TypeOK'
    BY <1>1 DEF FetchedInv, TypeOK, Idle, Views
  <1>3. ASSUME NEW u \in Tasks
        PROVE  RequestInv(u)'
    <2>1. CASE u \in T
      BY <2>1 DEF Idle, RequestInv
    <2>2. CASE u \notin T
      <3>1. Untouched(u)
        BY <2>2 DEF Idle, Untouched
      <3>2. ~purged'[u] => ~purged[u]
        BY <2>2, Zenon DEF Idle
      <3> QED
        BY <3>1, <3>2, RequestKept DEF FetchedInv
    <2> QED
      BY <2>1, <2>2
  <1> QED
    BY <1>2, <1>3 DEF FetchedInv

\* A log is fetched: its edges lead to all of it.
LEMMA FetchedLog ==
  ASSUME FetchedInv, NEW t \in Tasks, FetchLog(t)
  PROVE  FetchedInv'
  <1>1. PICK F \in Log[rev[t]] :
           /\ todo' = [todo EXCEPT ![t] = F]
           /\ fetched' = [fetched EXCEPT ![t] = F]
           /\ batch' = [batch EXCEPT ![t] = LogEdges(F)]
    BY DEF FetchLog
  <1>2. rev[t] \in Revs
    BY DEF FetchLog, FetchedInv, RequestInv
  <1>3. F \in SUBSET Revs /\ F \subseteq Reachable(LogEdges(F), rev[t])
    BY <1>2 DEF Log, Ancestors, Reachable
  <1>4. LogEdges(F) \subseteq Pairs
    BY DEF LogEdges, Archived
  <1>5. /\ UNCHANGED <<backend, edges, rows, view, rev, failed, purged>> /\ GoTo(t, "rows")
    BY DEF FetchLog
  <1>6. pc'[t] = "rows" /\ TypeOK' /\ Others(t)
    <2> HIDE DEF Log
    <2> QED
      BY <1>1, <1>3, <1>4, <1>5, GoesOn DEF FetchedInv, TypeOK, Others, Untouched
  <1>7. rev' = rev /\ todo'[t] = F /\ fetched'[t] = F /\ batch'[t] = LogEdges(F)
    BY <1>1, <1>5 DEF FetchedInv, TypeOK
  <1>8. RequestInv(t)'
    BY <1>2, <1>3, <1>6, <1>7 DEF RequestInv
  <1> QED
    BY <1>6, <1>8, FetchedByOne

\* A row of the log is stored: those left are still to do.
LEMMA FetchedRow ==
  ASSUME FetchedInv, NEW t \in Tasks, StoreRow(t)
  PROVE  FetchedInv'
  <1>1. PICK x \in todo[t] :
           /\ rows' = rows \cup {x}
           /\ todo' = [todo EXCEPT ![t] = @ \ {x}]
           /\ GoTo(t, IF todo[t] = {x} THEN "edges" ELSE "rows")
    BY DEF StoreRow
  <1>2. UNCHANGED <<backend, edges, view, rev, batch, fetched, failed, purged>>
        /\ pc[t] = "rows" /\ RequestInv(t) /\ TypeOK
    BY DEF StoreRow, FetchedInv
  <1>3. PICK l \in {"edges", "rows"} : GoTo(t, l) /\ (l = "edges" => todo[t] = {x})
    BY <1>1
  <1>4. pc'[t] = l /\ todo'[t] = todo[t] \ {x} /\ TypeOK' /\ Others(t)
    BY <1>1, <1>2, <1>3, GoesOn DEF TypeOK, Others, Untouched
  <1>5. RequestInv(t)'
    BY <1>1, <1>2, <1>3, <1>4 DEF RequestInv
  <1> QED
    BY <1>4, <1>5, FetchedByOne

\* Each step of a request, with either back-end.
LEMMA FetchedStep ==
  ASSUME FetchedInv, NEW t \in Tasks, Step(t)
  PROVE  FetchedInv'
  <1>1. TypeOK /\ RequestInv(t)
    BY DEF FetchedInv
  <1>2. ASSUME NEW l \in {"fetch", "rows", "edges", "reget", "dates", "error"}, GoTo(t, l)
        PROVE  /\ pc'[t] = l /\ answer' = answer
               /\ pc' \in [Tasks -> {"idle", "get", "fetch", "rows", "edges", "reget",
                                     "dates", "done", "error"}]
               /\ \A u \in Tasks \ {t} : pc'[u] = pc[u]
    BY <1>1, <1>2, GoesOn
  <1>3. CASE Get(t)
    <2>1. UNCHANGED <<backend, edges, rows, view, rev, todo, batch, fetched, failed, purged>>
          /\ fetched[t] = {} /\ rev[t] \in Revs
      BY <1>1, <1>3 DEF Get, RequestInv
    <2>2. CASE Proceed(t)
      BY <2>1, <2>2, FetchedProceed
    <2>3. CASE GoTo(t, "fetch")
      <3>1. pc'[t] = "fetch" /\ TypeOK' /\ Others(t)
        BY <1>1, <1>2, <2>1, <2>3 DEF TypeOK, Others, Untouched
      <3>2. RequestInv(t)'
        BY <2>1, <3>1 DEF RequestInv
      <3> QED
        BY <3>1, <3>2, FetchedByOne
    <2> QED
      BY <1>3, <2>2, <2>3 DEF Get
  <1>4. CASE FetchLog(t)
    BY <1>4, FetchedLog
  <1>5. CASE FetchNothing(t)
    <2>1. UNCHANGED <<backend, edges, rows, view, rev, todo, batch, fetched, purged>>
          /\ fetched[t] = {} /\ rev[t] \in Revs /\ failed' \in [Tasks -> BOOLEAN]
      BY <1>1, <1>5 DEF FetchNothing, RequestInv, TypeOK
    <2>2. pc'[t] = "reget" /\ TypeOK' /\ Others(t)
      BY <1>1, <1>2, <1>5, <2>1 DEF FetchNothing, TypeOK, Others, Untouched
    <2>3. RequestInv(t)'
      BY <2>1, <2>2 DEF RequestInv
    <2> QED
      BY <2>2, <2>3, FetchedByOne
  <1>6. CASE FetchTraversal(t)
    <2>1. UNCHANGED <<backend, edges, rows, view, rev, todo, fetched, failed, purged>>
          /\ fetched[t] = {} /\ rev[t] \in Revs
      BY <1>1, <1>6 DEF FetchTraversal, RequestInv
    <2>2. PICK s \in Traversals(rev[t]) : batch' = [batch EXCEPT ![t] = ChainEdges(s)]
      BY <1>6 DEF FetchTraversal
    <2>3. ChainEdges(s) \subseteq Pairs
      BY <2>1, ChainsArePairs
    <2>4. pc'[t] = "edges" /\ TypeOK' /\ Others(t)
      BY <1>1, <1>2, <1>6, <2>1, <2>2, <2>3 DEF FetchTraversal, TypeOK, Others, Untouched
    <2>5. RequestInv(t)'
      BY <2>1, <2>4 DEF RequestInv
    <2> QED
      BY <2>4, <2>5, FetchedByOne
  <1>7. CASE StoreRow(t)
    BY <1>7, FetchedRow
  <1>8. CASE StoreEdges(t)
    <2>1. UNCHANGED <<backend, rows, view, rev, todo, batch, fetched, failed, purged>>
          /\ pc[t] = "edges" /\ edges' = edges \cup batch[t]
      BY <1>8 DEF StoreEdges
    <2>2. pc'[t] = "reget" /\ TypeOK' /\ Others(t)
      BY <1>1, <1>2, <1>8, <2>1 DEF StoreEdges, TypeOK, Others, Untouched
    <2>3. Reachable(batch[t], rev[t]) \subseteq Reachable(edges', rev[t])
      BY <2>1, ReachableMonotone
    <2>4. RequestInv(t)'
      BY <1>1, <2>1, <2>2, <2>3 DEF RequestInv
    <2> QED
      BY <2>2, <2>4, FetchedByOne
  <1>9. CASE Reget(t)
    BY <1>1, <1>9, FetchedProceed DEF Reget, RequestInv
  <1>10. CASE Dates(t)
    <2>1. UNCHANGED <<backend, edges, rows, view, rev, todo, batch, fetched, failed, purged>>
          /\ pc[t] = "dates" /\ List(t, Cached(rev[t]) \cap rows)
      BY <1>10 DEF Dates
    <2>2. Cached(rev[t]) \cap rows \in SUBSET Revs
      BY <1>1 DEF TypeOK
    <2>3. pc'[t] = "done" /\ answer'[t] = Cached(rev[t]) \cap rows /\ TypeOK' /\ Others(t)
      BY <1>1, <2>1, <2>2, Lists DEF TypeOK, Others, Untouched
    <2>4. RequestInv(t)'
      BY <1>1, <2>1, <2>3 DEF RequestInv, Cached
    <2> QED
      BY <2>3, <2>4, FetchedByOne
  <1>11. CASE Fail(t)
    <2>1. UNCHANGED <<backend, edges, rows, view, rev, todo, batch, fetched, failed, purged>>
          /\ pc[t] # "idle"
      BY <1>11 DEF Fail
    <2>2. pc'[t] = "error" /\ TypeOK' /\ Others(t)
      BY <1>1, <1>2, <1>11, <2>1 DEF Fail, TypeOK, Others, Untouched
    <2>3. RequestInv(t)'
      BY <1>1, <2>1, <2>2 DEF RequestInv
    <2> QED
      BY <2>2, <2>3, FetchedByOne
  <1>12. CASE Reply(t)
    BY <1>1, <1>12, FetchedIdle DEF Reply, TypeOK
  <1> QED
    BY <1>3, <1>4, <1>5, <1>6, <1>7, <1>8, <1>9, <1>10, <1>11, <1>12 DEF Step

\* Each step there is.
LEMMA FetchedKept ==
  ASSUME FetchedInv, [Next]_vars
  PROVE  FetchedInv'
  <1>1. CASE UNCHANGED vars
    BY <1>1 DEF vars, FetchedInv, RequestInv, TypeOK
  <1>2. ASSUME NEW t \in Tasks, NEW v \in Views, NEW r \in Revs, Start(t, v, r)
        PROVE  FetchedInv'
    <2>1. /\ UNCHANGED <<backend, edges, rows, todo, batch, answer, fetched, failed, purged>>
          /\ pc' = [pc EXCEPT ![t] = "get"] /\ view' = [view EXCEPT ![t] = v]
          /\ rev' = [rev EXCEPT ![t] = r] /\ fetched[t] = {}
      BY <1>2 DEF Start, FetchedInv, RequestInv
    <2>2. pc'[t] = "get" /\ rev'[t] = r /\ TypeOK' /\ Others(t)
      BY <2>1 DEF FetchedInv, TypeOK, Others, Untouched
    <2>3. RequestInv(t)'
      BY <2>1, <2>2 DEF RequestInv
    <2> QED
      BY <2>2, <2>3, FetchedByOne
  <1>3. ASSUME NEW t \in Tasks, Step(t)
        PROVE  FetchedInv'
    BY <1>3, FetchedStep
  <1>4. ASSUME NEW x \in Revs, Remember(x)
        PROVE  FetchedInv'
    BY <1>4, RequestKept DEF Remember, FetchedInv, TypeOK, Untouched
  <1>5. ASSUME NEW x \in Revs, Forget(x)
        PROVE  FetchedInv'
    <2>1. purged' \in [Tasks -> BOOLEAN]
      BY <1>5, Zenon DEF Forget
    <2>2. TypeOK' /\ \A u \in Tasks : Untouched(u) /\ edges' = edges
      BY <1>5, <2>1 DEF Forget, FetchedInv, TypeOK, Untouched
    <2>3. \A u \in Tasks : ~purged'[u] => pc[u] = "idle"
      BY <1>5, Zenon DEF Forget
    <2> QED
      BY <2>2, <2>3, RequestKept DEF FetchedInv
  <1>6. CASE Restart
    BY <1>6, FetchedIdle DEF Restart
  <1> QED
    BY <1>1, <1>2, <1>3, <1>4, <1>5, <1>6 DEF Next

\* No request has fetched anything yet.
LEMMA FetchedInit ==
  ASSUME Init
  PROVE  FetchedInv
  <1>1. failed \in [Tasks -> BOOLEAN] /\ purged \in [Tasks -> BOOLEAN]
    BY Zenon DEF Init
  <1> QED
    BY <1>1 DEF Init, FetchedInv, RequestInv, TypeOK, Views

\* With either back-end, whatever is cut, refused, purged or restarted.
THEOREM FetchedInvariance == Spec => []FetchedInv
  <1>1. Init => FetchedInv
    BY FetchedInit
  <1>2. FetchedInv /\ [Next]_vars => FetchedInv'
    BY FetchedKept
  <1> QED
    BY <1>1, <1>2, PTL DEF Spec

\* Type correctness of the histories, for any archive and limit.
THEOREM HistoryTypes == Spec => []TypeOK
  <1>1. FetchedInv => TypeOK
    BY DEF FetchedInv
  <1> QED
    BY <1>1, FetchedInvariance, PTL

\* Fuse.get_history lists what its log listed, and get_with_date_prefix too:
\* the Web API back-end stores a log's metadata before it returns the edges.
THEOREM FetchedListed == Spec => []FetchedAreListed
  <1>1. FetchedInv => FetchedAreListed
    BY DEF FetchedInv, RequestInv, FetchedAreListed
  <1> QED
    BY <1>1, FetchedInvariance, PTL

-----------------------------------------------------------------------------
(* Where no log is cut.                                                    *)

Past(r) == {r} \cup Ancestors[r]

\* What a revision's ancestor comes from, the revision comes from.
LEMMA PastOf ==
  ASSUME NEW r \in Revs, NEW s \in Past(r)
  PROVE  s \in Revs /\ Past(s) \subseteq Past(r)
  <1>1. s \in Reachable(Archived, r)
    BY DEF Past, Ancestors, Reachable
  <1>2. s \in Revs
    BY <1>1 DEF Reachable
  <1>3. Reachable(Archived, s) \subseteq Reachable(Archived, r)
    BY <1>1, <1>2 DEF Reachable
  <1> QED
    BY <1>1, <1>2, <1>3 DEF Past, Ancestors

\* The edges of all its ancestors lead to all its ancestors.
LEMMA PastReached ==
  ASSUME NEW r \in Revs
  PROVE  Past(r) \subseteq Reachable(LogEdges(Past(r)), r)
  <1> SUFFICES ASSUME NEW S \in SUBSET Revs, r \in S,
                      \A e \in LogEdges(Past(r)) : e[1] \in S => e[2] \in S
               PROVE  Past(r) \subseteq S
    BY DEF Reachable, Past, Ancestors
  <1> DEFINE T == S \cap Past(r)
  <1>1. T \in SUBSET Revs /\ r \in T
    BY DEF Past
  <1>2. ASSUME NEW e \in Archived, e[1] \in T
        PROVE  e[2] \in T
    <2>1. e \in LogEdges(Past(r))
      BY <1>2 DEF LogEdges
    <2>2. e[1] \in Reachable(Archived, r) /\ e[2] \in Revs
      BY <1>2 DEF Past, Ancestors, Reachable, Archived, Pairs
    <2>3. e[2] \in Reachable(Archived, r)
      BY <2>2 DEF Reachable
    <2>4. e[2] \in Past(r)
      BY <2>3 DEF Past, Ancestors
    <2> QED
      BY <1>2, <2>1, <2>4
  <1>3. Reachable(Archived, r) \subseteq T
    BY <1>1, <1>2 DEF Reachable
  <1> QED
    BY <1>1, <1>3 DEF Past, Ancestors

\* A log that can hold the archive holds all ancestors.
LEMMA LogIsWhole ==
  ASSUME Cardinality(Revs) <= Limit, NEW r \in Revs, NEW F \in Log[r]
  PROVE  F = Past(r)
  <1>1. /\ F \subseteq Past(r) /\ Past(r) \subseteq Revs
        /\ Cardinality(F) < Limit => F = Past(r)
    BY DEF Log, Past, Ancestors, Reachable
  <1>2. /\ Cardinality(F) <= Cardinality(Revs)
        /\ Cardinality(Revs) = Cardinality(F) => Revs = F
        /\ Cardinality(F) \in Nat /\ Cardinality(Revs) \in Nat
    BY <1>1, ArchiveAssumption, FS_Subset, FS_CardinalityType
  <1>3. CASE Cardinality(F) < Limit
    BY <1>1, <1>3
  <1>4. CASE ~(Cardinality(F) < Limit)
    <2>1. Cardinality(Revs) = Cardinality(F)
      BY <1>2, <1>4, ArchiveAssumption
    <2> QED
      BY <1>1, <1>2, <2>1
  <1> QED
    BY <1>3, <1>4

\* Edges are stored with all those further back, and a request that stored
\* them, or found one, lists all ancestors.
WholeRequest(t) ==
    /\ pc[t] \in {"rows", "edges"} => batch[t] = LogEdges(Past(rev[t]))
    /\ pc[t] = "dates" => view[t] = "by-date"
    /\ pc[t] = "reget" /\ ~failed[t] => LogEdges(Past(rev[t])) \subseteq edges
    /\ Listed(t, "by-hash") /\ ~failed[t] => answer[t] = Ancestors[rev[t]]

WholeInv ==
    /\ SoundInv
    /\ \A e \in edges : LogEdges(Past(e[1])) \subseteq edges
    /\ \A t \in Tasks : WholeRequest(t)

\* With all edges that are further back, all ancestors are listed.
LEMMA CachedWhole ==
  ASSUME SoundInv, NEW r \in Revs, LogEdges(Past(r)) \subseteq edges
  PROVE  Cached(r) = Ancestors[r]
  <1>1. Cached(r) \subseteq Ancestors[r]
    BY CachedSound
  <1>2. Past(r) \subseteq Reachable(edges, r)
    BY PastReached, ReachableMonotone
  <1> QED
    BY <1>1, <1>2 DEF Past, Cached, Ancestors

\* A history that is not empty has all of them.
LEMMA FoundWhole ==
  ASSUME WholeInv, NEW r \in Revs, Cached(r) # {}
  PROVE  LogEdges(Past(r)) \subseteq edges
  <1>1. PICK e \in edges : e[1] = r
    <2> SUFFICES ASSUME \A e \in edges : e[1] # r PROVE FALSE
      OBVIOUS
    <2>1. {r} \in SUBSET Revs /\ \A e \in edges : e[1] \in {r} => e[2] \in {r}
      OBVIOUS
    <2>2. Reachable(edges, r) \subseteq {r}
      BY <2>1 DEF Reachable
    <2> QED
      BY <2>2 DEF Cached
  <1> QED
    BY <1>1 DEF WholeInv

\* A request that nothing stops, over more edges.
LEMMA WholeKept ==
  ASSUME NEW u \in Tasks, WholeRequest(u), Untouched(u), edges \subseteq edges',
         pc[u] # "idle" /\ ~failed'[u] => ~failed[u]
  PROVE  WholeRequest(u)'
  BY DEF WholeRequest, Untouched, Listed

\* A step of one task that stores no edge.
LEMMA WholeByOne ==
  ASSUME WholeInv, SoundInv', NEW t \in Tasks, edges' = edges, WholeRequest(t)',
         \A u \in Tasks \ {t} : Untouched(u) /\ (~failed'[u] => ~failed[u])
  PROVE  WholeInv'
  BY WholeKept DEF WholeInv

\* What follows get_history.
LEMMA WholeProceed ==
  ASSUME WholeInv, SoundInv', NEW t \in Tasks, Proceed(t), pc[t] # "idle",
         ~failed[t] => LogEdges(Past(rev[t])) \subseteq edges,
         UNCHANGED <<backend, edges, rows, view, rev, todo, batch, fetched, failed, purged>>
  PROVE  WholeInv'
  <1>1. rev[t] \in Revs /\ SoundInv /\ TypeOK
    BY DEF WholeInv, SoundInv
  <1>2. CASE List(t, Cached(rev[t]))
    <2>1. /\ pc'[t] = "done" /\ answer'[t] = Cached(rev[t])
          /\ \A u \in Tasks \ {t} : Untouched(u)
      BY <1>1, <1>2 DEF TypeOK, List, Untouched
    <2>2. ~failed[t] => Cached(rev[t]) = Ancestors[rev[t]]
      BY <1>1, CachedWhole
    <2>3. WholeRequest(t)'
      BY <2>1, <2>2 DEF WholeRequest
    <2> QED
      BY <2>1, <2>3, WholeByOne
  <1>3. CASE view[t] = "by-date" /\ GoTo(t, "dates")
    <2>1. pc'[t] = "dates" /\ view'[t] = "by-date" /\ \A u \in Tasks \ {t} : Untouched(u)
      BY <1>1, <1>3 DEF TypeOK, GoTo, Untouched
    <2>2. WholeRequest(t)'
      BY <2>1 DEF WholeRequest, Listed
    <2> QED
      BY <2>1, <2>2, WholeByOne
  <1> QED
    BY <1>2, <1>3 DEF Proceed

\* Requests that end, or end with the process.
LEMMA WholeIdle ==
  ASSUME WholeInv, SoundInv', NEW T, Idle(T), edges' = edges
  PROVE  WholeInv'
  <1>1. ASSUME NEW u \in Tasks
        PROVE  WholeRequest(u)'
    <2>1. CASE u \in T
      BY <2>1 DEF Idle, WholeRequest, Listed
    <2>2. CASE u \notin T
      <3>1. Untouched(u)
        BY <2>2 DEF Idle, Untouched
      <3>2. ~failed'[u] => ~failed[u]
        BY <2>2, Zenon DEF Idle
      <3> QED
        BY <3>1, <3>2, WholeKept DEF WholeInv
    <2> QED
      BY <2>1, <2>2
  <1> QED
    BY <1>1 DEF WholeInv

\* Each step of a request.
LEMMA WholeStep ==
  ASSUME Backends = {"web"}, Cardinality(Revs) <= Limit, WholeInv, SoundInv',
         NEW t \in Tasks, Step(t)
  PROVE  WholeInv'
  <1>1. SoundInv /\ TypeOK /\ WholeRequest(t)
    BY DEF WholeInv, SoundInv
  <1>2. ASSUME NEW l \in {"fetch", "rows", "edges", "reget", "dates", "error"}, GoTo(t, l),
               UNCHANGED <<view, rev>>
        PROVE  /\ pc'[t] = l /\ answer' = answer /\ rev'[t] = rev[t]
               /\ \A u \in Tasks \ {t} : pc'[u] = pc[u]
    BY <1>1, <1>2, GoesOn
  <1>3. CASE Get(t)
    <2>1. UNCHANGED <<backend, edges, rows, view, rev, todo, batch, fetched, failed, purged>>
          /\ pc[t] = "get" /\ rev[t] \in Revs
      BY <1>1, <1>3 DEF Get, SoundInv
    <2>2. CASE Cached(rev[t]) # {} /\ Proceed(t)
      BY <2>1, <2>2, FoundWhole, WholeProceed
    <2>3. CASE GoTo(t, "fetch")
      BY <1>2, <2>1, <2>3, WholeByOne DEF Untouched, WholeRequest, Listed
    <2> QED
      BY <1>3, <2>2, <2>3 DEF Get
  <1>4. CASE FetchLog(t)
    <2>1. PICK F \in Log[rev[t]] :
             /\ todo' = [todo EXCEPT ![t] = F]
             /\ fetched' = [fetched EXCEPT ![t] = F]
             /\ batch' = [batch EXCEPT ![t] = LogEdges(F)]
      BY <1>4 DEF FetchLog
    <2>2. UNCHANGED <<edges, view, rev, failed>> /\ GoTo(t, "rows")
          /\ pc[t] = "fetch" /\ rev[t] \in Revs
      BY <1>1, <1>4 DEF FetchLog, SoundInv
    <2>3. F = Past(rev[t])
      BY <2>2, LogIsWhole
    <2>4. batch'[t] = LogEdges(Past(rev'[t])) /\ pc'[t] = "rows"
      BY <1>1, <1>2, <2>1, <2>2, <2>3 DEF TypeOK
    <2>5. \A u \in Tasks \ {t} : Untouched(u)
      BY <1>1, <1>2, <2>1, <2>2 DEF TypeOK, Untouched
    <2>6. WholeRequest(t)'
      BY <2>4 DEF WholeRequest, Listed
    <2> QED
      BY <2>2, <2>5, <2>6, WholeByOne
  <1>5. CASE FetchNothing(t)
    <2>1. UNCHANGED <<edges, view, rev, todo, batch, fetched>> /\ GoTo(t, "reget")
          /\ failed' = [failed EXCEPT ![t] = TRUE]
      BY <1>5 DEF FetchNothing
    <2>2. failed'[t] = TRUE /\ \A u \in Tasks \ {t} : failed'[u] = failed[u]
      BY <1>1, <2>1 DEF TypeOK
    <2>3. WholeRequest(t)'
      BY <1>2, <2>1, <2>2 DEF WholeRequest, Listed
    <2> QED
      BY <1>2, <2>1, <2>2, <2>3, WholeByOne DEF Untouched
  <1>6. CASE FetchTraversal(t)
    BY <1>1, <1>6 DEF FetchTraversal, TypeOK
  <1>7. CASE StoreRow(t)
    <2>1. PICK x \in todo[t] :
             /\ todo' = [todo EXCEPT ![t] = @ \ {x}]
             /\ GoTo(t, IF todo[t] = {x} THEN "edges" ELSE "rows")
      BY <1>7 DEF StoreRow
    <2>2. UNCHANGED <<edges, view, rev, batch, fetched, failed>> /\ pc[t] = "rows"
      BY <1>7 DEF StoreRow
    <2>3. PICK l \in {"edges", "rows"} : GoTo(t, l)
      BY <2>1
    <2>4. pc'[t] = l /\ \A u \in Tasks \ {t} : Untouched(u)
      BY <1>1, <1>2, <2>1, <2>2, <2>3 DEF TypeOK, Untouched
    <2>5. WholeRequest(t)'
      BY <1>1, <2>2, <2>4 DEF WholeRequest, Listed
    <2> QED
      BY <2>2, <2>4, <2>5, WholeByOne
  <1>8. CASE StoreEdges(t)
    <2>1. UNCHANGED <<view, rev, todo, batch, fetched, failed>> /\ pc[t] = "edges"
          /\ edges' = edges \cup batch[t] /\ GoTo(t, "reget") /\ rev[t] \in Revs
      BY <1>1, <1>8 DEF StoreEdges, SoundInv
    <2>2. batch[t] = LogEdges(Past(rev[t]))
      BY <1>1, <2>1 DEF WholeRequest
    <2>3. pc'[t] = "reget" /\ \A u \in Tasks \ {t} : Untouched(u)
      BY <1>2, <2>1 DEF Untouched
    <2>4. ASSUME NEW e \in edges'
          PROVE  LogEdges(Past(e[1])) \subseteq edges'
      <3>1. CASE e \in edges
        BY <2>1, <3>1 DEF WholeInv
      <3>2. CASE e \in batch[t]
        <4>1. e[1] \in Past(rev[t])
          BY <2>2, <3>2 DEF LogEdges
        <4>2. Past(e[1]) \subseteq Past(rev[t])
          BY <2>1, <4>1, PastOf
        <4> QED
          BY <2>1, <2>2, <4>2 DEF LogEdges
      <3> QED
        BY <2>1, <3>1, <3>2
    <2>5. WholeRequest(t)'
      BY <2>1, <2>2, <2>3 DEF WholeRequest, Listed
    <2>6. \A u \in Tasks : WholeRequest(u)'
      BY <2>1, <2>3, <2>5, WholeKept DEF WholeInv
    <2> QED
      BY <2>4, <2>6 DEF WholeInv
  <1>9. CASE Reget(t)
    <2>1. UNCHANGED <<backend, edges, rows, view, rev, todo, batch, fetched, failed, purged>>
          /\ pc[t] = "reget" /\ Proceed(t)
      BY <1>9 DEF Reget
    <2> QED
      BY <1>1, <2>1, WholeProceed DEF WholeRequest
  <1>10. CASE Dates(t)
    <2>1. UNCHANGED <<edges, view, rev, todo, batch, fetched, failed>>
          /\ List(t, Cached(rev[t]) \cap rows)
      BY <1>10 DEF Dates
    <2>2. view[t] = "by-date"
      BY <1>1, <1>10 DEF Dates, WholeRequest
    <2>3. pc'[t] = "done" /\ \A u \in Tasks \ {t} : Untouched(u)
      BY <1>1, <2>1 DEF List, TypeOK, Untouched
    <2>4. WholeRequest(t)'
      BY <2>1, <2>2, <2>3 DEF WholeRequest, Listed
    <2> QED
      BY <2>1, <2>3, <2>4, WholeByOne
  <1>11. CASE Fail(t)
    <2>1. UNCHANGED <<edges, view, rev, todo, batch, fetched, failed>> /\ GoTo(t, "error")
      BY <1>11 DEF Fail
    <2> QED
      BY <1>2, <2>1, WholeByOne DEF Untouched, WholeRequest, Listed
  <1>12. CASE Reply(t)
    BY <1>12, WholeIdle DEF Reply
  <1> QED
    BY <1>3, <1>4, <1>5, <1>6, <1>7, <1>8, <1>9, <1>10, <1>11, <1>12 DEF Step

\* Each step there is.
LEMMA WholeNext ==
  ASSUME Backends = {"web"}, Cardinality(Revs) <= Limit, WholeInv, [Next]_vars
  PROVE  WholeInv'
  <1>1. SoundInv /\ SoundInv'
    BY SoundKept DEF WholeInv
  <1>2. CASE UNCHANGED vars
    BY <1>1, <1>2 DEF vars, WholeInv, WholeRequest, Listed
  <1>3. ASSUME NEW t \in Tasks, NEW v \in Views, NEW r \in Revs, Start(t, v, r)
        PROVE  WholeInv'
    <2>1. UNCHANGED <<edges, todo, batch, answer, fetched, failed>> /\ pc'[t] = "get"
      BY <1>1, <1>3 DEF Start, SoundInv, TypeOK
    <2>2. \A u \in Tasks \ {t} : Untouched(u)
      BY <1>1, <1>3 DEF Start, SoundInv, TypeOK, Untouched
    <2>3. WholeRequest(t)'
      BY <2>1 DEF WholeRequest, Listed
    <2> QED
      BY <1>1, <2>1, <2>2, <2>3, WholeByOne
  <1>4. ASSUME NEW t \in Tasks, Step(t)
        PROVE  WholeInv'
    BY <1>1, <1>4, WholeStep
  <1>5. ASSUME NEW x \in Revs, Remember(x) \/ Forget(x)
        PROVE  WholeInv'
    <2>1. UNCHANGED <<edges, pc, view, rev, todo, batch, answer, fetched, failed>>
      BY <1>5 DEF Remember, Forget
    <2> QED
      BY <1>1, <2>1, WholeKept DEF WholeInv, Untouched
  <1>6. CASE Restart
    BY <1>1, <1>6, WholeIdle DEF Restart
  <1> QED
    BY <1>2, <1>3, <1>4, <1>5, <1>6 DEF Next

\* Over the Web API, whose logs are cut nowhere: a history lists all ancestors,
\* or nothing after a failed call.  HistoryCache.get finds an edge only where
\* HistoryCache.set has stored all that is further back.
THEOREM WebHistoryWhole ==
  ASSUME Backends = {"web"}, Cardinality(Revs) <= Limit
  PROVE  Spec => []HistoryIsWhole
  <1>1. Init => WholeInv
    BY SoundInit DEF Init, WholeInv, WholeRequest, Listed
  <1>2. WholeInv /\ [Next]_vars => WholeInv'
    BY WholeNext
  <1>3. WholeInv => HistoryIsWhole
    BY DEF WholeInv, WholeRequest, HistoryIsWhole
  <1> QED
    BY <1>1, <1>2, <1>3, PTL DEF Spec

-----------------------------------------------------------------------------
(* The visits of the recursive query.                                      *)

\* ByName lists each revision once.
LEMMA Names ==
  /\ ByName \in Seq(Revs)
  /\ \A i, j \in 1 .. Len(ByName) : ByName[i] = ByName[j] => i = j
  /\ \A x \in Revs : \E i \in 1 .. Len(ByName) : x = ByName[i]
  <1>1. ByName \in Seq(Revs) /\ IsInjective(ByName) /\ ToSet(ByName) = Revs
    BY OrderAssumption
  <1>2. DOMAIN ByName = 1 .. Len(ByName)
    BY <1>1
  <1> QED
    BY <1>1, <1>2, Places DEF IsInjective

\* What a visit adds.
Found(E, q, n) == Selected(ByName, Successors(E, q[n]) \ ToSet(q))

LEMMA FoundItems ==
  ASSUME NEW E \in SUBSET Pairs, NEW q, NEW n
  PROVE  /\ Found(E, q, n) \in Seq(Revs)
         /\ ToSet(Found(E, q, n)) = Successors(E, q[n]) \ ToSet(q)
         /\ \A i, j \in 1 .. Len(Found(E, q, n)) :
               Found(E, q, n)[i] = Found(E, q, n)[j] => i = j
  <1>1. PICK R : R = Successors(E, q[n]) \ ToSet(q)
    OBVIOUS
  <1>2. R \subseteq Revs
    BY <1>1 DEF Successors, Pairs
  <1>3. PICK s : s = Selected(ByName, R)
    OBVIOUS
  <1>4. s \in Seq(Revs)
    BY <1>3, Names, SelectedType
  <1>5. /\ \A k \in 1 .. Len(s) : s[k] \in R
        /\ \A i \in 1 .. Len(ByName) :
              ByName[i] \in R => \E k \in 1 .. Len(s) : s[k] = ByName[i]
    <2>1. ByName \in Seq(Revs)
      BY Names
    <2>2. /\ \A k \in 1 .. Len(Selected(ByName, R)) :
                Selected(ByName, R)[k] \in R
                /\ \E i \in 1 .. Len(ByName) : Selected(ByName, R)[k] = ByName[i]
          /\ \A i \in 1 .. Len(ByName) :
                ByName[i] \in R =>
                    \E k \in 1 .. Len(Selected(ByName, R)) : Selected(ByName, R)[k] = ByName[i]
      BY ONLY <2>1, SelectedItems
    <2> QED
      BY ONLY <1>3, <2>2
  <1>6. \A i, j \in 1 .. Len(s) : s[i] = s[j] => i = j
    BY <1>3, Names, SelectedOnce, SMTT(30)
  <1>7. ToSet(s) \subseteq R
    BY <1>4, <1>5, Places
  <1>8. ASSUME NEW x \in R
        PROVE  x \in ToSet(s)
    <2>1. PICK i \in 1 .. Len(ByName) : x = ByName[i]
      BY <1>2, Names
    <2>2. PICK k \in 1 .. Len(s) : s[k] = x
      BY <1>5, <2>1
    <2> QED
      BY <1>4, <2>2, Places
  <1> QED
    BY <1>1, <1>3, <1>4, <1>6, <1>7, <1>8 DEF Found

\* A visit of a row that is there, and of one that is not.
LEMMA Visited ==
  ASSUME NEW E \in SUBSET Pairs, NEW q \in Seq(Revs), NEW n \in Nat
  PROVE  /\ Visit(E, q, n) \in Seq(Revs)
         /\ n > Len(q) => Visit(E, q, n) = q
         /\ n <= Len(q) => Joined(q, Found(E, q, n), Visit(E, q, n))
  <1>1. CASE n > Len(q)
    BY <1>1 DEF Visit
  <1>2. CASE n <= Len(q)
    <2>1. PICK t \in Seq(Revs) : t = Found(E, q, n)
      BY FoundItems
    <2>2. PICK all \in Seq(Revs) : Joined(q, t, all)
      BY Join
    <2>3. Visit(E, q, n) = q \o t
      BY <1>2, <2>1 DEF Visit, Found
    <2>4. Visit(E, q, n) = all
      BY <2>2, <2>3 DEF Joined
    <2> QED
      BY <1>2, <2>1, <2>2, <2>4
  <1> QED
    BY <1>1, <1>2

\* Queues' recursion has a value: what each visit makes of the queue.
LEMMA QueuesStep ==
  ASSUME NEW E \in SUBSET Pairs, NEW r \in Revs
  PROVE  /\ Queues(E, r) \in [0 .. Cardinality(Revs) -> Seq(Revs)]
         /\ Queues(E, r)[0] = <<r>>
         /\ \A n \in 1 .. Cardinality(Revs) :
               Queues(E, r)[n] = Visit(E, Queues(E, r)[n - 1], n)
  <1> DEFINE N == Cardinality(Revs)
             Item(f, n) == IF n = 0 THEN <<r>> ELSE Visit(E, f[n - 1], n)
             step == [p \in Seq(Revs) \X (1 .. N) |-> Visit(E, p[1], p[2])]
  <1>1. N \in Nat /\ <<r>> \in Seq(Revs)
    BY ArchiveAssumption, FS_CardinalityType
  <1> HIDE DEF N
  <1>2. step \in [Seq(Revs) \X (1 .. N) -> Seq(Revs)]
    <2>1. ASSUME NEW p \in Seq(Revs) \X (1 .. N)
          PROVE  Visit(E, p[1], p[2]) \in Seq(Revs)
      <3>1. p[1] \in Seq(Revs) /\ p[2] \in Nat
        BY <1>1
      <3> QED
        BY <3>1, Visited
    <2> QED
      BY <2>1
  <1>3. \A p \in Seq(Revs) \X (1 .. N) : step[p] = Visit(E, p[1], p[2])
    OBVIOUS
  <1> HIDE DEF step
  <1>4. PICK f \in [0 .. N -> Seq(Revs)] :
            f[0] = <<r>> /\ \A n \in 1 .. N : f[n] = step[<<f[n - 1], n>>]
    <2>1. PICK V, b : V = Seq(Revs) /\ b = <<r>>
      OBVIOUS
    <2>2. b \in V /\ step \in [V \X (1 .. N) -> V]
      BY <1>1, <1>2, <2>1
    <2>3. \E f \in [0 .. N -> V] : Follows(f, b, step, N)
      BY <1>1, <2>2, Recursion
    <2> QED
      BY <2>1, <2>3 DEF Follows
  <1>5. \A n \in 1 .. N : f[n - 1] \in Seq(Revs) /\ <<f[n - 1], n>> \in Seq(Revs) \X (1 .. N)
    BY <1>1, <1>4
  <1>6. \A n \in 0 .. N : f[n] = Item(f, n)
    <2>1. \A n \in 1 .. N : step[<<f[n - 1], n>>] = Item(f, n)
      BY <1>1, <1>3, <1>5
    <2>2. \A n \in 0 .. N : n = 0 \/ n \in 1 .. N
      BY <1>1
    <2> QED
      BY <1>4, <2>1, <2>2
  <1>7. f = [n \in 0 .. N |-> Item(f, n)]
    BY <1>6
  <1> DEFINE after == CHOOSE g : g = [n \in 0 .. N |-> Item(g, n)]
  <1>8. after = [n \in 0 .. N |-> Item(after, n)]
    BY <1>7
  <1>9. after = Queues(E, r)
    BY DEF Queues, N
  <1> HIDE DEF after
  <1>10. after[0] = <<r>> /\ \A n \in 1 .. N : after[n] = Visit(E, after[n - 1], n)
    <2>1. 0 \in 0 .. N /\ \A n \in 1 .. N : n \in 0 .. N /\ n # 0
      BY <1>1
    <2>2. \A n \in 0 .. N : after[n] = Item(after, n)
      BY <1>8
    <2> QED
      BY <2>1, <2>2
  <1>11. \A n \in 0 .. N : after[n] \in Seq(Revs)
    <2> DEFINE Good == {n \in 0 .. N : after[n] \in Seq(Revs)}
    <2>1. Good \subseteq Nat /\ 0 \in Good
      <3>1. 0 \in 0 .. N /\ after[0] \in Seq(Revs)
        BY <1>1, <1>10
      <3> QED
        BY <3>1
    <2>2. ASSUME NEW n \in 0 .. N - 1, n \in Good
          PROVE  n + 1 \in Good
      <3>1. n + 1 \in 1 .. N /\ n + 1 \in 0 .. N /\ n + 1 - 1 = n /\ n + 1 \in Nat
        BY <1>1
      <3>2. after[n + 1] = Visit(E, after[n], n + 1)
        <4>1. PICK m \in 1 .. N : m = n + 1 /\ m - 1 = n
          BY ONLY <3>1
        <4>2. after[m] = Visit(E, after[m - 1], m)
          BY ONLY <1>10, m \in 1 .. N
        <4> QED
          BY ONLY <4>1, <4>2
      <3>3. after[n] \in Seq(Revs)
        BY <2>2
      <3> QED
        BY <3>1, <3>2, <3>3, Visited
    <2>3. 0 .. N \subseteq Good
      <3> HIDE DEF Good
      <3> QED
        BY <1>1, <2>1, <2>2, SetInduction
    <2> QED
      BY <2>3
  <1>12. after \in [0 .. N -> Seq(Revs)]
    BY <1>8, <1>11
  <1> QED
    BY <1>9, <1>10, <1>12 DEF N

-----------------------------------------------------------------------------
(* The query and the closure.                                              *)

\* After n visits: the queue starts with the root, has each revision once, all
\* reachable, and the successors of the rows taken.
QueueInv(E, r, q, n) ==
    /\ q \in Seq(Revs) /\ Len(q) >= 1 /\ q[1] = r
    /\ \A i, j \in 1 .. Len(q) : q[i] = q[j] => i = j
    /\ ToSet(q) \subseteq Reachable(E, r)
    /\ \A i \in 1 .. Len(q) : i <= n => Successors(E, q[i]) \subseteq ToSet(q)

\* The successors of what is reachable are reachable.
LEMMA ReachableNext ==
  ASSUME NEW E \in SUBSET Pairs, NEW r, NEW s \in Reachable(E, r)
  PROVE  Successors(E, s) \subseteq Reachable(E, r)
  BY DEF Reachable, Successors, Pairs

\* A visit keeps it.
LEMMA VisitKeeps ==
  ASSUME NEW E \in SUBSET Pairs, NEW r \in Revs, NEW q, NEW n \in Nat, QueueInv(E, r, q, n)
  PROVE  QueueInv(E, r, Visit(E, q, n + 1), n + 1)
  <1>1. PICK m \in Nat : m = Len(q) /\ m >= 1
    BY DEF QueueInv
  <1>2. /\ q \in Seq(Revs) /\ q[1] = r
        /\ \A i, j \in 1 .. m : q[i] = q[j] => i = j
        /\ ToSet(q) \subseteq Reachable(E, r)
        /\ \A i \in 1 .. m : i <= n => Successors(E, q[i]) \subseteq ToSet(q)
    BY <1>1 DEF QueueInv
  <1>3. CASE n + 1 > m
    <2>1. Visit(E, q, n + 1) = q
      BY <1>1, <1>2, <1>3, Visited
    <2>2. \A i \in 1 .. m : i <= n
      BY <1>1, <1>3
    <2> QED
      BY <1>1, <1>2, <2>1, <2>2 DEF QueueInv
  <1>4. CASE n + 1 <= m
    <2>1. PICK t \in Seq(Revs), b \in Nat : t = Found(E, q, n + 1) /\ b = Len(t)
      <3>1. PICK t \in Seq(Revs) : t = Found(E, q, n + 1)
        BY FoundItems
      <3>2. Len(t) \in Nat
        BY <3>1
      <3> QED
        BY <3>1, <3>2
    <2>2. /\ ToSet(t) = Successors(E, q[n + 1]) \ ToSet(q)
          /\ \A i, j \in 1 .. b : t[i] = t[j] => i = j
      BY <2>1, FoundItems
    <2>3. PICK all \in Seq(Revs) : all = Visit(E, q, n + 1) /\ Joined(q, t, all)
      BY <1>1, <1>2, <1>4, <2>1, Visited
    <2>4. /\ Len(all) = m + b
          /\ \A k \in 1 .. m : all[k] = q[k]
          /\ \A k \in 1 .. b : all[m + k] = t[k]
          /\ \A k \in 1 .. m + b : k \in 1 .. m \/ \E j \in 1 .. b : k = m + j
          /\ ToSet(all) = ToSet(q) \cup ToSet(t)
      BY <1>1, <2>1, <2>3 DEF Joined
    <2>5. n + 1 \in 1 .. m /\ 1 \in 1 .. m
      BY <1>1, <1>4
    <2>6. Len(all) >= 1 /\ all[1] = r
      BY <1>1, <1>2, <2>1, <2>4, <2>5
    <2>7. ASSUME NEW i \in 1 .. m + b, NEW j \in 1 .. m + b, all[i] = all[j]
          PROVE  i = j
      <3>1. ASSUME NEW k \in 1 .. m, NEW l \in 1 .. b
            PROVE  q[k] # t[l]
        <4>1. q[k] \in ToSet(q) /\ t[l] \in ToSet(t)
          BY <1>1, <1>2, <2>1, Places
        <4> QED
          BY <2>2, <4>1
      <3>2. CASE i \in 1 .. m /\ j \in 1 .. m
        BY ONLY <1>2, <2>4, <2>7, <3>2
      <3>3. CASE i \in 1 .. m /\ \E l \in 1 .. b : j = m + l
        BY ONLY <2>4, <2>7, <3>1, <3>3
      <3>4. CASE j \in 1 .. m /\ \E l \in 1 .. b : i = m + l
        BY ONLY <2>4, <2>7, <3>1, <3>4
      <3>5. CASE (\E l \in 1 .. b : i = m + l) /\ (\E l \in 1 .. b : j = m + l)
        <4>1. PICK k \in 1 .. b, l \in 1 .. b : i = m + k /\ j = m + l
          BY ONLY <3>5
        <4>2. t[k] = t[l]
          BY ONLY <2>4, <2>7, <4>1
        <4> QED
          BY ONLY <2>2, <4>1, <4>2
      <3> QED
        BY ONLY <2>4, <2>7, <3>2, <3>3, <3>4, <3>5
    <2>8. q[n + 1] \in Reachable(E, r)
      BY <1>1, <1>2, <2>5, Places
    <2>9. ToSet(all) \subseteq Reachable(E, r)
      BY <1>2, <2>2, <2>4, <2>8, ReachableNext
    <2>10. ASSUME NEW i \in 1 .. m + b, i <= n + 1
           PROVE  Successors(E, all[i]) \subseteq ToSet(all)
      <3>1. i \in 1 .. m /\ all[i] = q[i]
        BY <1>1, <1>4, <2>1, <2>4, <2>10
      <3>2. CASE i <= n
        BY <1>2, <2>4, <3>1, <3>2
      <3>3. CASE i = n + 1
        BY <2>2, <2>4, <3>1, <3>3
      <3> QED
        BY <1>1, <2>10, <3>2, <3>3
    <2> QED
      BY <2>3, <2>4, <2>6, <2>7, <2>9, <2>10 DEF QueueInv
  <1> QED
    BY <1>1, <1>3, <1>4

\* So it holds after each of them.
LEMMA QueuesKeep ==
  ASSUME NEW E \in SUBSET Pairs, NEW r \in Revs
  PROVE  \A n \in 0 .. Cardinality(Revs) : QueueInv(E, r, Queues(E, r)[n], n)
  <1>1. PICK N \in Nat : N = Cardinality(Revs)
    BY ArchiveAssumption, FS_CardinalityType
  <1>2. PICK after : after = Queues(E, r)
    OBVIOUS
  <1>3. /\ after[0] = <<r>>
        /\ \A n \in 1 .. N : after[n] = Visit(E, after[n - 1], n)
    BY <1>1, <1>2, QueuesStep
  <1> DEFINE Good == {n \in 0 .. N : QueueInv(E, r, after[n], n)}
  <1>4. Good \subseteq Nat /\ 0 \in Good
    <2>1. PICK q : q = <<r>> /\ q \in Seq(Revs)
      <3>1. <<r>> \in Seq(Revs)
        OBVIOUS
      <3> QED
        BY <3>1
    <2>2. q \in Seq(Revs) /\ Len(q) = 1 /\ q[1] = r
      BY <2>1
    <2>3. \A x \in ToSet(q) : x = r
      BY <2>2, Places
    <2>4. r \in Reachable(E, r)
      BY DEF Reachable
    <2>5. QueueInv(E, r, q, 0)
      BY <2>2, <2>3, <2>4 DEF QueueInv
    <2>6. 0 \in 0 .. N
      BY <1>1
    <2> QED
      BY <1>3, <2>1, <2>5, <2>6
  <1>5. ASSUME NEW n \in 0 .. N - 1, n \in Good
        PROVE  n + 1 \in Good
    <2>1. n \in Nat /\ n + 1 \in 1 .. N /\ n + 1 \in 0 .. N /\ n + 1 - 1 = n
      BY <1>1
    <2>2. QueueInv(E, r, after[n], n)
      BY <1>5
    <2>3. after[n + 1] = Visit(E, after[n], n + 1)
      <3>1. PICK m \in 1 .. N : m = n + 1 /\ m - 1 = n
        BY ONLY <2>1
      <3>2. after[m] = Visit(E, after[m - 1], m)
        BY ONLY <1>3, m \in 1 .. N
      <3> QED
        BY ONLY <3>1, <3>2
    <2>4. QueueInv(E, r, after[n + 1], n + 1)
      BY <2>1, <2>2, <2>3, VisitKeeps
    <2> QED
      BY <2>1, <2>4
  <1>6. 0 .. N \subseteq Good
    <2> HIDE DEF Good
    <2> QED
      BY <1>1, <1>4, <1>5, SetInduction
  <1> QED
    BY <1>1, <1>2, <1>6

\* A sequence without repetitions is not longer than its items are many.
LEMMA NotLonger ==
  ASSUME NEW q \in Seq(Revs), \A i, j \in 1 .. Len(q) : q[i] = q[j] => i = j
  PROVE  Len(q) <= Cardinality(Revs)
  <1>1. PICK m \in Nat : m = Len(q)
    OBVIOUS
  <1>2. q \in [1 .. m -> Revs] /\ DOMAIN q = 1 .. m
    BY <1>1
  <1>3. q \in Injection(1 .. m, Revs)
    BY <1>1, <1>2 DEF Injection, IsInjective
  <1>4. IsFiniteSet(Revs) /\ Cardinality(1 .. m) <= Cardinality(Revs)
    BY <1>3, ArchiveAssumption, FS_Injection
  <1>5. Cardinality(1 .. m) = m
    <2>1. 1 \in Int /\ m \in Int
      BY <1>1
    <2>2. Cardinality(1 .. m) = IF 1 > m THEN 0 ELSE m - 1 + 1
      BY ONLY <2>1, FS_Interval
    <2> QED
      BY <1>1, <2>2
  <1> QED
    BY <1>1, <1>4, <1>5

\* All rows have been taken at the end, and the queue is closed.
LEMMA QueueWhole ==
  ASSUME NEW E \in SUBSET Pairs, NEW r \in Revs, NEW q, QueueInv(E, r, q, Cardinality(Revs))
  PROVE  ToSet(q) = Reachable(E, r)
  <1>1. /\ q \in Seq(Revs) /\ Len(q) >= 1 /\ q[1] = r
        /\ ToSet(q) \subseteq Reachable(E, r)
        /\ \A i \in 1 .. Len(q) : i <= Cardinality(Revs) => Successors(E, q[i]) \subseteq ToSet(q)
    BY DEF QueueInv
  <1>2. Len(q) <= Cardinality(Revs) /\ Cardinality(Revs) \in Nat /\ Len(q) \in Nat
    BY <1>1, NotLonger, ArchiveAssumption, FS_CardinalityType DEF QueueInv
  <1>3. \A i \in 1 .. Len(q) : Successors(E, q[i]) \subseteq ToSet(q)
    BY <1>1, <1>2
  <1>4. PICK S : S = ToSet(q)
    OBVIOUS
  <1>5. r \in S /\ S \subseteq Revs
    <2>1. 1 \in 1 .. Len(q)
      BY <1>1, <1>2
    <2> QED
      BY <1>1, <1>4, <2>1, Places DEF Reachable
  <1>6. ASSUME NEW e \in E, e[1] \in S
        PROVE  e[2] \in S
    <2>1. PICK i \in 1 .. Len(q) : e[1] = q[i]
      BY <1>1, <1>4, <1>6, Places
    <2>2. e[2] \in Successors(E, q[i])
      BY <2>1 DEF Successors
    <2> QED
      BY <1>3, <1>4, <2>2
  <1>7. Reachable(E, r) \subseteq S
    BY <1>5, <1>6 DEF Reachable
  <1> QED
    BY <1>1, <1>4, <1>7

\* The query returns all that the edges lead to but the root, each once.
LEMMA QueryIsReachable ==
  ASSUME NEW E \in SUBSET Pairs, NEW r \in Revs
  PROVE  /\ QueryOver(E, r) \in Seq(Revs)
         /\ ToSet(QueryOver(E, r)) = Reachable(E, r) \ {r}
         /\ \A i, j \in 1 .. Len(QueryOver(E, r)) :
               QueryOver(E, r)[i] = QueryOver(E, r)[j] => i = j
         /\ Len(QueryOver(E, r)) + 1 <= Cardinality(Revs)
  <1>1. PICK N \in Nat : N = Cardinality(Revs)
    BY ArchiveAssumption, FS_CardinalityType
  <1>2. PICK q : q = Queues(E, r)[N]
    OBVIOUS
  <1>3. QueueInv(E, r, q, N)
    BY <1>1, <1>2, QueuesKeep
  <1>4. ToSet(q) = Reachable(E, r)
    BY <1>1, <1>3, QueueWhole
  <1>5. /\ q \in Seq(Revs) /\ Len(q) >= 1 /\ q[1] = r
        /\ \A i, j \in 1 .. Len(q) : q[i] = q[j] => i = j
    BY <1>3 DEF QueueInv
  <1>6. PICK m \in Nat : Len(q) = m + 1
    <2>1. Len(q) \in Nat /\ Len(q) - 1 \in Nat /\ Len(q) = (Len(q) - 1) + 1
      BY <1>5
    <2> QED
      BY <2>1
  <1>7. PICK s : s = Tail(q)
    OBVIOUS
  <1>8. s \in Seq(Revs) /\ Len(s) = m /\ \A i \in 1 .. m : s[i] = q[i + 1]
    BY <1>5, <1>6, <1>7
  <1>9. \A i, j \in 1 .. m : s[i] = s[j] => i = j
    <2>1. \A i \in 1 .. m : i + 1 \in 1 .. m + 1
      BY <1>6
    <2>2. \A i, j \in 1 .. m : q[i + 1] = q[j + 1] => i + 1 = j + 1
      BY <1>5, <1>6, <2>1
    <2> QED
      BY <1>8, <2>2, SMTT(30)
  <1>10. ASSUME NEW x \in ToSet(s)
         PROVE  x \in ToSet(q) \ {r}
    <2>1. PICK i \in 1 .. m : x = s[i]
      BY <1>8, Places
    <2>2. i + 1 \in 1 .. m + 1 /\ 1 \in 1 .. m + 1 /\ i + 1 # 1
      BY <1>6
    <2>3. x = q[i + 1] /\ q[i + 1] # q[1] /\ q[i + 1] \in ToSet(q)
      BY <1>5, <1>6, <1>8, <2>1, <2>2, Places
    <2> QED
      BY <1>5, <2>3
  <1>11. ASSUME NEW x \in ToSet(q) \ {r}
         PROVE  x \in ToSet(s)
    <2>1. PICK i \in 1 .. m + 1 : x = q[i]
      BY <1>5, <1>6, Places
    <2>2. i # 1
      BY <1>5, <2>1
    <2>3. i - 1 \in 1 .. m /\ (i - 1) + 1 = i
      BY <1>6, <2>2
    <2>4. s[i - 1] = x
      BY <1>8, <2>1, <2>3
    <2> QED
      BY <1>8, <2>3, <2>4, Places
  <1>12. Len(q) <= N
    BY <1>1, <1>5, NotLonger
  <1>13. s = QueryOver(E, r)
    BY <1>1, <1>2, <1>7 DEF QueryOver
  <1> QED
    BY <1>1, <1>4, <1>6, <1>8, <1>9, <1>10, <1>11, <1>12, <1>13

-----------------------------------------------------------------------------
(* The query, in every state.                                              *)

\* HistoryCache.get's query returns the closure of the edges, each revision once,
\* whatever they are: chains, merges, and the loops of the compressed graph.
THEOREM QueryReturnsClosure == Spec => []QueryIsClosure
  <1>1. FetchedInv => QueryIsClosure
    <2> SUFFICES ASSUME FetchedInv, NEW r \in Revs
                 PROVE  ToSet(Query(r)) = Cached(r) /\ IsInjective(Query(r))
      BY DEF QueryIsClosure
    <2>1. edges \in SUBSET Pairs
      BY DEF FetchedInv, TypeOK
    <2>2. PICK s : s = Query(r)
      OBVIOUS
    <2>3. /\ s \in Seq(Revs) /\ ToSet(s) = Reachable(edges, r) \ {r}
          /\ \A i, j \in 1 .. Len(s) : s[i] = s[j] => i = j
      BY <2>1, <2>2, QueryIsReachable DEF Query
    <2> QED
      BY <2>2, <2>3 DEF Cached, IsInjective
  <1> QED
    BY <1>1, FetchedInvariance, PTL

-----------------------------------------------------------------------------
(* Pages, and their types.                                                 *)

\* The reader changes nothing of what History has.
LEMMA PagesStep ==
  ASSUME [PagesNext]_<<vars, pagesVars>>
  PROVE  [Next]_vars
  BY DEF PagesNext, Request, ListPages, ReadPage, EvictPage, EvictPages, RestartPages, Next

\* What a page lists: the revisions whose places have its quotient.
LEMMA PageItems ==
  ASSUME Configured, NEW h \in Seq(Revs), NEW k \in Nat
  PROVE  /\ Page(h, k) \in Seq(Revs)
         /\ Len(Page(h, k)) <= PageSize
         /\ \A x \in ToSet(Page(h, k)) :
               \E i \in 1 .. Len(h) : x = h[i] /\ (i - 1) \div PageSize = k
         /\ \A i \in 1 .. Len(h) :
               (i - 1) \div PageSize = k => h[i] \in ToSet(Page(h, k))
  <1>1. PICK p \in Nat \ {0} : p = PageSize
    BY DEF Configured
  <1> QED
    BY <1>1, SlicePlaces, SliceItems DEF Page

\* A page is one of the listings, and by-page/ has no other pages than those.
LEMMA PageIsListing ==
  ASSUME Configured, NEW h \in Seq(Revs), NEW k \in Nat
  PROVE  Page(h, k) \in Listings
  <1>1. PICK s \in Seq(Revs) : s = Page(h, k)
    BY PageItems
  <1>2. PICK n \in Nat : n = Len(s)
    OBVIOUS
  <1>3. n \in 0 .. PageSize
    BY <1>1, <1>2, PageItems DEF Configured
  <1>4. s \in [1 .. n -> Revs]
    BY <1>2
  <1> QED
    BY <1>1, <1>3, <1>4 DEF Listings

LEMMA NoPagesType ==
  ASSUME Configured
  PROVE  NoPages \in [Numbers -> Listings]
  <1>1. <<>> \in [1 .. 0 -> Revs] /\ 0 \in 0 .. PageSize
    BY DEF Configured
  <1>2. <<>> \in Listings
    BY <1>1 DEF Listings
  <1> QED
    BY <1>2 DEF NoPages

LEMMA PagesOfQuery ==
  ASSUME Configured, NEW E \in SUBSET Pairs
  PROVE  PagesOf(QueryOver(E, Paged)) \subseteq Numbers /\ Numbers \subseteq Nat
  <1>1. PICK h \in Seq(Revs), N \in Nat : h = QueryOver(E, Paged) /\ N = Cardinality(Revs)
    <2>1. Cardinality(Revs) \in Nat /\ Paged \in Revs
      BY ArchiveAssumption, FS_CardinalityType DEF Configured
    <2> QED
      BY <2>1, QueryIsReachable
  <1>2. PICK p \in Nat \ {0}, n \in Nat : p = PageSize /\ n = Len(h)
    BY DEF Configured
  <1>3. n + 1 <= N
    BY <1>1, <1>2, QueryIsReachable DEF Configured
  <1>4. PICK b \in Nat : b = N - 1
    BY <1>3
  <1>5. PICK last \in Nat : last = b \div p
    BY Quotient
  <1>6. Numbers = 0 .. last
    BY <1>1, <1>2, <1>4, <1>5 DEF Numbers
  <1>7. ASSUME NEW i \in 1 .. n
        PROVE  (i - 1) \div p \in 0 .. last
    <2>1. PICK a \in Nat : a = i - 1 /\ a <= b
      BY <1>3, <1>4
    <2>2. PICK q \in Nat : q = a \div p /\ q <= last
      BY <1>5, <2>1, Quotient, QuotientGrows
    <2> QED
      BY <2>1, <2>2
  <1>8. PagesOf(h) \subseteq 0 .. last
    <2>1. DOMAIN h = 1 .. n
      BY <1>2
    <2> QED
      BY <1>2, <1>7, <2>1 DEF PagesOf
  <1> QED
    BY <1>1, <1>6, <1>8

\* Each step of the reader, and each that is not its own.
LEMMA PagesTypesKept ==
  ASSUME Configured, TypeOK, PagesTypeOK, [PagesNext]_<<vars, pagesVars>>
  PROVE  PagesTypeOK'
  <1>1. edges \in SUBSET Pairs /\ Paged \in Revs
    BY DEF Configured, TypeOK
  <1>2. PICK h \in Seq(Revs) : h = Query(Paged) /\ PagesOf(h) \subseteq Numbers
    BY <1>1, QueryIsReachable, PagesOfQuery DEF Query
  <1>3. CASE UNCHANGED pagesVars
    BY <1>3 DEF pagesVars, PagesTypeOK
  <1>4. CASE ListPages
    BY <1>2, <1>4, NoPagesType DEF ListPages, PagesTypeOK
  <1>5. ASSUME NEW k \in Numbers, ReadPage(k)
        PROVE  PagesTypeOK'
    <2>1. Page(h, k) \in Listings
      BY <1>1, PagesOfQuery, PageIsListing
    <2>2. pages' \in [Numbers -> Listings]
      BY <1>2, <1>5, <2>1 DEF ReadPage, PagesTypeOK
    <2>3. pages'[k] \in Listings
      BY <2>2
    <2> QED
      BY <1>5, <2>2, <2>3 DEF ReadPage, PagesTypeOK
  <1>6. ASSUME NEW k \in Numbers, EvictPage(k)
        PROVE  PagesTypeOK'
    <2>1. NoPages[k] \in Listings /\ NoPages[k] = <<>>
      BY NoPagesType DEF NoPages
    <2> QED
      BY <1>6, <2>1 DEF EvictPage, PagesTypeOK
  <1>7. CASE EvictPages
    BY <1>7 DEF EvictPages, PagesTypeOK
  <1>8. CASE RestartPages
    BY <1>8, NoPagesType DEF RestartPages, PagesTypeOK
  <1> QED
    BY <1>3, <1>4, <1>5, <1>6, <1>7, <1>8 DEF PagesNext, pagesVars

LEMMA PagesTypesInit ==
  ASSUME Configured, Begin
  PROVE  PagesTypeOK
  BY NoPagesType DEF Begin, PagesTypeOK

\* Type correctness of the pages: no page is longer than the page size, and
\* by-page/ has none that the size of the archive does not admit.
THEOREM PagesTypes ==
  ASSUME Configured
  PROVE  PagesSpec => []PagesTypeOK
  <1>1. PagesInit => FetchedInv /\ PagesTypeOK
    BY FetchedInit, PagesTypesInit DEF PagesInit
  <1>2. FetchedInv /\ PagesTypeOK /\ [PagesNext]_<<vars, pagesVars>>
            => FetchedInv' /\ PagesTypeOK'
    BY PagesStep, FetchedKept, PagesTypesKept DEF FetchedInv
  <1> QED
    BY <1>1, <1>2, PTL DEF PagesSpec

-----------------------------------------------------------------------------
(* Pages of one history, and of an earlier one.                            *)

\* Whatever edges are stored, the pages cut from the history that the query returns
\* have all its revisions, and none twice.
THEOREM PagesOfOneHistory ==
  ASSUME Configured, NEW E \in SUBSET Pairs
  PROVE  LET history == QueryOver(E, Paged)
         IN  /\ UNION {ToSet(Page(history, k)) : k \in PagesOf(history)} = ToSet(history)
             /\ \A j, k \in PagesOf(history) :
                   j # k => ToSet(Page(history, j)) \cap ToSet(Page(history, k)) = {}
  <1>1. Paged \in Revs
    BY DEF Configured
  <1>2. PICK h \in Seq(Revs) :
           h = QueryOver(E, Paged) /\ \A i, j \in 1 .. Len(h) : h[i] = h[j] => i = j
    BY <1>1, QueryIsReachable
  <1>3. \A k \in PagesOf(h) : k \in Nat
    BY <1>2, PagesOfQuery
  <1>4. ASSUME NEW k \in PagesOf(h), NEW x \in ToSet(Page(h, k))
        PROVE  \E i \in 1 .. Len(h) : x = h[i] /\ (i - 1) \div PageSize = k
    BY <1>3, PageItems
  <1>5. ASSUME NEW x \in ToSet(h)
        PROVE  \E k \in PagesOf(h) : x \in ToSet(Page(h, k))
    <2>1. PICK i \in 1 .. Len(h) : x = h[i]
      BY Places
    <2>2. PICK k : k = (i - 1) \div PageSize
      OBVIOUS
    <2>3. k \in PagesOf(h)
      <3>1. i \in DOMAIN h
        BY <2>1
      <3> QED
        BY <2>2, <3>1 DEF PagesOf
    <2> QED
      BY <1>3, <2>1, <2>2, <2>3, PageItems
  <1>6. \A k \in PagesOf(h) : ToSet(Page(h, k)) \subseteq ToSet(h)
    BY <1>4, Places
  <1>7. ASSUME NEW j \in PagesOf(h), NEW k \in PagesOf(h),
               NEW x \in ToSet(Page(h, j)), x \in ToSet(Page(h, k))
        PROVE  j = k
    <2>1. PICK i \in 1 .. Len(h) : x = h[i] /\ (i - 1) \div PageSize = j
      BY <1>4
    <2>2. PICK l \in 1 .. Len(h) : x = h[l] /\ (l - 1) \div PageSize = k
      BY <1>4, <1>7
    <2>3. i = l
      BY <1>2, <2>1, <2>2
    <2> QED
      BY <2>1, <2>2, <2>3
  <1> QED
    BY <1>2, <1>5, <1>6, <1>7

\* What is kept of by-page/, and what the program was shown, is in the history.
PagesInv ==
    /\ \A k \in Numbers : ToSet(pages[k]) \cup ToSet(seen[k]) \subseteq Cached(Paged)
    /\ ToSet(start) \subseteq Cached(Paged)

\* Edges are never deleted.
LEMMA HistoryGrows ==
  ASSUME [Next]_vars
  PROVE  Cached(Paged) \subseteq Cached(Paged)'
  <1>1. edges \subseteq edges'
    BY DEF Next, vars, Start, Step, Get, FetchLog, FetchNothing, FetchTraversal, StoreRow,
           StoreEdges, Reget, Dates, Fail, Reply, Remember, Forget, Restart
  <1>2. Reachable(edges, Paged) \subseteq Reachable(edges', Paged)
    BY <1>1, ReachableMonotone
  <1> QED
    BY <1>1, <1>2 DEF Cached

\* Each step of the reader.
LEMMA PagesKept ==
  ASSUME Configured, TypeOK, PagesTypeOK, PagesInv, [PagesNext]_<<vars, pagesVars>>
  PROVE  PagesInv'
  <1>1. PICK C : C = Cached(Paged) /\ C \subseteq Cached(Paged)'
    BY PagesStep, HistoryGrows
  <1>2. edges \in SUBSET Pairs /\ Paged \in Revs
    BY DEF Configured, TypeOK
  <1>3. PICK h \in Seq(Revs) : h = Query(Paged) /\ ToSet(h) = C
    BY <1>1, <1>2, QueryIsReachable DEF Query, Cached
  <1>4. ASSUME NEW k \in Numbers
        PROVE  ToSet(Page(h, k)) \subseteq C
    <2>1. k \in Nat
      BY <1>2, <1>4, PagesOfQuery
    <2> QED
      BY <1>3, <2>1, PageItems, Places
  <1>5. ToSet(<<>>) = {} /\ \A k \in Numbers : NoPages[k] = <<>>
    BY DEF ToSet, NoPages
  <1>6. /\ \A k \in Numbers : ToSet(pages[k]) \subseteq C /\ ToSet(seen[k]) \subseteq C
        /\ ToSet(start) \subseteq C
        /\ pages \in [Numbers -> Listings] /\ seen \in [Numbers -> Listings]
    BY <1>1 DEF PagesInv, PagesTypeOK
  <1>7. SUFFICES /\ \A k \in Numbers : ToSet(pages'[k]) \subseteq C /\ ToSet(seen'[k]) \subseteq C
                 /\ ToSet(start') \subseteq C
    BY <1>1 DEF PagesInv
  <1>8. CASE UNCHANGED pagesVars
    BY <1>6, <1>8 DEF pagesVars
  <1>9. CASE ListPages
    <2>1. (pages' = pages \/ pages' = NoPages) /\ seen' = NoPages /\ start' = h
      BY <1>3, <1>9 DEF ListPages
    <2> QED
      BY <1>3, <1>5, <1>6, <2>1
  <1>10. ASSUME NEW k \in Numbers, ReadPage(k)
         PROVE  /\ \A j \in Numbers : ToSet(pages'[j]) \subseteq C /\ ToSet(seen'[j]) \subseteq C
                /\ ToSet(start') \subseteq C
    <2>1. pages' = pages \/ pages' = [pages EXCEPT ![k] = Page(h, k)]
      BY <1>3, <1>10 DEF ReadPage
    <2>2. \A j \in Numbers : ToSet(pages'[j]) \subseteq C
      BY <1>4, <1>6, <2>1
    <2>3. seen' = [seen EXCEPT ![k] = pages'[k]] /\ start' = start
      BY <1>10 DEF ReadPage
    <2> QED
      BY <1>6, <2>2, <2>3
  <1>11. ASSUME NEW k \in Numbers, EvictPage(k)
         PROVE  /\ \A j \in Numbers : ToSet(pages'[j]) \subseteq C /\ ToSet(seen'[j]) \subseteq C
                /\ ToSet(start') \subseteq C
    BY <1>5, <1>6, <1>11 DEF EvictPage
  <1>12. CASE EvictPages
    BY <1>6, <1>12 DEF EvictPages
  <1>13. CASE RestartPages
    BY <1>5, <1>13 DEF RestartPages
  <1> QED
    BY <1>8, <1>9, <1>10, <1>11, <1>12, <1>13 DEF PagesNext, pagesVars

\* A page that is kept may be older than the history, which grows: it then lacks
\* revisions, but whichever back-end answers, wherever logs are cut and whatever is
\* evicted or restarted, no page has a revision that is not in the history now.
THEOREM KeptPagesOnlyLack ==
  ASSUME Configured
  PROVE  PagesSpec => [](\A k \in Numbers : ToSet(seen[k]) \subseteq Cached(Paged))
  <1>1. PagesInit => FetchedInv /\ PagesTypeOK /\ PagesInv
    <2>1. Begin => PagesInv
      BY DEF Begin, PagesInv, NoPages, ToSet
    <2> QED
      BY <2>1, FetchedInit, PagesTypesInit DEF PagesInit
  <1>2. FetchedInv /\ PagesTypeOK /\ PagesInv /\ [PagesNext]_<<vars, pagesVars>>
            => FetchedInv' /\ PagesTypeOK' /\ PagesInv'
    BY PagesStep, FetchedKept, PagesTypesKept, PagesKept DEF FetchedInv
  <1>3. PagesInv => \A k \in Numbers : ToSet(seen[k]) \subseteq Cached(Paged)
    BY DEF PagesInv
  <1> QED
    BY <1>1, <1>2, <1>3, PTL DEF PagesSpec

\* So with the Web API every page that a program is shown lists ancestors only.
THEOREM WebPagesAreAncestors ==
  ASSUME Configured, Backends = {"web"}
  PROVE  PagesSpec => [](\A k \in Numbers : ToSet(seen[k]) \subseteq Ancestors[Paged])
  <1>1. PagesInit => SoundInv
    BY SoundInit DEF PagesInit
  <1>2. SoundInv /\ [PagesNext]_<<vars, pagesVars>> => SoundInv'
    BY PagesStep, SoundKept
  <1>3. SoundInv => Cached(Paged) \subseteq Ancestors[Paged]
    BY CachedSound DEF Configured
  <1>4. SoundInv /\ (\A k \in Numbers : ToSet(seen[k]) \subseteq Cached(Paged))
            => \A k \in Numbers : ToSet(seen[k]) \subseteq Ancestors[Paged]
    BY <1>3
  <1> QED
    BY <1>1, <1>2, <1>4, KeptPagesOnlyLack, PTL DEF PagesSpec

=============================================================================
