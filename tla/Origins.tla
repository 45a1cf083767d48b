------------------------------ MODULE Origins ------------------------------
(***************************************************************************)
(* origin/: the visits of an origin, kept in visits_cache with the time    *)
(* they were stored at, and asked for again once they are a day old.       *)
(*                                                                         *)
(* A list of visits is a prefix of the visits archived so far (the archive *)
(* only grows), so it is its length.  Users look an origin up, enter it,   *)
(* and list it, once or again.  The clock is the naive local time of the   *)
(* process, which may be set back (the end of the summer time).            *)
(***************************************************************************)

EXTENDS Integers, Sequences

CONSTANTS
    Urls,       \* the origins looked up
    NoUrl,
    Users,      \* each with one request at a time
    Day,        \* ticks of a day
    Slow,       \* bound: ticks the longest request takes
    Shift,      \* ticks the local time may be ahead of its winter value
    MaxTime,    \* bound on the ticks
    MaxVisits   \* bound on the visits archived of an origin

ASSUME UrlAssumption == NoUrl \notin Urls
ASSUME TimeAssumption ==
    /\ Day \in Nat \ {0} /\ Slow \in Nat /\ Shift \in Nat
    /\ MaxTime \in Nat /\ MaxVisits \in Nat
\* Requests are shorter than a day, whatever the local time does meanwhile.
ASSUME SlowAssumption == Slow + Shift < Day

VARIABLES
    time, offset,  \* the ticks since the start, and what the clock adds to them
    visits,        \* for each origin, when each of its visits was archived
    rows,          \* visits_cache: how many of them, and the insertion time
    pc, op,        \* the next step of each user's request, and which one it is
    at,            \* the origin it is about, or whose directory the user is in
    began,         \* when it began
    fetched,       \* what the back-end answered
    saw,           \* the listing of its directory the user got last, -1 if none
    kept,          \* the users for whom the direntry cache still has it
    overlapped,    \* history: those whose answer came before another's was stored
    lost           \* history: the origins whose row went back to fewer visits

request == <<began, fetched, overlapped>>
directory == <<at, saw, kept>>
vars == <<time, offset, visits, rows, lost, pc, op, request, directory>>

NoRow == [count |-> -1, itime |-> 0]

TypeOK ==
    /\ time \in Nat /\ offset \in 0 .. Shift
    /\ visits \in [Urls -> Seq(Nat)]
    /\ rows \in [Urls -> [count : Nat \cup {-1}, itime : Nat]]
    /\ pc \in [Users -> {"idle", "names", "get", "fetch", "store", "reget"}]
    /\ op \in [Users -> {"none", "lookup", "list"}]
    /\ at \in [Users -> Urls \cup {NoUrl}]
    /\ began \in [Users -> Nat]
    /\ fetched \in [Users -> Nat]
    /\ saw \in [Users -> Nat \cup {-1}]
    /\ kept \subseteq Users
    /\ overlapped \subseteq Users
    /\ lost \subseteq Urls

Init ==
    /\ time = 0 /\ offset \in 0 .. Shift
    /\ visits = [u \in Urls |-> <<>>]
    /\ rows = [u \in Urls |-> NoRow]
    /\ pc = [p \in Users |-> "idle"]
    /\ op = [p \in Users |-> "none"]
    /\ at = [p \in Users |-> NoUrl]
    /\ began = [p \in Users |-> 0]
    /\ fetched = [p \in Users |-> 0]
    /\ saw = [p \in Users |-> -1]
    /\ kept = {}
    /\ overlapped = {}
    /\ lost = {}

-----------------------------------------------------------------------------
(* The world.                                                              *)

clock == time + offset

\* The archive visits an origin.
Archive(u) ==
    /\ Len(visits[u]) < MaxVisits
    /\ visits' = [visits EXCEPT ![u] = Append(@, time)]
    /\ UNCHANGED <<time, offset, rows, lost, pc, op, request, directory>>

Tick ==
    /\ time < MaxTime
    /\ \A p \in Users : pc[p] # "idle" => time - began[p] < Slow
    /\ time' = time + 1
    /\ UNCHANGED <<offset, visits, rows, lost, pc, op, request, directory>>

\* The local time changes.
SetClock ==
    /\ offset' \in 0 .. Shift
    /\ UNCHANGED <<time, visits, rows, lost, pc, op, request, directory>>

world == <<time, offset, visits>>

-----------------------------------------------------------------------------
(* Requests.                                                               *)

Begin(p, o, label) ==
    /\ pc[p] = "idle"
    /\ pc' = [pc EXCEPT ![p] = label]
    /\ op' = [op EXCEPT ![p] = o]
    /\ began' = [began EXCEPT ![p] = time]
    /\ UNCHANGED <<fetched, overlapped>>

GoTo(p, label) ==
    /\ pc' = [pc EXCEPT ![p] = label]
    /\ UNCHANGED <<op, request, directory>>

\* The request is over, and its local variables are gone.
End(p) ==
    /\ pc' = [pc EXCEPT ![p] = "idle"]
    /\ op' = [op EXCEPT ![p] = "none"]
    /\ began' = [began EXCEPT ![p] = 0]
    /\ fetched' = [fetched EXCEPT ![p] = 0]
    /\ overlapped' = overlapped \ {p}

\* ENOENT; a user who could not look an origin up is not in its directory.
EndInError(p) ==
    /\ End(p)
    /\ at' = IF op[p] = "lookup" THEN [at EXCEPT ![p] = NoUrl] ELSE at
    /\ UNCHANGED <<saw, kept>>

Has(u) == rows[u] # NoRow

\* Mutant: "> 1" for ">= 1": two whole days.
MutFresh(u) == Has(u) /\ clock - rows[u].itime < 2 * Day

\* MetadataCache.get_visits: a row a day old is none.
Fresh(u) == Has(u) /\ clock - rows[u].itime < Day

\* The user goes to origin/ and looks a name up.
Lookup(p, u) ==
    /\ Begin(p, "lookup", "names")
    /\ at' = [at EXCEPT ![p] = u]
    /\ saw' = [saw EXCEPT ![p] = -1]
    /\ kept' = kept \ {p}
    /\ UNCHANGED <<world, rows, lost>>

\* OriginDir.lookup: the listing of origin/ is computed from the rows, whatever
\* their age; a name that is not in it is mounted on the fly.
ListNames(p) ==
    /\ pc[p] = "names"
    /\ \/ Has(at[p]) /\ End(p) /\ UNCHANGED directory
       \/ ~Has(at[p]) /\ GoTo(p, "get")
    /\ UNCHANGED <<world, rows, lost>>

\* The user lists its directory again, and its entries are no longer kept (an
\* empty listing counts as none).
List(p) ==
    /\ at[p] # NoUrl
    /\ p \notin kept \/ saw[p] = 0
    /\ Begin(p, "list", "get")
    /\ UNCHANGED <<world, rows, lost, directory>>

\* Mutant: a visit that cannot be typed is left out.
MutAnswer(p) ==
    /\ End(p)
    /\ UNCHANGED at
    /\ kept' = kept \cup {p}
    /\ \E count \in 0 .. rows[at[p]].count : saw' = [saw EXCEPT ![p] = count]

\* What get_visits returns: a lookup drops it, a listing keeps it.
Answer(p) ==
    /\ End(p)
    /\ UNCHANGED at
    /\ kept' = IF op[p] = "list" THEN kept \cup {p} ELSE kept
    /\ saw' = IF op[p] = "list"
                THEN [saw EXCEPT ![p] = rows[at[p]].count] ELSE saw

\* Fuse.get_visits: the cache first.
Get(p) ==
    /\ pc[p] = "get"
    /\ \/ Fresh(at[p]) /\ Answer(p)
       \/ ~Fresh(at[p]) /\ GoTo(p, "fetch")
    /\ UNCHANGED <<world, rows, lost>>

\* Mutant: a page of visits that fails to come is skipped.
MutFetch(p) ==
    /\ pc[p] = "fetch"
    /\ pc' = [pc EXCEPT ![p] = "store"]
    /\ \E n \in 0 .. Len(visits[at[p]]) : fetched' = [fetched EXCEPT ![p] = n]
    /\ overlapped' = overlapped \ {p}
    /\ UNCHANGED <<world, rows, lost, op, began, directory>>

\* The back-end answers with the visits of the moment; of an origin that has none,
\* with an empty list, or that "origin does not exist", which a lookup turns into
\* None.
Fetch(p) ==
    /\ pc[p] = "fetch"
    /\ \/ /\ pc' = [pc EXCEPT ![p] = "store"]
          /\ fetched' = [fetched EXCEPT ![p] = Len(visits[at[p]])]
          /\ overlapped' = overlapped \ {p}
          /\ UNCHANGED <<op, began, directory>>
       \/ visits[at[p]] = <<>> /\ EndInError(p)
    /\ UNCHANGED <<world, rows, lost>>

\* Mutant: the insertion time is left out.
MutStoreTimeless(p) ==
    /\ pc[p] = "store"
    /\ rows' = [rows EXCEPT ![at[p]] = [count |-> fetched[p]]]
    /\ pc' = [pc EXCEPT ![p] = "reget"]
    /\ UNCHANGED <<world, lost, op, request, directory>>

\* Mutant: "insert or ignore", as for the metadata.
MutStore(p) ==
    LET u == at[p]
    IN  /\ pc[p] = "store"
        /\ rows' = [rows EXCEPT ![u] =
                       IF Has(u) THEN @ ELSE [count |-> fetched[p], itime |-> clock]]
        /\ pc' = [pc EXCEPT ![p] = "reget"]
        /\ UNCHANGED <<world, lost, op, request, directory>>

\* MetadataCache.set_visits: "insert or replace", with the time of now.
Store(p) ==
    LET u == at[p]
    IN  /\ pc[p] = "store"
        /\ rows' = [rows EXCEPT ![u] = [count |-> fetched[p], itime |-> clock]]
        /\ lost' = IF fetched[p] < rows[u].count THEN lost \cup {u} ELSE lost
        /\ overlapped' = overlapped \cup
               {q \in Users \ {p} : pc[q] = "store" /\ at[q] = u}
        /\ pc' = [pc EXCEPT ![p] = "reget"]
        /\ UNCHANGED <<world, op, began, fetched, directory>>

\* get_visits reads its row again.  Were it None, Origin.compute_entries would
\* raise; a lookup drops it.
Reget(p) ==
    /\ pc[p] = "reget"
    /\ IF Fresh(at[p]) \/ op[p] = "lookup" THEN Answer(p) ELSE EndInError(p)
    /\ UNCHANGED <<world, rows, lost>>

\* The back-end raises something else, or SQLite does.
Fail(p) ==
    /\ pc[p] # "idle"
    /\ EndInError(p)
    /\ UNCHANGED <<world, rows, lost>>

\* The direntry cache evicts the listing of the user's directory.
Evict(p) ==
    /\ p \in kept
    /\ kept' = kept \ {p}
    /\ UNCHANGED <<world, rows, lost, pc, op, request, at, saw>>

Step(p) ==
    ListNames(p) \/ Get(p) \/ Fetch(p) \/ Store(p) \/ Reget(p) \/ Fail(p)

Next ==
    \/ \E u \in Urls : Archive(u)
    \/ Tick \/ SetClock
    \/ \E p \in Users, u \in Urls : Lookup(p, u)
    \/ \E p \in Users : List(p) \/ Evict(p) \/ Step(p)

Spec == Init /\ [][Next]_vars

-----------------------------------------------------------------------------
(* Properties.                                                             *)

\* The visits up to some time are among the first n.
Covers(u, n, until) ==
    \A k \in 1 .. Len(visits[u]) : visits[u][k] <= until => k <= n

\* What the cache answers with as fresh misses no visit older than a day, the
\* longest request and the change of the clock together: through overlapping
\* requests, slow answers and overwritten rows.
FreshVisits ==
    \A u \in Urls :
        Fresh(u) => Covers(u, rows[u].count, time - (Day + Slow + Shift))

\* A row is replaced by one with fewer visits only by a request that had its
\* answer before another one stored its own.
LostOnlyByOverlap ==
    [][\A u \in Urls : rows'[u].count < rows[u].count =>
          \E p \in Users : pc[p] = "store" /\ at[p] = u /\ p \in overlapped]_vars

\* A user who stays in an origin's directory sees its visits disappear only if
\* the row did go back: whatever is evicted, and whoever else stores.
VisitsOnlyGrow ==
    [][\A p \in Users : saw'[p] # -1 /\ saw'[p] < saw[p] => at[p] \in lost]_vars

\* What get_visits reads again after it has stored it is not a day old yet, so
\* it never returns the None that Origin.compute_entries would iterate over.
RegetIsFresh == \A p \in Users : pc[p] = "reget" => Fresh(at[p])

-----------------------------------------------------------------------------
(* The inductive invariant behind them.                                    *)

\* A row has what was archived when the request that stored it began.
RowInv(u) ==
    /\ rows[u].count <= Len(visits[u])
    /\ Has(u) => /\ rows[u].itime <= time + Shift
                 /\ Covers(u, rows[u].count, rows[u].itime - (Slow + Shift + 1))

\* What a request knows of its origin, and what the row still has of it.
RequestInv(p) ==
    /\ pc[p] # "idle" => at[p] \in Urls /\ began[p] <= time /\ time <= began[p] + Slow
    /\ pc[p] = "store" =>
           /\ fetched[p] \in 0 .. Len(visits[at[p]])
           /\ Covers(at[p], fetched[p], began[p] - 1)
           /\ p \in overlapped \/ rows[at[p]].count <= fetched[p]
    /\ pc[p] = "reget" => Has(at[p]) /\ began[p] <= rows[at[p]].itime

\* What a user saw is in the row, unless it went back.
SeenInv(p) == at[p] \in Urls \ lost => saw[p] <= rows[at[p]].count

IInv ==
    /\ TypeOK
    /\ \A u \in Urls : RowInv(u)
    /\ \A p \in Users : RequestInv(p) /\ SeenInv(p)

=============================================================================
