---------------------------- MODULE HistoryPages ----------------------------
(***************************************************************************)
(* The listing history/by-page of one revision.  by-page/ has a directory  *)
(* for each PageSize revisions of the history, in the order in which the   *)
(* query returns them, and each page cuts its part from a history it asks  *)
(* for again.  Both stay in the direntry cache once listed, while requests *)
(* for other revisions add edges to the table (History).                   *)
(*                                                                         *)
(* A program reads the pages one after another.  Where the history is not  *)
(* in the table yet, the get_history of its listing is that of a task.     *)
(* A log holds fewer revisions than a page (1000, and 10,000 to a page): a *)
(* long history is known by and by, as requests for revisions further back *)
(* fetch their logs.                                                       *)
(***************************************************************************)

EXTENDS HistoryQuery

CONSTANTS
    Paged,    \* the revision whose history/by-page is read
    PageSize  \* PAGE_SIZE (10_000)

Configured == Paged \in Revs /\ PageSize \in Nat \ {0}

VARIABLES
    top,    \* the pages that by-page/ lists, in the direntry cache
    pages,  \* the revisions each of them lists, in the direntry cache
    reads,  \* the pages the program has to read, those it was shown by by-page/
    seen,   \* and the revisions it was shown in each that it has read
    start   \* history: the history, when it listed by-page/

pagesVars == <<top, pages, reads, seen, start>>

Numbers == 0 .. (Cardinality(Revs) - 1) \div PageSize
NoPages == [k \in Numbers |-> <<>>]
Listings == UNION {[1 .. n -> Revs] : n \in 0 .. PageSize}

PagesTypeOK ==
    /\ top \subseteq Numbers
    /\ pages \in [Numbers -> Listings]
    /\ reads \subseteq Numbers
    /\ seen \in [Numbers -> Listings]
    /\ start \in Seq(Revs)

Begin ==
    /\ top = {}
    /\ pages = NoPages
    /\ reads = {}
    /\ seen = NoPages
    /\ start = <<>>

-----------------------------------------------------------------------------
(* The reader.                                                             *)

PagesOf(history) == {(i - 1) \div PageSize : i \in DOMAIN history}

Page(history, k) == Slice(history, PageSize, k)

\* by-page/ is listed, from the direntry cache or anew: its pages are new
\* directories then, of which none has been listed.
ListPages ==
    /\ Cached(Paged) # {}
    /\ \/ top # {} /\ UNCHANGED <<top, pages>>
       \/ top = {} /\ top' = PagesOf(Query(Paged)) /\ pages' = NoPages
    /\ reads' = top'
    /\ seen' = NoPages
    /\ start' = Query(Paged)
    /\ UNCHANGED vars

\* A page is listed, from the direntry cache or from the history as it is now.
ReadPage(k) ==
    /\ k \in reads
    /\ \/ pages[k] # <<>> /\ UNCHANGED pages
       \/ pages[k] = <<>> /\ pages' = [pages EXCEPT ![k] = Page(Query(Paged), k)]
    /\ seen' = [seen EXCEPT ![k] = pages'[k]]
    /\ reads' = reads \ {k}
    /\ UNCHANGED <<top, start>>
    /\ UNCHANGED vars

\* The LRU drops a listing.
EvictPage(k) ==
    /\ pages[k] # <<>>
    /\ pages' = [pages EXCEPT ![k] = <<>>]
    /\ UNCHANGED <<top, reads, seen, start>>
    /\ UNCHANGED vars

EvictPages ==
    /\ top # {}
    /\ top' = {}
    /\ UNCHANGED <<pages, reads, seen, start>>
    /\ UNCHANGED vars

\* The direntry cache is lost with the process, and the program stops.
RestartPages ==
    /\ Restart
    /\ top' = {}
    /\ pages' = NoPages
    /\ reads' = {}
    /\ seen' = NoPages
    /\ start' = <<>>

Request ==
    \/ \E t \in Tasks, v \in Views, r \in Revs : Start(t, v, r)
    \/ \E t \in Tasks : Step(t)
    \/ \E x \in Revs : Remember(x) \/ Forget(x)

PagesInit == Init /\ Begin

PagesNext ==
    \/ Request /\ UNCHANGED pagesVars
    \/ ListPages
    \/ \E k \in Numbers : ReadPage(k) \/ EvictPage(k)
    \/ EvictPages
    \/ RestartPages

PagesSpec == PagesInit /\ [][PagesNext]_<<vars, pagesVars>>

-----------------------------------------------------------------------------
(* What the documentation says, and the code does not do.                  *)

\* "We assume that no cache invalidation is necessary, due to [...] append-only
\* archive changes": a program that reads every page it is shown while the history
\* stays the same finds each of its revisions, on one page.  The pages may have
\* been listed before, for other programs; but the history is what is known of
\* the archive, and grows with each log that is fetched.
PagesAreHistory ==
    start # <<>> /\ reads = {} /\ start = Query(Paged) =>
        /\ UNION {ToSet(seen[k]) : k \in Numbers} = ToSet(start)
        /\ \A j, k \in Numbers : j # k => ToSet(seen[j]) \cap ToSet(seen[k]) = {}

=============================================================================
